------------------------- MODULE WebhookLeaseProofs -------------------------
(* Proofs about the webhook lease, for any events, workers, times to live  *)
(* and deadline that satisfy LeaseAssumption.                              *)
EXTENDS WebhookLease, TLAPS

LEMMA InitInv == Init => LeaseInv
BY LeaseAssumption
   DEF Init, LeaseInv, TypeOK, WithinDeadline, Exclusive, OwnsLease,
       FailedHoldsLease, Lease, NoLease, Job, Idle

(* The facts about one record and one job every action case rests on.      *)
LEMMA RecordTypes ==
    ASSUME NEW t \in Nat
    PROVE  Reserved(t) \in Lease /\ Completed(t) \in Lease
BY LeaseAssumption DEF Reserved, Completed, Lease

LEMMA ReleasedType == \A l \in Lease : Released(l) \in Lease
BY DEF Released, NoLease, Lease

LEMMA IdleType == Idle \in Job
BY DEF Idle, Job

(* No handler is at work on an event whose record is not held.             *)
LEMMA NoJobOnFreeEvent ==
    ASSUME LeaseInv, NEW e \in Events, ~ Held(lease[e], now), NEW w \in Workers,
           job[w].phase # "idle"
    PROVE  job[w].event # e
<1>1. job[w].phase \in {"working", "failed"} /\ job[w].since \in Nat /\ now \in Nat
  BY DEF LeaseInv, TypeOK, Job
<1>2. CASE job[w].phase = "working"
  <2>1. /\ lease[job[w].event] = Reserved(job[w].since)
        /\ now < job[w].since + ProcessingTtl
    BY <1>2 DEF LeaseInv, OwnsLease
  <2>2. Held(Reserved(job[w].since), now)
    BY <1>1, <2>1, LeaseAssumption DEF Held, Reserved
  <2> QED BY <2>1, <2>2
<1>3. CASE job[w].phase = "failed"
  <2>1. /\ lease[job[w].event] \in Lease
        /\ lease[job[w].event].state # "none"
        /\ lease[job[w].event].expiresAt >= job[w].since + ProcessingTtl
        /\ now <= job[w].since + HandlerDeadline
    BY <1>3 DEF LeaseInv, FailedHoldsLease, WithinDeadline, TypeOK
  <2>2. Held(lease[job[w].event], now)
    BY <1>1, <2>1, LeaseAssumption DEF Held, Lease
  <2> QED BY <2>2
<1> QED BY <1>1, <1>2, <1>3

LEMMA ReserveInv ==
    ASSUME LeaseInv, NEW w \in Workers, NEW e \in Events, Reserve(w, e)
    PROVE  LeaseInv'
<1> DEFINE j == [phase |-> "working", event |-> e, since |-> now]
<1>0. now \in Nat /\ job \in [Workers -> Job] /\ lease \in [Events -> Lease]
  BY DEF LeaseInv, TypeOK
<1>1. /\ job' = [job EXCEPT ![w] = j]
      /\ lease' = [lease EXCEPT ![e] = Reserved(now)]
      /\ now' = now
      /\ ~ Held(lease[e], now)
      /\ job[w] = Idle
  BY DEF Reserve
<1>2. j \in Job /\ Reserved(now) \in Lease
  BY <1>0, LeaseAssumption DEF Job, Reserved, Lease
<1>3. TypeOK'
  BY <1>0, <1>1, <1>2 DEF TypeOK
<1>4. job'[w] = j /\ \A v \in Workers : v # w => job'[v] = job[v]
  BY <1>0, <1>1
<1>5. \A v \in Workers : v # w /\ job[v].phase # "idle" => job[v].event # e
  BY <1>1, NoJobOnFreeEvent
<1>6. WithinDeadline'
  BY <1>0, <1>1, <1>4, LeaseAssumption DEF LeaseInv, WithinDeadline, Idle
<1>7. Exclusive'
  <2> SUFFICES ASSUME NEW v \in Workers, NEW x \in Workers,
                      job'[v].phase # "idle", job'[v].event = job'[x].event
               PROVE  v = x
    BY DEF Exclusive
  <2>1. CASE v = w /\ x # w
    <3>1. job[x].event = e
      BY <2>1, <1>4
    <3>2. job[x].phase # "idle"
      BY <3>1, LeaseAssumption DEF LeaseInv, WithinDeadline, Idle
    <3> QED BY <3>1, <3>2, <2>1, <1>5
  <2>2. CASE v # w /\ x = w
    BY <2>2, <1>4, <1>5
  <2>3. CASE v # w /\ x # w
    BY <2>3, <1>4 DEF LeaseInv, Exclusive
  <2> QED BY <2>1, <2>2, <2>3
<1>8. \A v \in Workers : v # w /\ job[v].phase # "idle" =>
          lease'[job[v].event] = lease[job[v].event]
  BY <1>0, <1>1, <1>5 DEF LeaseInv, WithinDeadline
<1>9. OwnsLease'
  <2> SUFFICES ASSUME NEW v \in Workers, job'[v].phase = "working"
               PROVE  /\ lease'[job'[v].event] = Reserved(job'[v].since)
                      /\ now' < job'[v].since + ProcessingTtl
    BY <1>1 DEF OwnsLease, Reserved
  <2>1. CASE v = w
    BY <2>1, <1>0, <1>1, <1>4, LeaseAssumption
  <2>2. CASE v # w
    BY <2>2, <1>1, <1>4, <1>8 DEF LeaseInv, OwnsLease
  <2> QED BY <2>1, <2>2
<1>10. FailedHoldsLease'
  <2> SUFFICES ASSUME NEW v \in Workers, job'[v].phase = "failed"
               PROVE  /\ lease'[job'[v].event].state # "none"
                      /\ lease'[job'[v].event].expiresAt
                            >= job'[v].since + ProcessingTtl
    BY DEF FailedHoldsLease
  <2>1. v # w
    BY <1>4
  <2> QED BY <2>1, <1>1, <1>4, <1>8 DEF LeaseInv, FailedHoldsLease
<1> QED BY <1>3, <1>6, <1>7, <1>9, <1>10 DEF LeaseInv

LEMMA ReserveUnheardInv ==
    ASSUME LeaseInv, NEW e \in Events, ReserveUnheard(e)
    PROVE  LeaseInv'
<1>1. /\ now \in Nat /\ lease \in [Events -> Lease]
      /\ lease' = [lease EXCEPT ![e] = Reserved(now)]
      /\ now' = now /\ job' = job
      /\ ~ Held(lease[e], now)
  BY DEF LeaseInv, TypeOK, ReserveUnheard
<1>2. TypeOK'
  BY <1>1, RecordTypes DEF LeaseInv, TypeOK
<1>3. \A v \in Workers : job[v].phase # "idle" =>
          lease'[job[v].event] = lease[job[v].event]
  BY <1>1, NoJobOnFreeEvent DEF LeaseInv, WithinDeadline
<1>4. OwnsLease'
  BY <1>1, <1>3 DEF LeaseInv, OwnsLease, Reserved
<1>5. FailedHoldsLease'
  BY <1>1, <1>3 DEF LeaseInv, FailedHoldsLease
<1> QED BY <1>1, <1>2, <1>4, <1>5 DEF LeaseInv, WithinDeadline, Exclusive

(* Every way a handler ends: its job becomes idle, and at most its own     *)
(* event's record changes.                                                 *)
LEMMA EndInv ==
    ASSUME LeaseInv, NEW w \in Workers, job[w].phase # "idle",
           job' = [job EXCEPT ![w] = Idle], now' = now,
           lease' \in [Events -> Lease],
           \A e \in Events : e # job[w].event => lease'[e] = lease[e]
    PROVE  LeaseInv'
<1>1. job \in [Workers -> Job] /\ now \in Nat
  BY DEF LeaseInv, TypeOK
<1>2. job'[w] = Idle /\ \A v \in Workers : v # w => job'[v] = job[v]
  BY <1>1
<1>3. TypeOK'
  BY <1>1, IdleType DEF LeaseInv, TypeOK
<1>4. \A v \in Workers : job'[v].phase # "idle" =>
          /\ v # w
          /\ job'[v] = job[v]
          /\ lease'[job[v].event] = lease[job[v].event]
  BY <1>2 DEF LeaseInv, WithinDeadline, Exclusive, Idle
<1>5. WithinDeadline'
  BY <1>2, <1>4 DEF LeaseInv, WithinDeadline, Idle
<1>6. Exclusive'
  BY <1>2, <1>4, LeaseAssumption DEF LeaseInv, Exclusive, WithinDeadline, Idle
<1>7. OwnsLease'
  BY <1>4 DEF LeaseInv, OwnsLease, Reserved, Idle
<1>8. FailedHoldsLease'
  BY <1>4 DEF LeaseInv, FailedHoldsLease, Idle
<1> QED BY <1>3, <1>5, <1>6, <1>7, <1>8 DEF LeaseInv

(* A working handler fails: only its phase changes, and its event is still *)
(* held.                                                                   *)
LEMMA FailInv ==
    ASSUME LeaseInv, NEW w \in Workers, job[w].phase = "working",
           job' = [job EXCEPT ![w].phase = "failed"], now' = now,
           lease' \in [Events -> Lease],
           lease'[job[w].event].state # "none",
           lease'[job[w].event].expiresAt >= job[w].since + ProcessingTtl,
           \A e \in Events : e # job[w].event => lease'[e] = lease[e]
    PROVE  LeaseInv'
<1>1. job \in [Workers -> Job] /\ now \in Nat
  BY DEF LeaseInv, TypeOK
<1>2. /\ job'[w] = [job[w] EXCEPT !.phase = "failed"]
      /\ \A v \in Workers : v # w => job'[v] = job[v]
  BY <1>1
<1>3. /\ job'[w] \in Job
      /\ job'[w].phase = "failed"
      /\ job'[w].event = job[w].event /\ job'[w].since = job[w].since
  BY <1>1, <1>2 DEF Job
<1>4. TypeOK'
  BY <1>1, <1>2, <1>3 DEF LeaseInv, TypeOK
<1>5. \A v \in Workers : job[v].phase # "idle" /\ v # w =>
          lease'[job[v].event] = lease[job[v].event]
  BY DEF LeaseInv, WithinDeadline, Exclusive
<1>6. WithinDeadline'
  BY <1>2, <1>3 DEF LeaseInv, WithinDeadline, Idle
<1>7. Exclusive'
  BY <1>2, <1>3 DEF LeaseInv, Exclusive
<1>8. OwnsLease'
  BY <1>2, <1>3, <1>5 DEF LeaseInv, OwnsLease, Reserved
<1>9. FailedHoldsLease'
  BY <1>2, <1>3, <1>5 DEF LeaseInv, FailedHoldsLease
<1> QED BY <1>4, <1>6, <1>7, <1>8, <1>9 DEF LeaseInv

LEMMA TickInv ==
    ASSUME LeaseInv, Tick
    PROVE  LeaseInv'
<1>1. /\ now \in Nat /\ now' = now + 1 /\ lease' = lease /\ job' = job
      /\ \A w \in Workers : job[w].phase # "idle" =>
            now < job[w].since + HandlerDeadline
      /\ \A w \in Workers : job[w].since \in Nat
  BY DEF LeaseInv, TypeOK, Tick, Job
<1>2. WithinDeadline'
  BY <1>1, LeaseAssumption DEF LeaseInv, WithinDeadline, Idle
<1>3. OwnsLease'
  BY <1>1, LeaseAssumption DEF LeaseInv, OwnsLease, Reserved
<1>4. TypeOK' /\ Exclusive' /\ FailedHoldsLease'
  BY <1>1 DEF LeaseInv, TypeOK, Exclusive, FailedHoldsLease
<1> QED BY <1>2, <1>3, <1>4 DEF LeaseInv

-----------------------------------------------------------------------------
LEMMA NextInv == LeaseInv /\ [Next]_vars => LeaseInv'
<1> SUFFICES ASSUME LeaseInv, [Next]_vars
             PROVE  LeaseInv'
  OBVIOUS
<1>0. /\ now \in Nat /\ lease \in [Events -> Lease] /\ job \in [Workers -> Job]
      /\ \A w \in Workers : job[w].phase # "idle" =>
            /\ job[w].event \in Events
            /\ job[w].since \in Nat /\ job[w].since <= now
  BY DEF LeaseInv, TypeOK, WithinDeadline, Job
<1>1. ASSUME NEW e \in Events, ReserveUnheard(e)
      PROVE  LeaseInv'
  BY <1>1, ReserveUnheardInv
<1>2. ASSUME NEW w \in Workers, NEW e \in Events, Reserve(w, e)
      PROVE  LeaseInv'
  BY <1>2, ReserveInv
<1>3. ASSUME NEW w \in Workers, Complete(w)
      PROVE  LeaseInv'
  <2>1. Completed(now) \in Lease
    BY <1>0, RecordTypes
  <2> QED BY <1>0, <1>3, <2>1, EndInv DEF Complete
<1>4. ASSUME NEW w \in Workers, CompleteUnheard(w)
      PROVE  LeaseInv'
  <2>1. Completed(now) \in Lease
    BY <1>0, RecordTypes
  <2>2. /\ lease' = [lease EXCEPT ![job[w].event] = Completed(now)]
        /\ job[w].phase = "working" /\ job[w].event \in Events
    BY <1>0, <1>4 DEF CompleteUnheard
  <2>3. /\ lease'[job[w].event].state # "none"
        /\ lease'[job[w].event].expiresAt >= job[w].since + ProcessingTtl
    BY <1>0, <2>2, LeaseAssumption DEF Completed
  <2> QED BY <1>0, <1>4, <2>1, <2>2, <2>3, FailInv DEF CompleteUnheard
<1>5. ASSUME NEW w \in Workers, Fail(w)
      PROVE  LeaseInv'
  <2>1. /\ lease' = lease /\ now' = now
        /\ job[w].phase = "working"
        /\ job' = [job EXCEPT ![w].phase = "failed"]
    BY <1>5 DEF Fail
  <2>2. lease[job[w].event] = Reserved(job[w].since)
    BY <2>1 DEF LeaseInv, OwnsLease
  <2>3. /\ lease'[job[w].event].state # "none"
        /\ lease'[job[w].event].expiresAt >= job[w].since + ProcessingTtl
    BY <1>0, <2>1, <2>2, LeaseAssumption DEF Reserved
  <2> QED BY <1>0, <2>1, <2>3, FailInv
<1>6. ASSUME NEW w \in Workers, Release(w)
      PROVE  LeaseInv'
  <2>1. Released(lease[job[w].event]) \in Lease
    BY <1>0, <1>6, ReleasedType DEF Release
  <2> QED BY <1>0, <1>6, <2>1, EndInv DEF Release
<1>7. ASSUME NEW w \in Workers, Abandon(w)
      PROVE  LeaseInv'
  BY <1>0, <1>7, EndInv DEF Abandon
<1>8. CASE Tick
  BY <1>8, TickInv
<1>9. CASE UNCHANGED vars
  BY <1>9 DEF vars, LeaseInv, TypeOK, WithinDeadline, Exclusive, OwnsLease,
              FailedHoldsLease, Reserved
<1> QED BY <1>1, <1>2, <1>3, <1>4, <1>5, <1>6, <1>7, <1>8, <1>9 DEF Next

(* Every reachable state has the shape the code gives it and satisfies the *)
(* inductive invariant of the lease protocol.                              *)
THEOREM LeaseInvariant == Spec => []LeaseInv
BY InitInv, NextInv, PTL DEF Spec

(* Two invocations never handle one event at once, whatever calls are      *)
(* lost, as long as an invocation is over before its reservation expires.  *)
THEOREM MutualExclusion == Spec => []Exclusive
<1>1. LeaseInv => Exclusive
  BY DEF LeaseInv
<1> QED BY <1>1, LeaseInvariant, PTL

(* A completed event is not re-opened during its time to live.             *)
THEOREM CompletionIsFinal == Spec => CompletedSticks
<1> DEFINE Sticks ==
      \A e \in Events :
          lease[e].state = "completed" /\ lease[e].expiresAt > now
          => lease'[e] = lease[e]
<1>1. ASSUME LeaseInv, [Next]_vars PROVE Sticks
  <2> SUFFICES ASSUME NEW e \in Events,
                      lease[e].state = "completed", lease[e].expiresAt > now
               PROVE  lease'[e] = lease[e]
    OBVIOUS
  <2>0. now \in Nat /\ lease \in [Events -> Lease] /\ lease[e].expiresAt \in Nat
    BY <1>1 DEF LeaseInv, TypeOK, Lease
  <2>1. Held(lease[e], now) /\ Released(lease[e]) = lease[e]
    BY DEF Held, Released
  <2>2. ASSUME NEW f \in Events, ReserveUnheard(f) \/ \E w \in Workers : Reserve(w, f)
        PROVE  lease'[e] = lease[e]
    <3>1. ~ Held(lease[f], now) /\ lease' = [lease EXCEPT ![f] = Reserved(now)]
      BY <2>2 DEF Reserve, ReserveUnheard
    <3> QED BY <2>0, <2>1, <3>1
  <2>3. ASSUME NEW w \in Workers, Release(w)
        PROVE  lease'[e] = lease[e]
    BY <2>0, <2>1, <2>3 DEF Release
  <2>4. ASSUME NEW w \in Workers, Fail(w) \/ Abandon(w)
        PROVE  lease'[e] = lease[e]
    BY <2>4 DEF Fail, Abandon
  <2>5. ASSUME NEW w \in Workers, Complete(w) \/ CompleteUnheard(w)
        PROVE  lease'[e] = lease[e]
    <3>1. /\ job[w].phase = "working"
          /\ lease' = [lease EXCEPT ![job[w].event] = Completed(now)]
      BY <2>5 DEF Complete, CompleteUnheard
    <3>2. lease[job[w].event] = Reserved(job[w].since)
      BY <1>1, <3>1 DEF LeaseInv, OwnsLease
    <3>3. lease[job[w].event].state = "processing"
      BY <3>2 DEF Reserved
    <3> QED BY <2>0, <3>1, <3>3
  <2> QED BY <1>1, <2>2, <2>3, <2>4, <2>5 DEF Next, Tick, vars
<1>2. LeaseInv /\ [Next]_vars => [Sticks]_vars
  BY <1>1
<1> QED BY <1>2, LeaseInvariant, PTL DEF Spec, CompletedSticks

=============================================================================
