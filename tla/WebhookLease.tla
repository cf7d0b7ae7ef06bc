---------------------------- MODULE WebhookLease ----------------------------
(***************************************************************************)
(* The lease the NewsIngestCoordinator Durable Object keeps per webhook    *)
(* event, and the handlers that take, complete and release it.             *)
(*                                                                         *)
(* A handler reserves an event, works on it, and then either completes the *)
(* lease or, after an error, releases it.  The object runs each of the     *)
(* three calls under blockConcurrencyWhile, so a call is one step; a call  *)
(* can take effect and its answer still be lost.  A handler may be         *)
(* cancelled at any await: the edge aborts the forwarded request after     *)
(* HandlerDeadline.                                                        *)
(***************************************************************************)
EXTENDS Integers

CONSTANTS
    Events,          \* the ids of the webhook events
    Workers,         \* the invocations that can handle a webhook
    NoEvent,         \* the event of an idle worker
    ProcessingTtl,   \* how long a reservation lasts
    CompletedTtl,    \* how long a completed event is remembered
    HandlerDeadline, \* the age at which an invocation has been cancelled
    MaxTime          \* bound of the clock

ASSUME LeaseAssumption ==
    /\ NoEvent \notin Events
    /\ ProcessingTtl \in Nat
    /\ CompletedTtl \in Nat
    /\ HandlerDeadline \in Nat
    /\ MaxTime \in Nat
    /\ HandlerDeadline < ProcessingTtl
    /\ ProcessingTtl <= CompletedTtl

VARIABLES
    now,    \* Date.now() of the coordinator
    lease,  \* storage of the coordinator, one record per event
    job     \* what each worker is doing

vars == <<now, lease, job>>

Lease == [state : {"none", "processing", "completed"}, expiresAt : Nat]

NoLease == [state |-> "none", expiresAt |-> 0]

Job == [phase : {"idle", "working", "failed"},
        event : Events \cup {NoEvent},
        since : Nat]

Idle == [phase |-> "idle", event |-> NoEvent, since |-> 0]

-----------------------------------------------------------------------------
(* What the three calls do to one record.                                  *)

(* Mutant of Held: only a completed event counts as a duplicate.           *)
HeldIfCompleted(l, t) == l.state = "completed" /\ l.expiresAt > t

Held(l, t) == l.state # "none" /\ l.expiresAt > t

Reserved(t) == [state |-> "processing", expiresAt |-> t + ProcessingTtl]

Completed(t) == [state |-> "completed", expiresAt |-> t + CompletedTtl]

(* Mutant of Released: the record goes whatever its state.                 *)
ReleasedAlways(l) == NoLease

Released(l) == IF l.state = "processing" THEN NoLease ELSE l

-----------------------------------------------------------------------------
Init ==
    /\ now = 1
    /\ lease = [e \in Events |-> NoLease]
    /\ job = [w \in Workers |-> Idle]

(* A reservation that finds no unexpired record.                           *)
Reserve(w, e) ==
    /\ job[w] = Idle
    /\ ~ Held(lease[e], now)
    /\ lease' = [lease EXCEPT ![e] = Reserved(now)]
    /\ job' = [job EXCEPT ![w] = [phase |-> "working", event |-> e, since |-> now]]
    /\ UNCHANGED now

(* The object stored the reservation but the handler never hears of it: it *)
(* answers 503 and releases nothing.                                       *)
ReserveUnheard(e) ==
    /\ ~ Held(lease[e], now)
    /\ lease' = [lease EXCEPT ![e] = Reserved(now)]
    /\ UNCHANGED <<now, job>>

Complete(w) ==
    /\ job[w].phase = "working"
    /\ lease' = [lease EXCEPT ![job[w].event] = Completed(now)]
    /\ job' = [job EXCEPT ![w] = Idle]
    /\ UNCHANGED now

(* The completion is stored, its answer is lost: the handler's catch block *)
(* goes on to release.                                                     *)
CompleteUnheard(w) ==
    /\ job[w].phase = "working"
    /\ lease' = [lease EXCEPT ![job[w].event] = Completed(now)]
    /\ job' = [job EXCEPT ![w].phase = "failed"]
    /\ UNCHANGED now

(* The work, or the call that completes it, throws.                        *)
Fail(w) ==
    /\ job[w].phase = "working"
    /\ job' = [job EXCEPT ![w].phase = "failed"]
    /\ UNCHANGED <<now, lease>>

Release(w) ==
    /\ job[w].phase = "failed"
    /\ lease' = [lease EXCEPT ![job[w].event] = Released(lease[job[w].event])]
    /\ job' = [job EXCEPT ![w] = Idle]
    /\ UNCHANGED now

(* The invocation ends without a further call: it was cancelled, or its    *)
(* release failed, which the handler swallows.                             *)
Abandon(w) ==
    /\ job[w].phase # "idle"
    /\ job' = [job EXCEPT ![w] = Idle]
    /\ UNCHANGED <<now, lease>>

(* Mutant of Tick: an invocation may run on after its deadline.            *)
TickPastDeadline ==
    /\ now < MaxTime
    /\ now' = now + 1
    /\ UNCHANGED <<lease, job>>

(* No invocation outlives its deadline.                                    *)
Tick ==
    /\ now < MaxTime
    /\ \A w \in Workers :
          job[w].phase # "idle" => now < job[w].since + HandlerDeadline
    /\ now' = now + 1
    /\ UNCHANGED <<lease, job>>

Next ==
    \/ \E e \in Events : ReserveUnheard(e) \/ \E w \in Workers : Reserve(w, e)
    \/ \E w \in Workers : \/ Complete(w)
                          \/ CompleteUnheard(w)
                          \/ Fail(w)
                          \/ Release(w)
                          \/ Abandon(w)
    \/ Tick

Spec == Init /\ [][Next]_vars

-----------------------------------------------------------------------------
(* Properties.                                                             *)

(* Every variable has the shape the code gives it.                         *)
TypeOK ==
    /\ now \in Nat
    /\ lease \in [Events -> Lease]
    /\ job \in [Workers -> Job]

(* Two invocations never handle the same event at once: a retry that       *)
(* arrives while a first handler runs, or after one failed, cannot slip in *)
(* between that handler's reservation and its last call.                   *)
Exclusive ==
    \A v, w \in Workers :
        job[v].phase # "idle" /\ job[v].event = job[w].event => v = w

(* A handler that is still running owns the record it reserved: nobody's   *)
(* release or reservation has replaced it, and it has not expired.         *)
OwnsLease ==
    \A w \in Workers :
        job[w].phase = "working" =>
            lease[job[w].event] = Reserved(job[w].since)
            /\ now < job[w].since + ProcessingTtl

(* A failed handler still shields its event until it has called release:   *)
(* its record lasts at least as long as the reservation it made.           *)
FailedHoldsLease ==
    \A w \in Workers :
        job[w].phase = "failed" =>
            /\ lease[job[w].event].state # "none"
            /\ lease[job[w].event].expiresAt >= job[w].since + ProcessingTtl

(* Handlers are within their deadline and hold a real event.               *)
WithinDeadline ==
    \A w \in Workers :
        /\ job[w].phase = "idle" <=> job[w] = Idle
        /\ job[w].phase # "idle" =>
              /\ job[w].event \in Events
              /\ job[w].since <= now
              /\ now <= job[w].since + HandlerDeadline

(* The inductive invariant behind the three properties above.              *)
LeaseInv ==
    /\ TypeOK
    /\ WithinDeadline
    /\ Exclusive
    /\ OwnsLease
    /\ FailedHoldsLease

(* Once completed, an event stays completed for its whole time to live: no *)
(* late release and no retry re-opens it, whatever calls were lost.        *)
CompletedSticks ==
    [][\A e \in Events :
          lease[e].state = "completed" /\ lease[e].expiresAt > now
          => lease'[e] = lease[e]]_vars

=============================================================================
