--------------------------- MODULE ProgressProofs ---------------------------
(***************************************************************************)
(* Proofs about the collector's buffer and link, the briefings and the     *)
(* page, for any messages, channels, tasks, callers and bounds that        *)
(* satisfy ProgressAssumption: an inductive invariant of each part, and    *)
(* from them what the run checks.  That what is pending gets done is left  *)
(* to the run; here it is proved that it is always pending.                *)
(***************************************************************************)
EXTENDS MCProgress, Sequences, TLAPS

-----------------------------------------------------------------------------
(* The collector's buffer.                                                 *)

(* The buffer holds the last of the arrivals, place by place.              *)
BufferTail ==
    /\ Len(buffer) <= Len(arrived)
    /\ \A i \in 1..Len(buffer) : buffer[i] = arrived[Len(arrived) - Len(buffer) + i]

(* As long as no two flushes overlap, one at most waits, what it has sent  *)
(* is still the front of the buffer, and whatever left the buffer was      *)
(* delivered.                                                              *)
Alone ==
    ~ overlapped =>
        /\ \A f, g \in Flushes : Buffer!Waiting(f) /\ Buffer!Waiting(g) => f = g
        /\ \A f \in Flushes :
              /\ Len(batch[f]) <= Len(buffer)
              /\ \A i \in 1..Len(batch[f]) : batch[f][i] = buffer[i]
        /\ \A i \in 1..(Len(arrived) - Len(buffer)) : arrived[i] \in delivered

BufferInv ==
    /\ Buffer!TypeOK
    /\ BufferTail
    /\ Alone
    /\ Buffer!NeverStranded

LEMMA BufferInit ==
    ASSUME Buffer!Init PROVE BufferInv
<1>0. MaxFails \in Nat
  BY ProgressAssumption DEF ProgressAssumption, Buffer!BufferAssumption
<1>1. Buffer!TypeOK
  <2>1. arrived \in Seq(Messages) /\ buffer \in Seq(Messages)
    BY DEF Buffer!Init
  <2>2. batch \in [Flushes -> Seq(Messages)]
    BY DEF Buffer!Init
  <2>3. fails \in 0..MaxFails /\ delivered \subseteq Messages
    BY <1>0 DEF Buffer!Init
  <2>4. timer \in BOOLEAN /\ overlapped \in BOOLEAN
    BY DEF Buffer!Init
  <2> QED BY <2>1, <2>2, <2>3, <2>4 DEF Buffer!TypeOK
<1>2. BufferTail
  BY DEF Buffer!Init, BufferTail
<1>3. Buffer!NeverStranded
  BY DEF Buffer!Init, Buffer!NeverStranded
<1>4. Alone
  BY DEF Buffer!Init, Alone, Buffer!Waiting
<1> QED BY <1>1, <1>2, <1>3, <1>4 DEF BufferInv

(* An arrival extends the arrivals and the buffer at the end.              *)
LEMMA BufferReceive ==
    ASSUME BufferInv, NEW m \in Messages, Buffer!Receive(m)
    PROVE  BufferInv'
<1>1. Buffer!TypeOK'
  BY DEF BufferInv, Buffer!TypeOK, Buffer!Receive
<1>2. BufferTail'
  <2>1. /\ buffer \in Seq(Messages) /\ arrived \in Seq(Messages)
        /\ buffer' = Append(buffer, m) /\ arrived' = Append(arrived, m)
    BY DEF BufferInv, Buffer!TypeOK, Buffer!Receive
  <2>2. /\ Len(buffer') = Len(buffer) + 1 /\ Len(arrived') = Len(arrived) + 1
        /\ buffer'[Len(buffer) + 1] = m /\ arrived'[Len(arrived) + 1] = m
        /\ \A i \in 1..Len(buffer) : buffer'[i] = buffer[i]
        /\ \A i \in 1..Len(arrived) : arrived'[i] = arrived[i]
    BY <2>1
  <2>3. Len(buffer) \in Nat /\ Len(arrived) \in Nat
    BY <2>1
  <2>4. ASSUME NEW i \in 1..Len(buffer')
        PROVE  buffer'[i] = arrived'[Len(arrived') - Len(buffer') + i]
    <3>0. Len(arrived') - Len(buffer') + i = Len(arrived) - Len(buffer) + i
      BY <2>2, <2>3
    <3>1. CASE i \in 1..Len(buffer)
      BY <2>2, <2>3, <3>0, <3>1 DEF BufferInv, BufferTail
    <3>2. CASE i = Len(buffer) + 1
      BY <2>2, <2>3, <3>0, <3>2
    <3> QED BY <2>2, <2>3, <3>1, <3>2
  <2> QED BY <2>2, <2>3, <2>4 DEF BufferInv, BufferTail
<1>3. Buffer!NeverStranded'
  BY DEF BufferInv, Buffer!TypeOK, Buffer!Receive, Buffer!NeverStranded
<1>4. Alone'
  BY DEF BufferInv, Buffer!TypeOK, Buffer!Receive, BufferTail, Alone, Buffer!Waiting
<1> QED BY <1>1, <1>2, <1>3, <1>4 DEF BufferInv

(* A flush that starts has sent the buffer as it is.                       *)
LEMMA BufferStart ==
    ASSUME BufferInv, NEW f \in Flushes, Buffer!TimerFires(f) \/ Buffer!FlushRequest(f)
    PROVE  BufferInv'
<1>1. /\ batch \in [Flushes -> Seq(Messages)] /\ buffer \in Seq(Messages)
      /\ batch' = [batch EXCEPT ![f] = buffer]
      /\ batch[f] = <<>>
      /\ arrived' = arrived /\ buffer' = buffer /\ delivered' = delivered /\ fails' = fails
      /\ overlapped' = (overlapped \/ \E g \in Flushes : batch[g] # <<>>)
      /\ timer' = timer \/ timer' = FALSE
  BY DEF BufferInv, Buffer!TypeOK, Buffer!TimerFires, Buffer!FlushRequest, Buffer!StartFlush,
         Buffer!Waiting
<1>2. Buffer!TypeOK'
  BY <1>1 DEF BufferInv, Buffer!TypeOK
<1>3. BufferTail'
  BY <1>1 DEF BufferInv, BufferTail
<1>4. Buffer!NeverStranded'
  BY <1>1 DEF Buffer!NeverStranded, Buffer!Waiting
<1>5. Alone'
  <2> SUFFICES ASSUME ~ overlapped' PROVE Alone'
    BY DEF Alone
  <2>1. ~ overlapped /\ \A g \in Flushes : g # f => batch'[g] = <<>>
    BY <1>1
  <2>2. batch'[f] = buffer
    BY <1>1
  <2>3. \A g \in Flushes :
           /\ Len(batch'[g]) <= Len(buffer)
           /\ \A i \in 1..Len(batch'[g]) : batch'[g][i] = buffer[i]
    BY <1>1, <2>1, <2>2
  <2>4. \A i \in 1..(Len(arrived) - Len(buffer)) : arrived[i] \in delivered
    BY <2>1 DEF BufferInv, Alone
  <2> QED BY <1>1, <2>1, <2>3, <2>4 DEF Alone, Buffer!Waiting
<1> QED BY <1>2, <1>3, <1>4, <1>5 DEF BufferInv

(* What is left of the buffer without its first n entries.                 *)
LEMMA RemovedFacts ==
    ASSUME buffer \in Seq(Messages), NEW n \in Nat
    PROVE  /\ Buffer!Removed(n) \in Seq(Messages)
           /\ Len(Buffer!Removed(n)) = IF n >= Len(buffer) THEN 0 ELSE Len(buffer) - n
           /\ \A i \in 1..Len(Buffer!Removed(n)) : Buffer!Removed(n)[i] = buffer[n + i]
BY DEF Buffer!Removed

(* An accepted forward takes as many entries from the front as it sent.    *)
LEMMA BufferSucceeds ==
    ASSUME BufferInv, NEW f \in Flushes, Buffer!ForwardSucceeds(f)
    PROVE  BufferInv'
<1> DEFINE n == Len(batch[f])
           rest == Buffer!Removed(n)
<1>1. /\ batch \in [Flushes -> Seq(Messages)] /\ buffer \in Seq(Messages)
      /\ arrived \in Seq(Messages) /\ delivered \subseteq Messages
      /\ overlapped' = overlapped /\ arrived' = arrived /\ fails' = fails
      /\ batch[f] # <<>> /\ batch' = [batch EXCEPT ![f] = <<>>]
      /\ buffer' = rest /\ timer' = (timer \/ rest # <<>>)
      /\ delivered' = delivered \cup Buffer!Elements(batch[f])
  BY DEF BufferInv, Buffer!TypeOK, Buffer!ForwardSucceeds, Buffer!Waiting
<1>2. n \in Nat
  BY <1>1
<1>3. /\ rest \in Seq(Messages)
      /\ Len(rest) = IF n >= Len(buffer) THEN 0 ELSE Len(buffer) - n
      /\ \A i \in 1..Len(rest) : rest[i] = buffer[n + i]
  BY <1>1, <1>2, RemovedFacts
<1> HIDE DEF n, rest
<1>4. Buffer!TypeOK'
  <2>1. batch[f] \in Seq(Messages)
    BY <1>1
  <2>2. Buffer!Elements(batch[f]) \subseteq Messages
    BY <2>1 DEF Buffer!Elements
  <2> QED BY <1>1, <1>3, <2>2 DEF BufferInv, Buffer!TypeOK
<1>5. BufferTail'
  <2>1. /\ Len(buffer) \in Nat /\ Len(rest) \in Nat /\ Len(arrived) \in Nat
        /\ Len(buffer) <= Len(arrived) /\ Len(rest) <= Len(buffer)
    BY <1>1, <1>2, <1>3 DEF BufferInv, BufferTail
  <2>2. ASSUME NEW i \in 1..Len(rest)
        PROVE  rest[i] = arrived[Len(arrived) - Len(rest) + i]
    <3>1. n + i \in 1..Len(buffer) /\ Len(rest) = Len(buffer) - n
      BY <1>2, <1>3, <2>1
    <3>2. buffer[n + i] = arrived[Len(arrived) - Len(buffer) + (n + i)]
      BY <3>1 DEF BufferInv, BufferTail
    <3>3. Len(arrived) - Len(buffer) + (n + i) = Len(arrived) - Len(rest) + i
      BY <1>2, <2>1, <3>1
    <3> QED BY <1>3, <3>2, <3>3
  <2> QED BY <1>1, <2>1, <2>2 DEF BufferTail
<1>6. Buffer!NeverStranded'
  BY <1>1 DEF Buffer!NeverStranded
<1>7. Alone'
  <2> SUFFICES ASSUME ~ overlapped PROVE Alone'
    BY <1>1 DEF Alone
  <2>1. \A g \in Flushes : batch'[g] = <<>>
    BY <1>1 DEF BufferInv, Alone, Buffer!Waiting
  <2>2. ASSUME NEW i \in 1..(Len(arrived) - Len(rest))
        PROVE  arrived[i] \in delivered'
    <3>1. CASE i <= Len(arrived) - Len(buffer)
      BY <1>1, <3>1 DEF BufferInv, Alone
    <3>2. CASE i > Len(arrived) - Len(buffer)
      <4> DEFINE k == i - (Len(arrived) - Len(buffer))
      <4>1. k \in 1..n /\ k \in 1..Len(buffer)
        BY <1>1, <1>2, <1>3, <3>2 DEF BufferInv, BufferTail
      <4>2. arrived[i] = buffer[k]
        <5>1. Len(arrived) - Len(buffer) + k = i
          BY <1>1
        <5> QED BY <4>1, <5>1 DEF BufferInv, BufferTail
      <4>3. buffer[k] = batch[f][k]
        BY <1>1, <4>1 DEF BufferInv, Alone, n
      <4>4. batch[f][k] \in Buffer!Elements(batch[f])
        BY <4>1 DEF Buffer!Elements, n
      <4> QED BY <1>1, <4>2, <4>3, <4>4
    <3> QED BY <1>1, <1>3, <3>1, <3>2
  <2> QED BY <1>1, <1>3, <2>1, <2>2 DEF Alone, Buffer!Waiting
<1> QED BY <1>4, <1>5, <1>6, <1>7 DEF BufferInv

(* A failed forward leaves the buffer and schedules another flush.         *)
LEMMA BufferFails ==
    ASSUME BufferInv, NEW f \in Flushes, Buffer!ForwardFails(f)
    PROVE  BufferInv'
<1>1. /\ batch \in [Flushes -> Seq(Messages)] /\ buffer \in Seq(Messages)
      /\ overlapped' = overlapped /\ arrived' = arrived /\ buffer' = buffer
      /\ batch' = [batch EXCEPT ![f] = <<>>] /\ timer' = TRUE
      /\ fails < MaxFails /\ fails' = fails + 1
      /\ delivered \subseteq delivered'
      /\ delivered' \subseteq delivered \cup Buffer!Elements(batch[f])
  BY DEF BufferInv, Buffer!TypeOK, Buffer!ForwardFails
<1>2. Buffer!TypeOK'
  <2>0. MaxFails \in Nat
    BY ProgressAssumption DEF ProgressAssumption, Buffer!BufferAssumption
  <2>1. batch[f] \in Seq(Messages)
    BY <1>1
  <2>2. Buffer!Elements(batch[f]) \subseteq Messages
    BY <2>1 DEF Buffer!Elements
  <2> QED BY <1>1, <2>0, <2>2 DEF BufferInv, Buffer!TypeOK
<1>3. BufferTail'
  BY <1>1 DEF BufferInv, BufferTail
<1>4. Buffer!NeverStranded'
  BY <1>1 DEF Buffer!NeverStranded
<1>5. Alone'
  BY <1>1 DEF BufferInv, Alone, Buffer!Waiting
<1> QED BY <1>2, <1>3, <1>4, <1>5 DEF BufferInv

LEMMA BufferUnchanged ==
    ASSUME BufferInv, UNCHANGED bufferVars
    PROVE  BufferInv'
BY DEF bufferVars, BufferInv, Buffer!TypeOK, BufferTail, Alone, Buffer!NeverStranded, Buffer!Waiting

LEMMA BufferNext ==
    ASSUME BufferInv, Buffer!Next
    PROVE  BufferInv'
BY BufferReceive, BufferStart, BufferSucceeds, BufferFails DEF Buffer!Next

(* The properties the runs check.                                          *)
LEMMA BufferImplies ==
    ASSUME BufferInv
    PROVE  Buffer!BufferIsTail /\ Buffer!NoneLostAlone
<1>1. /\ buffer \in Seq(Messages) /\ arrived \in Seq(Messages)
      /\ Len(buffer) <= Len(arrived)
      /\ \A i \in 1..Len(buffer) : buffer[i] = arrived[Len(arrived) - Len(buffer) + i]
  BY DEF BufferInv, Buffer!TypeOK, BufferTail
<1>2. Buffer!BufferIsTail
  BY <1>1 DEF Buffer!BufferIsTail, Buffer!IsSuffix, Buffer!IsPrefix, Buffer!Reverse
<1>3. Buffer!NoneLostAlone
  <2> SUFFICES ASSUME ~ overlapped, NEW i \in 1..Len(arrived)
               PROVE  arrived[i] \in delivered \cup Buffer!Elements(buffer)
    BY DEF Buffer!NoneLostAlone, Buffer!NoneLost, Buffer!Elements
  <2>1. CASE i <= Len(arrived) - Len(buffer)
    BY <1>1, <2>1 DEF BufferInv, Alone
  <2>2. CASE i > Len(arrived) - Len(buffer)
    <3> DEFINE k == i - (Len(arrived) - Len(buffer))
    <3>1. k \in 1..Len(buffer) /\ arrived[i] = buffer[k]
      BY <1>1, <2>2
    <3> QED BY <3>1 DEF Buffer!Elements
  <2> QED BY <1>1, <2>1, <2>2
<1> QED BY <1>2, <1>3

-----------------------------------------------------------------------------
(* The collector's link.                                                   *)

Steps(s) == {s[i] : i \in 1..Len(s)}

(* Until a dial fails, an attempt under way has its call, and without      *)
(* connection or call there is a timer that starts an attempt.             *)
AttemptHeld ==
    dialFails = 0 =>
        /\ connecting => connected \/ Link!Running("dial")
        /\ \/ connected \/ Link!Running("dial")
           \/ "connect" \in timers \/ "reconnect" \in timers

(* The look at the channels that connecting starts has a client.           *)
ClientHeld == connected => clients # 0

(* A channel known to be missing has a join timer, or a call that will yet *)
(* set one; the refresh alone is none of these, since it can fail.         *)
JoinHeld ==
    connected /\ missing # {} =>
        \/ "join" \in timers \/ Link!Running("join") \/ Link!Running("joinMore")
        \/ Link!Running("endJoin") \/ Link!Running("endConnect")

LinkInv == Link!TypeOK /\ AttemptHeld /\ ClientHeld /\ Link!RefreshPending /\ JoinHeld

LEMMA LinkConstants == MaxDialFails \in Nat /\ MaxErrors \in Nat
BY ProgressAssumption DEF ProgressAssumption, Link!LinkAssumption

LEMMA LinkInit ==
    ASSUME Link!Init PROVE LinkInv
<1>1. Link!TypeOK
  <2>1. task \in [Tasks -> Seq(Link!Step)]
    BY DEF Link!Init
  <2>2. dialFails \in 0..MaxDialFails /\ errors \in 0..MaxErrors
    BY LinkConstants DEF Link!Init
  <2> QED BY <2>1, <2>2 DEF Link!Init, Link!TypeOK, Link!Timer
<1> QED BY <1>1 DEF Link!Init, LinkInv, AttemptHeld, ClientHeld, Link!RefreshPending, JoinHeld

-----------------------------------------------------------------------------
(* The steps of a plan.                                                    *)
LEMMA StepsOfPlans ==
    /\ Steps(<<"dial">>) = {"dial"} /\ <<"dial">> \in Seq(Link!Step)
    /\ Steps(<<"refresh">>) = {"refresh"} /\ <<"refresh">> \in Seq(Link!Step)
    /\ Steps(<<"join">>) = {"join"} /\ <<"join">> \in Seq(Link!Step)
    /\ Steps(<<"joinMore">>) = {"joinMore"} /\ <<"joinMore">> \in Seq(Link!Step)
    /\ Steps(<<"refresh", "endJoin">>) = {"refresh", "endJoin"}
    /\ <<"refresh", "endJoin">> \in Seq(Link!Step)
    /\ <<"joinAll", "refresh">> \in Seq(Link!Step)
    /\ Steps(<<"refresh", "join", "endConnect">>) = {"refresh", "join", "endConnect"}
    /\ <<"refresh", "join", "endConnect">> \in Seq(Link!Step)
    /\ Steps(<<>>) = {}
BY DEF Steps, Link!Step

LEMMA StepsOfTail ==
    ASSUME NEW s \in Seq(Link!Step), s # <<>>
    PROVE  /\ Tail(s) \in Seq(Link!Step) /\ Head(s) \in Link!Step
           /\ Steps(s) = {Head(s)} \cup Steps(Tail(s))
<1>1. /\ Tail(s) \in Seq(Link!Step) /\ Head(s) \in Link!Step /\ Head(s) = s[1]
      /\ Len(s) \in Nat \ {0} /\ Len(Tail(s)) = Len(s) - 1
      /\ \A i \in 1..Len(Tail(s)) : Tail(s)[i] = s[i + 1]
  OBVIOUS
<1>2. ASSUME NEW i \in 1..Len(s) PROVE s[i] \in {Head(s)} \cup Steps(Tail(s))
  <2>1. CASE i = 1
    BY <1>1, <2>1
  <2>2. CASE i # 1
    <3>1. i - 1 \in 1..Len(Tail(s)) /\ Tail(s)[i - 1] = s[i]
      BY <1>1, <2>2
    <3> QED BY <3>1 DEF Steps
  <2> QED BY <2>1, <2>2
<1>3. ASSUME NEW i \in 1..Len(Tail(s)) PROVE Tail(s)[i] \in Steps(s)
  <2>1. i + 1 \in 1..Len(s)
    BY <1>1
  <2> QED BY <1>1, <2>1 DEF Steps
<1>4. Head(s) \in Steps(s)
  BY <1>1 DEF Steps
<1> QED BY <1>1, <1>2, <1>3, <1>4 DEF Steps

LEMMA StepsOfConcat ==
    ASSUME NEW r \in Seq(Link!Step), NEW s \in Seq(Link!Step)
    PROVE  r \o s \in Seq(Link!Step) /\ Steps(r \o s) = Steps(r) \cup Steps(s)
<1>1. /\ r \o s \in Seq(Link!Step) /\ Len(r \o s) = Len(r) + Len(s)
      /\ Len(r) \in Nat /\ Len(s) \in Nat
      /\ \A i \in 1..Len(r) : (r \o s)[i] = r[i]
      /\ \A i \in 1..Len(s) : (r \o s)[Len(r) + i] = s[i]
  OBVIOUS
<1>2. ASSUME NEW i \in 1..Len(r \o s) PROVE (r \o s)[i] \in Steps(r) \cup Steps(s)
  <2>1. CASE i \in 1..Len(r)
    BY <1>1, <2>1 DEF Steps
  <2>2. CASE i \notin 1..Len(r)
    <3>1. i - Len(r) \in 1..Len(s) /\ Len(r) + (i - Len(r)) = i
      BY <1>1, <2>2
    <3>2. (r \o s)[i] = s[i - Len(r)]
      BY <1>1, <3>1
    <3> QED BY <3>1, <3>2 DEF Steps
  <2> QED BY <2>1, <2>2
<1>3. ASSUME NEW i \in 1..Len(r) PROVE r[i] \in Steps(r \o s)
  <2>1. i \in 1..Len(r \o s) /\ (r \o s)[i] = r[i]
    BY <1>1
  <2> QED BY <2>1 DEF Steps
<1>4. ASSUME NEW i \in 1..Len(s) PROVE s[i] \in Steps(r \o s)
  <2>1. Len(r) + i \in 1..Len(r \o s) /\ (r \o s)[Len(r) + i] = s[i]
    BY <1>1
  <2> QED BY <2>1 DEF Steps
<1> QED BY <1>1, <1>2, <1>3, <1>4 DEF Steps

(* A task that takes another plan: the plan's steps are under way, and of  *)
(* the others only those the task had before can be gone.                  *)
LEMMA Replanned ==
    ASSUME LinkInv, NEW t \in Tasks, NEW plan \in Seq(Link!Step),
           task' = [task EXCEPT ![t] = plan]
    PROVE  /\ task' \in [Tasks -> Seq(Link!Step)]
           /\ \A step \in Steps(plan) : Link!Running(step)'
           /\ \A step \in Link!Step :
                 Link!Running(step) => Link!Running(step)' \/ step \in Steps(task[t])
<1>1. task \in [Tasks -> Seq(Link!Step)]
  BY DEF LinkInv, Link!TypeOK
<1>2. task'[t] = plan /\ \A u \in Tasks : u # t => task'[u] = task[u]
  BY <1>1
<1>3. ASSUME NEW step \in Steps(plan) PROVE Link!Running(step)'
  BY <1>2, <1>3 DEF Link!Running, Steps
<1>4. ASSUME NEW step \in Link!Step, Link!Running(step), step \notin Steps(task[t])
      PROVE  Link!Running(step)'
  <2>1. PICK u \in Tasks : step \in Steps(task[u])
    BY <1>4 DEF Link!Running, Steps
  <2>2. u # t
    BY <1>4, <2>1
  <2>3. step \in Steps(task'[u])
    BY <1>2, <2>1, <2>2
  <2> QED BY <2>3 DEF Link!Running, Steps
<1> QED BY <1>1, <1>3, <1>4

(* An idle task that starts takes nothing away.                            *)
LEMMA Started ==
    ASSUME LinkInv, NEW t \in Tasks, NEW plan \in Seq(Link!Step), Link!Start(t, plan)
    PROVE  /\ task' \in [Tasks -> Seq(Link!Step)]
           /\ \A step \in Steps(plan) : Link!Running(step)'
           /\ \A step \in Link!Step : Link!Running(step) => Link!Running(step)'
<1>1. task' = [task EXCEPT ![t] = plan] /\ Steps(task[t]) = {}
  BY StepsOfPlans DEF Link!Start, Link!Idle
<1> QED BY <1>1, Replanned

(* A task that goes on loses the step it was at, and that only.            *)
LEMMA WentOn ==
    ASSUME LinkInv, NEW t \in Tasks, NEW at \in Link!Step, Link!At(t, at),
           NEW plan \in Seq(Link!Step), task' = [task EXCEPT ![t] = plan \o Tail(@)]
    PROVE  /\ task' \in [Tasks -> Seq(Link!Step)]
           /\ \A step \in Steps(plan) : Link!Running(step)'
           /\ \A step \in Link!Step : Link!Running(step) => Link!Running(step)' \/ step = at
<1>1. task[t] \in Seq(Link!Step) /\ task[t] # <<>> /\ Head(task[t]) = at
  BY DEF LinkInv, Link!TypeOK, Link!At
<1>2. /\ Tail(task[t]) \in Seq(Link!Step)
      /\ Steps(task[t]) = {at} \cup Steps(Tail(task[t]))
  BY <1>1, StepsOfTail
<1> DEFINE rest == plan \o Tail(task[t])
<1>3. rest \in Seq(Link!Step) /\ Steps(rest) = Steps(plan) \cup Steps(Tail(task[t]))
  BY <1>2, StepsOfConcat
<1>4. task' = [task EXCEPT ![t] = rest]
  BY DEF LinkInv, Link!TypeOK
<1> HIDE DEF rest
<1>5. /\ task' \in [Tasks -> Seq(Link!Step)]
      /\ \A step \in Steps(rest) : Link!Running(step)'
      /\ \A step \in Link!Step :
            Link!Running(step) => Link!Running(step)' \/ step \in Steps(task[t])
  BY <1>3, <1>4, Replanned
<1> QED BY <1>2, <1>3, <1>5

LEMMA Proceeded ==
    ASSUME LinkInv, NEW t \in Tasks, NEW at \in Link!Step, Link!At(t, at), Link!Proceed(t)
    PROVE  /\ task' \in [Tasks -> Seq(Link!Step)]
           /\ \A step \in Link!Step : Link!Running(step) => Link!Running(step)' \/ step = at
<1>1. <<>> \in Seq(Link!Step) /\ <<>> \o Tail(task[t]) = Tail(task[t])
  <2>1. task[t] \in Seq(Link!Step) /\ task[t] # <<>>
    BY DEF LinkInv, Link!TypeOK, Link!At
  <2> QED BY <2>1, StepsOfTail
<1>2. task' = [task EXCEPT ![t] = <<>> \o Tail(@)]
  BY <1>1 DEF Link!Proceed
<1> QED BY <1>1, <1>2, WentOn

LEMMA RunningUnchanged ==
    ASSUME task' = task
    PROVE  \A step \in Link!Step : Link!Running(step) => Link!Running(step)'
BY DEF Link!Running

-----------------------------------------------------------------------------
LEMMA LinkConnect ==
    ASSUME LinkInv, NEW t \in Tasks, Link!Connect(t)
    PROVE  LinkInv'
<1>1. PICK name \in {"connect", "reconnect"} \cap timers :
         /\ timers' = timers \ {name}
         /\ IF connected \/ connecting
            THEN UNCHANGED <<connecting, task>>
            ELSE connecting' = TRUE /\ Link!Start(t, <<"dial">>)
         /\ UNCHANGED <<connected, clients, joined, missing, blocked, dialFails, errors>>
  BY DEF Link!Connect
<1>2. /\ task' \in [Tasks -> Seq(Link!Step)] /\ connecting' \in BOOLEAN
      /\ connected \/ connecting \/ Link!Running("dial")'
      /\ \A step \in Link!Step : Link!Running(step) => Link!Running(step)'
  <2>1. CASE connected \/ connecting
    BY <1>1, <2>1, RunningUnchanged DEF LinkInv, Link!TypeOK
  <2>2. CASE ~ (connected \/ connecting)
    BY <1>1, <2>2, StepsOfPlans, Started
  <2> QED BY <2>1, <2>2
<1>3. Link!TypeOK'
  BY <1>1, <1>2 DEF LinkInv, Link!TypeOK
<1>4. AttemptHeld'
  <2>1. connecting' => connecting \/ Link!Running("dial")'
    BY <1>1, <1>2 DEF LinkInv, Link!TypeOK
  <2> QED BY <1>1, <1>2, <2>1 DEF LinkInv, AttemptHeld, Link!Step
<1>5. ClientHeld' /\ Link!RefreshPending' /\ JoinHeld'
  BY <1>1, <1>2 DEF LinkInv, ClientHeld, Link!RefreshPending, JoinHeld, Link!Step
<1> QED BY <1>3, <1>4, <1>5 DEF LinkInv

LEMMA LinkDialSucceeds ==
    ASSUME LinkInv, NEW t \in Tasks, Link!DialSucceeds(t)
    PROVE  LinkInv'
<1> DEFINE plan == <<"refresh", "join", "endConnect">>
<1>1. /\ task' = [task EXCEPT ![t] = plan]
      /\ clients \in Nat /\ clients' = clients + 1 /\ connected' = TRUE
      /\ UNCHANGED <<connecting, timers, joined, missing, blocked, dialFails, errors>>
  BY DEF Link!DialSucceeds, LinkInv, Link!TypeOK
<1>2. plan \in Seq(Link!Step) /\ Steps(plan) = {"refresh", "join", "endConnect"}
  BY StepsOfPlans
<1> HIDE DEF plan
<1>3. /\ task' \in [Tasks -> Seq(Link!Step)]
      /\ Link!Running("refresh")' /\ Link!Running("join")'
  BY <1>1, <1>2, Replanned
<1>4. Link!TypeOK'
  BY <1>1, <1>3 DEF LinkInv, Link!TypeOK
<1>5. AttemptHeld' /\ ClientHeld' /\ Link!RefreshPending' /\ JoinHeld'
  BY <1>1, <1>3 DEF AttemptHeld, ClientHeld, Link!RefreshPending, JoinHeld
<1> QED BY <1>4, <1>5 DEF LinkInv

(* A dial that fails ends what is claimed of the attempts.                 *)
LEMMA LinkDialFails ==
    ASSUME LinkInv, NEW t \in Tasks, Link!DialFails(t)
    PROVE  LinkInv'
<1>1. /\ Link!At(t, "dial") /\ Link!Proceed(t) /\ "dial" \in Link!Step
      /\ dialFails < MaxDialFails /\ dialFails' = dialFails + 1
      /\ connected' = FALSE /\ connecting' = FALSE
      /\ timers' \in {timers, timers \cup {"reconnect"}}
      /\ UNCHANGED <<clients, joined, missing, blocked, errors>>
  BY DEF Link!DialFails, Link!WithReconnect, Link!Step
<1>2. task' \in [Tasks -> Seq(Link!Step)]
  BY <1>1, Proceeded
<1>3. dialFails' \in 0..MaxDialFails /\ dialFails' # 0
  BY <1>1, LinkConstants DEF LinkInv, Link!TypeOK
<1>4. Link!TypeOK'
  BY <1>1, <1>2, <1>3 DEF LinkInv, Link!TypeOK, Link!Timer
<1>5. AttemptHeld' /\ ClientHeld' /\ Link!RefreshPending' /\ JoinHeld'
  BY <1>1, <1>3 DEF AttemptHeld, ClientHeld, Link!RefreshPending, JoinHeld
<1> QED BY <1>4, <1>5 DEF LinkInv

(* The end of connecting, while connected, sets both timers it can.        *)
LEMMA LinkEndConnect ==
    ASSUME LinkInv, NEW t \in Tasks, Link!EndConnect(t)
    PROVE  LinkInv'
<1>1. /\ Link!At(t, "endConnect") /\ Link!Proceed(t) /\ "endConnect" \in Link!Step
      /\ connecting' = FALSE
      /\ timers' = Link!WithAvailability(Link!WithJoin(timers, missing))
      /\ UNCHANGED <<connected, clients, joined, missing, blocked, dialFails, errors>>
  BY DEF Link!EndConnect, Link!Step
<1>2. /\ task' \in [Tasks -> Seq(Link!Step)]
      /\ \A step \in Link!Step :
            Link!Running(step) => Link!Running(step)' \/ step = "endConnect"
  BY <1>1, Proceeded
<1>3. /\ timers \subseteq timers' /\ timers' \subseteq Link!Timer
      /\ connected => "availability" \in timers'
      /\ connected /\ missing # {} => "join" \in timers'
  BY <1>1 DEF LinkInv, Link!TypeOK, Link!WithAvailability, Link!WithJoin, Link!Timer
<1>4. Link!TypeOK'
  BY <1>1, <1>2, <1>3 DEF LinkInv, Link!TypeOK
<1>5. AttemptHeld'
  BY <1>1, <1>2, <1>3 DEF LinkInv, AttemptHeld, Link!Step
<1>6. ClientHeld' /\ Link!RefreshPending' /\ JoinHeld'
  BY <1>1, <1>3 DEF LinkInv, ClientHeld, Link!RefreshPending, JoinHeld
<1> QED BY <1>4, <1>5, <1>6 DEF LinkInv

LEMMA LinkAvailabilityFires ==
    ASSUME LinkInv, NEW t \in Tasks, Link!AvailabilityFires(t)
    PROVE  LinkInv'
<1> DEFINE plan == IF clients = 0 THEN <<>> ELSE <<"refresh">>
<1>1. /\ timers' = timers \ {"availability"} /\ Link!Start(t, plan)
      /\ UNCHANGED <<connected, connecting, clients, joined, missing, blocked, dialFails, errors>>
  BY DEF Link!AvailabilityFires
<1>2. plan \in Seq(Link!Step) /\ (clients # 0 => "refresh" \in Steps(plan))
  BY StepsOfPlans
<1> HIDE DEF plan
<1>3. /\ task' \in [Tasks -> Seq(Link!Step)]
      /\ clients # 0 => Link!Running("refresh")'
      /\ \A step \in Link!Step : Link!Running(step) => Link!Running(step)'
  BY <1>1, <1>2, Started
<1>4. Link!TypeOK'
  BY <1>1, <1>3 DEF LinkInv, Link!TypeOK
<1>5. AttemptHeld' /\ JoinHeld'
  BY <1>1, <1>3 DEF LinkInv, AttemptHeld, JoinHeld, Link!Step
<1>6. ClientHeld' /\ Link!RefreshPending'
  BY <1>1, <1>3 DEF LinkInv, ClientHeld, Link!RefreshPending
<1> QED BY <1>4, <1>5, <1>6 DEF LinkInv

LEMMA LinkRefresh ==
    ASSUME LinkInv, NEW t \in Tasks, Link!RefreshSucceeds(t) \/ Link!RefreshFails(t)
    PROVE  LinkInv'
<1>1. /\ Link!At(t, "refresh") /\ Link!Proceed(t) /\ "refresh" \in Link!Step
      /\ UNCHANGED <<connected, connecting, clients, joined, blocked, dialFails>>
  BY DEF Link!RefreshSucceeds, Link!RefreshFails, Link!Step
<1>2. /\ task' \in [Tasks -> Seq(Link!Step)]
      /\ \A step \in Link!Step :
            Link!Running(step) => Link!Running(step)' \/ step = "refresh"
  BY <1>1, Proceeded
<1>3. /\ timers \subseteq timers' /\ timers' \subseteq Link!Timer
      /\ connected => "availability" \in timers'
      /\ missing' # missing /\ connected /\ missing' # {} => "join" \in timers'
      /\ missing' \subseteq Channels
  BY DEF LinkInv, Link!TypeOK, Link!RefreshSucceeds, Link!RefreshFails, Link!WithAvailability,
         Link!WithJoin, Link!Timer
<1>4. errors' \in 0..MaxErrors
  BY LinkConstants DEF LinkInv, Link!TypeOK, Link!RefreshSucceeds, Link!RefreshFails, Link!Mishap
<1>5. Link!TypeOK'
  BY <1>1, <1>2, <1>3, <1>4 DEF LinkInv, Link!TypeOK
<1>6. AttemptHeld' /\ JoinHeld'
  BY <1>1, <1>2, <1>3 DEF LinkInv, AttemptHeld, JoinHeld, Link!Step
<1>7. ClientHeld' /\ Link!RefreshPending'
  BY <1>1, <1>3 DEF LinkInv, ClientHeld, Link!RefreshPending
<1> QED BY <1>5, <1>6, <1>7 DEF LinkInv

LEMMA LinkJoinFires ==
    ASSUME LinkInv, NEW t \in Tasks, Link!JoinFires(t)
    PROVE  LinkInv'
<1>1. /\ timers' = timers \ {"join"} /\ Link!Start(t, <<"join">>)
      /\ UNCHANGED <<connected, connecting, clients, joined, missing, blocked, dialFails, errors>>
  BY DEF Link!JoinFires
<1>2. /\ task' \in [Tasks -> Seq(Link!Step)] /\ Link!Running("join")'
      /\ \A step \in Link!Step : Link!Running(step) => Link!Running(step)'
  BY <1>1, StepsOfPlans, Started
<1>3. Link!TypeOK'
  BY <1>1, <1>2 DEF LinkInv, Link!TypeOK
<1>4. AttemptHeld' /\ ClientHeld' /\ Link!RefreshPending' /\ JoinHeld'
  BY <1>1, <1>2 DEF LinkInv, AttemptHeld, ClientHeld, Link!RefreshPending, JoinHeld, Link!Step
<1> QED BY <1>3, <1>4 DEF LinkInv

(* A join that is not tried yet is tried later; the end of one looks at    *)
(* what is missing then.                                                   *)
LEMMA LinkJoinEnds ==
    ASSUME LinkInv, NEW t \in Tasks, Link!JoinSkips(t) \/ Link!EndJoin(t)
    PROVE  LinkInv'
<1>1. PICK at \in {"join", "endJoin"} : Link!At(t, at)
  BY DEF Link!JoinSkips, Link!EndJoin
<1>2. /\ Link!Proceed(t) /\ at \in Link!Step
      /\ UNCHANGED <<connected, connecting, clients, joined, missing, blocked, dialFails, errors>>
  BY DEF Link!JoinSkips, Link!EndJoin, Link!Step
<1>3. /\ task' \in [Tasks -> Seq(Link!Step)]
      /\ \A step \in Link!Step : Link!Running(step) => Link!Running(step)' \/ step = at
  BY <1>1, <1>2, Proceeded
<1>4. /\ timers \subseteq timers' /\ timers' \subseteq Link!Timer
      /\ connected /\ missing # {} => "join" \in timers'
  BY DEF LinkInv, Link!TypeOK, Link!JoinSkips, Link!EndJoin, Link!WithJoin, Link!Timer
<1>5. Link!TypeOK'
  BY <1>2, <1>3, <1>4 DEF LinkInv, Link!TypeOK
<1>6. AttemptHeld' /\ Link!RefreshPending'
  BY <1>2, <1>3, <1>4 DEF LinkInv, AttemptHeld, Link!RefreshPending, Link!Step
<1>7. ClientHeld' /\ JoinHeld'
  BY <1>2, <1>4 DEF LinkInv, ClientHeld, JoinHeld
<1> QED BY <1>5, <1>6, <1>7 DEF LinkInv

LEMMA LinkJoins ==
    ASSUME LinkInv, NEW t \in Tasks, Link!JoinStarts(t) \/ Link!JoinLoop(t) \/ Link!JoinFloods(t)
    PROVE  LinkInv'
<1>1. PICK at \in {"join", "joinMore"}, plan \in {<<"joinMore">>, <<"refresh", "endJoin">>} :
         /\ Link!At(t, at) /\ task' = [task EXCEPT ![t] = plan \o Tail(@)]
         /\ plan = <<"joinMore">> \/ plan = <<"refresh", "endJoin">>
  BY DEF Link!JoinStarts, Link!JoinLoop, Link!JoinFloods
<1>2. /\ at \in Link!Step /\ plan \in Seq(Link!Step)
      /\ "joinMore" \in Steps(plan) \/ "endJoin" \in Steps(plan)
  BY <1>1, StepsOfPlans DEF Link!Step
<1>3. /\ task' \in [Tasks -> Seq(Link!Step)]
      /\ Link!Running("joinMore")' \/ Link!Running("endJoin")'
      /\ \A step \in Link!Step : Link!Running(step) => Link!Running(step)' \/ step = at
  BY <1>1, <1>2, WentOn
<1>4. /\ UNCHANGED <<connected, connecting, clients, timers, missing, dialFails>>
      /\ joined' \subseteq Channels /\ blocked' \in BOOLEAN /\ errors' \in 0..MaxErrors
  <2>1. /\ joined \subseteq Channels /\ missing \subseteq Channels /\ blocked \in BOOLEAN
        /\ errors \in 0..MaxErrors
    BY DEF LinkInv, Link!TypeOK
  <2>2. CASE Link!JoinStarts(t)
    BY <2>1, <2>2 DEF Link!JoinStarts
  <2>3. CASE Link!JoinLoop(t)
    BY <2>1, <2>3, LinkConstants DEF Link!JoinLoop, Link!Mishap
  <2>4. CASE Link!JoinFloods(t)
    BY <2>1, <2>4, LinkConstants DEF Link!JoinFloods, Link!Mishap
  <2> QED BY <2>2, <2>3, <2>4
<1>5. Link!TypeOK'
  BY <1>3, <1>4 DEF LinkInv, Link!TypeOK
<1>6. AttemptHeld' /\ Link!RefreshPending'
  BY <1>3, <1>4 DEF LinkInv, AttemptHeld, Link!RefreshPending, Link!Step
<1>7. ClientHeld' /\ JoinHeld'
  BY <1>3, <1>4 DEF LinkInv, ClientHeld, JoinHeld
<1> QED BY <1>5, <1>6, <1>7 DEF LinkInv

LEMMA LinkJoinAll ==
    ASSUME LinkInv, NEW t \in Tasks, Link!JoinRequest(t) \/ Link!JoinAll(t)
    PROVE  LinkInv'
<1>1. /\ task' \in [Tasks -> Seq(Link!Step)]
      /\ \A step \in Link!Step : Link!Running(step) => Link!Running(step)' \/ step = "joinAll"
  <2>1. CASE Link!JoinRequest(t)
    BY <2>1, StepsOfPlans, Started DEF Link!JoinRequest
  <2>2. CASE Link!JoinAll(t)
    <3>1. Link!At(t, "joinAll") /\ Link!Proceed(t) /\ "joinAll" \in Link!Step
      BY <2>2 DEF Link!JoinAll, Link!Step
    <3> QED BY <3>1, Proceeded
  <2> QED BY <2>1, <2>2
<1>2. /\ UNCHANGED <<connected, connecting, clients, timers, missing, dialFails>>
      /\ joined' \subseteq Channels /\ blocked' \in BOOLEAN /\ errors' \in 0..MaxErrors
  <2>1. /\ joined \subseteq Channels /\ blocked \in BOOLEAN /\ errors \in 0..MaxErrors
    BY DEF LinkInv, Link!TypeOK
  <2>2. CASE Link!JoinRequest(t)
    BY <2>1, <2>2, LinkConstants DEF Link!JoinRequest, Link!Mishap
  <2>3. CASE Link!JoinAll(t)
    BY <2>1, <2>3 DEF Link!JoinAll
  <2> QED BY <2>2, <2>3
<1>3. Link!TypeOK'
  BY <1>1, <1>2 DEF LinkInv, Link!TypeOK
<1>4. AttemptHeld' /\ ClientHeld' /\ Link!RefreshPending' /\ JoinHeld'
  BY <1>1, <1>2 DEF LinkInv, AttemptHeld, ClientHeld, Link!RefreshPending, JoinHeld, Link!Step
<1> QED BY <1>3, <1>4 DEF LinkInv

(* An error nobody caught clears the flags and schedules a reconnect.      *)
LEMMA LinkUncaught ==
    ASSUME LinkInv, Link!Uncaught
    PROVE  LinkInv'
<1>1. /\ connected' = FALSE /\ connecting' = FALSE
      /\ timers' = (timers \ {"join", "availability"}) \cup {"reconnect"}
      /\ UNCHANGED <<clients, joined, missing, blocked, task, dialFails>>
  BY DEF Link!Uncaught, Link!WithReconnect
<1>2. errors' \in 0..MaxErrors
  BY LinkConstants DEF LinkInv, Link!TypeOK, Link!Uncaught, Link!Mishap
<1>3. Link!TypeOK'
  BY <1>1, <1>2 DEF LinkInv, Link!TypeOK, Link!Timer
<1>4. AttemptHeld' /\ ClientHeld' /\ Link!RefreshPending' /\ JoinHeld'
  BY <1>1 DEF AttemptHeld, ClientHeld, Link!RefreshPending, JoinHeld
<1> QED BY <1>3, <1>4 DEF LinkInv

LEMMA LinkWaitOver ==
    ASSUME LinkInv, Link!WaitOver \/ UNCHANGED linkVars
    PROVE  LinkInv'
<1>1. UNCHANGED <<connected, connecting, clients, timers, joined, missing, task, dialFails, errors>>
  BY DEF Link!WaitOver, linkVars
<1>2. blocked' \in BOOLEAN
  BY DEF Link!WaitOver, linkVars, LinkInv, Link!TypeOK
<1>3. Link!TypeOK'
  BY <1>1, <1>2 DEF LinkInv, Link!TypeOK
<1>4. AttemptHeld' /\ ClientHeld' /\ Link!RefreshPending' /\ JoinHeld'
  BY <1>1, RunningUnchanged
     DEF LinkInv, AttemptHeld, ClientHeld, Link!RefreshPending, JoinHeld, Link!Step
<1> QED BY <1>3, <1>4 DEF LinkInv

LEMMA LinkNext ==
    ASSUME LinkInv, Link!Next
    PROVE  LinkInv'
BY LinkConnect, LinkDialSucceeds, LinkDialFails, LinkEndConnect, LinkAvailabilityFires, LinkRefresh,
   LinkJoinFires, LinkJoinEnds, LinkJoins, LinkJoinAll, LinkUncaught, LinkWaitOver
   DEF Link!Next, Link!TaskStep, Link!TaskFault, Link!TimerStep

LEMMA LinkImplies ==
    ASSUME LinkInv
    PROVE  Link!ReconnectPendingIfDialled /\ Link!WorkPending
<1>1. Link!ReconnectPendingIfDialled
  BY DEF LinkInv, AttemptHeld, Link!ReconnectPendingIfDialled, Link!ReconnectPending
<1>2. Link!JoinPending
  BY DEF LinkInv, JoinHeld, Link!JoinPending
<1> QED BY <1>1, <1>2 DEF LinkInv, Link!WorkPending

-----------------------------------------------------------------------------
(* The briefings.                                                          *)

(* Unless a consumer read an older feed, none is writing from items older  *)
(* than the message's.                                                     *)
WritesCurrent ==
    behind \/ \A p \in Consumers : consumer[p] # Window!Idle => consumer[p].content >= consumer[p].hash

(* What a caller is about to queue are items there have been.              *)
CallsKnown == \A c \in Callers : caller[c] # Window!Idle => caller[c].hash <= version

WindowInv == Window!TypeOK /\ CallsKnown /\ Window!NotOlderThanHash /\ WritesCurrent

LEMMA WindowInit ==
    ASSUME Window!Init PROVE WindowInv
<1>0. MaxVersion \in Nat \ {0} /\ MaxFaults \in Nat
  BY ProgressAssumption DEF ProgressAssumption, Window!BriefingsAssumption
<1>1. Window!TypeOK
  <2>1. version \in 1..MaxVersion /\ faults \in 0..MaxFaults
    BY <1>0 DEF Window!Init
  <2>2. caller \in [Callers -> Window!Calls] /\ consumer \in [Consumers -> Window!Writings]
    BY DEF Window!Init, Window!Calls, Window!Writings
  <2> QED BY <2>1, <2>2 DEF Window!Init, Window!TypeOK
<1>2. CallsKnown /\ Window!NotOlderThanHash /\ WritesCurrent
  BY DEF Window!Init, CallsKnown, Window!NotOlderThanHash, WritesCurrent, CallsKnown
<1> QED BY <1>1, <1>2 DEF WindowInv

(* What a caller does moves its own call, the queue and the mark.          *)
LEMMA WindowCaller ==
    ASSUME WindowInv, NEW c \in Callers,
           \/ Window!Asks(c) \/ Window!Looks(c) \/ Window!Queues(c) \/ Window!Marks(c)
           \/ Window!CallerFails(c)
    PROVE  WindowInv'
<1>0. MaxVersion \in Nat \ {0} /\ MaxFaults \in Nat
  BY ProgressAssumption DEF ProgressAssumption, Window!BriefingsAssumption
<1>1. /\ caller[c] \in Window!Calls /\ version \in 1..MaxVersion /\ queue \subseteq 1..version
      /\ version' = version /\ cached' = cached /\ consumer' = consumer /\ behind' = behind
  BY DEF WindowInv, Window!TypeOK, Window!Asks, Window!Looks, Window!Queues, Window!Marks,
         Window!CallerFails
<1>2. Window!Idle \in Window!Calls /\ Window!Idle.at = "idle"
  BY DEF Window!Calls, Window!Idle
<1>3. CASE Window!Asks(c)
  <2>1. [at |-> "looking", hash |-> version] \in Window!Calls
    BY <1>1 DEF Window!Calls
  <2> QED BY <1>1, <1>3, <2>1
          DEF Window!Asks, WindowInv, Window!TypeOK, Window!NotOlderThanHash, WritesCurrent, CallsKnown
<1>4. CASE Window!Looks(c)
  <2>1. caller[c] # Window!Idle
    BY <1>2, <1>4 DEF Window!Looks
  <2>2. [caller[c] EXCEPT !.at = "queueing"] \in Window!Calls
    BY <1>1, <2>1 DEF Window!Calls
  <2> QED BY <1>1, <1>2, <1>4, <2>2
          DEF Window!Looks, WindowInv, Window!TypeOK, Window!NotOlderThanHash, WritesCurrent, CallsKnown
<1>5. CASE Window!Queues(c)
  <2>1. caller[c] # Window!Idle
    BY <1>2, <1>5 DEF Window!Queues
  <2>2. [caller[c] EXCEPT !.at = "marking"] \in Window!Calls /\ caller[c].hash \in 1..version
    BY <1>0, <1>1, <2>1 DEF Window!Calls, WindowInv, CallsKnown
  <2>3. /\ caller' = [caller EXCEPT ![c] = [caller[c] EXCEPT !.at = "marking"]]
        /\ queue' \subseteq 1..version /\ pending' = pending /\ faults' = faults
    BY <1>1, <1>5, <2>2 DEF Window!Queues
  <2>4. Window!TypeOK'
    BY <1>1, <2>2, <2>3 DEF WindowInv, Window!TypeOK
  <2>5. CallsKnown'
    BY <1>1, <2>1, <2>2, <2>3 DEF WindowInv, Window!TypeOK, CallsKnown, Window!Calls
  <2> QED BY <1>1, <2>4, <2>5 DEF WindowInv, Window!NotOlderThanHash, WritesCurrent
<1>6. CASE Window!Marks(c)
  BY <1>1, <1>2, <1>6
     DEF Window!Marks, WindowInv, Window!TypeOK, Window!NotOlderThanHash, WritesCurrent, CallsKnown, Window!Calls,
         Window!Records
<1>7. CASE Window!CallerFails(c)
  <2>1. /\ caller[c] # Window!Idle /\ caller' = [caller EXCEPT ![c] = Window!Idle]
        /\ faults < MaxFaults /\ faults' = faults + 1
        /\ queue' \subseteq queue \cup {caller[c].hash}
        /\ pending' \in {pending, [hash |-> caller[c].hash, age |-> 0]}
    BY <1>7 DEF Window!CallerFails, Window!Fault
  <2>2. caller[c].hash \in 1..version /\ [hash |-> caller[c].hash, age |-> 0] \in Window!Records
    BY <1>0, <1>1, <2>1 DEF Window!Calls, WindowInv, CallsKnown, Window!Records
  <2>3. Window!TypeOK'
    BY <1>0, <1>1, <1>2, <2>1, <2>2 DEF WindowInv, Window!TypeOK
  <2>4. CallsKnown'
    BY <1>1, <2>1 DEF WindowInv, Window!TypeOK, CallsKnown
  <2> QED BY <1>1, <2>3, <2>4 DEF WindowInv, Window!NotOlderThanHash, WritesCurrent
<1> QED BY <1>3, <1>4, <1>5, <1>6, <1>7

(* What a consumer writes is not older than what it was asked for, unless  *)
(* it was behind.                                                          *)
LEMMA WindowTakes ==
    ASSUME WindowInv, NEW p \in Consumers, NEW hash \in queue, Window!Takes(p, hash)
    PROVE  WindowInv'
<1>0. MaxVersion \in Nat \ {0} /\ version \in 1..MaxVersion /\ hash \in 1..version
  BY ProgressAssumption
     DEF ProgressAssumption, Window!BriefingsAssumption, WindowInv, Window!TypeOK
<1>1. PICK seen \in 1..version :
         /\ consumer' = [consumer EXCEPT ![p] = [at |-> "saving", hash |-> hash, content |-> seen]]
         /\ behind' = (behind \/ seen < hash)
         /\ UNCHANGED <<version, faults, cached, pending, queue, caller>>
  <2>1. (IF FeedMemo THEN 1..version ELSE {version}) \subseteq 1..version
    BY <1>0
  <2> QED BY <2>1 DEF Window!Takes
<1>2. [at |-> "saving", hash |-> hash, content |-> seen] \in Window!Writings
  BY <1>0 DEF Window!Writings
<1>3. Window!TypeOK'
  BY <1>1, <1>2 DEF WindowInv, Window!TypeOK
<1>4. WritesCurrent'
  <2> SUFFICES ASSUME ~ behind', NEW q \in Consumers, consumer'[q] # Window!Idle
               PROVE  consumer'[q].content >= consumer'[q].hash
    BY DEF WritesCurrent
  <2>1. ~ behind /\ seen >= hash
    <3>1. ~ (behind \/ seen < hash)
      BY <1>1, Zenon
    <3> QED BY <1>0, <3>1
  <2>2. CASE q = p
    BY <1>1, <2>1, <2>2 DEF WindowInv, Window!TypeOK
  <2>3. CASE q # p
    BY <1>1, <2>1, <2>3 DEF WindowInv, Window!TypeOK, WritesCurrent
  <2> QED BY <2>2, <2>3
<1> QED BY <1>1, <1>3, <1>4 DEF WindowInv, CallsKnown, Window!NotOlderThanHash

LEMMA WindowConsumer ==
    ASSUME WindowInv, NEW p \in Consumers,
           Window!Saves(p) \/ Window!Clears(p) \/ Window!ConsumerFails(p)
    PROVE  WindowInv'
<1>0. MaxVersion \in Nat \ {0} /\ MaxFaults \in Nat
  BY ProgressAssumption DEF ProgressAssumption, Window!BriefingsAssumption
<1>1. /\ consumer[p] \in Window!Writings /\ version' = version /\ caller' = caller
      /\ behind' = behind /\ queue' \subseteq queue
      /\ Window!Idle \in Window!Writings
  BY DEF WindowInv, Window!TypeOK, Window!Saves, Window!Clears, Window!ConsumerFails, Window!Writings
<1>2. consumer[p] # Window!Idle
  BY DEF Window!Saves, Window!Clears, Window!ConsumerFails, Window!Idle
<1>3. CallsKnown'
  BY <1>1 DEF WindowInv, CallsKnown
<1>4. CASE Window!Saves(p)
  <2>1. /\ [consumer[p] EXCEPT !.at = "clearing"] \in Window!Writings
        /\ Window!SavedAs(consumer[p]) \in Window!Briefs
    BY <1>1, <1>2 DEF Window!Writings, Window!Briefs, Window!SavedAs
  <2>2. Window!TypeOK'
    BY <1>1, <1>4, <2>1 DEF WindowInv, Window!TypeOK, Window!Saves
  <2>3. Window!NotOlderThanHash'
    BY <1>1, <1>2, <1>4, <2>1
       DEF WindowInv, Window!TypeOK, Window!Saves, WritesCurrent, Window!NotOlderThanHash,
           Window!SavedAs, Window!Writings
  <2>4. WritesCurrent'
    BY <1>1, <1>2, <1>4, <2>1
       DEF WindowInv, Window!TypeOK, Window!Saves, WritesCurrent, Window!Writings
  <2> QED BY <1>3, <2>2, <2>3, <2>4 DEF WindowInv
<1>5. CASE Window!Clears(p) \/ Window!ConsumerFails(p)
  <2>1. /\ consumer' = [consumer EXCEPT ![p] = Window!Idle] /\ cached' = cached
        /\ pending' \in {pending, None} /\ faults' \in 0..MaxFaults
    BY <1>0, <1>5 DEF Window!Clears, Window!ConsumerFails, Window!Fault, WindowInv, Window!TypeOK
  <2>2. Window!TypeOK'
    BY <1>1, <2>1 DEF WindowInv, Window!TypeOK
  <2>3. WritesCurrent' /\ Window!NotOlderThanHash'
    BY <1>1, <2>1 DEF WindowInv, Window!TypeOK, WritesCurrent, Window!NotOlderThanHash
  <2> QED BY <1>3, <2>2, <2>3 DEF WindowInv
<1> QED BY <1>4, <1>5

(* Items come, and records grow older until they are gone.                 *)
LEMMA WindowTime ==
    ASSUME WindowInv, Window!NewsComes \/ Window!Tick
    PROVE  WindowInv'
<1>0. MaxVersion \in Nat \ {0} /\ version \in 1..MaxVersion
  BY ProgressAssumption
     DEF ProgressAssumption, Window!BriefingsAssumption, WindowInv, Window!TypeOK
<1>1. CASE Window!NewsComes
  <2>1. version' \in 1..MaxVersion /\ version' = version + 1 /\ queue' \subseteq 1..version'
    BY <1>0, <1>1 DEF Window!NewsComes, WindowInv, Window!TypeOK
  <2>2. Window!TypeOK'
    BY <1>1, <2>1 DEF Window!NewsComes, WindowInv, Window!TypeOK
  <2>3. CallsKnown'
    <3> SUFFICES ASSUME NEW c \in Callers, caller[c] # Window!Idle
                 PROVE  caller[c].hash <= version + 1
      BY <1>1, <2>1 DEF Window!NewsComes, CallsKnown
    <3>1. caller[c].hash \in 1..MaxVersion /\ caller[c].hash <= version
      BY DEF WindowInv, Window!TypeOK, CallsKnown, Window!Calls
    <3> QED BY <1>0, <3>1
  <2> QED BY <1>1, <2>2, <2>3
          DEF Window!NewsComes, WindowInv, Window!NotOlderThanHash, WritesCurrent
<1>2. CASE Window!Tick
  <2>1. ASSUME NEW ttl PROVE Window!Older(cached, ttl) \in Window!Briefs \cup {None}
    BY DEF WindowInv, Window!TypeOK, Window!Older, Window!Briefs
  <2>2. ASSUME NEW ttl PROVE Window!Older(pending, ttl) \in Window!Records \cup {None}
    BY DEF WindowInv, Window!TypeOK, Window!Older, Window!Records
  <2>3. Window!TypeOK'
    BY <1>2, <2>1, <2>2 DEF Window!Tick, WindowInv, Window!TypeOK
  <2>4. Window!NotOlderThanHash'
    <3>1. cached' = None \/ (cached # None /\ cached' = [cached EXCEPT !.age = @ + 1])
      BY <1>2 DEF Window!Tick, Window!Older
    <3> QED BY <1>2, <3>1 DEF Window!Tick, WindowInv, Window!TypeOK, Window!NotOlderThanHash, Window!Briefs
  <2> QED BY <1>2, <2>3, <2>4 DEF Window!Tick, WindowInv, CallsKnown, WritesCurrent
<1> QED BY <1>1, <1>2

LEMMA WindowNext ==
    ASSUME WindowInv, Window!Next
    PROVE  WindowInv'
BY WindowCaller, WindowTakes, WindowConsumer, WindowTime DEF Window!Next

LEMMA WindowUnchanged ==
    ASSUME WindowInv, UNCHANGED briefVars
    PROVE  WindowInv'
BY DEF briefVars, WindowInv, Window!TypeOK, CallsKnown, WritesCurrent, Window!NotOlderThanHash

-----------------------------------------------------------------------------
(* The Telegram page.                                                      *)

PageInv == Page!TypeOK /\ Page!PollPending /\ Page!NewestShown

LEMMA PageConstants ==
    /\ MaxEvents \in Nat \ {0}
    /\ None \notin Page!States /\ None \notin Page!Batches
    /\ None \notin Page!Requests /\ None \notin Page!Leftovers
BY ProgressAssumption DEF ProgressAssumption, Page!PageAssumption

LEMMA PageInit ==
    ASSUME Page!Init PROVE PageInv
<1>1. 1 \in Page!States /\ 0 \in Page!States
  BY PageConstants DEF Page!States
<1>2. Page!TypeOK
  <2>1. {clock, stored, before, shown, snapshot, newest} \subseteq Page!States
    BY <1>1 DEF Page!Init, Page!Nothing
  <2>2. clock + visits + pageFaults <= MaxEvents /\ pageFaults \in Nat /\ visits \in Nat
    BY PageConstants DEF Page!Init
  <2>3. wire \in Seq(Page!States)
    BY DEF Page!Init
  <2> QED BY <2>1, <2>2, <2>3 DEF Page!Init, Page!TypeOK
<1>3. Page!PollPending /\ Page!NewestShown
  BY DEF Page!Init, Page!PollPending, Page!NewestShown, Page!Mounted
<1> QED BY <1>2, <1>3 DEF PageInv

(* The typing facts as the steps use them.                                 *)
LEMMA PageTypes ==
    ASSUME PageInv
    PROVE  /\ pageFaults \in Nat /\ visits \in Nat
           /\ clock \in Nat /\ clock + visits + pageFaults <= MaxEvents
           /\ stored \in Page!States /\ before \in Page!States
           /\ shown \in Page!States /\ snapshot \in Page!States /\ newest \in Page!States
           /\ wire \in Seq(Page!States)
           /\ Page!States \subseteq Nat /\ 0 \in Page!States
BY PageConstants DEF PageInv, Page!TypeOK, Page!States

(* What the object sends to the page it sends at the end.                  *)
LEMMA PageTold ==
    ASSUME PageInv, NEW at \in Page!States, Page!Told(at)
    PROVE  wire' \in Seq(Page!States)
BY PageTypes DEF Page!Told

(* Whoever asks leaves a request under way as it is.                       *)
LEMMA PageAsks ==
    ASSUME PageInv, NEW by \in {"timer", "event", "page"}, Page!Asks(by)
    PROVE  /\ refresh' \in Page!Requests \cup {None} /\ refresh' # None
           /\ refresh # None => refresh' = refresh
           /\ refresh = None => refresh'.by = by
<1>1. [by |-> by, answer |-> None] \in Page!Requests
  BY DEF Page!Requests
<1> QED BY <1>1, PageConstants DEF PageInv, Page!TypeOK, Page!Asks

(* A step of the object's own leaves the page as it is.                    *)
LEMMA PageServer ==
    ASSUME PageInv, UNCHANGED <<socket, hidden, polling, refresh, shown, snapshot, left, newest>>
    PROVE  Page!PollPending' /\ Page!NewestShown'
BY DEF PageInv, Page!PollPending, Page!NewestShown, Page!Mounted

LEMMA PageScrape ==
    ASSUME PageInv, Page!ScrapeTells \/ Page!ScrapeSaves \/ Page!ScrapeFails
    PROVE  PageInv'
<1> USE DEF Page!stream, Page!page, Page!server
<1>1. Page!PollPending' /\ Page!NewestShown'
  BY PageServer DEF Page!ScrapeTells, Page!ScrapeSaves, Page!ScrapeFails
<1>2. CASE Page!ScrapeTells
  <2>1. clock' \in Page!States /\ clock' + visits + pageFaults <= MaxEvents
    BY <1>2, PageTypes, PageConstants DEF Page!ScrapeTells, Page!Time, Page!Spare, Page!States
  <2>2. wire' \in Seq(Page!States)
    BY <1>2, <2>1, PageTold DEF Page!ScrapeTells
  <2>3. Page!TypeOK'
    BY <1>2, <2>1, <2>2 DEF PageInv, Page!TypeOK, Page!ScrapeTells
  <2> QED BY <1>1, <2>3 DEF PageInv
<1>3. CASE Page!ScrapeSaves
  BY <1>1, <1>3 DEF PageInv, Page!TypeOK, Page!ScrapeSaves, Page!Stored
<1>4. CASE Page!ScrapeFails
  <2>1. pageFaults' \in Nat /\ clock + visits + pageFaults' <= MaxEvents
    BY <1>4, PageTypes, PageConstants DEF Page!ScrapeFails, Page!Fault, Page!Spare
  <2>2. Page!TypeOK'
    BY <1>4, <2>1 DEF PageInv, Page!TypeOK, Page!ScrapeFails
  <2> QED BY <1>1, <2>2 DEF PageInv
<1> QED BY <1>2, <1>3, <1>4

LEMMA PageBatch ==
    ASSUME PageInv, Page!Collects \/ Page!Applies \/ Page!ApplyTells \/ Page!RepliesState
    PROVE  PageInv'
<1> USE DEF Page!stream, Page!page, Page!server
<1>1. Page!PollPending' /\ Page!NewestShown'
  BY PageServer DEF Page!Collects, Page!Applies, Page!ApplyTells, Page!RepliesState
<1>2. CASE Page!Collects
  <2>1. clock' \in Page!States /\ clock' + visits + pageFaults <= MaxEvents
    BY <1>2, PageTypes, PageConstants DEF Page!Collects, Page!Time, Page!Spare, Page!States
  <2>2. applying' \in Page!Batches
    BY <1>2, <2>1 DEF Page!Collects, Page!Batches
  <2>3. Page!TypeOK'
    BY <1>2, <2>1, <2>2 DEF PageInv, Page!TypeOK, Page!Collects
  <2> QED BY <1>1, <2>3 DEF PageInv
<1>3. CASE Page!Applies
  <2>1. applying \in Page!Batches
    BY <1>3 DEF PageInv, Page!TypeOK, Page!Applies
  <2>2. applying' \in Page!Batches /\ stored' \in Page!States
    BY <1>3, <2>1 DEF Page!Applies, Page!Stored, Page!Batches
  <2>3. Page!TypeOK'
    BY <1>3, <2>2 DEF PageInv, Page!TypeOK, Page!Applies, Page!Stored
  <2> QED BY <1>1, <2>3 DEF PageInv
<1>4. CASE Page!ApplyTells
  <2>1. applying.at \in Page!States
    BY <1>4 DEF PageInv, Page!TypeOK, Page!ApplyTells, Page!Batches
  <2>2. wire' \in Seq(Page!States)
    BY <1>4, <2>1, PageTold DEF Page!ApplyTells
  <2>3. Page!TypeOK'
    BY <1>4, <2>2 DEF PageInv, Page!TypeOK, Page!ApplyTells
  <2> QED BY <1>1, <2>3 DEF PageInv
<1>5. CASE Page!RepliesState
  <2>1. wire' \in Seq(Page!States)
    BY <1>5, PageTypes DEF Page!RepliesState
  <2>2. Page!TypeOK'
    BY <1>5, <2>1 DEF PageInv, Page!TypeOK, Page!RepliesState
  <2> QED BY <1>1, <2>2 DEF PageInv
<1> QED BY <1>2, <1>3, <1>4, <1>5

LEMMA PageAnswers ==
    ASSUME PageInv, Page!Answers
    PROVE  PageInv'
<1> USE DEF Page!stream, Page!page, Page!server
<1>1. refresh \in Page!Requests
  BY DEF PageInv, Page!TypeOK, Page!Answers
<1>2. PICK state \in Page!States : refresh' = [refresh EXCEPT !.answer = state]
  BY PageTypes DEF Page!Answers, Page!Nothing
<1>3. refresh' \in Page!Requests /\ refresh'.by = refresh.by
  BY <1>1, <1>2 DEF Page!Requests
<1>4. pageFaults' \in Nat /\ clock + visits + pageFaults' <= MaxEvents
  BY PageTypes, PageConstants DEF Page!Answers, Page!Fault, Page!Spare
<1>5. Page!TypeOK'
  BY <1>3, <1>4 DEF PageInv, Page!TypeOK, Page!Answers
<1>6. Page!PollPending' /\ Page!NewestShown'
  BY <1>1, <1>3, PageConstants
     DEF PageInv, Page!Answers, Page!PollPending, Page!NewestShown, Page!Mounted
<1> QED BY <1>5, <1>6 DEF PageInv

(* An answer that is newer is shown, and is then the newest.               *)
LEMMA PageReceives ==
    ASSUME PageInv, Page!Receives
    PROVE  PageInv'
<1> USE DEF Page!stream, Page!page, Page!server
<1>1. refresh \in Page!Requests /\ refresh.answer \in Page!States
  BY DEF PageInv, Page!TypeOK, Page!Receives, Page!Requests
<1>2. /\ shown' \in Page!States /\ snapshot' \in Page!States /\ newest' \in Page!States
      /\ polling' \in BOOLEAN
  BY <1>1, PageTypes DEF Page!Receives
<1>3. Page!TypeOK'
  BY <1>2 DEF PageInv, Page!TypeOK, Page!Receives
<1>4. Page!PollPending'
  BY DEF PageInv, Page!TypeOK, Page!Receives, Page!PollPending, Page!Mounted
<1>5. Page!NewestShown'
  BY <1>1, PageTypes
     DEF PageInv, Page!Receives, Page!NewestShown, Page!Mounted, Page!Taken, Page!Nothing
<1> QED BY <1>3, <1>4, <1>5 DEF PageInv

LEMMA PageRefresh ==
    ASSUME PageInv, Page!TimerFires \/ Page!Hides \/ Page!Shows \/ Page!ReaderAsks
    PROVE  PageInv'
<1> USE DEF Page!stream, Page!page, Page!server
<1>1. CASE Page!TimerFires
  <2>1. Page!Asks("timer")
    BY <1>1 DEF Page!TimerFires
  <2>2. refresh' \in Page!Requests \cup {None} /\ refresh' # None /\ refresh'.by = "timer"
    BY <1>1, <2>1, PageAsks DEF Page!TimerFires
  <2> QED BY <1>1, <2>2
          DEF PageInv, Page!TypeOK, Page!TimerFires, Page!PollPending, Page!NewestShown, Page!Mounted
<1>2. CASE Page!Hides
  BY <1>2 DEF PageInv, Page!TypeOK, Page!Hides, Page!PollPending, Page!NewestShown, Page!Mounted
<1>3. CASE Page!Shows \/ Page!ReaderAsks
  <2>1. Page!Asks("event")
    BY <1>3 DEF Page!Shows, Page!ReaderAsks
  <2>2. refresh' \in Page!Requests \cup {None} /\ (refresh # None => refresh' = refresh)
    BY <2>1, PageAsks
  <2> QED BY <1>3, <2>2
          DEF PageInv, Page!TypeOK, Page!Shows, Page!ReaderAsks, Page!PollPending,
              Page!NewestShown, Page!Mounted
<1> QED BY <1>1, <1>2, <1>3

LEMMA PageSocket ==
    ASSUME PageInv, Page!Connects \/ Page!Closes \/ Page!Reconnects \/ Page!Hears
    PROVE  PageInv'
<1> USE DEF Page!stream, Page!page, Page!server
<1>1. CASE Page!Connects
  <2>1. wire' \in Seq(Page!States)
    BY <1>1, PageTypes DEF Page!Connects
  <2> QED BY <1>1, <2>1
          DEF PageInv, Page!TypeOK, Page!Connects, Page!PollPending, Page!NewestShown, Page!Mounted
<1>2. CASE Page!Closes
  <2>1. pageFaults' \in Nat /\ clock + visits + pageFaults' <= MaxEvents
    BY <1>2, PageTypes, PageConstants DEF Page!Closes, Page!Fault, Page!Spare
  <2>2. wire' \in Seq(Page!States)
    BY <1>2 DEF Page!Closes
  <2> QED BY <1>2, <2>1, <2>2
          DEF PageInv, Page!TypeOK, Page!Closes, Page!PollPending, Page!NewestShown, Page!Mounted
<1>3. CASE Page!Reconnects
  BY <1>3 DEF PageInv, Page!TypeOK, Page!Reconnects, Page!PollPending, Page!NewestShown, Page!Mounted
<1>4. CASE Page!Hears
  <2>1. wire' \in Seq(Page!States)
    BY <1>4, PageTypes DEF Page!Hears
  <2>2. Page!Asks("page") \/ refresh' = refresh
    BY <1>4 DEF Page!Hears
  <2>3. refresh' \in Page!Requests \cup {None} /\ (refresh # None => refresh' = refresh)
    BY <2>2, PageAsks DEF PageInv, Page!TypeOK
  <2> QED BY <1>4, <2>1, <2>3
          DEF PageInv, Page!TypeOK, Page!Hears, Page!PollPending, Page!NewestShown, Page!Mounted
<1> QED BY <1>1, <1>2, <1>3, <1>4

LEMMA PageVisits ==
    ASSUME PageInv, \/ Page!Visits \/ Page!Leaves \/ Page!LeftAnswered \/ Page!LeftReceives
                    \/ Page!Expires
    PROVE  PageInv'
<1> USE DEF Page!stream, Page!page, Page!server
<1>1. CASE Page!Visits
  <2>1. visits' \in Nat /\ clock + visits' + pageFaults <= MaxEvents
    BY <1>1, PageTypes, PageConstants DEF Page!Visits, Page!Spare
  <2>2. Page!Asks("page")
    BY <1>1 DEF Page!Visits
  <2>3. refresh' \in Page!Requests \cup {None}
    BY <2>2, PageAsks
  <2> QED BY <1>1, <2>1, <2>3
          DEF PageInv, Page!TypeOK, Page!Visits, Page!PollPending, Page!NewestShown
<1>2. CASE Page!Leaves
  <2>1. refresh # None => refresh \in Page!Requests
    BY DEF PageInv, Page!TypeOK
  <2>2. left' \in Page!Leftovers \cup {None}
    BY <1>2, <2>1, PageTypes
       DEF PageInv, Page!TypeOK, Page!Leaves, Page!Leftovers, Page!Requests
  <2>3. wire' \in Seq(Page!States) /\ Page!Nothing \in Page!States
    BY <1>2, PageTypes DEF Page!Leaves, Page!Nothing
  <2> QED BY <1>2, <2>2, <2>3
          DEF PageInv, Page!TypeOK, Page!Leaves, Page!PollPending, Page!NewestShown, Page!Mounted
<1>3. CASE Page!LeftAnswered
  <2>1. left' \in Page!Leftovers
    BY <1>3, PageTypes DEF PageInv, Page!TypeOK, Page!LeftAnswered, Page!Leftovers
  <2> QED BY <1>3, <2>1
          DEF PageInv, Page!TypeOK, Page!LeftAnswered, Page!PollPending, Page!NewestShown, Page!Mounted
<1>4. CASE Page!LeftReceives
  <2>1. snapshot' \in Page!States
    BY <1>4, PageTypes DEF PageInv, Page!TypeOK, Page!LeftReceives, Page!Leftovers
  <2> QED BY <1>4, <2>1
          DEF PageInv, Page!TypeOK, Page!LeftReceives, Page!PollPending, Page!NewestShown, Page!Mounted
<1>5. CASE Page!Expires
  <2>1. snapshot' \in Page!States
    BY <1>5, PageTypes DEF Page!Expires, Page!Nothing
  <2> QED BY <1>5, <2>1
          DEF PageInv, Page!TypeOK, Page!Expires, Page!PollPending, Page!NewestShown, Page!Mounted
<1> QED BY <1>1, <1>2, <1>3, <1>4, <1>5

LEMMA PageNext ==
    ASSUME PageInv, Page!Next
    PROVE  PageInv'
BY PageScrape, PageBatch, PageAnswers, PageReceives, PageRefresh, PageSocket, PageVisits
   DEF Page!Next

LEMMA PageUnchanged ==
    ASSUME PageInv, UNCHANGED pageVars
    PROVE  PageInv'
BY DEF pageVars, PageInv, Page!TypeOK, Page!PollPending, Page!NewestShown, Page!Mounted

-----------------------------------------------------------------------------
(* The parts together: one takes a step, the others stand still.           *)
ProgressInv == BufferInv /\ LinkInv /\ WindowInv /\ PageInv

LEMMA ProgressNext == ProgressInv /\ [Next]_vars => ProgressInv'
<1> SUFFICES ASSUME ProgressInv, [Next]_vars
             PROVE  ProgressInv'
  OBVIOUS
<1>1. Buffer!Next \/ UNCHANGED bufferVars
  BY DEF Next, vars
<1>2. Link!Next \/ UNCHANGED linkVars
  BY DEF Next, vars
<1>3. Window!Next \/ UNCHANGED briefVars
  BY DEF Next, vars
<1>4. Page!Next \/ UNCHANGED pageVars
  BY DEF Next, vars
<1>5. BufferInv'
  BY <1>1, BufferNext, BufferUnchanged DEF ProgressInv
<1>6. LinkInv'
  BY <1>2, LinkNext, LinkWaitOver DEF ProgressInv
<1>7. WindowInv'
  BY <1>3, WindowNext, WindowUnchanged DEF ProgressInv
<1>8. PageInv'
  BY <1>4, PageNext, PageUnchanged DEF ProgressInv
<1> QED BY <1>5, <1>6, <1>7, <1>8 DEF ProgressInv

(* Every reachable state of every part satisfies its inductive invariant.  *)
THEOREM ProgressInvariant == FairSpec => []ProgressInv
<1>1. Init => ProgressInv
  BY BufferInit, LinkInit, WindowInit, PageInit DEF Init, ProgressInv
<1> QED BY <1>1, ProgressNext, PTL DEF FairSpec

(* Every part's state keeps its shape, and its counters their bounds.      *)
THEOREM TypesKept == FairSpec => []TypeOK
<1>1. ProgressInv => TypeOK
  BY DEF ProgressInv, BufferInv, LinkInv, WindowInv, PageInv, TypeOK
<1> QED BY <1>1, ProgressInvariant, PTL

(* The buffer of the collector holds the last of the arrivals, however     *)
(* flushes overlap, and as long as they do not every other arrival was     *)
(* accepted by the edge, whatever forwards fail or lose their answer.      *)
THEOREM BufferKeeps == FairSpec => []NoneLostAlone
<1>1. ProgressInv => NoneLostAlone
  BY BufferImplies DEF ProgressInv, NoneLostAlone
<1> QED BY <1>1, ProgressInvariant, PTL

(* What is left to do has a timer or a call that will see to it: a         *)
(* buffered message, the collector's client (until a dial fails), its look *)
(* at the channels and its joins, and the next look of an open page.       *)
THEOREM SomethingPending == FairSpec => []WorkPending
<1>1. ProgressInv => WorkPending
  BY LinkImplies DEF ProgressInv, BufferInv, PageInv, WorkPending
<1> QED BY <1>1, ProgressInvariant, PTL

(* A briefing that counts as made from some items was made from those or   *)
(* later ones, unless a consumer read an older feed; and an open page      *)
(* shows the newest state it was given, in whatever order states came.     *)
THEOREM NothingOlder == FairSpec => []NeverOlder
<1>1. ProgressInv => NeverOlder
  BY DEF ProgressInv, WindowInv, PageInv, NeverOlder
<1> QED BY <1>1, ProgressInvariant, PTL
=============================================================================
