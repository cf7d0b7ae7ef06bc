-------------------------- MODULE CollectorBuffer ---------------------------
(***************************************************************************)
(* The message buffer of the Telegram collector container: the event       *)
(* handler appends, a timer or the /flush route forwards the whole buffer  *)
(* to the edge, and an accepted forward removes as many entries from the   *)
(* front as it had sent.                                                   *)
(*                                                                         *)
(* Node runs one callback at a time; a flush gives up the thread while it  *)
(* waits for the edge, so flushes overlap: scheduleFlush only looks at the *)
(* timer, which is clear again as soon as it has fired.                    *)
(***************************************************************************)
EXTENDS Naturals, Sequences, SequencesExt

CONSTANTS
    Messages,   \* the messages Telegram sends
    Flushes,    \* bound: flushes that can wait for the edge at a time
    MaxFails    \* bound: forwards that fail

BufferAssumption == MaxFails \in Nat

VARIABLES
    arrived,    \* history: messages in the order of their arrival
    buffer,
    timer,      \* flushTimer is set
    batch,      \* what each waiting flush has sent; empty when it is idle
    delivered,  \* messages the edge has accepted
    fails,      \* forwards that failed so far
    overlapped  \* history: two flushes waited at a time

vars == <<arrived, buffer, timer, batch, delivered, fails, overlapped>>

Elements(s) == {s[i] : i \in 1..Len(s)}

Waiting(f) == batch[f] # <<>>

Init ==
    /\ arrived = <<>>
    /\ buffer = <<>>
    /\ timer = FALSE
    /\ batch = [f \in Flushes |-> <<>>]
    /\ delivered = {}
    /\ fails = 0
    /\ overlapped = FALSE

(* Mutant of Receive: an event that matched no channel is buffered too.    *)
ReceiveUnmatched(m) ==
    /\ m \notin Elements(arrived)
    /\ arrived' = Append(arrived, m)
    /\ buffer' = Append(buffer, 0)
    /\ timer' = TRUE
    /\ UNCHANGED <<batch, delivered, fails, overlapped>>

(* The NewMessage handler: append, and make sure a flush is scheduled.     *)
Receive(m) ==
    /\ m \notin Elements(arrived)
    /\ arrived' = Append(arrived, m)
    /\ buffer' = Append(buffer, m)
    /\ timer' = TRUE
    /\ UNCHANGED <<batch, delivered, fails, overlapped>>

(* flushBuffer up to its await.                                            *)
StartFlush(f) ==
    /\ ~ Waiting(f)
    /\ batch' = [batch EXCEPT ![f] = buffer]
    /\ overlapped' = (overlapped \/ \E g \in Flushes : Waiting(g))
    /\ UNCHANGED <<arrived, buffer, delivered, fails>>

TimerFires(f) == timer /\ timer' = FALSE /\ StartFlush(f)

FlushRequest(f) == buffer # <<>> /\ UNCHANGED timer /\ StartFlush(f)

(* Mutants of Removed: everything goes, what arrived meanwhile included;   *)
(* the entries are taken from the end.                                     *)
RemovedAll(n) == <<>>

RemovedFromEnd(n) == IF n >= Len(buffer) THEN <<>> ELSE SubSeq(buffer, 1, Len(buffer) - n)

(* buffer.splice(0, n).                                                    *)
Removed(n) == IF n >= Len(buffer) THEN <<>> ELSE SubSeq(buffer, n + 1, Len(buffer))

ForwardSucceeds(f) ==
    LET left == Removed(Len(batch[f]))
    IN  /\ Waiting(f)
        /\ delivered' = delivered \cup Elements(batch[f])
        /\ buffer' = left
        /\ timer' = (timer \/ left # <<>>)
        /\ batch' = [batch EXCEPT ![f] = <<>>]
        /\ UNCHANGED <<arrived, fails, overlapped>>

(* Mutant of ForwardFails: the failed flush is not scheduled again.        *)
ForwardGivesUp(f) ==
    /\ Waiting(f)
    /\ fails < MaxFails
    /\ fails' = fails + 1
    /\ batch' = [batch EXCEPT ![f] = <<>>]
    /\ UNCHANGED <<arrived, buffer, timer, delivered, overlapped>>

(* The forward fails, or the edge took it and its answer is lost: the      *)
(* buffer stays and the flush is scheduled again.                          *)
ForwardFails(f) ==
    /\ Waiting(f)
    /\ fails < MaxFails
    /\ fails' = fails + 1
    /\ \E accepted \in BOOLEAN :
          delivered' = IF accepted THEN delivered \cup Elements(batch[f]) ELSE delivered
    /\ timer' = TRUE
    /\ batch' = [batch EXCEPT ![f] = <<>>]
    /\ UNCHANGED <<arrived, buffer, overlapped>>

Next ==
    \/ \E m \in Messages : Receive(m)
    \/ \E f \in Flushes : \/ TimerFires(f) \/ FlushRequest(f)
                          \/ ForwardSucceeds(f) \/ ForwardFails(f)

Spec == Init /\ [][Next]_vars

(* Timers fire, and the edge answers every forward.                        *)
Fairness ==
    /\ WF_vars(\E f \in Flushes : TimerFires(f))
    /\ \A f \in Flushes : WF_vars(ForwardSucceeds(f) \/ ForwardFails(f))

FairSpec == Spec /\ Fairness

-----------------------------------------------------------------------------
(* Properties.                                                             *)

(* Every variable has the shape the code gives it.                         *)
TypeOK ==
    /\ arrived \in Seq(Messages)
    /\ buffer \in Seq(Messages)
    /\ timer \in BOOLEAN
    /\ batch \in [Flushes -> Seq(Messages)]
    /\ delivered \subseteq Messages
    /\ fails \in 0..MaxFails
    /\ overlapped \in BOOLEAN

(* A message leaves the buffer only because the edge accepted it: a        *)
(* received message is delivered, or still in the buffer to be sent.       *)
NoneLost == Elements(arrived) \subseteq delivered \cup Elements(buffer)

(* As long as no two flushes overlap, failures and lost answers lose       *)
(* nothing.                                                                *)
NoneLostAlone == ~ overlapped => NoneLost

(* The buffer is what is left of the arrivals after taking some from the   *)
(* front, however flushes overlap: never reordered, never with a hole.     *)
BufferIsTail == IsSuffix(buffer, arrived)

(* What is buffered is on its way: a flush is scheduled or waiting.        *)
NeverStranded == buffer # <<>> => timer \/ \E f \in Flushes : Waiting(f)

(* A scheduled flush and the edge's answers drain the buffer: a message is *)
(* eventually delivered, again unless two flushes overlapped.              *)
EventuallyDelivered ==
    \A m \in Messages :
        (m \in Elements(arrived)) ~> (m \in delivered \/ overlapped)

=============================================================================
