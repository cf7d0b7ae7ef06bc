----------------------------- MODULE Briefings ------------------------------
(***************************************************************************)
(* The briefing of one window: the public route and the schedule serve     *)
(* what KV has of it and, when that was made from other items and is old   *)
(* enough, queue a refresh, unless one is pending; the queue's consumer    *)
(* writes the briefing anew from the items it reads then.  Windows do not  *)
(* share state.  Items are known by a version that only grows; ages stop   *)
(* at the largest one that matters.                                        *)
(***************************************************************************)
EXTENDS Integers

CONSTANTS
    Callers,        \* the route's requests and the schedule
    Consumers,
    Interval,       \* BRIEFING_REFRESH_INTERVAL_SECONDS
    CacheTtl,       \* BRIEFING_CACHE_TTL_SECONDS
    Grace,          \* the 60 seconds a pending mark outlives the interval
    FeedMemo,       \* the consumer's isolate may remember older news (NEWS_READ_CACHE_MS)
    MaxVersion, MaxFaults,  \* bounds
    None

BriefingsAssumption == MaxVersion \in Nat \ {0} /\ MaxFaults \in Nat

VARIABLES
    version,    \* the items of the window
    faults,
    cached,     \* KV: the briefing
    pending,    \* KV: the mark that a refresh is queued
    queue,      \* the refresh messages
    caller, consumer,
    behind      \* history: a consumer read older items than the message was queued for

vars == <<version, faults, cached, pending, queue, caller, consumer, behind>>

Idle == [at |-> "idle"]

(* Mutant of Older: records are put without expirationTtl.                 *)
OlderKept(r, ttl) == IF r = None \/ r.age + 1 >= ttl THEN r ELSE [r EXCEPT !.age = @ + 1]

(* KV deletes a record at the end of its time.                             *)
Older(r, ttl) == IF r = None \/ r.age + 1 >= ttl THEN None ELSE [r EXCEPT !.age = @ + 1]

(* expirationTtl of the pending mark.                                      *)
PendingTtl == IF CacheTtl < Interval + Grace THEN CacheTtl ELSE Interval + Grace

-----------------------------------------------------------------------------
(* buildPublicBriefings for a window that has AI briefings.                *)

ShouldRefresh(briefing, hash) ==
    briefing # None => briefing.hash # hash /\ briefing.age >= Interval

(* The briefing is loaded, and the answer is its content or, without one,  *)
(* a list of the items.                                                    *)
Asks(c) ==
    /\ caller[c] = Idle
    /\ ShouldRefresh(cached, version)
    /\ caller' = [caller EXCEPT ![c] = [at |-> "looking", hash |-> version]]
    /\ UNCHANGED <<version, faults, cached, pending, queue, consumer, behind>>

(* shouldEnqueueBriefingRefresh                                            *)
ShouldEnqueue(mark, hash) == mark # None => mark.hash # hash /\ mark.age >= Interval

Looks(c) ==
    /\ caller[c].at = "looking"
    /\ caller' = [caller EXCEPT ![c] = IF ShouldEnqueue(pending, @.hash) THEN [@ EXCEPT !.at = "queueing"] ELSE Idle]
    /\ UNCHANGED <<version, faults, cached, pending, queue, consumer, behind>>

Queues(c) ==
    /\ caller[c].at = "queueing"
    /\ queue' = queue \cup {caller[c].hash}
    /\ caller' = [caller EXCEPT ![c].at = "marking"]
    /\ UNCHANGED <<version, faults, cached, pending, consumer, behind>>

(* Only then is the mark put, which the consumer may have cleared already. *)
Marks(c) ==
    /\ caller[c].at = "marking"
    /\ pending' = [hash |-> caller[c].hash, age |-> 0]
    /\ caller' = [caller EXCEPT ![c] = Idle]
    /\ UNCHANGED <<version, faults, cached, queue, consumer, behind>>

Fault == faults < MaxFaults /\ faults' = faults + 1

(* A call to KV or the queue fails, and may have taken effect.             *)
CallerFails(c) ==
    /\ caller[c] # Idle /\ Fault
    /\ \/ UNCHANGED <<queue, pending>>
       \/ caller[c].at = "queueing" /\ queue' = queue \cup {caller[c].hash} /\ UNCHANGED pending
       \/ caller[c].at = "marking" /\ pending' = [hash |-> caller[c].hash, age |-> 0] /\ UNCHANGED queue
    /\ caller' = [caller EXCEPT ![c] = Idle]
    /\ UNCHANGED <<version, cached, consumer, behind>>

-----------------------------------------------------------------------------
(* processBriefingRefresh.  The gateway may fail: the briefing is then the *)
(* list of the items, of the same version.                                 *)

Takes(p, hash) ==
    /\ consumer[p] = Idle
    /\ hash \in queue
    /\ \E seen \in IF FeedMemo THEN 1..version ELSE {version} :
          /\ consumer' = [consumer EXCEPT ![p] = [at |-> "saving", hash |-> hash, content |-> seen]]
          /\ behind' = (behind \/ seen < hash)
    /\ UNCHANGED <<version, faults, cached, pending, queue, caller>>

(* Mutant of SavedAs: the hash is of the items when the writing ends.      *)
SavedAsOfNow(w) == [content |-> w.content, hash |-> version, age |-> 0]

SavedAs(w) == [content |-> w.content, hash |-> w.hash, age |-> 0]

Saves(p) ==
    /\ consumer[p].at = "saving"
    /\ cached' = SavedAs(consumer[p])
    /\ consumer' = [consumer EXCEPT ![p].at = "clearing"]
    /\ UNCHANGED <<version, faults, pending, queue, caller, behind>>

(* clearPendingBriefingRefresh, and the acknowledgement.                   *)
Clears(p) ==
    /\ consumer[p].at = "clearing"
    /\ pending' = None
    /\ queue' = queue \ {consumer[p].hash}
    /\ consumer' = [consumer EXCEPT ![p] = Idle]
    /\ UNCHANGED <<version, faults, cached, caller, behind>>

(* A call fails or the consumer dies: the message is delivered again, or   *)
(* dropped after too many times.                                           *)
ConsumerFails(p) ==
    /\ consumer[p] # Idle /\ Fault
    /\ queue' \in {queue, queue \ {consumer[p].hash}}
    /\ consumer' = [consumer EXCEPT ![p] = Idle]
    /\ UNCHANGED <<version, cached, pending, caller, behind>>

-----------------------------------------------------------------------------
NewsComes ==
    /\ version < MaxVersion
    /\ version' = version + 1
    /\ UNCHANGED <<faults, cached, pending, queue, caller, consumer, behind>>

Tick ==
    /\ cached' = Older(cached, CacheTtl)
    /\ pending' = Older(pending, PendingTtl)
    /\ <<cached', pending'>> # <<cached, pending>>
    /\ UNCHANGED <<version, faults, queue, caller, consumer, behind>>

Init ==
    /\ version = 1 /\ faults = 0
    /\ cached = None /\ pending = None
    /\ queue = {}
    /\ caller = [c \in Callers |-> Idle]
    /\ consumer = [p \in Consumers |-> Idle]
    /\ behind = FALSE

Next ==
    \/ \E c \in Callers : Asks(c) \/ Looks(c) \/ Queues(c) \/ Marks(c) \/ CallerFails(c)
    \/ \E p \in Consumers :
          \/ Saves(p) \/ Clears(p) \/ ConsumerFails(p)
          \/ \E hash \in queue : Takes(p, hash)
    \/ NewsComes \/ Tick

Spec == Init /\ [][Next]_vars

(* The schedule runs again and again, a handler goes on, the queue         *)
(* delivers and time passes.                                               *)
Fairness ==
    /\ \A c \in Callers : WF_vars(Asks(c)) /\ WF_vars(Looks(c)) /\ WF_vars(Queues(c)) /\ WF_vars(Marks(c))
    /\ \A p \in Consumers : WF_vars(Saves(p)) /\ WF_vars(Clears(p))
    /\ \A hash \in 1..MaxVersion : WF_vars(\E p \in Consumers : Takes(p, hash))
    /\ WF_vars(Tick)

-----------------------------------------------------------------------------
Records == [hash : 1..MaxVersion, age : Nat]
Briefs == [content : 1..MaxVersion, hash : 1..MaxVersion, age : Nat]
Calls == {Idle} \cup [at : {"looking", "queueing", "marking"}, hash : 1..MaxVersion]
Writings == {Idle} \cup [at : {"saving", "clearing"}, hash : 1..MaxVersion, content : 1..MaxVersion]

TypeOK ==
    /\ version \in 1..MaxVersion /\ faults \in 0..MaxFaults
    /\ cached \in Briefs \cup {None}
    /\ pending \in Records \cup {None}
    /\ queue \subseteq 1..version
    /\ caller \in [Callers -> Calls] /\ consumer \in [Consumers -> Writings]
    /\ behind \in BOOLEAN

(* A briefing that counts as made from the window's items was made from    *)
(* them, unless the consumer read an older feed than the one that queued   *)
(* the refresh.                                                            *)
NotOlderThanHash == behind \/ cached = None \/ cached.content >= cached.hash

(* When no more news comes, the briefing is in the end that of the news    *)
(* there is, again and again after it expires.                             *)
EventuallyCurrent == []<>(behind \/ (cached # None /\ cached.content = version))
=============================================================================
