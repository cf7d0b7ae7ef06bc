------------------------------ MODULE Outbound ------------------------------
(***************************************************************************)
(* Notifications: every item of a publish to every target of it, a few at  *)
(* a time.  What was delivered is remembered in KV under scope, channel    *)
(* and fingerprint of the item; the fingerprint is the one the AI gateway  *)
(* derives for the story or, when every lane fails, the hash of the text.  *)
(***************************************************************************)
EXTENDS Integers, FiniteSets, Sequences

CONSTANTS
    Items,          \* records of id, text and story
    Channels, Scopes, Ttls,
    Requests,
    Connections,    \* AI_PIPELINE_MAX_CONNECTIONS
    Escalation,     \* AI_DEDUPE_ESCALATION_ENABLED
    MaxJobs, MaxTime, MaxFaults,    \* bounds
    None

VARIABLES
    now, faults,
    mark,       \* the KV marks: when each key's mark ends
    request,    \* the calls of deliverOutboundTargets
    told,       \* history: like mark, of the deliveries that were counted
    heard,      \* history: what any delivery told
    wrong       \* history: a delivery was repeated or left out without excuse

vars == <<now, faults, mark, request, told, heard, wrong>>

Idle == [at |-> "idle"]

(* The answer of a lane, text or media or escalation, depends on the       *)
(* story; it may fail.                                                     *)
Answers(item) == {<<"story", item.story>>, None}

(* deriveDedupeKeyWithAi                                                   *)
Fingerprints(item) ==
    {IF primary # None THEN primary
     ELSE IF Escalation /\ escalated # None THEN escalated
     ELSE <<"hash", item.text>> : primary \in Answers(item), escalated \in Answers(item)}

Keys == Scopes \X Channels \X ({<<"story", i.story>> : i \in Items} \cup {<<"hash", i.text>> : i \in Items})

Holds(m, k) == m[k] > now

(* Mutant of DedupeKey: one mark for all channels.                         *)
DedupeKeyShared(q, job, print) == <<q.scope, CHOOSE c \in Channels : TRUE, print>>

(* buildOutboundDedupeKey                                                  *)
DedupeKey(q, job, print) == <<q.scope, job.channel, print>>

(* What a job tells and to whom.                                           *)
What(q, job) == <<q.scope, job.channel, job.key[3]>>

(* deliverOutboundTargets: the jobs, in order.                             *)
Jobs(items, channels) ==
    [n \in 1..(Len(items) * Len(channels)) |->
        [at |-> "waiting", key |-> None, knew |-> FALSE,
         item |-> items[1 + (n - 1) \div Len(channels)],
         channel |-> channels[1 + ((n - 1) % Len(channels))]]]

Asked(r) ==
    /\ request[r] = Idle
    /\ \E n, c \in 1..MaxJobs :
          /\ n * c <= MaxJobs
          /\ \E items \in [1..n -> Items], channels \in [1..c -> Channels], scope \in Scopes, ttl \in Ttls :
                request' = [request EXCEPT ![r] =
                    [at |-> "running", scope |-> scope, ttl |-> ttl, seen |-> {}, sent |-> {},
                     prints |-> [id \in {i.id : i \in Items} |-> None], job |-> Jobs(items, channels)]]
    /\ UNCHANGED <<now, faults, mark, told, heard, wrong>>

InFlight(q) == {n \in DOMAIN q.job : q.job[n].at \notin {"waiting", "done"}}

(* mapWithConcurrency                                                      *)
JobStarts(r, n) ==
    LET q == request[r] IN
    /\ q.job[n].at = "waiting"
    /\ \A k \in 1..n-1 : q.job[k].at # "waiting"
    /\ Cardinality(InFlight(q)) < Connections
    /\ request' = [request EXCEPT ![r].job[n].at = "printing"]
    /\ UNCHANGED <<now, faults, mark, told, heard, wrong>>

(* One fingerprint for an id, whichever job of the request asks first; and *)
(* the keys this request has come to before.                               *)
Prints(r, n) ==
    LET q == request[r]
        job == q.job[n]
        known == q.prints[job.item.id]
    IN
    /\ job.at = "printing"
    /\ \E print \in IF known # None THEN {known} ELSE Fingerprints(job.item) :
          LET key == DedupeKey(q, job, print) IN
          request' = [request EXCEPT ![r] = [q EXCEPT
              !.prints[job.item.id] = print,
              !.seen = q.seen \cup {key},
              !.job[n] = [job EXCEPT !.at = IF key \in q.seen THEN "done" ELSE "looking",
                                     !.key = key,
                                     !.knew = Holds(told, <<q.scope, job.channel, print>>)]]]
    /\ UNCHANGED <<now, faults, mark, told, heard, wrong>>

(* kvGet                                                                   *)
Looks(r, n) ==
    LET job == request[r].job[n] IN
    /\ job.at = "looking"
    /\ request' = [request EXCEPT ![r].job[n] =
                      [job EXCEPT !.at = IF Holds(mark, job.key) THEN "done" ELSE "sending",
                                  !.knew = job.knew /\ Holds(told, What(request[r], job))]]
    /\ wrong' = (wrong \/ (Holds(mark, job.key) /\ What(request[r], job) \notin heard))
    /\ UNCHANGED <<now, faults, mark, told, heard>>

Fault == faults < MaxFaults /\ faults' = faults + 1

LookFails(r, n) ==
    /\ request[r].job[n].at = "looking" /\ Fault
    /\ request' = [request EXCEPT ![r].job[n].at = "done"]
    /\ UNCHANGED <<now, mark, told, heard, wrong>>

(* The target has the item, and the answer says so or is lost or late.     *)
Delivered(r, n, next) ==
    LET q == request[r]
        job == q.job[n]
        what == What(q, job)
    IN
    /\ job.at = "sending"
    /\ request' = [request EXCEPT ![r].sent = @ \cup {what}, ![r].job[n].at = next]
    /\ heard' = heard \cup {what}
    /\ wrong' = (wrong \/ job.knew \/ what \in q.sent)
    /\ UNCHANGED <<now, mark, told>>

Delivers(r, n) == Delivered(r, n, "marking") /\ UNCHANGED faults

AnswerLost(r, n) == Delivered(r, n, "done") /\ Fault

Refused(r, n) ==
    /\ request[r].job[n].at = "sending" /\ Fault
    /\ request' = [request EXCEPT ![r].job[n].at = "done"]
    /\ UNCHANGED <<now, mark, told, heard, wrong>>

(* kvPut                                                                   *)
Marks(r, n) ==
    LET q == request[r]
        job == q.job[n]
    IN
    /\ job.at = "marking"
    /\ mark' = [mark EXCEPT ![job.key] = now + q.ttl]
    /\ told' = [told EXCEPT ![What(q, job)] = now + q.ttl]
    /\ request' = [request EXCEPT ![r].job[n].at = "done"]
    /\ UNCHANGED <<now, faults, heard, wrong>>

Least(a, b) == IF a < b THEN a ELSE b

(* A put whose answer is lost may have made the mark end earlier.          *)
MarkFails(r, n) ==
    LET q == request[r]
        job == q.job[n]
    IN
    /\ job.at = "marking" /\ Fault
    /\ \/ /\ mark' = [mark EXCEPT ![job.key] = now + q.ttl]
          /\ told' = [told EXCEPT ![What(q, job)] = Least(@, now + q.ttl)]
       \/ UNCHANGED <<mark, told>>
    /\ request' = [request EXCEPT ![r].job[n].at = "done"]
    /\ UNCHANGED <<now, heard, wrong>>

Returns(r) ==
    /\ request[r].at = "running"
    /\ \A n \in DOMAIN request[r].job : request[r].job[n].at = "done"
    /\ request' = [request EXCEPT ![r] = Idle]
    /\ UNCHANGED <<now, faults, mark, told, heard, wrong>>

(* The isolate dies under a call nobody waits for (OUTBOUND_ASYNC).        *)
Dies(r) ==
    /\ request[r].at = "running" /\ Fault
    /\ request' = [request EXCEPT ![r] = Idle]
    /\ UNCHANGED <<now, mark, told, heard, wrong>>

Tick ==
    /\ now < MaxTime
    /\ now' = now + 1
    /\ UNCHANGED <<faults, mark, request, told, heard, wrong>>

Init ==
    /\ now = 0 /\ faults = 0
    /\ mark = [k \in Keys |-> 0]
    /\ request = [r \in Requests |-> Idle]
    /\ told = [k \in Keys |-> 0]
    /\ heard = {} /\ wrong = FALSE

Next ==
    \/ \E r \in Requests :
          \/ Asked(r)
          \/ /\ request[r].at = "running"
             /\ \/ Returns(r) \/ Dies(r)
                \/ \E n \in DOMAIN request[r].job :
                      \/ JobStarts(r, n) \/ Prints(r, n) \/ Looks(r, n) \/ LookFails(r, n)
                      \/ Delivers(r, n) \/ AnswerLost(r, n) \/ Refused(r, n)
                      \/ Marks(r, n) \/ MarkFails(r, n)
    \/ Tick

Spec == Init /\ [][Next]_vars

-----------------------------------------------------------------------------
TypeOK ==
    /\ now \in 0..MaxTime /\ faults \in 0..MaxFaults
    /\ mark \in [Keys -> Nat] /\ told \in [Keys -> Nat]
    /\ \A r \in Requests : request[r].at = "running" => Cardinality(InFlight(request[r])) <= Connections

(* A channel is told a story at most once by one request, and not at all   *)
(* by a job that comes to it after a job that counted its delivery, until  *)
(* the mark's time is over; and what is skipped for its mark was told.     *)
ToldOnce == ~ wrong
=============================================================================
