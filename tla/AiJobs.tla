-------------------------------- MODULE AiJobs -------------------------------
(***************************************************************************)
(* The jobs of one request to the AI: taken one after the other by a       *)
(* limited number of workers, each of which asks the gateway on one lane   *)
(* and, for a dedupe key, on a second one; or read back from the output    *)
(* file of a batch, whose lines come in any order, twice or not at all.    *)
(* What the gateway answers is abstracted to whether it can be used.       *)
(***************************************************************************)
EXTENDS Integers, Sequences, FiniteSets

CONSTANTS
    Jobs,           \* a sequence of records: type, media, preferEscalation
    Connections,    \* AI_PIPELINE_MAX_CONNECTIONS
    Escalation,     \* AI_DEDUPE_ESCALATION_ENABLED
    MaxLines,       \* bound: lines of an output file
    None

VARIABLES
    mode,       \* "direct", or "batch"
    next,       \* nextIndex of mapWithConcurrency
    worker,     \* what each worker does
    results,
    asked,      \* history: the lanes asked for each job
    lines       \* lines read of the output file

vars == <<mode, next, worker, results, asked, lines>>

Index == 1..Len(Jobs)
Runners == 1..(IF Connections < Len(Jobs) THEN Connections ELSE Len(Jobs))

Free == [at |-> "free"]

-----------------------------------------------------------------------------
(* Lanes.                                                                  *)
PrimaryLane(job) ==
    CASE job.type # "dedupe" -> "text"
      [] job.preferEscalation -> "escalation"
      [] job.media -> "media"
      [] OTHER -> "text"

(* Mutant of Escalates: whatever the lane was.                             *)
EscalatesAgain(job, lane) == job.type = "dedupe" /\ Escalation

(* A dedupe key that could not be had is asked for once more.              *)
Escalates(job, lane) == job.type = "dedupe" /\ Escalation /\ lane # "escalation"

(* executeAiJob: without an answer a dedupe key is the hash of the payload, *)
(* and the other jobs fail.                                                *)
Result(i, usable) ==
    [of |-> i, ok |-> usable \/ Jobs[i].type = "dedupe", ai |-> usable]

-----------------------------------------------------------------------------
(* executeAiJobsWithConcurrency                                            *)

(* The index is taken before the first await.                              *)
Takes(w) ==
    /\ mode = "direct" /\ worker[w] = Free
    /\ next <= Len(Jobs)
    /\ next' = next + 1
    /\ worker' = [worker EXCEPT ![w] = [at |-> "asking", job |-> next, lane |-> PrimaryLane(Jobs[next])]]
    /\ asked' = [asked EXCEPT ![next] = Append(@, PrimaryLane(Jobs[next]))]
    /\ UNCHANGED <<mode, results, lines>>

(* invokeAiGatewayDetailed, and what is made of it: a text, or a key or a  *)
(* label that is one of those asked for.                                   *)
Usable(w) ==
    LET i == worker[w].job IN
    /\ worker[w] # Free
    /\ results' = [results EXCEPT ![i] = Result(i, TRUE)]
    /\ worker' = [worker EXCEPT ![w] = Free]
    /\ UNCHANGED <<mode, next, asked, lines>>

(* An error of HTTP, no answer in time, no JSON, no choice, no message, or *)
(* a content that is of no use.                                            *)
Unusable(w) ==
    LET i == worker[w].job IN
    /\ worker[w] # Free
    /\ IF Escalates(Jobs[i], worker[w].lane)
       THEN /\ worker' = [worker EXCEPT ![w].lane = "escalation"]
            /\ asked' = [asked EXCEPT ![i] = Append(@, "escalation")]
            /\ UNCHANGED results
       ELSE /\ results' = [results EXCEPT ![i] = Result(i, FALSE)]
            /\ worker' = [worker EXCEPT ![w] = Free]
            /\ UNCHANGED asked
    /\ UNCHANGED <<mode, next, lines>>

-----------------------------------------------------------------------------
(* parseGroqBatchOutput                                                    *)

(* A line for job i, or for none of them.  Its answer is interpreted, or   *)
(* the job has failed: interpretAiResultFromModelOutput.                   *)
ReadsLine(i) ==
    /\ mode = "batch" /\ lines < MaxLines
    /\ lines' = lines + 1
    /\ IF i \in Index
       THEN \E r \in {Result(i, TRUE), Result(i, FALSE), [of |-> i, ok |-> FALSE, ai |-> FALSE]} :
               results' = [results EXCEPT ![i] = r]
       ELSE UNCHANGED results
    /\ UNCHANGED <<mode, next, worker, asked>>

(* What the file did not have has failed.                                  *)
EndsFile ==
    /\ mode = "batch"
    /\ results' = [i \in Index |->
          IF results[i] = None THEN [of |-> i, ok |-> FALSE, ai |-> FALSE] ELSE results[i]]
    /\ mode' = "read"
    /\ UNCHANGED <<next, worker, asked, lines>>

Init ==
    /\ mode \in {"direct", "batch"}
    /\ next = 1 /\ lines = 0
    /\ worker = [w \in Runners |-> Free]
    /\ results = [i \in Index |-> None]
    /\ asked = [i \in Index |-> <<>>]

Next ==
    \/ \E w \in Runners : Takes(w) \/ Usable(w) \/ Unusable(w)
    \/ \E i \in 0..Len(Jobs) : ReadsLine(i)
    \/ EndsFile

Spec == Init /\ [][Next]_vars

-----------------------------------------------------------------------------
TypeOK ==
    /\ mode \in {"direct", "batch", "read"}
    /\ next \in 1..(Len(Jobs) + 1) /\ lines \in 0..MaxLines
    /\ \A w \in Runners : worker[w] = Free \/ worker[w].job \in Index

Done ==
    \/ mode = "read"
    \/ mode = "direct" /\ next > Len(Jobs) /\ \A w \in Runners : worker[w] = Free

(* Each job is one worker's, is asked for at most once on a lane, and in   *)
(* the end has its own result, at its own place.                           *)
EachJobOnce ==
    /\ \A v, w \in Runners : v # w /\ worker[v] # Free /\ worker[w] # Free => worker[v].job # worker[w].job
    /\ \A i \in Index : Len(asked[i]) = Cardinality({asked[i][k] : k \in 1..Len(asked[i])})
    /\ \A i \in Index : results[i] # None => results[i].of = i
    /\ Done => \A i \in Index : results[i] # None
=============================================================================
