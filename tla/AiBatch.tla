------------------------------- MODULE AiBatch -------------------------------
(***************************************************************************)
(* Asynchronous AI batches of the backend.  A post stores a batch in KV    *)
(* and sends a run message; a run executes the jobs itself, or submits     *)
(* them to Groq and sends a poll message; polls ask Groq until it is done. *)
(* A sweep, every minute, takes up batches that nobody has saved for a     *)
(* while.  Without a queue the post and the sweep run the batch at once.   *)
(*                                                                         *)
(* Every invocation loads a batch, and then goes through a list of steps   *)
(* with an await at each, saving what it loaded with another status.  KV   *)
(* has no compare-and-set, and the queue delivers at least once.           *)
(***************************************************************************)
EXTENDS Naturals, Sequences

CONSTANTS
    Batches,
    None,        \* nothing under a key; no invocation
    Workers,     \* bound: invocations in flight
    MaxPolls,    \* AI_BATCH_MAX_POLL_ATTEMPTS
    MaxRetries,  \* max_retries of the queue's consumer
    MaxFaults    \* bound: failures, lost answers, second posts and deliveries, overruns

ASSUME BatchAssumption == {MaxPolls, MaxRetries, MaxFaults} \subseteq Nat

VARIABLES
    posted,   \* the ids that were given to batches
    state,    \* the batch under its state key
    pending,  \* the age of its pending key
    queue,    \* messages; equal ones that wait together are one
    done,     \* the batches Groq has ended, all submissions of one taken together
    outputless, \* those of which a submission ended without an output to fetch
    hasQueue, \* the binding AI_JOB_QUEUE
    job,      \* what each invocation is doing
    faults,
    submits,  \* history: submissions to Groq, up to 2
    resent,   \* history: batches posted again, or whose run message was sent or
              \* delivered again
    torn      \* history: batches whose keys were saved or deleted in part

vars == <<posted, state, pending, queue, done, outputless, hasQueue, job, faults,
          submits, resent, torn>>

Statuses == {"queued", "running", "submitted", "polling", "completed", "failed"}
Ended == {"completed", "failed"}

(* The keys of a batch, but for the meta key that requests are answered    *)
(* from.                                                                   *)
Keys == {"state", "pending"}

Finished(s) == s.status \in Ended

Message == [kind : {"run", "poll"}, batch : Batches, tries : 0..MaxRetries]

(* An invocation: the batch as it will be saved but for its status (st),   *)
(* and the steps ahead.  A status as a step is a save with that status.    *)
(* The field behind is history: others have saved the batch since the      *)
(* load.                                                                   *)
Job(kind, b, s, todo, tries) ==
    [kind |-> kind, batch |-> b,
     st |-> IF s = None THEN None ELSE [s EXCEPT !.status = "queued", !.fresh = TRUE],
     todo |-> todo, tries |-> tries, behind |-> FALSE]

Active(w) == job[w] # None

AtStep(w, steps) == Active(w) /\ Head(job[w].todo) \in steps

(* Worker w becomes r, or is free when r has nothing left to do.           *)
Turn(w, r) == [job EXCEPT ![w] = IF r.todo = <<>> THEN None ELSE r]

Onward(r) == [r EXCEPT !.todo = Tail(@)]

Fault == faults < MaxFaults /\ faults' = faults + 1

-----------------------------------------------------------------------------
Init ==
    /\ posted = {}
    /\ state = [b \in Batches |-> None]
    /\ pending = [b \in Batches |-> None]
    /\ queue = {}
    /\ done = {}
    /\ outputless = {}
    /\ hasQueue \in BOOLEAN
    /\ job = [w \in Workers |-> None]
    /\ faults = 0
    /\ submits = [b \in Batches |-> 0]
    /\ resent = {}
    /\ torn = {}

-----------------------------------------------------------------------------
(* What an invocation does with the batch s that it loaded.                *)

(* Mutant of RunPlan: a batch that is running is run again.                *)
RunPlanAgain(s) ==
    IF s = None \/ Finished(s) THEN <<>>
    ELSE IF s.ext
    THEN IF s.status \in {"submitted", "polling"} THEN <<"sendPoll">> ELSE <<"submitted", "sendPoll">>
    ELSE IF s.provider = "internal" THEN <<"running", "completed">>
    ELSE <<"running", "submit", "submitted", "sendPoll">>

(* processAiBatchRun.                                                      *)
RunPlan(s) ==
    IF s = None \/ Finished(s) THEN <<>>
    ELSE IF s.ext
    THEN IF s.status \in {"submitted", "polling"} THEN <<"sendPoll">> ELSE <<"submitted", "sendPoll">>
    ELSE IF s.status # "queued" THEN <<>>
    ELSE IF s.provider = "internal" THEN <<"running", "completed">>
    ELSE <<"running", "submit", "submitted", "sendPoll">>

(* processAiBatchPoll, up to its question to Groq.                         *)
PollPlan(s) ==
    IF s = None \/ Finished(s) \/ s.provider # "groq" THEN <<>>
    ELSE IF ~ s.ext THEN <<"failed">>
    ELSE <<"ask">>

(* Mutant of SweepPlan: the sweep sends the run message, but does not put  *)
(* a running batch back to queued.                                         *)
SweepPlanKeeping(s) ==
    IF ~ hasQueue
    THEN IF s.provider # "internal" THEN <<"failed">>
         ELSE IF s.status = "running" THEN <<"queued", "direct">> ELSE <<"direct">>
    ELSE IF s.provider = "groq" /\ s.ext /\ s.status \in {"submitted", "polling", "running"}
         THEN <<"sendPoll", "polling">>
         ELSE <<"sendRun", s.status>>

(* recoverStaleAiBatches: what it does with a stale batch.                 *)
SweepPlan(s) ==
    IF ~ hasQueue
    THEN IF s.provider # "internal" THEN <<"failed">>
         ELSE IF s.status = "running" THEN <<"queued", "direct">> ELSE <<"direct">>
    ELSE IF s.provider = "groq" /\ s.ext /\ s.status \in {"submitted", "polling", "running"}
         THEN <<"sendPoll", "polling">>
         ELSE <<"sendRun", "queued">>

-----------------------------------------------------------------------------
(* An invocation begins.                                                   *)

(* handleAiJobs.  The caller chooses the id, which may be that of a stored *)
(* batch, and an idempotency key or none.  A post whose key leads to a     *)
(* batch that has a meta key is answered with that one and changes         *)
(* nothing; which keys were used is left out, as another key, or none,     *)
(* lets the same post through.                                             *)
PostStart(w, b) ==
    /\ ~ Active(w)
    /\ posted' = posted \cup {b}
    /\ IF b \in posted THEN Fault /\ resent' = resent \cup {b} ELSE UNCHANGED <<faults, resent>>
    /\ LET last == IF hasQueue THEN "sendRun" ELSE "direct"
       IN  \E provider \in {"internal", "groq"},
              todo \in {<<"queued", last>>, <<"queued", "remember", last>>} :
              /\ provider = "groq" => hasQueue
              /\ job' = Turn(w, Job("post", b,
                    [status |-> "queued", provider |-> provider, ext |-> FALSE, polls |-> 0,
                     fresh |-> TRUE], todo, 0))
    /\ UNCHANGED <<state, pending, queue, done, outputless, hasQueue, submits, torn>>

(* The queue handler takes a message and loads its batch.  When the        *)
(* message is delivered a second time, it is still in the queue.           *)
Take(w, m) ==
    /\ ~ Active(w)
    /\ m \in queue
    /\ LET s == state[m.batch]
           plan == IF m.kind = "run" THEN RunPlan(s) ELSE PollPlan(s)
       IN  job' = Turn(w, Job(m.kind, m.batch, s, plan, m.tries))
    /\ \/ queue' = queue \ {m} /\ UNCHANGED <<faults, resent>>
       \/ /\ Fault
          /\ resent' = IF m.kind = "run" THEN resent \cup {m.batch} ELSE resent
          /\ UNCHANGED queue
    /\ UNCHANGED <<posted, state, pending, done, outputless, hasQueue, submits, torn>>

(* Mutant of SweepStart: a finished batch is taken up too.                 *)
SweepStartFinished(w, b) ==
    /\ ~ Active(w)
    /\ pending[b] = "stale"
    /\ state[b] # None /\ ~ state[b].fresh
    /\ job' = Turn(w, Job("sweep", b, state[b], SweepPlan(state[b]), 0))
    /\ UNCHANGED <<posted, state, pending, queue, done, outputless, hasQueue, faults,
                   submits, resent, torn>>

(* recoverStaleAiBatches: one key of the list.                             *)
SweepStart(w, b) ==
    /\ ~ Active(w)
    /\ pending[b] = "stale"
    /\ state[b] # None /\ ~ state[b].fresh /\ ~ Finished(state[b])
    /\ job' = Turn(w, Job("sweep", b, state[b], SweepPlan(state[b]), 0))
    /\ UNCHANGED <<posted, state, pending, queue, done, outputless, hasQueue, faults,
                   submits, resent, torn>>

-----------------------------------------------------------------------------
(* The steps.                                                              *)

(* saveAiBatchState of s by w: the keys of ks are written, and the pending *)
(* key deleted when the batch is finished.                                 *)
Put(w, s, ks, r) ==
    LET b == job[w].batch
    IN  /\ state' = IF "state" \in ks THEN [state EXCEPT ![b] = s] ELSE state
        /\ pending' = IF "pending" \in ks
                      THEN [pending EXCEPT ![b] = IF Finished(s) THEN None ELSE "fresh"] ELSE pending
        /\ job' = [v \in Workers |->
                     IF v = w THEN Turn(w, r)[w]
                     ELSE IF Active(v) /\ job[v].batch = b /\ "state" \in ks
                     THEN [job[v] EXCEPT !.behind = TRUE] ELSE job[v]]

(* What w saves next.                                                      *)
Saved(w) == [job[w].st EXCEPT !.status = Head(job[w].todo)]

Save(w) ==
    /\ AtStep(w, Statuses)
    /\ Put(w, Saved(w), Keys, Onward(job[w]))
    /\ UNCHANGED <<posted, queue, done, outputless, hasQueue, faults, submits, resent, torn>>

(* saveAiBatchIdempotency.                                                 *)
Remember(w) ==
    /\ AtStep(w, {"remember"})
    /\ job' = Turn(w, Onward(job[w]))
    /\ UNCHANGED <<posted, state, pending, queue, done, outputless, hasQueue, faults, submits, resent, torn>>

(* The message of a step; a sweep sends a run message for a second time.   *)
Sent(w) == {[kind |-> IF AtStep(w, {"sendRun"}) THEN "run" ELSE "poll",
             batch |-> job[w].batch, tries |-> 0]}

Resent(w) ==
    IF AtStep(w, {"sendRun"}) /\ job[w].kind = "sweep" THEN resent \cup {job[w].batch} ELSE resent

Enqueue(w) ==
    /\ AtStep(w, {"sendRun", "sendPoll"})
    /\ hasQueue
    /\ queue' = queue \cup Sent(w)
    /\ resent' = Resent(w)
    /\ job' = Turn(w, Onward(job[w]))
    /\ UNCHANGED <<posted, state, pending, done, outputless, hasQueue, faults, submits, torn>>

(* Without a queue, the post or the sweep loads the batch and runs it.     *)
Direct(w) ==
    /\ AtStep(w, {"direct"})
    /\ LET b == job[w].batch IN job' = Turn(w, Job("direct", b, state[b], RunPlan(state[b]), 0))
    /\ UNCHANGED <<posted, state, pending, queue, done, outputless, hasQueue, faults,
                   submits, resent, torn>>

Submitted(b) == submits' = [submits EXCEPT ![b] = IF @ < 2 THEN @ + 1 ELSE @]

(* submitGroqBatch: Groq makes the batch and answers with its id.          *)
Submit(w) ==
    /\ AtStep(w, {"submit"})
    /\ Submitted(job[w].batch)
    /\ job' = Turn(w, [Onward(job[w]) EXCEPT !.st.ext = TRUE])
    /\ UNCHANGED <<posted, state, pending, queue, done, outputless, hasQueue, faults, resent, torn>>

(* Mutant of Ask: the attempts are not limited.                            *)
AskForever(w) ==
    /\ AtStep(w, {"ask"})
    /\ LET r == job[w]
           counted == [r.st EXCEPT !.polls = @ + 1]
       IN  IF r.batch \in done
           THEN \E end \in Ended : job' = Turn(w, [r EXCEPT !.todo = <<end>>])
           ELSE job' = Turn(w, [r EXCEPT !.todo = <<"sendPoll", "polling">>, !.st = counted])
    /\ UNCHANGED <<posted, state, pending, queue, done, outputless, hasQueue, faults,
                   submits, resent, torn>>

(* Groq answers a poll.  When it has not ended the batch, the poll sends   *)
(* the next one, until there were too many.                                *)
Ask(w) ==
    /\ AtStep(w, {"ask"})
    /\ job[w].batch \in outputless => submits[job[w].batch] > 1
    /\ LET r == job[w]
           counted == [r.st EXCEPT !.polls = @ + 1]
       IN  IF r.batch \in done
           THEN \E end \in Ended : job' = Turn(w, [r EXCEPT !.todo = <<end>>])
           ELSE IF r.st.polls + 1 > MaxPolls
           THEN job' = Turn(w, [r EXCEPT !.todo = <<"failed">>, !.st = counted])
           ELSE job' = Turn(w, [r EXCEPT !.todo = <<"sendPoll", "polling">>, !.st = counted])
    /\ UNCHANGED <<posted, state, pending, queue, done, outputless, hasQueue, faults,
                   submits, resent, torn>>

-----------------------------------------------------------------------------
(* Failures.                                                               *)

(* What follows an exception in a step of r.  A post rolls back once it    *)
(* has stored the batch; a run without a queue is failed in KV.            *)
AfterThrow(r) ==
    IF r.kind = "post" /\ Head(r.todo) \in {"remember", "sendRun"} THEN [r EXCEPT !.todo = <<"rollback">>]
    ELSE IF r.kind = "direct" \/ Head(r.todo) = "direct"
    THEN [r EXCEPT !.kind = "rescue", !.todo = <<"rescue">>]
    ELSE [r EXCEPT !.todo = <<>>]

(* The queue delivers the message again, but not more often than           *)
(* MaxRetries; then it goes to the dead letters.                           *)
Retried(r) ==
    IF r.kind \in {"run", "poll"} /\ r.tries < MaxRetries
    THEN {[kind |-> r.kind, batch |-> r.batch, tries |-> r.tries + 1]} ELSE {}

(* A step fails without effect.  It is no fault where it must: sending     *)
(* without the binding, and a poll of a submission without an output,      *)
(* which is thrown before the attempt is counted.                          *)
MustThrow(w) ==
    \/ AtStep(w, {"sendRun", "sendPoll"}) /\ ~ hasQueue
    \/ AtStep(w, {"ask"}) /\ job[w].batch \in outputless

Throw(w) ==
    /\ Active(w)
    /\ IF MustThrow(w) THEN UNCHANGED faults ELSE Fault
    /\ queue' = queue \cup Retried(job[w])
    /\ job' = Turn(w, AfterThrow(job[w]))
    /\ UNCHANGED <<posted, state, pending, done, outputless, hasQueue, submits, resent, torn>>

(* Some of the keys are saved, and one of the puts fails.                  *)
SaveThrows(w) ==
    /\ AtStep(w, Statuses)
    /\ Fault
    /\ \E ks \in SUBSET Keys \ {{}} :
          /\ Put(w, Saved(w), ks, AfterThrow(job[w]))
          /\ torn' = IF ks = Keys THEN torn ELSE torn \cup {job[w].batch}
    /\ queue' = queue \cup Retried(job[w])
    /\ UNCHANGED <<posted, done, outputless, hasQueue, submits, resent>>

(* The message is sent, but the sender gets an error.                      *)
EnqueueUnheard(w) ==
    /\ AtStep(w, {"sendRun", "sendPoll"})
    /\ hasQueue
    /\ Fault
    /\ queue' = queue \cup Sent(w) \cup Retried(job[w])
    /\ resent' = Resent(w)
    /\ job' = Turn(w, AfterThrow(job[w]))
    /\ UNCHANGED <<posted, state, pending, done, outputless, hasQueue, submits, torn>>

(* Groq makes the batch, but its answer is lost.                           *)
SubmitUnheard(w) ==
    /\ AtStep(w, {"submit"})
    /\ Fault
    /\ Submitted(job[w].batch)
    /\ queue' = queue \cup Retried(job[w])
    /\ job' = Turn(w, AfterThrow(job[w]))
    /\ UNCHANGED <<posted, state, pending, done, outputless, hasQueue, resent, torn>>

(* An invocation ends before its next step, which nothing catches.  The    *)
(* queue delivers its message again.                                       *)
Crash(w) ==
    /\ Active(w)
    /\ Fault
    /\ queue' = queue \cup Retried(job[w])
    /\ job' = [job EXCEPT ![w] = None]
    /\ UNCHANGED <<posted, state, pending, done, outputless, hasQueue, submits, resent, torn>>

(* A post that cannot send deletes all its keys, each by itself.           *)
Rollback(w) ==
    /\ AtStep(w, {"rollback"})
    /\ LET b == job[w].batch
       IN  \E ks \in SUBSET Keys :
              /\ IF ks = Keys THEN UNCHANGED <<faults, torn>>
                 ELSE Fault /\ torn' = torn \cup {b}
              /\ state' = IF "state" \in ks THEN [state EXCEPT ![b] = None] ELSE state
              /\ pending' = IF "pending" \in ks THEN [pending EXCEPT ![b] = None] ELSE pending
              /\ job' = [v \in Workers |->
                           IF v = w THEN None
                           ELSE IF Active(v) /\ job[v].batch = b /\ "state" \in ks
                           THEN [job[v] EXCEPT !.behind = TRUE] ELSE job[v]]
    /\ UNCHANGED <<posted, queue, done, outputless, hasQueue, submits, resent>>

(* processAiBatchRunWithoutQueueRecovery, after an exception.              *)
Rescue(w) ==
    /\ AtStep(w, {"rescue"})
    /\ LET s == state[job[w].batch]
       IN  job' = Turn(w, Job("rescue", job[w].batch, s,
                              IF s = None \/ Finished(s) THEN <<>> ELSE <<"failed">>, 0))
    /\ UNCHANGED <<posted, state, pending, queue, done, outputless, hasQueue, faults,
                   submits, resent, torn>>

-----------------------------------------------------------------------------
(* Around the handlers.                                                    *)

(* Groq ends what was submitted to it, with an output or without one.      *)
GroqEnds(b) ==
    /\ submits[b] > 0 /\ b \notin done
    /\ done' = done \cup {b}
    /\ outputless' \in {outputless, outputless \cup {b}}
    /\ UNCHANGED <<posted, state, pending, queue, hasQueue, job, faults,
                   submits, resent, torn>>

(* Five minutes pass since a batch was saved, which matters while it has a *)
(* pending key.  That an invocation is at work on it meanwhile counts as a *)
(* fault.                                                                  *)
Age(b) ==
    /\ pending[b] = "fresh" \/ (pending[b] = "stale" /\ state[b] # None /\ state[b].fresh)
    /\ IF \E w \in Workers : Active(w) /\ job[w].batch = b THEN Fault ELSE UNCHANGED faults
    /\ pending' = [pending EXCEPT ![b] = "stale"]
    /\ state' = [state EXCEPT ![b] = IF @ = None THEN None ELSE [@ EXCEPT !.fresh = FALSE]]
    /\ UNCHANGED <<posted, queue, done, outputless, hasQueue, job, submits, resent, torn>>

(* The worker is deployed without its queue.                               *)
QueueUnbound ==
    /\ hasQueue
    /\ Fault
    /\ hasQueue' = FALSE
    /\ UNCHANGED <<posted, state, pending, queue, done, outputless, job, submits, resent, torn>>

Step(w) ==
    \/ Save(w) \/ Remember(w) \/ Enqueue(w) \/ Direct(w) \/ Submit(w) \/ Ask(w)
    \/ Rollback(w) \/ Rescue(w)
    \/ MustThrow(w) /\ Throw(w)

Next ==
    \/ \E w \in Workers :
          \/ Step(w)
          \/ \E b \in Batches : PostStart(w, b) \/ SweepStart(w, b)
          \/ \E m \in Message : Take(w, m)
          \/ Throw(w) \/ SaveThrows(w) \/ EnqueueUnheard(w) \/ SubmitUnheard(w) \/ Crash(w)
    \/ \E b \in Batches : GroqEnds(b) \/ Age(b)
    \/ QueueUnbound

Fairness ==
    /\ \A w \in Workers : WF_vars(Step(w))
    /\ \A kind \in {"run", "poll"} :
          SF_vars(\E w \in Workers, m \in Message : m.kind = kind /\ Take(w, m))
    /\ \A b \in Batches :
          /\ SF_vars(\E w \in Workers : SweepStart(w, b))
          /\ WF_vars(GroqEnds(b))
          /\ WF_vars(Age(b))

Spec == Init /\ [][Next]_vars /\ Fairness

-----------------------------------------------------------------------------
(* Properties.                                                             *)

Batch == [status : Statuses, provider : {"internal", "groq"}, ext : BOOLEAN,
          polls : 0..(MaxPolls + 1), fresh : BOOLEAN]

(* Every variable has the shape the code gives it; a batch that has an     *)
(* external id went through a submission, and is Groq's.                   *)
TypeOK ==
    /\ posted \subseteq Batches
    /\ \A b \in Batches :
          /\ state[b] # None => /\ state[b] \in Batch
                                /\ state[b].ext => state[b].provider = "groq" /\ submits[b] > 0
          /\ pending[b] \in {None, "fresh", "stale"}
          /\ submits[b] \in 0..2
    /\ queue \subseteq Message
    /\ outputless \subseteq done
    /\ done \cup resent \cup torn \subseteq Batches
    /\ hasQueue \in BOOLEAN
    /\ \A w \in Workers : Active(w) => job[w].batch \in Batches /\ job[w].todo # <<>>
    /\ faults \in 0..MaxFaults

(* Groq is paid for a batch once: an answer that is lost, a save that      *)
(* fails and a message that is retried never lead to a second submission.  *)
(* Only a second post of its id does, or a run message that a sweep sends  *)
(* or the queue delivers twice.                                            *)
SubmittedOnce == \A b \in Batches : submits[b] > 1 => b \in resent

Rank(s) == CASE s.status = "queued" -> 1
             [] s.status = "running" -> 2
             [] s.status = "submitted" -> 3
             [] s.status = "polling" -> 4
             [] s.status \in Ended -> 5

(* A batch goes on from queued to its end and stays there.  Only a sweep   *)
(* puts one back, and no step does that to a finished one, except by a     *)
(* second post of its id or an invocation that others' saves have left     *)
(* behind.                                                                 *)
MovesForward ==
    [][\A b \in Batches :
          LET s == state[b]
              t == state'[b]
          IN  s # None /\ t # None /\ t # s /\ Rank(t) < Rank(s) =>
                 \E w \in Workers :
                    /\ Active(w) /\ job[w].batch = b
                    /\ \/ job[w].behind
                       \/ job[w].kind = "sweep" /\ ~ Finished(s)
                       \/ job[w].kind = "post" /\ b \in resent]_vars

(* Whatever fails, times out or is delivered twice, a batch that was       *)
(* stored ends, or its post rolls it back, unless its keys were saved or   *)
(* deleted only in part, or Groq has ended a submission of it without an   *)
(* output: each poll of that one throws, and the sweep sends the next.     *)
EveryBatchEnds ==
    \A b \in Batches :
        state[b] # None ~>
            state[b] = None \/ Finished(state[b]) \/ b \in torn \cup outputless

=============================================================================
