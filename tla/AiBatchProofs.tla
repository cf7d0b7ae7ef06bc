--------------------------- MODULE AiBatchProofs ----------------------------
(***************************************************************************)
(* Proofs about the AI batches, for every set of batches and invocations   *)
(* and every bound on polls, retries and faults.                           *)
(*                                                                         *)
(* An invocation is at a place of one of a few plans.  TypeInv says which  *)
(* plans each kind of invocation has, and what it carries there.  KnownInv *)
(* relates the copies of a batch that nobody posted or sent again: all     *)
(* have one provider, only one that is not Groq's is run directly, and     *)
(* such a batch is not submitted.  Nothing is known of a batch before its  *)
(* post.                                                                   *)
(* OnceInv is the argument for the single submission: of a batch that      *)
(* nobody posted or sent again there is one right to run, which its post,  *)
(* a run message or a run holds.  ForwardInv bounds what a batch has       *)
(* reached by what the invocations that are up to date, second posts       *)
(* excepted, are yet to save.                                              *)
(*                                                                         *)
(* Every step is shown to be of one form (Moves): one invocation acts on   *)
(* one batch and the others at most fall behind.  What it leaves alone is  *)
(* then argued once, and each action only for the batch it is about.       *)
(***************************************************************************)
EXTENDS AiBatch, TLAPS

-----------------------------------------------------------------------------
(* What an invocation may have ahead of it, by its kind.                   *)

SubmitPlan == <<"submit", "submitted", "sendPoll">>
GroqPlan == <<"running", "submit", "submitted", "sendPoll">>

QueuedPosts ==
    {<<"queued", "remember", "sendRun">>, <<"queued", "sendRun">>, <<"remember", "sendRun">>,
     <<"sendRun">>}
DirectPosts ==
    {<<"queued", "remember", "direct">>, <<"queued", "direct">>, <<"remember", "direct">>,
     <<"direct">>}

RunPlans ==
    {<<"sendPoll">>, <<"submitted", "sendPoll">>, <<"running", "completed">>, <<"completed">>,
     GroqPlan, SubmitPlan}

PollPlans == {<<"failed">>, <<"ask">>, <<"sendPoll", "polling">>, <<"polling">>, <<"completed">>}

SweepPlans ==
    {<<"failed">>, <<"queued", "direct">>, <<"direct">>, <<"sendPoll", "polling">>, <<"polling">>,
     <<"sendRun", "queued">>, <<"queued">>}

PlansOf(kind) ==
    CASE kind = "post" -> QueuedPosts \cup DirectPosts \cup {<<"rollback">>}
      [] kind \in {"run", "direct"} -> RunPlans
      [] kind = "poll" -> PollPlans
      [] kind = "sweep" -> SweepPlans
      [] OTHER -> {<<"rescue">>, <<"failed">>}

Kinds == {"post", "run", "direct", "poll", "sweep", "rescue"}

(* Plans that lead to a direct run, which only a batch without Groq has    *)
(* unless it was posted again, and those only Groq's has.                  *)
Internal(kind, p) == kind = "direct" \/ p \in DirectPosts

Groqs(p) == p \in {SubmitPlan, GroqPlan}

BatchInv(s, n) ==
    /\ s \in Batch
    /\ s.ext => s.provider = "groq" /\ n > 0
    /\ s.polls <= MaxPolls \/ Finished(s)

(* The batch an invocation carries.                                        *)
CarriesInv(r, n) ==
    /\ r.todo # <<"rescue">> =>
          /\ r.st \in Batch
          /\ r.st.ext => r.st.provider = "groq" /\ n > 0
          /\ r.st.polls <= MaxPolls \/ r.todo = <<"failed">>
    /\ Groqs(r.todo) => r.kind \in {"run", "direct"} /\ r.st.provider = "groq"

JobInv(r, n) ==
    /\ DOMAIN r = {"kind", "batch", "st", "todo", "tries", "behind"}
    /\ r.kind \in Kinds /\ r.batch \in Batches /\ r.tries \in 0..MaxRetries
    /\ r.behind \in BOOLEAN
    /\ r.todo \in PlansOf(r.kind)
    /\ CarriesInv(r, n)

StoreTyped ==
    /\ DOMAIN state = Batches /\ DOMAIN pending = Batches
    /\ \A b \in Batches :
          /\ state[b] # None => BatchInv(state[b], submits[b])
          /\ pending[b] \in {None, "fresh", "stale"}

CountTyped == DOMAIN submits = Batches /\ \A b \in Batches : submits[b] \in 0..2

JobsTyped ==
    DOMAIN job = Workers /\ \A w \in Workers : Active(w) => JobInv(job[w], submits[job[w].batch])

RestTyped ==
    /\ posted \subseteq Batches
    /\ queue \subseteq Message
    /\ outputless \subseteq done
    /\ done \cup resent \cup torn \subseteq Batches
    /\ hasQueue \in BOOLEAN
    /\ faults \in 0..MaxFaults

TypeInv == StoreTyped /\ CountTyped /\ JobsTyped /\ RestTyped

(* No step ahead of an invocation that others' saves have not left behind  *)
(* saves a status before that of the batch, unless it is a post of a batch *)
(* that was posted again; a sweep's batch is unfinished.                   *)
Ceiling(p) ==
    CASE Head(p) = "queued" -> 1
      [] Head(p) = "running" -> 2
      [] Head(p) \in {"submit", "submitted"} -> 3
      [] p \in {<<"ask">>, <<"sendPoll", "polling">>, <<"polling">>} -> 4
      [] OTHER -> 5

ForwardInv ==
    \A w \in Workers :
        /\ Active(w) /\ ~ job[w].behind /\ state[job[w].batch] # None
        /\ ~ (job[w].kind = "post" /\ job[w].batch \in resent)
        =>
           IF job[w].kind = "sweep" THEN ~ Finished(state[job[w].batch])
           ELSE Rank(state[job[w].batch]) <= Ceiling(job[w].todo)

(* All copies of a batch that nobody posted again agree on its provider.   *)
Works(w, b) == Active(w) /\ job[w].batch = b

Has(w, b) == Works(w, b) /\ job[w].todo # <<"rescue">>

ProviderOf(b, p) ==
    \/ state[b] # None /\ state[b].provider = p
    \/ \E w \in Workers : Has(w, b) /\ job[w].st.provider = p

AgreeInv ==
    \A b \in Batches \ resent : ~ (ProviderOf(b, "internal") /\ ProviderOf(b, "groq"))

(* It is run directly only without Groq, and then never submitted.         *)
LaneAt(b, r) ==
    b \notin resent /\ r.todo # <<>> /\ Internal(r.kind, r.todo) => r.st.provider = "internal"

LaneInv == \A w \in Workers : Active(w) => LaneAt(job[w].batch, job[w])

InternalInv == \A b \in Batches \ resent : ProviderOf(b, "internal") => submits[b] = 0

(* Nothing is known of a batch before its post.                            *)
UnpostedAt(b) ==
    /\ state[b] = None /\ submits[b] = 0
    /\ \A w \in Workers : ~ Works(w, b)
    /\ \A m \in queue : m.batch # b

UnpostedInv == \A b \in Batches \ posted : UnpostedAt(b)

KnownInv == AgreeInv /\ LaneInv /\ InternalInv /\ UnpostedInv

(* The one right to run a batch: its post has it until the run message is  *)
(* sent, then the message, then the invocation that takes the message.     *)
Posting(w, b) == Works(w, b) /\ job[w].kind = "post" /\ job[w].todo \in QueuedPosts

MayRun(w, b) == Posting(w, b) \/ (Works(w, b) /\ job[w].kind = "run")

RunMessage(m, b) == m.kind = "run" /\ m.batch = b

OneRun(b) ==
    /\ \A v, w \in Workers : MayRun(v, b) /\ MayRun(w, b) => v = w
    /\ \A w \in Workers, m \in queue : ~ (MayRun(w, b) /\ RunMessage(m, b))
    /\ \A m, n \in queue : RunMessage(m, b) /\ RunMessage(n, b) => m = n

(* Before its run submits it, a batch leaves the status that a run begins  *)
(* with, and nobody is to save that status again.                          *)
Left(b) == state[b] = None \/ state[b].status # "queued"

OnceAt(b) ==
    /\ OneRun(b)
    /\ submits[b] <= 1
    /\ submits[b] > 0 => Left(b)
    /\ \A w \in Workers : Works(w, b) =>
          /\ job[w].todo = SubmitPlan => submits[b] = 0 /\ Left(b)
          /\ job[w].todo = GroqPlan => submits[b] = 0
          /\ Posting(w, b) => submits[b] = 0
          /\ job[w].todo # <<"queued">>

OnceInv == \A b \in Batches : b \notin resent => OnceAt(b)

-----------------------------------------------------------------------------
(* Where each plan goes on to.                                             *)

PlanFacts(kind, p) ==
    /\ p # <<>>
    /\ Tail(p) # <<>> => Tail(p) \in PlansOf(kind)
    /\ Tail(p) # <<"rescue">> /\ Tail(p) # <<"failed">>
    /\ Internal(kind, Tail(p)) => Internal(kind, p)
    /\ Groqs(Tail(p)) => Groqs(p)
    /\ Head(p) = "submit" => p = SubmitPlan
    /\ Head(p) = "ask" => p = <<"ask">> /\ kind = "poll"
    /\ Head(p) = "direct" => p = <<"direct">>
    /\ Head(p) = "rescue" => p = <<"rescue">> /\ kind = "rescue"
    /\ Head(p) = "rollback" => p = <<"rollback">> /\ kind = "post"
    /\ Tail(p) # GroqPlan /\ (Tail(p) = SubmitPlan => p = GroqPlan)
    /\ Tail(p) = <<"queued">> => Head(p) = "sendRun" /\ kind = "sweep"
    /\ kind = "post" /\ Tail(p) \in QueuedPosts => p \in QueuedPosts
    /\ Head(p) = "sendRun" => kind = "sweep" \/ (kind = "post" /\ p = <<"sendRun">>)
    /\ Head(p) = "queued" => p = <<"queued">> \/ Internal(kind, p) \/ (kind = "post" /\ p \in QueuedPosts)
    /\ Head(p) = "running" => kind \in {"run", "direct"}
    /\ Ceiling(p) \in 1..5 /\ (kind # "sweep" /\ Tail(p) # <<>> => Ceiling(p) <= Ceiling(Tail(p)))
    /\ kind = "sweep" /\ Tail(p) # <<>> => Head(p) \notin Ended
    /\ kind # "sweep" /\ Tail(p) # <<>> /\ Head(p) \in Statuses =>
          Rank([status |-> Head(p)]) <= Ceiling(Tail(p))
    /\ kind # "sweep" /\ Head(p) \in Statuses => Ceiling(p) <= Rank([status |-> Head(p)])

LEMMA PostPlanMoves ==
    ASSUME NEW kind, kind = "post", NEW p \in PlansOf(kind)
    PROVE  PlanFacts(kind, p)
<1> USE DEF PlanFacts, PlansOf, QueuedPosts, DirectPosts, RunPlans, PollPlans, SweepPlans, SubmitPlan,
           GroqPlan, Internal, Groqs, Ceiling, Rank, Ended, Statuses
<1>1. CASE p = <<"queued", "remember", "sendRun">>
  BY <1>1
<1>2. CASE p = <<"remember", "sendRun">>
  BY <1>2
<1>3. CASE p = <<"sendRun">>
  BY <1>3
<1>4. CASE p = <<"queued", "remember", "direct">>
  BY <1>4
<1>5. CASE p = <<"remember", "direct">>
  BY <1>5
<1>6. CASE p = <<"direct">>
  BY <1>6
<1>7. CASE p = <<"rollback">>
  BY <1>7
<1>8. CASE p = <<"queued", "sendRun">>
  BY <1>8
<1>9. CASE p = <<"queued", "direct">>
  BY <1>9
<1> QED BY <1>1, <1>2, <1>3, <1>4, <1>5, <1>6, <1>7, <1>8, <1>9

LEMMA RunPlanMoves ==
    ASSUME NEW kind \in {"run", "direct"}, NEW p \in PlansOf(kind)
    PROVE  PlanFacts(kind, p)
<1> USE DEF PlanFacts, PlansOf, QueuedPosts, DirectPosts, RunPlans, PollPlans, SweepPlans, SubmitPlan,
           GroqPlan, Internal, Groqs, Ceiling, Rank, Ended, Statuses
<1>1. CASE p = <<"sendPoll">>
  BY <1>1
<1>2. CASE p = <<"submitted", "sendPoll">>
  BY <1>2
<1>3. CASE p = <<"running", "completed">>
  BY <1>3
<1>4. CASE p = <<"completed">>
  BY <1>4
<1>5. CASE p = <<"running", "submit", "submitted", "sendPoll">>
  BY <1>5
<1>6. CASE p = <<"submit", "submitted", "sendPoll">>
  BY <1>6
<1> QED BY <1>1, <1>2, <1>3, <1>4, <1>5, <1>6

LEMMA PollPlanMoves ==
    ASSUME NEW kind, kind = "poll", NEW p \in PlansOf(kind)
    PROVE  PlanFacts(kind, p)
<1> USE DEF PlanFacts, PlansOf, QueuedPosts, DirectPosts, RunPlans, PollPlans, SweepPlans, SubmitPlan,
           GroqPlan, Internal, Groqs, Ceiling, Rank, Ended, Statuses
<1>1. CASE p = <<"failed">>
  BY <1>1
<1>2. CASE p = <<"ask">>
  BY <1>2
<1>3. CASE p = <<"sendPoll", "polling">>
  BY <1>3
<1>4. CASE p = <<"polling">>
  BY <1>4
<1>5. CASE p = <<"completed">>
  BY <1>5
<1> QED BY <1>1, <1>2, <1>3, <1>4, <1>5

LEMMA SweepPlanMoves ==
    ASSUME NEW kind, kind = "sweep", NEW p \in PlansOf(kind)
    PROVE  PlanFacts(kind, p)
<1> USE DEF PlanFacts, PlansOf, QueuedPosts, DirectPosts, RunPlans, PollPlans, SweepPlans, SubmitPlan,
           GroqPlan, Internal, Groqs, Ceiling, Rank, Ended, Statuses
<1>1. CASE p = <<"failed">>
  BY <1>1
<1>2. CASE p = <<"queued", "direct">>
  BY <1>2
<1>3. CASE p = <<"direct">>
  BY <1>3
<1>4. CASE p = <<"sendPoll", "polling">>
  BY <1>4
<1>5. CASE p = <<"polling">>
  BY <1>5
<1>6. CASE p = <<"sendRun", "queued">>
  BY <1>6
<1>7. CASE p = <<"queued">>
  BY <1>7
<1> QED BY <1>1, <1>2, <1>3, <1>4, <1>5, <1>6, <1>7

LEMMA RescuePlanMoves ==
    ASSUME NEW kind, kind = "rescue", NEW p \in PlansOf(kind)
    PROVE  PlanFacts(kind, p)
<1> USE DEF PlanFacts, PlansOf, QueuedPosts, DirectPosts, RunPlans, PollPlans, SweepPlans, SubmitPlan,
           GroqPlan, Internal, Groqs, Ceiling, Rank, Ended, Statuses
<1>1. CASE p = <<"rescue">>
  BY <1>1
<1>2. CASE p = <<"failed">>
  BY <1>2
<1> QED BY <1>1, <1>2

LEMMA PlanMoves ==
    ASSUME NEW kind \in Kinds, NEW p \in PlansOf(kind)
    PROVE  PlanFacts(kind, p)
BY PostPlanMoves, RunPlanMoves, PollPlanMoves, SweepPlanMoves, RescuePlanMoves DEF Kinds

-----------------------------------------------------------------------------
(* What a step does to the invocations.                                    *)

(* Worker w goes on as r; the others are as they were, or left behind.     *)
Becomes(w, r) ==
    /\ DOMAIN job' = Workers
    /\ job'[w] = IF r.todo = <<>> THEN None ELSE r
    /\ \A v \in Workers : v # w /\ job'[v] # job[v] =>
          Active(v) /\ job'[v] = [job[v] EXCEPT !.behind = TRUE]

LEMMA TurnBecomes ==
    ASSUME DOMAIN job = Workers, NEW w \in Workers, NEW r, job' = Turn(w, r)
    PROVE  Becomes(w, r) /\ \A v \in Workers : v # w => job'[v] = job[v]
BY DEF Turn, Becomes

LEMMA PutBecomes ==
    ASSUME DOMAIN job = Workers, NEW w \in Workers, NEW s, NEW ks, NEW r, Put(w, s, ks, r)
    PROVE  Becomes(w, r)
<1>1. Turn(w, r)[w] = IF r.todo = <<>> THEN None ELSE r
  BY DEF Turn
<1> HIDE DEF Turn
<1> QED BY <1>1 DEF Put, Becomes

LEMMA BehindTyped ==
    ASSUME NEW r, NEW n, JobInv(r, n)
    PROVE  LET q == [r EXCEPT !.behind = TRUE] IN
           /\ JobInv(q, n)
           /\ q.kind = r.kind /\ q.batch = r.batch /\ q.todo = r.todo /\ q.st = r.st /\ q.tries = r.tries
           /\ q.behind = TRUE
BY DEF JobInv, CarriesInv

(* Submissions of a batch are never undone.                                *)
LEMMA MoreTyped ==
    ASSUME NEW r, NEW n \in Nat, NEW k \in Nat, k >= n
    PROVE  /\ JobInv(r, n) => JobInv(r, k)
           /\ \A s : BatchInv(s, n) => BatchInv(s, k)
BY DEF JobInv, CarriesInv, BatchInv

LEMMA Constants ==
    /\ MaxPolls \in Nat /\ MaxRetries \in Nat /\ MaxFaults \in Nat
BY BatchAssumption DEF BatchAssumption

LEMMA Working ==
    ASSUME TypeInv, NEW w \in Workers, Active(w)
    PROVE  LET r == job[w] IN
           /\ JobInv(r, submits[r.batch]) /\ r.batch \in Batches /\ r.kind \in Kinds
           /\ r.todo \in PlansOf(r.kind) /\ PlanFacts(r.kind, r.todo)
           /\ submits[r.batch] \in 0..2 /\ r.tries \in 0..MaxRetries
BY PlanMoves DEF TypeInv, JobsTyped, CountTyped, JobInv

(* A step of w that is typed keeps every invocation typed.                 *)
LEMMA BecomesTyped ==
    ASSUME TypeInv, NEW w \in Workers, NEW r, Becomes(w, r),
           \A b \in Batches : submits'[b] \in 0..2 /\ submits'[b] >= submits[b],
           r.todo # <<>> => JobInv(r, submits'[r.batch])
    PROVE  JobsTyped'
<1>1. ASSUME NEW v \in Workers, job'[v] # None
      PROVE  JobInv(job'[v], submits'[job'[v].batch])
  <2>1. CASE v = w
    BY <1>1, <2>1 DEF Becomes
  <2>2. CASE v # w /\ job'[v] = job[v]
    <3>1. Active(v)
      BY <1>1, <2>2 DEF Active
    <3>2. submits[job[v].batch] \in Nat /\ submits'[job[v].batch] \in Nat
          /\ submits'[job[v].batch] >= submits[job[v].batch] /\ JobInv(job[v], submits[job[v].batch])
      BY <3>1, Working
    <3> QED BY <2>2, <3>2, MoreTyped
  <2>3. CASE v # w /\ job'[v] # job[v]
    <3>1. Active(v) /\ job'[v] = [job[v] EXCEPT !.behind = TRUE]
      BY <2>3 DEF Becomes
    <3>2. submits[job[v].batch] \in Nat /\ submits'[job[v].batch] \in Nat
          /\ submits'[job[v].batch] >= submits[job[v].batch] /\ JobInv(job[v], submits[job[v].batch])
      BY <3>1, Working
    <3>3. JobInv(job[v], submits'[job[v].batch])
      BY <3>2, MoreTyped
    <3> QED BY <3>1, <3>3, BehindTyped
  <2> QED BY <2>1, <2>2, <2>3
<1> QED BY <1>1 DEF Becomes, Active, JobsTyped

-----------------------------------------------------------------------------
(* What an invocation goes on as.                                          *)

LEMMA OnwardTyped ==
    ASSUME NEW r, NEW n \in Nat, JobInv(r, n), Onward(r).todo # <<>>
    PROVE  JobInv(Onward(r), n)
<1>1. /\ r.kind \in Kinds /\ r.todo \in PlansOf(r.kind)
      /\ DOMAIN r = {"kind", "batch", "st", "todo", "tries", "behind"}
  BY DEF JobInv
<1> DEFINE q == Onward(r)
<1>2. /\ q.todo = Tail(r.todo) /\ q.kind = r.kind /\ q.batch = r.batch /\ q.st = r.st /\ q.tries = r.tries
      /\ q.behind = r.behind /\ DOMAIN q = DOMAIN r
  BY <1>1 DEF Onward
<1>3. PlanFacts(r.kind, r.todo)
  BY <1>1, PlanMoves
<1>4. q.todo \in PlansOf(q.kind)
  BY <1>2, <1>3 DEF PlanFacts
<1>5. CarriesInv(q, n)
  <2>1. CarriesInv(r, n)
    BY DEF JobInv
  <2>2. /\ Tail(r.todo) # <<"rescue">> /\ Tail(r.todo) # <<"failed">>
        /\ r.todo # <<"failed">> /\ r.todo # <<"rescue">>
        /\ Groqs(Tail(r.todo)) => Groqs(r.todo)
    <3>1. Tail(<<"rescue">>) = <<>> /\ Tail(<<"failed">>) = <<>>
      OBVIOUS
    <3> QED BY <1>2, <1>3, <3>1 DEF PlanFacts
  <2> QED BY <1>2, <2>1, <2>2 DEF CarriesInv
<1> HIDE DEF q
<1>6. JobInv(q, n)
  BY <1>1, <1>2, <1>4, <1>5 DEF JobInv
<1> QED BY <1>6 DEF q

LEMMA ThrowTyped ==
    ASSUME NEW r, NEW n \in Nat, JobInv(r, n), AfterThrow(r).todo # <<>>
    PROVE  JobInv(AfterThrow(r), n) /\ AfterThrow(r).todo \in {<<"rollback">>, <<"rescue">>}
<1>1. /\ r.kind \in Kinds /\ r.todo \in PlansOf(r.kind)
      /\ DOMAIN r = {"kind", "batch", "st", "todo", "tries", "behind"} /\ CarriesInv(r, n)
  BY DEF JobInv
<1>2. PlanFacts(r.kind, r.todo)
  BY <1>1, PlanMoves
<1>3. (r.todo # <<"failed">> /\ r.todo # <<"rescue">>) \/ r.kind \in {"poll", "sweep", "rescue"}
  BY <1>1 DEF PlansOf, QueuedPosts, DirectPosts, RunPlans, GroqPlan, SubmitPlan, Kinds
<1>4. <<"rollback">> \notin DirectPosts \cup {SubmitPlan, GroqPlan}
      /\ <<"rescue">> \notin DirectPosts \cup {SubmitPlan, GroqPlan}
      /\ <<"rollback">> # <<"failed">> /\ <<"rollback">> # <<"rescue">> /\ <<"rescue">> # <<"failed">>
  BY DEF DirectPosts, GroqPlan, SubmitPlan
<1>5. CASE r.kind = "post" /\ Head(r.todo) \in {"remember", "sendRun"}
  <2> DEFINE q == [r EXCEPT !.todo = <<"rollback">>]
  <2>1. AfterThrow(r) = q
    BY <1>5 DEF AfterThrow
  <2>2. JobInv(q, n)
    BY <1>1, <1>3, <1>4, <1>5 DEF JobInv, CarriesInv, Internal, Groqs, PlansOf
  <2> QED BY <2>1, <2>2
<1>6. CASE ~ (r.kind = "post" /\ Head(r.todo) \in {"remember", "sendRun"})
  <2> DEFINE q == [r EXCEPT !.kind = "rescue", !.todo = <<"rescue">>]
  <2>1. AfterThrow(r) = q /\ (r.kind = "direct" \/ Head(r.todo) = "direct")
    BY <1>6, <1>1 DEF AfterThrow
  <2>2. r.todo # <<"failed">> /\ r.todo # <<"rescue">>
    <3>1. Head(<<"failed">>) = "failed" /\ Head(<<"rescue">>) = "rescue"
      OBVIOUS
    <3> QED BY <1>3, <2>1, <3>1
  <2>3. JobInv(q, n)
    BY <1>1, <1>4, <2>2 DEF JobInv, CarriesInv, Internal, Groqs, PlansOf, Kinds
  <2> QED BY <2>1, <2>3
<1> QED BY <1>5, <1>6

LEMMA RunPlanFacts ==
    ASSUME NEW s, s # None => s \in Batch, RunPlan(s) # <<>>
    PROVE  /\ s # None /\ ~ Finished(s) /\ RunPlan(s) \in RunPlans
           /\ Groqs(RunPlan(s)) => s.provider = "groq"
           /\ ~ Internal("run", RunPlan(s))
           /\ Rank(s) <= Ceiling(RunPlan(s))
<1>1. s # None /\ ~ Finished(s) /\ s \in Batch
  BY DEF RunPlan
<1> USE DEF RunPlans, Groqs, GroqPlan, SubmitPlan, Internal, DirectPosts, Ceiling, Rank, Batch, Statuses,
            Finished, Ended
<1>2. CASE RunPlan(s) = <<"sendPoll">>
  BY <1>1, <1>2
<1>3. CASE RunPlan(s) = <<"submitted", "sendPoll">> /\ s.status \notin {"submitted", "polling"}
  BY <1>1, <1>3
<1>4. CASE RunPlan(s) = <<"running", "completed">> /\ s.status = "queued"
  BY <1>1, <1>4
<1>5. CASE RunPlan(s) = GroqPlan /\ s.status = "queued" /\ s.provider # "internal"
  BY <1>1, <1>5
<1> QED BY <1>1, <1>2, <1>3, <1>4, <1>5 DEF RunPlan

LEMMA PollPlanFacts ==
    ASSUME NEW s, s # None => s \in Batch, PollPlan(s) # <<>>
    PROVE  /\ s # None /\ ~ Finished(s) /\ PollPlan(s) \in {<<"failed">>, <<"ask">>}
           /\ ~ Groqs(PollPlan(s)) /\ ~ Internal("poll", PollPlan(s))
           /\ Rank(s) <= Ceiling(PollPlan(s))
<1>1. s # None /\ ~ Finished(s) /\ s \in Batch /\ PollPlan(s) \in {<<"failed">>, <<"ask">>}
  BY DEF PollPlan
<1>2. Rank(s) \in 1..4
  BY <1>1 DEF Rank, Finished, Ended, Batch, Statuses
<1> USE DEF Groqs, GroqPlan, SubmitPlan, Internal, DirectPosts, Ceiling
<1>3. CASE PollPlan(s) = <<"failed">>
  BY <1>1, <1>2, <1>3
<1>4. CASE PollPlan(s) = <<"ask">>
  BY <1>1, <1>2, <1>4
<1> QED BY <1>1, <1>3, <1>4

LEMMA SweepPlanFacts ==
    ASSUME NEW s \in Batch, ~ Finished(s)
    PROVE  /\ SweepPlan(s) \in SweepPlans /\ SweepPlan(s) # <<"queued">>
           /\ ~ Groqs(SweepPlan(s))
           /\ Internal("sweep", SweepPlan(s)) => s.provider = "internal"
<1> USE DEF SweepPlans, Groqs, GroqPlan, SubmitPlan, Internal, DirectPosts
<1>1. CASE SweepPlan(s) \in {<<"failed">>, <<"sendPoll", "polling">>, <<"sendRun", "queued">>}
  BY <1>1
<1>2. CASE SweepPlan(s) \in {<<"queued", "direct">>, <<"direct">>} /\ s.provider = "internal"
  BY <1>2
<1> QED BY <1>1, <1>2 DEF SweepPlan

(* An invocation that loads a batch.                                       *)
LEMMA LoadTyped ==
    ASSUME NEW kind \in Kinds, NEW b \in Batches, NEW n \in Nat, NEW s, BatchInv(s, n), ~ Finished(s),
           s # None, NEW p \in PlansOf(kind), NEW tries \in 0..MaxRetries,
           Groqs(p) => kind \in {"run", "direct"} /\ s.provider = "groq"
    PROVE  JobInv(Job(kind, b, s, p, tries), n)
<1> DEFINE q == [s EXCEPT !.status = "queued", !.fresh = TRUE]
<1>1. /\ q \in Batch /\ q.provider = s.provider /\ q.ext = s.ext /\ q.polls = s.polls
      /\ s.polls <= MaxPolls
  BY DEF BatchInv, Batch, Statuses
<1> HIDE DEF q
<1>2. Job(kind, b, s, p, tries) =
         [kind |-> kind, batch |-> b, st |-> q, todo |-> p, tries |-> tries, behind |-> FALSE]
  BY DEF Job, q
<1> QED BY <1>1, <1>2 DEF JobInv, CarriesInv, BatchInv

LEMMA SavedTyped ==
    ASSUME TypeInv, NEW w \in Workers, AtStep(w, Statuses)
    PROVE  /\ BatchInv(Saved(w), submits[job[w].batch])
           /\ Saved(w).status = Head(job[w].todo) /\ Saved(w).provider = job[w].st.provider
           /\ Rank(Saved(w)) = Rank([status |-> Head(job[w].todo)])
           /\ job[w].st \in Batch
<1>1. /\ Active(w) /\ Head(job[w].todo) \in Statuses
      /\ JobInv(job[w], submits[job[w].batch])
  BY Working DEF AtStep
<1>2. job[w].todo # <<"rescue">> /\ (job[w].todo = <<"failed">> => Head(job[w].todo) = "failed")
  BY <1>1 DEF Statuses
<1>3. job[w].st \in Batch
  BY <1>1, <1>2 DEF JobInv, CarriesInv
<1>4. CarriesInv(job[w], submits[job[w].batch])
  BY <1>1 DEF JobInv
<1>5. Saved(w) = [job[w].st EXCEPT !.status = Head(job[w].todo)] /\ Saved(w) \in Batch
      /\ Saved(w).status = Head(job[w].todo) /\ Saved(w).provider = job[w].st.provider
      /\ Saved(w).ext = job[w].st.ext /\ Saved(w).polls = job[w].st.polls
  BY <1>1, <1>3 DEF Saved, Batch
<1>6. BatchInv(Saved(w), submits[job[w].batch])
  BY <1>2, <1>4, <1>5 DEF BatchInv, CarriesInv, Finished, Ended
<1> QED BY <1>3, <1>5, <1>6 DEF Rank

-----------------------------------------------------------------------------
(* Every step keeps the types.                                             *)

LEMMA TypesOfTypeInv == TypeInv => TypeOK
<1> SUFFICES ASSUME TypeInv PROVE TypeOK
  OBVIOUS
<1>1. ASSUME NEW w \in Workers, Active(w)
      PROVE  job[w].batch \in Batches /\ job[w].todo # <<>>
  BY <1>1, Working DEF PlanFacts
<1> QED BY <1>1 DEF TypeInv, StoreTyped, CountTyped, RestTyped, BatchInv, TypeOK

LEMMA SameCounts ==
    ASSUME TypeInv, UNCHANGED submits
    PROVE  CountTyped' /\ \A b \in Batches : submits'[b] \in 0..2 /\ submits'[b] >= submits[b]
BY DEF TypeInv, CountTyped

LEMMA SameStore ==
    ASSUME TypeInv, UNCHANGED <<state, pending>>,
           \A b \in Batches : submits'[b] \in 0..2 /\ submits'[b] >= submits[b]
    PROVE  StoreTyped'
<1>1. \A b \in Batches : submits[b] \in Nat /\ submits'[b] \in Nat
  BY DEF TypeInv, CountTyped
<1> QED BY <1>1, MoreTyped DEF TypeInv, StoreTyped

LEMMA FaultTyped ==
    ASSUME TypeInv, Fault \/ UNCHANGED faults
    PROVE  faults' \in 0..MaxFaults
BY Constants DEF TypeInv, RestTyped, Fault

LEMMA MessagesTyped ==
    ASSUME TypeInv, NEW w \in Workers, Active(w)
    PROVE  Sent(w) \subseteq Message /\ Retried(job[w]) \subseteq Message
<1>1. job[w].batch \in Batches /\ job[w].tries \in 0..MaxRetries
  BY Working
<1> QED BY <1>1, Constants DEF Sent, Retried, Message

(* A save, of all keys or of some.                                         *)
LEMMA PutTyped ==
    ASSUME TypeInv, NEW w \in Workers, AtStep(w, Statuses), NEW ks, NEW r, Put(w, Saved(w), ks, r),
           UNCHANGED submits, r.todo # <<>> => JobInv(r, submits[r.batch])
    PROVE  StoreTyped' /\ CountTyped' /\ JobsTyped'
<1>1. Active(w) /\ job[w].batch \in Batches
  BY Working DEF AtStep
<1>2. BatchInv(Saved(w), submits[job[w].batch]) /\ Saved(w).status \in Statuses
  BY SavedTyped DEF AtStep
<1>3. StoreTyped'
  BY <1>1, <1>2 DEF TypeInv, StoreTyped, Put
<1>4. JobsTyped'
  BY SameCounts, PutBecomes, BecomesTyped DEF TypeInv, JobsTyped
<1> QED BY <1>3, <1>4, SameCounts

LEMMA SaveTypes ==
    ASSUME TypeInv, NEW w \in Workers, Save(w) \/ SaveThrows(w)
    PROVE  TypeInv'
<1>1. AtStep(w, Statuses) /\ Active(w) /\ UNCHANGED submits
  BY DEF Save, SaveThrows, AtStep
<1>2. JobInv(job[w], submits[job[w].batch]) /\ submits[job[w].batch] \in Nat /\ job[w].batch \in Batches
  BY <1>1, Working
<1>3. Onward(job[w]).batch = job[w].batch /\ AfterThrow(job[w]).batch = job[w].batch
  BY <1>2 DEF Onward, AfterThrow, JobInv
<1>4. PICK ks \in SUBSET Keys, r \in {Onward(job[w]), AfterThrow(job[w])} : Put(w, Saved(w), ks, r)
  BY DEF Save, SaveThrows
<1>5. r.todo # <<>> => JobInv(r, submits[r.batch])
  BY <1>2, <1>3, OnwardTyped, ThrowTyped
<1>6. RestTyped'
  BY <1>1, <1>2, MessagesTyped, FaultTyped DEF Save, SaveThrows, TypeInv, RestTyped
<1> QED BY <1>1, <1>4, <1>5, <1>6, PutTyped DEF TypeInv

(* A step that saves nothing, and leaves what follows to a typed r.        *)
LEMMA TurnTypes ==
    ASSUME TypeInv, NEW w \in Workers, NEW r, job' = Turn(w, r), UNCHANGED <<state, pending, submits>>,
           r.todo # <<>> => JobInv(r, submits[r.batch]), RestTyped'
    PROVE  TypeInv'
<1>1. Becomes(w, r)
  BY TurnBecomes DEF TypeInv, JobsTyped
<1>2. JobsTyped'
  BY <1>1, SameCounts, BecomesTyped
<1> QED BY <1>2, SameCounts, SameStore DEF TypeInv

LEMMA OnwardTypes ==
    ASSUME TypeInv, NEW w \in Workers, Remember(w) \/ Enqueue(w)
    PROVE  TypeInv'
<1>1. Active(w) /\ job' = Turn(w, Onward(job[w])) /\ UNCHANGED <<state, pending, submits>>
  BY DEF Remember, Enqueue, AtStep
<1>2. JobInv(job[w], submits[job[w].batch]) /\ submits[job[w].batch] \in Nat /\ job[w].batch \in Batches
  BY <1>1, Working
<1>3. Onward(job[w]).batch = job[w].batch
  BY <1>2 DEF Onward, JobInv
<1>4. Onward(job[w]).todo # <<>> => JobInv(Onward(job[w]), submits[Onward(job[w]).batch])
  BY <1>2, <1>3, OnwardTyped
<1>5. RestTyped'
  BY <1>1, <1>2, MessagesTyped DEF Remember, Enqueue, Resent, TypeInv, RestTyped
<1> QED BY <1>1, <1>4, <1>5, TurnTypes

LEMMA ThrowTypes ==
    ASSUME TypeInv, NEW w \in Workers, Throw(w) \/ EnqueueUnheard(w)
    PROVE  TypeInv'
<1>1. Active(w) /\ job' = Turn(w, AfterThrow(job[w])) /\ UNCHANGED <<state, pending, submits>>
  BY DEF Throw, EnqueueUnheard, AtStep
<1>2. JobInv(job[w], submits[job[w].batch]) /\ submits[job[w].batch] \in Nat /\ job[w].batch \in Batches
  BY <1>1, Working
<1>3. AfterThrow(job[w]).batch = job[w].batch
  BY <1>2 DEF AfterThrow, JobInv
<1>4. AfterThrow(job[w]).todo # <<>> => JobInv(AfterThrow(job[w]), submits[AfterThrow(job[w]).batch])
  BY <1>2, <1>3, ThrowTyped
<1>5. RestTyped'
  BY <1>1, <1>2, MessagesTyped, FaultTyped DEF Throw, EnqueueUnheard, Resent, TypeInv, RestTyped
<1> QED BY <1>1, <1>4, <1>5, TurnTypes

(* Loads.                                                                  *)
LEMMA LoadedTyped ==
    ASSUME TypeInv, NEW b \in Batches, NEW tries \in 0..MaxRetries
    PROVE  LET s == state[b] IN
           /\ RunPlan(s) # <<>> => JobInv(Job("run", b, s, RunPlan(s), tries), submits[b])
           /\ RunPlan(s) # <<>> => JobInv(Job("direct", b, s, RunPlan(s), tries), submits[b])
           /\ PollPlan(s) # <<>> => JobInv(Job("poll", b, s, PollPlan(s), tries), submits[b])
           /\ s # None /\ ~ Finished(s) =>
                 /\ JobInv(Job("sweep", b, s, SweepPlan(s), tries), submits[b])
                 /\ JobInv(Job("rescue", b, s, <<"failed">>, tries), submits[b])
<1> DEFINE s == state[b]
<1>1. s # None => BatchInv(s, submits[b]) /\ s \in Batch
  BY DEF TypeInv, StoreTyped, BatchInv
<1>2. submits[b] \in Nat
  BY DEF TypeInv, CountTyped
<1>3. /\ PlansOf("run") = RunPlans /\ PlansOf("direct") = RunPlans /\ PlansOf("sweep") = SweepPlans
      /\ {<<"failed">>, <<"ask">>} \subseteq PlansOf("poll") /\ <<"failed">> \in PlansOf("rescue")
      /\ ~ Groqs(<<"failed">>)
  BY DEF PlansOf, PollPlans, Groqs, GroqPlan, SubmitPlan
<1> HIDE DEF s
<1>4. ASSUME RunPlan(s) # <<>> PROVE JobInv(Job("run", b, s, RunPlan(s), tries), submits[b])
  BY <1>1, <1>2, <1>3, <1>4, RunPlanFacts, LoadTyped DEF Kinds
<1>5. ASSUME RunPlan(s) # <<>> PROVE JobInv(Job("direct", b, s, RunPlan(s), tries), submits[b])
  BY <1>1, <1>2, <1>3, <1>5, RunPlanFacts, LoadTyped DEF Kinds
<1>6. ASSUME PollPlan(s) # <<>> PROVE JobInv(Job("poll", b, s, PollPlan(s), tries), submits[b])
  BY <1>1, <1>2, <1>3, <1>6, PollPlanFacts, LoadTyped DEF Kinds
<1>7. ASSUME s # None, ~ Finished(s)
      PROVE  /\ JobInv(Job("sweep", b, s, SweepPlan(s), tries), submits[b])
             /\ JobInv(Job("rescue", b, s, <<"failed">>, tries), submits[b])
  BY <1>1, <1>2, <1>3, <1>7, SweepPlanFacts, LoadTyped DEF Kinds
<1> QED BY <1>4, <1>5, <1>6, <1>7 DEF s

LEMMA TakeTypes ==
    ASSUME TypeInv, NEW w \in Workers, NEW m \in Message, Take(w, m)
    PROVE  TypeInv'
<1>1. m.batch \in Batches /\ m.tries \in 0..MaxRetries /\ m.kind \in {"run", "poll"}
  BY DEF Message
<1>2. PICK r : /\ job' = Turn(w, r)
               /\ r = IF m.kind = "run" THEN Job("run", m.batch, state[m.batch], RunPlan(state[m.batch]), m.tries)
                      ELSE Job("poll", m.batch, state[m.batch], PollPlan(state[m.batch]), m.tries)
  BY <1>1 DEF Take
<1>3. r.batch = m.batch /\ (r.todo # <<>> => JobInv(r, submits[r.batch]))
  BY <1>1, <1>2, LoadedTyped DEF Job
<1>4. RestTyped'
  BY <1>1, FaultTyped DEF Take, TypeInv, RestTyped
<1> QED BY <1>2, <1>3, <1>4, TurnTypes DEF Take

LEMMA SweepTypes ==
    ASSUME TypeInv, NEW w \in Workers, NEW b \in Batches, SweepStart(w, b)
    PROVE  TypeInv'
<1>1. JobInv(Job("sweep", b, state[b], SweepPlan(state[b]), 0), submits[b])
  BY LoadedTyped, Constants DEF SweepStart
<1>2. Job("sweep", b, state[b], SweepPlan(state[b]), 0).batch = b
  BY DEF Job
<1>3. RestTyped'
  BY DEF SweepStart, TypeInv, RestTyped
<1> QED BY <1>1, <1>2, <1>3, TurnTypes DEF SweepStart

LEMMA RescueTypes ==
    ASSUME TypeInv, NEW w \in Workers, Rescue(w)
    PROVE  TypeInv'
<1> DEFINE b == job[w].batch
           p == IF state[b] = None \/ Finished(state[b]) THEN <<>> ELSE <<"failed">>
           r == Job("rescue", b, state[b], p, 0)
<1>1. b \in Batches /\ job' = Turn(w, r)
  BY Working DEF Rescue, AtStep
<1>2. r.batch = b /\ r.todo = p
  BY DEF Job
<1>3. r.todo # <<>> => JobInv(r, submits[r.batch])
  BY <1>1, <1>2, LoadedTyped, Constants
<1>4. RestTyped'
  BY DEF Rescue, TypeInv, RestTyped
<1> HIDE DEF r
<1> QED BY <1>1, <1>3, <1>4, TurnTypes DEF Rescue

LEMMA DirectTypes ==
    ASSUME TypeInv, NEW w \in Workers, Direct(w)
    PROVE  TypeInv'
<1> DEFINE b == job[w].batch
           r == Job("direct", b, state[b], RunPlan(state[b]), 0)
<1>1. b \in Batches /\ job' = Turn(w, r)
  BY Working DEF Direct, AtStep
<1>2. r.batch = b /\ r.todo = RunPlan(state[b])
  BY DEF Job
<1>3. r.todo # <<>> => JobInv(r, submits[r.batch])
  BY <1>1, <1>2, LoadedTyped, Constants
<1>4. RestTyped'
  BY DEF Direct, TypeInv, RestTyped
<1> HIDE DEF r
<1> QED BY <1>1, <1>3, <1>4, TurnTypes DEF Direct

LEMMA AskTypes ==
    ASSUME TypeInv, NEW w \in Workers, Ask(w)
    PROVE  TypeInv'
<1> DEFINE r == job[w] n == submits[r.batch]
           counted == [r.st EXCEPT !.polls = @ + 1]
<1>1. /\ Active(w) /\ JobInv(r, n) /\ PlanFacts(r.kind, r.todo) /\ Head(r.todo) = "ask"
      /\ n \in Nat /\ r.batch \in Batches
  BY Working DEF Ask, AtStep
<1>2. r.todo = <<"ask">> /\ r.kind = "poll" /\ CarriesInv(r, n)
  BY <1>1 DEF PlanFacts, JobInv
<1>3. /\ r.st \in Batch /\ (r.st.ext => r.st.provider = "groq" /\ n > 0)
      /\ r.st.polls <= MaxPolls /\ r.st.polls \in Nat
  <2>1. <<"ask">> # <<"rescue">> /\ <<"ask">> # <<"failed">>
    OBVIOUS
  <2> QED BY <1>2, <2>1, Constants DEF CarriesInv, Batch
<1>4. /\ counted \in Batch /\ counted.ext = r.st.ext /\ counted.provider = r.st.provider
      /\ counted.polls = r.st.polls + 1
  BY <1>3, Constants DEF Batch
<1>5. ASSUME NEW p \in PollPlans, NEW st, st \in {r.st, counted},
             st = counted => r.st.polls + 1 <= MaxPolls \/ p = <<"failed">>
      PROVE  LET q == [r EXCEPT !.todo = p, !.st = st] IN JobInv(q, n) /\ q.batch = r.batch
  <2> DEFINE q == [r EXCEPT !.todo = p, !.st = st]
  <2>1. /\ q.todo = p /\ q.st = st /\ q.kind = "poll" /\ q.batch = r.batch /\ q.tries = r.tries
        /\ q.behind = r.behind /\ DOMAIN q = {"kind", "batch", "st", "todo", "tries", "behind"}
    BY <1>1, <1>2 DEF JobInv
  <2>2. p # <<"rescue">> /\ ~ Groqs(p) /\ p \in PlansOf("poll")
    BY <1>5 DEF PollPlans, Groqs, GroqPlan, SubmitPlan, PlansOf
  <2>3. /\ st \in Batch /\ (st.ext => st.provider = "groq" /\ n > 0)
        /\ st.polls <= MaxPolls \/ p = <<"failed">>
    BY <1>3, <1>4, <1>5
  <2>4. r.tries \in 0..MaxRetries /\ r.behind \in BOOLEAN
    BY <1>1 DEF JobInv
  <2> HIDE DEF q
  <2>5. JobInv(q, n)
    BY <1>1, <2>1, <2>2, <2>3, <2>4 DEF JobInv, CarriesInv, Kinds
  <2> QED BY <2>1, <2>5 DEF q
<1>6. /\ r.st \in {r.st, counted} /\ counted \in {r.st, counted} /\ r.st # counted
      /\ <<"completed">> \in PollPlans /\ <<"failed">> \in PollPlans /\ <<"sendPoll", "polling">> \in PollPlans
  <2>1. r.st.polls # counted.polls
    BY <1>3, <1>4
  <2> QED BY <2>1 DEF PollPlans
<1>7. PICK q : job' = Turn(w, q) /\ JobInv(q, n) /\ q.batch = r.batch
  <2>1. CASE r.batch \in done
    <3>1. PICK end \in Ended : job' = Turn(w, [r EXCEPT !.todo = <<end>>])
      BY <2>1 DEF Ask
    <3>2. [r EXCEPT !.todo = <<end>>] = [r EXCEPT !.todo = <<end>>, !.st = r.st]
      BY <1>1 DEF JobInv
    <3>3. <<end>> \in PollPlans
      BY <1>6, <3>1 DEF Ended
    <3> QED BY <1>5, <1>6, <3>1, <3>2, <3>3
  <2>2. CASE r.batch \notin done /\ r.st.polls + 1 > MaxPolls
    BY <1>5, <1>6, <2>2 DEF Ask
  <2>3. CASE r.batch \notin done /\ ~ (r.st.polls + 1 > MaxPolls)
    <3>1. r.st.polls + 1 <= MaxPolls
      BY <1>3, <2>3, Constants
    <3> QED BY <1>5, <1>6, <2>3, <3>1 DEF Ask
  <2> QED BY <2>1, <2>2, <2>3
<1>8. RestTyped'
  BY DEF Ask, TypeInv, RestTyped
<1> HIDE DEF r, counted, n
<1> QED BY <1>7, <1>8, TurnTypes DEF Ask, n

LEMMA SubmitTypes ==
    ASSUME TypeInv, NEW w \in Workers, Submit(w) \/ SubmitUnheard(w)
    PROVE  TypeInv'
<1> DEFINE b == job[w].batch
           sent == [Onward(job[w]) EXCEPT !.st.ext = TRUE]
<1>1. /\ Active(w) /\ JobInv(job[w], submits[b]) /\ PlanFacts(job[w].kind, job[w].todo)
      /\ Head(job[w].todo) = "submit" /\ b \in Batches
  BY Working DEF Submit, SubmitUnheard, AtStep
<1>2. job[w].todo = SubmitPlan
  BY <1>1 DEF PlanFacts
<1>0. submits[b] \in Nat
  BY <1>1 DEF TypeInv, CountTyped
<1>3. /\ \A x \in Batches : submits'[x] \in 0..2 /\ submits'[x] >= submits[x]
      /\ submits'[b] > 0 /\ CountTyped'
  BY <1>1 DEF Submit, SubmitUnheard, Submitted, TypeInv, CountTyped
<1>4. StoreTyped'
  BY <1>3, SameStore DEF Submit, SubmitUnheard
<1>5. RestTyped'
  BY <1>1, MessagesTyped, FaultTyped DEF Submit, SubmitUnheard, TypeInv, RestTyped
<1>6. CASE Submit(w)
  <2>1. /\ Onward(job[w]).todo = <<"submitted", "sendPoll">> /\ Onward(job[w]).todo # <<>>
        /\ Onward(job[w]).batch = b
    BY <1>1, <1>2 DEF SubmitPlan, Onward, JobInv
  <2>2. JobInv(Onward(job[w]), submits[b])
    BY <1>0, <1>1, <2>1, OnwardTyped
  <2>3. JobInv(Onward(job[w]), submits'[b])
    BY <1>1, <1>3, <2>2, MoreTyped DEF TypeInv, CountTyped
  <2>4. job[w].st.provider = "groq" /\ job[w].st \in Batch
    BY <1>1, <1>2 DEF JobInv, CarriesInv, Groqs, SubmitPlan
  <2>5. Onward(job[w]).st = job[w].st
    BY <1>1, <2>4 DEF Onward, JobInv
  <2> DEFINE q == Onward(job[w])
             s == [q.st EXCEPT !.ext = TRUE]
  <2>6. s \in Batch /\ s.provider = "groq" /\ s.polls = q.st.polls
    BY <2>4, <2>5 DEF Batch
  <2> HIDE DEF q, s
  <2>7. sent = [q EXCEPT !.st = s]
    BY <2>3 DEF q, s, JobInv
  <2>8. JobInv(q, submits'[b])
    BY <2>3 DEF q
  <2>9. q.todo # <<"rescue">> /\ ~ Groqs(q.todo) /\ q.todo = <<"submitted", "sendPoll">> /\ q.batch = b
    BY <2>1, <2>5 DEF q, Groqs, GroqPlan, SubmitPlan
  <2> HIDE DEF sent
  <2>10. JobInv(sent, submits'[b]) /\ sent.batch = b
    BY <1>3, <2>6, <2>7, <2>8, <2>9 DEF JobInv, CarriesInv
  <2>11. Becomes(w, sent)
    BY <1>6, TurnBecomes DEF Submit, TypeInv, JobsTyped, sent
  <2>12. JobsTyped'
    BY <1>3, <2>10, <2>11, BecomesTyped
  <2> QED BY <1>3, <1>4, <1>5, <2>12 DEF TypeInv
<1>7. CASE SubmitUnheard(w)
  <2> DEFINE q == AfterThrow(job[w])
  <2>1. q.todo # <<>> => JobInv(q, submits[b]) /\ q.batch = b
    BY <1>0, <1>1, ThrowTyped DEF AfterThrow, JobInv
  <2>2. Becomes(w, q)
    BY <1>7, TurnBecomes DEF SubmitUnheard, TypeInv, JobsTyped
  <2> HIDE DEF q
  <2>3. q.todo # <<>> => JobInv(q, submits'[q.batch])
    BY <1>0, <1>1, <1>3, <2>1, MoreTyped
  <2>4. JobsTyped'
    BY <1>3, <2>2, <2>3, BecomesTyped
  <2> QED BY <1>3, <1>4, <1>5, <2>4 DEF TypeInv
<1> QED BY <1>6, <1>7

(* Worker w ends.                                                          *)
Gone == [todo |-> <<>>]

LEMMA EndTypes ==
    ASSUME TypeInv, NEW w \in Workers, Crash(w) \/ Rollback(w)
    PROVE  TypeInv'
<1>1. Active(w) /\ UNCHANGED submits
  BY DEF Crash, Rollback, AtStep
<1>2. Becomes(w, Gone)
  BY DEF Crash, Rollback, Becomes, Gone, TypeInv, JobsTyped
<1>3. JobsTyped' /\ CountTyped'
  BY <1>1, <1>2, SameCounts, BecomesTyped DEF Gone
<1>4. StoreTyped'
  BY <1>1, Working DEF Crash, Rollback, TypeInv, StoreTyped
<1>5. RestTyped'
  <2>1. CASE Crash(w)
    BY <1>1, <2>1, MessagesTyped, FaultTyped DEF Crash, TypeInv, RestTyped
  <2>2. CASE Rollback(w)
    BY <1>1, <2>2, Working, FaultTyped DEF Rollback, TypeInv, RestTyped
  <2> QED BY <2>1, <2>2
<1> QED BY <1>3, <1>4, <1>5 DEF TypeInv

(* What a post begins with; without a queue it is not for Groq.            *)
PostPlans ==
    {<<"queued", "remember", "sendRun">>, <<"queued", "sendRun">>,
     <<"queued", "remember", "direct">>, <<"queued", "direct">>}

Posted(b, r) ==
    /\ r.kind = "post" /\ r.batch = b /\ r.behind = FALSE /\ r.todo \in PostPlans
    /\ Internal("post", r.todo) => r.st.provider = "internal"

LEMMA PostTypes ==
    ASSUME TypeInv, NEW w \in Workers, NEW b \in Batches, PostStart(w, b)
    PROVE  TypeInv' /\ \E r : job' = Turn(w, r) /\ Posted(b, r)
<1>1. PICK provider \in {"internal", "groq"}, p \in PostPlans :
         /\ provider = "groq" => hasQueue
         /\ ~ hasQueue \/ p \in {<<"queued", "remember", "sendRun">>, <<"queued", "sendRun">>}
         /\ job' = Turn(w, Job("post", b,
                [status |-> "queued", provider |-> provider, ext |-> FALSE, polls |-> 0, fresh |-> TRUE],
                p, 0))
  BY DEF PostStart, PostPlans
<1> DEFINE s == [status |-> "queued", provider |-> provider, ext |-> FALSE, polls |-> 0, fresh |-> TRUE]
           r == Job("post", b, s, p, 0)
<1>2. job' = Turn(w, r)
  BY <1>1
<1>4. s.ext = FALSE /\ s.polls = 0 /\ s.provider = provider /\ s.fresh = TRUE /\ s.status = "queued"
  OBVIOUS
<1>5. s \in Batch /\ [s EXCEPT !.status = "queued", !.fresh = TRUE] = s
  <2>1. s \in Batch
    BY Constants DEF Batch, Statuses
  <2> QED BY <1>4, <2>1 DEF Batch
<1> HIDE DEF s
<1>6. p \in PlansOf("post") /\ ~ Groqs(p) /\ (Internal("post", p) => ~ hasQueue) /\ p # <<"rescue">>
  BY <1>1 DEF PostPlans, PlansOf, QueuedPosts, DirectPosts, Groqs, GroqPlan, SubmitPlan, Internal
<1>7. JobInv(r, submits[b]) /\ Posted(b, r)
  <2>1. r = [kind |-> "post", batch |-> b, st |-> IF s = None THEN None ELSE s, todo |-> p, tries |-> 0,
             behind |-> FALSE]
    BY <1>5 DEF Job
  <2>2. r.st = s /\ r.todo = p /\ r.kind = "post" /\ r.batch = b /\ r.behind = FALSE
    BY <2>1
  <2> HIDE DEF r
  <2>3. JobInv(r, submits[b])
    BY <1>1, <1>4, <1>5, <1>6, <2>1, <2>2, Constants DEF JobInv, CarriesInv, Kinds
  <2>4. Posted(b, r)
    BY <1>1, <1>4, <1>6, <2>2 DEF Posted
  <2> QED BY <2>3, <2>4
<1>8. RestTyped'
  BY FaultTyped DEF PostStart, TypeInv, RestTyped
<1> HIDE DEF r
<1>9. TypeInv'
  BY <1>2, <1>7, <1>8, TurnTypes DEF PostStart, Posted
<1> QED BY <1>2, <1>7, <1>9

(* Steps of nobody's.                                                      *)
LEMMA AroundTypes ==
    ASSUME TypeInv, \/ \E b \in Batches : GroqEnds(b) \/ Age(b)
                    \/ QueueUnbound \/ UNCHANGED vars
    PROVE  TypeInv'
<1>1. UNCHANGED <<job, submits>>
  BY DEF GroqEnds, Age, QueueUnbound, vars
<1>2. CountTyped' /\ JobsTyped'
  BY <1>1 DEF TypeInv, CountTyped, JobsTyped, Active
<1>3. RestTyped'
  BY FaultTyped DEF GroqEnds, Age, QueueUnbound, vars, TypeInv, RestTyped
<1>4. StoreTyped'
  <2>1. CASE UNCHANGED <<state, pending>>
    BY <1>1, <2>1 DEF TypeInv, StoreTyped
  <2>2. ASSUME NEW b \in Batches, Age(b)
        PROVE  StoreTyped'
    <3>1. ASSUME state[b] # None
          PROVE  BatchInv([state[b] EXCEPT !.fresh = FALSE], submits[b])
      BY <3>1 DEF TypeInv, StoreTyped, BatchInv, Batch, Finished
    <3> QED BY <1>1, <2>2, <3>1 DEF Age, TypeInv, StoreTyped
  <2> QED BY <2>1, <2>2 DEF GroqEnds, QueueUnbound, vars
<1> QED BY <1>2, <1>3, <1>4 DEF TypeInv

LEMMA NextTypes == TypeInv /\ [Next]_vars => TypeInv'
BY SaveTypes, OnwardTypes, ThrowTypes, TakeTypes, SweepTypes, RescueTypes, DirectTypes, AskTypes,
   SubmitTypes, EndTypes, PostTypes, AroundTypes
   DEF Next, Step

-----------------------------------------------------------------------------
(* A step of worker w on batch c, after which w has r left to do.          *)

Same(v, x) ==
    Works(v, x)' =>
       /\ Works(v, x)
       /\ job'[v].kind = job[v].kind /\ job'[v].todo = job[v].todo /\ job'[v].st = job[v].st

Moves(w, c, r) ==
    /\ c \in Batches
    /\ Becomes(w, r)
    /\ Active(w) => job[w].batch = c
    /\ r.todo # <<>> => r.batch = c
    /\ \A x \in Batches : x # c => state'[x] = state[x] /\ submits'[x] = submits[x]
    /\ \A m \in queue' : m.batch # c => m \in queue
    /\ resent \subseteq resent'

(* What a step knows of the batch's provider, it knew before.              *)
Sourced(w, c, r) ==
    /\ r.todo # <<>> /\ r.todo # <<"rescue">> => ProviderOf(c, r.st.provider)
    /\ LaneAt(c, r)
    /\ state'[c] # None => ProviderOf(c, state'[c].provider)
    /\ posted' = posted /\ c \in posted
    /\ submits'[c] = submits[c] \/ ProviderOf(c, "groq")

LEMMA OthersSame ==
    ASSUME NEW w \in Workers, NEW c, NEW r, Moves(w, c, r)
    PROVE  /\ \A v \in Workers : \A x : v # w => Same(v, x)
           /\ \A x : x # c => Same(w, x)
<1>1. ASSUME NEW v \in Workers, v # w, NEW x PROVE Same(v, x)
  <2>1. CASE job'[v] = job[v]
    BY <2>1 DEF Same, Works, Active
  <2>2. CASE job'[v] # job[v]
    <3>1. Active(v) /\ job'[v] = [job[v] EXCEPT !.behind = TRUE]
      BY <1>1, <2>2 DEF Moves, Becomes
    <3>2. /\ job'[v].kind = job[v].kind /\ job'[v].todo = job[v].todo /\ job'[v].st = job[v].st
          /\ job'[v].batch = job[v].batch
      BY <3>1
    <3> QED BY <3>1, <3>2 DEF Same, Works
  <2> QED BY <2>1, <2>2
<1>2. ASSUME NEW x, x # c PROVE Same(w, x)
  BY <1>2 DEF Same, Works, Active, Moves, Becomes
<1> QED BY <1>1, <1>2

LEMMA ProviderKept ==
    ASSUME TypeInv, NEW w \in Workers, NEW c, NEW r, Moves(w, c, r), NEW x \in Batches, NEW p,
           x = c => Sourced(w, c, r), ProviderOf(x, p)'
    PROVE  ProviderOf(x, p)
<1>1. CASE state'[x] # None /\ state'[x].provider = p
  BY <1>1 DEF Moves, Sourced, ProviderOf
<1>2. ASSUME NEW v \in Workers, Has(v, x)', job'[v].st.provider = p, v # w \/ x # c
      PROVE  ProviderOf(x, p)
  <2>1. Same(v, x)
    BY <1>2, OthersSame
  <2> QED BY <1>2, <2>1 DEF Same, Has, ProviderOf
<1>3. CASE x = c /\ Has(w, x)' /\ job'[w].st.provider = p
  <2>1. job'[w] = r /\ r.todo # <<>> /\ r.todo # <<"rescue">>
    BY <1>3 DEF Moves, Becomes, Has, Works, Active
  <2> QED BY <1>3, <2>1 DEF Sourced
<1> QED BY <1>1, <1>2, <1>3 DEF ProviderOf

LEMMA UnpostedKept ==
    ASSUME TypeInv, UnpostedInv, NEW w \in Workers, NEW c, NEW r, Moves(w, c, r),
           NEW x \in Batches, x # c, x \notin posted
    PROVE  UnpostedAt(x)'
<1>1. UnpostedAt(x)
  BY DEF UnpostedInv
<1>2. state'[x] = None /\ submits'[x] = 0 /\ \A m \in queue' : m.batch # x
  BY <1>1 DEF UnpostedAt, Moves
<1>3. \A v \in Workers : Same(v, x)
  BY OthersSame
<1> QED BY <1>1, <1>2, <1>3 DEF UnpostedAt, Same

LEMMA LaneKept ==
    ASSUME TypeInv, LaneInv, NEW w \in Workers, NEW c, NEW r, Moves(w, c, r),
           c \notin resent' => LaneAt(c, r)
    PROVE  LaneInv'
<1>1. ASSUME NEW v \in Workers, Active(v)', job'[v].batch \notin resent',
             Internal(job'[v].kind, job'[v].todo)
      PROVE  job'[v].st.provider = "internal"
  <2>1. CASE v = w
    BY <1>1, <2>1 DEF Moves, Becomes, Active, LaneAt
  <2>2. CASE v # w
    <3> PICK x : x = job'[v].batch
      OBVIOUS
    <3>1. Same(v, x) /\ Works(v, x)'
      BY <1>1, <2>2, OthersSame DEF Works
    <3>2. /\ Active(v) /\ job[v].batch = job'[v].batch /\ job'[v].kind = job[v].kind
          /\ job'[v].todo = job[v].todo /\ job'[v].st = job[v].st
      BY <3>1 DEF Same, Works
    <3>3. job[v].todo # <<>>
      BY <3>2, Working DEF PlanFacts
    <3> QED BY <1>1, <3>2, <3>3 DEF LaneInv, LaneAt, Moves
  <2> QED BY <2>1, <2>2
<1> QED BY <1>1 DEF LaneInv, LaneAt

LEMMA KnownKept ==
    ASSUME TypeInv, KnownInv, NEW w \in Workers, NEW c, NEW r, Moves(w, c, r), Sourced(w, c, r)
    PROVE  KnownInv'
<1>0. resent \subseteq resent'
  BY DEF Moves
<1>1. AgreeInv'
  BY <1>0, ProviderKept DEF KnownInv, AgreeInv
<1>2. ASSUME NEW x \in Batches, x \notin resent', ProviderOf(x, "internal")' PROVE submits'[x] = 0
  <2>1. ProviderOf(x, "internal") /\ submits[x] = 0
    BY <1>0, <1>2, ProviderKept DEF KnownInv, InternalInv
  <2>2. ~ ProviderOf(x, "groq")
    BY <1>0, <1>2, <2>1 DEF KnownInv, AgreeInv
  <2> QED BY <2>1, <2>2 DEF Moves, Sourced
<1>3. ASSUME NEW x \in Batches, x \notin posted' PROVE UnpostedAt(x)'
  BY <1>3, UnpostedKept DEF Sourced, KnownInv
<1>4. LaneInv'
  BY LaneKept DEF Sourced, KnownInv
<1> QED BY <1>1, <1>2, <1>3, <1>4 DEF KnownInv, InternalInv, UnpostedInv

-----------------------------------------------------------------------------
(* Which steps are such.                                                   *)

(* The batch of an invocation was posted.                                  *)
LEMMA PostedWork ==
    ASSUME TypeInv, KnownInv, NEW w \in Workers, Active(w)
    PROVE  /\ job[w].batch \in posted /\ job[w].batch \in Batches
           /\ Works(w, job[w].batch)
           /\ job[w].todo # <<"rescue">> => ProviderOf(job[w].batch, job[w].st.provider)
BY Working DEF KnownInv, UnpostedInv, UnpostedAt, Works, Has, ProviderOf

(* Going on with what one has, or with less.                               *)
LEMMA CarriedFacts ==
    ASSUME TypeInv, KnownInv, NEW w \in Workers, Active(w), NEW r,
           r = Onward(job[w]) \/ r = AfterThrow(job[w])
    PROVE  /\ r.todo # <<>> => r.batch = job[w].batch /\ r.st = job[w].st
           /\ r.todo # <<>> /\ r.todo # <<"rescue">> =>
                 job[w].todo # <<"rescue">> /\ ProviderOf(job[w].batch, r.st.provider)
           /\ LaneAt(job[w].batch, r)
<1>1. /\ PlanFacts(job[w].kind, job[w].todo) /\ job[w].todo \in PlansOf(job[w].kind)
      /\ DOMAIN job[w] = {"kind", "batch", "st", "todo", "tries", "behind"}
  BY Working DEF JobInv
<1>2. r.batch = job[w].batch /\ r.st = job[w].st
  BY <1>1 DEF Onward, AfterThrow
<1>3. ASSUME r.todo # <<>>, r.todo # <<"rescue">> PROVE job[w].todo # <<"rescue">>
  <2>1. Tail(<<"rescue">>) = <<>>
    OBVIOUS
  <2>2. CASE r = Onward(job[w])
    BY <1>1, <1>3, <2>1, <2>2 DEF Onward
  <2>3. CASE r = AfterThrow(job[w])
    <3>1. job[w].kind = "post"
      BY <1>1, <1>3, <2>3 DEF AfterThrow
    <3> QED BY <1>1, <3>1 DEF PlansOf, QueuedPosts, DirectPosts
  <2> QED BY <2>2, <2>3
<1>4. LaneAt(job[w].batch, r)
  <2>1. LaneAt(job[w].batch, job[w]) /\ job[w].todo # <<>>
    BY <1>1 DEF KnownInv, LaneInv, PlanFacts
  <2>2. CASE r = Onward(job[w])
    <3>1. r.todo = Tail(job[w].todo) /\ r.kind = job[w].kind
      BY <1>1, <2>2 DEF Onward
    <3>2. Internal(r.kind, r.todo) => Internal(job[w].kind, job[w].todo)
      BY <1>1, <3>1 DEF PlanFacts
    <3> QED BY <1>2, <2>1, <3>2 DEF LaneAt
  <2>3. CASE r = AfterThrow(job[w])
    <3>1. \/ r.todo = <<>>
          \/ r.kind = "post" /\ r.todo = <<"rollback">>
          \/ r.kind = "rescue" /\ r.todo = <<"rescue">>
      BY <1>1, <2>3 DEF AfterThrow
    <3> QED BY <3>1 DEF LaneAt, Internal, DirectPosts
  <2> QED BY <2>2, <2>3
<1> QED BY <1>2, <1>3, <1>4, PostedWork

(* A direct run loads a batch that is not Groq's.                          *)
LEMMA DirectInternal ==
    ASSUME TypeInv, KnownInv, NEW w \in Workers, AtStep(w, {"direct"}), job[w].batch \notin resent
    PROVE  state[job[w].batch] # None => state[job[w].batch].provider = "internal"
<1>1. /\ Active(w) /\ JobInv(job[w], submits[job[w].batch]) /\ job[w].batch \in Batches
      /\ PlanFacts(job[w].kind, job[w].todo) /\ Head(job[w].todo) = "direct"
  BY Working DEF AtStep
<1>2. job[w].todo = <<"direct">>
  BY <1>1 DEF PlanFacts
<1>3. job[w].todo # <<"rescue">> /\ job[w].todo # <<>> /\ Internal(job[w].kind, job[w].todo)
  BY <1>2 DEF Internal, DirectPosts
<1>4. job[w].st.provider = "internal"
  BY <1>1, <1>3 DEF KnownInv, LaneInv, LaneAt
<1>5. ProviderOf(job[w].batch, "internal")
  BY <1>1, <1>3, <1>4 DEF ProviderOf, Has, Works
<1>6. state[job[w].batch] # None => state[job[w].batch].provider \in {"internal", "groq"}
  BY <1>1 DEF TypeInv, StoreTyped, BatchInv, Batch
<1> QED BY <1>1, <1>5, <1>6 DEF KnownInv, AgreeInv, ProviderOf

LEMMA MessageOf ==
    ASSUME NEW w \in Workers
    PROVE  \A m \in Sent(w) \cup Retried(job[w]) : m.batch = job[w].batch
BY DEF Sent, Retried

LEMMA SaveMoves ==
    ASSUME TypeInv, KnownInv, NEW w \in Workers, AtStep(w, Statuses), NEW ks,
           NEW r, r = Onward(job[w]) \/ r = AfterThrow(job[w]), Put(w, Saved(w), ks, r),
           UNCHANGED <<posted, submits, resent>>, queue' = queue \/ queue' = queue \cup Retried(job[w])
    PROVE  /\ Moves(w, job[w].batch, r) /\ Sourced(w, job[w].batch, r)
           /\ state'[job[w].batch] = IF "state" \in ks THEN Saved(w) ELSE state[job[w].batch]
<1> DEFINE c == job[w].batch
<1>1. Active(w) /\ c \in Batches /\ c \in posted
  BY PostedWork DEF AtStep
<1>2. Becomes(w, r)
  BY PutBecomes DEF TypeInv, JobsTyped
<1>3. /\ \A x \in Batches : x # c => state'[x] = state[x]
      /\ state'[c] = IF "state" \in ks THEN Saved(w) ELSE state[c]
  BY <1>1 DEF Put, TypeInv, StoreTyped
<1>4. Moves(w, c, r)
  BY <1>1, <1>2, <1>3, CarriedFacts, MessageOf DEF Moves
<1>5. job[w].todo # <<"rescue">>
  BY DEF AtStep, Statuses
<1>6. ProviderOf(c, Saved(w).provider)
  BY <1>1, <1>5, PostedWork, SavedTyped
<1>7. Sourced(w, c, r)
  BY <1>1, <1>3, <1>6, CarriedFacts DEF Sourced, ProviderOf
<1> QED BY <1>3, <1>4, <1>7

(* Other steps store nothing.                                              *)
LEMMA TurnMoves ==
    ASSUME TypeInv, KnownInv, NEW w \in Workers, NEW c \in Batches, NEW r,
           job' = Turn(w, r), UNCHANGED <<state, posted>>, c \in posted,
           Active(w) => job[w].batch = c, r.todo # <<>> => r.batch = c,
           r.todo # <<>> /\ r.todo # <<"rescue">> => ProviderOf(c, r.st.provider), LaneAt(c, r),
           \A x \in Batches : x # c => submits'[x] = submits[x],
           submits'[c] = submits[c] \/ ProviderOf(c, "groq"),
           \A m \in queue' : m.batch # c => m \in queue, resent \subseteq resent'
    PROVE  Moves(w, c, r) /\ Sourced(w, c, r)
<1>1. Becomes(w, r)
  BY TurnBecomes DEF TypeInv, JobsTyped
<1> QED BY <1>1 DEF Moves, Sourced, ProviderOf

LEMMA OnwardMoves ==
    ASSUME TypeInv, KnownInv, NEW w \in Workers,
           NEW r, \/ (Remember(w) \/ Enqueue(w)) /\ r = Onward(job[w])
                  \/ (Throw(w) \/ EnqueueUnheard(w)) /\ r = AfterThrow(job[w])
    PROVE  Moves(w, job[w].batch, r) /\ Sourced(w, job[w].batch, r)
<1> DEFINE c == job[w].batch
<1>1. Active(w) /\ c \in Batches /\ c \in posted
  BY PostedWork DEF Remember, Enqueue, Throw, EnqueueUnheard, AtStep
<1>2. /\ r.todo # <<>> => r.batch = c
      /\ r.todo # <<>> /\ r.todo # <<"rescue">> => ProviderOf(c, r.st.provider)
      /\ LaneAt(c, r)
  BY <1>1, CarriedFacts
<1>3. job' = Turn(w, r) /\ UNCHANGED <<state, posted, submits>> /\ resent \subseteq resent'
  BY DEF Remember, Enqueue, Throw, EnqueueUnheard, Resent
<1>4. \A m \in queue' : m.batch # c => m \in queue
  BY MessageOf DEF Remember, Enqueue, Throw, EnqueueUnheard
<1> QED BY <1>1, <1>2, <1>3, <1>4, TurnMoves

LEMMA SubmitMoves ==
    ASSUME TypeInv, KnownInv, NEW w \in Workers, NEW r,
           \/ Submit(w) /\ r = [Onward(job[w]) EXCEPT !.st.ext = TRUE]
           \/ SubmitUnheard(w) /\ r = AfterThrow(job[w])
    PROVE  /\ Moves(w, job[w].batch, r) /\ Sourced(w, job[w].batch, r)
           /\ job[w].todo = SubmitPlan /\ (job[w].batch \notin resent => job[w].kind = "run")
           /\ \/ Submit(w) /\ r.todo = <<"submitted", "sendPoll">>
              \/ SubmitUnheard(w) /\ (job[w].kind = "run" => r.todo = <<>>)
<1> DEFINE c == job[w].batch
<1>1. Active(w) /\ c \in Batches /\ c \in posted
  BY PostedWork DEF Submit, SubmitUnheard, AtStep
<1>2. /\ job[w].todo = SubmitPlan /\ JobInv(job[w], submits[c])
      /\ Head(job[w].todo) = "submit"
  BY <1>1, Working DEF PlanFacts, Submit, SubmitUnheard, AtStep
<1>3. /\ job[w].kind \in {"run", "direct"} /\ job[w].st.provider = "groq" /\ job[w].todo # <<"rescue">>
      /\ DOMAIN job[w] = {"kind", "batch", "st", "todo", "tries", "behind"} /\ job[w].st \in Batch
  <2>1. SubmitPlan # <<"rescue">>
    BY DEF SubmitPlan
  <2> QED BY <1>2, <2>1 DEF JobInv, CarriesInv, Groqs
<1>4. ProviderOf(c, "groq")
  BY <1>1, <1>3, PostedWork
<1>5. c \notin resent => job[w].kind = "run"
  <2>1. job[w].todo # <<>>
    BY <1>2 DEF SubmitPlan
  <2> QED BY <1>1, <1>3, <2>1 DEF KnownInv, LaneInv, LaneAt, Internal
<1>6. /\ \/ Submit(w) /\ r.todo = <<"submitted", "sendPoll">>
         \/ SubmitUnheard(w) /\ (job[w].kind = "run" => r.todo = <<>>)
      /\ r.todo # <<>> => r.batch = c /\ r.st.provider = "groq"
      /\ LaneAt(c, r)
  <2>1. CASE Submit(w) /\ r = [Onward(job[w]) EXCEPT !.st.ext = TRUE]
    <3> DEFINE q == Onward(job[w])
    <3>1. q.todo = <<"submitted", "sendPoll">> /\ q.batch = c /\ q.st = job[w].st /\ q.kind = job[w].kind
          /\ DOMAIN q = {"kind", "batch", "st", "todo", "tries", "behind"}
      BY <1>2, <1>3 DEF Onward, SubmitPlan
    <3>2. [q.st EXCEPT !.ext = TRUE].provider = "groq"
      BY <1>3, <3>1 DEF Batch
    <3> HIDE DEF q
    <3>3. r = [q EXCEPT !.st.ext = TRUE]
      BY <2>1 DEF q
    <3>4. r.todo = <<"submitted", "sendPoll">> /\ r.kind = job[w].kind
      BY <3>1, <3>3
    <3>5. LaneAt(c, r)
      BY <1>5, <3>4 DEF LaneAt, Internal, DirectPosts
    <3> QED BY <2>1, <3>1, <3>2, <3>3, <3>4, <3>5
  <2>2. CASE SubmitUnheard(w) /\ r = AfterThrow(job[w])
    <3>1. r.batch = c /\ r.st = job[w].st /\ (job[w].kind = "run" => r.todo = <<>>)
      BY <2>2, <1>2, <1>3 DEF AfterThrow
    <3> QED BY <1>1, <1>3, <2>2, <3>1, CarriedFacts
  <2> QED BY <2>1, <2>2
<1>7. /\ job' = Turn(w, r) /\ UNCHANGED <<state, posted, resent>>
      /\ \A x \in Batches : x # c => submits'[x] = submits[x]
      /\ \A m \in queue' : m.batch # c => m \in queue
  BY MessageOf DEF Submit, SubmitUnheard, Submitted, TypeInv, CountTyped
<1>8. Moves(w, c, r) /\ Sourced(w, c, r)
  BY <1>1, <1>4, <1>6, <1>7, TurnMoves
<1> QED BY <1>2, <1>5, <1>6, <1>8

(* What an invocation loads.                                               *)
LEMMA LoadedFacts ==
    ASSUME TypeInv, KnownInv, NEW b \in Batches, NEW s, s = state[b], s # None
    PROVE  LET q == [s EXCEPT !.status = "queued", !.fresh = TRUE] IN
           b \in posted /\ s \in Batch /\ q.provider = s.provider /\ ProviderOf(b, q.provider)
<1>1. b \in posted /\ s \in Batch
  BY DEF KnownInv, UnpostedInv, UnpostedAt, TypeInv, StoreTyped, BatchInv
<1>2. [s EXCEPT !.status = "queued", !.fresh = TRUE].provider = s.provider
  BY <1>1 DEF Batch
<1> QED BY <1>1, <1>2 DEF ProviderOf

TakenAs(m) ==
    IF m.kind = "run" THEN Job("run", m.batch, state[m.batch], RunPlan(state[m.batch]), m.tries)
    ELSE Job("poll", m.batch, state[m.batch], PollPlan(state[m.batch]), m.tries)

LEMMA TakeMoves ==
    ASSUME TypeInv, KnownInv, NEW w \in Workers, NEW m \in Message, Take(w, m)
    PROVE  Moves(w, m.batch, TakenAs(m)) /\ Sourced(w, m.batch, TakenAs(m)) /\ job' = Turn(w, TakenAs(m))
<1> DEFINE r == TakenAs(m) c == m.batch
<1>1. c \in Batches /\ m.kind \in {"run", "poll"} /\ m.tries \in Nat
  BY Constants DEF Message
<1>2. c \in posted
  BY <1>1 DEF Take, KnownInv, UnpostedInv, UnpostedAt
<1>3. job' = Turn(w, r)
  BY <1>1 DEF Take, TakenAs
<1>4. r.batch = c /\ (r.todo # <<>> => ProviderOf(c, r.st.provider)) /\ LaneAt(c, r)
  <2>1. (RunPlan(state[c]) # <<>> => state[c] # None) /\ (PollPlan(state[c]) # <<>> => state[c] # None)
    BY DEF RunPlan, PollPlan
  <2>4. /\ RunPlan(state[c]) # <<>> => ~ Internal("run", RunPlan(state[c]))
        /\ PollPlan(state[c]) # <<>> => ~ Internal("poll", PollPlan(state[c]))
    BY <1>1, RunPlanFacts, PollPlanFacts DEF TypeInv, StoreTyped, BatchInv
  <2>2. CASE m.kind = "run"
    <3>1. r = Job("run", c, state[c], RunPlan(state[c]), m.tries)
      BY <2>2 DEF TakenAs
    <3> HIDE DEF r
    <3> QED BY <1>1, <2>1, <2>4, <3>1, LoadedFacts DEF Job, LaneAt
  <2>3. CASE m.kind # "run"
    <3>1. r = Job("poll", c, state[c], PollPlan(state[c]), m.tries)
      BY <2>3 DEF TakenAs
    <3> HIDE DEF r
    <3> QED BY <1>1, <2>1, <2>4, <3>1, LoadedFacts DEF Job, LaneAt
  <2> QED BY <2>2, <2>3
<1>5. /\ UNCHANGED <<state, posted, submits>> /\ resent \subseteq resent' /\ ~ Active(w)
      /\ \A n \in queue' : n \in queue
  BY DEF Take
<1> HIDE DEF r
<1>6. Moves(w, c, r) /\ Sourced(w, c, r)
  BY <1>1, <1>2, <1>3, <1>4, <1>5, TurnMoves
<1> QED BY <1>3, <1>6 DEF r

SweptAs(b) == Job("sweep", b, state[b], SweepPlan(state[b]), 0)

LEMMA SweepMoves ==
    ASSUME TypeInv, KnownInv, NEW w \in Workers, NEW b \in Batches, SweepStart(w, b)
    PROVE  Moves(w, b, SweptAs(b)) /\ Sourced(w, b, SweptAs(b)) /\ job' = Turn(w, SweptAs(b))
<1> DEFINE r == SweptAs(b)
<1>1. job' = Turn(w, r)
  BY DEF SweepStart, SweptAs
<1>2. r.batch = b /\ b \in posted /\ ProviderOf(b, r.st.provider) /\ LaneAt(b, r)
  <2>1. /\ state[b] # None /\ ~ Finished(state[b])
        /\ r = Job("sweep", b, state[b], SweepPlan(state[b]), 0)
    BY DEF SweptAs, SweepStart
  <2>2. Internal("sweep", SweepPlan(state[b])) => state[b].provider = "internal"
    BY <2>1, LoadedFacts, SweepPlanFacts
  <2> HIDE DEF r
  <2> QED BY <2>1, <2>2, LoadedFacts DEF Job, LaneAt
<1>3. UNCHANGED <<state, posted, submits, queue, resent>> /\ ~ Active(w)
  BY DEF SweepStart
<1> HIDE DEF r
<1>4. Moves(w, b, r) /\ Sourced(w, b, r)
  BY <1>1, <1>2, <1>3, TurnMoves
<1> QED BY <1>1, <1>4 DEF r

ReloadedAs(w) ==
    LET b == job[w].batch
    IN  IF AtStep(w, {"direct"}) THEN Job("direct", b, state[b], RunPlan(state[b]), 0)
        ELSE Job("rescue", b, state[b],
                 IF state[b] = None \/ Finished(state[b]) THEN <<>> ELSE <<"failed">>, 0)

LEMMA ReloadMoves ==
    ASSUME TypeInv, KnownInv, NEW w \in Workers, Direct(w) \/ Rescue(w)
    PROVE  /\ Moves(w, job[w].batch, ReloadedAs(w)) /\ Sourced(w, job[w].batch, ReloadedAs(w))
           /\ job' = Turn(w, ReloadedAs(w))
<1> DEFINE r == ReloadedAs(w) c == job[w].batch
<1>1. Active(w) /\ c \in Batches /\ c \in posted
  BY PostedWork DEF Direct, Rescue, AtStep
<1>2. job' = Turn(w, r)
  <2>1. CASE Direct(w)
    BY <2>1 DEF Direct, ReloadedAs
  <2>2. CASE Rescue(w)
    <3>1. ~ AtStep(w, {"direct"})
      BY <2>2 DEF Rescue, AtStep
    <3> QED BY <2>2, <3>1 DEF Rescue, ReloadedAs
  <2> QED BY <2>1, <2>2
<1>3. r.batch = c /\ (r.todo # <<>> => ProviderOf(c, r.st.provider)) /\ LaneAt(c, r)
  <2>1. RunPlan(state[c]) # <<>> => state[c] # None
    BY DEF RunPlan
  <2>2. CASE AtStep(w, {"direct"})
    <3>1. r = Job("direct", c, state[c], RunPlan(state[c]), 0)
      BY <2>2 DEF ReloadedAs
    <3>2. c \notin resent /\ state[c] # None => state[c].provider = "internal"
      BY <2>2, DirectInternal
    <3> HIDE DEF r
    <3> QED BY <1>1, <2>1, <3>1, <3>2, LoadedFacts DEF Job, LaneAt
  <2>3. CASE ~ AtStep(w, {"direct"})
    <3> DEFINE p == IF state[c] = None \/ Finished(state[c]) THEN <<>> ELSE <<"failed">>
    <3>1. r = Job("rescue", c, state[c], p, 0) /\ (p # <<>> => state[c] # None)
      BY <2>3 DEF ReloadedAs
    <3>2. ~ Internal("rescue", <<"failed">>) /\ p \in {<<>>, <<"failed">>}
      BY DEF Internal, DirectPosts
    <3> HIDE DEF r, p
    <3> QED BY <1>1, <3>1, <3>2, LoadedFacts DEF Job, LaneAt
  <2> QED BY <2>2, <2>3
<1>4. UNCHANGED <<state, posted, submits, queue, resent>>
  BY DEF Direct, Rescue
<1> HIDE DEF r
<1>5. Moves(w, c, r) /\ Sourced(w, c, r)
  BY <1>1, <1>2, <1>3, <1>4, TurnMoves
<1> QED BY <1>2, <1>5 DEF r

LEMMA AskMoves ==
    ASSUME TypeInv, KnownInv, NEW w \in Workers, Ask(w)
    PROVE  /\ job[w].todo = <<"ask">> /\ job[w].kind = "poll"
           /\ \E r : /\ Moves(w, job[w].batch, r) /\ Sourced(w, job[w].batch, r) /\ job' = Turn(w, r)
                     /\ r.todo \in {<<"completed">>, <<"failed">>, <<"sendPoll", "polling">>}
                     /\ r.kind = "poll" /\ r.behind = job[w].behind
<1> DEFINE c == job[w].batch
           counted == [job[w].st EXCEPT !.polls = @ + 1]
<1>1. Active(w) /\ c \in Batches /\ c \in posted /\ Head(job[w].todo) = "ask"
  BY PostedWork DEF Ask, AtStep
<1>2. /\ job[w].todo = <<"ask">> /\ job[w].kind = "poll" /\ JobInv(job[w], submits[c])
  BY <1>1, Working DEF PlanFacts
<1>3. /\ job[w].st \in Batch /\ ProviderOf(c, job[w].st.provider)
      /\ DOMAIN job[w] = {"kind", "batch", "st", "todo", "tries", "behind"}
  <2>1. <<"ask">> # <<"rescue">>
    OBVIOUS
  <2> QED BY <1>1, <1>2, <2>1, PostedWork DEF JobInv, CarriesInv
<1>4. counted.provider = job[w].st.provider
  BY <1>3 DEF Batch
<1> HIDE DEF counted
<1>5. PICK p \in {<<"completed">>, <<"failed">>, <<"sendPoll", "polling">>}, st \in {job[w].st, counted} :
         job' = Turn(w, [job[w] EXCEPT !.todo = p, !.st = st])
  <2>1. CASE c \in done
    <3>1. PICK end \in Ended : job' = Turn(w, [job[w] EXCEPT !.todo = <<end>>])
      BY <2>1 DEF Ask
    <3>2. [job[w] EXCEPT !.todo = <<end>>] = [job[w] EXCEPT !.todo = <<end>>, !.st = job[w].st]
      BY <1>3
    <3> QED BY <3>1, <3>2 DEF Ended
  <2>2. CASE c \notin done
    BY <2>2 DEF Ask, counted
  <2> QED BY <2>1, <2>2
<1> DEFINE r == [job[w] EXCEPT !.todo = p, !.st = st]
<1>6. r.batch = c /\ r.todo = p /\ r.st.provider = job[w].st.provider /\ r.kind = "poll" /\ r.behind = job[w].behind
  BY <1>2, <1>3, <1>4, <1>5
<1>7. UNCHANGED <<state, posted, submits, queue, resent>>
  BY DEF Ask
<1>8. job' = Turn(w, r)
  BY <1>5
<1> HIDE DEF r
<1>9. LaneAt(c, r)
  BY <1>5, <1>6 DEF LaneAt, Internal, DirectPosts
<1>10. Moves(w, c, r) /\ Sourced(w, c, r)
  BY <1>1, <1>3, <1>6, <1>7, <1>8, <1>9, TurnMoves
<1> QED BY <1>2, <1>6, <1>8, <1>10

LEMMA EndMoves ==
    ASSUME TypeInv, KnownInv, NEW w \in Workers, Crash(w) \/ Rollback(w)
    PROVE  /\ Moves(w, job[w].batch, Gone) /\ Sourced(w, job[w].batch, Gone)
           /\ state'[job[w].batch] \in {None, state[job[w].batch]}
<1> DEFINE c == job[w].batch
<1>1. Active(w) /\ c \in Batches /\ c \in posted
  BY PostedWork DEF Crash, Rollback, AtStep
<1>2. Becomes(w, Gone)
  BY DEF Crash, Rollback, Becomes, Gone, TypeInv, JobsTyped
<1>3. UNCHANGED <<posted, submits, resent>> /\ \A m \in queue' : m.batch # c => m \in queue
  BY MessageOf DEF Crash, Rollback
<1>4. (\A x \in Batches : x # c => state'[x] = state[x]) /\ state'[c] \in {None, state[c]}
  BY <1>1 DEF Crash, Rollback, TypeInv, StoreTyped
<1> QED BY <1>1, <1>2, <1>3, <1>4 DEF Moves, Sourced, ProviderOf, Gone, LaneAt

LEMMA PostMoves ==
    ASSUME TypeInv, NEW w \in Workers, NEW b \in Batches, PostStart(w, b)
    PROVE  \E r : Moves(w, b, r) /\ job' = Turn(w, r) /\ Posted(b, r)
<1>1. PICK r : job' = Turn(w, r) /\ Posted(b, r)
  BY PostTypes
<1>2. Becomes(w, r)
  BY <1>1, TurnBecomes DEF TypeInv, JobsTyped
<1>3. ~ Active(w) /\ UNCHANGED <<state, submits, queue>> /\ resent \subseteq resent'
  BY DEF PostStart
<1> QED BY <1>1, <1>2, <1>3 DEF Moves, Posted

(* A post makes the batch known, and nobody works on it yet, or it counts  *)
(* as posted again.                                                        *)
LEMMA PostKnown ==
    ASSUME TypeInv, KnownInv, NEW w \in Workers, NEW b \in Batches, PostStart(w, b)
    PROVE  KnownInv'
<1>1. PICK r : Moves(w, b, r) /\ job' = Turn(w, r) /\ Posted(b, r)
  BY PostMoves
<1>2. /\ UNCHANGED <<state, submits>> /\ posted' = posted \cup {b}
      /\ resent \subseteq resent'
      /\ b \notin resent' => UnpostedAt(b)
  BY DEF PostStart, KnownInv, UnpostedInv
<1>3. ASSUME b \notin resent'
      PROVE  /\ ~ (ProviderOf(b, "internal") /\ ProviderOf(b, "groq"))'
             /\ submits'[b] = 0
  <2>1. \A v \in Workers : v # w => ~ Works(v, b)'
    BY <1>1, <1>2, <1>3, OthersSame DEF UnpostedAt, Same
  <2>2. \A p : ProviderOf(b, p)' => job'[w].st.provider = p
    BY <1>2, <1>3, <2>1 DEF ProviderOf, Has, UnpostedAt
  <2> QED BY <1>2, <1>3, <2>2 DEF UnpostedAt
<1>4. AgreeInv' /\ InternalInv'
  <2>1. ASSUME NEW x \in Batches, x # b, x \notin resent'
        PROVE  /\ ~ (ProviderOf(x, "internal") /\ ProviderOf(x, "groq"))'
               /\ ProviderOf(x, "internal")' => submits'[x] = 0
    BY <1>1, <1>2, <2>1, ProviderKept DEF KnownInv, AgreeInv, InternalInv
  <2> QED BY <1>3, <2>1 DEF AgreeInv, InternalInv
<1>5. UnpostedInv'
  BY <1>1, <1>2, UnpostedKept DEF KnownInv, UnpostedInv
<1>6. LaneInv'
  <2>1. LaneAt(b, r)
    BY <1>1 DEF Posted, LaneAt
  <2> QED BY <1>1, <2>1, LaneKept DEF KnownInv
<1> QED BY <1>4, <1>5, <1>6 DEF KnownInv

(* Steps of nobody's.                                                      *)
Around ==
    \/ \E b \in Batches : GroqEnds(b) \/ Age(b)
    \/ QueueUnbound \/ UNCHANGED vars

SameBut(s, t) == t # None => s # None /\ t.status = s.status /\ t.provider = s.provider

LEMMA AroundSame ==
    ASSUME TypeInv, Around
    PROVE  /\ UNCHANGED <<posted, job, submits, queue, resent>>
           /\ \A x \in Batches : SameBut(state[x], state'[x])
<1>1. UNCHANGED <<posted, job, submits, queue, resent>>
  BY DEF Around, GroqEnds, Age, QueueUnbound, vars
<1>2. CASE UNCHANGED state
  BY <1>1, <1>2 DEF SameBut
<1>3. ASSUME NEW b \in Batches, Age(b), NEW x \in Batches
      PROVE  SameBut(state[x], state'[x])
  <2>1. ASSUME state[x] # None
        PROVE  LET t == [state[x] EXCEPT !.fresh = FALSE] IN
               t.status = state[x].status /\ t.provider = state[x].provider
    BY <2>1 DEF TypeInv, StoreTyped, BatchInv, Batch
  <2>2. state'[x] = state[x] \/ (x = b /\ state'[x] = IF state[x] = None THEN None ELSE [state[x] EXCEPT !.fresh = FALSE])
    BY <1>3 DEF Age, TypeInv, StoreTyped
  <2> QED BY <2>1, <2>2 DEF SameBut
<1> QED BY <1>1, <1>2, <1>3 DEF Around, GroqEnds, QueueUnbound, vars

LEMMA AroundKnown ==
    ASSUME TypeInv, KnownInv, Around
    PROVE  KnownInv'
<1>1. \A x \in Batches : \A p : ProviderOf(x, p)' => ProviderOf(x, p)
  BY AroundSame DEF ProviderOf, SameBut, Has, Works, Active
<1>2. ASSUME NEW x \in Batches \ posted PROVE UnpostedAt(x)'
  BY AroundSame DEF KnownInv, UnpostedInv, UnpostedAt, SameBut, Works, Active
<1>3. LaneInv'
  BY AroundSame DEF KnownInv, LaneInv, LaneAt, Active
<1> QED BY <1>1, <1>2, <1>3, AroundSame DEF KnownInv, AgreeInv, InternalInv, UnpostedInv

LEMMA NextKnown == TypeInv /\ KnownInv /\ [Next]_vars => KnownInv'
<1> SUFFICES ASSUME TypeInv, KnownInv, [Next]_vars PROVE KnownInv'
  OBVIOUS
<1>1. ASSUME NEW w \in Workers, Save(w) \/ SaveThrows(w) PROVE KnownInv'
  <2>1. PICK ks \in SUBSET Keys, r \in {Onward(job[w]), AfterThrow(job[w])} : Put(w, Saved(w), ks, r)
    BY <1>1 DEF Save, SaveThrows
  <2>2. /\ AtStep(w, Statuses) /\ UNCHANGED <<posted, submits, resent>>
        /\ queue' = queue \/ queue' = queue \cup Retried(job[w])
    BY <1>1 DEF Save, SaveThrows
  <2>3. Moves(w, job[w].batch, r) /\ Sourced(w, job[w].batch, r)
    BY <2>1, <2>2, SaveMoves
  <2> QED BY <2>3, KnownKept
<1>2. ASSUME NEW w \in Workers, Remember(w) \/ Enqueue(w) \/ Throw(w) \/ EnqueueUnheard(w) PROVE KnownInv'
  BY <1>2, OnwardMoves, KnownKept
<1>3. ASSUME NEW w \in Workers, Submit(w) \/ SubmitUnheard(w) PROVE KnownInv'
  BY <1>3, SubmitMoves, KnownKept
<1>4. ASSUME NEW w \in Workers, NEW m \in Message, Take(w, m) PROVE KnownInv'
  BY <1>4, TakeMoves, KnownKept
<1>5. ASSUME NEW w \in Workers, NEW b \in Batches, SweepStart(w, b) PROVE KnownInv'
  BY <1>5, SweepMoves, KnownKept
<1>6. ASSUME NEW w \in Workers, Direct(w) \/ Rescue(w) PROVE KnownInv'
  BY <1>6, ReloadMoves, KnownKept
<1>7. ASSUME NEW w \in Workers, Ask(w) PROVE KnownInv'
  BY <1>7, AskMoves, KnownKept
<1>8. ASSUME NEW w \in Workers, Crash(w) \/ Rollback(w) PROVE KnownInv'
  BY <1>8, EndMoves, KnownKept
<1> QED BY <1>1, <1>2, <1>3, <1>4, <1>5, <1>6, <1>7, <1>8, PostKnown, AroundKnown DEF Next, Step, Around

-----------------------------------------------------------------------------
(* The right to run.                                                       *)

LEMMA OthersMayRun ==
    ASSUME NEW v, NEW x, Same(v, x)
    PROVE  /\ MayRun(v, x)' => MayRun(v, x)
           /\ Posting(v, x)' => Posting(v, x)
BY DEF Same, MayRun, Posting, Works

(* The right goes from w to a message, or from a message to w.             *)
RightPasses(w, c) ==
    /\ MayRun(w, c)' => MayRun(w, c) \/ \E m \in queue : m \notin queue' /\ RunMessage(m, c)
    /\ \E n : \A m \in queue' : RunMessage(m, c) => m \in queue \/ (m = n /\ MayRun(w, c) /\ ~ MayRun(w, c)')

LEMMA OneRunKept ==
    ASSUME NEW w \in Workers, NEW c, OneRun(c), \A v \in Workers : v # w => Same(v, c), RightPasses(w, c)
    PROVE  OneRun(c)'
<1>1. \A v \in Workers : v # w /\ MayRun(v, c)' => MayRun(v, c)
  BY OthersMayRun
<1>2. PICK n : \A m \in queue' : RunMessage(m, c) => m \in queue \/ (m = n /\ MayRun(w, c) /\ ~ MayRun(w, c)')
  BY DEF RightPasses
<1>3. ASSUME NEW u \in Workers, NEW v \in Workers, MayRun(u, c)', MayRun(v, c)' PROVE u = v
  <2>1. ASSUME NEW x \in Workers, x # w, MayRun(x, c)' PROVE ~ MayRun(w, c)'
    BY <1>1, <2>1 DEF RightPasses, OneRun
  <2> QED BY <1>1, <1>3, <2>1 DEF OneRun
<1>4. ASSUME NEW v \in Workers, NEW m \in queue', MayRun(v, c)', RunMessage(m, c) PROVE FALSE
  <2>1. CASE v # w
    BY <1>1, <1>2, <1>4, <2>1 DEF OneRun
  <2>2. CASE v = w
    <3>1. m \in queue
      BY <1>2, <1>4, <2>2
    <3> QED BY <1>4, <2>2, <3>1 DEF RightPasses, OneRun
  <2> QED BY <2>1, <2>2
<1>5. ASSUME NEW m \in queue', NEW k \in queue', RunMessage(m, c), RunMessage(k, c) PROVE m = k
  BY <1>2, <1>5 DEF OneRun
<1> QED BY <1>3, <1>4, <1>5 DEF OneRun, RunMessage

(* What a step does to a batch that has never been sent again.             *)
Counted(w, c) ==
    \/ submits'[c] = submits[c]
    \/ /\ Works(w, c) /\ job[w].todo = SubmitPlan /\ job[w].kind = "run"
       /\ submits'[c] = submits[c] + 1 /\ state'[c] = state[c]

Leaves(w, c) ==
    \/ Left(c) => Left(c)'
    \/ submits'[c] = submits[c] /\ submits[c] = 0 /\ (MayRun(w, c) \/ ~ ProviderOf(c, "groq"))

NextPlan(w, c) ==
    Works(w, c)' =>
       /\ job'[w].todo = SubmitPlan => submits'[c] = 0 /\ Left(c)'
       /\ job'[w].todo = GroqPlan => submits'[c] = 0
       /\ Posting(w, c)' => submits'[c] = 0
       /\ job'[w].todo # <<"queued">>

LEMMA GroqRuns ==
    ASSUME TypeInv, LaneInv, NEW v \in Workers, NEW c \in Batches, c \notin resent, Works(v, c),
           Groqs(job[v].todo)
    PROVE  MayRun(v, c) /\ ProviderOf(c, "groq")
<1>1. JobInv(job[v], submits[c])
  BY Working DEF Works
<1>2. /\ job[v].kind \in {"run", "direct"} /\ job[v].st.provider = "groq"
      /\ job[v].todo # <<"rescue">> /\ job[v].todo # <<>>
  <2>1. SubmitPlan \notin {<<"rescue">>, <<>>} /\ GroqPlan \notin {<<"rescue">>, <<>>}
    BY DEF SubmitPlan, GroqPlan
  <2> QED BY <1>1, <2>1 DEF JobInv, CarriesInv, Groqs
<1>3. job[v].kind = "run"
  BY <1>2 DEF LaneInv, LaneAt, Works, Internal
<1> QED BY <1>2, <1>3 DEF MayRun, ProviderOf, Has

LEMMA OnceKept ==
    ASSUME TypeInv, LaneInv, NEW w \in Workers, NEW c \in Batches, c \notin resent, OnceAt(c),
           \A v \in Workers : v # w => Same(v, c),
           RightPasses(w, c), Counted(w, c), Leaves(w, c), NextPlan(w, c)
    PROVE  OnceAt(c)'
<1>1. OneRun(c)'
  BY OneRunKept DEF OnceAt
<1>2. submits[c] \in Nat
  BY DEF TypeInv, CountTyped
<1>3. CASE submits'[c] = submits[c]
  <2>1. submits'[c] <= 1 /\ (submits'[c] > 0 => Left(c)')
    BY <1>2, <1>3 DEF OnceAt, Leaves
  <2>2. ASSUME NEW v \in Workers, v # w, Works(v, c)'
        PROVE  /\ job'[v].todo = SubmitPlan => submits'[c] = 0 /\ Left(c)'
               /\ job'[v].todo = GroqPlan => submits'[c] = 0
               /\ Posting(v, c)' => submits'[c] = 0
               /\ job'[v].todo # <<"queued">>
    <3>1. Works(v, c) /\ job'[v].todo = job[v].todo
      BY <2>2 DEF Same
    <3>2. ASSUME job[v].todo = SubmitPlan PROVE submits'[c] = 0 /\ Left(c)'
      <4>1. submits[c] = 0 /\ Left(c)
        BY <3>1, <3>2 DEF OnceAt
      <4>2. MayRun(v, c) /\ ProviderOf(c, "groq")
        BY <3>1, <3>2, GroqRuns DEF Groqs
      <4>3. ~ MayRun(w, c)
        BY <2>2, <4>2 DEF OnceAt, OneRun
      <4> QED BY <1>3, <4>1, <4>2, <4>3 DEF Leaves
    <3>3. Posting(v, c)' => Posting(v, c)
      BY <2>2, OthersMayRun
    <3> QED BY <1>3, <3>1, <3>2, <3>3 DEF OnceAt
  <2> QED BY <1>1, <2>1, <2>2 DEF OnceAt, NextPlan
<1>4. CASE submits'[c] # submits[c]
  <2>1. /\ Works(w, c) /\ job[w].todo = SubmitPlan /\ MayRun(w, c)
        /\ submits'[c] = submits[c] + 1 /\ state'[c] = state[c]
    BY <1>4 DEF Counted, MayRun
  <2>2. submits[c] = 0 /\ Left(c) /\ submits'[c] <= 1 /\ Left(c)'
    BY <2>1 DEF OnceAt, Left
  <2>3. ASSUME NEW v \in Workers, v # w, Works(v, c)'
        PROVE  ~ Groqs(job'[v].todo) /\ ~ Posting(v, c)' /\ job'[v].todo # <<"queued">>
    <3>1. Works(v, c) /\ job'[v].todo = job[v].todo /\ (Posting(v, c)' => Posting(v, c))
      BY <2>3, OthersMayRun DEF Same
    <3>2. ~ MayRun(v, c)
      BY <2>1, <2>3 DEF OnceAt, OneRun
    <3> QED BY <3>1, <3>2, GroqRuns DEF OnceAt, MayRun
  <2> QED BY <1>1, <2>2, <2>3 DEF OnceAt, NextPlan, Groqs
<1> QED BY <1>3, <1>4

(* Other batches than the step's.                                          *)
LEMMA OnceOthers ==
    ASSUME TypeInv, LaneInv, NEW w \in Workers, NEW c, NEW r, Moves(w, c, r), NEW x \in Batches, x # c,
           x \notin resent, OnceAt(x)
    PROVE  OnceAt(x)'
<1>1. \A v \in Workers : Same(v, x)
  BY OthersSame
<1>2. state'[x] = state[x] /\ submits'[x] = submits[x] /\ \A m \in queue' : RunMessage(m, x) => m \in queue
  BY DEF Moves, RunMessage
<1>3. RightPasses(w, x)
  BY <1>1, <1>2, OthersMayRun DEF RightPasses
<1>4. Counted(w, x) /\ Leaves(w, x)
  BY <1>2 DEF Counted, Leaves, Left
<1>5. NextPlan(w, x)
  <2>1. Posting(w, x)' => Posting(w, x)
    BY <1>1, OthersMayRun
  <2> QED BY <1>1, <1>2, <2>1 DEF NextPlan, Same, OnceAt, Left
<1> QED BY <1>1, <1>3, <1>4, <1>5, OnceKept

(* It remains to look at the batch of the step.                            *)
LEMMA OnceFrom ==
    ASSUME TypeInv, LaneInv, OnceInv, NEW w \in Workers, NEW c, NEW r, Moves(w, c, r),
           c \notin resent' /\ OnceAt(c) => RightPasses(w, c) /\ Counted(w, c) /\ Leaves(w, c) /\ NextPlan(w, c)
    PROVE  OnceInv'
<1>1. ASSUME NEW x \in Batches, x \notin resent' PROVE OnceAt(x)'
  <2>1. OnceAt(x) /\ x \notin resent
    BY <1>1 DEF OnceInv, Moves
  <2>2. CASE x # c
    BY <2>1, <2>2, OnceOthers
  <2>3. CASE x = c
    <3>1. \A v \in Workers : v # w => Same(v, c)
      BY OthersSame
    <3> QED BY <1>1, <2>1, <2>3, <3>1, OnceKept
  <2> QED BY <2>2, <2>3
<1> QED BY <1>1 DEF OnceInv

(* An invocation that has no right to run, and no plan to submit.          *)
Harmless(r) ==
    r.todo # <<>> =>
       r.kind # "run" /\ r.todo \notin QueuedPosts /\ ~ Groqs(r.todo) /\ r.todo # <<"queued">>

LEMMA HarmlessFacts ==
    ASSUME NEW w \in Workers, NEW c, NEW r, Moves(w, c, r), Harmless(r)
    PROVE  ~ MayRun(w, c)' /\ NextPlan(w, c)
<1>1. Works(w, c)' => job'[w] = r /\ r.todo # <<>>
  BY DEF Moves, Becomes, Works, Active
<1>2. ~ MayRun(w, c)' /\ ~ Posting(w, c)'
  BY <1>1 DEF Harmless, MayRun, Posting, Works
<1>3. NextPlan(w, c)
  BY <1>1, <1>2 DEF Harmless, NextPlan, Groqs
<1> QED BY <1>2, <1>3

LEMMA ThrowHarmless ==
    ASSUME TypeInv, NEW w \in Workers, Active(w)
    PROVE  Harmless(AfterThrow(job[w])) /\ Harmless(Gone)
<1>1. /\ job[w].kind \in Kinds /\ job[w].todo \in PlansOf(job[w].kind)
      /\ DOMAIN job[w] = {"kind", "batch", "st", "todo", "tries", "behind"}
  BY Working DEF JobInv
<1> DEFINE q == AfterThrow(job[w])
<1>2. q.todo = <<>> \/ (q.kind = "post" /\ q.todo = <<"rollback">>) \/ (q.kind = "rescue" /\ q.todo = <<"rescue">>)
  BY <1>1 DEF AfterThrow
<1>3. /\ <<"rollback">> \notin QueuedPosts /\ ~ Groqs(<<"rollback">>) /\ <<"rollback">> # <<"queued">>
      /\ <<"rescue">> \notin QueuedPosts /\ ~ Groqs(<<"rescue">>) /\ <<"rescue">> # <<"queued">>
  BY DEF QueuedPosts, Groqs, SubmitPlan, GroqPlan
<1> HIDE DEF q
<1>4. Harmless(q)
  BY <1>2, <1>3 DEF Harmless
<1> QED BY <1>4 DEF q, Harmless, Gone

(* A message that is retried or sent takes the right with it.              *)
LEMMA ThrowPasses ==
    ASSUME TypeInv, NEW w \in Workers, Active(w), NEW c, c = job[w].batch, NEW r, Moves(w, c, r), Harmless(r),
           \/ queue' = queue
           \/ queue' = queue \cup Retried(job[w])
           \/ /\ AtStep(w, {"sendRun", "sendPoll"})
              /\ queue' = queue \cup Sent(w) \cup Retried(job[w])
              /\ job[w].kind # "sweep" \/ ~ AtStep(w, {"sendRun"})
    PROVE  RightPasses(w, c) /\ NextPlan(w, c)
<1> DEFINE n == [kind |-> "run", batch |-> c, tries |-> job[w].tries + 1]
           k == [kind |-> "run", batch |-> c, tries |-> 0]
<1>1. ~ MayRun(w, c)' /\ NextPlan(w, c)
  BY HarmlessFacts
<1>2. \A m \in Retried(job[w]) : RunMessage(m, c) => m = n /\ job[w].kind = "run" /\ MayRun(w, c)
  BY DEF Retried, RunMessage, MayRun, Works
<1>3. PlanFacts(job[w].kind, job[w].todo)
  BY Working
<1>4. ASSUME AtStep(w, {"sendRun", "sendPoll"}), job[w].kind # "sweep" \/ ~ AtStep(w, {"sendRun"})
      PROVE  \A m \in Sent(w) : RunMessage(m, c) => m = k /\ job[w].kind = "post" /\ MayRun(w, c)
  <2>1. ASSUME NEW m \in Sent(w), RunMessage(m, c) PROVE m = k /\ AtStep(w, {"sendRun"})
    BY <2>1 DEF Sent, RunMessage
  <2>2. ASSUME AtStep(w, {"sendRun"}) PROVE job[w].kind = "post" /\ MayRun(w, c)
    <3>1. job[w].kind = "post" /\ job[w].todo = <<"sendRun">>
      BY <1>3, <1>4, <2>2 DEF PlanFacts, AtStep
    <3> QED BY <3>1 DEF MayRun, Posting, Works, QueuedPosts
  <2> QED BY <2>1, <2>2
<1>5. \E x : \A m \in queue' : RunMessage(m, c) => m \in queue \/ (m = x /\ MayRun(w, c))
  <2>1. CASE queue' = queue \/ queue' = queue \cup Retried(job[w])
    BY <1>2, <2>1
  <2>2. CASE /\ AtStep(w, {"sendRun", "sendPoll"})
             /\ queue' = queue \cup Sent(w) \cup Retried(job[w])
             /\ job[w].kind # "sweep" \/ ~ AtStep(w, {"sendRun"})
    <3>1. CASE job[w].kind = "run"
      BY <1>2, <1>4, <2>2, <3>1
    <3>2. CASE job[w].kind # "run"
      BY <1>2, <1>4, <2>2, <3>2
    <3> QED BY <3>1, <3>2
  <2> QED BY <2>1, <2>2
<1> QED BY <1>1, <1>5 DEF RightPasses

LEMMA SameCount ==
    ASSUME NEW w, NEW c, state'[c] = state[c] \/ state'[c] = None, submits'[c] = submits[c]
    PROVE  Counted(w, c) /\ Leaves(w, c)
BY DEF Counted, Leaves, Left

(* Going on passes no right but to a message.                              *)
LEMMA OnwardPasses ==
    ASSUME TypeInv, NEW w \in Workers, Active(w), NEW c, c = job[w].batch,
           NEW r, r = Onward(job[w]), Moves(w, c, r)
    PROVE  /\ MayRun(w, c)' => MayRun(w, c) /\ r.todo # <<>>
           /\ Posting(w, c)' => Posting(w, c)
           /\ Works(w, c)' => job'[w].todo = Tail(job[w].todo)
<1>1. /\ PlanFacts(job[w].kind, job[w].todo)
      /\ DOMAIN job[w] = {"kind", "batch", "st", "todo", "tries", "behind"}
  BY Working DEF JobInv
<1>2. r.todo = Tail(job[w].todo) /\ r.kind = job[w].kind
  BY <1>1 DEF Onward
<1>3. Works(w, c)' => job'[w] = r /\ r.todo # <<>>
  BY DEF Moves, Becomes, Works, Active
<1>4. Posting(w, c)' => Posting(w, c)
  BY <1>1, <1>2, <1>3 DEF Posting, Works, PlanFacts
<1>5. MayRun(w, c)' => MayRun(w, c) /\ r.todo # <<>>
  BY <1>2, <1>3, <1>4 DEF MayRun, Posting, Works
<1> QED BY <1>2, <1>3, <1>4, <1>5

LEMMA EnqueueOnce ==
    ASSUME TypeInv, KnownInv, OnceInv, NEW w \in Workers, Remember(w) \/ Enqueue(w)
    PROVE  OnceInv'
<1> PICK c : c = job[w].batch
  OBVIOUS
<1> PICK r : r = Onward(job[w])
  OBVIOUS
<1>1. Moves(w, c, r) /\ Active(w)
  BY OnwardMoves DEF KnownInv, Remember, Enqueue, AtStep
<1>2. SUFFICES ASSUME c \notin resent', OnceAt(c)
               PROVE  RightPasses(w, c) /\ Counted(w, c) /\ Leaves(w, c) /\ NextPlan(w, c)
  BY <1>1, OnceFrom DEF KnownInv
<1>3. Counted(w, c) /\ Leaves(w, c)
  BY SameCount DEF Remember, Enqueue
<1>4. /\ PlanFacts(job[w].kind, job[w].todo) /\ Head(job[w].todo) \in {"remember", "sendRun", "sendPoll"}
      /\ DOMAIN job[w] = {"kind", "batch", "st", "todo", "tries", "behind"}
  BY <1>1, Working DEF JobInv, Remember, Enqueue, AtStep
<1>5. ~ (job[w].kind = "sweep" /\ Head(job[w].todo) = "sendRun")
  BY <1>1, <1>2 DEF Remember, Enqueue, Resent, AtStep, OnceAt, PlanFacts
<1>6. /\ MayRun(w, c)' => MayRun(w, c) /\ r.todo # <<>>
      /\ Posting(w, c)' => Posting(w, c)
      /\ Works(w, c)' => job'[w].todo = Tail(job[w].todo)
  BY <1>1, OnwardPasses
<1>7. NextPlan(w, c)
  <2>1. GroqPlan # SubmitPlan /\ Head(GroqPlan) = "running"
    BY DEF GroqPlan, SubmitPlan
  <2>2. submits'[c] = submits[c]
    BY DEF Remember, Enqueue
  <2>3. Posting(w, c) => submits[c] = 0
    BY <1>2 DEF OnceAt, Posting
  <2> QED BY <1>4, <1>5, <1>6, <2>1, <2>2, <2>3 DEF NextPlan, PlanFacts
<1>8. RightPasses(w, c)
  <2>1. ASSUME NEW m \in queue', m \notin queue, RunMessage(m, c)
        PROVE  m = [kind |-> "run", batch |-> c, tries |-> 0] /\ MayRun(w, c) /\ ~ MayRun(w, c)'
    <3>1. m \in Sent(w)
      BY <2>1 DEF Remember, Enqueue
    <3>2. AtStep(w, {"sendRun"}) /\ m = [kind |-> "run", batch |-> c, tries |-> 0]
      BY <2>1, <3>1 DEF Sent, RunMessage
    <3>3. job[w].kind = "post" /\ job[w].todo = <<"sendRun">>
      BY <1>4, <1>5, <3>2 DEF PlanFacts, AtStep
    <3>4. r.todo = <<>>
      BY <1>4, <3>3 DEF Onward
    <3> QED BY <1>1, <1>6, <3>2, <3>3, <3>4 DEF MayRun, Posting, Works, QueuedPosts
  <2> QED BY <1>6, <2>1 DEF RightPasses
<1> QED BY <1>3, <1>7, <1>8

(* A save: to be the first to save queued, one has the right to run, or a  *)
(* batch that is not Groq's.                                               *)
LEMMA SaveLeaves ==
    ASSUME TypeInv, KnownInv, NEW w \in Workers, AtStep(w, Statuses), NEW c, c = job[w].batch,
           c \notin resent, OnceAt(c), UNCHANGED submits, NEW ks,
           state'[c] = IF "state" \in ks THEN Saved(w) ELSE state[c]
    PROVE  /\ Counted(w, c) /\ Leaves(w, c)
           /\ Head(job[w].todo) # "queued" /\ "state" \in ks => Left(c)'
<1>1. /\ Active(w) /\ c \in Batches /\ JobInv(job[w], submits[c]) /\ PlanFacts(job[w].kind, job[w].todo)
      /\ Works(w, c) /\ Head(job[w].todo) \in Statuses
  BY Working DEF AtStep, Works
<1>2. Saved(w).status = Head(job[w].todo)
  BY SavedTyped
<1>3. Counted(w, c)
  BY DEF Counted
<1>4. Head(job[w].todo) # "queued" => (Left(c) => Left(c)') /\ ("state" \in ks => Left(c)')
  BY <1>2 DEF Left
<1>5. ASSUME Head(job[w].todo) = "queued"
      PROVE  submits[c] = 0 /\ (MayRun(w, c) \/ ~ ProviderOf(c, "groq"))
  <2>1. job[w].todo # <<"queued">>
    BY <1>1 DEF OnceAt
  <2>2. CASE Internal(job[w].kind, job[w].todo)
    <3>1. job[w].st.provider = "internal" /\ job[w].todo # <<"rescue">>
      <4>1. job[w].todo # <<"rescue">>
        BY <1>5
      <4> QED BY <1>1, <2>2, <4>1 DEF KnownInv, LaneInv, LaneAt, PlanFacts
    <3>2. ProviderOf(c, "internal")
      BY <1>1, <3>1 DEF ProviderOf, Has
    <3> QED BY <1>1, <3>2 DEF KnownInv, AgreeInv, InternalInv
  <2>3. CASE job[w].kind = "post" /\ job[w].todo \in QueuedPosts
    BY <1>1, <2>3 DEF OnceAt, MayRun, Posting
  <2> QED BY <1>1, <1>5, <2>1, <2>2, <2>3 DEF PlanFacts
<1>6. Leaves(w, c)
  BY <1>4, <1>5 DEF Leaves
<1> QED BY <1>3, <1>4, <1>6

LEMMA SaveOnce ==
    ASSUME TypeInv, KnownInv, OnceInv, NEW w \in Workers, Save(w)
    PROVE  OnceInv'
<1> PICK c : c = job[w].batch
  OBVIOUS
<1> PICK r : r = Onward(job[w])
  OBVIOUS
<1>1. AtStep(w, Statuses) /\ Active(w) /\ UNCHANGED <<posted, submits, resent, queue>>
      /\ Put(w, Saved(w), Keys, r) /\ "state" \in Keys
  BY DEF Save, AtStep, Keys
<1>2. Moves(w, c, r) /\ state'[c] = Saved(w)
  BY <1>1, SaveMoves DEF KnownInv
<1>3. SUFFICES ASSUME c \notin resent', OnceAt(c)
               PROVE  RightPasses(w, c) /\ Counted(w, c) /\ Leaves(w, c) /\ NextPlan(w, c)
  BY <1>2, OnceFrom DEF KnownInv
<1>4. Counted(w, c) /\ Leaves(w, c) /\ (Head(job[w].todo) # "queued" => Left(c)')
  BY <1>1, <1>2, <1>3, SaveLeaves
<1>5. /\ MayRun(w, c)' => MayRun(w, c) /\ r.todo # <<>>
      /\ Posting(w, c)' => Posting(w, c)
      /\ Works(w, c)' => job'[w].todo = Tail(job[w].todo)
  BY <1>1, <1>2, OnwardPasses
<1>6. RightPasses(w, c)
  BY <1>1, <1>5 DEF RightPasses
<1>7. PlanFacts(job[w].kind, job[w].todo) /\ Head(job[w].todo) \in Statuses /\ Works(w, c)
  BY <1>1, Working DEF AtStep, Works
<1>8. NextPlan(w, c)
  <2>1. GroqPlan # SubmitPlan /\ Head(GroqPlan) = "running"
    BY DEF GroqPlan, SubmitPlan
  <2>2. Posting(w, c) => submits[c] = 0
    BY <1>3 DEF OnceAt, Posting
  <2>3. job[w].todo = GroqPlan => submits[c] = 0
    BY <1>3, <1>7 DEF OnceAt
  <2>4. Head(job[w].todo) # "sendRun"
    BY <1>7 DEF Statuses
  <2> QED BY <1>1, <1>4, <1>5, <1>7, <2>1, <2>2, <2>3, <2>4 DEF NextPlan, PlanFacts
<1> QED BY <1>4, <1>6, <1>8

LEMMA ThrowOnce ==
    ASSUME TypeInv, KnownInv, OnceInv, NEW w \in Workers,
           Throw(w) \/ SaveThrows(w) \/ EnqueueUnheard(w) \/ Crash(w) \/ Rollback(w)
    PROVE  OnceInv'
<1> PICK c : c = job[w].batch
  OBVIOUS
<1>1. Active(w) /\ Harmless(AfterThrow(job[w])) /\ Harmless(Gone)
  BY ThrowHarmless DEF Throw, SaveThrows, EnqueueUnheard, Crash, Rollback, AtStep
<1>2. UNCHANGED submits
  BY DEF Throw, SaveThrows, EnqueueUnheard, Crash, Rollback
<1>3. PICK r : Moves(w, c, r) /\ Harmless(r) /\ (c \notin resent' /\ OnceAt(c) => Counted(w, c) /\ Leaves(w, c))
  <2>1. CASE Throw(w) \/ EnqueueUnheard(w)
    BY <1>1, <2>1, OnwardMoves, SameCount DEF KnownInv, Throw, EnqueueUnheard
  <2>2. CASE SaveThrows(w)
    <3>1. PICK ks \in SUBSET Keys : Put(w, Saved(w), ks, AfterThrow(job[w]))
      BY <2>2 DEF SaveThrows
    <3>2. /\ AtStep(w, Statuses) /\ UNCHANGED <<posted, submits, resent>>
          /\ queue' = queue \cup Retried(job[w])
      BY <2>2 DEF SaveThrows
    <3>3. /\ Moves(w, c, AfterThrow(job[w]))
          /\ state'[c] = IF "state" \in ks THEN Saved(w) ELSE state[c]
      BY <3>1, <3>2, SaveMoves DEF KnownInv
    <3> QED BY <1>1, <3>2, <3>3, SaveLeaves
  <2>3. CASE Crash(w) \/ Rollback(w)
    <3>1. Moves(w, c, Gone) /\ state'[c] \in {None, state[c]}
      BY <2>3, EndMoves DEF KnownInv
    <3> QED BY <1>1, <1>2, <3>1, SameCount
  <2> QED BY <2>1, <2>2, <2>3
<1>4. SUFFICES ASSUME c \notin resent', OnceAt(c)
               PROVE  RightPasses(w, c) /\ NextPlan(w, c)
  BY <1>3, OnceFrom DEF KnownInv
<1>5. \/ queue' = queue
      \/ queue' = queue \cup Retried(job[w])
      \/ /\ AtStep(w, {"sendRun", "sendPoll"})
         /\ queue' = queue \cup Sent(w) \cup Retried(job[w])
         /\ job[w].kind # "sweep" \/ ~ AtStep(w, {"sendRun"})
  BY <1>4 DEF Throw, SaveThrows, EnqueueUnheard, Crash, Rollback, Resent
<1> QED BY <1>1, <1>3, <1>5, ThrowPasses

LEMMA SubmitOnce ==
    ASSUME TypeInv, KnownInv, OnceInv, NEW w \in Workers, Submit(w) \/ SubmitUnheard(w)
    PROVE  OnceInv'
<1> PICK c : c = job[w].batch
  OBVIOUS
<1>1. PICK r : /\ Moves(w, c, r)
               /\ \/ Submit(w) /\ r.todo = <<"submitted", "sendPoll">>
                  \/ SubmitUnheard(w) /\ (job[w].kind = "run" => r.todo = <<>>)
  BY SubmitMoves
<1>4. SUFFICES ASSUME c \notin resent', OnceAt(c)
               PROVE  RightPasses(w, c) /\ Counted(w, c) /\ Leaves(w, c) /\ NextPlan(w, c)
  BY <1>1, OnceFrom DEF KnownInv
<1>2. /\ job[w].todo = SubmitPlan /\ job[w].kind = "run" /\ Active(w)
  BY <1>4, SubmitMoves DEF Submit, SubmitUnheard, AtStep
<1>3. Works(w, c) /\ MayRun(w, c) /\ c \in Batches
  BY <1>2, Working DEF Works, MayRun
<1>5. state' = state /\ submits'[c] = submits[c] + 1
  BY <1>2, <1>3, <1>4 DEF Submit, SubmitUnheard, Submitted, OnceAt, TypeInv, CountTyped
<1>6. Counted(w, c) /\ Leaves(w, c)
  BY <1>2, <1>3, <1>5 DEF Counted, Leaves, Left
<1>7. Works(w, c)' => job'[w] = r /\ r.todo = <<"submitted", "sendPoll">>
  BY <1>1, <1>2 DEF Moves, Becomes, Works, Active
<1>8. NextPlan(w, c)
  BY <1>7 DEF NextPlan, Posting, QueuedPosts, SubmitPlan, GroqPlan
<1>9. CASE Submit(w)
  BY <1>3, <1>6, <1>8, <1>9 DEF RightPasses, Submit
<1>10. CASE SubmitUnheard(w) /\ r.todo = <<>>
  <2>1. Harmless(r)
    BY <1>10 DEF Harmless
  <2> QED BY <1>1, <1>2, <1>6, <1>10, <2>1, ThrowPasses DEF SubmitUnheard
<1> QED BY <1>1, <1>2, <1>9, <1>10

LEMMA TakeOnce ==
    ASSUME TypeInv, KnownInv, OnceInv, NEW w \in Workers, NEW m \in Message, Take(w, m)
    PROVE  OnceInv'
<1> PICK c : c = m.batch
  OBVIOUS
<1> PICK r : r = TakenAs(m)
  OBVIOUS
<1>1. Moves(w, c, r)
  BY TakeMoves DEF KnownInv
<1>2. SUFFICES ASSUME c \notin resent', OnceAt(c)
               PROVE  RightPasses(w, c) /\ Counted(w, c) /\ Leaves(w, c) /\ NextPlan(w, c)
  BY <1>1, OnceFrom DEF KnownInv
<1>3. UNCHANGED <<state, submits>> /\ ~ Active(w) /\ m \in queue /\ queue' \subseteq queue
  BY DEF Take
<1>4. Counted(w, c) /\ Leaves(w, c)
  BY <1>3, SameCount
<1>5. c \in Batches /\ m.kind \in {"run", "poll"} /\ (state[c] # None => state[c] \in Batch)
  BY DEF Message, TypeInv, StoreTyped, BatchInv
<1>6. Works(w, c)' => job'[w] = r /\ r.todo # <<>>
  BY <1>1 DEF Moves, Becomes, Works, Active
<1>7. CASE m.kind = "poll"
  <2>1. r.kind = "poll" /\ r.todo = PollPlan(state[c])
    BY <1>7 DEF TakenAs, Job
  <2>2. PollPlan(state[c]) \notin QueuedPosts \cup {SubmitPlan, GroqPlan, <<"queued">>}
    BY DEF PollPlan, QueuedPosts, SubmitPlan, GroqPlan
  <2>3. Harmless(r)
    BY <2>1, <2>2 DEF Harmless, Groqs
  <2>4. ~ MayRun(w, c)' /\ NextPlan(w, c)
    BY <1>1, <2>3, HarmlessFacts
  <2> QED BY <1>3, <1>4, <2>4 DEF RightPasses
<1>8. CASE m.kind = "run"
  <2>1. r.kind = "run" /\ r.todo = RunPlan(state[c])
    BY <1>8 DEF TakenAs, Job
  <2>2. m \notin queue' /\ RunMessage(m, c)
    BY <1>2, <1>8 DEF Take, RunMessage
  <2>3. RightPasses(w, c)
    BY <1>3, <2>2 DEF RightPasses
  <2>4. RunPlan(state[c]) # SubmitPlan /\ RunPlan(state[c]) # <<"queued">>
    BY DEF RunPlan, SubmitPlan
  <2>5. ASSUME RunPlan(state[c]) = GroqPlan PROVE submits[c] = 0
    <3>1. state[c] # None /\ state[c].status = "queued"
      BY <2>5 DEF RunPlan, GroqPlan
    <3> QED BY <1>2, <1>5, <3>1 DEF OnceAt, Left, TypeInv, CountTyped
  <2>6. ~ Posting(w, c)'
    BY <1>6, <2>1 DEF Posting, Works
  <2>7. NextPlan(w, c)
    BY <1>3, <1>6, <2>1, <2>4, <2>5, <2>6 DEF NextPlan
  <2> QED BY <1>4, <2>3, <2>7
<1> QED BY <1>5, <1>7, <1>8

(* Steps that leave the queue alone, and load no right.                    *)
LEMMA LoadOnce ==
    ASSUME TypeInv, KnownInv, OnceInv, NEW w \in Workers, NEW c, NEW r, Moves(w, c, r),
           c \notin resent => Harmless(r), UNCHANGED <<state, submits, queue>>
    PROVE  OnceInv'
<1>1. SUFFICES ASSUME c \notin resent', OnceAt(c)
               PROVE  RightPasses(w, c) /\ Counted(w, c) /\ Leaves(w, c) /\ NextPlan(w, c)
  BY OnceFrom DEF KnownInv
<1>2. c \notin resent
  BY <1>1 DEF Moves
<1>3. ~ MayRun(w, c)' /\ NextPlan(w, c)
  BY <1>2, HarmlessFacts
<1>4. RightPasses(w, c)
  BY <1>3 DEF RightPasses
<1> QED BY <1>3, <1>4, SameCount

LEMMA SweepOnce ==
    ASSUME TypeInv, KnownInv, OnceInv, NEW w \in Workers, NEW b \in Batches, SweepStart(w, b)
    PROVE  OnceInv'
<1>1. SweptAs(b).kind = "sweep" /\ SweptAs(b).todo = SweepPlan(state[b])
  BY DEF SweptAs, Job
<1>2. SweepPlan(state[b]) \notin QueuedPosts \cup {<<"queued">>, SubmitPlan, GroqPlan}
  BY DEF SweepPlan, QueuedPosts, SubmitPlan, GroqPlan
<1>3. Harmless(SweptAs(b))
  BY <1>1, <1>2 DEF Harmless, Groqs
<1> QED BY <1>3, SweepMoves, LoadOnce DEF KnownInv, SweepStart

LEMMA ReloadOnce ==
    ASSUME TypeInv, KnownInv, OnceInv, NEW w \in Workers, Direct(w) \/ Rescue(w)
    PROVE  OnceInv'
<1>1. ASSUME job[w].batch \notin resent PROVE Harmless(ReloadedAs(w))
  <2>1. CASE AtStep(w, {"direct"})
    <3> DEFINE s == state[job[w].batch]
    <3>1. ReloadedAs(w).kind = "direct" /\ ReloadedAs(w).todo = RunPlan(s)
      BY <2>1 DEF ReloadedAs, Job
    <3>2. s # None => s \in Batch /\ s.provider = "internal"
      BY <1>1, <2>1, DirectInternal, Working DEF TypeInv, StoreTyped, BatchInv, AtStep
    <3>3. RunPlan(s) # <<>> => ~ Groqs(RunPlan(s))
      BY <3>2, RunPlanFacts
    <3>4. RunPlan(s) \notin QueuedPosts \cup {<<"queued">>}
      BY DEF RunPlan, QueuedPosts
    <3> QED BY <3>1, <3>3, <3>4 DEF Harmless
  <2>2. CASE ~ AtStep(w, {"direct"})
    <3>1. ReloadedAs(w).kind = "rescue" /\ ReloadedAs(w).todo \in {<<>>, <<"failed">>}
      BY <2>2 DEF ReloadedAs, Job
    <3>2. <<"failed">> \notin QueuedPosts \cup {<<"queued">>, SubmitPlan, GroqPlan}
      BY DEF QueuedPosts, SubmitPlan, GroqPlan
    <3> QED BY <3>1, <3>2 DEF Harmless, Groqs
  <2> QED BY <2>1, <2>2
<1> QED BY <1>1, ReloadMoves, LoadOnce DEF KnownInv, Direct, Rescue

LEMMA AskOnce ==
    ASSUME TypeInv, KnownInv, OnceInv, NEW w \in Workers, Ask(w)
    PROVE  OnceInv'
<1>1. PICK r : /\ Moves(w, job[w].batch, r) /\ r.kind = "poll"
               /\ r.todo \in {<<"completed">>, <<"failed">>, <<"sendPoll", "polling">>}
  BY AskMoves DEF KnownInv
<1>2. r.todo \notin QueuedPosts \cup {<<"queued">>, SubmitPlan, GroqPlan}
  BY <1>1 DEF QueuedPosts, SubmitPlan, GroqPlan
<1>3. Harmless(r)
  BY <1>1, <1>2 DEF Harmless, Groqs
<1> QED BY <1>1, <1>3, LoadOnce DEF Ask

(* A post has the right to run its batch.                                  *)
LEMMA PostOnce ==
    ASSUME TypeInv, KnownInv, OnceInv, NEW w \in Workers, NEW b \in Batches, PostStart(w, b)
    PROVE  OnceInv'
<1>1. PICK r : Moves(w, b, r) /\ Posted(b, r)
  BY PostMoves
<1>2. /\ UNCHANGED <<state, submits, queue>> /\ resent \subseteq resent'
      /\ b \notin resent' => UnpostedAt(b)
  BY DEF PostStart, KnownInv, UnpostedInv
<1>3. ASSUME b \notin resent' PROVE OnceAt(b)'
  <2>1. \A v \in Workers : v # w => ~ Works(v, b)'
    BY <1>1, <1>2, <1>3, OthersSame DEF UnpostedAt, Same
  <2>2. OneRun(b)'
    BY <1>2, <1>3, <2>1 DEF OneRun, MayRun, Posting, RunMessage, UnpostedAt
  <2>3. Works(w, b)' => ~ Groqs(job'[w].todo) /\ job'[w].todo # <<"queued">>
    <3>1. Works(w, b)' => job'[w] = r
      BY <1>1 DEF Moves, Becomes, Works, Active
    <3>2. ~ Groqs(r.todo) /\ r.todo # <<"queued">>
      BY <1>1 DEF Posted, PostPlans, Groqs, SubmitPlan, GroqPlan
    <3> QED BY <3>1, <3>2
  <2>4. submits'[b] = 0
    BY <1>2, <1>3 DEF UnpostedAt
  <2> QED BY <2>1, <2>2, <2>3, <2>4 DEF OnceAt, Groqs
<1>4. ASSUME NEW x \in Batches, x # b, x \notin resent' PROVE OnceAt(x)'
  BY <1>1, <1>2, <1>4, OnceOthers DEF KnownInv, OnceInv
<1> QED BY <1>3, <1>4 DEF OnceInv

LEMMA AroundOnce ==
    ASSUME TypeInv, OnceInv, Around
    PROVE  OnceInv'
<1>1. /\ UNCHANGED <<job, submits, queue, resent>>
      /\ \A x \in Batches : Left(x) => Left(x)'
  BY AroundSame DEF SameBut, Left
<1>2. ASSUME NEW x \in Batches, OnceAt(x) PROVE OnceAt(x)'
  <2>1. OneRun(x)'
    BY <1>1, <1>2 DEF OnceAt, OneRun, MayRun, Posting, Works, Active
  <2> QED BY <1>1, <1>2, <2>1 DEF OnceAt, Posting, Works, Active
<1> QED BY <1>1, <1>2 DEF OnceInv

LEMMA NextOnce == TypeInv /\ KnownInv /\ OnceInv /\ [Next]_vars => OnceInv'
BY SaveOnce, EnqueueOnce, ThrowOnce, SubmitOnce, TakeOnce, SweepOnce, ReloadOnce, AskOnce, PostOnce,
   AroundOnce
   DEF Next, Step, Around

-----------------------------------------------------------------------------
(* Forward.                                                                *)

Goes(c, r) ==
    r.todo # <<>> /\ ~ r.behind /\ state'[c] # None /\ ~ (r.kind = "post" /\ c \in resent') =>
       IF r.kind = "sweep" THEN ~ Finished(state'[c]) ELSE Rank(state'[c]) <= Ceiling(r.todo)

Marks(w) ==
    \A v \in Workers : v # w /\ Active(v) =>
       job'[v].behind \/ state'[job[v].batch] = state[job[v].batch]

LEMMA RankTyped == \A s : s \in Batch => Rank(s) \in 1..5
BY DEF Batch, Rank, Statuses, Ended

LEMMA PutMarks ==
    ASSUME TypeInv, NEW w \in Workers, Active(w), NEW s, NEW ks, NEW r, Put(w, s, ks, r)
    PROVE  Marks(w)
<1>1. ASSUME NEW v \in Workers, v # w, Active(v)
      PROVE  job'[v].behind \/ state'[job[v].batch] = state[job[v].batch]
  <2>1. /\ [job[v] EXCEPT !.behind = TRUE].behind = TRUE /\ job[v].batch \in Batches
    BY <1>1, Working DEF JobInv
  <2>2. \/ job'[v] = [job[v] EXCEPT !.behind = TRUE]
        \/ job[v].batch # job[w].batch \/ "state" \notin ks
    BY <1>1 DEF Put
  <2>3. job[v].batch # job[w].batch \/ "state" \notin ks => state'[job[v].batch] = state[job[v].batch]
    BY <2>1, Working DEF Put, TypeInv, StoreTyped
  <2> QED BY <2>1, <2>2, <2>3
<1> QED BY <1>1 DEF Marks

LEMMA ForwardFrom ==
    ASSUME TypeInv, ForwardInv, NEW w \in Workers, NEW c, NEW r, Moves(w, c, r), Marks(w), Goes(c, r)
    PROVE  ForwardInv'
<1>1. ASSUME NEW v \in Workers, v # w, Active(v)', ~ job'[v].behind
      PROVE  Active(v) /\ job'[v] = job[v] /\ state'[job[v].batch] = state[job[v].batch]
  <2>1. CASE job'[v] = job[v]
    BY <1>1, <2>1 DEF Active, Marks
  <2>2. CASE job'[v] # job[v]
    <3>1. Active(v) /\ job'[v] = [job[v] EXCEPT !.behind = TRUE]
      BY <1>1, <2>2 DEF Moves, Becomes
    <3>2. job'[v].behind = TRUE
      BY <3>1, Working DEF JobInv
    <3> QED BY <1>1, <3>2
  <2> QED BY <2>1, <2>2
<1>2. Active(w)' => job'[w] = r /\ r.todo # <<>> /\ r.batch = c
  BY DEF Moves, Becomes, Active
<1>0. resent \subseteq resent'
  BY DEF Moves
<1>3. ASSUME NEW v \in Workers, Active(v)', ~ job'[v].behind, state'[job'[v].batch] # None,
             ~ (job'[v].kind = "post" /\ job'[v].batch \in resent')
      PROVE  IF job'[v].kind = "sweep" THEN ~ Finished(state'[job'[v].batch])
             ELSE Rank(state'[job'[v].batch]) <= Ceiling(job'[v].todo)
  <2>1. CASE v # w
    BY <1>0, <1>1, <1>3, <2>1 DEF ForwardInv
  <2>2. CASE v = w
    BY <1>2, <1>3, <2>2 DEF Goes
  <2> QED BY <2>1, <2>2
<1> QED BY <1>3 DEF ForwardInv

(* What a failure leaves to do saves nothing before the end.               *)
LEMMA ThrowGoes ==
    ASSUME TypeInv, TypeInv', NEW w \in Workers, Active(w), NEW c \in Batches
    PROVE  Goes(c, AfterThrow(job[w])) /\ Goes(c, Gone)
<1>1. /\ job[w].kind \in Kinds /\ job[w].todo \in PlansOf(job[w].kind)
      /\ DOMAIN job[w] = {"kind", "batch", "st", "todo", "tries", "behind"}
  BY Working DEF JobInv
<1> DEFINE q == AfterThrow(job[w])
<1>2. q.todo = <<>> \/ (q.kind = "post" /\ q.todo = <<"rollback">>) \/ (q.kind = "rescue" /\ q.todo = <<"rescue">>)
  BY <1>1 DEF AfterThrow
<1>3. Ceiling(<<"rollback">>) = 5 /\ Ceiling(<<"rescue">>) = 5
  BY DEF Ceiling
<1>4. state'[c] # None => Rank(state'[c]) \in 1..5
  BY RankTyped DEF TypeInv, StoreTyped, BatchInv
<1> HIDE DEF q
<1>5. Goes(c, q)
  BY <1>2, <1>3, <1>4 DEF Goes
<1> QED BY <1>5 DEF q, Goes, Gone

LEMMA SaveForward ==
    ASSUME TypeInv, TypeInv', KnownInv, ForwardInv, NEW w \in Workers, Save(w) \/ SaveThrows(w)
    PROVE  ForwardInv'
<1> PICK c : c = job[w].batch
  OBVIOUS
<1>1. PICK ks \in SUBSET Keys, r \in {Onward(job[w]), AfterThrow(job[w])} :
         Put(w, Saved(w), ks, r) /\ (r = AfterThrow(job[w]) \/ (r = Onward(job[w]) /\ "state" \in ks))
  BY DEF Save, SaveThrows, Keys
<1>2. /\ AtStep(w, Statuses) /\ UNCHANGED <<posted, submits, resent>>
      /\ queue' = queue \/ queue' = queue \cup Retried(job[w])
  BY DEF Save, SaveThrows
<1>3. Active(w) /\ c \in Batches /\ PlanFacts(job[w].kind, job[w].todo)
      /\ DOMAIN job[w] = {"kind", "batch", "st", "todo", "tries", "behind"}
  BY <1>2, Working DEF AtStep, JobInv
<1>4. /\ Moves(w, c, r)
      /\ state'[c] = IF "state" \in ks THEN Saved(w) ELSE state[c]
  BY <1>1, <1>2, SaveMoves DEF KnownInv
<1>5. Marks(w)
  BY <1>1, <1>3, PutMarks
<1>6. Goes(c, r)
  <2>1. CASE r = AfterThrow(job[w])
    BY <1>3, <2>1, ThrowGoes
  <2>2. CASE r = Onward(job[w]) /\ "state" \in ks
    <3>1. r.todo = Tail(job[w].todo) /\ r.kind = job[w].kind
      BY <1>3, <2>2 DEF Onward
    <3>2. /\ state'[c] = Saved(w) /\ Saved(w).status = Head(job[w].todo) /\ Head(job[w].todo) \in Statuses
          /\ Rank(Saved(w)) = Rank([status |-> Head(job[w].todo)])
      BY <1>2, <1>4, <2>2, SavedTyped DEF AtStep
    <3>3. /\ job[w].kind = "sweep" /\ r.todo # <<>> => Head(job[w].todo) \notin Ended
          /\ job[w].kind # "sweep" /\ r.todo # <<>> =>
                Rank([status |-> Head(job[w].todo)]) <= Ceiling(r.todo)
      BY <1>3, <3>1, <3>2 DEF PlanFacts
    <3>4. CASE job[w].kind = "sweep"
      BY <3>1, <3>2, <3>3, <3>4 DEF Goes, Finished
    <3>5. CASE job[w].kind # "sweep"
      <4>1. r.todo # <<>> => Rank(state'[c]) <= Ceiling(r.todo)
        BY <3>2, <3>3, <3>5
      <4> QED BY <3>1, <3>5, <4>1 DEF Goes
    <3> QED BY <3>4, <3>5
  <2> QED BY <1>1, <2>1, <2>2
<1> QED BY <1>4, <1>5, <1>6, ForwardFrom

(* Most steps store nothing.                                               *)
LEMMA StillForward ==
    ASSUME TypeInv, ForwardInv, NEW w \in Workers, NEW c, NEW r, Moves(w, c, r), UNCHANGED state,
           Goes(c, r)
    PROVE  ForwardInv'
<1>1. Marks(w)
  BY DEF Marks
<1> QED BY <1>1, ForwardFrom

(* A worker that goes on to do what it had ahead of it.                    *)
LEMMA OnwardGoes ==
    ASSUME TypeInv, ForwardInv, NEW w \in Workers, Active(w), NEW r, UNCHANGED state,
           resent \subseteq resent',
           r.todo # <<>> => r.kind = job[w].kind /\ r.behind = job[w].behind,
           r.todo # <<>> => job[w].kind = "sweep" \/ Ceiling(job[w].todo) <= Ceiling(r.todo),
           r.todo # <<>> => Ceiling(r.todo) \in 1..5
    PROVE  Goes(job[w].batch, r)
<1>1. job[w].batch \in Batches /\ Ceiling(job[w].todo) \in 1..5
  BY Working DEF PlanFacts
<1>2. state[job[w].batch] # None => Rank(state[job[w].batch]) \in 1..5
  BY <1>1, RankTyped DEF TypeInv, StoreTyped, BatchInv
<1> QED BY <1>1, <1>2 DEF Goes, ForwardInv

LEMMA OnwardForward ==
    ASSUME TypeInv, KnownInv, ForwardInv, NEW w \in Workers,
           NEW r, \/ (Remember(w) \/ Enqueue(w)) /\ r = Onward(job[w])
                  \/ Submit(w) /\ r = [Onward(job[w]) EXCEPT !.st.ext = TRUE]
    PROVE  ForwardInv'
<1>1. Moves(w, job[w].batch, r) /\ Active(w) /\ UNCHANGED state /\ resent \subseteq resent'
  BY OnwardMoves, SubmitMoves DEF Moves, Remember, Enqueue, Submit, AtStep
<1>2. /\ PlanFacts(job[w].kind, job[w].todo) /\ job[w].kind \in Kinds
      /\ DOMAIN job[w] = {"kind", "batch", "st", "todo", "tries", "behind"}
  BY <1>1, Working DEF JobInv
<1>3. r.kind = job[w].kind /\ r.behind = job[w].behind /\ r.todo = Tail(job[w].todo)
  BY <1>2 DEF Onward
<1>4. r.todo # <<>> => (job[w].kind = "sweep" \/ Ceiling(job[w].todo) <= Ceiling(r.todo)) /\ Ceiling(r.todo) \in 1..5
  <2>1. r.todo # <<>> => PlanFacts(job[w].kind, r.todo)
    <3>1. r.todo # <<>> => r.todo \in PlansOf(job[w].kind)
      BY <1>2, <1>3 DEF PlanFacts
    <3> QED BY <1>2, <3>1, PlanMoves
  <2> QED BY <1>2, <1>3, <2>1 DEF PlanFacts
<1> QED BY <1>1, <1>3, <1>4, OnwardGoes, StillForward

LEMMA ThrowForward ==
    ASSUME TypeInv, TypeInv', KnownInv, ForwardInv, NEW w \in Workers,
           Throw(w) \/ EnqueueUnheard(w) \/ SubmitUnheard(w) \/ Crash(w)
    PROVE  ForwardInv'
<1>1. Active(w) /\ job[w].batch \in Batches /\ UNCHANGED state
  BY Working DEF Throw, EnqueueUnheard, SubmitUnheard, Crash, AtStep
<1>2. Moves(w, job[w].batch, AfterThrow(job[w])) \/ Moves(w, job[w].batch, Gone)
  BY OnwardMoves, SubmitMoves, EndMoves DEF KnownInv
<1> QED BY <1>1, <1>2, ThrowGoes, StillForward

LEMMA RollbackForward ==
    ASSUME TypeInv, TypeInv', KnownInv, ForwardInv, NEW w \in Workers, Rollback(w)
    PROVE  ForwardInv'
<1>1. Active(w) /\ job[w].batch \in Batches /\ Moves(w, job[w].batch, Gone)
  BY Working, EndMoves DEF KnownInv, Rollback, AtStep
<1>2. Marks(w)
  <2>1. ASSUME NEW v \in Workers, v # w, Active(v), state'[job[v].batch] # state[job[v].batch]
        PROVE  job'[v].behind
    <3>1. job[v].batch \in Batches /\ [job[v] EXCEPT !.behind = TRUE].behind = TRUE
      BY <2>1, Working DEF JobInv
    <3>2. job'[v] = [job[v] EXCEPT !.behind = TRUE]
      BY <2>1, <3>1, <1>1 DEF Rollback, TypeInv, StoreTyped
    <3> QED BY <3>1, <3>2
  <2> QED BY <2>1 DEF Marks
<1> QED BY <1>1, <1>2, ThrowGoes, ForwardFrom

LEMMA LoadForward ==
    ASSUME TypeInv, KnownInv, ForwardInv, NEW w \in Workers,
           \/ \E m \in Message : Take(w, m)
           \/ \E b \in Batches : SweepStart(w, b)
           \/ Direct(w) \/ Rescue(w)
    PROVE  ForwardInv'
<1>1. \A b \in Batches : state[b] # None => state[b] \in Batch /\ Rank(state[b]) \in 1..5
  BY RankTyped DEF TypeInv, StoreTyped, BatchInv
<1>2. UNCHANGED state
  BY DEF Take, SweepStart, Direct, Rescue
<1>3. ASSUME NEW b \in Batches, NEW r, r.kind # "sweep",
             r.todo \in {RunPlan(state[b]), PollPlan(state[b]), <<>>, <<"failed">>}
      PROVE  Goes(b, r)
  <2>1. Ceiling(<<"failed">>) = 5
    BY DEF Ceiling
  <2>2. CASE r.todo \in {RunPlan(state[b]), PollPlan(state[b])}
    BY <1>1, <1>2, <1>3, <2>2, RunPlanFacts, PollPlanFacts DEF Goes
  <2>3. CASE r.todo \in {<<>>, <<"failed">>}
    BY <1>1, <1>2, <1>3, <2>1, <2>3 DEF Goes
  <2> QED BY <1>3, <2>2, <2>3
<1>4. ASSUME NEW m \in Message, Take(w, m) PROVE ForwardInv'
  <2>1. m.batch \in Batches
    BY DEF Message
  <2>2. TakenAs(m).kind # "sweep" /\ TakenAs(m).todo \in {RunPlan(state[m.batch]), PollPlan(state[m.batch])}
    BY DEF TakenAs, Job
  <2>3. Goes(m.batch, TakenAs(m))
    BY <1>3, <2>1, <2>2
  <2> QED BY <1>2, <1>4, <2>3, TakeMoves, StillForward DEF KnownInv
<1>5. ASSUME NEW b \in Batches, SweepStart(w, b) PROVE ForwardInv'
  <2>1. SweptAs(b).kind = "sweep" /\ ~ Finished(state[b])
    BY <1>5 DEF SweptAs, Job, SweepStart
  <2>2. Goes(b, SweptAs(b))
    BY <1>2, <2>1 DEF Goes
  <2> QED BY <1>2, <1>5, <2>2, SweepMoves, StillForward DEF KnownInv
<1>6. ASSUME Direct(w) \/ Rescue(w) PROVE ForwardInv'
  <2>1. job[w].batch \in Batches
    BY <1>6, Working DEF Direct, Rescue, AtStep
  <2>2. /\ ReloadedAs(w).kind # "sweep"
        /\ ReloadedAs(w).todo \in {RunPlan(state[job[w].batch]), <<>>, <<"failed">>}
    BY DEF ReloadedAs, Job
  <2>3. Goes(job[w].batch, ReloadedAs(w))
    BY <1>3, <2>1, <2>2
  <2> QED BY <1>2, <1>6, <2>3, ReloadMoves, StillForward DEF KnownInv
<1> QED BY <1>4, <1>5, <1>6

LEMMA AskForward ==
    ASSUME TypeInv, KnownInv, ForwardInv, NEW w \in Workers, Ask(w)
    PROVE  ForwardInv'
<1>1. /\ job[w].todo = <<"ask">> /\ job[w].kind = "poll" /\ Active(w) /\ UNCHANGED <<state, resent>>
  BY AskMoves DEF KnownInv, Ask, AtStep
<1>2. PICK r : /\ Moves(w, job[w].batch, r)
               /\ r.todo \in {<<"completed">>, <<"failed">>, <<"sendPoll", "polling">>}
               /\ r.kind = "poll" /\ r.behind = job[w].behind
  BY AskMoves DEF KnownInv
<1>3. Ceiling(<<"ask">>) = 4
  BY DEF Ceiling
<1>4. Ceiling(r.todo) \in {4, 5}
  BY <1>2 DEF Ceiling
<1> QED BY <1>1, <1>2, <1>3, <1>4, OnwardGoes, StillForward

LEMMA PostForward ==
    ASSUME TypeInv, KnownInv, ForwardInv, NEW w \in Workers, NEW b \in Batches, PostStart(w, b)
    PROVE  ForwardInv'
<1>1. UNCHANGED state /\ (b \notin resent' => state[b] = None)
  BY DEF PostStart, KnownInv, UnpostedInv, UnpostedAt
<1>2. PICK r : Moves(w, b, r) /\ Posted(b, r)
  BY PostMoves
<1>3. Goes(b, r)
  BY <1>1, <1>2 DEF Goes, Posted
<1> QED BY <1>1, <1>2, <1>3, StillForward

LEMMA AroundForward ==
    ASSUME TypeInv, ForwardInv, Around
    PROVE  ForwardInv'
<1>1. \A x \in Batches : state'[x] # None =>
         state[x] # None /\ Rank(state'[x]) = Rank(state[x]) /\ (Finished(state'[x]) <=> Finished(state[x]))
  BY AroundSame DEF SameBut, Rank, Finished
<1>2. \A w \in Workers : Active(w) => job[w].batch \in Batches
  BY Working
<1> QED BY <1>1, <1>2, AroundSame DEF ForwardInv, Active

LEMMA NextForward == TypeInv /\ TypeInv' /\ KnownInv /\ ForwardInv /\ [Next]_vars => ForwardInv'
BY SaveForward, OnwardForward, ThrowForward, RollbackForward, LoadForward, AskForward, PostForward,
   AroundForward
   DEF Next, Step, Around

(* Only a save puts a batch back.                                          *)
Back(b) ==
    \E w \in Workers :
       /\ Active(w) /\ job[w].batch = b
       /\ \/ job[w].behind
          \/ job[w].kind = "sweep" /\ ~ Finished(state[b])
          \/ job[w].kind = "post" /\ b \in resent

LEMMA SaveBack ==
    ASSUME TypeInv, ForwardInv, NEW w \in Workers, Save(w) \/ SaveThrows(w), NEW b \in Batches,
           state[b] # None, state'[b] # state[b], Rank(state'[b]) < Rank(state[b])
    PROVE  Back(b)
<1>1. AtStep(w, Statuses) /\ Active(w) /\ job[w].batch \in Batches /\ PlanFacts(job[w].kind, job[w].todo)
  BY Working DEF Save, SaveThrows, AtStep
<1>2. b = job[w].batch /\ state'[b] = Saved(w)
  <2>1. PICK ks, r : Put(w, Saved(w), ks, r)
    BY DEF Save, SaveThrows
  <2> QED BY <1>1, <2>1 DEF Put, TypeInv, StoreTyped
<1>3. Rank(state'[b]) = Rank([status |-> Head(job[w].todo)]) /\ Head(job[w].todo) \in Statuses
  BY <1>1, <1>2, SavedTyped DEF AtStep
<1>4. Rank(state[b]) \in 1..5 /\ Ceiling(job[w].todo) \in 1..5 /\ Rank(state'[b]) \in 1..5
  <2>1. Saved(w) \in Batch
    BY <1>1, SavedTyped DEF BatchInv
  <2>2. Ceiling(job[w].todo) \in 1..5
    BY <1>1 DEF PlanFacts
  <2> QED BY <1>2, <2>1, <2>2, RankTyped DEF TypeInv, StoreTyped, BatchInv
<1>5. CASE job[w].kind = "sweep"
  BY <1>1, <1>2, <1>5 DEF ForwardInv, Back
<1>6. CASE job[w].kind # "sweep"
  <2>1. Ceiling(job[w].todo) <= Rank(state'[b])
    BY <1>1, <1>3, <1>6 DEF PlanFacts
  <2>2. job[w].behind \/ (job[w].kind = "post" /\ b \in resent)
    BY <1>1, <1>2, <1>4, <1>6, <2>1 DEF ForwardInv
  <2> QED BY <1>1, <1>2, <2>2 DEF Back
<1> QED BY <1>5, <1>6

LEMMA NextBack ==
    ASSUME TypeInv, ForwardInv, [Next]_vars, NEW b \in Batches,
           state[b] # None, state'[b] # None, state'[b] # state[b], Rank(state'[b]) < Rank(state[b])
    PROVE  Back(b)
<1>1. Rank(state[b]) \in 1..5
  BY RankTyped DEF TypeInv, StoreTyped, BatchInv
<1>2. ~ Around
  <2>1. ASSUME Around PROVE FALSE
    <3>1. Rank(state'[b]) = Rank(state[b])
      BY <2>1, AroundSame DEF SameBut, Rank
    <3> QED BY <1>1, <3>1
  <2> QED BY <2>1
<1>3. ASSUME NEW w \in Workers, Rollback(w) PROVE FALSE
  <2>1. job[w].batch \in Batches
    BY <1>3, Working DEF Rollback, AtStep
  <2> QED BY <1>3, <2>1 DEF Rollback, TypeInv, StoreTyped
<1>4. PICK w \in Workers : Save(w) \/ SaveThrows(w)
  BY <1>2, <1>3
     DEF Next, Step, Around, Remember, Enqueue, Direct, Submit, Ask, Rescue, Throw, EnqueueUnheard,
         SubmitUnheard, Crash, Take, PostStart, SweepStart
<1> QED BY <1>4, SaveBack

-----------------------------------------------------------------------------
(* The theorems.                                                           *)

Inv == TypeInv /\ KnownInv /\ OnceInv /\ ForwardInv

(* The inductive invariant.                                                *)
LEMMA InitInv == Init => Inv
<1> SUFFICES ASSUME Init PROVE Inv
  OBVIOUS
<1>1. \A w \in Workers : ~ Active(w)
  BY DEF Init, Active
<1>2. TypeInv
  BY <1>1, Constants DEF Init, TypeInv, StoreTyped, CountTyped, JobsTyped, RestTyped
<1>3. KnownInv
  BY <1>1 DEF Init, KnownInv, AgreeInv, LaneInv, InternalInv, UnpostedInv, UnpostedAt, ProviderOf, Has, Works
<1>4. OnceInv
  BY <1>1 DEF Init, OnceInv, OnceAt, OneRun, MayRun, Posting, Works, Left
<1>5. ForwardInv
  BY <1>1 DEF ForwardInv
<1> QED BY <1>2, <1>3, <1>4, <1>5 DEF Inv

LEMMA NextInv == Inv /\ [Next]_vars => Inv'
BY NextTypes, NextKnown, NextOnce, NextForward DEF Inv, KnownInv

LEMMA AlwaysInv == Spec => []Inv
<1>1. Init => Inv
  BY InitInv
<1>2. Inv /\ [Next]_vars => Inv'
  BY NextInv
<1> QED BY <1>1, <1>2, PTL DEF Spec

(* Every variable keeps its shape, and an external id is only ever found   *)
(* in a batch of Groq's that was submitted: through every step that saves, *)
(* loads, polls, retries, rolls back or is cut off.                        *)
THEOREM TypeCorrect == Spec => []TypeOK
<1>1. Inv => TypeOK
  BY TypesOfTypeInv DEF Inv
<1> QED BY <1>1, AlwaysInv, PTL

(* submitGroqBatch runs at most once for a batch whose id was posted once  *)
(* and whose run message neither the sweep nor the queue sent a second     *)
(* time, with any number of invocations, retries, lost answers and saves   *)
(* that fail half-way.                                                     *)
THEOREM PaidOnce == Spec => []SubmittedOnce
<1>1. Inv => SubmittedOnce
  BY DEF Inv, TypeInv, CountTyped, OnceInv, OnceAt, SubmittedOnce
<1> QED BY <1>1, AlwaysInv, PTL

(* A batch goes back only by a sweep that found it unfinished, by a post   *)
(* of an id that was posted again, or by an invocation that others have    *)
(* saved the batch after it loaded it.                                     *)
THEOREM Forward == Spec => MovesForward
<1> DEFINE A == \A b \in Batches :
          LET s == state[b]
              t == state'[b]
          IN  s # None /\ t # None /\ t # s /\ Rank(t) < Rank(s) =>
                 \E w \in Workers :
                    /\ Active(w) /\ job[w].batch = b
                    /\ \/ job[w].behind
                       \/ job[w].kind = "sweep" /\ ~ Finished(s)
                       \/ job[w].kind = "post" /\ b \in resent
<1>1. Inv /\ [Next]_vars => [A]_vars
  BY NextBack DEF Inv, Back
<1>2. Spec => [][A]_vars
  BY <1>1, AlwaysInv, PTL DEF Spec
<1> QED BY <1>2 DEF MovesForward

=============================================================================
