---------------------------- MODULE TelegramState ----------------------------
(***************************************************************************)
(* The Durable Object that keeps the Telegram state: for every channel its *)
(* newest messages.  Two kinds of jobs write it.  A scrape reads the       *)
(* public pages of some channels; an apply takes a batch of the collector. *)
(* Both load the state, wait for other services, load it again, put their  *)
(* channels over what they found, wait again, and save the whole of it.    *)
(*                                                                         *)
(* The state is saved twice: in the object's own storage while it is small *)
(* enough, and in KV.  A load takes the object's copy, or else KV's, which *)
(* it then copies into the object.  What the object has recorded as seen   *)
(* is never scraped again.                                                 *)
(*                                                                         *)
(* A message is a number, larger when it is newer.  A channel's state is a *)
(* set, sorted by time in the code.                                        *)
(***************************************************************************)
EXTENDS Integers, FiniteSets

CONSTANTS
    Channels,
    Configured,  \* the channels the collector reads
    Messages,    \* a set of integers
    Home,        \* the channel of each message
    None,        \* no copy
    Jobs,        \* bound: scrapes and applies in flight
    Keep,        \* messages kept per channel
    PageSize,    \* messages on a channel's public page
    LocalMax,    \* messages that fit the object's own copy
    MaxBatches,  \* bound: batches the collector delivers
    MaxFaults    \* bound: failures and restarts

ASSUME TelegramAssumption ==
    /\ Configured \subseteq Channels
    /\ Messages \subseteq Int
    /\ Home \in [Messages -> Channels]
    /\ {Keep, PageSize} \subseteq Nat \ {0}
    /\ None \notin [Channels -> SUBSET Messages]
    /\ {LocalMax, MaxBatches, MaxFaults} \subseteq Nat

VARIABLES
    posted,     \* the messages Telegram has
    local,      \* the copy in the object's storage
    kv,         \* the copy in KV
    seen,       \* the table seen_messages
    mtproto,    \* the channels left to the collector
    isRunning,
    job,        \* what each job is doing
    batches,
    faults,
    known,      \* history: everything that was ever recorded as seen
    lossy       \* history: a job wrote over, or dropped, work of another

vars == <<posted, local, kv, seen, mtproto, isRunning, job, batches, faults, known, lossy>>

In(c) == {m \in Messages : Home[m] = c}

Newest(S, n) == {m \in S : Cardinality({k \in S : k > m}) < n}

Page(c) == Newest(posted \cap In(c), PageSize)

Contents == [Channels -> SUBSET Messages]

Prior(s) == IF s = None THEN [c \in Channels |-> {}] ELSE s

(* What a load returns and readers see, of an own copy and one in KV.      *)
Shown(l, k) == Prior(IF l = None THEN k ELSE l)

Fits(s) == Cardinality(UNION {s[c] : c \in Channels}) <= LocalMax

(* The channels whose shown messages this step changes.                    *)
Moved == {c \in Channels : Shown(local', kv')[c] # Shown(local, kv)[c]}

(* A job: the channels it works on, the messages it adds, the state it     *)
(* loaded first, and the state it will save.  The last two fields are      *)
(* history: the channels others moved since its first load and since its   *)
(* last load.                                                              *)
Idle == [kind |-> "none", pc |-> "idle", scope |-> {}, news |-> {},
         prev |-> None, out |-> None, missed |-> {}, late |-> {}]

Active(j) == job[j].pc # "idle"

At(j, pcs) == job[j].pc \in pcs

(* Job j becomes r, and nothing is saved.                                  *)
Turn(j, r) == job' = [job EXCEPT ![j] = r]

(* Job j becomes r, and the others have missed what it moved.              *)
Saving(j, r) ==
    job' = [k \in Jobs |->
              IF k = j THEN r
              ELSE IF Active(k) THEN [job[k] EXCEPT !.missed = @ \cup Moved, !.late = @ \cup Moved]
              ELSE Idle]

(* j has deleted the own copy, and its state is on the way to KV.          *)
Between(j) == At(j, {"mirror"}) /\ ~ Fits(job[j].out)

(* An own copy put now will hide another job's state.                      *)
Hides(j) == \E k \in Jobs \ {j} : Between(k)

(* j saves something that does not have what others saved before it.       *)
Overwrites(j) == job[j].missed \cap job[j].scope # {} \/ job[j].late # {}

(* To stop now loses what j has recorded as seen, or has deleted.          *)
LosesWork(j) == Between(j) \/ (At(j, {"last", "save"}) /\ job[j].news # {})

Fault == faults < MaxFaults /\ faults' = faults + 1

-----------------------------------------------------------------------------
Init ==
    /\ posted = {}
    /\ local = None
    /\ kv = None
    /\ seen = {}
    /\ mtproto = {}
    /\ isRunning = FALSE
    /\ job = [j \in Jobs |-> Idle]
    /\ batches = 0
    /\ faults = 0
    /\ known = {}
    /\ lossy = FALSE

-----------------------------------------------------------------------------
(* Loads.                                                                  *)

(* Mutants of Merged: the first load is put under the job's channels       *)
(* instead of the last; the channels are put together without the limit.   *)
MergedOverFirst(r, latest) ==
    [c \in Channels |->
       IF c \in r.scope THEN Newest((r.news \cap In(c)) \cup Prior(r.prev)[c], Keep)
                        ELSE Prior(r.prev)[c]]

MergedUnbounded(r, latest) ==
    LET seed == Prior(IF latest # None THEN latest ELSE r.prev)
    IN  [c \in Channels |->
           IF c \in r.scope THEN (r.news \cap In(c)) \cup Prior(r.prev)[c] ELSE seed[c]]

(* mergeLatestChannelStates: the channels of job r, as its first load and  *)
(* its own messages make them, over its last load.                         *)
Merged(r, latest) ==
    LET seed == Prior(IF latest # None THEN latest ELSE r.prev)
    IN  [c \in Channels |->
           IF c \in r.scope THEN Newest((r.news \cap In(c)) \cup Prior(r.prev)[c], Keep)
                            ELSE seed[c]]

(* Job r goes on with the state v, which may be None.                      *)
Loaded(r, v) ==
    CASE r.kind = "look" -> Idle
      [] r.kind = "scrape" /\ r.pc = "first" -> [r EXCEPT !.prev = v, !.pc = "select"]
      [] r.kind = "apply" /\ r.pc = "first" -> [r EXCEPT !.prev = v, !.pc = "record"]
      [] r.pc = "last" -> [r EXCEPT !.prev = None, !.out = Merged(r, v), !.pc = "save"]

(* loadPreviousState: j, being r, loads for the first or the last time.    *)
(* The own copy is there at once; the one in KV is read, and its answer is *)
(* on the way, or the read fails and there is no state.                    *)
Load(j, r) ==
    LET missed == IF r.pc = "first" THEN {} ELSE r.missed
        fresh == [r EXCEPT !.missed = missed, !.late = {}]
        all == IF r.pc = "first" THEN Channels ELSE r.missed
    IN  \/ /\ local # None
           /\ Turn(j, Loaded(fresh, local))
           /\ UNCHANGED faults
        \/ /\ local = None
           /\ Turn(j, IF r.pc = "first" THEN [fresh EXCEPT !.prev = kv] ELSE [fresh EXCEPT !.out = kv])
           /\ UNCHANGED faults
        \/ /\ local = None
           /\ Fault
           /\ Turn(j, Loaded([r EXCEPT !.missed = all, !.late = all], None))

(* KV's answer arrives, and is copied into the object if it is small.      *)
KvAnswers(j) ==
    LET v == IF At(j, {"first"}) THEN job[j].prev ELSE job[j].out
    IN  /\ At(j, {"first", "last"})
        /\ UNCHANGED <<posted, kv, seen, mtproto, isRunning, batches, faults, known>>
        /\ local' = IF v # None /\ Fits(v) THEN v ELSE local
        /\ lossy' = (lossy \/ Moved # {} \/ Hides(j))
        /\ Saving(j, Loaded(job[j], v))

-----------------------------------------------------------------------------
(* Telegram: a channel posts its messages in order.                        *)
Post(m) ==
    /\ m \notin posted
    /\ \A k \in In(Home[m]) : k < m => k \in posted
    /\ posted' = posted \cup {m}
    /\ UNCHANGED <<local, kv, seen, mtproto, isRunning, job, batches, faults, known, lossy>>

(* The route /collector/ingest: any batch of messages of the collector's   *)
(* channels, an earlier one delivered again included.                      *)
ApplyStart(j) ==
    /\ ~ Active(j)
    /\ batches < MaxBatches
    /\ batches' = batches + 1
    /\ \E batch \in SUBSET {m \in posted : Home[m] \in Configured} \ {{}} :
          Load(j, [Idle EXCEPT !.kind = "apply", !.pc = "first", !.news = batch,
                               !.scope = {Home[m] : m \in batch}])
    /\ UNCHANGED <<posted, local, kv, seen, mtproto, isRunning, known, lossy>>

(* runScrape, from the alarm, /trigger, or a self-heal of /health or       *)
(* /state.                                                                 *)
ScrapeStart(j) ==
    /\ ~ Active(j)
    /\ ~ isRunning
    /\ isRunning' = TRUE
    /\ Load(j, [Idle EXCEPT !.kind = "scrape", !.pc = "first"])
    /\ UNCHANGED <<posted, local, kv, seen, mtproto, batches, known, lossy>>

(* /health, /state or the stream load the state for a reader: a load from  *)
(* KV can change something.                                                *)
Look(j) ==
    /\ ~ Active(j)
    /\ local = None
    /\ Load(j, [Idle EXCEPT !.kind = "look", !.pc = "first"])
    /\ UNCHANGED <<posted, local, kv, seen, mtproto, isRunning, batches, known, lossy>>

-----------------------------------------------------------------------------
(* Between the loads.                                                      *)

(* selectChannelsForCycle: some of the channels that are not left to the   *)
(* collector; when D1 fails, not those configured for it.                  *)
Select(j) ==
    /\ At(j, {"select"})
    /\ \E free \in {Channels \ mtproto, Channels \ Configured} :
          /\ IF free = Channels \ mtproto THEN UNCHANGED faults ELSE Fault
          /\ \E cycle \in SUBSET free :
                /\ cycle = {} => free = {}
                /\ Turn(j, [job[j] EXCEPT !.scope = cycle, !.pc = "fetch"])
    /\ UNCHANGED <<posted, local, kv, seen, mtproto, isRunning, batches, known, lossy>>

(* The pages arrive and are compared with the first load and the table.    *)
Fetch(j) ==
    /\ At(j, {"fetch"})
    /\ \E fetched \in SUBSET job[j].scope :
          /\ IF fetched = job[j].scope THEN UNCHANGED faults ELSE Fault
          /\ Turn(j, [job[j] EXCEPT !.pc = "record",
                        !.news = UNION {Page(c) \ Prior(job[j].prev)[c] : c \in fetched} \ seen])
    /\ UNCHANGED <<posted, local, kv, seen, mtproto, isRunning, batches, known, lossy>>

(* After the translations a scrape records its messages as seen and loads  *)
(* again.  An apply does, too, and marks its channels as the collector's.  *)
Record(j) ==
    /\ At(j, {"record"})
    /\ seen' = seen \cup job[j].news
    /\ known' = known \cup job[j].news
    /\ mtproto' = IF job[j].kind = "apply" THEN mtproto \cup job[j].scope ELSE mtproto
    /\ Load(j, [job[j] EXCEPT !.pc = "last"])
    /\ UNCHANGED <<posted, local, kv, isRunning, batches, lossy>>

(* Something throws on the way.  A scrape goes on with the channels that   *)
(* had nothing new; an apply ends.                                         *)
RecordFails(j) ==
    /\ At(j, {"record"})
    /\ Fault
    /\ \E part \in SUBSET job[j].news :
          /\ seen' = seen \cup part
          /\ known' = known \cup part
          /\ lossy' = (lossy \/ part # {})
    /\ Turn(j, IF job[j].kind = "apply" THEN Idle
               ELSE [job[j] EXCEPT !.news = {}, !.scope = @ \ {Home[m] : m \in job[j].news}])
    /\ UNCHANGED <<posted, local, kv, mtproto, isRunning, batches>>

-----------------------------------------------------------------------------
(* Saving.                                                                 *)

(* Mutant of SaveLocal: a state that is too large leaves the old copy.     *)
SaveLocalIfFits(j) ==
    /\ At(j, {"save"})
    /\ UNCHANGED <<posted, kv, seen, mtproto, isRunning, batches, faults, known>>
    /\ local' = IF Fits(job[j].out) THEN job[j].out ELSE local
    /\ lossy' = (lossy \/ Overwrites(j) \/ Hides(j))
    /\ Saving(j, [job[j] EXCEPT !.pc = "mirror"])

(* writeLatestStateLocalCache, after the canonical events are built.       *)
SaveLocal(j) ==
    /\ At(j, {"save"})
    /\ UNCHANGED <<posted, kv, seen, mtproto, isRunning, batches, faults, known>>
    /\ local' = IF Fits(job[j].out) THEN job[j].out ELSE None
    /\ lossy' = (lossy \/ Overwrites(j) \/ Hides(j))
    /\ Saving(j, [job[j] EXCEPT !.pc = "mirror"])

Released(j) == isRunning' = (isRunning /\ job[j].kind # "scrape")

(* The put into KV.  A scrape then forgets the records of the table that   *)
(* are old.                                                                *)
Mirror(j) ==
    /\ At(j, {"mirror"})
    /\ UNCHANGED <<posted, local, mtproto, batches, faults, known>>
    /\ kv' = job[j].out
    /\ lossy' = (lossy \/ Overwrites(j))
    /\ \E old \in SUBSET seen :
          /\ job[j].kind = "apply" => old = {}
          /\ seen' = seen \ old
    /\ Saving(j, Idle)
    /\ Released(j)

(* Mutant of SaveFails: the flag stays set.                                *)
SaveFailsRunning(j) ==
    /\ At(j, {"save", "mirror"})
    /\ Fault
    /\ lossy' = (lossy \/ LosesWork(j))
    /\ Turn(j, Idle)
    /\ UNCHANGED <<posted, local, kv, seen, mtproto, isRunning, batches, known>>

(* Building the events or a write fails: the job ends.                     *)
SaveFails(j) ==
    /\ At(j, {"save", "mirror"})
    /\ Fault
    /\ lossy' = (lossy \/ LosesWork(j))
    /\ Turn(j, Idle)
    /\ Released(j)
    /\ UNCHANGED <<posted, local, kv, seen, mtproto, batches, known>>

(* The object is evicted or deployed anew: its jobs are gone.              *)
Restart ==
    /\ \E j \in Jobs : Active(j)
    /\ Fault
    /\ lossy' = (lossy \/ \E j \in Jobs : LosesWork(j))
    /\ job' = [j \in Jobs |-> Idle]
    /\ isRunning' = FALSE
    /\ UNCHANGED <<posted, local, kv, seen, mtproto, batches, known>>

Next ==
    \/ \E m \in Messages : Post(m)
    \/ \E j \in Jobs :
          \/ ApplyStart(j) \/ ScrapeStart(j) \/ Look(j) \/ KvAnswers(j)
          \/ Select(j) \/ Fetch(j) \/ Record(j) \/ RecordFails(j)
          \/ SaveLocal(j) \/ Mirror(j) \/ SaveFails(j)
    \/ Restart

Spec == Init /\ [][Next]_vars

-----------------------------------------------------------------------------
(* Properties.                                                             *)

(* Every variable has the shape the code gives it, and no channel shows    *)
(* more than Keep messages.                                                *)
TypeOK ==
    /\ posted \subseteq Messages
    /\ {local, kv} \subseteq Contents \cup {None}
    /\ \A c \in Channels : Cardinality(Shown(local, kv)[c]) <= Keep
    /\ seen \subseteq known
    /\ known \subseteq posted
    /\ mtproto \subseteq Configured
    /\ {isRunning, lossy} \subseteq BOOLEAN
    /\ batches \in 0..MaxBatches
    /\ faults \in 0..MaxFaults
    /\ \A j \in Jobs :
          /\ job[j].news \subseteq posted
          /\ job[j].scope \subseteq Channels
          /\ {job[j].prev, job[j].out} \subseteq Contents \cup {None}

(* However alarms, triggers, self-heals, failures and restarts fall, two   *)
(* scrapes never run at a time, and isRunning is set only while one does:  *)
(* left set it would end all scraping.                                     *)
OneScrape == Cardinality({j \in Jobs : job[j].kind = "scrape"}) = IF isRunning THEN 1 ELSE 0

(* Unless a job wrote over another's channel or was cut off (lossy), a     *)
(* channel nobody works on shows exactly the newest of all messages ever   *)
(* accepted for it: overlapping jobs on different channels keep each       *)
(* other's work, batches delivered again change nothing, a failed put into *)
(* KV loses nothing the object holds, and no message comes back.           *)
ShowsNewest ==
    ~ lossy /\ ~ (\E j \in Jobs : At(j, {"mirror"})) =>
        \A c \in Channels :
            (\A j \in Jobs : c \notin job[j].scope) =>
                Shown(local, kv)[c] = Newest(known \cap In(c), Keep)

(* The comments of the scrape: a channel without new messages, or whose    *)
(* page cannot be fetched, keeps its previous state, and a first run       *)
(* includes all that is parsed.  So a channel that shows messages never    *)
(* shows none.                                                             *)
NeverEmptied ==
    [][\A c \in Channels : Shown(local, kv)[c] # {} => Shown(local', kv')[c] # {}]_vars

=============================================================================
