----------------------------- MODULE TelegramTexts -----------------------------
(***************************************************************************)
(* What a scrape makes of the messages it found: their text in English,    *)
(* their media in the worker's own bucket, and their rows in D1.  A text   *)
(* that was not translated is tried again in later scrapes, while its      *)
(* channel has nothing new, and media that are still Telegram's as well;   *)
(* each after a pause that doubles with every failure.                     *)
(*                                                                         *)
(* Which channels a scrape takes, how many messages a channel keeps and    *)
(* where the state is stored is TelegramState's.  Every message here has a *)
(* text that is not English.                                               *)
(***************************************************************************)
EXTENDS Integers

CONSTANTS
    Messages, Home, Text,   \* messages, the channel and the text of each
    Foreign,                \* texts in another script than Latin
    Photos,                 \* messages with a photo
    Collected,              \* those the collector may deliver
    Base, Longest,          \* pauses after a failure: the first and the limit
    CacheTtl, RetryTtl,
    MaxTime, MaxFaults,
    None

VARIABLES
    now, posted,
    shown,                  \* messages in the state that is saved
    rows,                   \* their rows in D1
    seen, cache,
    pause,                  \* translation_backoff and media_backoff
    scrape, faults,
    lost,                   \* history: messages whose row or state was lost
    tried,                  \* history: failures in a row, and the last one's time
    early,                  \* history: something was tried before its pause was over
    apart                   \* history: messages with the row of a text that was not saved

vars == <<now, posted, shown, rows, seen, cache, pause, scrape, faults, lost, tried, early, apart>>

Idle == [at |-> "idle"]

Fault == faults < MaxFaults /\ faults' = faults + 1

Kinds == {"text", "media"}

-----------------------------------------------------------------------------
(* Translation.                                                            *)

(* What a model may return for a text: what was asked for, some of it, or  *)
(* the text as it was, also if it returns nothing.                         *)
Outputs == {"english", "partly", "same"}

(* shouldRetryOutput                                                       *)
Retried(t, o) == t \in Foreign /\ o = "same"

(* translateOne, through the gateway and without it: the first output that *)
(* need not be tried again, or failure when the tries are used up.         *)
Translations(t) == {o \in Outputs : ~ Retried(t, o)} \cup {"failed"}

(* isAcceptedEnglishTranslation counts letters of other scripts: a Latin   *)
(* text is accepted as it is.                                              *)
Accepted(t, o) ==
    \/ o = "english"
    \/ t \notin Foreign /\ o \in {"partly", "same"}

InEnglish(o) == IF o = "same" THEN "own" ELSE "english"

(* translateBatch: the same text is translated once.                       *)
Batches(S) ==
    {out \in [{Text[m] : m \in S} -> Outputs \cup {"failed"}] :
        \A t \in DOMAIN out : out[t] \in Translations(t)}

-----------------------------------------------------------------------------
(* Pauses.                                                                 *)

Doubled[n \in Nat] == IF n = 0 THEN Base ELSE 2 * Doubled[n - 1]

Pause(fails) == IF Doubled[fails - 1] < Longest THEN Doubled[fails - 1] ELSE Longest

(* shouldAttemptBackfill, shouldAttemptMediaBackfill                       *)
MayTry(kind, m) == pause[kind][m] # None => pause[kind][m].next <= now

Failed(p) ==
    LET fails == IF p = None THEN 1 ELSE p.fails + 1
    IN  [fails |-> fails, next |-> now + Pause(fails), at |-> now]

(* The pauses of a kind when the messages in bad failed, and those in good *)
(* did not; and for the properties the failures that were in a row, which  *)
(* are forgotten when nothing was tried for long.                          *)
Paused(kind, bad, good) ==
    pause' = [pause EXCEPT ![kind] =
                [m \in Messages |-> IF m \in bad THEN Failed(@[m])
                                    ELSE IF m \in good THEN None ELSE @[m]]]

Counted(kind, bad, good) ==
    tried' = [tried EXCEPT ![kind] =
                [m \in Messages |->
                   IF m \in good THEN None
                   ELSE IF m \notin bad THEN @[m]
                   ELSE [fails |-> IF @[m] = None \/ now - @[m].at > RetryTtl
                                   THEN 1 ELSE @[m].fails + 1,
                         at |-> now]]]

Noted(kind, S) ==
    early' = (early \/ \E m \in S : /\ tried[kind][m] # None
                                    /\ now - tried[kind][m].at < Pause(tried[kind][m].fails))

-----------------------------------------------------------------------------
(* A scrape.                                                               *)

New(fetched) == {m \in posted : Home[m] \in fetched /\ shown[m] = None /\ m \notin seen}

(* The channels of a cycle, and those of them whose page was fetched.      *)
Begins(scope, fetched) ==
    /\ scrape = Idle
    /\ scrape' = [at |-> "translating", scope |-> scope, new |-> New(fetched), prev |-> shown,
                  texts |-> {}, jobs |-> {}, records |-> {}, moved |-> {},
                  aside |-> [m \in Messages |-> None]]
    /\ UNCHANGED <<now, posted, shown, rows, seen, cache, pause, faults, lost, tried, early, apart>>

(* getCachedTranslation                                                    *)
Cached(t) == cache[t] # None /\ now - cache[t].at <= CacheTtl

(* The messages of channels without news whose text is as it was, also of  *)
(* channels outside the cycle.                                             *)
ToTranslate(r) ==
    {m \in Messages : /\ Home[m] \notin {Home[n] : n \in r.new}
                      /\ r.prev[m] # None /\ r.prev[m].text = "own"
                      /\ MayTry("text", m)}

(* The new texts are translated, and then old ones chosen, as many as      *)
(* there is room for.                                                      *)
Translates ==
    LET r == scrape
        asked == {m \in r.new : ~ Cached(Text[m])}
    IN  /\ r.at = "translating"
        /\ \E out \in Batches(asked), jobs \in SUBSET ToTranslate(r) :
             /\ ToTranslate(r) # {} => jobs # {}
             /\ scrape' = [r EXCEPT
                  !.at = "backfilling", !.jobs = jobs,
                  !.texts = {m \in r.new :
                     IF m \in asked
                     THEN Accepted(Text[m], out[Text[m]]) /\ InEnglish(out[Text[m]]) = "english"
                     ELSE cache[Text[m]].text = "english"}]
             /\ cache' = [t \in DOMAIN cache |->
                  IF t \in DOMAIN out /\ Accepted(t, out[t])
                  THEN [text |-> InEnglish(out[t]), at |-> now] ELSE cache[t]]
             /\ Noted("text", jobs)
        /\ UNCHANGED <<now, posted, shown, rows, seen, pause, faults, lost, tried, apart>>

(* The old texts: what is not accepted is a failure.                       *)
Backfills ==
    LET r == scrape IN
    /\ r.at = "backfilling"
    /\ \E out \in Batches(r.jobs) :
         LET good == {m \in r.jobs : Accepted(Text[m], out[Text[m]])} IN
         /\ scrape' = [r EXCEPT
              !.at = "building", !.records = good,
              !.prev = [m \in Messages |->
                 IF m \in good THEN [@[m] EXCEPT !.text = InEnglish(out[Text[m]])] ELSE @[m]]]
         /\ Paused("text", r.jobs \ good, good)
         /\ Counted("text", r.jobs \ good, good)
    /\ UNCHANGED <<now, posted, shown, rows, seen, cache, faults, lost, early, apart>>

(* processMediaBatch: what cannot be copied stays Telegram's.              *)
Built(r, m, copied) ==
    [text |-> IF m \in r.texts THEN "english" ELSE "own",
     media |-> IF m \in Photos \ copied THEN "far" ELSE "near"]

(* The messages are put together, recorded as seen, and put over the       *)
(* latest state, with the old ones of the cycle's channels; what was       *)
(* translated in other channels stays aside, with its record only.  Then   *)
(* media that are still Telegram's are chosen.                             *)
Builds ==
    LET r == scrape IN
    /\ r.at = "building"
    /\ \E copied \in SUBSET (r.new \cap Photos) :
         LET out == [m \in Messages |->
                       IF m \in r.new THEN Built(r, m, copied)
                       ELSE IF Home[m] \in r.scope THEN r.prev[m] ELSE shown[m]]
             far == {m \in Photos : out[m] # None /\ out[m].media = "far" /\ MayTry("media", m)}
         IN  \E jobs \in SUBSET far :
               /\ far # {} => jobs # {}
               /\ scrape' = [r EXCEPT
                    !.at = "copying", !.prev = out, !.jobs = jobs,
                    !.records = {m \in @ : Home[m] \in r.scope} \cup r.new,
                    !.aside = [m \in Messages |->
                       IF m \in r.records /\ Home[m] \notin r.scope THEN r.prev[m] ELSE None]]
               /\ Noted("media", jobs)
    /\ seen' = seen \cup scrape.new
    /\ UNCHANGED <<now, posted, shown, rows, cache, pause, faults, lost, tried, apart>>

(* backfillExternalMediaInChannels, of all channels                        *)
Copies ==
    LET r == scrape IN
    /\ r.at = "copying"
    /\ \E good \in SUBSET r.jobs :
         /\ scrape' = [r EXCEPT
              !.at = "persisting", !.records = @ \cup good,
              !.prev = [m \in Messages |-> IF m \in good THEN [@[m] EXCEPT !.media = "near"] ELSE @[m]]]
         /\ Paused("media", r.jobs \ good, good)
         /\ Counted("media", r.jobs \ good, good)
    /\ UNCHANGED <<now, posted, shown, rows, seen, cache, faults, lost, early, apart>>

Written(records) ==
    {<<records, faults>>} \cup
    (IF faults < MaxFaults THEN (SUBSET records \ {records}) \X {faults + 1} ELSE {})

(* persistCycleToD1: the rows of the records; those of a chunk that fails, *)
(* and of the ones after it, are never written.  A record of copied media  *)
(* comes after the one of a text that stays aside.                         *)
Persists ==
    LET r == scrape
        recorded == r.records \cup {m \in Messages : r.aside[m] # None}
    IN  /\ r.at = "persisting"
        /\ \E w \in Written(recorded) :
             LET fromAside == w[1] \ r.records IN
             /\ rows' = [m \in Messages |->
                   IF m \in fromAside THEN r.aside[m] ELSE IF m \in w[1] THEN r.prev[m] ELSE rows[m]]
             /\ faults' = w[2]
             /\ lost' = (lost \ w[1]) \cup (recorded \ w[1]) \cup (fromAside \cap r.moved)
             /\ apart' = (apart \ w[1]) \cup fromAside
        /\ scrape' = [r EXCEPT !.at = "saving"]
        /\ UNCHANGED <<now, posted, shown, seen, cache, pause, tried, early>>

(* The state is saved over what the collector may have saved meanwhile,    *)
(* and pauses long over are removed.                                       *)
Saves ==
    LET r == scrape IN
    /\ r.at = "saving"
    /\ shown' = r.prev
    /\ lost' = lost \cup r.moved
    /\ pause' = [k \in Kinds |-> [m \in Messages |->
                   IF pause[k][m] # None /\ pause[k][m].at < now - RetryTtl
                   THEN None ELSE pause[k][m]]]
    /\ scrape' = Idle
    /\ UNCHANGED <<now, posted, rows, seen, cache, faults, tried, early, apart>>

(* The object restarts.                                                    *)
Dies ==
    /\ scrape # Idle /\ Fault
    /\ lost' = IF scrape.at = "saving" THEN lost \cup scrape.records ELSE lost
    /\ scrape' = Idle
    /\ UNCHANGED <<now, posted, shown, rows, seen, cache, pause, tried, early, apart>>

-----------------------------------------------------------------------------
(* applyCollectorBatch, one message: it takes the place of what there was, *)
(* also if that was in English.                                            *)
Collects(m, v) ==
    /\ m \in posted
    /\ shown' = [shown EXCEPT ![m] = v]
    /\ seen' = seen \cup {m}
    /\ \E w \in Written({m}) :
         /\ rows' = IF m \in w[1] THEN [rows EXCEPT ![m] = v] ELSE rows
         /\ faults' = w[2]
         /\ lost' = (lost \ {m}) \cup ({m} \ w[1])
    /\ apart' = apart \ {m}
    /\ scrape' = IF scrape = Idle THEN Idle ELSE [scrape EXCEPT !.moved = @ \cup {m}]
    /\ UNCHANGED <<now, posted, cache, pause, tried, early>>

Posts(m) ==
    /\ m \notin posted
    /\ posted' = posted \cup {m}
    /\ UNCHANGED <<now, shown, rows, seen, cache, pause, scrape, faults, lost, tried, early, apart>>

Tick ==
    /\ now < MaxTime /\ now' = now + 1
    /\ UNCHANGED <<posted, shown, rows, seen, cache, pause, scrape, faults, lost, tried, early, apart>>

Channels == {Home[m] : m \in Messages}

Versions == [text : {"own", "english"}, media : {"far", "near"}]

Init ==
    /\ now = 0 /\ posted = {} /\ seen = {}
    /\ shown = [m \in Messages |-> None] /\ rows = shown
    /\ cache = [t \in {Text[m] : m \in Messages} |-> None]
    /\ pause = [k \in Kinds |-> [m \in Messages |-> None]] /\ tried = pause
    /\ scrape = Idle /\ faults = 0 /\ lost = {} /\ early = FALSE /\ apart = {}

Next ==
    \/ \E scope \in SUBSET Channels \ {{}} : \E fetched \in SUBSET scope : Begins(scope, fetched)
    \/ Translates \/ Backfills \/ Builds \/ Copies \/ Persists \/ Saves \/ Dies \/ Tick
    \/ \E m \in Collected, v \in Versions : (m \in Photos \/ v.media = "near") /\ Collects(m, v)
    \/ \E m \in Messages : Posts(m)

Spec == Init /\ [][Next]_vars

-----------------------------------------------------------------------------
TypeOK ==
    /\ now \in 0..MaxTime /\ faults \in 0..MaxFaults
    /\ posted \cup seen \cup lost \cup apart \subseteq Messages
    /\ {shown, rows} \subseteq [Messages -> Versions \cup {None}]
    /\ early \in BOOLEAN

(* What is tried again is tried after its pause: the k-th failure in a row *)
(* of a text or a photo is followed by 2^(k-1) times the first one.        *)
ApartByPause == ~ early

(* What is in D1 already, and not yet in the state.                        *)
Unsaved == IF scrape.at = "saving" THEN scrape.records ELSE {}

(* The row of a message has what the state has, unless D1 failed, the      *)
(* object restarted before the state was saved, or a scrape and a batch of *)
(* the collector's overlapped; a text that a scrape translated outside its *)
(* channels is in English in the row alone.                                *)
RowsAgree ==
    \A m \in Messages \ (lost \cup Unsaved) :
        shown[m] # None =>
            \/ rows[m] = shown[m]
            \/ m \in apart /\ rows[m] = [shown[m] EXCEPT !.text = "english"]
=============================================================================
