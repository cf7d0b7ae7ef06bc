------------------------------ MODULE NewsFeed ------------------------------
(***************************************************************************)
(* The news feed of the backend: one stored list per shard, which the      *)
(* shard's coordinator rewrites with every publish, and which every        *)
(* isolate reads through a short memory cache; the hot list the            *)
(* coordinator keeps; the fallback, in which the worker publishes itself;  *)
(* and the reads, delayed for readers without a subscription.              *)
(*                                                                         *)
(* A KV call takes effect and returns in two steps.  The memory cache of   *)
(* the merged shards and of the hot list live under a second and are left  *)
(* out: reads compute both anew.                                           *)
(***************************************************************************)
EXTENDS Integers, SequencesExt

CONSTANTS
    Entries,        \* what is published: records of id (and url), title, at
    Shards,
    Isolates,
    Publishers, Readers,
    MaxTime, MaxFaults, MaxPublishes,   \* bounds
    CacheTtl,       \* NEWS_READ_CACHE_MS; 0 is no cache
    Retention,      \* NEWS_FEED_RETENTION_HOURS
    Delay,          \* NEWS_DELAY_MINUTES
    MaxItems,       \* NEWS_FEED_MAX_ITEMS
    HotLimit,       \* NEWS_HOT_OVERLAY_LIMIT
    Limit,          \* items a reader gets
    AllowFallback,  \* NEWS_COORDINATOR_ALLOW_FALLBACK
    AiEnrich,       \* NEWS_AI_ENRICH_ENABLED
    English,        \* the title of a translation
    None

VARIABLES
    now, faults, publishes,
    kv,         \* the stored list of each shard
    hot,        \* hot_entries of each shard's coordinator
    memo,       \* newsFeedMemoryCache of each isolate
    place,      \* the isolate of each shard's coordinator
    busy,       \* the publish each coordinator is doing
    publisher, reader,
    stale,      \* history: a list was written that was not made from the stored one
    early       \* history: a reader was shown other than the delayed list

vars == <<now, faults, publishes, kv, hot, memo, place, busy, publisher, reader, stale, early>>

Idle == [at |-> "idle"]

-----------------------------------------------------------------------------
(* Items and lists.                                                        *)

(* applyHeuristicEnrichment and enrichNewsItemWithAi: a translation, if    *)
(* the gateway gives one, replaces the title.                              *)
Enriched(S) ==
    {{IF x \in T THEN [x EXCEPT !.title = English] ELSE x : x \in S} :
        T \in IF AiEnrich THEN SUBSET S ELSE {{}}}

(* normalizeNewsItems sorts, the newest first.                             *)
Newest(S) == SetToSortSeq(S, LAMBDA x, y : x.at > y.at \/ (x.at = y.at /\ x.id < y.id))

(* buildNewsIdentityKeys                                                   *)
SameNews(x, y) == x.id = y.id \/ x.title = y.title

UpTo(list, n) == SubSeq(list, 1, IF Len(list) < n THEN Len(list) ELSE n)

Interleaved(p, q) ==
    LET from[i \in 1..Len(p)+1, j \in 1..Len(q)+1] ==
            IF i > Len(p) THEN SubSeq(q, j, Len(q))
            ELSE IF j > Len(q) THEN SubSeq(p, i, Len(p))
            ELSE IF p[i].at >= q[j].at THEN <<p[i]>> \o from[i + 1, j]
            ELSE <<q[j]>> \o from[i, j + 1]
    IN  from[1, 1]

(* Mutant of Merged: the same news of both streams stays twice.            *)
MergedTwice(p, q, max) == UpTo(Interleaved(p, q), max)

(* mergeNewsStreamsDescending: the first of the items that are the same    *)
(* news stays.                                                             *)
Merged(p, q, max) ==
    FoldLeft(LAMBDA out, x : IF Len(out) = max \/ \E y \in Range(out) : SameNews(x, y)
                             THEN out
                             ELSE Append(out, x),
             <<>>, Interleaved(p, q))

Retained(list) == SelectSeq(list, LAMBDA x : x.at >= now - Retention)

-----------------------------------------------------------------------------
(* newsFeedMemoryCache.                                                    *)

Cached(i, s) == CacheTtl > 0 /\ memo[i][s] # None /\ now - memo[i][s].since <= CacheTtl

Remember(i, s, list, since) ==
    memo' = IF CacheTtl > 0
            THEN [memo EXCEPT ![i][s] = [list |-> list, since |-> since]]
            ELSE memo

-----------------------------------------------------------------------------
(* handleNewsPublish, publishNewsWithCoordinator, publishNewsFeed.         *)

Publish(p) ==
    /\ publisher[p] = Idle /\ publishes < MaxPublishes
    /\ publishes' = publishes + 1
    /\ \E S \in SUBSET Entries \ {{}}, s \in Shards, i \in Isolates, merge \in BOOLEAN :
       \E T \in Enriched(S) :
          publisher' = [publisher EXCEPT ![p] =
              [at |-> "calling", worker |-> i, on |-> i, shard |-> s, merge |-> merge,
               local |-> FALSE, items |-> Newest(T), base |-> <<>>, list |-> <<>>, since |-> now]]
    /\ UNCHANGED <<now, faults, kv, hot, memo, place, busy, reader, stale, early>>

(* publishNewsFeed on isolate i: the list to start from is taken from      *)
(* memory, or read from KV.                                                *)
Starts(p, i, local) ==
    LET w == [publisher[p] EXCEPT !.on = i, !.local = local, !.since = now]
    IN  publisher' = [publisher EXCEPT ![p] =
            CASE ~ w.merge -> [w EXCEPT !.at = "based"]
              [] w.merge /\ Cached(i, w.shard) -> [w EXCEPT !.at = "based", !.base = memo[i][w.shard].list]
              [] OTHER -> [w EXCEPT !.at = "reading"]]

(* Mutant of CoordinatorFree: publishes are not taken one at a time.       *)
CoordinatorShared(s) == TRUE

(* blockConcurrencyWhile                                                   *)
CoordinatorFree(s) == busy[s] = None

CoordinatorStarts(p) ==
    /\ publisher[p].at = "calling"
    /\ CoordinatorFree(publisher[p].shard)
    /\ busy' = [busy EXCEPT ![publisher[p].shard] = p]
    /\ Starts(p, place[publisher[p].shard], FALSE)
    /\ UNCHANGED <<now, faults, publishes, kv, hot, memo, place, reader, stale, early>>

KvAnswers(p) ==
    /\ publisher[p].at = "reading"
    /\ publisher' = [publisher EXCEPT ![p].at = "read", ![p].base = UpTo(kv[publisher[p].shard], MaxItems)]
    /\ UNCHANGED <<now, faults, publishes, kv, hot, memo, place, busy, reader, stale, early>>

(* The merge, and the put sent to KV.                                      *)
Merges(p) ==
    LET w == publisher[p] IN
    /\ w.at \in {"read", "based"}
    /\ IF w.at = "read" THEN Remember(w.on, w.shard, w.base, w.since) ELSE UNCHANGED memo
    /\ publisher' = [publisher EXCEPT ![p].at = "writing",
                        ![p].list = Merged(Retained(w.items), UpTo(Retained(w.base), MaxItems), MaxItems)]
    /\ UNCHANGED <<now, faults, publishes, kv, hot, place, busy, reader, stale, early>>

KvTakes(p) ==
    LET w == publisher[p] IN
    /\ kv' = [kv EXCEPT ![w.shard] = w.list]
    /\ stale' = (stale \/ (w.merge /\ w.base # kv[w.shard]))

KvStores(p) ==
    /\ publisher[p].at = "writing"
    /\ KvTakes(p)
    /\ publisher' = [publisher EXCEPT ![p].at = "written"]
    /\ UNCHANGED <<now, faults, publishes, hot, memo, place, busy, reader, early>>

(* Afterwards the isolate remembers the list and, in the coordinator, the  *)
(* hot list takes the items; the caller may never hear of it.              *)
Ends(p, at) ==
    LET w == publisher[p] IN
    /\ w.at = "written"
    /\ Remember(w.on, w.shard, w.list, now)
    /\ IF w.local
       THEN UNCHANGED <<hot, busy>>
       ELSE /\ hot' = [hot EXCEPT ![w.shard] = Merged(w.items, UpTo(@, HotLimit), HotLimit)]
            /\ busy' = [busy EXCEPT ![w.shard] = None]
    /\ publisher' = [publisher EXCEPT ![p] = IF at = "idle" THEN Idle ELSE [w EXCEPT !.at = at]]
    /\ UNCHANGED <<now, publishes, kv, place, reader, stale, early>>

PublishEnds(p) == Ends(p, "idle") /\ UNCHANGED faults

Fault == faults < MaxFaults /\ faults' = faults + 1

AnswerLost(p) == Ends(p, "failed") /\ ~ publisher[p].local /\ Fault

(* Any step of a publish may throw, and the put in flight takes effect or  *)
(* not.  A coordinator that throws is reset.                               *)
Fails(p) ==
    LET w == publisher[p] IN
    /\ Fault
    /\ w.at \notin {"idle", "failed"}
    /\ IF w.at = "writing" THEN KvTakes(p) \/ UNCHANGED <<kv, stale>> ELSE UNCHANGED <<kv, stale>>
    /\ publisher' = [publisher EXCEPT ![p] = IF w.local THEN Idle ELSE [w EXCEPT !.at = "failed"]]
    /\ busy' = [s \in Shards |-> IF busy[s] = p THEN None ELSE busy[s]]
    /\ UNCHANGED <<now, publishes, hot, memo, place, reader, early>>

(* localPublish, if it is allowed.                                         *)
FallsBack(p) ==
    /\ publisher[p].at = "failed"
    /\ IF AllowFallback
       THEN Starts(p, publisher[p].worker, TRUE)
       ELSE publisher' = [publisher EXCEPT ![p] = Idle]
    /\ UNCHANGED <<now, faults, publishes, kv, hot, memo, place, busy, reader, stale, early>>

(* The coordinator is started again, on any isolate.                       *)
Moves(s) ==
    /\ busy[s] = None
    /\ \E i \in Isolates : place' = [place EXCEPT ![s] = i]
    /\ UNCHANGED <<now, faults, publishes, kv, hot, memo, busy, publisher, reader, stale, early>>

-----------------------------------------------------------------------------
(* handleNewsGet, after its rate limit.                                    *)

ReadStarts(r, i) ==
    /\ reader[r] = Idle
    /\ reader' = [reader EXCEPT ![r] =
          [at |-> "reading", on |-> i, since |-> now,
           missing |-> {s \in Shards : ~ Cached(i, s)},
           lists |-> [s \in Shards |-> IF Cached(i, s) THEN memo[i][s].list ELSE None]]]
    /\ UNCHANGED <<now, faults, publishes, kv, hot, memo, place, busy, publisher, stale, early>>

ReadAnswers(r, s) ==
    /\ reader[r].at = "reading"
    /\ reader[r].lists[s] = None
    /\ reader' = [reader EXCEPT ![r].lists[s] = UpTo(kv[s], MaxItems)]
    /\ UNCHANGED <<now, faults, publishes, kv, hot, memo, place, busy, publisher, stale, early>>

(* readNewsFeed                                                            *)
AllShards(lists) == FoldLeft(LAMBDA all, s : Merged(all, lists[s], MaxItems), <<>>, SetToSeq(Shards))

(* Mutant of FirstUnlocked: the half with the answer is not searched.      *)
FirstUnlockedPast(list, cutoff) ==
    LET from[l \in 1..Len(list)+1, r \in 0..Len(list)] ==
            IF l > r THEN 0
            ELSE LET middle == l + (r - l) \div 2
                 IN  IF list[middle].at <= cutoff THEN middle ELSE from[middle + 1, r]
    IN  from[1, Len(list)]

(* findFirstUnlockedIndexDescending; 0 stands for -1.                      *)
FirstUnlocked(list, cutoff) ==
    LET from[l \in 1..Len(list)+1, r \in 0..Len(list), answer \in 0..Len(list)] ==
            IF l > r THEN answer
            ELSE LET middle == l + (r - l) \div 2
                 IN  IF list[middle].at <= cutoff THEN from[l, middle - 1, middle]
                     ELSE from[middle + 1, r, answer]
    IN  from[1, Len(list), 0]

FreeView(list, cutoff) ==
    LET first == FirstUnlocked(list, cutoff)
    IN  IF first = 0 THEN <<>> ELSE UpTo(SubSeq(list, first, Len(list)), Limit)

(* readCoordinatorHotFeed gives the hot lists, or nothing.                 *)
EntitledView(list, hots) == UpTo(Merged(hots, list, MaxItems), Limit)

(* What a free reader is to see: the newest of what is old enough.         *)
Delayed(list, cutoff) == UpTo(SelectSeq(list, LAMBDA x : x.at <= cutoff), Limit)

NoLess(view, free) ==
    Len(view) = Limit \/ \A x \in Range(free) : \E y \in Range(view) : SameNews(x, y)

ReadEnds(r) ==
    LET g == reader[r]
        list == AllShards(g.lists)
        free == FreeView(list, g.since - Delay)
    IN
    /\ g.at = "reading"
    /\ \A s \in Shards : g.lists[s] # None
    /\ reader' = [reader EXCEPT ![r] = Idle]
    /\ memo' = IF CacheTtl > 0
               THEN [memo EXCEPT ![g.on] = [s \in Shards |-> IF s \in g.missing
                                                             THEN [list |-> g.lists[s], since |-> g.since]
                                                             ELSE @[s]]]
               ELSE memo
    /\ early' = \/ early
                \/ free # Delayed(list, g.since - Delay)
                \/ \E hots \in {AllShards(hot), <<>>} : ~ NoLess(EntitledView(list, hots), free)
    /\ UNCHANGED <<now, faults, publishes, kv, hot, place, busy, publisher, stale>>

Tick ==
    /\ now < MaxTime
    /\ now' = now + 1
    /\ UNCHANGED <<faults, publishes, kv, hot, memo, place, busy, publisher, reader, stale, early>>

Init ==
    /\ now = 0 /\ faults = 0 /\ publishes = 0
    /\ kv = [s \in Shards |-> <<>>]
    /\ hot = [s \in Shards |-> <<>>]
    /\ memo = [i \in Isolates |-> [s \in Shards |-> None]]
    /\ place \in {[s \in Shards |-> i] : i \in {CHOOSE j \in Isolates : TRUE}}
    /\ busy = [s \in Shards |-> None]
    /\ publisher = [p \in Publishers |-> Idle]
    /\ reader = [r \in Readers |-> Idle]
    /\ stale = FALSE /\ early = FALSE

Next ==
    \/ \E p \in Publishers :
          \/ Publish(p) \/ CoordinatorStarts(p) \/ KvAnswers(p) \/ Merges(p) \/ KvStores(p)
          \/ PublishEnds(p) \/ AnswerLost(p) \/ Fails(p) \/ FallsBack(p)
    \/ \E s \in Shards : Moves(s)
    \/ \E r \in Readers : ReadEnds(r) \/ (\E i \in Isolates : ReadStarts(r, i))
                                     \/ (\E s \in Shards : ReadAnswers(r, s))
    \/ Tick

Spec == Init /\ [][Next]_vars

-----------------------------------------------------------------------------
(* The lists are sorted, short enough and have no news twice.              *)
Proper(list, max) ==
    /\ Len(list) <= max
    /\ \A i, j \in DOMAIN list : i < j => list[i].at >= list[j].at /\ ~ SameNews(list[i], list[j])

TypeOK ==
    /\ now \in 0..MaxTime /\ faults \in 0..MaxFaults
    /\ \A s \in Shards : Proper(kv[s], MaxItems) /\ Proper(hot[s], HotLimit)
    /\ busy \in [Shards -> Publishers \cup {None}]
    /\ place \in [Shards -> Isolates]

(* An item leaves the stored list only for newer news: the same news at    *)
(* least as new, a full list of newer items, or its own age; unless the    *)
(* publisher asked to replace the list.  With a memory cache or the        *)
(* fallback there is one more way: a list made from another than the one   *)
(* it replaces.                                                            *)
MaySupersede(x, list) ==
    \/ x.at < now - Retention
    \/ \E y \in Range(list) : y.at >= x.at /\ SameNews(x, y)
    \/ Len(list) = MaxItems /\ \A y \in Range(list) : y.at >= x.at

StoredKeptStep ==
    \A s \in Shards : kv'[s] # kv[s] =>
        \/ (CacheTtl > 0 \/ AllowFallback) /\ stale'
        \/ \E p \in Publishers :
              /\ publisher[p].at = "writing" /\ publisher[p].shard = s
              /\ publisher[p].merge => \A x \in Range(kv[s]) : MaySupersede(x, kv'[s])

StoredKept == [][StoredKeptStep]_vars

(* A reader without a subscription sees the newest of the news that is old *)
(* enough, and nothing else; with one, no less than without.               *)
FreeWaits == ~ early
=============================================================================
