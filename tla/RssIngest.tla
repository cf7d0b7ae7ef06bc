----------------------------- MODULE RssIngest ------------------------------
(***************************************************************************)
(* The scheduled ingest of news feeds: the sources of a run, conditional   *)
(* fetches with the validators KV keeps, the sources' health, and the      *)
(* publish at the end.  A feed shows the newest of its entries; version n  *)
(* of it has the entries 1 to n.                                           *)
(***************************************************************************)
EXTENDS Integers, FiniteSets

CONSTANTS
    FastLane, Rotating,     \* sources with a feed
    Base, Region, Kind,     \* of a source: its weight, region and category
    Runs,
    PerRun,         \* NEWS_RSS_SOURCES_PER_RUN
    PerSource,      \* NEWS_RSS_ITEMS_PER_SOURCE
    Shown,          \* entries a feed shows
    MaxVersion, MaxFaults, MaxRuns,     \* bounds
    None

VARIABLES
    feed,       \* the version of each source's feed
    faults, starts,
    validator,  \* KV: the version a fetch is conditional on, or None
    health,     \* KV: the health record of each source
    run,        \* the runs
    published,  \* the entries published
    dropped     \* history: entries a run had when it failed

vars == <<feed, faults, starts, validator, health, run, published, dropped>>

Sources == FastLane \cup Rotating
Page == 0       \* the validator of a page that is no feed
Idle == [at |-> "idle"]

-----------------------------------------------------------------------------
(* selectFeedSourcesForRun.                                                *)

(* The hashes of a source's id and the window are below 17 and 11, and may *)
(* be anything there.                                                      *)
Jitter == 16 + 10

Penalty(s, chosen) ==
    18 * Cardinality({t \in chosen : Region[t] = Region[s]}) + 12 * Cardinality({t \in chosen : Kind[t] = Kind[s]})

(* selectBalancedNonPrioritySources: which sources can have the best score *)
MayBeNext(chosen) ==
    {s \in Rotating \ chosen : \A t \in Rotating \ chosen :
        Base[s] - Penalty(s, chosen) + Jitter >= Base[t] - Penalty(t, chosen)}

Rotations(n) ==
    LET of[k \in 0..n] ==
            IF k = 0 THEN {{}}
            ELSE UNION {{chosen \cup {s} : s \in MayBeNext(chosen)} : chosen \in of[k - 1]}
    IN  of[n]

Least(a, b) == IF a < b THEN a ELSE b

(* The fast lane, as far as the run goes, and then the rotation.           *)
Selections ==
    LET count == Least(PerRun, Cardinality(Sources))
        fast == Least(count, Cardinality(FastLane))
    IN  {lane \cup rest : lane \in {L \in SUBSET FastLane : Cardinality(L) = fast},
                          rest \in Rotations(Least(count - fast, Cardinality(Rotating)))}

-----------------------------------------------------------------------------
(* ingestNewsFromSourceCatalog and fetchSourceFeedNews.                    *)

Starts(r) ==
    /\ run[r] = Idle /\ starts < MaxRuns
    /\ starts' = starts + 1
    /\ \E chosen \in Selections :
          run' = [run EXCEPT ![r] = [at |-> "fetching", items |-> {},
                                     fetch |-> [s \in chosen |-> [at |-> "loading"]]]]
    /\ UNCHANGED <<feed, faults, validator, health, published, dropped>>

(* loadRssSourceValidator, loadRssSourceHealth                             *)
Loads(r, s) ==
    /\ run[r].fetch[s].at = "loading"
    /\ run' = [run EXCEPT ![r].fetch[s] = [at |-> "asking", if |-> validator[s], failures |-> health[s].failures]]
    /\ UNCHANGED <<feed, faults, starts, validator, health, published, dropped>>

(* parseFeedEntries: the first entries the feed shows.                     *)
Entries(s, version) ==
    {<<s, n>> : n \in {k \in 1..version : k > version - Least(PerSource, Shown)}}

Got(r, s, next, status, failures) ==
    run' = [run EXCEPT ![r].fetch[s] = [at |-> next, status |-> status, failures |-> failures, version |-> feed[s]]]

NotModified(r, s) ==
    /\ run[r].fetch[s].at = "asking"
    /\ run[r].fetch[s].if = feed[s]
    /\ Got(r, s, "validator", "not_modified", 0)
    /\ UNCHANGED <<feed, faults, starts, validator, health, published, dropped>>

(* A server may also send what it need not.                                *)
Modified(r, s) ==
    /\ run[r].fetch[s].at = "asking"
    /\ Got(r, s, "validator", "healthy", 0)
    /\ UNCHANGED <<feed, faults, starts, validator, health, published, dropped>>

Fault == faults < MaxFaults /\ faults' = faults + 1

(* An error, no answer in time, or a page that is no feed, whose validator *)
(* is kept as well.                                                        *)
FetchFails(r, s) ==
    /\ run[r].fetch[s].at = "asking" /\ Fault
    /\ LET failures == Least(run[r].fetch[s].failures + 1, 2)
       IN  \/ \E status \in {"http_error", "timeout", "network_error"} : Got(r, s, "health", status, failures)
           \/ Got(r, s, "validator", "parse_error", failures)
    /\ UNCHANGED <<feed, starts, validator, health, published, dropped>>

(* Mutant of Validates: what is stored is the validator of the feed as it  *)
(* is when the answer has been read.                                       *)
ValidatesLate(s, f) == IF f.status = "parse_error" THEN Page ELSE feed[s]

Validates(s, f) == IF f.status = "parse_error" THEN Page ELSE f.version

(* storeRssSourceValidator, where a failure is passed over; the entries    *)
(* are only in the run's memory.                                           *)
Stores(r, s) ==
    LET f == run[r].fetch[s] IN
    /\ f.at = "validator"
    /\ \/ validator' = [validator EXCEPT ![s] = Validates(s, f)] /\ UNCHANGED faults
       \/ UNCHANGED validator /\ Fault
    /\ run' = [run EXCEPT ![r].fetch[s].at = "health",
                          ![r].items = IF f.status = "healthy" THEN @ \cup Entries(s, f.version) ELSE @]
    /\ UNCHANGED <<feed, starts, health, published, dropped>>

(* storeRssSourceHealth                                                    *)
Reports(r, s) ==
    LET f == run[r].fetch[s] IN
    /\ f.at = "health"
    /\ health' = [health EXCEPT ![s] = [status |-> f.status, failures |-> f.failures]]
    /\ run' = [run EXCEPT ![r].fetch[s] = [at |-> "done"]]
    /\ UNCHANGED <<feed, faults, starts, validator, published, dropped>>

Fetched(r) == run[r].at = "fetching" /\ \A s \in DOMAIN run[r].fetch : run[r].fetch[s].at = "done"

(* enrichNewsItemsForPublish, publishNewsWithCoordinator, with one item of *)
(* each address; nothing to publish ends the run.                          *)
Publishes(r) ==
    /\ Fetched(r)
    /\ published' = published \cup run[r].items
    /\ run' = [run EXCEPT ![r] = Idle]
    /\ UNCHANGED <<feed, faults, starts, validator, health, dropped>>

(* The publish fails, or the run ends anywhere.                            *)
Fails(r) ==
    /\ run[r] # Idle /\ Fault
    /\ dropped' = dropped \cup run[r].items
    /\ run' = [run EXCEPT ![r] = Idle]
    /\ UNCHANGED <<feed, starts, validator, health, published>>

FeedGrows(s) ==
    /\ feed[s] < MaxVersion
    /\ feed' = [feed EXCEPT ![s] = @ + 1]
    /\ UNCHANGED <<faults, starts, validator, health, run, published, dropped>>

(* The validator's time is over.                                           *)
ValidatorExpires(s) ==
    /\ validator[s] # None
    /\ validator' = [validator EXCEPT ![s] = None]
    /\ UNCHANGED <<feed, faults, starts, health, run, published, dropped>>

Init ==
    /\ feed = [s \in Sources |-> 1]
    /\ faults = 0 /\ starts = 0
    /\ validator = [s \in Sources |-> None]
    /\ health = [s \in Sources |-> [status |-> "none", failures |-> 0]]
    /\ run = [r \in Runs |-> Idle]
    /\ published = {} /\ dropped = {}

Next ==
    \/ \E r \in Runs :
          \/ Starts(r) \/ Publishes(r) \/ Fails(r)
          \/ /\ run[r].at = "fetching"
             /\ \E s \in DOMAIN run[r].fetch :
                   \/ Loads(r, s) \/ NotModified(r, s) \/ Modified(r, s)
                   \/ FetchFails(r, s) \/ Stores(r, s) \/ Reports(r, s)
    \/ \E s \in Sources : FeedGrows(s) \/ ValidatorExpires(s)

Spec == Init /\ [][Next]_vars

-----------------------------------------------------------------------------
Statuses == {"none", "healthy", "not_modified", "http_error", "timeout", "network_error", "parse_error"}

TypeOK ==
    /\ feed \in [Sources -> 1..MaxVersion]
    /\ validator \in [Sources -> 0..MaxVersion \cup {None}]
    /\ health \in [Sources -> [status : Statuses, failures : 0..2]]
    /\ faults \in 0..MaxFaults /\ starts \in 0..MaxRuns

(* While a stored validator says that a feed need not be fetched, what it  *)
(* shows is published, or about to be, or was lost with a run that failed. *)
SkippedIsPublished ==
    \A s \in Sources : validator[s] = feed[s] =>
        Entries(s, feed[s]) \subseteq published \cup dropped \cup
            UNION {run[r].items : r \in {q \in Runs : run[q] # Idle}}
=============================================================================
