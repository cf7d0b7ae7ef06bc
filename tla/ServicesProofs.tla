--------------------------- MODULE ServicesProofs ---------------------------
(***************************************************************************)
(* The services of MCServices that ComponentProofs is about: what it shows *)
(* of each holds of the instances there, so that the properties the run    *)
(* checks are proved for its specification.  For each instance there is a  *)
(* lemma Same..., that it is the one the proofs are about, and a lemma     *)
(* ...Kept, that its invariant is kept and what follows from it.           *)
(*                                                                         *)
(* Each instance of ComponentProofs serves several services, one of each   *)
(* component; the parameters of components that play no part in one stand  *)
(* for those declared here.                                                *)
(***************************************************************************)
EXTENDS MCServices, TLAPS

CONSTANTS
    Nonces, Ips, GuardMaxTime, MaxSkew, GuardNonceTtl, GuardWindow,
    GuardLimit, EventTtl, Day,
    ControlMaxTime, ControlMaxVersion, MaxSent, ControlMaxDeploys, Skew,
    ControlNonceTtl, ControlWindow, ControlLimit, ControlStale,
    Standard, Proactive, Chat, DefaultChat, Whales, IntelReaders, Fetches,
    MaxWorld, IntelMaxTime, IntelMaxFaults, MaxBusts, MaxAge, StaleWindow,
    Cooldown, Parallel,
    Routes, Callers, Minute, KeptFor, FreeLimit, TrialLimit, SubscriberLimit,
    TrialEnd, RatesMaxTime, MaxGrants,
    Messages, Home, Text, TextsForeign, Photos, Collected, TextsBase, Longest,
    TextsCacheTtl, RetryTtl, TextsMaxTime, TextsMaxFaults,
    CrmUsers, Writers, Builders, LogLimit, MaxWrites, CrmMaxFaults,
    Items, Channels, Scopes, Ttls, OutRequests, Connections, Escalation,
    MaxJobs, OutMaxTime, OutMaxFaults,
    FastLane, Rotating, RssBase, Region, Kind, Runs, PerRun, PerSource, Shown,
    RssMaxVersion, RssMaxFaults, MaxRuns,
    XpUsers, Person, XpRequests, XpMaxFaults,
    RtUsers, Login, Accounts, Edges, Backends, Tokens, RtMaxDeploys,
    RtMaxFaults,
    Tracks, AirRequests, MaxTracks, Refresh, AirStale, AirTimeout, AirMaxTime,
    MaxSky,
    Syncs, PageSize, MaxSubscriptions, Ttl, FigTimeout, MaxMade, FigMaxTime

VARIABLES
    guardNow, guardSigned, waiting, nonceLog, rateLog, buckets, guardAccepted,
    tookAt,
    controlNow, deployed, container, sent, wire, guarded, controlStored,
    nonces, hits, controlStatus, applied, twice, controlOverlapped,
    world, floor, intelNow, intelFaults, intelCache, intelStored, inFlight,
    cooldown, gen, intelFetch, intelReader, rewarm, alarm, refreshing,
    unsaved, servedOld,
    ratesNow, ratesStatus, count, caller, granted, allowed, ratesOverlapped,
    textsNow, posted, shown, rows, seen, textsCache, pause, scrape,
    textsFaults, textsLost, tried, early, apart,
    writes, crmFaults, crmAccount, log, summary, writer, builder, crmLost,
    logged, crmOverlapped,
    outNow, outFaults, mark, outRequest, outTold, heard, wrong,
    feed, rssFaults, starts, validator, health, run, published, dropped,
    xpFaults, db, session, xpCache, xpRequest, xpKept,
    rtEdge, backend, rtKnown, rtRequest, deploys, rtFaults,
    airNow, airCached, airRequest, sky,
    figNow, made, figCached, sync

(* None is no number, and none of the records that stand where it may.     *)
NoneAssumption ==
    /\ None \notin Int
    /\ \A E : None \notin [start : Nat, seen : [E -> Nat \cup {None}]]
    /\ None \notin [config : Nat, version : Nat, at : Nat]
    /\ None \notin [version : Nat, at : Nat]
    /\ None \notin [versions : SUBSET Nat, at : Nat]
    /\ None \notin [n : Nat, minute : Nat, until : Nat]
    /\ None \notin [text : {"own", "english"}, media : {"far", "near"}]
    /\ None \notin [fails : Nat, next : Nat, at : Nat]
    /\ None \notin [fails : Nat, at : Nat]
    /\ None \notin [response : [value : Nat, length : Nat], until : Nat]
    /\ None \notin [value : Nat, length : Nat]
    /\ \A A, L : None \notin [account : A, log : L, crossed : BOOLEAN]

-----------------------------------------------------------------------------
(* A step of the services is one of the service that runs, or none.        *)
LEMMA OneService ==
    ASSUME [ServicesNext]_serviceVars
    PROVE  /\ part' = part
           /\ part = "guarded" => [Guarded!Next]_(Guarded!vars)
           /\ part = "webhooks" => [Webhooks!Next]_(Webhooks!vars)
           /\ part = "control" => [Control!Next]_(Control!vars)
           /\ part = "deployed" => [Deployed!Next]_(Deployed!vars)
           /\ part = "feeds" => [Feeds!Next]_(Feeds!vars)
           /\ part = "chats" => [Chats!Next]_(Chats!vars)
           /\ part = "rates" => [Rates!Next]_(Rates!vars)
           /\ part = "queued" => [Queued!Next]_(Queued!vars)
           /\ part = "cached" => [Cached!Next]_(Cached!vars)
           /\ part = "proxied" => [Proxied!Next]_(Proxied!vars)
           /\ part = "crm" => [Crm!Next]_(Crm!vars)
           /\ part = "pauses" => [Pauses!Next]_(Pauses!vars)
           /\ part = "texts" => [Texts!Next]_(Texts!vars)
           /\ part = "figures" => [Figures!Next]_(Figures!vars)
           /\ part = "aircraft" => [Aircraft!Next]_(Aircraft!vars)
<1>1. part' = part
  BY DEF ServicesNext, serviceVars
<1>2. CASE ServicesNext
  BY <1>1, <1>2 DEF ServicesNext
<1>3. CASE UNCHANGED serviceVars
  <2>1. UNCHANGED <<x1, x2, x3, x4, x5, x6, x7, x8, x9, x10, x11, x12, x13, x14, x15, x16>>
    BY <1>3 DEF serviceVars, xs
  <2> QED BY <1>1, <2>1
      DEF Guarded!vars, Guarded!admin, Guarded!webhook, Webhooks!vars, Webhooks!admin, Webhooks!webhook,
          Control!vars, Control!guard, Control!history, Deployed!vars, Deployed!guard, Deployed!history,
          Feeds!vars, Feeds!env, Feeds!memory, Chats!vars, Chats!env, Chats!memory,
          Rates!vars, Pauses!vars, Texts!vars,
          Queued!vars, Cached!vars, Proxied!vars, Crm!vars, Figures!vars, Aircraft!vars
<1> QED BY <1>2, <1>3

-----------------------------------------------------------------------------
(* One service of each component.                                          *)
First == INSTANCE ComponentProofs WITH
    guardNow <- x1, guardSigned <- x2, waiting <- x3, nonceLog <- x4, rateLog <- x5,
    guardAccepted <- x6, buckets <- x7, tookAt <- x8, Nonces <- {"n1", "n2"}, Ips <- {"i"},
    Events <- {}, GuardMaxTime <- 4, MaxSkew <- 1, GuardNonceTtl <- 2, GuardWindow <- 2,
    GuardLimit <- 1, EventTtl <- 3, Day <- 1,
    controlNow <- x1, deployed <- x2, container <- x3, sent <- x4, wire <- x5, guarded <- x6,
    controlStored <- x7, nonces <- x8, hits <- x9, controlStatus <- x10, applied <- x11,
    twice <- x12, controlOverlapped <- x13, ControlMaxTime <- 3, ControlMaxVersion <- 1,
    MaxSent <- 2, ControlMaxDeploys <- 1, Skew <- 1, ControlNonceTtl <- 2, ControlWindow <- 2,
    ControlLimit <- 2, ControlStale <- 1,
    world <- x1, floor <- x2, intelNow <- x3, intelFaults <- x4, unsaved <- x5, intelCache <- x6,
    inFlight <- x7, cooldown <- x8, gen <- x9, intelStored <- x10, intelFetch <- x11,
    intelReader <- x12, rewarm <- x13, alarm <- x14, refreshing <- x15, servedOld <- x16,
    Standard <- {"briefs"}, Proactive <- {"briefs"}, Chat <- {}, DefaultChat <- {}, Whales <- {},
    IntelReaders <- {"r"}, Fetches <- 1..3, Parallel <- 2, MaxWorld <- 1, IntelMaxTime <- 2,
    IntelMaxFaults <- 1, MaxBusts <- 1, MaxAge <- 1, StaleWindow <- 2, Cooldown <- 1,
    ratesNow <- x1, ratesStatus <- x2, count <- x3, caller <- x4, granted <- x5, allowed <- x6,
    ratesOverlapped <- x7, Routes <- {"news"}, Callers <- {1, 2}, Minute <- 2, KeptFor <- 4,
    FreeLimit <- 1, TrialLimit <- 2, SubscriberLimit <- 3, TrialEnd <- 2, RatesMaxTime <- 3,
    MaxGrants <- 4,
    textsNow <- x1, posted <- x2, shown <- x3, rows <- x4, seen <- x5, textsCache <- x6,
    pause <- x7, scrape <- x8, textsFaults <- x9, textsLost <- x10, tried <- x11, early <- x12,
    apart <- x13,
    Messages <- {1}, Home <- <<"a">>, Text <- <<"t">>, TextsForeign <- {}, Photos <- {1},
    Collected <- {}, TextsBase <- 1, Longest <- 2, TextsCacheTtl <- 1, RetryTtl <- 3,
    TextsMaxTime <- 6, TextsMaxFaults <- 1,
    usageNow <- x1, usageFaults <- x2, seeds <- x3, kv <- x4, queue <- x5, seeder <- x6,
    usageEdge <- x7, usageReader <- x8, usageAccepted <- x9, written <- x10, lastHad <- x11,
    outdated <- x12, attempts <- x13, QueueRetries <- 1,
    Keys <- {"k", "l"}, Windows <- {}, UsageForeign <- "foreign", Limits <- {1},
    UsageReaders <- {}, Async <- TRUE, UsageCacheTtl <- 0, MaxRetries <- 1, Remote <- FALSE,
    BatchSize <- 1, Deadline <- 1, MaxSeeds <- 2, MaxEntries <- 2, UsageMaxTime <- 0,
    UsageMaxFaults <- 2,
    writes <- x1, crmFaults <- x2, crmAccount <- x3, log <- x4, summary <- x5, writer <- x6,
    builder <- x7, crmLost <- x8, logged <- x9, crmOverlapped <- x10, CrmUsers <- {1, 2},
    Writers <- {1, 2}, Builders <- {1}, LogLimit <- 1, MaxWrites <- 2, CrmMaxFaults <- 1,
    figNow <- x1, made <- x2, figCached <- x3, sync <- x4, Syncs <- {1}, PageSize <- 1,
    MaxSubscriptions <- 2, Ttl <- 1, FigTimeout <- 1, MaxMade <- 3, FigMaxTime <- 4,
    airNow <- x1, airCached <- x2, airRequest <- x3, sky <- x4,
    Tracks <- {
        [emergency |-> TRUE, military |-> FALSE, zone |-> FALSE, ground |-> TRUE, speed |-> 0, altitude |-> 0, age |-> 720],
        [emergency |-> TRUE, military |-> FALSE, zone |-> FALSE, ground |-> FALSE, speed |-> 300, altitude |-> 30000, age |-> 1300],
        [emergency |-> FALSE, military |-> TRUE, zone |-> TRUE, ground |-> FALSE, speed |-> 600, altitude |-> 60000, age |-> 0],
        [emergency |-> FALSE, military |-> FALSE, zone |-> TRUE, ground |-> FALSE, speed |-> 600, altitude |-> 60000, age |-> 240]},
    AirRequests <- {1, 2}, MaxTracks <- 1, Refresh <- 1, AirStale <- 2, AirTimeout <- 1,
    AirMaxTime <- 4, MaxSky <- 2

LEMMA SameGuarded ==
    /\ Guarded!Init => First!Guard!Init
    /\ [Guarded!Next]_(Guarded!vars) => [First!Guard!Next]_(First!Guard!vars)
<1>1. Guarded!Init => First!Guard!Init
  BY ZenonT(30) DEF Guarded!Init, Guarded!Slots, Guarded!BucketCount, Guarded!BucketLength,
      First!Guard!Init, First!Guard!Slots, First!Guard!BucketCount, First!Guard!BucketLength
<1>2. Guarded!Next => First!Guard!Next
  BY ZenonT(30) DEF Guarded!Next, Guarded!Sign, Guarded!Verify, Guarded!Refuse, Guarded!Accept,
      Guarded!StopsAfterHit, Guarded!Take, Guarded!RefuseDuplicate, Guarded!StopsBetweenSlots,
      Guarded!Tick, Guarded!admin, Guarded!webhook, Guarded!WithinSkew, Guarded!Kept, Guarded!Hits,
      Guarded!CountHit, Guarded!Refused, Guarded!BucketLength, Guarded!BucketCount, Guarded!Slots,
      Guarded!CurrentStart, Guarded!CurrentSlot, Guarded!Empty, Guarded!Remembered, Guarded!Active,
      Guarded!Duplicate, Guarded!CurrentSeen, Guarded!Swept, Guarded!Written, First!Guard!Next,
      First!Guard!Sign, First!Guard!Verify, First!Guard!Refuse, First!Guard!Accept,
      First!Guard!StopsAfterHit, First!Guard!Take, First!Guard!RefuseDuplicate,
      First!Guard!StopsBetweenSlots, First!Guard!Tick, First!Guard!admin, First!Guard!webhook,
      First!Guard!WithinSkew, First!Guard!Kept, First!Guard!Hits, First!Guard!CountHit,
      First!Guard!Refused, First!Guard!BucketLength, First!Guard!BucketCount, First!Guard!Slots,
      First!Guard!CurrentStart, First!Guard!CurrentSlot, First!Guard!Empty, First!Guard!Remembered,
      First!Guard!Active, First!Guard!Duplicate, First!Guard!CurrentSeen, First!Guard!Swept,
      First!Guard!Written
<1>3. UNCHANGED Guarded!vars => UNCHANGED First!Guard!vars
  BY ZenonT(30) DEF Guarded!vars, Guarded!admin, Guarded!webhook, First!Guard!vars,
      First!Guard!admin, First!Guard!webhook
<1> QED BY <1>1, <1>2, <1>3

LEMMA GuardedKept ==
    ASSUME NoneAssumption
    PROVE  /\ Guarded!Init => First!GuardInv
           /\ First!GuardInv /\ [Guarded!Next]_(Guarded!vars) => First!GuardInv'
           /\ First!GuardInv => Guarded!AcceptedOnce
<1>1. First!GuardAssumption
  <2>1. [start : 0..4, seen : [{} -> 0..4 \cup {None}]]
            \subseteq [start : Nat, seen : [{} -> Nat \cup {None}]]
    OBVIOUS
  <2> QED BY <2>1 DEF NoneAssumption, First!GuardAssumption
<1>2. Guarded!Init => First!GuardInv
  BY <1>1, SameGuarded, First!GuardInit
<1>3. First!GuardInv /\ [Guarded!Next]_(Guarded!vars) => First!GuardInv'
  BY <1>1, SameGuarded, First!GuardStep
<1>4. First!GuardInv => Guarded!AcceptedOnce
  BY DEF First!GuardInv, First!SignedInv, Guarded!AcceptedOnce
<1> QED BY <1>2, <1>3, <1>4

LEMMA SameControl ==
    /\ Control!Init => First!Control!Init
    /\ [Control!Next]_(Control!vars) => [First!Control!Next]_(First!Control!vars)
<1>1. Control!Init => First!Control!Init
  BY ZenonT(30) DEF Control!Init, Control!Config, Control!Kind, Control!Idle, First!Control!Init,
      First!Control!Config, First!Control!Kind, First!Control!Idle
<1>2. Control!Next => First!Control!Next
  BY ZenonT(30) DEF Control!Next, Control!Change, Control!Signed, Control!Push, Control!AskReset,
      Control!Deploy, Control!Sleeps, Control!Guard, Control!Drop, Control!Apply,
      Control!StatusAsks, Control!StatusFetches, Control!StatusWrites, Control!StatusFails,
      Control!Tick, Control!guard, Control!history, Control!Config, Control!Kind, Control!Idle,
      Control!Payload, Control!Default, Control!IsStored, Control!Update, Control!Underway,
      Control!WithinSkew, Control!Remembered, Control!Hits, Control!Passes, Control!Fresh,
      First!Control!Next, First!Control!Change, First!Control!Signed, First!Control!Push,
      First!Control!AskReset, First!Control!Deploy, First!Control!Sleeps, First!Control!Guard,
      First!Control!Drop, First!Control!Apply, First!Control!StatusAsks,
      First!Control!StatusFetches, First!Control!StatusWrites, First!Control!StatusFails,
      First!Control!Tick, First!Control!guard, First!Control!history, First!Control!Config,
      First!Control!Kind, First!Control!Idle, First!Control!Payload, First!Control!Default,
      First!Control!IsStored, First!Control!Update, First!Control!Underway,
      First!Control!WithinSkew, First!Control!Remembered, First!Control!Hits, First!Control!Passes,
      First!Control!Fresh
<1>3. UNCHANGED Control!vars => UNCHANGED First!Control!vars
  BY ZenonT(30) DEF Control!vars, Control!guard, Control!history, First!Control!vars,
      First!Control!guard, First!Control!history
<1> QED BY <1>1, <1>2, <1>3

LEMMA ControlKept ==
    ASSUME NoneAssumption
    PROVE  /\ Control!Init => First!ControlInv
           /\ First!ControlInv /\ [Control!Next]_(Control!vars) => First!ControlInv'
           /\ First!ControlInv => Control!AppliedOnce
           /\ First!ControlInv /\ [Control!Next]_(Control!vars) => (Control!Regresses => Control!Overlap)
<1>1. First!ControlAssumption
  BY DEF NoneAssumption, First!ControlAssumption, First!Pushed, First!Control!Config
<1>2. Control!Init => First!ControlInv
  BY <1>1, SameControl, First!ControlInit
<1>3. First!ControlInv /\ [Control!Next]_(Control!vars) => First!ControlInv'
  BY <1>1, SameControl, First!ControlStep
<1>4. First!ControlInv => Control!AppliedOnce
  BY DEF First!ControlInv, First!EffectInv, Control!AppliedOnce
<1>5. First!ControlInv /\ [Control!Next]_(Control!vars) => (Control!Regresses => Control!Overlap)
  <2> SUFFICES ASSUME First!ControlInv, [Control!Next]_(Control!vars), Control!Regresses PROVE Control!Overlap
    OBVIOUS
  <2>1. First!Control!Regresses
    BY DEF Control!Regresses, First!Control!Regresses
  <2>2. First!Control!Overlap
    BY <1>1, <2>1, SameControl, First!RegressesAfterOverlap
  <2> QED BY <2>2 DEF Control!Overlap, First!Control!Overlap
<1> QED BY <1>2, <1>3, <1>4, <1>5

LEMMA SameFeeds ==
    /\ Feeds!Init => First!Intel!Init
    /\ [Feeds!Next]_(Feeds!vars) => [First!Intel!Next]_(First!Intel!vars)
<1>1. Feeds!Init => First!Intel!Init
  BY ZenonT(30) DEF Feeds!Init, Feeds!Endpoint, Feeds!NoKeys, Feeds!Idle, First!Intel!Init,
      First!Intel!Endpoint, First!Intel!NoKeys, First!Intel!Idle
<1>2. Feeds!Next => First!Intel!Next
  <2>1. \A S : Feeds!Cardinality(S) = First!Intel!Cardinality(S)
    BY ZenonT(30) DEF Feeds!Cardinality, First!Intel!Cardinality
  <2>2. /\ Feeds!Idle = First!Intel!Idle /\ Feeds!Endpoint = First!Intel!Endpoint
        /\ \A E : Feeds!Starting(E) = First!Intel!Starting(E)
        /\ \A E : Feeds!Pick(E) = First!Intel!Pick(E)
        /\ \A E, n : Feeds!Launch(E, n) => First!Intel!Launch(E, n)
        /\ \A E : Feeds!Joined(E) = First!Intel!Joined(E)
        /\ \A e : Feeds!Retries(e) = First!Intel!Retries(e)
    BY <2>1, ZenonT(30) DEF Feeds!Idle, Feeds!Endpoint, Feeds!Starting, Feeds!FreeFetches,
        Feeds!Pick, Feeds!Launch, Feeds!Joined, Feeds!Retries, First!Intel!Idle,
        First!Intel!Endpoint, First!Intel!Starting, First!Intel!FreeFetches, First!Intel!Pick,
        First!Intel!Launch, First!Intel!Joined, First!Intel!Retries
  <2>3. /\ \A S : Feeds!Max(S) = First!Intel!Max(S)
        /\ \A k : Feeds!Loaded(k) = First!Intel!Loaded(k)
        /\ \A e : Feeds!Found(e) = First!Intel!Found(e)
        /\ \A x : Feeds!AsEntry(x) = First!Intel!AsEntry(x)
    BY ZenonT(30) DEF Feeds!Max, Feeds!Loaded, Feeds!AsEntry, Feeds!Found, First!Intel!Max,
        First!Intel!Loaded, First!Intel!AsEntry, First!Intel!Found
  <2>4. \A f, x : Feeds!Settle(f, x) => First!Intel!Settle(f, x)
    BY ZenonT(30) DEF Feeds!Settle, Feeds!Settled, Feeds!Idle, Feeds!Endpoint, First!Intel!Settle,
        First!Intel!Settled, First!Intel!Idle, First!Intel!Endpoint
  <2>5. \A e : Feeds!ReadHit(e) => First!Intel!ReadHit(e)
    BY <2>3, ZenonT(30) DEF Feeds!ReadHit, Feeds!Serve, Feeds!Age, Feeds!env, First!Intel!ReadHit,
        First!Intel!Serve, First!Intel!Age, First!Intel!env
  <2>6. \A e : Feeds!ReadStale(e) => First!Intel!ReadStale(e)
    BY <2>2, <2>3, ZenonT(30) DEF Feeds!ReadStale, Feeds!RefreshBehind, Feeds!Serve, Feeds!Age,
        Feeds!env, First!Intel!ReadStale, First!Intel!RefreshBehind, First!Intel!Serve,
        First!Intel!Age, First!Intel!env
  <2>7. \A r, e : Feeds!ReadWaits(r, e) => First!Intel!ReadWaits(r, e)
    BY <2>2, <2>3, ZenonT(30) DEF Feeds!ReadWaits, Feeds!Age, Feeds!env, First!Intel!ReadWaits,
        First!Intel!Age, First!Intel!env
  <2>8. \A f : Feeds!Answer(f) => First!Intel!Answer(f)
    BY ZenonT(30) DEF Feeds!Answer, Feeds!env, Feeds!memory, First!Intel!Answer, First!Intel!env,
        First!Intel!memory
  <2>9. \A f : Feeds!Receive(f) => First!Intel!Receive(f)
    BY <2>4, ZenonT(30) DEF Feeds!Receive, Feeds!Current, Feeds!Saved, Feeds!SavedWhales,
        Feeds!Chunks, Feeds!env, First!Intel!Receive, First!Intel!Current, First!Intel!Saved,
        First!Intel!SavedWhales, First!Intel!Chunks, First!Intel!env
  <2>10. \A f : Feeds!ReceiveOld(f) => First!Intel!ReceiveOld(f)
    BY <2>4, ZenonT(30) DEF Feeds!ReceiveOld, Feeds!Current, Feeds!env, First!Intel!ReceiveOld,
        First!Intel!Current, First!Intel!env
  <2>11. \A f : Feeds!FetchFails(f) => First!Intel!FetchFails(f)
    BY <2>2, <2>4, ZenonT(30) DEF Feeds!FetchFails, Feeds!Fault, Feeds!Current,
        First!Intel!FetchFails, First!Intel!Fault, First!Intel!Current
  <2>12. Feeds!Bust => First!Intel!Bust
    BY <2>2, ZenonT(30) DEF Feeds!Bust, Feeds!Deleted, Feeds!RewarmTargets, Feeds!ChatVariants,
        Feeds!NoKeys, First!Intel!Bust, First!Intel!Deleted, First!Intel!RewarmTargets,
        First!Intel!ChatVariants, First!Intel!NoKeys
  <2>13. Feeds!RewarmBatch => First!Intel!RewarmBatch
    BY <2>1, <2>2, ZenonT(30) DEF Feeds!RewarmBatch, Feeds!env, First!Intel!RewarmBatch,
        First!Intel!env
  <2>14. Feeds!AlarmFires => First!Intel!AlarmFires
    BY <2>2, ZenonT(30) DEF Feeds!AlarmFires, Feeds!Due, Feeds!Age, Feeds!env,
        First!Intel!AlarmFires, First!Intel!Due, First!Intel!Age, First!Intel!env
  <2>15. (Feeds!AlarmEnds => First!Intel!AlarmEnds) /\ (Feeds!Health => First!Intel!Health)
    BY ZenonT(30) DEF Feeds!AlarmEnds, Feeds!Health, Feeds!env, Feeds!memory,
        First!Intel!AlarmEnds, First!Intel!Health, First!Intel!env, First!Intel!memory
  <2>16. Feeds!Restart => First!Intel!Restart
    BY <2>2, <2>3, ZenonT(30) DEF Feeds!Restart, Feeds!Fault, First!Intel!Restart,
        First!Intel!Fault
  <2>17. (Feeds!Publish => First!Intel!Publish) /\ (Feeds!Tick => First!Intel!Tick)
    BY ZenonT(30) DEF Feeds!Publish, Feeds!Tick, Feeds!memory, First!Intel!Publish,
        First!Intel!Tick, First!Intel!memory
  <2> QED BY <2>2, <2>5, <2>6, <2>7, <2>8, <2>9, <2>10, <2>11, <2>12, <2>13, <2>14, <2>15, <2>16, <2>17 DEF Feeds!Next, First!Intel!Next
<1>3. UNCHANGED Feeds!vars => UNCHANGED First!Intel!vars
  BY ZenonT(30) DEF Feeds!vars, Feeds!env, Feeds!memory, First!Intel!vars, First!Intel!env,
      First!Intel!memory
<1> QED BY <1>1, <1>2, <1>3

LEMMA FeedsKept ==
    ASSUME NoneAssumption
    PROVE  /\ Feeds!Init => First!CacheInv
           /\ First!CacheInv /\ [Feeds!Next]_(Feeds!vars) => First!CacheInv'
           /\ First!CacheInv => Feeds!NothingFromBeforeBust
           /\ First!CacheInv => Feeds!RestartKeeps
<1>1. First!CacheAssumption
  BY DEF NoneAssumption, First!CacheAssumption, First!Dated
<1>2. Feeds!Init => First!CacheInv
  BY <1>1, SameFeeds, First!CacheInit
<1>3. First!CacheInv /\ [Feeds!Next]_(Feeds!vars) => First!CacheInv'
  BY <1>1, SameFeeds, First!CacheStep
<1>4. First!CacheInv => Feeds!NothingFromBeforeBust
  <2>1. First!CacheInv => First!Intel!NothingFromBeforeBust
    BY <1>1, First!CacheImplies
  <2> QED
    BY <2>1 DEF Feeds!NothingFromBeforeBust, Feeds!Endpoint, Feeds!Loaded,
        First!Intel!NothingFromBeforeBust, First!Intel!Endpoint, First!Intel!Loaded
<1>5. First!CacheInv => Feeds!RestartKeeps
  <2>1. First!CacheInv => First!Intel!RestartKeeps
    BY <1>1, First!CacheImplies
  <2> QED
    BY <2>1, ZenonT(30) DEF Feeds!RestartKeeps, Feeds!Endpoint, Feeds!Loaded, Feeds!AsEntry,
        Feeds!Max, First!Intel!RestartKeeps, First!Intel!Endpoint, First!Intel!Loaded,
        First!Intel!AsEntry, First!Intel!Max
<1> QED BY <1>2, <1>3, <1>4, <1>5

LEMMA SameRates ==
    /\ Rates!Init => First!Rates!Init
    /\ [Rates!Next]_(Rates!vars) => [First!Rates!Next]_(First!Rates!vars)
<1>1. Rates!Init => First!Rates!Init
  BY ZenonT(30) DEF Rates!Init, Rates!Idle, First!Rates!Init, First!Rates!Idle
<1>2. Rates!Next => First!Rates!Next
  BY ZenonT(30) DEF Rates!Next, Rates!Asks, Rates!Reads, Rates!Writes, Rates!Throws,
      Rates!AccountChanges, Rates!Tick, Rates!Idle, Rates!Tier, Rates!RateLimitPerMinute,
      Rates!Stored, Rates!CurrentCount, First!Rates!Next, First!Rates!Asks, First!Rates!Reads,
      First!Rates!Writes, First!Rates!Throws, First!Rates!AccountChanges, First!Rates!Tick,
      First!Rates!Idle, First!Rates!Tier, First!Rates!RateLimitPerMinute, First!Rates!Stored,
      First!Rates!CurrentCount
<1>3. UNCHANGED Rates!vars => UNCHANGED First!Rates!vars
  BY ZenonT(30) DEF Rates!vars, First!Rates!vars
<1> QED BY <1>1, <1>2, <1>3

LEMMA RatesKept ==
    ASSUME NoneAssumption
    PROVE  /\ Rates!Init => First!RateInv
           /\ First!RateInv /\ [Rates!Next]_(Rates!vars) => First!RateInv'
           /\ First!RateInv => Rates!WithinLimit
<1>1. First!RateAssumption
  BY DEF NoneAssumption, First!RateAssumption
<1>2. Rates!Init => First!RateInv
  BY <1>1, SameRates, First!RateInit
<1>3. First!RateInv /\ [Rates!Next]_(Rates!vars) => First!RateInv'
  BY <1>1, SameRates, First!RateStep
<1>4. First!RateInv => Rates!WithinLimit
  BY DEF First!RateInv, First!GrantedInv, Rates!WithinLimit
<1> QED BY <1>2, <1>3, <1>4

LEMMA SamePauses ==
    /\ Pauses!Init => First!Texts!Init
    /\ [Pauses!Next]_(Pauses!vars) => [First!Texts!Next]_(First!Texts!vars)
<1>1. Pauses!Init => First!Texts!Init
  BY ZenonT(30) DEF Pauses!Init, Pauses!Idle, Pauses!Kinds, First!Texts!Init, First!Texts!Idle,
      First!Texts!Kinds
<1>2. Pauses!Next => First!Texts!Next
  <2>1. \A s, f : Pauses!Begins(s, f) => First!Texts!Begins(s, f)
    BY ZenonT(30) DEF Pauses!Begins, Pauses!Idle, Pauses!New, First!Texts!Begins, First!Texts!Idle,
        First!Texts!New
  <2>2. Pauses!Translates => First!Texts!Translates
    BY ZenonT(30) DEF Pauses!Translates, Pauses!Idle, Pauses!Cached, Pauses!ToTranslate,
        Pauses!MayTry, Pauses!Batches, Pauses!Outputs, Pauses!Retried, Pauses!Translations,
        Pauses!Accepted, Pauses!InEnglish, Pauses!Noted, Pauses!Pause, Pauses!Doubled,
        First!Texts!Translates, First!Texts!Idle, First!Texts!Cached, First!Texts!ToTranslate,
        First!Texts!MayTry, First!Texts!Batches, First!Texts!Outputs, First!Texts!Retried,
        First!Texts!Translations, First!Texts!Accepted, First!Texts!InEnglish, First!Texts!Noted,
        First!Texts!Pause, First!Texts!Doubled
  <2>3. Pauses!Backfills => First!Texts!Backfills
    BY ZenonT(30) DEF Pauses!Backfills, Pauses!Batches, Pauses!Outputs, Pauses!Retried,
        Pauses!Translations, Pauses!Accepted, Pauses!InEnglish, Pauses!Paused, Pauses!Failed,
        Pauses!Counted, Pauses!Pause, Pauses!Doubled, First!Texts!Backfills, First!Texts!Batches,
        First!Texts!Outputs, First!Texts!Retried, First!Texts!Translations, First!Texts!Accepted,
        First!Texts!InEnglish, First!Texts!Paused, First!Texts!Failed, First!Texts!Counted,
        First!Texts!Pause, First!Texts!Doubled
  <2>4. Pauses!Builds => First!Texts!Builds
    BY ZenonT(30) DEF Pauses!Builds, Pauses!Built, Pauses!MayTry, Pauses!Noted, Pauses!Pause,
        Pauses!Doubled, First!Texts!Builds, First!Texts!Built, First!Texts!MayTry,
        First!Texts!Noted, First!Texts!Pause, First!Texts!Doubled
  <2>5. Pauses!Copies => First!Texts!Copies
    BY ZenonT(30) DEF Pauses!Copies, Pauses!Paused, Pauses!Failed, Pauses!Counted, Pauses!Pause,
        Pauses!Doubled, First!Texts!Copies, First!Texts!Paused, First!Texts!Failed,
        First!Texts!Counted, First!Texts!Pause, First!Texts!Doubled
  <2>6. Pauses!Persists => First!Texts!Persists
    BY ZenonT(30) DEF Pauses!Persists, Pauses!Written, First!Texts!Persists,
        First!Texts!Written
  <2>7. Pauses!Saves => First!Texts!Saves
    BY ZenonT(30) DEF Pauses!Saves, Pauses!Kinds, Pauses!Idle, First!Texts!Saves,
        First!Texts!Kinds, First!Texts!Idle
  <2>8. Pauses!Dies => First!Texts!Dies
    BY ZenonT(30) DEF Pauses!Dies, Pauses!Idle, Pauses!Fault, First!Texts!Dies, First!Texts!Idle,
        First!Texts!Fault
  <2>9. \A m, v : Pauses!Collects(m, v) => First!Texts!Collects(m, v)
    BY ZenonT(30) DEF Pauses!Collects, Pauses!Idle, Pauses!Written,
        First!Texts!Collects, First!Texts!Idle, First!Texts!Written
  <2>10. (\A m : Pauses!Posts(m) => First!Texts!Posts(m)) /\ (Pauses!Tick => First!Texts!Tick)
    BY ZenonT(30) DEF Pauses!Posts, Pauses!Tick, First!Texts!Posts, First!Texts!Tick
  <2> QED BY <2>1, <2>2, <2>3, <2>4, <2>5, <2>6, <2>7, <2>8, <2>9, <2>10 DEF Pauses!Next, First!Texts!Next, Pauses!Channels, First!Texts!Channels, Pauses!Versions, First!Texts!Versions
<1>3. UNCHANGED Pauses!vars => UNCHANGED First!Texts!vars
  BY ZenonT(30) DEF Pauses!vars, First!Texts!vars
<1> QED BY <1>1, <1>2, <1>3

LEMMA PausesKept ==
    ASSUME NoneAssumption
    PROVE  /\ Pauses!Init => First!TextsInv
           /\ First!TextsInv /\ [Pauses!Next]_(Pauses!vars) => First!TextsInv'
           /\ First!TextsInv => Pauses!ApartByPause
           /\ First!TextsInv => Pauses!RowsAgree
<1>1. First!TextsAssumption
  BY DEF NoneAssumption, First!TextsAssumption, First!Texts!Versions
<1>2. Pauses!Init => First!TextsInv
  BY <1>1, SamePauses, First!TextsInit
<1>3. First!TextsInv /\ [Pauses!Next]_(Pauses!vars) => First!TextsInv'
  BY <1>1, SamePauses, First!TextsStep
<1>4. First!TextsInv => Pauses!ApartByPause
  BY DEF First!TextsInv, First!PauseInv, Pauses!ApartByPause
<1>5. First!TextsInv => Pauses!RowsAgree
  BY DEF First!TextsInv, First!RowsInv, First!Texts!RowsAgree, First!Texts!Unsaved, Pauses!RowsAgree, Pauses!Unsaved
<1> QED BY <1>2, <1>3, <1>4, <1>5

LEMMA SameQueued ==
    /\ Queued!Init => First!Usage!Init
    /\ [Queued!Next]_(Queued!vars) => [First!Usage!Next]_(First!Usage!vars)
<1>1. Queued!Init => First!Usage!Init
  BY ZenonT(30) DEF Queued!Init, Queued!Idle, Queued!Messages, First!Usage!Init, First!Usage!Idle,
      First!Usage!Messages
<1>2. Queued!Next => First!Usage!Next
  BY ZenonT(30) DEF Queued!Next, Queued!Seed, Queued!SendBatch, Queued!PutEntry,
      Queued!SeedAccepted, Queued!SeedFails, Queued!Consume, Queued!ConsumeFails, Queued!ReadKv,
      Queued!CacheAnswer, Queued!ReadRemote, Queued!RemoteFails, Queued!ReadFails, Queued!Ask,
      Queued!Warm, Queued!Tick, Queued!Idle, Queued!Valid, Queued!Entries, Queued!Had, Queued!Puts,
      Queued!Sends, Queued!Fault, Queued!AfterPutFailed, Queued!Response, Queued!CacheKey,
      Queued!Answered, First!Usage!Next, First!Usage!Seed, First!Usage!SendBatch,
      First!Usage!PutEntry, First!Usage!SeedAccepted, First!Usage!SeedFails, First!Usage!Consume,
      First!Usage!ConsumeFails, First!Usage!ReadKv, First!Usage!CacheAnswer,
      First!Usage!ReadRemote, First!Usage!RemoteFails, First!Usage!ReadFails, First!Usage!Ask,
      First!Usage!Warm, First!Usage!Tick, First!Usage!Idle, First!Usage!Valid, First!Usage!Entries,
      First!Usage!Had, First!Usage!Puts, First!Usage!Sends, First!Usage!Fault,
      First!Usage!AfterPutFailed, First!Usage!Response, First!Usage!CacheKey, First!Usage!Answered
<1>3. UNCHANGED Queued!vars => UNCHANGED First!Usage!vars
  BY ZenonT(30) DEF Queued!vars, First!Usage!vars
<1> QED BY <1>1, <1>2, <1>3

LEMMA QueuedKept ==
    ASSUME NoneAssumption
    PROVE  /\ Queued!Init => First!UsageInv
           /\ First!UsageInv /\ [Queued!Next]_(Queued!vars) => First!UsageInv'
           /\ First!UsageInv => Queued!AcceptedKept
           /\ First!UsageInv => Queued!FreshEnough
<1>1. First!UsageAssumption
  BY DEF NoneAssumption, First!UsageAssumption
<1>2. Queued!Init => First!UsageInv
  BY <1>1, SameQueued, First!UsageInit
<1>3. First!UsageInv /\ [Queued!Next]_(Queued!vars) => First!UsageInv'
  BY <1>1, SameQueued, First!UsageStep
<1>4. First!UsageInv => Queued!AcceptedKept
  BY DEF First!UsageInv, First!SeedInv, First!Undelivered, Queued!AcceptedKept
<1>5. First!UsageInv => Queued!FreshEnough
  BY DEF First!UsageInv, First!AnswersInv, Queued!FreshEnough
<1> QED BY <1>2, <1>3, <1>4, <1>5

LEMMA SameCrm ==
    /\ Crm!Init => First!Crm!Init
    /\ [Crm!Next]_(Crm!vars) => [First!Crm!Next]_(First!Crm!vars)
<1>1. Crm!Init => First!Crm!Init
  BY ZenonT(30) DEF Crm!Init, Crm!Idle, First!Crm!Init, First!Crm!Idle
<1>2. Crm!Next => First!Crm!Next
  BY ZenonT(30) DEF Crm!Next, Crm!Changes, Crm!Opens, Crm!Starts, Crm!Working, Crm!Saves,
      Crm!Deleted, Crm!Refreshes, Crm!Loads, Crm!Newest, Crm!Logged, Crm!Logs, Crm!Clears,
      Crm!WriterFails, Crm!Fault, Crm!Builds, Crm!ReadsAccount, Crm!ReadsLog, Crm!Keeps,
      Crm!BuilderFails, Crm!Expires, Crm!Idle, Crm!Cardinality, First!Crm!Next, First!Crm!Changes,
      First!Crm!Opens, First!Crm!Starts, First!Crm!Working, First!Crm!Saves, First!Crm!Deleted,
      First!Crm!Refreshes, First!Crm!Loads, First!Crm!Newest, First!Crm!Logged, First!Crm!Logs,
      First!Crm!Clears, First!Crm!WriterFails, First!Crm!Fault, First!Crm!Builds,
      First!Crm!ReadsAccount, First!Crm!ReadsLog, First!Crm!Keeps, First!Crm!BuilderFails,
      First!Crm!Expires, First!Crm!Idle, First!Crm!Cardinality
<1>3. UNCHANGED Crm!vars => UNCHANGED First!Crm!vars
  BY ZenonT(30) DEF Crm!vars, First!Crm!vars
<1> QED BY <1>1, <1>2, <1>3

LEMMA CrmKept ==
    ASSUME NoneAssumption
    PROVE  /\ Crm!Init => First!CrmInv
           /\ First!CrmInv /\ [Crm!Next]_(Crm!vars) => First!CrmInv'
           /\ First!CrmInv => Crm!LogKept
<1>1. First!CrmAssumption
  BY DEF NoneAssumption, First!CrmAssumption
<1>2. Crm!Init => First!CrmInv
  BY <1>1, SameCrm, First!CrmInit
<1>3. First!CrmInv /\ [Crm!Next]_(Crm!vars) => First!CrmInv'
  BY <1>1, SameCrm, First!CrmStep
<1>4. First!CrmInv => Crm!LogKept
  <2>1. First!CrmInv => First!Crm!LogKept
    BY <1>1, First!CrmImplies
  <2> QED
    BY <2>1, ZenonT(30) DEF First!Crm!LogKept, Crm!LogKept, First!Crm!Cardinality, Crm!Cardinality
<1> QED BY <1>2, <1>3, <1>4

LEMMA SameFigures ==
    /\ Figures!Init => First!Fig!Init
    /\ [Figures!Next]_(Figures!vars) => [First!Fig!Next]_(First!Fig!vars)
<1>1. Figures!Init => First!Fig!Init
  BY ZenonT(30) DEF Figures!Init, Figures!Idle, First!Fig!Init, First!Fig!Idle
<1>2. Figures!Next => First!Fig!Next
  BY ZenonT(30) DEF Figures!Next, Figures!Subscribes, Figures!Deletes, Figures!Asks, Figures!Warms,
      Figures!Reads, Figures!Keeps, Figures!Fails, Figures!Tick, Figures!Idle, Figures!Answers,
      Figures!Syncing, Figures!NewEnough, Figures!Rest, Figures!Page, Figures!Limited,
      Figures!Newest, Figures!Counted, Figures!Figures, Figures!Last, Figures!Cardinality,
      First!Fig!Next, First!Fig!Subscribes, First!Fig!Deletes, First!Fig!Asks, First!Fig!Warms,
      First!Fig!Reads, First!Fig!Keeps, First!Fig!Fails, First!Fig!Tick, First!Fig!Idle,
      First!Fig!Answers, First!Fig!Syncing, First!Fig!NewEnough, First!Fig!Rest, First!Fig!Page,
      First!Fig!Limited, First!Fig!Newest, First!Fig!Counted, First!Fig!Figures, First!Fig!Last,
      First!Fig!Cardinality
<1>3. UNCHANGED Figures!vars => UNCHANGED First!Fig!vars
  BY ZenonT(30) DEF Figures!vars, First!Fig!vars
<1> QED BY <1>1, <1>2, <1>3

LEMMA FiguresKept ==
    ASSUME NoneAssumption
    PROVE  /\ Figures!Init => First!FigInv
           /\ First!FigInv /\ [Figures!Next]_(Figures!vars) => First!FigInv'
           /\ First!FigInv => Figures!FreshEnough
<1>1. First!FigAssumption
  BY DEF First!FigAssumption
<1>2. Figures!Init => First!FigInv
  BY <1>1, SameFigures, First!FigInit
<1>3. First!FigInv /\ [Figures!Next]_(Figures!vars) => First!FigInv'
  BY <1>1, SameFigures, First!FigStep
<1>4. First!FigInv => Figures!FreshEnough
  <2>1. First!FigInv => First!Fig!FreshEnough
    BY <1>1, First!FigImplies
  <2> QED
    BY <2>1, ZenonT(30) DEF Figures!FreshEnough, Figures!Answer, Figures!Pages,
        First!Fig!FreshEnough, First!Fig!Answer, First!Fig!Pages
<1> QED BY <1>2, <1>3, <1>4

LEMMA SameAircraft ==
    /\ Aircraft!Init => First!Air!Init
    /\ [Aircraft!Next]_(Aircraft!vars) => [First!Air!Next]_(First!Air!vars)
<1>1. Aircraft!Init => First!Air!Init
  BY ZenonT(30) DEF Aircraft!Init, Aircraft!Idle, First!Air!Init, First!Air!Idle
<1>2. Aircraft!Next => First!Air!Next
  <2>1. \A S : Aircraft!Cardinality(S) = First!Air!Cardinality(S)
    BY ZenonT(30) DEF Aircraft!Cardinality, First!Air!Cardinality
  <2>2. /\ \A m, n : Aircraft!Least(m, n) = First!Air!Least(m, n)
        /\ \A t, u : Aircraft!Ahead(t, u) = First!Air!Ahead(t, u)
    <3>1. \A m, n : Aircraft!Least(m, n) = First!Air!Least(m, n)
      BY DEF Aircraft!Least, First!Air!Least
    <3>2. \A t : Aircraft!Score(t) = First!Air!Score(t)
      BY <3>1 DEF Aircraft!Score, First!Air!Score
    <3>3. \A t : Aircraft!Interesting(t) = First!Air!Interesting(t)
      BY ZenonT(30) DEF Aircraft!Interesting, First!Air!Interesting
    <3> QED BY <3>1, <3>2, <3>3, ZenonT(30) DEF Aircraft!Ahead, First!Air!Ahead
  <2>3. \A S : Aircraft!Picked(S) = First!Air!Picked(S)
    BY <2>1, <2>2 DEF Aircraft!Picked, First!Air!Picked
  <2>4. \A S : Aircraft!Snapshot(S) = First!Air!Snapshot(S)
    BY <2>1, <2>3, ZenonT(30) DEF Aircraft!Snapshot, First!Air!Snapshot
  <2>5. \A r : Aircraft!Fetches(r) => First!Air!Fetches(r)
    BY <2>4, ZenonT(30) DEF Aircraft!Fetches, Aircraft!Candidate, Aircraft!Answers,
        First!Air!Fetches, First!Air!Candidate, First!Air!Answers
  <2>6. \A r : Aircraft!Asks(r) => First!Air!Asks(r)
    BY ZenonT(30) DEF Aircraft!Asks, Aircraft!Answers, First!Air!Asks, First!Air!Answers
  <2>7. \A r : Aircraft!FetchFails(r) => First!Air!FetchFails(r)
    BY ZenonT(30) DEF Aircraft!FetchFails, Aircraft!StaleEnough, Aircraft!Answers,
        First!Air!FetchFails, First!Air!StaleEnough, First!Air!Answers
  <2>8. \A S : Aircraft!Flies(S) => First!Air!Flies(S)
    BY ZenonT(30) DEF Aircraft!Flies, First!Air!Flies
  <2>9. Aircraft!Tick => First!Air!Tick
    BY ZenonT(30) DEF Aircraft!Tick, Aircraft!Idle, First!Air!Tick, First!Air!Idle
  <2>10. Aircraft!Expires => First!Air!Expires
    BY ZenonT(30) DEF Aircraft!Expires, First!Air!Expires
  <2> QED
    BY <2>1, <2>5, <2>6, <2>7, <2>8, <2>9, <2>10 DEF Aircraft!Next, First!Air!Next
<1>3. UNCHANGED Aircraft!vars => UNCHANGED First!Air!vars
  BY ZenonT(30) DEF Aircraft!vars, First!Air!vars
<1> QED BY <1>1, <1>2, <1>3

LEMMA AircraftKept ==
    ASSUME NoneAssumption
    PROVE  /\ Aircraft!Init => First!AirInv
           /\ First!AirInv /\ [Aircraft!Next]_(Aircraft!vars) => First!AirInv'
           /\ First!AirInv => Aircraft!FreshEnough
<1>1. First!AirAssumption
  BY DEF First!AirAssumption
<1>2. Aircraft!Init => First!AirInv
  BY <1>1, SameAircraft, First!AirInit
<1>3. First!AirInv /\ [Aircraft!Next]_(Aircraft!vars) => First!AirInv'
  BY <1>1, SameAircraft, First!AirStep
<1>4. First!AirInv => Aircraft!FreshEnough
  <2>1. First!AirInv => First!Air!FreshEnough
    BY <1>1, First!AirImplies
  <2> QED
    BY <2>1, ZenonT(30) DEF Aircraft!FreshEnough, Aircraft!Answer, First!Air!FreshEnough,
        First!Air!Answer
<1> QED BY <1>2, <1>3, <1>4

-----------------------------------------------------------------------------
(* Others of the same components.                                          *)
Second == INSTANCE ComponentProofs WITH
    guardNow <- x1, guardSigned <- x2, waiting <- x3, nonceLog <- x4, rateLog <- x5,
    guardAccepted <- x6, buckets <- x7, tookAt <- x8, Nonces <- {}, Ips <- {},
    Events <- {"e1", "e2"}, GuardMaxTime <- 9, MaxSkew <- 1, GuardNonceTtl <- 2, GuardWindow <- 2,
    GuardLimit <- 1, EventTtl <- 6, Day <- 2,
    controlNow <- x1, deployed <- x2, container <- x3, sent <- x4, wire <- x5, guarded <- x6,
    controlStored <- x7, nonces <- x8, hits <- x9, controlStatus <- x10, applied <- x11,
    twice <- x12, controlOverlapped <- x13, ControlMaxTime <- 0, ControlMaxVersion <- 1,
    MaxSent <- 2, ControlMaxDeploys <- 2, Skew <- 1, ControlNonceTtl <- 2, ControlWindow <- 2,
    ControlLimit <- 2, ControlStale <- 1,
    world <- x1, floor <- x2, intelNow <- x3, intelFaults <- x4, unsaved <- x5, intelCache <- x6,
    inFlight <- x7, cooldown <- x8, gen <- x9, intelStored <- x10, intelFetch <- x11,
    intelReader <- x12, rewarm <- x13, alarm <- x14, refreshing <- x15, servedOld <- x16,
    Standard <- {}, Proactive <- {}, Chat <- {"chat"}, DefaultChat <- {}, Whales <- {"whales"},
    IntelReaders <- {"r"}, Fetches <- 1..2, Parallel <- 1, MaxWorld <- 1, IntelMaxTime <- 1,
    IntelMaxFaults <- 1, MaxBusts <- 1, MaxAge <- 1, StaleWindow <- 1, Cooldown <- 1,
    textsNow <- x1, posted <- x2, shown <- x3, rows <- x4, seen <- x5, textsCache <- x6,
    pause <- x7, scrape <- x8, textsFaults <- x9, textsLost <- x10, tried <- x11, early <- x12,
    apart <- x13,
    Messages <- {1, 2}, Home <- <<"a", "b">>, Text <- <<"t", "t">>, TextsForeign <- {"t"},
    Photos <- {1}, Collected <- {2}, TextsBase <- 1, Longest <- 2, TextsCacheTtl <- 0,
    RetryTtl <- 3, TextsMaxTime <- 0, TextsMaxFaults <- 1,
    usageNow <- x1, usageFaults <- x2, seeds <- x3, kv <- x4, queue <- x5, seeder <- x6,
    usageEdge <- x7, usageReader <- x8, usageAccepted <- x9, written <- x10, lastHad <- x11,
    outdated <- x12, attempts <- x13, QueueRetries <- 1,
    Keys <- {"k"}, Windows <- {"k"}, UsageForeign <- "foreign", Limits <- {1, 2},
    UsageReaders <- {1}, Async <- FALSE, UsageCacheTtl <- 1, MaxRetries <- 1, Remote <- FALSE,
    BatchSize <- 1, Deadline <- 1, MaxSeeds <- 2, MaxEntries <- 1, UsageMaxTime <- 3,
    UsageMaxFaults <- 1

LEMMA SameWebhooks ==
    /\ Webhooks!Init => Second!Guard!Init
    /\ [Webhooks!Next]_(Webhooks!vars) => [Second!Guard!Next]_(Second!Guard!vars)
<1>1. Webhooks!Init => Second!Guard!Init
  BY ZenonT(30) DEF Webhooks!Init, Webhooks!Slots, Webhooks!BucketCount, Webhooks!BucketLength,
      Second!Guard!Init, Second!Guard!Slots, Second!Guard!BucketCount, Second!Guard!BucketLength
<1>2. Webhooks!Next => Second!Guard!Next
  BY ZenonT(30) DEF Webhooks!Next, Webhooks!Sign, Webhooks!Verify, Webhooks!Refuse,
      Webhooks!Accept, Webhooks!StopsAfterHit, Webhooks!Take, Webhooks!RefuseDuplicate,
      Webhooks!StopsBetweenSlots, Webhooks!Tick, Webhooks!admin, Webhooks!webhook,
      Webhooks!WithinSkew, Webhooks!Kept, Webhooks!Hits, Webhooks!CountHit, Webhooks!Refused,
      Webhooks!BucketLength, Webhooks!BucketCount, Webhooks!Slots, Webhooks!CurrentStart,
      Webhooks!CurrentSlot, Webhooks!Empty, Webhooks!Remembered, Webhooks!Active,
      Webhooks!Duplicate, Webhooks!CurrentSeen, Webhooks!Swept, Webhooks!Written,
      Second!Guard!Next, Second!Guard!Sign, Second!Guard!Verify, Second!Guard!Refuse,
      Second!Guard!Accept, Second!Guard!StopsAfterHit, Second!Guard!Take,
      Second!Guard!RefuseDuplicate, Second!Guard!StopsBetweenSlots, Second!Guard!Tick,
      Second!Guard!admin, Second!Guard!webhook, Second!Guard!WithinSkew, Second!Guard!Kept,
      Second!Guard!Hits, Second!Guard!CountHit, Second!Guard!Refused, Second!Guard!BucketLength,
      Second!Guard!BucketCount, Second!Guard!Slots, Second!Guard!CurrentStart,
      Second!Guard!CurrentSlot, Second!Guard!Empty, Second!Guard!Remembered, Second!Guard!Active,
      Second!Guard!Duplicate, Second!Guard!CurrentSeen, Second!Guard!Swept, Second!Guard!Written
<1>3. UNCHANGED Webhooks!vars => UNCHANGED Second!Guard!vars
  BY ZenonT(30) DEF Webhooks!vars, Webhooks!admin, Webhooks!webhook, Second!Guard!vars,
      Second!Guard!admin, Second!Guard!webhook
<1> QED BY <1>1, <1>2, <1>3

LEMMA WebhooksKept ==
    ASSUME NoneAssumption
    PROVE  /\ Webhooks!Init => Second!GuardInv
           /\ Second!GuardInv /\ [Webhooks!Next]_(Webhooks!vars) => Second!GuardInv'
           /\ Second!GuardInv => Webhooks!TakesLate
<1>1. Second!GuardAssumption
  <2>1. [start : 0..9, seen : [{"e1", "e2"} -> 0..9 \cup {None}]]
            \subseteq [start : Nat, seen : [{"e1", "e2"} -> Nat \cup {None}]]
    OBVIOUS
  <2> QED BY <2>1 DEF NoneAssumption, Second!GuardAssumption
<1>2. Webhooks!Init => Second!GuardInv
  BY <1>1, SameWebhooks, Second!GuardInit
<1>3. Second!GuardInv /\ [Webhooks!Next]_(Webhooks!vars) => Second!GuardInv'
  BY <1>1, SameWebhooks, Second!GuardStep
<1>4. Second!GuardInv => Webhooks!TakesLate
  <2>1. Second!GuardInv => Second!Guard!TakesLate
    BY <1>1, Second!TakesLateEnough
  <2> QED
    BY <2>1, ZenonT(30) DEF Webhooks!TakesLate, Webhooks!Take, Webhooks!admin,
        Webhooks!BucketLength, Webhooks!BucketCount, Webhooks!Slots, Webhooks!CurrentStart,
        Webhooks!CurrentSlot, Webhooks!Empty, Webhooks!Remembered, Webhooks!Active,
        Webhooks!Duplicate, Webhooks!CurrentSeen, Webhooks!Swept, Webhooks!Written,
        Second!Guard!TakesLate, Second!Guard!Take, Second!Guard!admin, Second!Guard!BucketLength,
        Second!Guard!BucketCount, Second!Guard!Slots, Second!Guard!CurrentStart,
        Second!Guard!CurrentSlot, Second!Guard!Empty, Second!Guard!Remembered, Second!Guard!Active,
        Second!Guard!Duplicate, Second!Guard!CurrentSeen, Second!Guard!Swept, Second!Guard!Written
<1> QED BY <1>2, <1>3, <1>4

LEMMA SameDeployed ==
    /\ Deployed!Init => Second!Control!Init
    /\ [Deployed!Next]_(Deployed!vars) => [Second!Control!Next]_(Second!Control!vars)
<1>1. Deployed!Init => Second!Control!Init
  BY ZenonT(30) DEF Deployed!Init, Deployed!Config, Deployed!Kind, Deployed!Idle,
      Second!Control!Init, Second!Control!Config, Second!Control!Kind, Second!Control!Idle
<1>2. Deployed!Next => Second!Control!Next
  BY ZenonT(30) DEF Deployed!Next, Deployed!Change, Deployed!Signed, Deployed!Push,
      Deployed!AskReset, Deployed!Deploy, Deployed!Sleeps, Deployed!Guard, Deployed!Drop,
      Deployed!Apply, Deployed!StatusAsks, Deployed!StatusFetches, Deployed!StatusWrites,
      Deployed!StatusFails, Deployed!Tick, Deployed!guard, Deployed!history, Deployed!Config,
      Deployed!Kind, Deployed!Idle, Deployed!Payload, Deployed!Default, Deployed!IsStored,
      Deployed!Update, Deployed!Underway, Deployed!WithinSkew, Deployed!Remembered, Deployed!Hits,
      Deployed!Passes, Deployed!Fresh, Second!Control!Next, Second!Control!Change,
      Second!Control!Signed, Second!Control!Push, Second!Control!AskReset, Second!Control!Deploy,
      Second!Control!Sleeps, Second!Control!Guard, Second!Control!Drop, Second!Control!Apply,
      Second!Control!StatusAsks, Second!Control!StatusFetches, Second!Control!StatusWrites,
      Second!Control!StatusFails, Second!Control!Tick, Second!Control!guard,
      Second!Control!history, Second!Control!Config, Second!Control!Kind, Second!Control!Idle,
      Second!Control!Payload, Second!Control!Default, Second!Control!IsStored,
      Second!Control!Update, Second!Control!Underway, Second!Control!WithinSkew,
      Second!Control!Remembered, Second!Control!Hits, Second!Control!Passes, Second!Control!Fresh
<1>3. UNCHANGED Deployed!vars => UNCHANGED Second!Control!vars
  BY ZenonT(30) DEF Deployed!vars, Deployed!guard, Deployed!history, Second!Control!vars,
      Second!Control!guard, Second!Control!history
<1> QED BY <1>1, <1>2, <1>3

LEMMA DeployedKept ==
    ASSUME NoneAssumption
    PROVE  /\ Deployed!Init => Second!ControlInv
           /\ Second!ControlInv /\ [Deployed!Next]_(Deployed!vars) => Second!ControlInv'
           /\ Second!ControlInv => Deployed!AppliedOnce
           /\ Second!ControlInv /\ [Deployed!Next]_(Deployed!vars) => (Deployed!Regresses => Deployed!Overlap)
<1>1. Second!ControlAssumption
  BY DEF NoneAssumption, Second!ControlAssumption, Second!Pushed, Second!Control!Config
<1>2. Deployed!Init => Second!ControlInv
  BY <1>1, SameDeployed, Second!ControlInit
<1>3. Second!ControlInv /\ [Deployed!Next]_(Deployed!vars) => Second!ControlInv'
  BY <1>1, SameDeployed, Second!ControlStep
<1>4. Second!ControlInv => Deployed!AppliedOnce
  BY DEF Second!ControlInv, Second!EffectInv, Deployed!AppliedOnce
<1>5. Second!ControlInv /\ [Deployed!Next]_(Deployed!vars) => (Deployed!Regresses => Deployed!Overlap)
  <2> SUFFICES ASSUME Second!ControlInv, [Deployed!Next]_(Deployed!vars), Deployed!Regresses PROVE Deployed!Overlap
    OBVIOUS
  <2>1. Second!Control!Regresses
    BY DEF Deployed!Regresses, Second!Control!Regresses
  <2>2. Second!Control!Overlap
    BY <1>1, <2>1, SameDeployed, Second!RegressesAfterOverlap
  <2> QED BY <2>2 DEF Deployed!Overlap, Second!Control!Overlap
<1> QED BY <1>2, <1>3, <1>4, <1>5

LEMMA SameChats ==
    /\ Chats!Init => Second!Intel!Init
    /\ [Chats!Next]_(Chats!vars) => [Second!Intel!Next]_(Second!Intel!vars)
<1>1. Chats!Init => Second!Intel!Init
  BY ZenonT(30) DEF Chats!Init, Chats!Endpoint, Chats!NoKeys, Chats!Idle, Second!Intel!Init,
      Second!Intel!Endpoint, Second!Intel!NoKeys, Second!Intel!Idle
<1>2. Chats!Next => Second!Intel!Next
  <2>1. \A S : Chats!Cardinality(S) = Second!Intel!Cardinality(S)
    BY ZenonT(30) DEF Chats!Cardinality, Second!Intel!Cardinality
  <2>2. /\ Chats!Idle = Second!Intel!Idle /\ Chats!Endpoint = Second!Intel!Endpoint
        /\ \A E : Chats!Starting(E) = Second!Intel!Starting(E)
        /\ \A E : Chats!Pick(E) = Second!Intel!Pick(E)
        /\ \A E, n : Chats!Launch(E, n) => Second!Intel!Launch(E, n)
        /\ \A E : Chats!Joined(E) = Second!Intel!Joined(E)
        /\ \A e : Chats!Retries(e) = Second!Intel!Retries(e)
    BY <2>1, ZenonT(30) DEF Chats!Idle, Chats!Endpoint, Chats!Starting, Chats!FreeFetches,
        Chats!Pick, Chats!Launch, Chats!Joined, Chats!Retries, Second!Intel!Idle,
        Second!Intel!Endpoint, Second!Intel!Starting, Second!Intel!FreeFetches, Second!Intel!Pick,
        Second!Intel!Launch, Second!Intel!Joined, Second!Intel!Retries
  <2>3. /\ \A S : Chats!Max(S) = Second!Intel!Max(S)
        /\ \A k : Chats!Loaded(k) = Second!Intel!Loaded(k)
        /\ \A e : Chats!Found(e) = Second!Intel!Found(e)
        /\ \A x : Chats!AsEntry(x) = Second!Intel!AsEntry(x)
    BY ZenonT(30) DEF Chats!Max, Chats!Loaded, Chats!AsEntry, Chats!Found, Second!Intel!Max,
        Second!Intel!Loaded, Second!Intel!AsEntry, Second!Intel!Found
  <2>4. \A f, x : Chats!Settle(f, x) => Second!Intel!Settle(f, x)
    BY ZenonT(30) DEF Chats!Settle, Chats!Settled, Chats!Idle, Chats!Endpoint, Second!Intel!Settle,
        Second!Intel!Settled, Second!Intel!Idle, Second!Intel!Endpoint
  <2>5. \A e : Chats!ReadHit(e) => Second!Intel!ReadHit(e)
    BY <2>3, ZenonT(30) DEF Chats!ReadHit, Chats!Serve, Chats!Age, Chats!env, Second!Intel!ReadHit,
        Second!Intel!Serve, Second!Intel!Age, Second!Intel!env
  <2>6. \A e : Chats!ReadStale(e) => Second!Intel!ReadStale(e)
    BY <2>2, <2>3, ZenonT(30) DEF Chats!ReadStale, Chats!RefreshBehind, Chats!Serve, Chats!Age,
        Chats!env, Second!Intel!ReadStale, Second!Intel!RefreshBehind, Second!Intel!Serve,
        Second!Intel!Age, Second!Intel!env
  <2>7. \A r, e : Chats!ReadWaits(r, e) => Second!Intel!ReadWaits(r, e)
    BY <2>2, <2>3, ZenonT(30) DEF Chats!ReadWaits, Chats!Age, Chats!env, Second!Intel!ReadWaits,
        Second!Intel!Age, Second!Intel!env
  <2>8. \A f : Chats!Answer(f) => Second!Intel!Answer(f)
    BY ZenonT(30) DEF Chats!Answer, Chats!env, Chats!memory, Second!Intel!Answer, Second!Intel!env,
        Second!Intel!memory
  <2>9. \A f : Chats!Receive(f) => Second!Intel!Receive(f)
    BY <2>4, ZenonT(30) DEF Chats!Receive, Chats!Current, Chats!Saved, Chats!SavedWhales,
        Chats!Chunks, Chats!env, Second!Intel!Receive, Second!Intel!Current, Second!Intel!Saved,
        Second!Intel!SavedWhales, Second!Intel!Chunks, Second!Intel!env
  <2>10. \A f : Chats!ReceiveOld(f) => Second!Intel!ReceiveOld(f)
    BY <2>4, ZenonT(30) DEF Chats!ReceiveOld, Chats!Current, Chats!env, Second!Intel!ReceiveOld,
        Second!Intel!Current, Second!Intel!env
  <2>11. \A f : Chats!FetchFails(f) => Second!Intel!FetchFails(f)
    BY <2>2, <2>4, ZenonT(30) DEF Chats!FetchFails, Chats!Fault, Chats!Current,
        Second!Intel!FetchFails, Second!Intel!Fault, Second!Intel!Current
  <2>12. Chats!Bust => Second!Intel!Bust
    BY <2>2, ZenonT(30) DEF Chats!Bust, Chats!Deleted, Chats!RewarmTargets, Chats!ChatVariants,
        Chats!NoKeys, Second!Intel!Bust, Second!Intel!Deleted, Second!Intel!RewarmTargets,
        Second!Intel!ChatVariants, Second!Intel!NoKeys
  <2>13. Chats!RewarmBatch => Second!Intel!RewarmBatch
    BY <2>1, <2>2, ZenonT(30) DEF Chats!RewarmBatch, Chats!env, Second!Intel!RewarmBatch,
        Second!Intel!env
  <2>14. Chats!AlarmFires => Second!Intel!AlarmFires
    BY <2>2, ZenonT(30) DEF Chats!AlarmFires, Chats!Due, Chats!Age, Chats!env,
        Second!Intel!AlarmFires, Second!Intel!Due, Second!Intel!Age, Second!Intel!env
  <2>15. (Chats!AlarmEnds => Second!Intel!AlarmEnds) /\ (Chats!Health => Second!Intel!Health)
    BY ZenonT(30) DEF Chats!AlarmEnds, Chats!Health, Chats!env, Chats!memory,
        Second!Intel!AlarmEnds, Second!Intel!Health, Second!Intel!env, Second!Intel!memory
  <2>16. Chats!Restart => Second!Intel!Restart
    BY <2>2, <2>3, ZenonT(30) DEF Chats!Restart, Chats!Fault, Second!Intel!Restart,
        Second!Intel!Fault
  <2>17. (Chats!Publish => Second!Intel!Publish) /\ (Chats!Tick => Second!Intel!Tick)
    BY ZenonT(30) DEF Chats!Publish, Chats!Tick, Chats!memory, Second!Intel!Publish,
        Second!Intel!Tick, Second!Intel!memory
  <2> QED BY <2>2, <2>5, <2>6, <2>7, <2>8, <2>9, <2>10, <2>11, <2>12, <2>13, <2>14, <2>15, <2>16, <2>17 DEF Chats!Next, Second!Intel!Next
<1>3. UNCHANGED Chats!vars => UNCHANGED Second!Intel!vars
  BY ZenonT(30) DEF Chats!vars, Chats!env, Chats!memory, Second!Intel!vars, Second!Intel!env,
      Second!Intel!memory
<1> QED BY <1>1, <1>2, <1>3

LEMMA ChatsKept ==
    ASSUME NoneAssumption
    PROVE  /\ Chats!Init => Second!CacheInv
           /\ Second!CacheInv /\ [Chats!Next]_(Chats!vars) => Second!CacheInv'
           /\ Second!CacheInv => Chats!NothingFromBeforeBust
           /\ Second!CacheInv => Chats!RestartKeeps
<1>1. Second!CacheAssumption
  BY DEF NoneAssumption, Second!CacheAssumption, Second!Dated
<1>2. Chats!Init => Second!CacheInv
  BY <1>1, SameChats, Second!CacheInit
<1>3. Second!CacheInv /\ [Chats!Next]_(Chats!vars) => Second!CacheInv'
  BY <1>1, SameChats, Second!CacheStep
<1>4. Second!CacheInv => Chats!NothingFromBeforeBust
  <2>1. Second!CacheInv => Second!Intel!NothingFromBeforeBust
    BY <1>1, Second!CacheImplies
  <2> QED
    BY <2>1 DEF Chats!NothingFromBeforeBust, Chats!Endpoint, Chats!Loaded,
        Second!Intel!NothingFromBeforeBust, Second!Intel!Endpoint, Second!Intel!Loaded
<1>5. Second!CacheInv => Chats!RestartKeeps
  <2>1. Second!CacheInv => Second!Intel!RestartKeeps
    BY <1>1, Second!CacheImplies
  <2> QED
    BY <2>1, ZenonT(30) DEF Chats!RestartKeeps, Chats!Endpoint, Chats!Loaded, Chats!AsEntry,
        Chats!Max, Second!Intel!RestartKeeps, Second!Intel!Endpoint, Second!Intel!Loaded,
        Second!Intel!AsEntry, Second!Intel!Max
<1> QED BY <1>2, <1>3, <1>4, <1>5

LEMMA SameTexts ==
    /\ Texts!Init => Second!Texts!Init
    /\ [Texts!Next]_(Texts!vars) => [Second!Texts!Next]_(Second!Texts!vars)
<1>1. Texts!Init => Second!Texts!Init
  BY ZenonT(30) DEF Texts!Init, Texts!Idle, Texts!Kinds, Second!Texts!Init, Second!Texts!Idle,
      Second!Texts!Kinds
<1>2. Texts!Next => Second!Texts!Next
  <2>1. \A s, f : Texts!Begins(s, f) => Second!Texts!Begins(s, f)
    BY ZenonT(30) DEF Texts!Begins, Texts!Idle, Texts!New, Second!Texts!Begins, Second!Texts!Idle,
        Second!Texts!New
  <2>2. Texts!Translates => Second!Texts!Translates
    BY ZenonT(30) DEF Texts!Translates, Texts!Idle, Texts!Cached, Texts!ToTranslate, Texts!MayTry,
        Texts!Batches, Texts!Outputs, Texts!Retried, Texts!Translations, Texts!Accepted,
        Texts!InEnglish, Texts!Noted, Texts!Pause, Texts!Doubled, Second!Texts!Translates,
        Second!Texts!Idle, Second!Texts!Cached, Second!Texts!ToTranslate, Second!Texts!MayTry,
        Second!Texts!Batches, Second!Texts!Outputs, Second!Texts!Retried,
        Second!Texts!Translations, Second!Texts!Accepted, Second!Texts!InEnglish,
        Second!Texts!Noted, Second!Texts!Pause, Second!Texts!Doubled
  <2>3. Texts!Backfills => Second!Texts!Backfills
    BY ZenonT(30) DEF Texts!Backfills, Texts!Batches, Texts!Outputs, Texts!Retried,
        Texts!Translations, Texts!Accepted, Texts!InEnglish, Texts!Paused, Texts!Failed,
        Texts!Counted, Texts!Pause, Texts!Doubled, Second!Texts!Backfills, Second!Texts!Batches,
        Second!Texts!Outputs, Second!Texts!Retried, Second!Texts!Translations,
        Second!Texts!Accepted, Second!Texts!InEnglish, Second!Texts!Paused, Second!Texts!Failed,
        Second!Texts!Counted, Second!Texts!Pause, Second!Texts!Doubled
  <2>4. Texts!Builds => Second!Texts!Builds
    BY ZenonT(30) DEF Texts!Builds, Texts!Built, Texts!MayTry, Texts!Noted, Texts!Pause,
        Texts!Doubled, Second!Texts!Builds, Second!Texts!Built, Second!Texts!MayTry,
        Second!Texts!Noted, Second!Texts!Pause, Second!Texts!Doubled
  <2>5. Texts!Copies => Second!Texts!Copies
    BY ZenonT(30) DEF Texts!Copies, Texts!Paused, Texts!Failed, Texts!Counted, Texts!Pause,
        Texts!Doubled, Second!Texts!Copies, Second!Texts!Paused, Second!Texts!Failed,
        Second!Texts!Counted, Second!Texts!Pause, Second!Texts!Doubled
  <2>6. Texts!Persists => Second!Texts!Persists
    BY ZenonT(30) DEF Texts!Persists, Texts!Written, Second!Texts!Persists,
        Second!Texts!Written
  <2>7. Texts!Saves => Second!Texts!Saves
    BY ZenonT(30) DEF Texts!Saves, Texts!Kinds, Texts!Idle, Second!Texts!Saves, Second!Texts!Kinds,
        Second!Texts!Idle
  <2>8. Texts!Dies => Second!Texts!Dies
    BY ZenonT(30) DEF Texts!Dies, Texts!Idle, Texts!Fault, Second!Texts!Dies, Second!Texts!Idle,
        Second!Texts!Fault
  <2>9. \A m, v : Texts!Collects(m, v) => Second!Texts!Collects(m, v)
    BY ZenonT(30) DEF Texts!Collects, Texts!Idle, Texts!Written, Second!Texts!Collects,
        Second!Texts!Idle, Second!Texts!Written
  <2>10. (\A m : Texts!Posts(m) => Second!Texts!Posts(m)) /\ (Texts!Tick => Second!Texts!Tick)
    BY ZenonT(30) DEF Texts!Posts, Texts!Tick, Second!Texts!Posts, Second!Texts!Tick
  <2> QED BY <2>1, <2>2, <2>3, <2>4, <2>5, <2>6, <2>7, <2>8, <2>9, <2>10 DEF Texts!Next, Second!Texts!Next, Texts!Channels, Second!Texts!Channels, Texts!Versions, Second!Texts!Versions
<1>3. UNCHANGED Texts!vars => UNCHANGED Second!Texts!vars
  BY ZenonT(30) DEF Texts!vars, Second!Texts!vars
<1> QED BY <1>1, <1>2, <1>3

LEMMA TextsKept ==
    ASSUME NoneAssumption
    PROVE  /\ Texts!Init => Second!TextsInv
           /\ Second!TextsInv /\ [Texts!Next]_(Texts!vars) => Second!TextsInv'
           /\ Second!TextsInv => Texts!ApartByPause
           /\ Second!TextsInv => Texts!RowsAgree
<1>1. Second!TextsAssumption
  BY DEF NoneAssumption, Second!TextsAssumption, Second!Texts!Versions
<1>2. Texts!Init => Second!TextsInv
  BY <1>1, SameTexts, Second!TextsInit
<1>3. Second!TextsInv /\ [Texts!Next]_(Texts!vars) => Second!TextsInv'
  BY <1>1, SameTexts, Second!TextsStep
<1>4. Second!TextsInv => Texts!ApartByPause
  BY DEF Second!TextsInv, Second!PauseInv, Texts!ApartByPause
<1>5. Second!TextsInv => Texts!RowsAgree
  BY DEF Second!TextsInv, Second!RowsInv, Second!Texts!RowsAgree, Second!Texts!Unsaved, Texts!RowsAgree, Texts!Unsaved
<1> QED BY <1>2, <1>3, <1>4, <1>5

LEMMA SameCached ==
    /\ Cached!Init => Second!Usage!Init
    /\ [Cached!Next]_(Cached!vars) => [Second!Usage!Next]_(Second!Usage!vars)
<1>1. Cached!Init => Second!Usage!Init
  BY ZenonT(30) DEF Cached!Init, Cached!Idle, Cached!Messages, Second!Usage!Init, Second!Usage!Idle,
      Second!Usage!Messages
<1>2. Cached!Next => Second!Usage!Next
  BY ZenonT(30) DEF Cached!Next, Cached!Seed, Cached!SendBatch, Cached!PutEntry,
      Cached!SeedAccepted, Cached!SeedFails, Cached!Consume, Cached!ConsumeFails, Cached!ReadKv,
      Cached!CacheAnswer, Cached!ReadRemote, Cached!RemoteFails, Cached!ReadFails, Cached!Ask,
      Cached!Warm, Cached!Tick, Cached!Idle, Cached!Valid, Cached!Entries, Cached!Had, Cached!Puts,
      Cached!Sends, Cached!Fault, Cached!AfterPutFailed, Cached!Response, Cached!CacheKey,
      Cached!Answered, Second!Usage!Next, Second!Usage!Seed, Second!Usage!SendBatch,
      Second!Usage!PutEntry, Second!Usage!SeedAccepted, Second!Usage!SeedFails,
      Second!Usage!Consume, Second!Usage!ConsumeFails, Second!Usage!ReadKv,
      Second!Usage!CacheAnswer, Second!Usage!ReadRemote, Second!Usage!RemoteFails,
      Second!Usage!ReadFails, Second!Usage!Ask, Second!Usage!Warm, Second!Usage!Tick,
      Second!Usage!Idle, Second!Usage!Valid, Second!Usage!Entries, Second!Usage!Had,
      Second!Usage!Puts, Second!Usage!Sends, Second!Usage!Fault, Second!Usage!AfterPutFailed,
      Second!Usage!Response, Second!Usage!CacheKey, Second!Usage!Answered
<1>3. UNCHANGED Cached!vars => UNCHANGED Second!Usage!vars
  BY ZenonT(30) DEF Cached!vars, Second!Usage!vars
<1> QED BY <1>1, <1>2, <1>3

LEMMA CachedKept ==
    ASSUME NoneAssumption
    PROVE  /\ Cached!Init => Second!UsageInv
           /\ Second!UsageInv /\ [Cached!Next]_(Cached!vars) => Second!UsageInv'
           /\ Second!UsageInv => Cached!AcceptedKept
           /\ Second!UsageInv => Cached!FreshEnough
<1>1. Second!UsageAssumption
  BY DEF NoneAssumption, Second!UsageAssumption
<1>2. Cached!Init => Second!UsageInv
  BY <1>1, SameCached, Second!UsageInit
<1>3. Second!UsageInv /\ [Cached!Next]_(Cached!vars) => Second!UsageInv'
  BY <1>1, SameCached, Second!UsageStep
<1>4. Second!UsageInv => Cached!AcceptedKept
  BY DEF Second!UsageInv, Second!SeedInv, Second!Undelivered, Cached!AcceptedKept
<1>5. Second!UsageInv => Cached!FreshEnough
  BY DEF Second!UsageInv, Second!AnswersInv, Cached!FreshEnough
<1> QED BY <1>2, <1>3, <1>4, <1>5

-----------------------------------------------------------------------------
(* The usage store of another backend.                                     *)
Third == INSTANCE ComponentProofs WITH
    usageNow <- x1, usageFaults <- x2, seeds <- x3, kv <- x4, queue <- x5, seeder <- x6,
    usageEdge <- x7, usageReader <- x8, usageAccepted <- x9, written <- x10, lastHad <- x11,
    outdated <- x12, attempts <- x13, QueueRetries <- 1,
    Keys <- {"k", "l"}, Windows <- {}, UsageForeign <- "foreign", Limits <- {1},
    UsageReaders <- {1}, Async <- FALSE, UsageCacheTtl <- 0, MaxRetries <- 1, Remote <- TRUE,
    BatchSize <- 1, Deadline <- 1, MaxSeeds <- 2, MaxEntries <- 2, UsageMaxTime <- 0,
    UsageMaxFaults <- 2

LEMMA SameProxied ==
    /\ Proxied!Init => Third!Usage!Init
    /\ [Proxied!Next]_(Proxied!vars) => [Third!Usage!Next]_(Third!Usage!vars)
<1>1. Proxied!Init => Third!Usage!Init
  BY ZenonT(30) DEF Proxied!Init, Proxied!Idle, Proxied!Messages, Third!Usage!Init, Third!Usage!Idle,
      Third!Usage!Messages
<1>2. Proxied!Next => Third!Usage!Next
  BY ZenonT(30) DEF Proxied!Next, Proxied!Seed, Proxied!SendBatch, Proxied!PutEntry,
      Proxied!SeedAccepted, Proxied!SeedFails, Proxied!Consume, Proxied!ConsumeFails,
      Proxied!ReadKv, Proxied!CacheAnswer, Proxied!ReadRemote, Proxied!RemoteFails,
      Proxied!ReadFails, Proxied!Ask, Proxied!Warm, Proxied!Tick, Proxied!Idle, Proxied!Valid,
      Proxied!Entries, Proxied!Had, Proxied!Puts, Proxied!Sends, Proxied!Fault,
      Proxied!AfterPutFailed, Proxied!Response, Proxied!CacheKey, Proxied!Answered,
      Third!Usage!Next, Third!Usage!Seed, Third!Usage!SendBatch, Third!Usage!PutEntry,
      Third!Usage!SeedAccepted, Third!Usage!SeedFails, Third!Usage!Consume,
      Third!Usage!ConsumeFails, Third!Usage!ReadKv, Third!Usage!CacheAnswer,
      Third!Usage!ReadRemote, Third!Usage!RemoteFails, Third!Usage!ReadFails, Third!Usage!Ask,
      Third!Usage!Warm, Third!Usage!Tick, Third!Usage!Idle, Third!Usage!Valid, Third!Usage!Entries,
      Third!Usage!Had, Third!Usage!Puts, Third!Usage!Sends, Third!Usage!Fault,
      Third!Usage!AfterPutFailed, Third!Usage!Response, Third!Usage!CacheKey, Third!Usage!Answered
<1>3. UNCHANGED Proxied!vars => UNCHANGED Third!Usage!vars
  BY ZenonT(30) DEF Proxied!vars, Third!Usage!vars
<1> QED BY <1>1, <1>2, <1>3

LEMMA ProxiedKept ==
    ASSUME NoneAssumption
    PROVE  /\ Proxied!Init => Third!UsageInv
           /\ Third!UsageInv /\ [Proxied!Next]_(Proxied!vars) => Third!UsageInv'
           /\ Third!UsageInv => Proxied!AcceptedKept
           /\ Third!UsageInv => Proxied!FreshEnough
<1>1. Third!UsageAssumption
  BY DEF NoneAssumption, Third!UsageAssumption
<1>2. Proxied!Init => Third!UsageInv
  BY <1>1, SameProxied, Third!UsageInit
<1>3. Third!UsageInv /\ [Proxied!Next]_(Proxied!vars) => Third!UsageInv'
  BY <1>1, SameProxied, Third!UsageStep
<1>4. Third!UsageInv => Proxied!AcceptedKept
  BY DEF Third!UsageInv, Third!SeedInv, Third!Undelivered, Proxied!AcceptedKept
<1>5. Third!UsageInv => Proxied!FreshEnough
  BY DEF Third!UsageInv, Third!AnswersInv, Proxied!FreshEnough
<1> QED BY <1>2, <1>3, <1>4, <1>5

-----------------------------------------------------------------------------
(* The invariant of the service that runs.                                 *)
Invs ==
    /\ part = "guarded" => First!GuardInv
    /\ part = "webhooks" => Second!GuardInv
    /\ part = "control" => First!ControlInv
    /\ part = "deployed" => Second!ControlInv
    /\ part = "feeds" => First!CacheInv
    /\ part = "chats" => Second!CacheInv
    /\ part = "rates" => First!RateInv
    /\ part = "queued" => First!UsageInv
    /\ part = "cached" => Second!UsageInv
    /\ part = "proxied" => Third!UsageInv
    /\ part = "crm" => First!CrmInv
    /\ part = "pauses" => First!TextsInv
    /\ part = "texts" => Second!TextsInv
    /\ part = "figures" => First!FigInv
    /\ part = "aircraft" => First!AirInv

LEMMA InvsInit == NoneAssumption /\ ServicesInit => Invs
<1> SUFFICES ASSUME NoneAssumption, ServicesInit PROVE Invs
  OBVIOUS
<1>1. /\ part = "guarded" => Guarded!Init
      /\ part = "webhooks" => Webhooks!Init
      /\ part = "control" => Control!Init
      /\ part = "deployed" => Deployed!Init
      /\ part = "feeds" => Feeds!Init
      /\ part = "chats" => Chats!Init
      /\ part = "rates" => Rates!Init
      /\ part = "queued" => Queued!Init
      /\ part = "cached" => Cached!Init
      /\ part = "proxied" => Proxied!Init
      /\ part = "crm" => Crm!Init
      /\ part = "pauses" => Pauses!Init
      /\ part = "texts" => Texts!Init
      /\ part = "figures" => Figures!Init
      /\ part = "aircraft" => Aircraft!Init
  BY DEF ServicesInit
<1>2. part = "guarded" => First!GuardInv
  BY <1>1, GuardedKept
<1>3. part = "webhooks" => Second!GuardInv
  BY <1>1, WebhooksKept
<1>4. part = "control" => First!ControlInv
  BY <1>1, ControlKept
<1>5. part = "deployed" => Second!ControlInv
  BY <1>1, DeployedKept
<1>6. part = "feeds" => First!CacheInv
  BY <1>1, FeedsKept
<1>7. part = "chats" => Second!CacheInv
  BY <1>1, ChatsKept
<1>8. part = "rates" => First!RateInv
  BY <1>1, RatesKept
<1>9. part = "queued" => First!UsageInv
  BY <1>1, QueuedKept
<1>10. part = "cached" => Second!UsageInv
  BY <1>1, CachedKept
<1>11. part = "proxied" => Third!UsageInv
  BY <1>1, ProxiedKept
<1>12. part = "crm" => First!CrmInv
  BY <1>1, CrmKept
<1>13. part = "pauses" => First!TextsInv
  BY <1>1, PausesKept
<1>14. part = "texts" => Second!TextsInv
  BY <1>1, TextsKept
<1>15. part = "figures" => First!FigInv
  BY <1>1, FiguresKept
<1>16. part = "aircraft" => First!AirInv
  BY <1>1, AircraftKept
<1> QED
  BY <1>2, <1>3, <1>4, <1>5, <1>6, <1>7, <1>8, <1>9, <1>10, <1>11, <1>12, <1>13,
     <1>14, <1>15, <1>16 DEF Invs

LEMMA InvsStep == NoneAssumption /\ Invs /\ [ServicesNext]_serviceVars => Invs'
<1> SUFFICES ASSUME NoneAssumption, Invs, [ServicesNext]_serviceVars PROVE Invs'
  OBVIOUS
<1>1. /\ part' = part
      /\ part = "guarded" => [Guarded!Next]_(Guarded!vars)
      /\ part = "webhooks" => [Webhooks!Next]_(Webhooks!vars)
      /\ part = "control" => [Control!Next]_(Control!vars)
      /\ part = "deployed" => [Deployed!Next]_(Deployed!vars)
      /\ part = "feeds" => [Feeds!Next]_(Feeds!vars)
      /\ part = "chats" => [Chats!Next]_(Chats!vars)
      /\ part = "rates" => [Rates!Next]_(Rates!vars)
      /\ part = "queued" => [Queued!Next]_(Queued!vars)
      /\ part = "cached" => [Cached!Next]_(Cached!vars)
      /\ part = "proxied" => [Proxied!Next]_(Proxied!vars)
      /\ part = "crm" => [Crm!Next]_(Crm!vars)
      /\ part = "pauses" => [Pauses!Next]_(Pauses!vars)
      /\ part = "texts" => [Texts!Next]_(Texts!vars)
      /\ part = "figures" => [Figures!Next]_(Figures!vars)
      /\ part = "aircraft" => [Aircraft!Next]_(Aircraft!vars)
  BY OneService
<1>2. part = "guarded" => First!GuardInv'
  BY <1>1, GuardedKept DEF Invs
<1>3. part = "webhooks" => Second!GuardInv'
  BY <1>1, WebhooksKept DEF Invs
<1>4. part = "control" => First!ControlInv'
  BY <1>1, ControlKept DEF Invs
<1>5. part = "deployed" => Second!ControlInv'
  BY <1>1, DeployedKept DEF Invs
<1>6. part = "feeds" => First!CacheInv'
  BY <1>1, FeedsKept DEF Invs
<1>7. part = "chats" => Second!CacheInv'
  BY <1>1, ChatsKept DEF Invs
<1>8. part = "rates" => First!RateInv'
  BY <1>1, RatesKept DEF Invs
<1>9. part = "queued" => First!UsageInv'
  BY <1>1, QueuedKept DEF Invs
<1>10. part = "cached" => Second!UsageInv'
  BY <1>1, CachedKept DEF Invs
<1>11. part = "proxied" => Third!UsageInv'
  BY <1>1, ProxiedKept DEF Invs
<1>12. part = "crm" => First!CrmInv'
  BY <1>1, CrmKept DEF Invs
<1>13. part = "pauses" => First!TextsInv'
  BY <1>1, PausesKept DEF Invs
<1>14. part = "texts" => Second!TextsInv'
  BY <1>1, TextsKept DEF Invs
<1>15. part = "figures" => First!FigInv'
  BY <1>1, FiguresKept DEF Invs
<1>16. part = "aircraft" => First!AirInv'
  BY <1>1, AircraftKept DEF Invs
<1> QED
  BY <1>1, <1>2, <1>3, <1>4, <1>5, <1>6, <1>7, <1>8, <1>9, <1>10, <1>11, <1>12,
     <1>13, <1>14, <1>15, <1>16 DEF Invs

(* A signed request takes effect at most once: the admin guard of the      *)
(* cache lets a nonce through once, and the control object applies a push  *)
(* or a reset once, however late and often it is delivered.                *)
THEOREM ServicesSignOnce ==
    ASSUME NoneAssumption
    PROVE  ServicesSpec => []SignedOnce
<1>1. NoneAssumption /\ Invs => SignedOnce
  BY GuardedKept, ControlKept, DeployedKept DEF Invs, SignedOnce
<1> QED BY <1>1, InvsInit, InvsStep, PTL DEF ServicesSpec

(* The cache answers nothing from before a bust that preceded the question *)
(* (isCurrentCacheGeneration, and the bust's deletes).                     *)
THEOREM ServicesForget ==
    ASSUME NoneAssumption
    PROVE  ServicesSpec => []NothingFromBeforeBust
<1>1. NoneAssumption /\ Invs => NothingFromBeforeBust
  BY FeedsKept, ChatsKept DEF Invs, NothingFromBeforeBust
<1> QED BY <1>1, InvsInit, InvsStep, PTL DEF ServicesSpec

(* A minute lets no more requests through than the highest limit of the    *)
(* user in it, unless two of them overlapped; and a text or a photo that   *)
(* failed is tried again after the pause its failures call for             *)
(* (checkRateLimit, shouldAttemptBackfill).                                *)
THEOREM ServicesWithinLimit ==
    ASSUME NoneAssumption
    PROVE  ServicesSpec => []WithinLimit
<1>1. NoneAssumption /\ Invs => WithinLimit
  BY RatesKept, PausesKept, TextsKept DEF Invs, WithinLimit
<1> QED BY <1>1, InvsInit, InvsStep, PTL DEF ServicesSpec

(* What was accepted or stored is not lost: a seed's entries are in KV or  *)
(* in the queue, the intel cache has after a restart all that was saved,   *)
(* and an activity log has its newest events.                              *)
THEOREM ServicesSavedKept ==
    ASSUME NoneAssumption
    PROVE  ServicesSpec => []SavedKept
<1>1. NoneAssumption /\ Invs => SavedKept
  BY QueuedKept, CachedKept, ProxiedKept, FeedsKept, ChatsKept, CrmKept DEF Invs, SavedKept
<1> QED BY <1>1, InvsInit, InvsStep, PTL DEF ServicesSpec

(* What is answered from a cache is no older than the cache may be and the *)
(* calls behind it may take (resolveStripeCrmSummary,                      *)
(* resolveAirSeaAviationSnapshot, and the usage edge cache).               *)
THEOREM ServicesFreshEnough ==
    ASSUME NoneAssumption
    PROVE  ServicesSpec => []FreshEnough
<1>1. NoneAssumption /\ Invs => FreshEnough
  BY QueuedKept, CachedKept, ProxiedKept, FiguresKept, AircraftKept DEF Invs, FreshEnough
<1> QED BY <1>1, InvsInit, InvsStep, PTL DEF ServicesSpec

(* The control object's state goes back only by a reset or when two        *)
(* writers were under way at a time.                                       *)
THEOREM ServicesRegress ==
    ASSUME NoneAssumption
    PROVE  ServicesSpec => RegressesOnlyByOverlap
<1>1. NoneAssumption /\ Invs /\ [ServicesNext]_serviceVars =>
         /\ part = "control" => (Control!Regresses => Control!Overlap)
         /\ part = "deployed" => (Deployed!Regresses => Deployed!Overlap)
  BY OneService, ControlKept, DeployedKept DEF Invs
<1> QED BY <1>1, InvsInit, InvsStep, PTL DEF ServicesSpec, RegressesOnlyByOverlap

(* A webhook event is let through a second time only when more has passed  *)
(* than the time to live less one bucket.                                  *)
THEOREM ServicesTakeLate ==
    ASSUME NoneAssumption
    PROVE  ServicesSpec => TakenAgainLate
<1>1. NoneAssumption /\ Invs => (part = "webhooks" => Webhooks!TakesLate)
  BY WebhooksKept DEF Invs
<1> QED BY <1>1, InvsInit, InvsStep, PTL DEF ServicesSpec, TakenAgainLate
=============================================================================
