----------------------------- MODULE NewsProofs -----------------------------
(***************************************************************************)
(* The components of MCNews that ComponentProofs is about: what it shows   *)
(* of each holds of the instances there, so that the properties the run    *)
(* checks are proved for its specification.  The lemmas are laid out as in *)
(* ServicesProofs.                                                         *)
(***************************************************************************)
EXTENDS MCNews, TLAPS

(* The parameters of the components that have no instance here.            *)
CONSTANTS
    Nonces, Ips, Events, GuardMaxTime, MaxSkew, GuardNonceTtl, GuardWindow,
    GuardLimit, EventTtl, Day,
    ControlMaxTime, ControlMaxVersion, MaxSent, ControlMaxDeploys, Skew,
    ControlNonceTtl, ControlWindow, ControlLimit, ControlStale,
    Standard, Proactive, Chat, DefaultChat, Whales, IntelReaders, Fetches,
    MaxWorld, IntelMaxTime, IntelMaxFaults, MaxBusts, MaxAge, StaleWindow,
    Cooldown, Parallel,
    Routes, Callers, Minute, KeptFor, FreeLimit, TrialLimit, SubscriberLimit,
    TrialEnd, RatesMaxTime, MaxGrants,
    Messages, Home, Text, TextsForeign, Photos, Collected, TextsBase, Longest,
    TextsCacheTtl, RetryTtl, TextsMaxTime, TextsMaxFaults,
    Keys, Windows, UsageForeign, Limits, UsageReaders, Async, UsageCacheTtl,
    MaxRetries, Remote, BatchSize, QueueRetries, Deadline, MaxSeeds, MaxEntries,
    UsageMaxTime, UsageMaxFaults,
    CrmUsers, Writers, Builders, LogLimit, MaxWrites, CrmMaxFaults,
    XpUsers, Person, XpRequests, XpMaxFaults,
    RtUsers, Login, Accounts, Edges, Backends, Tokens, RtMaxDeploys,
    RtMaxFaults,
    Tracks, AirRequests, MaxTracks, Refresh, AirStale, AirTimeout, AirMaxTime,
    MaxSky,
    Syncs, PageSize, MaxSubscriptions, Ttl, FigTimeout, MaxMade, FigMaxTime

VARIABLES
    guardNow, guardSigned, waiting, nonceLog, rateLog, buckets, guardAccepted,
    tookAt,
    controlNow, deployed, container, sent, wire, guarded, controlStored,
    nonces, hits, controlStatus, applied, twice, controlOverlapped,
    world, floor, intelNow, intelFaults, intelCache, intelStored, inFlight,
    cooldown, gen, intelFetch, intelReader, rewarm, alarm, refreshing,
    unsaved, servedOld,
    ratesNow, ratesStatus, count, caller, granted, allowed, ratesOverlapped,
    textsNow, posted, shown, rows, seen, textsCache, pause, scrape,
    textsFaults, textsLost, tried, early, apart,
    usageNow, usageFaults, seeds, kv, queue, seeder, usageEdge, usageReader,
    usageAccepted, written, lastHad, outdated, attempts,
    writes, crmFaults, crmAccount, log, summary, writer, builder, crmLost,
    logged, crmOverlapped,
    xpFaults, db, session, xpCache, xpRequest, xpKept,
    rtEdge, backend, rtKnown, rtRequest, deploys, rtFaults,
    airNow, airCached, airRequest, sky,
    figNow, made, figCached, sync

(* None is no number, and no name or profile of a person.                  *)
NoneAssumption ==
    /\ None \notin Int
    /\ None \notin {"u", "v", "a", "b"}
    /\ None \notin [user : {"u", "v"}, name : {"a", "b"}]

-----------------------------------------------------------------------------
(* A step is one of the component that runs, or none.                      *)
LEMMA OneComponent ==
    ASSUME [Next]_vars
    PROVE  /\ part' = part
           /\ part = "stories" => [Stories!Next]_(Stories!vars)
           /\ part = "repeats" => [Repeats!Next]_(Repeats!vars)
           /\ part = "turns" => [Turns!Next]_(Turns!vars)
           /\ part = "overlaps" => [Overlaps!Next]_(Overlaps!vars)
           /\ part = "profiles" => [Profiles!Next]_(Profiles!vars)
           /\ part = "routes" => [Routing!Next]_(Routing!vars)
<1>1. part' = part
  BY DEF Next, vars
<1>2. CASE Next
  BY <1>1, <1>2 DEF Next
<1>3. CASE UNCHANGED vars
  <2>1. UNCHANGED <<x1, x2, x3, x4, x5, x6, x7, x8, x9, x10, x11, x12>>
    BY <1>3 DEF vars, xs
  <2> QED BY <1>1, <2>1
      DEF Stories!vars, Repeats!vars, Turns!vars, Overlaps!vars, Profiles!vars, Routing!vars
<1> QED BY <1>2, <1>3

-----------------------------------------------------------------------------
(* Two items of one story, the sources that take turns, the requests of    *)
(* users.                                                                  *)
First == INSTANCE ComponentProofs WITH
    outNow <- x1, outFaults <- x2, mark <- x3, outRequest <- x4, outTold <- x5, heard <- x6,
    wrong <- x7,
    Items <- {[id |-> "i", text |-> "a", story |-> "s"], [id |-> "j", text |-> "b", story |-> "s"]},
    Channels <- {"x", "y"}, Scopes <- {"d"}, Ttls <- {1}, OutRequests <- {1}, Connections <- 2,
    Escalation <- TRUE, MaxJobs <- 2, OutMaxTime <- 0, OutMaxFaults <- 1,
    feed <- x1, rssFaults <- x2, starts <- x3, validator <- x4, health <- x5, run <- x6,
    published <- x7, dropped <- x8, FastLane <- {"a"}, Rotating <- {"b", "c"},
    RssBase <- [s \in {"a", "b", "c"} |-> IF s = "c" THEN 18 ELSE 40],
    Region <- [s \in {"a", "b", "c"} |-> IF s = "a" THEN "eu" ELSE "global"],
    Kind <- [s \in {"a", "b", "c"} |-> IF s = "a" THEN "eu" ELSE "global"], Runs <- {1},
    PerRun <- 2, PerSource <- 2, Shown <- 3, RssMaxVersion <- 2, RssMaxFaults <- 1, MaxRuns <- 2,
    xpFaults <- x1, db <- x2, session <- x3, xpCache <- x4, xpRequest <- x5, xpKept <- x6,
    XpUsers <- {"u", "v"}, Person <- [x \in {"u", "v"} |-> IF x = "u" THEN "a" ELSE "b"],
    XpRequests <- {1}, XpMaxFaults <- 1,
    rtEdge <- x1, backend <- x2, rtKnown <- x3, rtRequest <- x4, deploys <- x5, rtFaults <- x6,
    RtUsers <- {"u", "o"}, Login <- [x \in {"u", "o"} |-> IF x = "u" THEN "@u" ELSE "@o"],
    Accounts <- [x \in {"u", "@u", "o", "@o"} |->
            [status |-> IF x = "u" THEN "active" ELSE "none", trial |-> FALSE, tried |-> FALSE, customer |-> x = "u"]],
    Edges <- {[api |-> "t", auth |-> TRUE],
        [api |-> None, auth |-> TRUE],
        [api |-> "t", auth |-> FALSE]},
    Backends <- { [api |-> "t", admin |-> "s", seed |-> None, jobs |-> None, stripe |-> "s", public |-> FALSE, signing |-> "off", owners |-> {"@o"}],
        [api |-> "t", admin |-> "s", seed |-> "s", jobs |-> "t", stripe |-> None, public |-> TRUE, signing |-> "on", owners |-> {"u"}],
        [api |-> None, admin |-> None, seed |-> None, jobs |-> None, stripe |-> "s", public |-> FALSE, signing |-> "no secret", owners |-> {}]},
    Tokens <- {"t", "s"}, RtMaxDeploys <- 1, RtMaxFaults <- 1

LEMMA SameStories ==
    /\ Stories!Init => First!Out!Init
    /\ [Stories!Next]_(Stories!vars) => [First!Out!Next]_(First!Out!vars)
<1>1. Stories!Init => First!Out!Init
  BY ZenonT(30) DEF Stories!Init, Stories!Keys, Stories!Idle, First!Out!Init, First!Out!Keys,
      First!Out!Idle
<1>2. Stories!Next => First!Out!Next
  <2>1. \A item : Stories!Fingerprints(item) = First!Out!Fingerprints(item)
    BY DEF Stories!Fingerprints, Stories!Answers, First!Out!Fingerprints, First!Out!Answers
  <2>2. \A r : Stories!Asked(r) => First!Out!Asked(r)
    BY ZenonT(30) DEF Stories!Asked, Stories!Idle, Stories!Jobs, First!Out!Asked, First!Out!Idle,
        First!Out!Jobs
  <2>3. \A r, n : Stories!JobStarts(r, n) => First!Out!JobStarts(r, n)
    BY ZenonT(30) DEF Stories!JobStarts, Stories!InFlight, Stories!Cardinality,
        First!Out!JobStarts, First!Out!InFlight, First!Out!Cardinality
  <2>4. \A r, n : Stories!Prints(r, n) => First!Out!Prints(r, n)
    BY <2>1, ZenonT(30) DEF Stories!Prints, Stories!DedupeKey, Stories!Holds, First!Out!Prints,
        First!Out!DedupeKey, First!Out!Holds
  <2>5. \A r, n : Stories!Looks(r, n) => First!Out!Looks(r, n)
    BY ZenonT(30) DEF Stories!Looks, Stories!Holds, Stories!What, First!Out!Looks, First!Out!Holds,
        First!Out!What
  <2>6. \A r, n : Stories!LookFails(r, n) => First!Out!LookFails(r, n)
    BY ZenonT(30) DEF Stories!LookFails, Stories!Fault, First!Out!LookFails, First!Out!Fault
  <2>7. \A r, n : Stories!Delivers(r, n) => First!Out!Delivers(r, n)
    BY ZenonT(30) DEF Stories!Delivers, Stories!Delivered, Stories!What, First!Out!Delivers,
        First!Out!Delivered, First!Out!What
  <2>8. \A r, n : Stories!AnswerLost(r, n) => First!Out!AnswerLost(r, n)
    BY ZenonT(30) DEF Stories!AnswerLost, Stories!Delivered, Stories!Fault, Stories!What,
        First!Out!AnswerLost, First!Out!Delivered, First!Out!Fault, First!Out!What
  <2>9. \A r, n : Stories!Refused(r, n) => First!Out!Refused(r, n)
    BY ZenonT(30) DEF Stories!Refused, Stories!Fault, First!Out!Refused, First!Out!Fault
  <2>10. \A r, n : Stories!Marks(r, n) => First!Out!Marks(r, n)
    BY ZenonT(30) DEF Stories!Marks, Stories!What, First!Out!Marks, First!Out!What
  <2>11. \A r, n : Stories!MarkFails(r, n) => First!Out!MarkFails(r, n)
    BY ZenonT(30) DEF Stories!MarkFails, Stories!Fault, Stories!What, Stories!Least,
        First!Out!MarkFails, First!Out!Fault, First!Out!What, First!Out!Least
  <2>12. \A r : Stories!Returns(r) => First!Out!Returns(r)
    BY ZenonT(30) DEF Stories!Returns, Stories!Idle, First!Out!Returns, First!Out!Idle
  <2>13. \A r : Stories!Dies(r) => First!Out!Dies(r)
    BY ZenonT(30) DEF Stories!Dies, Stories!Fault, Stories!Idle, First!Out!Dies, First!Out!Fault,
        First!Out!Idle
  <2>14. Stories!Tick => First!Out!Tick
    BY ZenonT(30) DEF Stories!Tick, First!Out!Tick
  <2> QED
    BY <2>2, <2>3, <2>4, <2>5, <2>6, <2>7, <2>8, <2>9, <2>10, <2>11, <2>12, <2>13, <2>14, ZenonT(30) DEF
        Stories!Next, First!Out!Next
<1>3. UNCHANGED Stories!vars => UNCHANGED First!Out!vars
  BY ZenonT(30) DEF Stories!vars, First!Out!vars
<1> QED BY <1>1, <1>2, <1>3

LEMMA StoriesKept ==
    ASSUME NoneAssumption
    PROVE  /\ Stories!Init => First!OutInv
           /\ First!OutInv /\ [Stories!Next]_(Stories!vars) => First!OutInv'
           /\ First!OutInv => Stories!ToldOnce
<1>1. First!OutAssumption
  BY DEF First!OutAssumption
<1>2. Stories!Init => First!OutInv
  BY <1>1, SameStories, First!OutInit
<1>3. First!OutInv /\ [Stories!Next]_(Stories!vars) => First!OutInv'
  BY <1>1, SameStories, First!OutStep
<1>4. First!OutInv => Stories!ToldOnce
  <2>1. First!OutInv => First!Out!ToldOnce
    BY <1>1, First!OutImplies
  <2> QED
    BY <2>1, ZenonT(30) DEF Stories!ToldOnce, First!Out!ToldOnce
<1> QED BY <1>2, <1>3, <1>4

LEMMA SameTurns ==
    /\ Turns!Init => First!Rss!Init
    /\ [Turns!Next]_(Turns!vars) => [First!Rss!Next]_(First!Rss!vars)
<1>1. Turns!Init => First!Rss!Init
  BY ZenonT(30) DEF Turns!Init, Turns!Sources, Turns!Idle, First!Rss!Init, First!Rss!Sources,
      First!Rss!Idle
<1>2. Turns!Next => First!Rss!Next
  <2>1. \A S : Turns!Cardinality(S) = First!Rss!Cardinality(S)
    BY ZenonT(30) DEF Turns!Cardinality, First!Rss!Cardinality
  <2>2. \A n : Turns!Rotations(n) = First!Rss!Rotations(n)
    BY ZenonT(30) DEF Turns!Rotations, Turns!MayBeNext, Turns!Penalty, Turns!Jitter,
        Turns!Cardinality, First!Rss!Rotations, First!Rss!MayBeNext, First!Rss!Penalty,
        First!Rss!Jitter, First!Rss!Cardinality
  <2>3. Turns!Selections = First!Rss!Selections
    BY <2>1, <2>2 DEF Turns!Selections, Turns!Sources, Turns!Least, First!Rss!Selections,
        First!Rss!Sources, First!Rss!Least
  <2>4. \A r : Turns!Starts(r) => First!Rss!Starts(r)
    BY <2>3, ZenonT(30) DEF Turns!Starts, Turns!Idle, First!Rss!Starts, First!Rss!Idle
  <2>5. \A r, s : Turns!Loads(r, s) => First!Rss!Loads(r, s)
    BY ZenonT(30) DEF Turns!Loads, First!Rss!Loads
  <2>6. \A r, s : Turns!NotModified(r, s) => First!Rss!NotModified(r, s)
    BY ZenonT(30) DEF Turns!NotModified, Turns!Got, First!Rss!NotModified, First!Rss!Got
  <2>7. \A r, s : Turns!Modified(r, s) => First!Rss!Modified(r, s)
    BY ZenonT(30) DEF Turns!Modified, Turns!Got, First!Rss!Modified, First!Rss!Got
  <2>8. \A r, s : Turns!FetchFails(r, s) => First!Rss!FetchFails(r, s)
    BY ZenonT(30) DEF Turns!FetchFails, Turns!Fault, Turns!Least, Turns!Got, First!Rss!FetchFails,
        First!Rss!Fault, First!Rss!Least, First!Rss!Got
  <2>9. \A r, s : Turns!Stores(r, s) => First!Rss!Stores(r, s)
    BY ZenonT(30) DEF Turns!Stores, Turns!Validates, Turns!Fault, Turns!Entries, Turns!Page,
        Turns!Least, First!Rss!Stores, First!Rss!Validates, First!Rss!Fault, First!Rss!Entries,
        First!Rss!Page, First!Rss!Least
  <2>10. \A r, s : Turns!Reports(r, s) => First!Rss!Reports(r, s)
    BY ZenonT(30) DEF Turns!Reports, First!Rss!Reports
  <2>11. \A r : Turns!Publishes(r) => First!Rss!Publishes(r)
    BY ZenonT(30) DEF Turns!Publishes, Turns!Fetched, Turns!Idle, First!Rss!Publishes,
        First!Rss!Fetched, First!Rss!Idle
  <2>12. \A r : Turns!Fails(r) => First!Rss!Fails(r)
    BY ZenonT(30) DEF Turns!Fails, Turns!Idle, Turns!Fault, First!Rss!Fails, First!Rss!Idle,
        First!Rss!Fault
  <2>13. \A s : Turns!FeedGrows(s) => First!Rss!FeedGrows(s)
    BY ZenonT(30) DEF Turns!FeedGrows, First!Rss!FeedGrows
  <2>14. \A s : Turns!ValidatorExpires(s) => First!Rss!ValidatorExpires(s)
    BY ZenonT(30) DEF Turns!ValidatorExpires, First!Rss!ValidatorExpires
  <2> QED
    BY <2>4, <2>5, <2>6, <2>7, <2>8, <2>9, <2>10, <2>11, <2>12, <2>13, <2>14, ZenonT(30) DEF
        Turns!Next, Turns!Sources, First!Rss!Next, First!Rss!Sources
<1>3. UNCHANGED Turns!vars => UNCHANGED First!Rss!vars
  BY ZenonT(30) DEF Turns!vars, First!Rss!vars
<1> QED BY <1>1, <1>2, <1>3

LEMMA TurnsKept ==
    ASSUME NoneAssumption
    PROVE  /\ Turns!Init => First!RssInv
           /\ First!RssInv /\ [Turns!Next]_(Turns!vars) => First!RssInv'
           /\ First!RssInv => Turns!SkippedIsPublished
<1>1. First!RssAssumption
  BY DEF NoneAssumption, First!RssAssumption
<1>2. Turns!Init => First!RssInv
  BY <1>1, SameTurns, First!RssInit
<1>3. First!RssInv /\ [Turns!Next]_(Turns!vars) => First!RssInv'
  BY <1>1, SameTurns, First!RssStep
<1>4. First!RssInv => Turns!SkippedIsPublished
  <2>1. First!RssInv => First!Rss!SkippedIsPublished
    BY <1>1, First!RssImplies
  <2> QED
    BY <2>1, ZenonT(30) DEF Turns!SkippedIsPublished, Turns!Sources, Turns!Entries, Turns!Idle,
        Turns!Least, First!Rss!SkippedIsPublished, First!Rss!Sources, First!Rss!Entries,
        First!Rss!Idle, First!Rss!Least
<1> QED BY <1>2, <1>3, <1>4

LEMMA SameProfiles ==
    /\ Profiles!Init => First!Xp!Init
    /\ [Profiles!Next]_(Profiles!vars) => [First!Xp!Next]_(First!Xp!vars)
<1>1. Profiles!Init => First!Xp!Init
  BY ZenonT(30) DEF Profiles!Init, Profiles!Placeholder, Profiles!Persons, Profiles!Keys,
      Profiles!Idle, First!Xp!Init, First!Xp!Placeholder, First!Xp!Persons, First!Xp!Keys,
      First!Xp!Idle
<1>2. Profiles!Next => First!Xp!Next
  <2>1. \A r, u : Profiles!Begins(r, u) => First!Xp!Begins(r, u)
    BY ZenonT(30) DEF Profiles!Begins, Profiles!Proceeds, Profiles!Cached, Profiles!Own,
        First!Xp!Begins, First!Xp!Proceeds, First!Xp!Cached, First!Xp!Own
  <2>2. \A r : Profiles!ReadsToken(r) => First!Xp!ReadsToken(r)
    BY ZenonT(30) DEF Profiles!ReadsToken, Profiles!Proceeds, Profiles!Cached, Profiles!Own,
        First!Xp!ReadsToken, First!Xp!Proceeds, First!Xp!Cached, First!Xp!Own
  <2>3. \A r, ok : Profiles!LooksUp(r, ok) => First!Xp!LooksUp(r, ok)
    BY ZenonT(30) DEF Profiles!LooksUp, Profiles!Proceeds, Profiles!Known, Profiles!Placeholder,
        First!Xp!LooksUp, First!Xp!Proceeds, First!Xp!Known, First!Xp!Placeholder
  <2>4. \A r, ok : Profiles!Refreshes(r, ok) => First!Xp!Refreshes(r, ok)
    BY ZenonT(30) DEF Profiles!Refreshes, Profiles!Proceeds, First!Xp!Refreshes, First!Xp!Proceeds
  <2>5. \A r : Profiles!SavesUser(r) => First!Xp!SavesUser(r)
    BY ZenonT(30) DEF Profiles!SavesUser, Profiles!Proceeds, First!Xp!SavesUser, First!Xp!Proceeds
  <2>6. \A r : Profiles!SavesAccount(r) => First!Xp!SavesAccount(r)
    BY ZenonT(30) DEF Profiles!SavesAccount, Profiles!Proceeds, First!Xp!SavesAccount,
        First!Xp!Proceeds
  <2>7. \A r, k, ok : Profiles!Caches(r, k, ok) => First!Xp!Caches(r, k, ok)
    BY ZenonT(30) DEF Profiles!Caches, Profiles!Fault, Profiles!ServedAs, Profiles!Proceeds,
        First!Xp!Caches, First!Xp!Fault, First!Xp!ServedAs, First!Xp!Proceeds
  <2>8. \A r : Profiles!FallsBack(r) => First!Xp!FallsBack(r)
    BY ZenonT(30) DEF Profiles!FallsBack, Profiles!ServedAs, Profiles!Placeholder, Profiles!Stable,
        Profiles!Proceeds, Profiles!Cardinality, First!Xp!FallsBack, First!Xp!ServedAs,
        First!Xp!Placeholder, First!Xp!Stable, First!Xp!Proceeds, First!Xp!Cardinality
  <2>9. \A r : Profiles!Fails(r) => First!Xp!Fails(r)
    BY ZenonT(30) DEF Profiles!Fails, Profiles!Fault, Profiles!Proceeds, Profiles!ServedAs,
        First!Xp!Fails, First!Xp!Fault, First!Xp!Proceeds, First!Xp!ServedAs
  <2>10. \A u : Profiles!AccessEnds(u) => First!Xp!AccessEnds(u)
    BY ZenonT(30) DEF Profiles!AccessEnds, First!Xp!AccessEnds
  <2>11. \A u : Profiles!SignsIn(u) => First!Xp!SignsIn(u)
    BY ZenonT(30) DEF Profiles!SignsIn, First!Xp!SignsIn
  <2>12. \A k : Profiles!Expires(k) => First!Xp!Expires(k)
    BY ZenonT(30) DEF Profiles!Expires, First!Xp!Expires
  <2> QED
    BY <2>1, <2>2, <2>3, <2>4, <2>5, <2>6, <2>7, <2>8, <2>9, <2>10, <2>11, <2>12, ZenonT(30) DEF
        Profiles!Next, Profiles!Keys, Profiles!Persons, First!Xp!Next, First!Xp!Keys,
        First!Xp!Persons
<1>3. UNCHANGED Profiles!vars => UNCHANGED First!Xp!vars
  BY ZenonT(30) DEF Profiles!vars, First!Xp!vars
<1> QED BY <1>1, <1>2, <1>3

LEMMA ProfilesKept ==
    ASSUME NoneAssumption
    PROVE  /\ Profiles!Init => First!XpInv
           /\ First!XpInv /\ [Profiles!Next]_(Profiles!vars) => First!XpInv'
           /\ First!XpInv => Profiles!NamedOnce
<1>1. First!XpAssumption
  BY DEF NoneAssumption, First!XpAssumption, First!Xp!Persons, First!Xp!Placeholder
<1>2. Profiles!Init => First!XpInv
  BY <1>1, SameProfiles, First!XpInit
<1>3. First!XpInv /\ [Profiles!Next]_(Profiles!vars) => First!XpInv'
  BY <1>1, SameProfiles, First!XpStep
<1>4. First!XpInv => Profiles!NamedOnce
  <2>1. First!XpInv => First!Xp!NamedOnce
    BY <1>1, First!XpImplies
  <2> QED
    BY <2>1, ZenonT(30) DEF Profiles!NamedOnce, Profiles!Placeholder, First!Xp!NamedOnce,
        First!Xp!Placeholder
<1> QED BY <1>2, <1>3, <1>4

LEMMA SameRouting ==
    /\ Routing!Init => First!Rt!Init
    /\ [Routing!Next]_(Routing!vars) => [First!Rt!Next]_(First!Rt!vars)
<1>1. Routing!Init => First!Rt!Init
  BY ZenonT(30) DEF Routing!Init, Routing!Idle, First!Rt!Init, First!Rt!Idle
<1>2. Routing!Next => First!Rt!Next
  <2>1. \A S : Routing!Min(S) = First!Rt!Min(S)
    BY ZenonT(30) DEF Routing!Min, First!Rt!Min
  <2>2. /\ \A env, q : Routing!Visible(env, q) = First!Rt!Visible(env, q)
        /\ \A p : Routing!Methods(p) = First!Rt!Methods(p)
    BY ZenonT(30) DEF Routing!Visible, Routing!Feeds, Routing!Internal, Routing!Matches,
        Routing!Methods, First!Rt!Visible, First!Rt!Feeds, First!Rt!Internal, First!Rt!Matches,
        First!Rt!Methods
  <2>3. /\ \A env, q : Routing!Configured(env, q) = First!Rt!Configured(env, q)
        /\ \A env, q : Routing!Authorized(env, q) = First!Rt!Authorized(env, q)
    BY ZenonT(30) DEF Routing!Configured, Routing!Open, Routing!Expected, Routing!Feeds,
        Routing!Admins, Routing!First, Routing!Authorized, Routing!Matches, First!Rt!Configured,
        First!Rt!Open, First!Rt!Expected, First!Rt!Feeds, First!Rt!Admins, First!Rt!First,
        First!Rt!Authorized, First!Rt!Matches
  <2>4. /\ \A q : Routing!Parsed(q) = First!Rt!Parsed(q)
        /\ \A q : Routing!Stamped(q) = First!Rt!Stamped(q)
        /\ \A env, q : Routing!StripeVerified(env, q) = First!Rt!StripeVerified(env, q)
    BY ZenonT(30) DEF Routing!Parsed, Routing!Stamped, Routing!StripeVerified, First!Rt!Parsed,
        First!Rt!Stamped, First!Rt!StripeVerified
  <2>5. /\ \A env, q : Routing!ValidUser(env, q) = First!Rt!ValidUser(env, q)
        /\ \A env, q : Routing!ByOwner(env, q) = First!Rt!ByOwner(env, q)
    BY ZenonT(30) DEF Routing!ValidUser, Routing!OfUser, Routing!Reads, Routing!Buys,
        Routing!OfOwner, Routing!ByOwner, First!Rt!ValidUser, First!Rt!OfUser, First!Rt!Reads,
        First!Rt!Buys, First!Rt!OfOwner, First!Rt!ByOwner
  <2>6. \A env, q : Routing!Checks(env, q) = First!Rt!Checks(env, q)
    BY <2>2, <2>3, <2>4, <2>5 DEF Routing!Checks, Routing!OfOwner, First!Rt!Checks,
        First!Rt!OfOwner
  <2>7. \A env, q : Routing!Refusal(env, q) = First!Rt!Refusal(env, q)
    BY <2>1, <2>6, ZenonT(30) DEF Routing!Refusal, Routing!SelectInSeq, First!Rt!Refusal,
        First!Rt!SelectInSeq
  <2>8. \A env, u, a : Routing!InfoAnswer(env, u, a) = First!Rt!InfoAnswer(env, u, a)
    BY ZenonT(30) DEF Routing!InfoAnswer, Routing!Role, Routing!Standing, Routing!Owner,
        Routing!Tier, Routing!Entitled, First!Rt!InfoAnswer, First!Rt!Role, First!Rt!Standing,
        First!Rt!Owner, First!Rt!Tier, First!Rt!Entitled
  <2>9. /\ \A env, u, a : Routing!StatusAnswer(env, u, a) = First!Rt!StatusAnswer(env, u, a)
        /\ \A env, u, a : Routing!ActivityAnswer(env, u, a) = First!Rt!ActivityAnswer(env, u, a)
        /\ \A env, u, a : Routing!GatesAnswer(env, u, a) = First!Rt!GatesAnswer(env, u, a)
    BY ZenonT(30) DEF Routing!StatusAnswer, Routing!Role, Routing!Standing, Routing!Owner,
        Routing!Tier, Routing!Entitled, Routing!ActivityAnswer, Routing!GatesAnswer,
        First!Rt!StatusAnswer, First!Rt!Role, First!Rt!Standing, First!Rt!Owner, First!Rt!Tier,
        First!Rt!Entitled, First!Rt!ActivityAnswer, First!Rt!GatesAnswer
  <2>10. /\ \A env, u : Routing!CheckoutAnswers(env, u) = First!Rt!CheckoutAnswers(env, u)
        /\ \A env, u, a : Routing!PortalAnswers(env, u, a) = First!Rt!PortalAnswers(env, u, a)
    BY ZenonT(30) DEF Routing!CheckoutAnswers, Routing!Owner, Routing!PortalAnswers,
        First!Rt!CheckoutAnswers, First!Rt!Owner, First!Rt!PortalAnswers
  <2>11. \A env, accounts, q : Routing!Answers(env, accounts, q) = First!Rt!Answers(env, accounts, q)
    BY <2>8, <2>9, <2>10 DEF Routing!Answers, Routing!OfUser, Routing!Reads, Routing!Buys,
        Routing!OfOwner, First!Rt!Answers, First!Rt!OfUser, First!Rt!Reads, First!Rt!Buys,
        First!Rt!OfOwner
  <2>12. \A q, u : Routing!IsOwner(q, u) = First!Rt!IsOwner(q, u)
    BY <2>7, <2>8, ZenonT(30) DEF Routing!IsOwner, Routing!Asked, First!Rt!IsOwner, First!Rt!Asked
  <2>13. Routing!Arrives => First!Rt!Arrives
    BY ZenonT(30) DEF Routing!Arrives, Routing!Idle, Routing!Paths, Routing!Bodies,
        Routing!FromClient, Routing!FromStripe, Routing!Sessions, Routing!SignedOnly,
        Routing!Billing, Routing!Manages, Routing!FromBrowser, Routing!Reads, Routing!Buys,
        Routing!OfOwner, Routing!Catalogs, Routing!Admins, Routing!Feeds, Routing!Request,
        Routing!Overviews, Routing!OwnOwner, First!Rt!Arrives, First!Rt!Idle, First!Rt!Paths,
        First!Rt!Bodies, First!Rt!FromClient, First!Rt!FromStripe, First!Rt!Sessions,
        First!Rt!SignedOnly, First!Rt!Billing, First!Rt!Manages, First!Rt!FromBrowser,
        First!Rt!Reads, First!Rt!Buys, First!Rt!OfOwner, First!Rt!Catalogs, First!Rt!Admins,
        First!Rt!Feeds, First!Rt!Request, First!Rt!Overviews, First!Rt!OwnOwner
  <2>14. Routing!Privileged => First!Rt!Privileged
    BY ZenonT(30) DEF Routing!Privileged, Routing!SignedOnly, Routing!Answered,
        First!Rt!Privileged, First!Rt!SignedOnly, First!Rt!Answered
  <2>15. Routing!LooksUp => First!Rt!LooksUp
    BY ZenonT(30) DEF Routing!LooksUp, Routing!SignedOnly, Routing!NeedsSession, Routing!Answered,
        Routing!Dispatched, Routing!CrossSite, Routing!Billing, Routing!Overviews,
        Routing!EdgeMethods, Routing!Mutating, Routing!Manages, First!Rt!LooksUp,
        First!Rt!SignedOnly, First!Rt!NeedsSession, First!Rt!Answered, First!Rt!Dispatched,
        First!Rt!CrossSite, First!Rt!Billing, First!Rt!Overviews, First!Rt!EdgeMethods,
        First!Rt!Mutating, First!Rt!Manages
  <2>16. Routing!OwnerGate => First!Rt!OwnerGate
    BY <2>12, <2>1, ZenonT(30) DEF Routing!OwnerGate, Routing!Principals, Routing!Gates,
        Routing!Answered, Routing!OwnOwner, Routing!EdgeMethods, Routing!Overviews,
        Routing!Manages, Routing!SignedOnly, Routing!SelectInSeq, First!Rt!OwnerGate,
        First!Rt!Principals, First!Rt!Gates, First!Rt!Answered, First!Rt!OwnOwner,
        First!Rt!EdgeMethods, First!Rt!Overviews, First!Rt!Manages, First!Rt!SignedOnly,
        First!Rt!SelectInSeq
  <2>17. Routing!GateFails => First!Rt!GateFails
    BY ZenonT(30) DEF Routing!GateFails, Routing!Fault, Routing!Gates, Routing!Answered,
        Routing!OwnOwner, Routing!EdgeMethods, Routing!Overviews, Routing!Manages,
        Routing!SignedOnly, First!Rt!GateFails, First!Rt!Fault, First!Rt!Gates, First!Rt!Answered,
        First!Rt!OwnOwner, First!Rt!EdgeMethods, First!Rt!Overviews, First!Rt!Manages,
        First!Rt!SignedOnly
  <2>18. Routing!Calls => First!Rt!Calls
    BY ZenonT(30) DEF Routing!Calls, Routing!EdgeMethods, Routing!Answered, Routing!Payload,
        Routing!Overviews, Routing!Manages, Routing!SignedOnly, First!Rt!Calls,
        First!Rt!EdgeMethods, First!Rt!Answered, First!Rt!Payload, First!Rt!Overviews,
        First!Rt!Manages, First!Rt!SignedOnly
  <2>19. \A lost : Routing!Handles(lost) => First!Rt!Handles(lost)
    BY <2>11, <2>7, ZenonT(30) DEF Routing!Handles, Routing!Sent, Routing!Fault, Routing!Replied,
        Routing!Did, Routing!Again, Routing!Answered, Routing!Expected, Routing!Mutating,
        Routing!Admins, Routing!First, First!Rt!Handles, First!Rt!Sent, First!Rt!Fault,
        First!Rt!Replied, First!Rt!Did, First!Rt!Again, First!Rt!Answered, First!Rt!Expected,
        First!Rt!Mutating, First!Rt!Admins, First!Rt!First
  <2>20. Routing!Misses => First!Rt!Misses
    BY ZenonT(30) DEF Routing!Misses, Routing!Fault, Routing!Replied, Routing!Again,
        Routing!Answered, Routing!Mutating, First!Rt!Misses, First!Rt!Fault, First!Rt!Replied,
        First!Rt!Again, First!Rt!Answered, First!Rt!Mutating
  <2>21. Routing!Ends => First!Rt!Ends
    BY ZenonT(30) DEF Routing!Ends, Routing!Idle, First!Rt!Ends, First!Rt!Idle
  <2>22. Routing!SignsOut => First!Rt!SignsOut
    BY ZenonT(30) DEF Routing!SignsOut, First!Rt!SignsOut
  <2>23. Routing!Forgets => First!Rt!Forgets
    BY ZenonT(30) DEF Routing!Forgets, First!Rt!Forgets
  <2>24. Routing!Deploys => First!Rt!Deploys
    BY ZenonT(30) DEF Routing!Deploys, First!Rt!Deploys
  <2> QED
    BY <2>13, <2>14, <2>15, <2>16, <2>17, <2>18, <2>19, <2>20, <2>21, <2>22, <2>23, <2>24, ZenonT(30) DEF
        Routing!Next, First!Rt!Next
<1>3. UNCHANGED Routing!vars => UNCHANGED First!Rt!vars
  BY ZenonT(30) DEF Routing!vars, First!Rt!vars
<1> QED BY <1>1, <1>2, <1>3

LEMMA RoutingKept ==
    ASSUME NoneAssumption
    PROVE  /\ Routing!Init => First!RtInv
           /\ First!RtInv /\ [Routing!Next]_(Routing!vars) => First!RtInv'
           /\ First!RtInv => Routing!OnlyAllowed
<1>1. First!RtAssumption
  BY DEF NoneAssumption, First!RtAssumption
<1>2. Routing!Init => First!RtInv
  BY <1>1, SameRouting, First!RtInit
<1>3. First!RtInv /\ [Routing!Next]_(Routing!vars) => First!RtInv'
  BY <1>1, SameRouting, First!RtStep
<1>4. First!RtInv => Routing!OnlyAllowed
  <2>1. First!RtInv => First!Rt!OnlyAllowed
    BY <1>1, First!RtImplies
  <2> QED
    BY <2>1, ZenonT(30) DEF Routing!OnlyAllowed, Routing!Mutating, Routing!OwnPaths,
        Routing!Justified, Routing!OwnOwner, Routing!SignedOnly, Routing!Feeds, Routing!OfUser,
        Routing!OfOwner, Routing!Reads, Routing!Buys, First!Rt!OnlyAllowed, First!Rt!Mutating,
        First!Rt!OwnPaths, First!Rt!Justified, First!Rt!OwnOwner, First!Rt!SignedOnly,
        First!Rt!Feeds, First!Rt!OfUser, First!Rt!OfOwner, First!Rt!Reads, First!Rt!Buys
<1> QED BY <1>2, <1>3, <1>4

-----------------------------------------------------------------------------
(* Two requests to tell of one story, and two runs of one source.          *)
Second == INSTANCE ComponentProofs WITH
    outNow <- x1, outFaults <- x2, mark <- x3, outRequest <- x4, outTold <- x5, heard <- x6,
    wrong <- x7, Items <- {[id |-> "i", text |-> "a", story |-> "s"]}, Channels <- {"x"},
    Scopes <- {"d"}, Ttls <- {1, 2}, OutRequests <- {1, 2}, Connections <- 2,
    Escalation <- TRUE, MaxJobs <- 1, OutMaxTime <- 2, OutMaxFaults <- 1,
    feed <- x1, rssFaults <- x2, starts <- x3, validator <- x4, health <- x5, run <- x6,
    published <- x7, dropped <- x8, FastLane <- {"a"}, Rotating <- {},
    RssBase <- [s \in {"a"} |-> 40], Region <- [s \in {"a"} |-> "eu"],
    Kind <- [s \in {"a"} |-> "eu"], Runs <- {1, 2}, PerRun <- 1, PerSource <- 2, Shown <- 3,
    RssMaxVersion <- 3, RssMaxFaults <- 1, MaxRuns <- 3

LEMMA SameRepeats ==
    /\ Repeats!Init => Second!Out!Init
    /\ [Repeats!Next]_(Repeats!vars) => [Second!Out!Next]_(Second!Out!vars)
<1>1. Repeats!Init => Second!Out!Init
  BY ZenonT(30) DEF Repeats!Init, Repeats!Keys, Repeats!Idle, Second!Out!Init, Second!Out!Keys,
      Second!Out!Idle
<1>2. Repeats!Next => Second!Out!Next
  <2>1. \A item : Repeats!Fingerprints(item) = Second!Out!Fingerprints(item)
    BY DEF Repeats!Fingerprints, Repeats!Answers, Second!Out!Fingerprints, Second!Out!Answers
  <2>2. \A r : Repeats!Asked(r) => Second!Out!Asked(r)
    BY ZenonT(30) DEF Repeats!Asked, Repeats!Idle, Repeats!Jobs, Second!Out!Asked, Second!Out!Idle,
        Second!Out!Jobs
  <2>3. \A r, n : Repeats!JobStarts(r, n) => Second!Out!JobStarts(r, n)
    BY ZenonT(30) DEF Repeats!JobStarts, Repeats!InFlight, Repeats!Cardinality,
        Second!Out!JobStarts, Second!Out!InFlight, Second!Out!Cardinality
  <2>4. \A r, n : Repeats!Prints(r, n) => Second!Out!Prints(r, n)
    BY <2>1, ZenonT(30) DEF Repeats!Prints, Repeats!DedupeKey, Repeats!Holds, Second!Out!Prints,
        Second!Out!DedupeKey, Second!Out!Holds
  <2>5. \A r, n : Repeats!Looks(r, n) => Second!Out!Looks(r, n)
    BY ZenonT(30) DEF Repeats!Looks, Repeats!Holds, Repeats!What, Second!Out!Looks,
        Second!Out!Holds, Second!Out!What
  <2>6. \A r, n : Repeats!LookFails(r, n) => Second!Out!LookFails(r, n)
    BY ZenonT(30) DEF Repeats!LookFails, Repeats!Fault, Second!Out!LookFails, Second!Out!Fault
  <2>7. \A r, n : Repeats!Delivers(r, n) => Second!Out!Delivers(r, n)
    BY ZenonT(30) DEF Repeats!Delivers, Repeats!Delivered, Repeats!What, Second!Out!Delivers,
        Second!Out!Delivered, Second!Out!What
  <2>8. \A r, n : Repeats!AnswerLost(r, n) => Second!Out!AnswerLost(r, n)
    BY ZenonT(30) DEF Repeats!AnswerLost, Repeats!Delivered, Repeats!Fault, Repeats!What,
        Second!Out!AnswerLost, Second!Out!Delivered, Second!Out!Fault, Second!Out!What
  <2>9. \A r, n : Repeats!Refused(r, n) => Second!Out!Refused(r, n)
    BY ZenonT(30) DEF Repeats!Refused, Repeats!Fault, Second!Out!Refused, Second!Out!Fault
  <2>10. \A r, n : Repeats!Marks(r, n) => Second!Out!Marks(r, n)
    BY ZenonT(30) DEF Repeats!Marks, Repeats!What, Second!Out!Marks, Second!Out!What
  <2>11. \A r, n : Repeats!MarkFails(r, n) => Second!Out!MarkFails(r, n)
    BY ZenonT(30) DEF Repeats!MarkFails, Repeats!Fault, Repeats!What, Repeats!Least,
        Second!Out!MarkFails, Second!Out!Fault, Second!Out!What, Second!Out!Least
  <2>12. \A r : Repeats!Returns(r) => Second!Out!Returns(r)
    BY ZenonT(30) DEF Repeats!Returns, Repeats!Idle, Second!Out!Returns, Second!Out!Idle
  <2>13. \A r : Repeats!Dies(r) => Second!Out!Dies(r)
    BY ZenonT(30) DEF Repeats!Dies, Repeats!Fault, Repeats!Idle, Second!Out!Dies, Second!Out!Fault,
        Second!Out!Idle
  <2>14. Repeats!Tick => Second!Out!Tick
    BY ZenonT(30) DEF Repeats!Tick, Second!Out!Tick
  <2> QED
    BY <2>2, <2>3, <2>4, <2>5, <2>6, <2>7, <2>8, <2>9, <2>10, <2>11, <2>12, <2>13, <2>14, ZenonT(30) DEF
        Repeats!Next, Second!Out!Next
<1>3. UNCHANGED Repeats!vars => UNCHANGED Second!Out!vars
  BY ZenonT(30) DEF Repeats!vars, Second!Out!vars
<1> QED BY <1>1, <1>2, <1>3

LEMMA RepeatsKept ==
    ASSUME NoneAssumption
    PROVE  /\ Repeats!Init => Second!OutInv
           /\ Second!OutInv /\ [Repeats!Next]_(Repeats!vars) => Second!OutInv'
           /\ Second!OutInv => Repeats!ToldOnce
<1>1. Second!OutAssumption
  BY DEF Second!OutAssumption
<1>2. Repeats!Init => Second!OutInv
  BY <1>1, SameRepeats, Second!OutInit
<1>3. Second!OutInv /\ [Repeats!Next]_(Repeats!vars) => Second!OutInv'
  BY <1>1, SameRepeats, Second!OutStep
<1>4. Second!OutInv => Repeats!ToldOnce
  <2>1. Second!OutInv => Second!Out!ToldOnce
    BY <1>1, Second!OutImplies
  <2> QED
    BY <2>1, ZenonT(30) DEF Repeats!ToldOnce, Second!Out!ToldOnce
<1> QED BY <1>2, <1>3, <1>4

LEMMA SameOverlaps ==
    /\ Overlaps!Init => Second!Rss!Init
    /\ [Overlaps!Next]_(Overlaps!vars) => [Second!Rss!Next]_(Second!Rss!vars)
<1>1. Overlaps!Init => Second!Rss!Init
  BY ZenonT(30) DEF Overlaps!Init, Overlaps!Sources, Overlaps!Idle, Second!Rss!Init,
      Second!Rss!Sources, Second!Rss!Idle
<1>2. Overlaps!Next => Second!Rss!Next
  <2>1. \A S : Overlaps!Cardinality(S) = Second!Rss!Cardinality(S)
    BY ZenonT(30) DEF Overlaps!Cardinality, Second!Rss!Cardinality
  <2>2. \A n : Overlaps!Rotations(n) = Second!Rss!Rotations(n)
    BY ZenonT(30) DEF Overlaps!Rotations, Overlaps!MayBeNext, Overlaps!Penalty, Overlaps!Jitter,
        Overlaps!Cardinality, Second!Rss!Rotations, Second!Rss!MayBeNext, Second!Rss!Penalty,
        Second!Rss!Jitter, Second!Rss!Cardinality
  <2>3. Overlaps!Selections = Second!Rss!Selections
    BY <2>1, <2>2 DEF Overlaps!Selections, Overlaps!Sources, Overlaps!Least, Second!Rss!Selections,
        Second!Rss!Sources, Second!Rss!Least
  <2>4. \A r : Overlaps!Starts(r) => Second!Rss!Starts(r)
    BY <2>3, ZenonT(30) DEF Overlaps!Starts, Overlaps!Idle, Second!Rss!Starts, Second!Rss!Idle
  <2>5. \A r, s : Overlaps!Loads(r, s) => Second!Rss!Loads(r, s)
    BY ZenonT(30) DEF Overlaps!Loads, Second!Rss!Loads
  <2>6. \A r, s : Overlaps!NotModified(r, s) => Second!Rss!NotModified(r, s)
    BY ZenonT(30) DEF Overlaps!NotModified, Overlaps!Got, Second!Rss!NotModified, Second!Rss!Got
  <2>7. \A r, s : Overlaps!Modified(r, s) => Second!Rss!Modified(r, s)
    BY ZenonT(30) DEF Overlaps!Modified, Overlaps!Got, Second!Rss!Modified, Second!Rss!Got
  <2>8. \A r, s : Overlaps!FetchFails(r, s) => Second!Rss!FetchFails(r, s)
    BY ZenonT(30) DEF Overlaps!FetchFails, Overlaps!Fault, Overlaps!Least, Overlaps!Got,
        Second!Rss!FetchFails, Second!Rss!Fault, Second!Rss!Least, Second!Rss!Got
  <2>9. \A r, s : Overlaps!Stores(r, s) => Second!Rss!Stores(r, s)
    BY ZenonT(30) DEF Overlaps!Stores, Overlaps!Validates, Overlaps!Fault, Overlaps!Entries,
        Overlaps!Page, Overlaps!Least, Second!Rss!Stores, Second!Rss!Validates, Second!Rss!Fault,
        Second!Rss!Entries, Second!Rss!Page, Second!Rss!Least
  <2>10. \A r, s : Overlaps!Reports(r, s) => Second!Rss!Reports(r, s)
    BY ZenonT(30) DEF Overlaps!Reports, Second!Rss!Reports
  <2>11. \A r : Overlaps!Publishes(r) => Second!Rss!Publishes(r)
    BY ZenonT(30) DEF Overlaps!Publishes, Overlaps!Fetched, Overlaps!Idle, Second!Rss!Publishes,
        Second!Rss!Fetched, Second!Rss!Idle
  <2>12. \A r : Overlaps!Fails(r) => Second!Rss!Fails(r)
    BY ZenonT(30) DEF Overlaps!Fails, Overlaps!Idle, Overlaps!Fault, Second!Rss!Fails,
        Second!Rss!Idle, Second!Rss!Fault
  <2>13. \A s : Overlaps!FeedGrows(s) => Second!Rss!FeedGrows(s)
    BY ZenonT(30) DEF Overlaps!FeedGrows, Second!Rss!FeedGrows
  <2>14. \A s : Overlaps!ValidatorExpires(s) => Second!Rss!ValidatorExpires(s)
    BY ZenonT(30) DEF Overlaps!ValidatorExpires, Second!Rss!ValidatorExpires
  <2> QED
    BY <2>4, <2>5, <2>6, <2>7, <2>8, <2>9, <2>10, <2>11, <2>12, <2>13, <2>14, ZenonT(30) DEF
        Overlaps!Next, Overlaps!Sources, Second!Rss!Next, Second!Rss!Sources
<1>3. UNCHANGED Overlaps!vars => UNCHANGED Second!Rss!vars
  BY ZenonT(30) DEF Overlaps!vars, Second!Rss!vars
<1> QED BY <1>1, <1>2, <1>3

LEMMA OverlapsKept ==
    ASSUME NoneAssumption
    PROVE  /\ Overlaps!Init => Second!RssInv
           /\ Second!RssInv /\ [Overlaps!Next]_(Overlaps!vars) => Second!RssInv'
           /\ Second!RssInv => Overlaps!SkippedIsPublished
<1>1. Second!RssAssumption
  BY DEF NoneAssumption, Second!RssAssumption
<1>2. Overlaps!Init => Second!RssInv
  BY <1>1, SameOverlaps, Second!RssInit
<1>3. Second!RssInv /\ [Overlaps!Next]_(Overlaps!vars) => Second!RssInv'
  BY <1>1, SameOverlaps, Second!RssStep
<1>4. Second!RssInv => Overlaps!SkippedIsPublished
  <2>1. Second!RssInv => Second!Rss!SkippedIsPublished
    BY <1>1, Second!RssImplies
  <2> QED
    BY <2>1, ZenonT(30) DEF Overlaps!SkippedIsPublished, Overlaps!Sources, Overlaps!Entries,
        Overlaps!Idle, Overlaps!Least, Second!Rss!SkippedIsPublished, Second!Rss!Sources,
        Second!Rss!Entries, Second!Rss!Idle, Second!Rss!Least
<1> QED BY <1>2, <1>3, <1>4

-----------------------------------------------------------------------------
(* The invariant of the component that runs.                               *)
Invs ==
    /\ part = "stories" => First!OutInv
    /\ part = "repeats" => Second!OutInv
    /\ part = "turns" => First!RssInv
    /\ part = "overlaps" => Second!RssInv
    /\ part = "profiles" => First!XpInv
    /\ part = "routes" => First!RtInv

LEMMA InvsInit == NoneAssumption /\ Init => Invs
<1> SUFFICES ASSUME NoneAssumption, Init PROVE Invs
  OBVIOUS
<1>1. /\ part = "stories" => Stories!Init
      /\ part = "repeats" => Repeats!Init
      /\ part = "turns" => Turns!Init
      /\ part = "overlaps" => Overlaps!Init
      /\ part = "profiles" => Profiles!Init
      /\ part = "routes" => Routing!Init
  BY DEF Init
<1> QED
  BY <1>1, StoriesKept, RepeatsKept, TurnsKept, OverlapsKept, ProfilesKept, RoutingKept
  DEF Invs

LEMMA InvsStep == NoneAssumption /\ Invs /\ [Next]_vars => Invs'
<1> SUFFICES ASSUME NoneAssumption, Invs, [Next]_vars PROVE Invs'
  OBVIOUS
<1> QED
  BY OneComponent, StoriesKept, RepeatsKept, TurnsKept, OverlapsKept, ProfilesKept, RoutingKept
  DEF Invs

(* A channel is told a story at most once by one request, and not at all   *)
(* by a job that comes to it after a job that counted its delivery, until  *)
(* the mark's time is over, whatever time each request asks for            *)
(* (deliverOutboundTargets).                                               *)
THEOREM NewsToldOnce ==
    ASSUME NoneAssumption
    PROVE  Spec => []ToldOnce
<1>1. NoneAssumption /\ Invs => ToldOnce
  BY StoriesKept, RepeatsKept DEF Invs, ToldOnce
<1> QED BY <1>1, InvsInit, InvsStep, PTL DEF Spec

(* While a stored validator says that a feed need not be fetched, what it  *)
(* shows is published, or about to be, or was lost with a run that failed  *)
(* (fetchSourceFeedNews, storeRssSourceValidator).                         *)
THEOREM NewsSkippedIsPublished ==
    ASSUME NoneAssumption
    PROVE  Spec => []SkippedIsPublished
<1>1. NoneAssumption /\ Invs => SkippedIsPublished
  BY TurnsKept, OverlapsKept DEF Invs, SkippedIsPublished
<1> QED BY <1>1, InvsInit, InvsStep, PTL DEF Spec

(* What the two workers did for a request is the session's or the token's  *)
(* own, and a request that is no read is handled at most once; and while   *)
(* KV has a user's profile no outage gives the user the placeholder, and   *)
(* who has a name is called by no other.                                   *)
THEOREM NewsOnlyAllowed ==
    ASSUME NoneAssumption
    PROVE  Spec => []OnlyAllowed
<1>1. NoneAssumption /\ Invs => OnlyAllowed
  BY ProfilesKept, RoutingKept DEF Invs, OnlyAllowed
<1> QED BY <1>1, InvsInit, InvsStep, PTL DEF Spec
=============================================================================
