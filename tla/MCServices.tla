----------------------------- MODULE MCServices -----------------------------
(***************************************************************************)
(* What the workers keep for their callers: the webhook lease (the module  *)
(* this one extends) and every other service whose state is its own. Each  *)
(* behaviour is one of one service (part), and a service whose cases need  *)
(* different sizes appears with several instances. The variables x1, x2,   *)
(* ... hold the state of the service that runs, in the order of its vars,  *)
(* and None past it.                                                       *)
(***************************************************************************)
EXTENDS WebhookLease

CONSTANTS None

VARIABLES part,
          x1, x2, x3, x4, x5, x6, x7, x8, x9, x10, x11, x12, x13, x14, x15, x16

(* A minute and the start of the next, and a trial that ends in between.   *)
Rates == INSTANCE RateLimit WITH
    now <- x1, status <- x2, count <- x3, caller <- x4, granted <- x5, allowed <- x6,
    overlapped <- x7,
    Routes <- {"news"}, Callers <- {1, 2}, Minute <- 2, KeptFor <- 4,
    FreeLimit <- 1, TrialLimit <- 2, SubscriberLimit <- 3, TrialEnd <- 2,
    MaxTime <- 3, MaxGrants <- 4

(* Seeds of two entries through the queue.                                 *)
Queued == INSTANCE UsageStore WITH
    now <- x1, faults <- x2, seeds <- x3, kv <- x4, queue <- x5, seeder <- x6, edge <- x7,
    reader <- x8, accepted <- x9, written <- x10, lastHad <- x11, outdated <- x12, attempts <- x13,
    Keys <- {"k", "l"}, Windows <- {}, Foreign <- "foreign", Limits <- {1}, Readers <- {},
    Async <- TRUE, CacheTtl <- 0, MaxRetries <- 1, Remote <- FALSE, BatchSize <- 1, QueueRetries <- 1,
    Deadline <- 1, MaxSeeds <- 2, MaxEntries <- 2, MaxTime <- 0, MaxFaults <- 2

(* A reader, the edge cache and the schedule that warms it.                *)
Cached == INSTANCE UsageStore WITH
    now <- x1, faults <- x2, seeds <- x3, kv <- x4, queue <- x5, seeder <- x6, edge <- x7,
    reader <- x8, accepted <- x9, written <- x10, lastHad <- x11, outdated <- x12, attempts <- x13,
    Keys <- {"k"}, Windows <- {"k"}, Foreign <- "foreign", Limits <- {1, 2}, Readers <- {1},
    Async <- FALSE, CacheTtl <- 1, MaxRetries <- 1, Remote <- FALSE, BatchSize <- 1, QueueRetries <- 1,
    Deadline <- 1, MaxSeeds <- 2, MaxEntries <- 1, MaxTime <- 3, MaxFaults <- 1

(* A reader of the backend behind this one.                                *)
Proxied == INSTANCE UsageStore WITH
    now <- x1, faults <- x2, seeds <- x3, kv <- x4, queue <- x5, seeder <- x6, edge <- x7,
    reader <- x8, accepted <- x9, written <- x10, lastHad <- x11, outdated <- x12, attempts <- x13,
    Keys <- {"k", "l"}, Windows <- {}, Foreign <- "foreign", Limits <- {1}, Readers <- {1},
    Async <- FALSE, CacheTtl <- 0, MaxRetries <- 1, Remote <- TRUE, BatchSize <- 1, QueueRetries <- 1,
    Deadline <- 1, MaxSeeds <- 2, MaxEntries <- 2, MaxTime <- 0, MaxFaults <- 2

(* Two feeds' worth of fetches for one endpoint of the alarm's, and one    *)
(* fetch at a time for the chat history and the whales.                    *)
Feeds == INSTANCE IntelCache WITH
    world <- x1, floor <- x2, now <- x3, faults <- x4, unsaved <- x5, cache <- x6, inFlight <- x7,
    cooldown <- x8, gen <- x9, stored <- x10, fetch <- x11, reader <- x12, rewarm <- x13,
    alarm <- x14, refreshing <- x15, servedOld <- x16,
    Standard <- {"briefs"}, Proactive <- {"briefs"}, Chat <- {}, DefaultChat <- {}, Whales <- {},
    Readers <- {"r"}, Fetches <- 1..3, Parallel <- 2,
    MaxWorld <- 1, MaxTime <- 2, MaxFaults <- 1, MaxBusts <- 1,
    MaxAge <- 1, StaleWindow <- 2, Cooldown <- 1

Chats == INSTANCE IntelCache WITH
    world <- x1, floor <- x2, now <- x3, faults <- x4, unsaved <- x5, cache <- x6, inFlight <- x7,
    cooldown <- x8, gen <- x9, stored <- x10, fetch <- x11, reader <- x12, rewarm <- x13,
    alarm <- x14, refreshing <- x15, servedOld <- x16,
    Standard <- {}, Proactive <- {}, Chat <- {"chat"}, DefaultChat <- {}, Whales <- {"whales"},
    Readers <- {"r"}, Fetches <- 1..2, Parallel <- 1,
    MaxWorld <- 1, MaxTime <- 1, MaxFaults <- 1, MaxBusts <- 1,
    MaxAge <- 1, StaleWindow <- 1, Cooldown <- 1

(* Time enough to forget a nonce, or a second configuration.               *)
Control == INSTANCE CollectorControl WITH
    now <- x1, deployed <- x2, container <- x3, sent <- x4, wire <- x5, guarded <- x6, stored <- x7,
    nonces <- x8, hits <- x9, status <- x10, applied <- x11, twice <- x12, overlapped <- x13,
    MaxTime <- 3, MaxVersion <- 1, MaxSent <- 2, MaxDeploys <- 1,
    Skew <- 1, NonceTtl <- 2, Window <- 2, Limit <- 2, Stale <- 1

Deployed == INSTANCE CollectorControl WITH
    now <- x1, deployed <- x2, container <- x3, sent <- x4, wire <- x5, guarded <- x6, stored <- x7,
    nonces <- x8, hits <- x9, status <- x10, applied <- x11, twice <- x12, overlapped <- x13,
    MaxTime <- 0, MaxVersion <- 1, MaxSent <- 2, MaxDeploys <- 2,
    Skew <- 1, NonceTtl <- 2, Window <- 2, Limit <- 2, Stale <- 1

(* Past the life of a nonce, or past that of an event and its bucket.      *)
Guarded == INSTANCE AdminGuard WITH
    now <- x1, signed <- x2, waiting <- x3, nonceLog <- x4, rateLog <- x5, accepted <- x6,
    buckets <- x7, tookAt <- x8,
    Nonces <- {"n1", "n2"}, Ips <- {"i"}, Events <- {}, MaxTime <- 4, MaxSkew <- 1,
    NonceTtl <- 2, Window <- 2, Limit <- 1, EventTtl <- 3, Day <- 1

Webhooks == INSTANCE AdminGuard WITH
    now <- x1, signed <- x2, waiting <- x3, nonceLog <- x4, rateLog <- x5, accepted <- x6,
    buckets <- x7, tookAt <- x8,
    Nonces <- {}, Ips <- {}, Events <- {"e1", "e2"}, MaxTime <- 9, MaxSkew <- 1,
    NonceTtl <- 2, Window <- 2, Limit <- 1, EventTtl <- 6, Day <- 2

(* Two writers, of one user or of two, and the summary of both.            *)
Crm == INSTANCE CrmSummary WITH
    writes <- x1, faults <- x2, account <- x3, log <- x4, summary <- x5, writer <- x6,
    builder <- x7, lost <- x8, logged <- x9, overlapped <- x10,
    Users <- {1, 2}, Writers <- {1, 2}, Builders <- {1},
    LogLimit <- 1, MaxWrites <- 2, MaxFaults <- 1

(* An owner, and a customer who renews or begins again; two writers of the *)
(* account, or one whose calls may fail.                                   *)
Customer == INSTANCE CrmStripe WITH
    faults <- x1, stripe <- x2, events <- x3, account <- x4, snapshot <- x5, request <- x6,
    writer <- x7, known <- x8, forgotten <- x9, crossed <- x10, acted <- x11,
    Owners <- {1}, Hooks <- {1, 2}, Switches <- {2}, MaxCharges <- 2, MaxFaults <- 0

Failing == INSTANCE CrmStripe WITH
    faults <- x1, stripe <- x2, events <- x3, account <- x4, snapshot <- x5, request <- x6,
    writer <- x7, known <- x8, forgotten <- x9, crossed <- x10, acted <- x11,
    Owners <- {1}, Hooks <- {1}, Switches <- {}, MaxCharges <- 2, MaxFaults <- 1

(* Two pages, or three that the limit cuts off.                            *)
Figures == INSTANCE StripeSummary WITH
    now <- x1, made <- x2, cached <- x3, sync <- x4,
    Syncs <- {1}, PageSize <- 1, MaxSubscriptions <- 2, Ttl <- 1, Timeout <- 1,
    MaxMade <- 3, MaxTime <- 4

(* An emergency on the ground and one too old to show, a fast military     *)
(* aircraft, and another of no interest.                                   *)
Aircraft == INSTANCE AirSea WITH
    now <- x1, cached <- x2, request <- x3, sky <- x4,
    Tracks <- {
        [emergency |-> TRUE, military |-> FALSE, zone |-> FALSE, ground |-> TRUE, speed |-> 0, altitude |-> 0, age |-> 720],
        [emergency |-> TRUE, military |-> FALSE, zone |-> FALSE, ground |-> FALSE, speed |-> 300, altitude |-> 30000, age |-> 1300],
        [emergency |-> FALSE, military |-> TRUE, zone |-> TRUE, ground |-> FALSE, speed |-> 600, altitude |-> 60000, age |-> 0],
        [emergency |-> FALSE, military |-> FALSE, zone |-> TRUE, ground |-> FALSE, speed |-> 600, altitude |-> 60000, age |-> 240]},
    Requests <- {1, 2}, MaxTracks <- 1, Refresh <- 1, Stale <- 2, Timeout <- 1,
    MaxTime <- 4, MaxSky <- 2

(* Every lane, and two workers.                                            *)
AiWork == INSTANCE AiJobs WITH
    mode <- x1, next <- x2, worker <- x3, results <- x4, asked <- x5, lines <- x6,
    Jobs <- <<
        [type |-> "dedupe", media |-> FALSE, preferEscalation |-> FALSE],
        [type |-> "dedupe", media |-> TRUE, preferEscalation |-> TRUE],
        [type |-> "translate", media |-> FALSE, preferEscalation |-> FALSE],
        [type |-> "dedupe", media |-> TRUE, preferEscalation |-> FALSE]>>,
    Connections <- 2, Escalation <- TRUE, MaxLines <- 3

(* An item of each feed, and preferences for regions, channels and         *)
(* sources.                                                                *)
Alerts == INSTANCE SubscriberAlerts WITH
    faults <- x1, saves <- x2, reads <- x3, feed <- x4, prefs <- x5, kinds <- x6, alerts <- x7,
    unread <- x8, request <- x9, wasRead <- x10,
    Items <- {
        [id |-> 1, surface |-> "telegram", region |-> "east", source |-> "c", first |-> TRUE, grade |-> "B"],
        [id |-> 2, surface |-> "osint", region |-> "east", source |-> "s", first |-> FALSE, grade |-> "A"]},
    Preferences <- {
        [regions |-> {"east"}, channels |-> {}, sources |-> {"s"}],
        [regions |-> {}, channels |-> {"c"}, sources |-> {}]},
    Kinds <- {
        [on |-> {"first_report_region", "high_signal_region", "first_report_channel", "high_signal_source"}, least |-> "B"],
        [on |-> {"first_report_channel", "high_signal_region"}, least |-> "A"]},
    Requests <- {1}, Limit <- 1, MaxFaults <- 1, MaxSaves <- 1, MaxReads <- 1

(* Two requests' trackers, and time for an alert, its cooldown and a       *)
(* record's end.                                                           *)
Outage == INSTANCE ProfileAlerts WITH
    now <- x1, faults <- x2, state <- x3, track <- x4, synced <- x5, told <- x6, sure <- x7,
    early <- x8,
    Trackers <- {1, 2}, Threshold <- 2, Cooldown <- 2, Timeout <- 1, Ttl <- 3,
    MaxTime <- 5, MaxFaults <- 1

(* Two reports of one link, one like them and one of another story.        *)
Clusters == INSTANCE TelegramEvents WITH
    kept <- x1, rules <- x2, stats <- x3, build <- x4, shown <- x5, feedback <- x6, builds <- x7,
    Reports <- {
        [link |-> "r1", place |-> 1, channel |-> "a", at |-> 5, text |-> "t", anchor |-> None, media |-> None],
        [link |-> "r2", place |-> 2, channel |-> "b", at |-> 3, text |-> "u", anchor |-> "url", media |-> None],
        [link |-> "r3", place |-> 3, channel |-> "a", at |-> 2, text |-> "u", anchor |-> "url", media |-> None],
        [link |-> "r4", place |-> 4, channel |-> "b", at |-> 1, text |-> "v", anchor |-> None, media |-> "m"]},
    Alike <- {{"t", "u"}}, Length <- [t |-> 1, u |-> 2, v |-> 3],
    Window <- 2, MediaWindow <- 3, Bucket <- 2, Lead <- 1, MaxEvents <- 3, Targets <- {"k"},
    Jobs <- {1, 2}, MaxFeedback <- 1, MaxBuilds <- 2

(* A Latin text and its photo, and time for pauses to double and to be     *)
(* forgotten; then two messages of one text in two channels, one of them   *)
(* the collector's too, before any pause is over.                          *)
Pauses == INSTANCE TelegramTexts WITH
    now <- x1, posted <- x2, shown <- x3, rows <- x4, seen <- x5, cache <- x6, pause <- x7,
    scrape <- x8, faults <- x9, lost <- x10, tried <- x11, early <- x12, apart <- x13,
    Messages <- {1}, Home <- <<"a">>, Text <- <<"t">>, Foreign <- {}, Photos <- {1}, Collected <- {},
    Base <- 1, Longest <- 2, CacheTtl <- 1, RetryTtl <- 3, MaxTime <- 6, MaxFaults <- 1

Texts == INSTANCE TelegramTexts WITH
    now <- x1, posted <- x2, shown <- x3, rows <- x4, seen <- x5, cache <- x6, pause <- x7,
    scrape <- x8, faults <- x9, lost <- x10, tried <- x11, early <- x12, apart <- x13,
    Messages <- {1, 2}, Home <- <<"a", "b">>, Text <- <<"t", "t">>, Foreign <- {"t"}, Photos <- {1},
    Collected <- {2}, Base <- 1, Longest <- 2, CacheTtl <- 0, RetryTtl <- 3, MaxTime <- 0, MaxFaults <- 1

xs == <<x1, x2, x3, x4, x5, x6, x7, x8, x9, x10, x11, x12, x13, x14, x15, x16>>
serviceVars == <<part, now, lease, job, xs>>

(* From a variable on, none is in use.                                     *)
Unused16 == x16 = None
Unused15 == x15 = None /\ Unused16
Unused14 == x14 = None /\ Unused15
Unused13 == x13 = None /\ Unused14
Unused12 == x12 = None /\ Unused13
Unused11 == x11 = None /\ Unused12
Unused10 == x10 = None /\ Unused11
Unused9 == x9 = None /\ Unused10
Unused8 == x8 = None /\ Unused9
Unused7 == x7 = None /\ Unused8
Unused6 == x6 = None /\ Unused7
Unused5 == x5 = None /\ Unused6
Unused4 == x4 = None /\ Unused5
Unused3 == x3 = None /\ Unused4
Unused2 == x2 = None /\ Unused3
Unused1 == x1 = None /\ Unused2

rest5 == <<x5, x6, x7, x8, x9, x10, x11, x12, x13, x14, x15, x16>>
rest7 == <<x7, x8, x9, x10, x11, x12, x13, x14, x15, x16>>
rest8 == <<x8, x9, x10, x11, x12, x13, x14, x15, x16>>
rest9 == <<x9, x10, x11, x12, x13, x14, x15, x16>>
rest11 == <<x11, x12, x13, x14, x15, x16>>
rest12 == <<x12, x13, x14, x15, x16>>
rest14 == <<x14, x15, x16>>

ServicesInit ==
    /\ Init
    /\ \/ part = "lease" /\ Unused1
       \/ part = "rates" /\ Rates!Init /\ Unused8
       \/ part = "queued" /\ Queued!Init /\ Unused14
       \/ part = "cached" /\ Cached!Init /\ Unused14
       \/ part = "proxied" /\ Proxied!Init /\ Unused14
       \/ part = "feeds" /\ Feeds!Init
       \/ part = "chats" /\ Chats!Init
       \/ part = "control" /\ Control!Init /\ Unused14
       \/ part = "deployed" /\ Deployed!Init /\ Unused14
       \/ part = "guarded" /\ Guarded!Init /\ Unused9
       \/ part = "webhooks" /\ Webhooks!Init /\ Unused9
       \/ part = "crm" /\ Crm!Init /\ Unused11
       \/ part = "customer" /\ Customer!Init /\ Unused12
       \/ part = "failing" /\ Failing!Init /\ Unused12
       \/ part = "figures" /\ Figures!Init /\ Unused5
       \/ part = "aircraft" /\ Aircraft!Init /\ Unused5
       \/ part = "jobs" /\ AiWork!Init /\ Unused7
       \/ part = "alerts" /\ Alerts!Init /\ Unused11
       \/ part = "outage" /\ Outage!Init /\ Unused9
       \/ part = "events" /\ Clusters!Init /\ Unused8
       \/ part = "pauses" /\ Pauses!Init /\ Unused14
       \/ part = "texts" /\ Texts!Init /\ Unused14

ServicesNext ==
    \/ part = "lease" /\ Next /\ UNCHANGED <<part, xs>>
    \/ /\ UNCHANGED <<part, now, lease, job>>
       /\ \/ part = "rates" /\ Rates!Next /\ UNCHANGED rest8
          \/ part = "queued" /\ Queued!Next /\ UNCHANGED rest14
          \/ part = "cached" /\ Cached!Next /\ UNCHANGED rest14
          \/ part = "proxied" /\ Proxied!Next /\ UNCHANGED rest14
          \/ part = "feeds" /\ Feeds!Next
          \/ part = "chats" /\ Chats!Next
          \/ part = "control" /\ Control!Next /\ UNCHANGED rest14
          \/ part = "deployed" /\ Deployed!Next /\ UNCHANGED rest14
          \/ part = "guarded" /\ Guarded!Next /\ UNCHANGED rest9
          \/ part = "webhooks" /\ Webhooks!Next /\ UNCHANGED rest9
          \/ part = "crm" /\ Crm!Next /\ UNCHANGED rest11
          \/ part = "customer" /\ Customer!Next /\ UNCHANGED rest12
          \/ part = "failing" /\ Failing!Next /\ UNCHANGED rest12
          \/ part = "figures" /\ Figures!Next /\ UNCHANGED rest5
          \/ part = "aircraft" /\ Aircraft!Next /\ UNCHANGED rest5
          \/ part = "jobs" /\ AiWork!Next /\ UNCHANGED rest7
          \/ part = "alerts" /\ Alerts!Next /\ UNCHANGED rest11
          \/ part = "outage" /\ Outage!Next /\ UNCHANGED rest9
          \/ part = "events" /\ Clusters!Next /\ UNCHANGED rest8
          \/ part = "pauses" /\ Pauses!Next /\ UNCHANGED rest14
          \/ part = "texts" /\ Texts!Next /\ UNCHANGED rest14

ServicesSpec == ServicesInit /\ [][ServicesNext]_serviceVars

-----------------------------------------------------------------------------
(* Each service's state has its shape; that of the lease, its inductive    *)
(* invariant.                                                              *)
TypesOK ==
    /\ part = "lease" => LeaseInv
    /\ part = "rates" => Rates!TypeOK
    /\ part = "queued" => Queued!TypeOK
    /\ part = "cached" => Cached!TypeOK
    /\ part = "proxied" => Proxied!TypeOK
    /\ part = "feeds" => Feeds!TypeOK
    /\ part = "chats" => Chats!TypeOK
    /\ part = "control" => Control!TypeOK
    /\ part = "deployed" => Deployed!TypeOK
    /\ part = "guarded" => Guarded!TypeOK
    /\ part = "webhooks" => Webhooks!TypeOK
    /\ part = "crm" => Crm!TypeOK
    /\ part = "customer" => Customer!TypeOK
    /\ part = "failing" => Failing!TypeOK
    /\ part = "figures" => Figures!TypeOK
    /\ part = "aircraft" => Aircraft!TypeOK
    /\ part = "jobs" => AiWork!TypeOK
    /\ part = "alerts" => Alerts!TypeOK
    /\ part = "outage" => Outage!TypeOK
    /\ part = "events" => Clusters!TypeOK
    /\ part = "pauses" => Pauses!TypeOK
    /\ part = "texts" => Texts!TypeOK

(* RateLimit: unless two requests overlapped, a minute lets through no     *)
(* more than the highest limit that applied in it.  TelegramTexts: what    *)
(* failed is tried again after a pause that doubles.                       *)
WithinLimit ==
    /\ part = "rates" => Rates!WithinLimit
    /\ part = "pauses" => Pauses!ApartByPause
    /\ part = "texts" => Texts!ApartByPause

(* UsageStore: an accepted entry is stored, or still to be, unless its     *)
(* delivery failed more often than the queue retries.  IntelCache: a       *)
(* restart finds what was saved last.  CrmSummary: a log has its newest    *)
(* events.                                                                 *)
SavedKept ==
    /\ part = "queued" => Queued!AcceptedKept
    /\ part = "cached" => Cached!AcceptedKept
    /\ part = "proxied" => Proxied!AcceptedKept
    /\ part = "feeds" => Feeds!RestartKeeps
    /\ part = "chats" => Chats!RestartKeeps
    /\ part = "crm" => Crm!LogKept

(* UsageStore: an answer is of the request, and no older than the cache.   *)
(* AirSea and StripeSummary: it is no older than the snapshot may be, and  *)
(* the calls it took.                                                      *)
FreshEnough ==
    /\ part = "queued" => Queued!FreshEnough
    /\ part = "cached" => Cached!FreshEnough
    /\ part = "proxied" => Proxied!FreshEnough
    /\ part = "figures" => Figures!FreshEnough
    /\ part = "aircraft" => Aircraft!FreshEnough

(* CrmSummary: the summary is of the accounts there are.  CrmStripe: what  *)
(* is refunded or cancelled is no older than what was known, unless        *)
(* writers of the account overlapped or the last event's time was          *)
(* forgotten.  TelegramEvents: a channel's counts are of whole events.     *)
(* TelegramTexts: a message's row has what the state has, but for a text   *)
(* translated outside a scrape's channels.                                 *)
DerivedCurrent ==
    /\ part = "events" => Clusters!PerformanceAgrees
    /\ part = "crm" => Crm!SummaryCurrent
    /\ part = "customer" => Customer!ActsOnKnown
    /\ part = "failing" => Failing!ActsOnKnown
    /\ part = "pauses" => Pauses!RowsAgree
    /\ part = "texts" => Texts!RowsAgree

(* AiJobs: every job is done once and has its own result.  StripeSummary:  *)
(* every subscription counts once.  AirSea: every emergency counted is     *)
(* shown, or nothing else is.  SubscriberAlerts: what matches has an       *)
(* alert, which is read once.  ProfileAlerts: alerts are a cooldown apart. *)
(* TelegramEvents: every report is in one event.                           *)
EachOnce ==
    /\ part = "jobs" => AiWork!EachJobOnce
    /\ part = "figures" => Figures!CountedOnce
    /\ part = "aircraft" => Aircraft!EmergenciesShown
    /\ part = "alerts" => Alerts!AlertedOnce
    /\ part = "outage" => Outage!AlertsApart
    /\ part = "events" => Clusters!ReportsOnce

(* IntelCache: no answer with data from before a bust that preceded it.    *)
NothingFromBeforeBust ==
    /\ part = "feeds" => Feeds!NothingFromBeforeBust
    /\ part = "chats" => Chats!NothingFromBeforeBust

(* CollectorControl and AdminGuard: a signed request takes effect at most  *)
(* once.                                                                   *)
SignedOnce ==
    /\ part = "control" => Control!AppliedOnce
    /\ part = "deployed" => Deployed!AppliedOnce
    /\ part = "guarded" => Guarded!AcceptedOnce

(* CollectorControl: the state goes back only when two writers overlapped. *)
RegressesOnlyByOverlap ==
    [][/\ part = "control" => (Control!Regresses => Control!Overlap)
       /\ part = "deployed" => (Deployed!Regresses => Deployed!Overlap)]_serviceVars

(* AdminGuard: an event is let through again only after its time, less the *)
(* length of a bucket.                                                     *)
TakenAgainLate == [][part = "webhooks" => Webhooks!TakesLate]_serviceVars
=============================================================================
