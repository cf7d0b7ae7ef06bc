------------------------------- MODULE MCNews -------------------------------
(***************************************************************************)
(* The way of the news through the backend: taken from the feeds           *)
(* (RssIngest), published and read (NewsFeed), held back at the edge       *)
(* (FeedGate) and told to channels (Outbound); and the way of a request:   *)
(* by whom it is made (XProfile) and what the two workers do for it        *)
(* (Routes). What one hands to the next stands in each module as its       *)
(* environment: each behaviour is one of one of them (part), and a         *)
(* component whose cases need different sizes appears with several         *)
(* instances. The variables x1, x2, ... hold the state of the one that     *)
(* runs, in the order of its vars, and None past it.                       *)
(***************************************************************************)
EXTENDS Integers

CONSTANTS None

VARIABLES part,
          x1, x2, x3, x4, x5, x6, x7, x8, x9, x10, x11, x12

(* Two isolates and the fallback that writes past the coordinator.         *)
Fallback == INSTANCE NewsFeed WITH
    now <- x1, faults <- x2, publishes <- x3, kv <- x4, hot <- x5, memo <- x6, place <- x7,
    busy <- x8, publisher <- x9, reader <- x10, stale <- x11, early <- x12,
    Entries <- {[id |-> 1, title |-> "a", at |-> 0], [id |-> 2, title |-> "b", at |-> 1]},
    Shards <- {"s1"}, Isolates <- 1..2, Publishers <- 1..2, Readers <- {},
    MaxTime <- 0, MaxFaults <- 1, MaxPublishes <- 2, CacheTtl <- 1, Retention <- 0,
    Delay <- 1, MaxItems <- 1, HotLimit <- 1, Limit <- 1, AllowFallback <- TRUE,
    AiEnrich <- FALSE, English <- "en"

(* One item under two titles, and the coordinator's lock.                  *)
Retold == INSTANCE NewsFeed WITH
    now <- x1, faults <- x2, publishes <- x3, kv <- x4, hot <- x5, memo <- x6, place <- x7,
    busy <- x8, publisher <- x9, reader <- x10, stale <- x11, early <- x12,
    Entries <- {[id |-> 1, title |-> "a", at |-> 0], [id |-> 1, title |-> "b", at |-> 1]},
    Shards <- {"s1"}, Isolates <- {1}, Publishers <- 1..2, Readers <- {},
    MaxTime <- 1, MaxFaults <- 1, MaxPublishes <- 2, CacheTtl <- 0, Retention <- 0,
    Delay <- 1, MaxItems <- 2, HotLimit <- 1, Limit <- 1, AllowFallback <- FALSE,
    AiEnrich <- TRUE, English <- "en"

(* A reader and items of two ages in two shards.                           *)
Reading == INSTANCE NewsFeed WITH
    now <- x1, faults <- x2, publishes <- x3, kv <- x4, hot <- x5, memo <- x6, place <- x7,
    busy <- x8, publisher <- x9, reader <- x10, stale <- x11, early <- x12,
    Entries <- {[id |-> 1, title |-> "a", at |-> 0], [id |-> 2, title |-> "b", at |-> 0],
                [id |-> 3, title |-> "c", at |-> 1]},
    Shards <- {"s1", "s2"}, Isolates <- {1}, Publishers <- {1}, Readers <- {1},
    MaxTime <- 2, MaxFaults <- 0, MaxPublishes <- 2, CacheTtl <- 0, Retention <- 9,
    Delay <- 1, MaxItems <- 3, HotLimit <- 2, Limit <- 2, AllowFallback <- FALSE,
    AiEnrich <- FALSE, English <- "en"

(* Two items of one story and two channels told two at a time.             *)
Stories == INSTANCE Outbound WITH
    now <- x1, faults <- x2, mark <- x3, request <- x4, told <- x5, heard <- x6, wrong <- x7,
    Items <- {[id |-> "i", text |-> "a", story |-> "s"], [id |-> "j", text |-> "b", story |-> "s"]},
    Channels <- {"x", "y"}, Scopes <- {"d"}, Ttls <- {1}, Requests <- {1}, Connections <- 2,
    Escalation <- TRUE, MaxJobs <- 2, MaxTime <- 0, MaxFaults <- 1

(* Two requests, and time for a mark to end, sooner or later.              *)
Repeats == INSTANCE Outbound WITH
    now <- x1, faults <- x2, mark <- x3, request <- x4, told <- x5, heard <- x6, wrong <- x7,
    Items <- {[id |-> "i", text |-> "a", story |-> "s"]},
    Channels <- {"x"}, Scopes <- {"d"}, Ttls <- {1, 2}, Requests <- {1, 2}, Connections <- 2,
    Escalation <- TRUE, MaxJobs <- 1, MaxTime <- 2, MaxFaults <- 1

(* A fast-lane source and two that take turns; then one source, two runs.  *)
Turns == INSTANCE RssIngest WITH
    feed <- x1, faults <- x2, starts <- x3, validator <- x4, health <- x5, run <- x6,
    published <- x7, dropped <- x8,
    FastLane <- {"a"}, Rotating <- {"b", "c"},
    Base <- [s \in {"a", "b", "c"} |-> IF s = "c" THEN 18 ELSE 40],
    Region <- [s \in {"a", "b", "c"} |-> IF s = "a" THEN "eu" ELSE "global"],
    Kind <- [s \in {"a", "b", "c"} |-> IF s = "a" THEN "eu" ELSE "global"],
    Runs <- {1}, PerRun <- 2, PerSource <- 2, Shown <- 3,
    MaxVersion <- 2, MaxFaults <- 1, MaxRuns <- 2

Overlaps == INSTANCE RssIngest WITH
    feed <- x1, faults <- x2, starts <- x3, validator <- x4, health <- x5, run <- x6,
    published <- x7, dropped <- x8,
    FastLane <- {"a"}, Rotating <- {},
    Base <- [s \in {"a"} |-> 40], Region <- [s \in {"a"} |-> "eu"], Kind <- [s \in {"a"} |-> "eu"],
    Runs <- {1, 2}, PerRun <- 1, PerSource <- 2, Shown <- 3,
    MaxVersion <- 3, MaxFaults <- 1, MaxRuns <- 3

(* Two requests of a reader or an owner at once.                           *)
Gate == INSTANCE FeedGate WITH
    now <- x1, faults <- x2, tier <- x3, cache <- x4, request <- x5,
    Requests <- {1, 2}, Tiers <- {"free", "owner"}, Channels <- <<<<3, 0, None>>, <<1, 0>>>>,
    Ttl <- 2, StaleTtl <- 1, Timeout <- 1, DefaultDelay <- 2, Delay <- 3,
    ChannelMax <- [free |-> 1], TotalMax <- [free |-> 1], MaxTime <- 3, MaxFaults <- 0

(* A trial, and time for an entry to end.                                  *)
TrialGate == INSTANCE FeedGate WITH
    now <- x1, faults <- x2, tier <- x3, cache <- x4, request <- x5,
    Requests <- {1}, Tiers <- {"free", "trial", "owner"}, Channels <- <<<<3, 0, None>>, <<1, 0>>>>,
    Ttl <- 2, StaleTtl <- 1, Timeout <- 1, DefaultDelay <- 2, Delay <- 3,
    ChannelMax <- [free |-> 1, trial |-> 2], TotalMax <- [free |-> 1, trial |-> 3],
    MaxTime <- 4, MaxFaults <- 1

(* A request of one of two users.                                          *)
Profiles == INSTANCE XProfile WITH
    faults <- x1, db <- x2, session <- x3, cache <- x4, request <- x5, kept <- x6,
    Users <- {"u", "v"}, Person <- [x \in {"u", "v"} |-> IF x = "u" THEN "a" ELSE "b"],
    Requests <- {1}, MaxFaults <- 1

(* A user with a subscription and an owner, and environments with one      *)
(* thing missing each.                                                     *)
Routing == INSTANCE Routes WITH
    edge <- x1, backend <- x2, known <- x3, request <- x4, deploys <- x5, faults <- x6,
    Users <- {"u", "o"}, Login <- [x \in {"u", "o"} |-> IF x = "u" THEN "@u" ELSE "@o"],
    Accounts <- [x \in {"u", "@u", "o", "@o"} |->
        [status |-> IF x = "u" THEN "active" ELSE "none", trial |-> FALSE, tried |-> FALSE, customer |-> x = "u"]],
    Edges <- {[api |-> "t", auth |-> TRUE], [api |-> None, auth |-> TRUE], [api |-> "t", auth |-> FALSE]},
    Backends <- {
        [api |-> "t", admin |-> "s", seed |-> None, jobs |-> None, stripe |-> "s",
         public |-> FALSE, signing |-> "off", owners |-> {"@o"}],
        [api |-> "t", admin |-> "s", seed |-> "s", jobs |-> "t", stripe |-> None,
         public |-> TRUE, signing |-> "on", owners |-> {"u"}],
        [api |-> None, admin |-> None, seed |-> None, jobs |-> None, stripe |-> "s",
         public |-> FALSE, signing |-> "no secret", owners |-> {}]},
    Tokens <- {"t", "s"}, MaxDeploys <- 1, MaxFaults <- 1

xs == <<x1, x2, x3, x4, x5, x6, x7, x8, x9, x10, x11, x12>>
vars == <<part, xs>>

(* From a variable on, none is in use.                                     *)
Unused12 == x12 = None
Unused11 == x11 = None /\ Unused12
Unused10 == x10 = None /\ Unused11
Unused9 == x9 = None /\ Unused10
Unused8 == x8 = None /\ Unused9
Unused7 == x7 = None /\ Unused8
Unused6 == x6 = None /\ Unused7

rest6 == <<x6, x7, x8, x9, x10, x11, x12>>
rest7 == <<x7, x8, x9, x10, x11, x12>>
rest8 == <<x8, x9, x10, x11, x12>>
rest9 == <<x9, x10, x11, x12>>

Init ==
    \/ part = "fallback" /\ Fallback!Init
    \/ part = "retold" /\ Retold!Init
    \/ part = "reading" /\ Reading!Init
    \/ part = "stories" /\ Stories!Init /\ Unused8
    \/ part = "repeats" /\ Repeats!Init /\ Unused8
    \/ part = "turns" /\ Turns!Init /\ Unused9
    \/ part = "overlaps" /\ Overlaps!Init /\ Unused9
    \/ part = "gate" /\ Gate!Init /\ Unused6
    \/ part = "trial" /\ TrialGate!Init /\ Unused6
    \/ part = "profiles" /\ Profiles!Init /\ Unused7
    \/ part = "routes" /\ Routing!Init /\ Unused7

Next ==
    /\ UNCHANGED part
    /\ \/ part = "fallback" /\ Fallback!Next
       \/ part = "retold" /\ Retold!Next
       \/ part = "reading" /\ Reading!Next
       \/ part = "stories" /\ Stories!Next /\ UNCHANGED rest8
       \/ part = "repeats" /\ Repeats!Next /\ UNCHANGED rest8
       \/ part = "turns" /\ Turns!Next /\ UNCHANGED rest9
       \/ part = "overlaps" /\ Overlaps!Next /\ UNCHANGED rest9
       \/ part = "gate" /\ Gate!Next /\ UNCHANGED rest6
       \/ part = "trial" /\ TrialGate!Next /\ UNCHANGED rest6
       \/ part = "profiles" /\ Profiles!Next /\ UNCHANGED rest7
       \/ part = "routes" /\ Routing!Next /\ UNCHANGED rest7

Spec == Init /\ [][Next]_vars

-----------------------------------------------------------------------------
(* Each component's state has its shape.                                   *)
TypeOK ==
    /\ part = "fallback" => Fallback!TypeOK
    /\ part = "retold" => Retold!TypeOK
    /\ part = "reading" => Reading!TypeOK
    /\ part = "stories" => Stories!TypeOK
    /\ part = "repeats" => Repeats!TypeOK
    /\ part = "turns" => Turns!TypeOK
    /\ part = "overlaps" => Overlaps!TypeOK
    /\ part = "gate" => Gate!TypeOK
    /\ part = "trial" => TrialGate!TypeOK
    /\ part = "profiles" => Profiles!TypeOK
    /\ part = "routes" => Routing!TypeOK

(* NewsFeed: an item leaves the stored list only for newer news, or        *)
(* because a list was written that was not made from the stored one.       *)
StoredKept ==
    [][/\ part = "fallback" => Fallback!StoredKeptStep
       /\ part = "retold" => Retold!StoredKeptStep
       /\ part = "reading" => Reading!StoredKeptStep]_vars

(* NewsFeed: a reader without a plan is shown the newest of the delayed    *)
(* items, and nothing else; one with a plan no less.  FeedGate: who is     *)
(* told to be without one waits, and who is not was given it by the        *)
(* backend.                                                                *)
FreeWaits ==
    /\ part = "reading" => Reading!FreeWaits
    /\ part = "gate" => Gate!NewsNotEarly
    /\ part = "trial" => TrialGate!NewsNotEarly

(* Outbound: a channel is told of a story once in the life of its mark.    *)
ToldOnce ==
    /\ part = "stories" => Stories!ToldOnce
    /\ part = "repeats" => Repeats!ToldOnce

(* RssIngest: a feed is left unread only up to what was published of it,   *)
(* or lost with a run that failed.                                         *)
SkippedIsPublished ==
    /\ part = "turns" => Turns!SkippedIsPublished
    /\ part = "overlaps" => Overlaps!SkippedIsPublished

(* Routes: what the workers do for a request is the session's or the       *)
(* token's own, and done once.  XProfile: a session has one person's name. *)
OnlyAllowed ==
    /\ part = "routes" => Routing!OnlyAllowed
    /\ part = "profiles" => Profiles!NamedOnce
=============================================================================
