---------------------------- MODULE SubscriberAlerts ----------------------------
(***************************************************************************)
(* A subscriber's alerts.  Asked for them, the edge first looks which      *)
(* items of the feeds match the subscriber's preferences and inserts an    *)
(* alert for each into D1, where it stays and is marked as read.           *)
(***************************************************************************)
EXTENDS Integers, FiniteSetsExt

CONSTANTS
    Items,          \* records: id, surface, region, source, first, grade
    Preferences,        \* what a subscriber may prefer: records of regions, channels, sources
    Kinds,          \* sets of the kinds of alerts that are switched on, and the least grade
    Requests,
    Limit,          \* of a list
    MaxFaults, MaxSaves, MaxReads,      \* bounds
    None

VARIABLES
    faults, saves, reads,
    feed,       \* the items in the feeds
    prefs,      \* D1: subscriber_feed_*
    kinds,      \* D1: subscriber_alert_preferences
    alerts,     \* D1: subscriber_alert_events, the keys of the alerts
    unread,     \* those without a read_at
    request,
    wasRead     \* history: alerts that have been read

vars == <<faults, saves, reads, feed, prefs, kinds, alerts, unread, request, wasRead>>

Idle == [at |-> "idle"]

-----------------------------------------------------------------------------
(* matchTelegramSubscriberAlerts, matchOsintSubscriberAlerts               *)

High(i, k) ==
    IF i.surface = "osint" THEN i.grade = "A" ELSE i.grade = "A" \/ (i.grade = "B" /\ k.least = "B")

Key(i, kind, preference) == <<i.id, kind, preference>>

Matches(S, p, k) ==
    {Key(i, "first_report_region", i.region) : i \in {j \in S :
        j.surface = "telegram" /\ j.first /\ j.region \in p.regions /\ "first_report_region" \in k.on}}
    \cup
    {Key(i, "high_signal_region", i.region) : i \in {j \in S :
        High(j, k) /\ j.region \in p.regions /\ "high_signal_region" \in k.on}}
    \cup
    {Key(i, "first_report_channel", i.source) : i \in {j \in S :
        j.surface = "telegram" /\ j.first /\ j.source \in p.channels /\ "first_report_channel" \in k.on}}
    \cup
    {Key(i, "high_signal_source", i.source) : i \in {j \in S :
        j.surface = "osint" /\ High(j, k) /\ j.source \in p.sources /\ "high_signal_source" \in k.on}}

(* hasSubscriberAlertPreferences                                           *)
NoPreference(p) == p.regions = {} /\ p.channels = {} /\ p.sources = {}

(* History: what matched from the beginning of each request to its insert. *)
Still(q) ==
    [r \in Requests |->
        IF q[r].at \in {"prefs", "kinds", "feeds", "insert"}
        THEN [q[r] EXCEPT !.wanted = @ \cap Matches(feed', prefs', kinds')] ELSE q[r]]

Fault == faults < MaxFaults /\ faults' = faults + 1

-----------------------------------------------------------------------------
(* The feeds and the preferences.                                          *)

(* Items come, and go when the feeds keep others.                          *)
FeedChanges(i) ==
    /\ feed' = IF i \in feed THEN feed \ {i} ELSE feed \cup {i}
    /\ prefs' = prefs /\ kinds' = kinds
    /\ request' = Still(request)
    /\ UNCHANGED <<faults, saves, reads, alerts, unread, wasRead>>

(* saveSubscriberFeedPreferences: one batch.                               *)
SavesPrefs(p) ==
    /\ saves < MaxSaves /\ saves' = saves + 1
    /\ p # prefs /\ prefs' = p
    /\ feed' = feed /\ kinds' = kinds
    /\ request' = Still(request)
    /\ UNCHANGED <<faults, reads, alerts, unread, wasRead>>

(* saveSubscriberAlertPreferences                                          *)
SavesKinds(k) ==
    /\ saves < MaxSaves /\ saves' = saves + 1
    /\ k # kinds /\ kinds' = k
    /\ feed' = feed /\ prefs' = prefs
    /\ request' = Still(request)
    /\ UNCHANGED <<faults, reads, alerts, unread, wasRead>>

-----------------------------------------------------------------------------
(* GET my-alerts                                                           *)

Asks(r) ==
    /\ request[r] = Idle
    /\ request' = [request EXCEPT ![r] =
          [at |-> "prefs", failed |-> FALSE, wanted |-> Matches(feed, prefs, kinds),
           left |-> {"regions", "channels", "sources"},
           prefs |-> [regions |-> {}, channels |-> {}, sources |-> {}],
           kinds |-> None, surfaces |-> {"telegram", "osint"}, items |-> {}]]
    /\ UNCHANGED <<faults, saves, reads, feed, prefs, kinds, alerts, unread, wasRead>>

Proceeds(r, q) == request' = [request EXCEPT ![r] = q]

(* loadSubscriberFeedPreferences: several queries, outside a transaction.  *)
ReadsPrefs(r, part) ==
    LET q == request[r]
        loaded == [q.prefs EXCEPT ![part] = prefs[part]]
    IN  /\ q.at = "prefs" /\ part \in q.left
        /\ Proceeds(r, [q EXCEPT !.left = @ \ {part}, !.prefs = loaded,
              !.at = IF q.left # {part} THEN "prefs"
                     ELSE IF NoPreference(loaded) THEN "list" ELSE "kinds"])
        /\ UNCHANGED <<faults, saves, reads, feed, prefs, kinds, alerts, unread, wasRead>>

(* loadSubscriberAlertPreferences                                          *)
ReadsKinds(r) ==
    /\ request[r].at = "kinds"
    /\ Proceeds(r, [request[r] EXCEPT !.kinds = kinds, !.at = "feeds"])
    /\ UNCHANGED <<faults, saves, reads, feed, prefs, kinds, alerts, unread, wasRead>>

(* loadTelegramCanonicalEvents, loadSubscriberOsintItems: a feed that      *)
(* cannot be had is empty.                                                 *)
ReadsFeed(r, surface, ok) ==
    LET q == request[r] IN
    /\ q.at = "feeds" /\ surface \in q.surfaces
    /\ IF ok THEN UNCHANGED faults ELSE Fault
    /\ Proceeds(r, [q EXCEPT !.surfaces = @ \ {surface},
          !.items = IF ok THEN @ \cup {i \in feed : i.surface = surface} ELSE @,
          !.failed = @ \/ ~ ok,
          !.at = IF q.surfaces = {surface} THEN "insert" ELSE "feeds"])
    /\ UNCHANGED <<saves, reads, feed, prefs, kinds, alerts, unread, wasRead>>

(* Mutant of Inserted: an alert that is there is replaced.                 *)
InsertedAnew(K) == alerts' = alerts \cup K /\ unread' = unread \cup K

(* INSERT OR IGNORE                                                        *)
Inserted(K) == alerts' = alerts \cup K /\ unread' = unread \cup (K \ alerts)

(* materializeSubscriberAlerts: one batch.                                 *)
Inserts(r) ==
    LET q == request[r] IN
    /\ q.at = "insert"
    /\ Inserted(Matches(q.items, q.prefs, q.kinds))
    /\ Proceeds(r, [q EXCEPT !.at = "list"])
    /\ UNCHANGED <<faults, saves, reads, feed, prefs, kinds, wasRead>>

(* A query fails: before the feeds it is an error, or the list is of what  *)
(* there was.                                                              *)
Fails(r) ==
    LET q == request[r] IN
    /\ q.at \in {"prefs", "kinds", "insert", "list"} /\ Fault
    /\ Proceeds(r, IF q.at \in {"prefs", "list"} THEN Idle ELSE [q EXCEPT !.failed = TRUE, !.at = "list"])
    /\ UNCHANGED <<saves, reads, feed, prefs, kinds, alerts, unread, wasRead>>

(* loadSubscriberAlerts: the newest first, all or the unread ones.         *)
Lists(r, all) ==
    LET q == request[r] IN
    /\ q.at = "list"
    /\ \E shown \in SUBSET (IF all THEN alerts ELSE unread) :
          /\ Cardinality(shown) = Min({Limit, Cardinality(IF all THEN alerts ELSE unread)})
          /\ Proceeds(r, [at |-> "listed", shown |-> shown, failed |-> q.failed, wanted |-> q.wanted])
    /\ UNCHANGED <<faults, saves, reads, feed, prefs, kinds, alerts, unread, wasRead>>

-----------------------------------------------------------------------------
(* POST my-alerts/read and read-all                                        *)

Marked(K) ==
    /\ reads < MaxReads /\ reads' = reads + 1
    /\ unread' = unread \ K
    /\ wasRead' = wasRead \cup (K \cap alerts)

(* markSubscriberAlertsRead, of an alert in the list.                      *)
MarksRead(r, key) ==
    /\ request[r].at = "listed" /\ key \in request[r].shown
    /\ Marked({key})
    /\ UNCHANGED <<faults, saves, feed, prefs, kinds, alerts, request>>

(* markAllSubscriberAlertsRead                                             *)
MarksAll(r) ==
    /\ request[r].at = "listed"
    /\ Marked(alerts)
    /\ UNCHANGED <<faults, saves, feed, prefs, kinds, alerts, request>>

Leaves(r) ==
    /\ request[r].at = "listed"
    /\ Proceeds(r, Idle)
    /\ UNCHANGED <<faults, saves, reads, feed, prefs, kinds, alerts, unread, wasRead>>

Init ==
    /\ faults = 0 /\ saves = 0 /\ reads = 0
    /\ feed = {} /\ alerts = {} /\ unread = {} /\ wasRead = {}
    /\ prefs \in Preferences /\ kinds \in Kinds
    /\ request = [r \in Requests |-> Idle]

Next ==
    \/ \E i \in Items : FeedChanges(i)
    \/ \E p \in Preferences : SavesPrefs(p)
    \/ \E k \in Kinds : SavesKinds(k)
    \/ \E r \in Requests :
          \/ Asks(r) \/ ReadsKinds(r) \/ Inserts(r) \/ Fails(r) \/ MarksAll(r) \/ Leaves(r)
          \/ \E part \in {"regions", "channels", "sources"} : ReadsPrefs(r, part)
          \/ \E surface \in {"telegram", "osint"}, ok \in BOOLEAN : ReadsFeed(r, surface, ok)
          \/ \E all \in BOOLEAN : Lists(r, all)
          \/ \E key \in alerts : MarksRead(r, key)

Spec == Init /\ [][Next]_vars

-----------------------------------------------------------------------------
TypeOK ==
    /\ feed \subseteq Items /\ prefs \in Preferences /\ kinds \in Kinds
    /\ unread \subseteq alerts /\ wasRead \subseteq alerts

(* What matched from the beginning of a request to its insert has an       *)
(* alert, unless a feed or a query failed; and an alert that was read is   *)
(* not unread again, however often it is found.                            *)
AlertedOnce ==
    /\ \A r \in Requests :
          request[r].at \in {"list", "listed"} /\ ~ request[r].failed => request[r].wanted \subseteq alerts
    /\ wasRead \cap unread = {}
=============================================================================
