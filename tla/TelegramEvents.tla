---------------------------- MODULE TelegramEvents ----------------------------
(***************************************************************************)
(* The events of the Telegram state.  Every scrape and every apply makes   *)
(* them anew of all the reports kept: newest first, a report joins the     *)
(* event most like it or begins one, unless the owner's feedback has it    *)
(* split off or forced into one.  On the way each channel's performance is *)
(* brought up to date, which the ranks and grades are made from.           *)
(***************************************************************************)
EXTENDS Integers, FiniteSets, Sequences, SequencesExt

CONSTANTS
    Reports,            \* [link, place, channel, at, text, anchor, media]
    Alike,              \* pairs of texts with nearly the same words
    Length,             \* function: of each text
    Window, MediaWindow, Bucket,    \* DEDUPE_TIME_WINDOW_MS, ..., half an hour
    Lead,               \* how long after the first a report still leads
    MaxEvents,          \* MAX_CANONICAL_EVENTS
    Targets,            \* of the owner's merges
    Jobs,               \* scrapes and applies
    MaxFeedback, MaxBuilds,     \* bounds
    None

VARIABLES
    kept,       \* the reports of the state
    rules,      \* the table dedupe_feedback: of each signature, or None
    stats,      \* the table telegram_source_performance, by channel
    build,      \* of each job
    shown,      \* the saved events, and the rules they were made with
    feedback, builds

vars == <<kept, rules, stats, build, shown, feedback, builds>>

Channels == {r.channel : r \in Reports}

(* buildRecordSignature: what a report links to, or else its own link.     *)
Signature(r) == IF r.anchor # None THEN r.anchor ELSE r.link
Signatures == {Signature(r) : r \in Reports}

Split == [forced |-> None, split |-> TRUE]
Forced(k) == [forced |-> k, split |-> FALSE]
Rules == {None, Split} \cup {Forced(k) : k \in Targets}

IsSplit(R, r) == R[Signature(r)] = Split
Target(R, r) == IF R[Signature(r)] = None THEN None ELSE R[Signature(r)].forced

Apart(a, b) == IF a < b THEN b - a ELSE a - b

-----------------------------------------------------------------------------
(* buildCanonicalEvents.  An event is [key, text, media, sources], the     *)
(* sources newest first: its latest report began it.                       *)

Anchors(e) == {e.sources[i].anchor : i \in DOMAIN e.sources} \ {None}

(* dedupeClusterScore, in hundredths: 0, or from 82 on.                    *)
Score(r, e) ==
    LET apart == Apart(r.at, e.sources[1].at) IN
    CASE r.anchor \in Anchors(e) /\ apart <= Window -> 98
      [] r.media # None /\ r.media = e.media /\ apart <= MediaWindow -> 100
      [] apart > Window \/ None \in {r.text, e.text} -> 0
      [] r.text = e.text -> 99
      [] {r.text, e.text} \in Alike -> 86
      [] OTHER -> 0

(* By which index the candidate is found first.                            *)
Found(r, e) ==
    LET has(F(_)) == \E i \in DOMAIN e.sources : F(e.sources[i])
        text(s) == s.text = r.text
        anchor(s) == s.anchor = r.anchor
    IN  IF has(text) THEN 1 ELSE IF r.anchor # None /\ has(anchor) THEN 2 ELSE 3

Preferred(r, events, i, j) ==
    LET s == Score(r, events[i])
        t == Score(r, events[j])
        f == Found(r, events[i])
        g == Found(r, events[j])
    IN  s > t \/ (s = t /\ (f < g \/ (f = g /\ i <= j)))

(* clusterByKey keeps the last event of a key.                             *)
WithKey(events, k) == SelectLastInSeq(events, LAMBDA e : k # None /\ e.key = <<k>>)

Likest(r, events) ==
    LET likely == {i \in DOMAIN events : Score(r, events[i]) > 0}
    IN  IF likely = {} THEN 0
        ELSE CHOOSE i \in likely : \A j \in likely : Preferred(r, events, i, j)

Chosen(R, r, events) ==
    LET i == WithKey(events, Target(R, r))
    IN  IF i > 0 THEN i ELSE IF IsSplit(R, r) THEN 0 ELSE Likest(r, events)

(* Mutant of Begun: the owner's key is not that of the event begun.        *)
BegunByText(R, r) ==
    [key |-> <<r.text, r.at \div Bucket, r.media>>, text |-> r.text, media |-> r.media, sources |-> <<r>>]

Begun(R, r) ==
    [key |-> IF Target(R, r) # None THEN <<Target(R, r)>> ELSE <<r.text, r.at \div Bucket, r.media>>,
     text |-> r.text, media |-> r.media, sources |-> <<r>>]

EventId(e) == <<e.key, Signature(e.sources[1])>>

Joined(e, r) ==
    [e EXCEPT !.sources = Append(@, r),
              !.text = IF r.text # None /\ (@ = None \/ Length[r.text] > Length[@]) THEN r.text ELSE @,
              !.media = IF @ = None THEN r.media ELSE @]

Placed(R, events, r) ==
    LET i == Chosen(R, r, events)
    IN  IF i > 0 THEN [events EXCEPT ![i] = Joined(@, r)] ELSE Append(events, Begun(R, r))

(* The sort keeps the order of the channels and their messages.            *)
NewestFirst(S) == SetToSortSeq(S, LAMBDA a, b : a.at > b.at \/ (a.at = b.at /\ a.place < b.place))

(* The events are in the order of their latest reports already.            *)
Clustered(R, S) ==
    LET all == FoldLeft(LAMBDA events, r : Placed(R, events, r), <<>>, NewestFirst(S))
    IN  SubSeq(all, 1, IF Len(all) < MaxEvents THEN Len(all) ELSE MaxEvents)

-----------------------------------------------------------------------------
(* updateTelegramSourcePerformanceStats, of every event and each of its    *)
(* channels.  The decay of half in three weeks scales all counts alike.    *)

None0 == [total |-> 0, lead |-> 0, follow |-> 0, corroborated |-> 0, single |-> 0]

In(e) == {e.sources[i].channel : i \in DOMAIN e.sources}
Of(e, c) == {i \in DOMAIN e.sources : e.sources[i].channel = c}

(* A channel's first report stands for it.                                 *)
First(e, c) == e.sources[CHOOSE i \in Of(e, c) : \A j \in Of(e, c) : j <= i].at
Earliest(e) == e.sources[Len(e.sources)].at

(* Mutant of Leads: who is alone leads.                                    *)
LeadsAlone(e, c) == First(e, c) - Earliest(e) <= Lead

(* isLeadTelegramSource *)
Leads(e, c) == Cardinality(In(e)) > 1 /\ First(e, c) - Earliest(e) <= Lead

Counted(s, e, c) ==
    LET many == Cardinality(In(e)) > 1
        one(b) == IF b THEN 1 ELSE 0
    IN  IF c \notin In(e) THEN s
        ELSE [total |-> s.total + 1,
              lead |-> s.lead + one(Leads(e, c)),
              follow |-> s.follow + (Cardinality(Of(e, c)) - 1) + one(many /\ ~ Leads(e, c)),
              corroborated |-> s.corroborated + one(many),
              single |-> s.single + one(~ many)]

Performance(before, events) ==
    [c \in Channels |-> FoldLeft(LAMBDA s, e : Counted(s, e, c), before[c], events)]

-----------------------------------------------------------------------------
Idle == [at |-> "idle"]

(* The rules and the performance are read, then the signal profiles are    *)
(* waited for.                                                             *)
Begins(j) ==
    /\ build[j] = Idle /\ builds < MaxBuilds
    /\ builds' = builds + 1
    /\ build' = [build EXCEPT ![j] = [at |-> "profiles", kept |-> kept, rules |-> rules, stats |-> stats]]
    /\ UNCHANGED <<kept, rules, stats, shown, feedback>>

(* persistSourcePerformanceStats writes the table at once, then D1.        *)
Builds(j) ==
    LET q == build[j]
        made == Clustered(q.rules, q.kept)
    IN  /\ q.at = "profiles"
        /\ stats' = Performance(q.stats, made)
        /\ build' = [build EXCEPT ![j] =
              [at |-> "saving", shown |-> [events |-> made, rules |-> q.rules, kept |-> q.kept]]]
        /\ UNCHANGED <<kept, rules, shown, feedback, builds>>

Saves(j) ==
    /\ build[j].at = "saving"
    /\ shown' = build[j].shown
    /\ build' = [build EXCEPT ![j] = Idle]
    /\ UNCHANGED <<kept, rules, stats, feedback, builds>>

(* The job fails, or the object stops.                                     *)
Ends(j) ==
    /\ build[j] # Idle
    /\ build' = [build EXCEPT ![j] = Idle]
    /\ UNCHANGED <<kept, rules, stats, shown, feedback, builds>>

(* Telegram's posts, in any order.                                         *)
Arrives(r) ==
    /\ r \notin kept
    /\ kept' = kept \cup {r}
    /\ UNCHANGED <<rules, stats, build, shown, feedback, builds>>

(* POST /admin/dedupe-feedback: the owner splits, merges or clears the     *)
(* signatures of an event shown, or of two.                                *)
Feedback(S, rule) ==
    /\ feedback < MaxFeedback
    /\ feedback' = feedback + 1
    /\ rules' = [s \in Signatures |-> IF s \in S THEN rule ELSE rules[s]]
    /\ UNCHANGED <<kept, stats, build, shown, builds>>

SignaturesOf(e) == {Signature(e.sources[i]) : i \in DOMAIN e.sources}

Init ==
    /\ kept = {} /\ feedback = 0 /\ builds = 0
    /\ rules = [s \in Signatures |-> None]
    /\ stats = [c \in Channels |-> None0]
    /\ build = [j \in Jobs |-> Idle]
    /\ shown = [events |-> <<>>, rules |-> rules, kept |-> {}]

Next ==
    \/ \E r \in Reports : Arrives(r)
    \/ \E j \in Jobs : Begins(j) \/ Builds(j) \/ Saves(j) \/ Ends(j)
    \/ \E i, k \in DOMAIN shown.events, rule \in Rules :
          Feedback(SignaturesOf(shown.events[i]) \cup SignaturesOf(shown.events[k]), rule)

Spec == Init /\ [][Next]_vars

-----------------------------------------------------------------------------
TypeOK ==
    /\ kept \subseteq Reports
    /\ rules \in [Signatures -> Rules]
    /\ feedback \in 0..MaxFeedback /\ builds \in 0..MaxBuilds

(* Of the shown events: every report kept is in one, unless there are too  *)
(* many; who was split off begins its own; reports forced together are     *)
(* together, or one of their events was begun by a report that was not;    *)
(* and ids differ, but for reports split off that link to the same.        *)
ReportsOnce ==
    LET R == shown.rules
        E == shown.events
        Has(e, r) == \E i \in DOMAIN e.sources : e.sources[i] = r
    IN  /\ \A r \in shown.kept :
              LET own == {i \in DOMAIN E : Has(E[i], r)} IN
              /\ Cardinality(own) = 1 \/ (own = {} /\ Len(E) = MaxEvents)
              /\ IsSplit(R, r) => \A i \in own : E[i].sources[1] = r
        /\ \A i, k \in DOMAIN E : i # k =>
              /\ \A r, s \in shown.kept :
                    /\ Has(E[i], r) /\ Has(E[k], s)
                    /\ Target(R, r) # None /\ Target(R, r) = Target(R, s)
                    => \E e \in {E[i], E[k]} : Target(R, e.sources[1]) # Target(R, r)
              /\ EventId(E[i]) = EventId(E[k]) => IsSplit(R, E[i].sources[1]) \/ IsSplit(R, E[k].sources[1])

(* However builds overlap or end early, what a channel is ranked by is of  *)
(* whole events: it was alone in them or not, and led no more of them than *)
(* it shared.                                                              *)
PerformanceAgrees ==
    \A c \in Channels :
        /\ stats[c].total = stats[c].corroborated + stats[c].single
        /\ stats[c].lead <= stats[c].corroborated
=============================================================================
