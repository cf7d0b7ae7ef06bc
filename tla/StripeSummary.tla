---------------------------- MODULE StripeSummary ----------------------------
(***************************************************************************)
(* The figures of all subscriptions, for the owner: fetched from Stripe    *)
(* page by page, newest first, each page beginning after the last one's    *)
(* end; kept in KV, and deleted when an account is written.  A request     *)
(* takes the cached figures while they are new; the schedule always        *)
(* fetches.                                                                *)
(***************************************************************************)
EXTENDS Integers, FiniteSetsExt, SequencesExt

CONSTANTS
    Syncs,
    PageSize, MaxSubscriptions, \* of a page of Stripe's, CRM_STRIPE_MAX_SUBSCRIPTIONS
    Ttl, Timeout,               \* CRM_STRIPE_CACHE_TTL_SECONDS, of one call
    MaxMade, MaxTime,           \* bounds
    None

VARIABLES
    now,
    made,       \* Stripe: the subscriptions made so far are 1..made
    cached,     \* KV: the figures, or None
    sync        \* the requests and the schedule, and what each answers in the end

vars == <<now, made, cached, sync>>

Idle == [at |-> "idle"]

-----------------------------------------------------------------------------
(* Stripe.                                                                 *)

Subscribes ==
    /\ made < MaxMade
    /\ made' = made + 1
    /\ UNCHANGED <<now, cached, sync>>

(* saveBillingAccount                                                      *)
Deletes ==
    /\ cached # None
    /\ cached' = None
    /\ UNCHANGED <<now, made, sync>>

-----------------------------------------------------------------------------
(* resolveStripeCrmSummary                                                 *)

Answers(y, live, figures) ==
    sync' = [sync EXCEPT ![y] = [at |-> "answered", live |-> live, figures |-> figures]]

Syncing(stale) ==
    [at |-> "page", counted |-> <<>>, stale |-> stale, before |-> made,
     since |-> now, called |-> now]

(* Mutant of NewEnough: cached figures are always served.                  *)
AnyAge(figures) == TRUE

(* Without a time to live they are served until they are deleted.          *)
NewEnough(figures) == Ttl = 0 \/ now - figures.syncedAt <= Ttl

Asks(y) ==
    /\ sync[y] = Idle
    /\ IF cached # None /\ NewEnough(cached)
       THEN Answers(y, TRUE, cached)
       ELSE sync' = [sync EXCEPT ![y] = Syncing(cached)]
    /\ UNCHANGED <<now, made, cached>>

(* The schedule's.                                                         *)
Warms(y) ==
    /\ sync[y] = Idle
    /\ sync' = [sync EXCEPT ![y] = Syncing(None)]
    /\ UNCHANGED <<now, made, cached>>

(* fetchStripeLiveCrmSummary *)

(* The next page goes on after the last subscription of the one before.    *)
Rest(counted) == IF counted = <<>> THEN 1..made ELSE 1..(Last(counted) - 1)

(* Mutant of Page: the rest is taken by its number, whatever came since.   *)
PageAt(counted) == {s \in 1..(made - Len(counted)) : s > made - Len(counted) - PageSize}

Page(counted) == {s \in Rest(counted) : Cardinality({k \in Rest(counted) : k > s}) < PageSize}

Limited(counted, page) ==
    {s \in page : Cardinality({k \in page : k > s}) < MaxSubscriptions - Len(counted)}

Newest(page) ==
    [i \in 1..Cardinality(page) |-> CHOOSE s \in page : Cardinality({t \in page : t > s}) = i - 1]

Counted(counted, page) == counted \o Newest(page)

Figures(y, counted) ==
    [counted |-> counted, before |-> sync[y].before, since |-> sync[y].since, syncedAt |-> now]

Reads(y) ==
    LET q == sync[y]
        page == Page(q.counted)
        counted == Counted(q.counted, Limited(q.counted, page))
        more == page # Rest(q.counted) /\ Len(counted) < MaxSubscriptions
    IN  /\ q.at = "page"
        /\ sync' = [sync EXCEPT ![y] =
               IF more THEN [q EXCEPT !.counted = counted, !.called = now]
               ELSE [at |-> "keeping", figures |-> Figures(y, counted)]]
        /\ UNCHANGED <<now, made, cached>>

(* saveCachedStripeCrmSummary                                              *)
Keeps(y) ==
    /\ sync[y].at = "keeping"
    /\ cached' = sync[y].figures
    /\ Answers(y, TRUE, sync[y].figures)
    /\ UNCHANGED <<now, made>>

(* The cached figures, if there were any, are named as stale.              *)
Fails(y) ==
    /\ sync[y].at = "page"
    /\ Answers(y, FALSE, sync[y].stale)
    /\ UNCHANGED <<now, made, cached>>

Tick ==
    /\ now < MaxTime
    /\ \A y \in Syncs : sync[y].at = "page" => now < sync[y].called + Timeout
    /\ \A y \in Syncs : sync[y].at # "keeping"
    /\ now' = now + 1
    /\ sync' = [y \in Syncs |-> IF sync[y].at = "answered" THEN Idle ELSE sync[y]]
    /\ UNCHANGED <<made, cached>>

Init ==
    /\ now = 0
    /\ made \in 0..MaxMade
    /\ cached = None
    /\ sync = [y \in Syncs |-> Idle]

Next ==
    \/ Subscribes \/ Deletes \/ Tick
    \/ \E y \in Syncs : Asks(y) \/ Warms(y) \/ Reads(y) \/ Keeps(y) \/ Fails(y)

Spec == Init /\ [][Next]_vars

-----------------------------------------------------------------------------
TypeOK ==
    /\ now \in 0..MaxTime /\ made \in 0..MaxMade
    /\ \A y \in Syncs : sync[y].at \in {"idle", "page", "keeping", "answered"}

Answer(y) == IF sync[y].at = "answered" /\ sync[y].live THEN sync[y].figures ELSE None

Pages == (MaxSubscriptions \div PageSize) + 1

(* Figures given as live are no older than the cache may be, and the calls *)
(* that fetched them; unless they have no time to live.                    *)
FreshEnough ==
    \A y \in Syncs : Ttl > 0 /\ Answer(y) # None => now - Answer(y).since <= Ttl + Pages * Timeout

(* They count each subscription once, and none of those there were when    *)
(* the sync began is left out but for the limit.                           *)
CountedOnce ==
    \A y \in Syncs : Answer(y) # None =>
        LET counted == Answer(y).counted
        IN  /\ IsInjective(counted)
            /\ Len(counted) < MaxSubscriptions => 1..Answer(y).before \subseteq ToSet(counted)
=============================================================================
