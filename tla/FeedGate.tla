------------------------------- MODULE FeedGate -------------------------------
(***************************************************************************)
(* What a reader of the edge may see.  The tier of a session's user comes  *)
(* from the backend, asked for the user's id and then for the login; the   *)
(* isolate remembers both.  Who is not entitled sees only items of a       *)
(* certain age, and so many of them.                                       *)
(***************************************************************************)
EXTENDS Integers, Sequences, SequencesExt, FiniteSetsExt

CONSTANTS
    Requests,
    Tiers,                  \* free, trial, subscriber and owner, or some of them
    Channels,               \* sequences of what is published when, or None
    Ttl, StaleTtl, Timeout, \* ENTITLEMENT_CACHE_TTL_MS, .._STALE_TTL_MS, of a query
    DefaultDelay, Delay,    \* DEFAULT_NON_SUBSCRIBER_DELAY_MINUTES, the backend's
    ChannelMax, TotalMax,   \* caps of each tier, of a channel and of all
    MaxTime, MaxFaults,     \* bounds
    None

VARIABLES
    now, faults,
    tier,       \* the backend: of the user's id and of the login
    cache,      \* feedEntitlementCache: of each principal, or None
    request     \* each request in progress, and what it is served in the end

vars == <<now, faults, tier, cache, request>>

Principals == {"id", "login"}
Idle == [at |-> "idle"]

Entitled(t) == t \in {"subscriber", "owner"}

-----------------------------------------------------------------------------
(* fetchFeedEntitlement                                                    *)

(* Mutant of Cached: an entry never expires.                               *)
CachedForever(p, since) == IF cache[p] # None THEN cache[p].value ELSE None

Cached(p, since) ==
    IF cache[p] # None /\ cache[p].expires > since THEN cache[p].value ELSE None

Kept(value, since) == [value |-> value, expires |-> since + Ttl]

(* defaultFeedEntitlement.  asOf, the time the backend said so, and        *)
(* renewed, whether the entry was written again from itself, are history.  *)
Fallback == [tier |-> "free", delay |-> DefaultDelay, asOf |-> now, renewed |-> FALSE]

FromBackend(p) ==
    [tier |-> tier[p], asOf |-> now, renewed |-> FALSE,
     delay |-> IF Entitled(tier[p]) THEN 0 ELSE Max({DefaultDelay, Delay})]

Resolved(r, value) ==
    request' = [request EXCEPT ![r] =
        [kind |-> request[r].kind, at |-> "gate", value |-> value]]

(* The owner's requests try the login first; a reader's, the id.           *)
Asks(r, kind) ==
    LET p == IF kind = "owner" THEN "login" ELSE "id" IN
    /\ request[r] = Idle
    /\ request' = [request EXCEPT ![r] =
          IF Cached(p, now) # None /\ (kind = "owner" => Cached(p, now).tier = "owner")
          THEN [kind |-> kind, at |-> "gate", value |-> Cached(p, now)]
          ELSE IF kind = "owner" /\ Cached(p, now) = None
          THEN [kind |-> kind, at |-> "owner", since |-> now, called |-> now]
          ELSE IF Cached("id", now) # None
          THEN [kind |-> kind, at |-> "gate", value |-> Cached("id", now)]
          ELSE [kind |-> kind, at |-> "id", since |-> now, called |-> now]]
    /\ UNCHANGED <<now, faults, tier, cache>>

(* requireOwnerEntitlement: who is no owner by the login may be by the id. *)
OwnerAnswered(r, value) ==
    IF value.tier = "owner" THEN Resolved(r, value)
    ELSE IF Cached("id", now) # None THEN Resolved(r, Cached("id", now))
    ELSE request' = [request EXCEPT ![r] =
            [kind |-> "owner", at |-> "id", since |-> now, called |-> now]]

OwnerAnswers(r) ==
    /\ request[r].at = "owner"
    /\ cache' = [cache EXCEPT !["login"] = Kept(FromBackend("login"), request[r].since)]
    /\ OwnerAnswered(r, FromBackend("login"))
    /\ UNCHANGED <<now, faults, tier>>

Selected(primary, fromLogin) == IF Entitled(fromLogin.tier) THEN fromLogin ELSE primary

(* The login's entry is written again even if it is where the answer came  *)
(* from.                                                                   *)
Both(since, primary, fromLogin) ==
    [login |-> Kept(fromLogin, since), id |-> Kept(Selected(primary, fromLogin), since)]

IdAnswers(r) ==
    LET since == request[r].since
        primary == FromBackend("id")
        known == Cached("login", since)
        fromLogin == IF known = None THEN None ELSE [known EXCEPT !.renewed = TRUE]
    IN  /\ request[r].at = "id"
        /\ \/ /\ Entitled(primary.tier)
              /\ cache' = [cache EXCEPT !["id"] = Kept(primary, since)]
              /\ Resolved(r, primary)
           \/ /\ ~ Entitled(primary.tier) /\ fromLogin # None
              /\ cache' = Both(since, primary, fromLogin)
              /\ Resolved(r, Selected(primary, fromLogin))
           \/ /\ ~ Entitled(primary.tier) /\ fromLogin = None
              /\ request' = [request EXCEPT ![r] = [kind |-> @.kind, at |-> "login",
                                since |-> since, called |-> now, primary |-> primary]]
              /\ UNCHANGED cache
        /\ UNCHANGED <<now, faults, tier>>

LoginAnswers(r) ==
    /\ request[r].at = "login"
    /\ cache' = Both(request[r].since, request[r].primary, FromBackend("login"))
    /\ Resolved(r, Selected(request[r].primary, FromBackend("login")))
    /\ UNCHANGED <<now, faults, tier>>

(* An error, or no answer in time.                                         *)
Fails(r) ==
    /\ request[r].at \in {"owner", "id", "login"}
    /\ faults < MaxFaults /\ faults' = faults + 1
    /\ cache' = [cache EXCEPT ![IF request[r].at = "owner" THEN "login" ELSE "id"] =
                    [value |-> Fallback, expires |-> request[r].since + StaleTtl]]
    /\ IF request[r].at = "owner" THEN OwnerAnswered(r, Fallback) ELSE Resolved(r, Fallback)
    /\ UNCHANGED <<now, tier>>

-----------------------------------------------------------------------------
(* applyDelayAndCapsToApiPayload.  Items without a time are not delayed.   *)
Published(items) == SelectSeq(items, LAMBDA i : i = None \/ i <= now)

(* Mutant of Delayed: a delay too short by one.                            *)
DelayedLess(items, delay) == SelectSeq(items, LAMBDA i : i = None \/ i < now - delay + 2)

Delayed(items, delay) == SelectSeq(items, LAMBDA i : i = None \/ i <= now - delay)

Capped(items, max) == SubSeq(items, 1, Min({Len(items), max}))

(* resolveFeedTierCaps: none for who is entitled.                          *)
Uncapped(value) == Entitled(value.tier)

(* The channels in turn share what may be seen of all.                     *)
Gated(value) ==
    LET delay == IF Entitled(value.tier) THEN 0 ELSE Max({DefaultDelay, value.delay})
        items(c) == Delayed(Published(Channels[c]), delay)
        takes(shown, c) ==
            Append(shown,
                IF Uncapped(value) THEN items(c)
                ELSE LET seen == FoldLeft(LAMBDA n, s : n + Len(s), 0, shown)
                     IN  Capped(Capped(items(c), ChannelMax[value.tier]), TotalMax[value.tier] - seen))
    IN  FoldLeftDomain(takes, <<>>, Channels)

(* The payload was there before the tier was asked for; it is one of those *)
(* of now as far as the delay is concerned.                                *)
Serves(r) ==
    /\ request[r].at = "gate"
    /\ request' = [request EXCEPT ![r] =
          [kind |-> @.kind, at |-> "served", value |-> @.value,
           shown |-> IF @.kind = "feed" THEN Gated(@.value) ELSE <<>>]]
    /\ UNCHANGED <<now, faults, tier, cache>>

-----------------------------------------------------------------------------
(* A subscription begins or ends, or the list of owners is another.        *)
Changes(p, t) ==
    /\ tier[p] # t
    /\ tier' = [tier EXCEPT ![p] = t]
    /\ UNCHANGED <<now, faults, cache, request>>

Restarts ==
    /\ cache' = [p \in Principals |-> None]
    /\ request' = [r \in Requests |-> Idle]
    /\ UNCHANGED <<now, faults, tier>>

Waiting(r) == request[r].at \in {"owner", "id", "login"}

Tick ==
    /\ now < MaxTime
    /\ \A r \in Requests :
          /\ Waiting(r) => now < request[r].called + Timeout
          /\ request[r].at # "gate"
    /\ now' = now + 1
    /\ request' = [r \in Requests |-> IF request[r].at = "served" THEN Idle ELSE request[r]]
    /\ UNCHANGED <<faults, tier, cache>>

Init ==
    /\ now = 0 /\ faults = 0
    /\ tier \in [Principals -> Tiers]
    /\ cache = [p \in Principals |-> None]
    /\ request = [r \in Requests |-> Idle]

Next ==
    \/ Restarts \/ Tick
    \/ \E p \in Principals, t \in Tiers : Changes(p, t)
    \/ \E r \in Requests :
          \/ OwnerAnswers(r) \/ IdAnswers(r) \/ LoginAnswers(r) \/ Fails(r) \/ Serves(r)
          \/ \E kind \in {"feed", "owner"} : Asks(r, kind)

Spec == Init /\ [][Next]_vars

-----------------------------------------------------------------------------
TypeOK ==
    /\ now \in 0..MaxTime /\ faults \in 0..MaxFaults
    /\ tier \in [Principals -> Tiers]
    /\ \A p \in Principals : cache[p] # None => cache[p].value.tier \in Tiers

Served(r) == request[r].at = "served"

(* Who is entitled was called so by the backend a short time ago, or by an *)
(* entry of the login's that was renewed.  Who is not is shown nothing     *)
(* that is not for everybody yet, and of the rest no more than the caps    *)
(* allow.                                                                  *)
NewsNotEarly ==
    \A r \in Requests : Served(r) =>
        LET value == request[r].value
            shown == request[r].shown
        IN  IF Entitled(value.tier)
            THEN now - value.asOf < Ttl \/ value.renewed
            ELSE /\ \A c \in DOMAIN shown :
                     /\ Len(shown[c]) <= ChannelMax[value.tier]
                     /\ \A k \in DOMAIN shown[c] : shown[c][k] # None => now - shown[c][k] >= DefaultDelay
                 /\ FoldLeft(LAMBDA n, s : n + Len(s), 0, shown) <= TotalMax[value.tier]
=============================================================================
