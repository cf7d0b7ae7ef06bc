------------------------------ MODULE RateLimit ------------------------------
(***************************************************************************)
(* The backend's limit of requests per user, route and minute, counted in  *)
(* KV when no rate limit binding is configured, by the tier the account    *)
(* gives.                                                                  *)
(***************************************************************************)
EXTENDS Integers

CONSTANTS
    Routes, Callers,
    Minute,         \* a minute, in units of now
    KeptFor,        \* expirationTtl
    FreeLimit, TrialLimit, SubscriberLimit,     \* the tiers' rateLimitPerMinute
    TrialEnd,       \* when a trial of the account ends
    MaxTime, MaxGrants,     \* bounds
    None

VARIABLES
    now,
    status,     \* the account's status
    count,      \* KV: by route, [n, minute, until] or None
    caller,     \* the requests
    granted,    \* history: requests let through, by route, in this minute
    allowed,    \* history: the highest limit that applied in this minute
    overlapped  \* history: in this minute a request for a route read while another was to write

vars == <<now, status, count, caller, granted, allowed, overlapped>>

Idle == [at |-> "idle"]

(* computeEntitlement; an owner is a subscriber without an account.        *)
Tier(account) ==
    CASE account \in {"owner", "active"} -> "subscriber"
      [] account = "trialing" /\ TrialEnd > now -> "trial"
      [] OTHER -> "free"

RateLimitPerMinute ==
    CASE Tier(status) = "subscriber" -> SubscriberLimit
      [] Tier(status) = "trial" -> TrialLimit
      [] OTHER -> FreeLimit

(* Mutant of Stored: the mark does not last the minute.                    *)
StoredShortly(bucket) == [n |-> 0, minute |-> bucket, until |-> now + 1]

(* kv.put with its expirationTtl; the count is set where it is used.       *)
Stored(bucket) == [n |-> 0, minute |-> bucket, until |-> now + KeptFor]

CurrentCount(route, bucket) ==
    LET c == count[route] IN
    IF c # None /\ c.minute = bucket /\ c.until > now THEN c.n ELSE 0

Asks(c, route) ==
    /\ caller[c] = Idle /\ granted[route] < MaxGrants
    /\ caller' = [caller EXCEPT ![c] = [at |-> "reading", route |-> route, bucket |-> now \div Minute,
                                        limit |-> RateLimitPerMinute, n |-> 0]]
    /\ allowed' = IF RateLimitPerMinute > allowed THEN RateLimitPerMinute ELSE allowed
    /\ UNCHANGED <<now, status, count, granted, overlapped>>

Reads(c) ==
    LET q == caller[c]
        n == CurrentCount(q.route, q.bucket)
    IN
    /\ q.at = "reading"
    /\ caller' = [caller EXCEPT ![c] = IF n >= q.limit THEN Idle ELSE [q EXCEPT !.at = "writing", !.n = n + 1]]
    /\ overlapped' = (overlapped \/ \E d \in Callers : caller[d].at = "writing" /\ caller[d].route = q.route
                                                     /\ caller[d].bucket = q.bucket)
    /\ UNCHANGED <<now, status, count, granted, allowed>>

Writes(c) ==
    LET q == caller[c] IN
    /\ q.at = "writing"
    /\ count' = [count EXCEPT ![q.route] =
                    IF @ # None /\ @.minute > q.bucket THEN @ ELSE [Stored(q.bucket) EXCEPT !.n = q.n]]
    /\ granted' = IF q.bucket = now \div Minute THEN [granted EXCEPT ![q.route] = @ + 1] ELSE granted
    /\ caller' = [caller EXCEPT ![c] = Idle]
    /\ UNCHANGED <<now, status, allowed, overlapped>>

(* kv.get or kv.put throws: the request fails.                             *)
Throws(c) ==
    /\ caller[c] # Idle
    /\ caller' = [caller EXCEPT ![c] = Idle]
    /\ UNCHANGED <<now, status, count, granted, allowed, overlapped>>

(* The account changes: a trial, a payment, a cancellation.                *)
AccountChanges ==
    /\ status' \in {"none", "trialing", "active", "canceled"} \ {status}
    /\ status # "owner"
    /\ UNCHANGED <<now, count, caller, granted, allowed, overlapped>>

Tick ==
    /\ now < MaxTime
    /\ now' = now + 1
    /\ IF now' % Minute = 0
       THEN granted' = [route \in Routes |-> 0] /\ allowed' = 0 /\ overlapped' = FALSE
       ELSE UNCHANGED <<granted, allowed, overlapped>>
    /\ UNCHANGED <<status, count, caller>>

Init ==
    /\ now = 0
    /\ status \in {"none", "owner"}
    /\ count = [route \in Routes |-> None]
    /\ caller = [c \in Callers |-> Idle]
    /\ granted = [route \in Routes |-> 0]
    /\ allowed = 0
    /\ overlapped = FALSE

Next ==
    \/ \E c \in Callers : Reads(c) \/ Writes(c) \/ Throws(c) \/ \E route \in Routes : Asks(c, route)
    \/ AccountChanges \/ Tick

Spec == Init /\ [][Next]_vars

-----------------------------------------------------------------------------
TypeOK ==
    /\ now \in 0..MaxTime
    /\ granted \in [Routes -> 0..MaxGrants + 1]

(* No more requests are let through in a minute than the highest limit the *)
(* user had in it, unless two of the requests overlapped.                  *)
WithinLimit == overlapped \/ \A route \in Routes : granted[route] > 0 => granted[route] <= allowed
=============================================================================
