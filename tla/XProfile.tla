------------------------------- MODULE XProfile -------------------------------
(***************************************************************************)
(* Who a session of X's is.  Every request of it asks X for the profile    *)
(* and writes it to D1 and KV; when X does not answer, the request goes on *)
(* with what KV has, and without that, with what the session was given at  *)
(* the sign-in, which after an outage is a placeholder.                    *)
(***************************************************************************)
EXTENDS Integers, FiniteSets

CONSTANTS
    Users,          \* of D1, with one X account each
    Person,         \* function: whose that account is at X
    Requests,
    MaxFaults,      \* bound
    None

VARIABLES
    faults,
    db,         \* D1: user and account of each user
    session,    \* the name each session was given (better-auth keeps it in KV)
    cache,      \* KV: auth:x_profile_cache of users and of accounts, or None
    request,
    kept        \* history: users with a profile in KV since their last sync

vars == <<faults, db, session, cache, request, kept>>

Placeholder == "X User"
Persons == {Person[u] : u \in Users}
Keys == Users \cup Persons

Idle == [at |-> "idle"]

Fault == faults < MaxFaults /\ faults' = faults + 1

Proceeds(r, q) == request' = [request EXCEPT ![r] = q]

(* The user is called by this name, and by this id.                        *)
ServedAs(r, id, name) ==
    Proceeds(r, [at |-> "served", user |-> request[r].user, id |-> id, name |-> name,
                 expected |-> request[r].expected, session |-> request[r].session])

-----------------------------------------------------------------------------
(* The session and the stored profile.                                     *)

(* normalizeCachedXProfile: an entry of an account may be another user's.  *)
Own(u, k) == IF k # None /\ cache[k] # None /\ cache[k].user = u THEN cache[k] ELSE None

(* Mutant of Cached: the account's entry is not looked for.                *)
CachedByUser(u, account) == Own(u, u)

(* loadCachedXProfile                                                      *)
Cached(u, account) == IF Own(u, u) # None THEN Own(u, u) ELSE Own(u, account)

(* The first lookup is with the session's id for the account's.            *)
Begins(r, u) ==
    /\ request[r].at \in {"idle", "served"}
    /\ Proceeds(r, [at |-> "token", user |-> u, session |-> session[u],
                    cached |-> Cached(u, None), expected |-> u \in kept])
    /\ UNCHANGED <<faults, db, session, cache, kept>>

(* loadLatestXAccountTokenRow, and the lookup with its accountId.          *)
ReadsToken(r) ==
    LET q == request[r]
        row == db[q.user]
    IN  /\ q.at = "token"
        /\ Proceeds(r,
              [at |-> IF row.access # "none" THEN "profile"
                      ELSE IF row.refresh # "none" THEN "refresh" ELSE "fallback",
               user |-> q.user, session |-> q.session, expected |-> q.expected,
               cached |-> IF q.cached # None THEN q.cached ELSE Cached(q.user, row.account),
               access |-> row.access, refresh |-> row.refresh, attempted |-> FALSE])
        /\ UNCHANGED <<faults, db, session, cache, kept>>

-----------------------------------------------------------------------------
(* resolveXUserProfile and refreshXAccessToken                             *)

(* /users/me or the account's id; or the name, with the application's own  *)
(* token.                                                                  *)
Known(q) == q.access = "good" \/ q.session # Placeholder

LooksUp(r, answered) ==
    LET q == request[r] IN
    /\ q.at = "profile"
    /\ Proceeds(r, [q EXCEPT !.at =
          IF answered /\ Known(q) THEN "user"
          ELSE IF q.refresh # "none" /\ ~ q.attempted THEN "refresh" ELSE "fallback"])
    /\ UNCHANGED <<faults, db, session, cache, kept>>

(* X takes a refresh token once.  The tokens it gives are not stored.      *)
Refreshes(r, answered) ==
    LET q == request[r]
        ok == answered /\ db[q.user].refresh = "good"
    IN  /\ q.at = "refresh"
        /\ Proceeds(r, [q EXCEPT !.attempted = TRUE,
              !.access = IF ok THEN "good" ELSE @,
              !.at = IF ok THEN "profile" ELSE "fallback"])
        /\ db' = IF ok THEN [db EXCEPT ![q.user].refresh = "spent"] ELSE db
        /\ UNCHANGED <<faults, session, cache, kept>>

-----------------------------------------------------------------------------
(* A profile was found.                                                    *)

(* persistResolvedXProfile: the user, then its account.                    *)
SavesUser(r) ==
    /\ request[r].at = "user"
    /\ db' = [db EXCEPT ![request[r].user].name = Person[request[r].user]]
    /\ Proceeds(r, [request[r] EXCEPT !.at = "account"])
    /\ UNCHANGED <<faults, session, cache, kept>>

SavesAccount(r) ==
    LET u == request[r].user IN
    /\ request[r].at = "account"
    /\ db' = [db EXCEPT ![u].account = Person[u]]
    /\ Proceeds(r, [at |-> "cache", user |-> u, session |-> request[r].session,
                    expected |-> request[r].expected, left |-> {u, Person[u]}])
    /\ UNCHANGED <<faults, session, cache, kept>>

(* persistCachedXProfile: two puts, and what becomes of them is ignored.   *)
Caches(r, k, ok) ==
    LET q == request[r]
        u == q.user
    IN  /\ q.at = "cache" /\ k \in q.left
        /\ IF ok
           THEN /\ cache' = [cache EXCEPT ![k] = [user |-> u, name |-> Person[u]]]
                /\ kept' = kept \cup {u}
                /\ UNCHANGED faults
           ELSE Fault /\ UNCHANGED <<cache, kept>>
        /\ IF q.left = {k} THEN ServedAs(r, Person[u], Person[u])
           ELSE Proceeds(r, [q EXCEPT !.left = @ \ {k}])
        /\ UNCHANGED <<db, session>>

-----------------------------------------------------------------------------
(* applyFallbackIfAvailable                                                *)

(* resolveStableXIdentityFallback: the users that have names, of not too   *)
(* many.  (No session has X as its provider, which would also look for a   *)
(* fallback: nothing in the edge sets a provider.)                         *)
Stable == {u \in Users : db[u].name # Placeholder}

FallsBack(r) ==
    LET q == request[r] IN
    /\ q.at = "fallback"
    /\ \/ /\ q.cached # None
          /\ ServedAs(r, q.cached.user, q.cached.name)
       \/ /\ q.cached = None /\ q.session = Placeholder /\ Cardinality(Stable) = 1
          /\ \E v \in Stable : ServedAs(r, v, db[v].name)
       \/ /\ q.cached = None /\ (q.session # Placeholder \/ Cardinality(Stable) # 1)
          /\ ServedAs(r, q.user, q.session)
    /\ UNCHANGED <<faults, db, session, cache, kept>>

(* A query of D1 fails: without the token there is the fallback, and a     *)
(* profile that is not saved is that of the request even so.               *)
Fails(r) ==
    LET q == request[r] IN
    /\ q.at \in {"token", "user", "account"} /\ Fault
    /\ IF q.at = "token"
       THEN Proceeds(r, [at |-> "fallback", user |-> q.user, session |-> q.session,
                         expected |-> FALSE, cached |-> q.cached])
       ELSE ServedAs(r, Person[q.user], Person[q.user])
    /\ UNCHANGED <<db, session, cache, kept>>

-----------------------------------------------------------------------------
(* The world around.                                                       *)

AccessEnds(u) ==
    /\ db[u].access = "good"
    /\ db' = [db EXCEPT ![u].access = "expired"]
    /\ UNCHANGED <<faults, session, cache, request, kept>>

(* better-auth: the session gets the user as it is, the account tokens.    *)
SignsIn(u) ==
    /\ db' = [db EXCEPT ![u].access = "good", ![u].refresh = "good"]
    /\ session' = [session EXCEPT ![u] = db[u].name]
    /\ UNCHANGED <<faults, cache, request, kept>>

(* X_PROFILE_CACHE_TTL_SECONDS                                             *)
Expires(k) ==
    /\ cache[k] # None
    /\ cache' = [cache EXCEPT ![k] = None]
    /\ kept' = kept \ {cache[k].user}
    /\ request' = [r \in Requests |->
          IF request[r].at \notin {"idle", "served"} /\ request[r].user = cache[k].user
          THEN [request[r] EXCEPT !.expected = FALSE] ELSE request[r]]
    /\ UNCHANGED <<faults, db, session>>

Init ==
    /\ faults = 0 /\ kept = {}
    /\ \E name \in [Users -> {Placeholder} \cup Persons] :
          /\ \A u \in Users : name[u] \in {Placeholder, Person[u]}
          /\ db = [u \in Users |-> [name |-> name[u],
                account |-> IF name[u] = Placeholder THEN None ELSE Person[u],
                access |-> "good", refresh |-> "good"]]
          /\ session = name
    /\ cache = [k \in Keys |-> None]
    /\ request = [r \in Requests |-> Idle]

Next ==
    \/ \E u \in Users : AccessEnds(u) \/ SignsIn(u)
    \/ \E k \in Keys : Expires(k)
    \/ \E r \in Requests :
          \/ ReadsToken(r) \/ SavesUser(r) \/ SavesAccount(r)
          \/ FallsBack(r) \/ Fails(r)
          \/ \E answered \in BOOLEAN : LooksUp(r, answered) \/ Refreshes(r, answered)
          \/ \E u \in Users : Begins(r, u)
          \/ \E k \in Keys, ok \in BOOLEAN : Caches(r, k, ok)

Spec == Init /\ [][Next]_vars

-----------------------------------------------------------------------------
TypeOK ==
    /\ faults \in 0..MaxFaults
    /\ \A u \in Users : db[u].name \in {Placeholder, Person[u]} /\ db[u].account \in {None, Person[u]}
    /\ kept \subseteq Users
    /\ \A k \in Keys : cache[k] # None => cache[k].user \in Users

(* While KV has a user's profile, under the user's key or the account's,   *)
(* no outage gives the user's requests back the placeholder.  And who has  *)
(* a name is called by no other.                                           *)
NamedOnce ==
    \A r \in Requests : request[r].at = "served" =>
        LET q == request[r] IN
        /\ q.expected => q.name # Placeholder
        /\ q.name \notin {Placeholder, Person[q.user]} => q.session = Placeholder /\ ~ q.expected
=============================================================================
