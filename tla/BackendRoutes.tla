----------------------------- MODULE BackendRoutes -----------------------------
(***************************************************************************)
(* The backend's router and the handlers that only read.  A request is     *)
(*   [path, method, bearer, internal, stripe, body]                        *)
(* where bearer is the token of its header or None, stripe the secret that *)
(* signed it or None, and body is None or                                  *)
(*   [user, sig]                                                           *)
(* with the user it names and the user its signature is for.  env is what  *)
(* the worker is configured with when the request comes: the tokens api,   *)
(* admin, seed, jobs and stripe, or None; whether the feeds are public;    *)
(* signing, "off", "on" or "no secret"; and the owners.                    *)
(***************************************************************************)
EXTENDS Integers, Sequences, SequencesExt

CONSTANT None

Reads == {"status", "activity", "gates", "user-info"}
Buys == {"start-trial", "checkout", "portal"}
OfOwner == {"crm-summary", "ai-telemetry", "customer", "cancel", "refund"}
Catalogs == {"news", "sources"}
Admins == {"publish-news", "subscribe", "outbound"}
Feeds == {"intel", "briefings", "air-sea"}

Paths == Reads \cup Buys \cup OfOwner \cup Catalogs \cup Admins \cup Feeds
         \cup {"landing", "seed", "ai-jobs", "webhook", "rpc"}

(* The handlers that call validateUserId.                                  *)
OfUser == Reads \cup Buys \cup OfOwner \cup {"subscribe", "news"}

Methods(p) ==
    IF p \in {"activity", "user-info", "sources", "ai-jobs"} THEN {"GET", "POST"}
    ELSE IF p \in Feeds \cup {"landing"} THEN {"GET"} ELSE {"POST"}

(* readAdminToken and readAiJobsAdminToken fall back on another token.     *)
First(a, b) == IF a # None THEN a ELSE b

Expected(env, p) ==
    CASE p \in Admins -> First(env.admin, env.seed)
      [] p = "ai-jobs" -> First(env.jobs, First(env.admin, env.seed))
      [] p = "seed" -> env.seed
      [] OTHER -> env.api

(* matchesBearerToken                                                      *)
Matches(provided, expected) == provided # None /\ provided = expected

(* isInternalFeedProxyRequest                                              *)
Internal(env, q) == q.internal /\ Matches(q.bearer, env.api)

Visible(env, q) ==
    /\ q.path \in Feeds => env.public \/ Internal(env, q)
    /\ q.path = "landing" => q.method = "GET"

Open(p) == p \in Feeds \cup {"landing", "webhook"}

(* The RPC asks for a token only if there is one to ask for.               *)
Configured(env, q) ==
    Open(q.path) \/ q.path = "rpc" \/ Expected(env, q.path) # None

Authorized(env, q) ==
    \/ Open(q.path)
    \/ q.path = "rpc" /\ env.api = None
    \/ Matches(q.bearer, Expected(env, q.path))

(* A GET has its parameters in the URL.                                    *)
Parsed(q) == q.method = "GET" \/ q.body # None

(* The header must be there; what is in it is for the handler.             *)
Stamped(q) == q.path = "webhook" => q.stripe # None

(* verifyStripeWebhookSignature                                            *)
StripeVerified(env, q) ==
    q.path = "webhook" => env.stripe # None /\ q.stripe = env.stripe

(* validateUserId: the user, and if ids are signed the signature.          *)
ValidUser(env, q) ==
    q.path \in OfUser =>
        /\ q.body # None
        /\ q.body.user # None
        /\ env.signing # "off" => env.signing = "on" /\ q.body.sig = q.body.user

(* isOwnerUser                                                             *)
ByOwner(env, q) == q.path \in OfOwner => q.body # None /\ q.body.user \in env.owners

(* What is checked, in order, and the status of who fails it.  The CRM     *)
(* answers an invalid user; elsewhere the exception ends the request.      *)
Checks(env, q) ==
    <<<<Visible(env, q), 404>>,
      <<q.method \in Methods(q.path), 405>>,
      <<Configured(env, q), IF q.path = "seed" THEN 404 ELSE 500>>,
      <<Authorized(env, q), 401>>,
      <<Parsed(q), 400>>,
      <<Stamped(q), 400>>,
      <<q.path = "webhook" => env.stripe # None, 500>>,
      <<StripeVerified(env, q), 400>>,
      <<ValidUser(env, q), IF q.path \in OfOwner THEN 400 ELSE 500>>,
      <<ByOwner(env, q), 403>>>>

(* The status of the first check that fails, or None.                      *)
Refusal(env, q) ==
    LET k == SelectInSeq(Checks(env, q), LAMBDA c : ~ c[1])
    IN  IF k = 0 THEN None ELSE Checks(env, q)[k][2]

-----------------------------------------------------------------------------
(* Whom the handlers act for, and what they answer of an account           *)
(*   [status, trial, tried, customer]                                      *)
(* where trial says that its trial runs, and tried that it had one.        *)

Owner(env, u) == u \in env.owners

(* computeEntitlementForUser: a trial that runs is not entitled.           *)
Entitled(env, u, a) == Owner(env, u) \/ a.status = "active"

Tier(env, u, a) ==
    IF Entitled(env, u, a) THEN "subscriber"
    ELSE IF a.status = "trialing" /\ a.trial THEN "trial" ELSE "free"

Role(env, u, a) == IF Owner(env, u) THEN "owner" ELSE Tier(env, u, a)

Standing(env, u, a) == IF Owner(env, u) THEN "owner" ELSE a.status

StatusAnswer(env, u, a) ==
    [user |-> u, role |-> Role(env, u, a), status |-> Standing(env, u, a),
     portal |-> ~ Owner(env, u) /\ a.customer]

ActivityAnswer(env, u, a) ==
    [user |-> u, role |-> Role(env, u, a), status |-> Standing(env, u, a)]

GatesAnswer(env, u, a) ==
    [user |-> u, role |-> Role(env, u, a), status |-> a.status, mayTry |-> ~ a.tried]

InfoAnswer(env, u, a) ==
    [user |-> u, role |-> Role(env, u, a), status |-> Standing(env, u, a),
     portal |-> ~ Owner(env, u) /\ a.customer]

(* An owner needs no subscription, and the portal a customer of Stripe's.  *)
CheckoutAnswers(env, u) ==
    {[user |-> u, status |-> s] : s \in
        IF Owner(env, u) THEN {"bypassed"} ELSE {"failed", "session"}}

PortalAnswers(env, u, a) ==
    {[user |-> u, status |-> s] : s \in
        IF Owner(env, u) THEN {"bypassed"}
        ELSE IF a.customer THEN {"failed", "session"} ELSE {"pending"}}

(* What becomes of a request that is not refused.  The other handlers are  *)
(* those of other modules.                                                 *)
Answers(env, accounts, q) ==
    LET u == q.body.user
        a == accounts[u]
    IN  CASE q.path = "status" -> {StatusAnswer(env, u, a)}
          [] q.path = "activity" -> {ActivityAnswer(env, u, a)}
          [] q.path = "gates" -> {GatesAnswer(env, u, a)}
          [] q.path = "user-info" -> {InfoAnswer(env, u, a)}
          [] q.path = "checkout" -> CheckoutAnswers(env, u)
          [] q.path = "portal" -> PortalAnswers(env, u, a)
          [] q.path \in OfUser \ (Reads \cup {"checkout", "portal"}) -> {[user |-> u]}
          [] OTHER -> {[user |-> None]}
=============================================================================
