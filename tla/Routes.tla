-------------------------------- MODULE Routes --------------------------------
(***************************************************************************)
(* A request from the edge's router to the backend's handler.  The edge    *)
(* looks up the session, asks the backend who is an owner, and calls the   *)
(* backend with its own token for the session's user; or it passes the     *)
(* request on as it is.  Each worker has the environment it was deployed   *)
(* with when the request came to it, and the two are deployed apart.       *)
(*                                                                         *)
(* One request at a time: the nonces of the signed ones are AdminGuard's,  *)
(* the steps of the owner's check FeedGate's, the X profile XProfile's.    *)
(***************************************************************************)
EXTENDS BackendRoutes

CONSTANTS
    Users, Login,           \* the sessions' users, and the login of each
    Accounts,               \* function: the account of each user and login
    Edges, Backends,        \* environments there may be: sets of records
    Tokens,                 \* that a client may have
    MaxDeploys, MaxFaults   \* bounds, for each request

VARIABLES
    edge, backend,          \* the environments of new requests
    known,                  \* owners the edge's isolate remembers
    request,
    deploys, faults

vars == <<edge, backend, known, request, deploys, faults>>

Idle == [at |-> "idle"]

(* Routes of the edge, named as the backend's where they lead there.       *)
Billing == {"status", "start-trial", "checkout", "portal", "activity"}
Overviews == {"crm-summary", "ai-telemetry"}
Manages == {"customer", "cancel", "refund"}
OwnOwner == {"feedback", "health"}
SignedOnly == {"cache-bust", "trigger"}

Sessions == Billing \cup Overviews \cup Manages \cup OwnOwner \cup {"me", "other"}

(* requiresSessionForApiPath                                               *)
NeedsSession(p) == p # "ingest"

EdgeMethods(p) ==
    CASE p \in {"status", "activity", "feedback"} -> {"GET", "POST"}
      [] p \in Overviews -> {"GET"}
      [] p \in {"start-trial", "checkout", "portal", "ingest"} \cup Manages \cup SignedOnly -> {"POST"}
      [] OTHER -> {"GET", "POST"}

Fault == faults < MaxFaults /\ faults' = faults + 1

Answered(q, status) ==
    request' = [at |-> "answered", status |-> status, from |-> q, done |-> q.done]

-----------------------------------------------------------------------------
(* Requests.  In via, "client" has a token of its own and is passed on,    *)
(* "stripe" is the webhook, and "session" has a cookie.                    *)

Request(via, path, method) ==
    [at |-> "routing", via |-> via, path |-> path, method |-> method,
     cookie |-> None, valid |-> FALSE, trusted |-> TRUE, signed |-> FALSE,
     bearer |-> None, stripe |-> None, body |-> None, env |-> edge,
     user |-> None, attempt |-> 0, done |-> <<>>]

Bodies == {None} \cup [user : Users, sig : Users \cup {None}]

FromClient(path, method, bearer, body) ==
    [Request("client", path, method) EXCEPT !.at = "proxy", !.bearer = bearer, !.body = body]

(* handleStripeWebhook of the edge                                         *)
FromStripe(method, stripe) ==
    LET q == [Request("stripe", "webhook", method) EXCEPT
                !.stripe = stripe, !.body = [user |-> None, sig |-> None]]
    IN  IF method = "POST" /\ stripe # None THEN [q EXCEPT !.at = "proxy"]
        ELSE [at |-> "answered", status |-> IF method = "POST" THEN 400 ELSE 405,
              from |-> q, done |-> <<>>]

FromBrowser(path, method, cookie, trusted, signed, body) ==
    [Request("session", path, method) EXCEPT !.cookie = cookie, !.valid = cookie # None,
        !.trusted = trusted, !.signed = signed, !.body = body]

Arrives ==
    /\ request = Idle
    /\ \E method \in {"GET", "POST"} :
         \/ \E path \in Paths \ {"webhook"}, bearer \in Tokens \cup {None}, body \in Bodies :
               /\ method = "GET" => body # None
               /\ request' = FromClient(path, method, bearer, body)
         \/ \E stripe \in Tokens \cup {None} : request' = FromStripe(method, stripe)
         \/ \E path \in Sessions \cup SignedOnly \cup {"ingest"}, cookie \in Users \cup {None},
               trusted \in BOOLEAN, signed \in BOOLEAN, body \in Bodies :
               /\ signed => path \in SignedOnly \cup {"ingest"}
               /\ (method = "GET" \/ path \notin Billing \cup Manages) => trusted /\ body = None
               /\ request' = FromBrowser(path, method, cookie, trusted, signed, body)
    /\ UNCHANGED <<edge, backend, known, deploys, faults>>

-----------------------------------------------------------------------------
(* The edge's router.                                                      *)

(* authorizePrivilegedRoute, and the call of the durable object            *)
Privileged ==
    LET q == request IN
    /\ q.at = "routing" /\ q.path \in SignedOnly
    /\ IF q.method = "POST" /\ q.signed
       THEN Answered([q EXCEPT !.done = <<[path |-> q.path, user |-> None]>>], 200)
       ELSE Answered(q, 403)
    /\ UNCHANGED <<edge, backend, known, deploys, faults>>

Mutating(q) == q.method # "GET"

(* isTrustedRequestOrigin, for requests with a cookie                      *)
CrossSite(q) == Mutating(q) /\ q.cookie # None /\ ~ q.trusted

(* What the routes do before they wait again.                              *)
Dispatched(q) ==
    CASE q.path = "me" -> Answered(q, IF q.user = None THEN 401 ELSE 200)
      [] q.path # "me" /\ NeedsSession(q.path) /\ q.user = None -> Answered(q, 401)
      [] q.path # "me" /\ (NeedsSession(q.path) => q.user # None) /\ CrossSite(q) -> Answered(q, 403)
      [] OTHER ->
            CASE q.path = "ingest" ->
                    IF q.method = "POST" /\ q.signed
                    THEN Answered([q EXCEPT !.done = <<[path |-> q.path, user |-> None]>>], 200)
                    ELSE Answered(q, 403)
              [] q.path \in Billing -> request' = [q EXCEPT !.at = "call"]
              [] q.path \in Overviews /\ q.method \notin EdgeMethods(q.path) -> Answered(q, 405)
              [] q.path = "other" -> Answered(q, 404)
              [] OTHER -> request' = [q EXCEPT !.at = "gate"]

(* getSession                                                              *)
LooksUp ==
    LET q == request IN
    /\ q.at = "routing" /\ q.path \notin SignedOnly
    /\ IF NeedsSession(q.path) /\ ~ q.env.auth THEN Answered(q, 503)
       ELSE Dispatched([q EXCEPT !.user = IF q.valid THEN q.cookie ELSE None])
    /\ UNCHANGED <<edge, backend, known, deploys, faults>>

(* fetchFeedEntitlement: the edge asks with its token, and signs nothing.  *)
Asked(q, u) ==
    [path |-> "user-info", method |-> "POST", bearer |-> q.env.api, internal |-> FALSE,
     stripe |-> None, body |-> [user |-> u, sig |-> None]]

IsOwner(q, u) ==
    /\ Refusal(backend, Asked(q, u)) = None
    /\ InfoAnswer(backend, u, Accounts[u]).role = "owner"

(* requireOwnerEntitlement: the login is asked for before the id.          *)
Gates(found) ==
    LET q == request IN
    /\ q.at = "gate"
    /\ IF found = None THEN Answered(q, 403)
       ELSE IF q.path \in OwnOwner
       THEN IF q.method \in EdgeMethods(q.path)
            THEN Answered([q EXCEPT !.done = <<[path |-> q.path, user |-> found]>>], 200)
            ELSE Answered(q, 405)
       ELSE request' = [q EXCEPT !.at = "call", !.user = found]
    /\ UNCHANGED <<edge, backend, deploys>>

Principals(q) == <<Login[q.user], q.user>>

OwnerGate ==
    /\ request.at = "gate"
    /\ LET k == SelectInSeq(Principals(request), LAMBDA p : p \in known \/ IsOwner(request, p))
       IN  IF k = 0 THEN Gates(None) /\ UNCHANGED known
           ELSE /\ Gates(Principals(request)[k])
                /\ known' = known \cup {Principals(request)[k]}
    /\ UNCHANGED faults

(* No answer to the question, or a no that is still remembered.            *)
GateFails == Fault /\ Gates(None) /\ UNCHANGED known

(* Mutant of Payload: what the client sent goes last.                      *)
PayloadOverridden(q) ==
    IF q.body = None THEN [user |-> q.user, sig |-> None] ELSE q.body

(* What is sent for the user, over what the client sent.  The overviews    *)
(* send nothing of the client's.                                           *)
Payload(q) ==
    [user |-> q.user,
     sig |-> IF q.path \in Overviews \/ q.body = None THEN None ELSE q.body.sig]

(* proxySessionBillingRoute and postOwnerBackendJson                       *)
Calls ==
    LET q == request IN
    /\ q.at = "call"
    /\ IF q.method \notin EdgeMethods(q.path) THEN Answered(q, 405)
       ELSE IF q.env.api = None THEN Answered(q, 503)
       ELSE request' = [q EXCEPT !.at = "proxy", !.bearer = q.env.api, !.body = Payload(q)]
    /\ UNCHANGED <<edge, backend, known, deploys, faults>>

-----------------------------------------------------------------------------
(* The call of the backend, which may act on a request whose answer is     *)
(* lost.                                                                   *)

(* For a session the method is the edge's own.                             *)
Sent(q) ==
    [path |-> q.path, method |-> IF q.via = "session" THEN "POST" ELSE q.method,
     bearer |-> q.bearer, internal |-> FALSE, stripe |-> q.stripe, body |-> q.body]

(* What the handler did, and what it was when it did, for the properties.  *)
Did(q, answer) ==
    [path |-> q.path, user |-> answer.user, answer |-> answer, bearer |-> q.bearer,
     signing |-> backend.signing, expected |-> Expected(backend, q.path),
     owner |-> answer.user \in backend.owners]

(* Only reads are tried again, and only those passed on.                   *)
Again(q) == q.via = "client" /\ ~ Mutating(q) /\ q.attempt = 0

Replied(q, status, lost) ==
    IF (lost \/ status >= 500) /\ Again(q) THEN request' = [q EXCEPT !.attempt = 1]
    ELSE Answered(q, IF lost THEN 502 ELSE status)

Handles(lost) ==
    LET q == request
        refused == Refusal(backend, Sent(q))
    IN  /\ q.at = "proxy"
        /\ IF lost THEN Fault ELSE UNCHANGED faults
        /\ IF refused # None THEN Replied(q, refused, lost)
           ELSE \E answer \in Answers(backend, Accounts, Sent(q)) :
                    Replied([q EXCEPT !.done = Append(@, Did(q, answer))], 200, lost)
        /\ UNCHANGED <<edge, backend, known, deploys>>

(* The request does not get there.                                         *)
Misses ==
    /\ request.at = "proxy" /\ Fault
    /\ Replied(request, 502, TRUE)
    /\ UNCHANGED <<edge, backend, known, deploys>>

Ends ==
    /\ request.at = "answered"
    /\ request' = Idle /\ deploys' = 0 /\ faults' = 0
    /\ UNCHANGED <<edge, backend, known>>

-----------------------------------------------------------------------------
(* The world around.                                                       *)

SignsOut ==
    /\ request.at = "routing" /\ request.valid
    /\ request' = [request EXCEPT !.valid = FALSE]
    /\ UNCHANGED <<edge, backend, known, deploys, faults>>

(* The entry of the owner's cache runs out, or the isolate ends.           *)
Forgets ==
    /\ known # {}
    /\ known' = {}
    /\ UNCHANGED <<edge, backend, request, deploys, faults>>

(* Before the request they would make another initial state.               *)
Deploys ==
    /\ request.at \notin {"idle", "answered"}
    /\ deploys < MaxDeploys /\ deploys' = deploys + 1
    /\ \/ \E e \in Edges \ {edge} : edge' = e /\ UNCHANGED backend
       \/ \E b \in Backends \ {backend} : backend' = b /\ UNCHANGED edge
    /\ UNCHANGED <<known, request, faults>>

Init ==
    /\ edge \in Edges /\ backend \in Backends
    /\ known = {} /\ request = Idle
    /\ deploys = 0 /\ faults = 0

Next ==
    \/ Arrives \/ Privileged \/ LooksUp \/ OwnerGate \/ GateFails \/ Calls \/ Misses \/ Ends
    \/ SignsOut \/ Forgets \/ Deploys
    \/ \E lost \in BOOLEAN : Handles(lost)

Spec == Init /\ [][Next]_vars

-----------------------------------------------------------------------------
TypeOK ==
    /\ edge \in Edges /\ backend \in Backends
    /\ known \subseteq Users \cup {Login[u] : u \in Users}
    /\ deploys \in 0..MaxDeploys /\ faults \in 0..MaxFaults

OwnPaths == OwnOwner \cup SignedOnly \cup {"ingest"}

(* What the backend did for a request, at the time it did it.              *)
Justified(q, e) ==
    /\ e.path \notin Feeds \cup {"landing", "webhook", "rpc"} =>
          e.bearer # None /\ e.bearer = e.expected
    /\ e.path \in OfUser => e.user # None
    /\ e.path \in OfUser /\ e.signing # "off" => q.body.sig = e.user
    /\ e.path \in OfOwner => e.owner
    /\ q.via = "client" /\ e.path \in OfUser => e.user = q.body.user
    /\ q.via = "session" =>
          /\ q.cookie # None
          /\ e.user = q.cookie \/ (e.path \in OfOwner /\ e.user = Login[q.cookie])
          /\ Mutating(q) => q.trusted

(* Whatever the two workers did for a request, with whatever was deployed  *)
(* or lost in between, is the session's or the token's own: nobody's       *)
(* account is touched but that of who asked, unless an owner of the        *)
(* backend's did, and a request that is no read is handled at most once.   *)
OnlyAllowed ==
    request.at = "answered" =>
        LET q == request.from IN
        /\ Mutating(q) => Len(request.done) <= 1
        /\ \A k \in DOMAIN request.done :
              LET e == request.done[k] IN
              IF e.path \in OwnPaths
              THEN q.signed \/ (q.cookie # None /\ e.user \in {q.cookie, Login[q.cookie]})
              ELSE Justified(q, e)
=============================================================================
