-------------------------- MODULE CollectorControl --------------------------
(***************************************************************************)
(* The collector worker in front of the container: the control object that *)
(* keeps the state the container last pushed, the guard that lets a signed *)
(* request through once, and the status route, which answers from that     *)
(* state or asks the container and stores what it says.                    *)
(*                                                                         *)
(* A state of the container is its version and the configuration it was    *)
(* started with.  A request in flight may be delivered late and twice.     *)
(***************************************************************************)
EXTENDS Integers, FiniteSets

CONSTANTS
    MaxTime, MaxVersion, MaxSent, MaxDeploys,   \* bounds
    Skew,       \* CONTROL_REQUEST_MAX_SKEW_MS
    NonceTtl,   \* adminNonceTtlSeconds
    Window,     \* adminRateWindowMs
    Limit,      \* requests of one kind per window
    Stale,      \* CONTROL_STATE_STALE_MS
    None

Kind == {"update", "reset"}

VARIABLES
    now,
    deployed,   \* the worker's configuration
    container,  \* each configuration's container: version, and the push timer
    sent,       \* signed requests so far; the last one's number is its nonce
    wire,       \* requests on their way to the worker
    guarded,    \* requests the guard has let through
    stored,     \* the control object's state
    nonces,     \* its nonce log for each kind of request: when each was seen
    hits,       \* its rate log for each kind
    status,     \* the status request: what it waits for
    applied,    \* history: the nonces of the requests that took effect
    twice,      \* history: one took effect again
    overlapped  \* history: two writers of the state were under way at a time

guard == <<nonces, hits>>
history == <<applied, twice, overlapped>>
vars == <<now, deployed, container, sent, wire, guarded, stored, guard, status, history>>

Config == 1..MaxDeploys

Idle == [at |-> "idle"]

(* buildControlStatePayload                                                *)
Payload(c) == [config |-> c, version |-> container[c].version, at |-> now]

Default == [config |-> deployed, version |-> 0, at |-> now]

(* isStoredCollectorControlState: the state of another configuration does  *)
(* not count as stored.                                                    *)
IsStored(x) == x # None /\ x.config = deployed

(* normalizeCollectorControlUpdate, over a payload that has every field.   *)
Update(x) == stored' = x

Underway == wire \cup guarded # {} \/ status.at = "fetched"

-----------------------------------------------------------------------------
(* The container.                                                          *)

Change ==
    \E c \in Config :
        /\ container[c].running
        /\ container[c].version < MaxVersion
        /\ container' = [container EXCEPT ![c].version = @ + 1, ![c].timer = TRUE]
        /\ UNCHANGED <<now, deployed, sent, wire, guarded, stored, guard, status, history>>

(* signCollectorRequest, by a clock that may be ahead of the worker's.     *)
Signed(kind, payload) ==
    /\ sent < MaxSent
    /\ sent' = sent + 1
    /\ \E ts \in {now, now + Skew} :
          wire' = wire \cup {[kind |-> kind, nonce |-> sent + 1, ts |-> ts, payload |-> payload]}
    /\ overlapped' = (overlapped \/ Underway)

(* The timer of scheduleControlStatePush fires: pushControlState.          *)
Push ==
    \E c \in Config :
        /\ container[c].timer
        /\ container' = [container EXCEPT ![c].timer = FALSE]
        /\ Signed("update", Payload(c))
        /\ UNCHANGED <<now, deployed, guarded, stored, guard, status, applied, twice>>

(* The operator asks to forget the state.                                  *)
AskReset ==
    /\ Signed("reset", None)
    /\ UNCHANGED <<now, deployed, container, guarded, stored, guard, status, applied, twice>>

(* A new configuration has a container of its own; the other goes to sleep *)
(* when nothing has used it for a while.                                   *)
Deploy ==
    /\ deployed < MaxDeploys
    /\ deployed' = deployed + 1
    /\ container' = [container EXCEPT ![deployed + 1].running = TRUE]
    /\ UNCHANGED <<now, sent, wire, guarded, stored, guard, status, history>>

Sleeps ==
    \E c \in Config \ {deployed} :
        /\ container[c].running
        /\ container' = [container EXCEPT ![c] = [running |-> FALSE, version |-> 0, timer |-> FALSE]]
        /\ UNCHANGED <<now, deployed, sent, wire, guarded, stored, guard, status, history>>

-----------------------------------------------------------------------------
(* verifyControlRequestWithNonceGuard and enforceControlNonceGuard.        *)

(* verifySignedControlRequest, as far as it is about time.                 *)
WithinSkew(q) == now - q.ts \in -Skew..Skew

(* Mutant of Remembered: a nonce is forgotten at the end of its time, not  *)
(* after it.                                                               *)
RememberedShorter(kind) == {n \in 1..MaxSent : nonces[kind][n] # None /\ now - nonces[kind][n] < NonceTtl}

(* The nonces of the log that still count.                                 *)
Remembered(kind) == {n \in 1..MaxSent : nonces[kind][n] # None /\ now - nonces[kind][n] <= NonceTtl}

Hits(kind) == IF hits[kind].window = now \div Window THEN hits[kind].count ELSE 0

Passes(q) == WithinSkew(q) /\ q.nonce \notin Remembered(q.kind) /\ Hits(q.kind) < Limit

Guard(q) ==
    /\ q \in wire
    /\ Passes(q)
    /\ nonces' = [nonces EXCEPT ![q.kind] =
                    [n \in 1..MaxSent |-> IF n = q.nonce THEN now
                                          ELSE IF n \in Remembered(q.kind) THEN @[n] ELSE None]]
    /\ hits' = [hits EXCEPT ![q.kind] = [window |-> now \div Window, count |-> Hits(q.kind) + 1]]
    /\ guarded' = guarded \cup {q}
    /\ UNCHANGED <<now, deployed, container, sent, wire, stored, status, history>>

(* Refused, lost, or not delivered again.                                  *)
Drop(q) ==
    /\ q \in wire
    /\ wire' = wire \ {q}
    /\ UNCHANGED <<now, deployed, container, sent, guarded, stored, guard, status, history>>

(* The worker's second call to the object: /update or /reset.              *)
Apply(q) ==
    /\ q \in guarded
    /\ guarded' = guarded \ {q}
    /\ Update(IF q.kind = "reset" THEN Default ELSE q.payload)
    /\ twice' = (twice \/ q.nonce \in applied)
    /\ applied' = applied \cup {q.nonce}
    /\ UNCHANGED <<now, deployed, container, sent, wire, guard, status, overlapped>>

-----------------------------------------------------------------------------
(* The status route.                                                       *)

(* isControlStateFresh: a container that has joined nothing yet, version 0, *)
(* is never fresh.                                                         *)
Fresh(x) == IsStored(x) /\ x.version > 0 /\ now - x.at <= Stale

(* Nothing fresh: the container is asked.                                  *)
StatusAsks ==
    /\ status = Idle
    /\ ~ Fresh(stored)
    /\ status' = [at |-> "asking"]
    /\ UNCHANGED <<now, deployed, container, sent, wire, guarded, stored, guard, history>>

StatusFetches ==
    /\ status.at = "asking"
    /\ status' = [at |-> "fetched", payload |-> Payload(deployed)]
    /\ overlapped' = (overlapped \/ Underway)
    /\ UNCHANGED <<now, deployed, container, sent, wire, guarded, stored, guard, applied, twice>>

(* Mutant of StatusWrites: it puts back what it had read from the object.  *)
StatusWritesDefault ==
    /\ status.at = "fetched"
    /\ Update(Default)
    /\ status' = Idle
    /\ UNCHANGED <<now, deployed, container, sent, wire, guarded, guard, history>>

(* writeControlState, unless a deployment has come between.                *)
StatusWrites ==
    /\ status.at = "fetched"
    /\ IF IsStored(status.payload) THEN Update(status.payload) ELSE UNCHANGED stored
    /\ status' = Idle
    /\ UNCHANGED <<now, deployed, container, sent, wire, guarded, guard, history>>

(* The container cannot be reached: the stored state is shown, or none.    *)
StatusFails ==
    /\ status # Idle
    /\ status' = Idle
    /\ UNCHANGED <<now, deployed, container, sent, wire, guarded, stored, guard, history>>

Tick ==
    /\ now < MaxTime
    /\ now' = now + 1
    /\ UNCHANGED <<deployed, container, sent, wire, guarded, stored, guard, status, history>>

Init ==
    /\ now = 0 /\ deployed = 1 /\ sent = 0
    /\ container = [c \in Config |-> [running |-> c = 1, version |-> 0, timer |-> FALSE]]
    /\ wire = {} /\ guarded = {}
    /\ stored = None
    /\ nonces = [k \in Kind |-> [n \in 1..MaxSent |-> None]]
    /\ hits = [k \in Kind |-> [window |-> 0, count |-> 0]]
    /\ status = Idle
    /\ applied = {} /\ twice = FALSE /\ overlapped = FALSE

Next ==
    \/ Change \/ Push \/ AskReset \/ Deploy \/ Sleeps
    \/ \E q \in wire : Guard(q) \/ Drop(q)
    \/ \E q \in guarded : Apply(q)
    \/ StatusAsks \/ StatusFetches \/ StatusWrites \/ StatusFails
    \/ Tick

Spec == Init /\ [][Next]_vars

-----------------------------------------------------------------------------
(* Properties.                                                             *)

(* Every variable has the shape the code gives it.                         *)
TypeOK ==
    /\ now \in 0..MaxTime /\ deployed \in Config /\ sent \in 0..MaxSent
    /\ \A q \in wire \cup guarded : q.kind \in Kind /\ q.nonce \in 1..sent
    /\ nonces \in [Kind -> [1..MaxSent -> 0..MaxTime \cup {None}]]
    /\ hits \in [Kind -> [window : 0..MaxTime, count : 0..Limit]]
    /\ applied \subseteq 1..sent

(* A signed request takes effect at most once, however late and however    *)
(* often it is delivered: the log remembers a nonce as long as a request   *)
(* with it can be within the skew.                                         *)
AppliedOnce == ~ twice

(* The state goes back to an older one of the same container only after    *)
(* two writers were under way at a time, or by a reset.                    *)
Regresses ==
    /\ stored # None /\ stored' # None
    /\ stored'.config = stored.config
    /\ stored'.version < stored.version

Overlap == overlapped \/ \E q \in guarded : q.kind = "reset"

RegressesOnlyByOverlap == [][Regresses => Overlap]_vars
=============================================================================
