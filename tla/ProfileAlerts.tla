----------------------------- MODULE ProfileAlerts -----------------------------
(***************************************************************************)
(* The alert of X's failing.  Beside every request that asked X for a      *)
(* profile, what became of it is put into a record in KV, which is read,   *)
(* perhaps told of to a webhook, and written again.                        *)
(***************************************************************************)
EXTENDS Integers

CONSTANTS
    Trackers,
    Threshold, Cooldown,    \* AUTH_TRANSIENT_ALERT_MINUTES and _COOLDOWN_MINUTES
    Timeout,                \* of the webhook
    Ttl,                    \* X_PROFILE_ALERT_STATE_TTL_SECONDS
    MaxTime, MaxFaults,     \* bounds
    None

VARIABLES
    now, faults,
    state,      \* KV: auth:x_profile_sync:alert_state, or None
    track,
    synced,     \* history: when a request was synced last, or None
    told,       \* when an alert was sent last, or None
    sure,       \* whether no two trackers overlapped and no call failed
    early       \* whether one was sent too early even so

vars == <<now, faults, state, track, synced, told, sure, early>>

Idle == [at |-> "idle"]
Fresh == [first |-> None, alerted |-> None, consecutive |-> 0, expires |-> None]

Proceeds(t, q) == track' = [track EXCEPT ![t] = q]

(* loadXProfileAlertState: an error is an empty record.                    *)
Loads(t, status, ok) ==
    LET stored == IF ok /\ state # None THEN state ELSE Fresh IN
    /\ track[t] = Idle
    /\ IF ok THEN UNCHANGED faults ELSE faults < MaxFaults /\ faults' = faults + 1
    /\ Proceeds(t,
          IF status = "transient" THEN [at |-> "failing", state |-> stored, since |-> now]
          ELSE IF status = "synced" /\ stored.first # None
          THEN [at |-> "recovered", state |-> stored, since |-> now] ELSE Idle)
    /\ synced' = IF status = "synced" THEN now ELSE synced
    /\ sure' = (sure /\ ok /\ \A s \in Trackers : track[s] = Idle)
    /\ UNCHANGED <<now, state, told, early>>

First(q) == IF q.state.first = None THEN q.since ELSE q.state.first

(* Mutant of CanAlert: nothing is remembered of the last one.              *)
CanAlertAgain(q) == q.since - First(q) >= Threshold

CanAlert(q) ==
    /\ q.since - First(q) >= Threshold
    /\ q.state.alerted # None => q.since - q.state.alerted >= Cooldown

(* emitXProfileTransientAlert begins.                                      *)
Alerts(t) ==
    LET q == track[t] IN
    /\ q.at = "failing" /\ CanAlert(q)
    /\ told' = now
    /\ early' = (early \/ (sure /\
          \/ told # None /\ now - told < Cooldown
          \/ synced # None /\ now - synced < Threshold))
    /\ Proceeds(t, [q EXCEPT !.at = "telling"])
    /\ UNCHANGED <<now, faults, state, synced, sure>>

Stored(value) == state' = [value EXCEPT !.expires = now + Ttl]

(* saveXProfileAlertState.  When the webhook has answered or not in time.  *)
Saves(t) ==
    LET q == track[t] IN
    /\ q.at = "telling" \/ (q.at = "failing" /\ ~ CanAlert(q))
    /\ Stored([q.state EXCEPT !.first = First(q),
                 !.alerted = IF q.at = "telling" THEN q.since ELSE @,
                 !.consecutive = IF @ < 2 THEN @ + 1 ELSE @])
    /\ Proceeds(t, Idle)
    /\ UNCHANGED <<now, faults, synced, told, sure, early>>

Recovers(t) ==
    LET q == track[t] IN
    /\ q.at = "recovered"
    /\ Stored([q.state EXCEPT !.first = None, !.consecutive = 0])
    /\ Proceeds(t, Idle)
    /\ UNCHANGED <<now, faults, synced, told, sure, early>>

(* The put fails, or the isolate stops.                                    *)
Lost(t) ==
    /\ track[t] # Idle
    /\ faults < MaxFaults /\ faults' = faults + 1
    /\ Proceeds(t, Idle)
    /\ sure' = FALSE
    /\ UNCHANGED <<now, state, synced, told, early>>

Tick ==
    /\ now < MaxTime
    /\ \A t \in Trackers : track[t].at \in {"idle", "telling"} /\ (track[t].at = "telling" => now < track[t].since + Timeout)
    /\ now' = now + 1
    /\ state' = IF state # None /\ state.expires <= now' THEN None ELSE state
    /\ UNCHANGED <<faults, track, synced, told, sure, early>>

Init ==
    /\ now = 0 /\ faults = 0 /\ state = None /\ sure = TRUE /\ early = FALSE
    /\ synced = None /\ told = None
    /\ track = [t \in Trackers |-> Idle]

Next ==
    \/ Tick
    \/ \E t \in Trackers :
          \/ Alerts(t) \/ Saves(t) \/ Recovers(t) \/ Lost(t)
          \/ \E status \in {"transient", "synced", "failed"}, ok \in BOOLEAN : Loads(t, status, ok)

Spec == Init /\ [][Next]_vars

-----------------------------------------------------------------------------
TypeOK == now \in 0..MaxTime /\ faults \in 0..MaxFaults /\ sure \in BOOLEAN /\ early \in BOOLEAN

(* Unless two trackers overlapped or a record was not read or written, an  *)
(* alert is sent only when X has failed for the threshold, with no request *)
(* synced in it, and the last one is a cooldown ago.                       *)
AlertsApart == ~ early
=============================================================================
