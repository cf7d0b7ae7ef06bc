-------------------------------- MODULE AirSea -------------------------------
(***************************************************************************)
(* The aircraft of the air and sea page: a snapshot of OpenSky kept in KV, *)
(* served while it is new, fetched again when it is not, and served still  *)
(* when the fetch fails.  Tracks are ranked, and the first ones shown.     *)
(* Times are in seconds.                                                   *)
(***************************************************************************)
EXTENDS Integers, FiniteSets

CONSTANTS
    Tracks,             \* records: emergency, military, zone, ground, speed, altitude, age
    Requests,
    MaxTracks,          \* AIRSEA_AVIATION_MAX_TRACKS
    Refresh, Stale, Timeout,
    MaxTime, MaxSky,            \* bounds: of the clock, of the tracks at a time
    None

VARIABLES
    now,
    cached,     \* KV: the snapshot, or None
    request,    \* each request in progress, and what it answers in the end
    sky         \* what OpenSky would answer: a set of tracks, or None

vars == <<now, cached, request, sky>>

Idle == [at |-> "idle"]

Least(a, b) == IF a < b THEN a ELSE b

-----------------------------------------------------------------------------
(* fetchAirSeaAviationSnapshot                                             *)

(* Mutant of Candidate: the track may be of any age.                       *)
AnyAge(t) == TRUE

(* Heard of within twelve minutes.                                         *)
Candidate(t) == t.age <= 12 * 60

(* buildAirSeaOpenSkyTrack                                                 *)
Score(t) ==
    (IF t.emergency THEN 400 ELSE 0) + (IF t.military THEN 220 ELSE 0)
    + (IF t.zone THEN 40 ELSE 0) + (IF t.ground THEN 0 ELSE 20)
    + Least(40, t.speed \div 15) + Least(30, t.altitude \div 2000)
    - Least(80, t.age \div 15)

Interesting(t) == t.emergency \/ t.military \/ (t.speed >= 260 /\ ~ t.ground /\ t.age <= 180)

(* Interesting before others, and each of them by score.                   *)
Ahead(t, u) ==
    IF Interesting(t) = Interesting(u) THEN Score(t) > Score(u) ELSE Interesting(t)

Picked(S) ==
    CHOOSE P \in SUBSET S :
        /\ Cardinality(P) = Least(MaxTracks, Cardinality(S))
        /\ \A t \in P, u \in S \ P : ~ Ahead(u, t)

Snapshot(S) ==
    [shown |-> Picked(S), emergencies |-> Cardinality({t \in S : t.emergency}), fetchedAt |-> now]

-----------------------------------------------------------------------------
(* resolveAirSeaAviationSnapshot                                           *)

Answers(r, snapshot) == request' = [request EXCEPT ![r] = [at |-> "answered", snapshot |-> snapshot]]

Asks(r) ==
    /\ request[r].at # "fetching"
    /\ IF cached # None /\ now - cached.fetchedAt <= Refresh
       THEN Answers(r, cached)
       ELSE request' = [request EXCEPT ![r] = [at |-> "fetching", cached |-> cached, since |-> now]]
    /\ UNCHANGED <<now, cached, sky>>

(* storeAirSeaAviationSnapshot, which may fail and does not say so.        *)
Fetches(r) ==
    LET S == {t \in sky : Candidate(t)} IN
    /\ request[r].at = "fetching"
    /\ sky # None /\ S # {}
    /\ cached' \in {cached, Snapshot(S)}
    /\ Answers(r, Snapshot(S))
    /\ UNCHANGED <<now, sky>>

(* Mutant of StaleEnough: the snapshot is served whatever its age.         *)
StaleKept(q) == q.cached # None

(* By the time at which the request began.                                 *)
StaleEnough(q) == q.cached # None /\ q.since - q.cached.fetchedAt <= Stale

FetchFails(r) ==
    /\ request[r].at = "fetching"
    /\ Answers(r, IF StaleEnough(request[r]) THEN request[r].cached ELSE None)
    /\ UNCHANGED <<now, cached, sky>>

-----------------------------------------------------------------------------
(* OpenSky and time.  A fetch ends by its timeout.                         *)
Flies(S) ==
    /\ sky' = S
    /\ UNCHANGED <<now, cached, request>>

(* An answer has been given, and is not looked at later.                   *)
Tick ==
    /\ now + 1 <= MaxTime
    /\ \A r \in Requests : request[r].at = "fetching" => now + 1 - request[r].since <= Timeout
    /\ now' = now + 1
    /\ request' = [r \in Requests |-> IF request[r].at = "answered" THEN Idle ELSE request[r]]
    /\ UNCHANGED <<cached, sky>>

(* expirationTtl                                                           *)
Expires ==
    /\ cached # None /\ now - cached.fetchedAt > Stale
    /\ cached' = None
    /\ UNCHANGED <<now, request, sky>>

Init ==
    /\ now = 0 /\ cached = None /\ sky = None
    /\ request = [r \in Requests |-> Idle]

Next ==
    \/ Tick \/ Expires
    \/ \E S \in {T \in SUBSET Tracks : Cardinality(T) <= MaxSky} \cup {None} : Flies(S)
    \/ \E r \in Requests : Asks(r) \/ Fetches(r) \/ FetchFails(r)

Spec == Init /\ [][Next]_vars

-----------------------------------------------------------------------------
TypeOK ==
    /\ now \in 0..MaxTime
    /\ cached # None => cached.shown \subseteq Tracks /\ cached.fetchedAt <= now
    /\ \A r \in Requests : request[r].at \in {"idle", "fetching", "answered"}

Answer(r) == IF request[r].at = "answered" THEN request[r].snapshot ELSE None

(* What is answered is no older than a snapshot may be when the request    *)
(* begins, and the time of one fetch.                                      *)
FreshEnough ==
    \A r \in Requests : Answer(r) # None => now - Answer(r).fetchedAt <= Stale + Timeout

(* An emergency is left out only for another: what is counted is shown, or *)
(* nothing else is.                                                        *)
EmergenciesShown ==
    \A r \in Requests : Answer(r) # None =>
        Cardinality({t \in Answer(r).shown : t.emergency})
            = Least(MaxTracks, Answer(r).emergencies)
=============================================================================
