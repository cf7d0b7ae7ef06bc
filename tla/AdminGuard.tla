----------------------------- MODULE AdminGuard -----------------------------
(***************************************************************************)
(* The two guards the intel cache object keeps for the edge: the one that  *)
(* lets a signed admin request through once, and the one that lets a       *)
(* webhook event through once.  The object runs one guard at a time        *)
(* (blockConcurrencyWhile) and may stop between two of its writes.         *)
(*                                                                         *)
(* The keys of both guards carry the scope or the provider, so the model   *)
(* has one of each.  A signed request is its nonce: whoever holds it can   *)
(* present it again and again, from any address.                           *)
(***************************************************************************)
EXTENDS Integers, FiniteSets

CONSTANTS
    Nonces, Ips, Events,
    MaxTime,    \* bound
    MaxSkew,    \* maxSkewMs, at the edge and in the object
    NonceTtl,   \* ADMIN_NONCE_TTL_SECONDS
    Window,     \* ADMIN_RATE_WINDOW_MS
    Limit,      \* ADMIN_RATE_LIMIT_PER_WINDOW
    EventTtl,   \* WEBHOOK_EVENT_TTL_SECONDS
    Day,        \* dayMs
    None

VARIABLES
    now,
    signed,     \* each nonce's timestamp, once somebody has signed it
    waiting,    \* requests the edge has verified and passed on to the object
    nonceLog,   \* when each nonce was seen
    rateLog,    \* each address's window and its hits
    buckets,    \* each slot's start and the events seen
    accepted,   \* history: how often a nonce was let through, up to twice
    tookAt      \* history: when each event was last let through

admin == <<signed, waiting, nonceLog, rateLog, accepted>>
webhook == <<buckets, tookAt>>
vars == <<now, admin, webhook>>

-----------------------------------------------------------------------------
(* verifySignedAdminRequest, as far as it is about time.  The object       *)
(* checks again: the request may have been on its way for a while.         *)
WithinSkew(n) == now - signed[n] \in -MaxSkew..MaxSkew

(* A client signs with a clock of its own.                                 *)
Sign(n) ==
    /\ signed[n] = None
    /\ \E ts \in now - MaxSkew .. now + MaxSkew : signed' = [signed EXCEPT ![n] = ts]
    /\ UNCHANGED <<now, waiting, nonceLog, rateLog, accepted, webhook>>

(* verifySignedAdminRequestWithNonceGuard: on to the object.               *)
Verify(n, ip) ==
    /\ signed[n] # None
    /\ WithinSkew(n)
    /\ waiting' = waiting \cup {<<n, ip>>}
    /\ UNCHANGED <<now, signed, nonceLog, rateLog, accepted, webhook>>

(* Mutant of Kept: a nonce is forgotten when its time is up, not after.    *)
KeptShorter == {n \in Nonces : nonceLog[n] # None /\ now - nonceLog[n] < NonceTtl}

(* The part of the nonce log that still counts.                            *)
Kept == {n \in Nonces : nonceLog[n] # None /\ now - nonceLog[n] <= NonceTtl}

Hits(ip) == IF rateLog[ip].window = now \div Window THEN rateLog[ip].hits ELSE 0

CountHit(ip) ==
    rateLog' = [rateLog EXCEPT ![ip] = [window |-> now \div Window, hits |-> Hits(ip) + 1]]

(* Mutant of Refused: one more than the limit.                             *)
RefusedPastLimit(n, ip) == ~ WithinSkew(n) \/ n \in Kept \/ Hits(ip) > Limit

Refused(n, ip) == ~ WithinSkew(n) \/ n \in Kept \/ Hits(ip) >= Limit

(* enforceIntelAdminGuard, for a request the edge passed on.               *)
Refuse(n, ip) ==
    /\ <<n, ip>> \in waiting
    /\ Refused(n, ip)
    /\ waiting' = waiting \ {<<n, ip>>}
    /\ UNCHANGED <<now, signed, nonceLog, rateLog, accepted, webhook>>

Accept(n, ip) ==
    /\ <<n, ip>> \in waiting
    /\ ~ Refused(n, ip)
    /\ waiting' = waiting \ {<<n, ip>>}
    /\ CountHit(ip)
    /\ nonceLog' = [x \in Nonces |-> IF x = n THEN now ELSE IF x \in Kept THEN nonceLog[x] ELSE None]
    /\ accepted' = [accepted EXCEPT ![n] = IF @ < 2 THEN @ + 1 ELSE @]
    /\ UNCHANGED <<now, signed, webhook>>

(* The object stops between the two writes: the hit is counted, and the    *)
(* caller, who gets no answer, may try again.                              *)
StopsAfterHit(n, ip) ==
    /\ <<n, ip>> \in waiting
    /\ ~ Refused(n, ip)
    /\ waiting' = waiting \ {<<n, ip>>}
    /\ CountHit(ip)
    /\ UNCHANGED <<now, signed, nonceLog, accepted, webhook>>

-----------------------------------------------------------------------------
(* enforceWebhookDedupe.                                                   *)

(* resolveWebhookBucketDurationMs                                          *)
BucketLength == IF EventTtl < Day THEN EventTtl ELSE Day

(* Mutant of BucketCount: a last part of the time to live has no bucket.   *)
BucketCountDown == EventTtl \div BucketLength - 1

BucketCount == (EventTtl + BucketLength - 1) \div BucketLength

Slots == 0 .. BucketCount - 1

CurrentStart == (now \div BucketLength) * BucketLength
CurrentSlot == (now \div BucketLength) % BucketCount

Empty == [e \in Events |-> None]

(* The events of a bucket that are still remembered.                       *)
Remembered(b) == [e \in Events |-> IF b.seen[e] # None /\ now - b.seen[e] <= EventTtl THEN b.seen[e] ELSE None]

(* A bucket that is too old or from the future is dropped whole, and so is *)
(* one with nothing left in it.                                            *)
Active(s) ==
    /\ buckets[s] # None
    /\ now - buckets[s].start <= EventTtl
    /\ buckets[s].start <= now
    /\ \/ Remembered(buckets[s]) # Empty
       \/ buckets[s].start = CurrentStart

Duplicate(e) == \E s \in Slots : Active(s) /\ Remembered(buckets[s])[e] # None

(* The bucket the event goes into: the slot's own, or a new one.           *)
CurrentSeen ==
    IF Active(CurrentSlot) /\ buckets[CurrentSlot].start = CurrentStart
    THEN Remembered(buckets[CurrentSlot])
    ELSE Empty

Swept(s) == IF Active(s) THEN [buckets[s] EXCEPT !.seen = Remembered(buckets[s])] ELSE None

Written(s, e) ==
    IF s = CurrentSlot
    THEN [start |-> CurrentStart, seen |-> [CurrentSeen EXCEPT ![e] = now]]
    ELSE Swept(s)

Take(e) ==
    /\ ~ Duplicate(e)
    /\ buckets' = [s \in Slots |-> Written(s, e)]
    /\ tookAt' = [tookAt EXCEPT ![e] = now]
    /\ UNCHANGED <<now, admin>>

(* A duplicate ends the sweep where it is found: the slots before it that  *)
(* are not active have been deleted.                                       *)
RefuseDuplicate(e) ==
    \E s \in Slots :
        /\ Active(s) /\ Remembered(buckets[s])[e] # None
        /\ \A t \in Slots : t < s => ~ (Active(t) /\ Remembered(buckets[t])[e] # None)
        /\ buckets' = [t \in Slots |-> IF t < s /\ ~ Active(t) THEN None ELSE buckets[t]]
        /\ UNCHANGED <<now, admin, tookAt>>

(* The object stops before all the slots are written; if the event's own   *)
(* is, the caller is never told, and its retry is a duplicate.             *)
StopsBetweenSlots(e) ==
    /\ ~ Duplicate(e)
    /\ \E done \in SUBSET Slots :
          buckets' = [s \in Slots |-> IF ~ Active(s) /\ s \notin done THEN None
                                      ELSE IF s \in done /\ (Active(s) \/ s = CurrentSlot) THEN Written(s, e)
                                      ELSE buckets[s]]
    /\ UNCHANGED <<now, admin, tookAt>>

-----------------------------------------------------------------------------
Tick == now < MaxTime /\ now' = now + 1 /\ UNCHANGED <<admin, webhook>>

Init ==
    /\ now = 0
    /\ signed = [n \in Nonces |-> None]
    /\ waiting = {}
    /\ nonceLog = [n \in Nonces |-> None]
    /\ rateLog = [ip \in Ips |-> [window |-> 0, hits |-> 0]]
    /\ buckets = [s \in Slots |-> None]
    /\ accepted = [n \in Nonces |-> 0]
    /\ tookAt = [e \in Events |-> None]

Next ==
    \/ \E n \in Nonces : Sign(n)
    \/ \E n \in Nonces, ip \in Ips :
          Verify(n, ip) \/ Refuse(n, ip) \/ Accept(n, ip) \/ StopsAfterHit(n, ip)
    \/ \E e \in Events : Take(e) \/ RefuseDuplicate(e) \/ StopsBetweenSlots(e)
    \/ Tick

Spec == Init /\ [][Next]_vars

-----------------------------------------------------------------------------
(* The state's shape; the hits of a window never pass the limit.           *)
TypeOK ==
    /\ now \in 0..MaxTime
    /\ signed \in [Nonces -> -MaxSkew..MaxTime + MaxSkew \cup {None}]
    /\ waiting \subseteq Nonces \X Ips
    /\ nonceLog \in [Nonces -> 0..MaxTime \cup {None}]
    /\ rateLog \in [Ips -> [window : 0..MaxTime, hits : 0..Limit]]
    /\ buckets \in [Slots -> {None} \cup [start : 0..MaxTime, seen : [Events -> 0..MaxTime \cup {None}]]]
    /\ accepted \in [Nonces -> 0..2]
    /\ tookAt \in [Events -> 0..MaxTime \cup {None}]

(* A signed request is let through at most once: its timestamp is too old  *)
(* by the time its nonce is forgotten, whatever the signer's clock, the    *)
(* delay on the way, the address it comes from and the writes that were    *)
(* cut short (enforceIntelAdminGuard).                                     *)
AcceptedOnce == \A n \in Nonces : accepted[n] <= 1

(* An event is let through a second time only when more has passed than    *)
(* the time to live less one bucket: a bucket goes as a whole, its late    *)
(* events before their own time (enforceWebhookDedupe).                    *)
TakesLate ==
    \A e \in Events : Take(e) /\ tookAt[e] # None => now - tookAt[e] > EventTtl - BucketLength

TakenAgainLate == [][TakesLate]_vars
=============================================================================
