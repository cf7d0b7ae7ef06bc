--------------------------- MODULE ComponentProofs ---------------------------
(***************************************************************************)
(* Proofs about components whose state is their own, for every value of    *)
(* their constants: the guards of the intel cache (AdminGuard), the        *)
(* collector's control object (CollectorControl), the intel cache itself   *)
(* (IntelCache), the backend's counts of requests (RateLimit), the texts   *)
(* of messages (TelegramTexts), the limiter's usage store (UsageStore),    *)
(* the summary of customers (CrmSummary), the telling of channels          *)
(* (Outbound), the taking of news from feeds (RssIngest), by whom a        *)
(* request is made (XProfile), what the two workers do for it (Routes),    *)
(* the aircraft shown (AirSea) and the figures of subscriptions            *)
(* (StripeSummary).                                                        *)
(* Each has an inductive invariant, the conjunction of a type invariant    *)
(* and of what its properties need besides, and a lemma for every action.  *)
(*                                                                         *)
(* The components stand side by side: parameters that are called the same  *)
(* in two of them have the component's name before theirs here.            *)
(* ServicesProofs and NewsProofs instantiate this module for the instances *)
(* TLC checks, several components at a time.                               *)
(***************************************************************************)
EXTENDS Integers, FiniteSets, Sequences, FiniteSetTheorems,
    SequenceTheorems, WellFoundedInduction, TLAPS

CONSTANTS
    None,
    Nonces, Ips, Events, GuardMaxTime, MaxSkew, GuardNonceTtl, GuardWindow,
    GuardLimit, EventTtl, Day,
    ControlMaxTime, ControlMaxVersion, MaxSent, ControlMaxDeploys, Skew,
    ControlNonceTtl, ControlWindow, ControlLimit, ControlStale,
    Standard, Proactive, Chat, DefaultChat, Whales, IntelReaders, Fetches,
    MaxWorld, IntelMaxTime, IntelMaxFaults, MaxBusts, MaxAge, StaleWindow,
    Cooldown, Parallel,
    Routes, Callers, Minute, KeptFor, FreeLimit, TrialLimit, SubscriberLimit,
    TrialEnd, RatesMaxTime, MaxGrants,
    Messages, Home, Text, TextsForeign, Photos, Collected, TextsBase, Longest,
    TextsCacheTtl, RetryTtl, TextsMaxTime, TextsMaxFaults,
    Keys, Windows, UsageForeign, Limits, UsageReaders, Async, UsageCacheTtl,
    MaxRetries, Remote, BatchSize, QueueRetries, Deadline, MaxSeeds, MaxEntries,
    UsageMaxTime, UsageMaxFaults,
    CrmUsers, Writers, Builders, LogLimit, MaxWrites, CrmMaxFaults,
    Items, Channels, Scopes, Ttls, OutRequests, Connections, Escalation,
    MaxJobs, OutMaxTime, OutMaxFaults,
    FastLane, Rotating, RssBase, Region, Kind, Runs, PerRun, PerSource, Shown,
    RssMaxVersion, RssMaxFaults, MaxRuns,
    XpUsers, Person, XpRequests, XpMaxFaults,
    RtUsers, Login, Accounts, Edges, Backends, Tokens, RtMaxDeploys,
    RtMaxFaults,
    Tracks, AirRequests, MaxTracks, Refresh, AirStale, AirTimeout, AirMaxTime,
    MaxSky,
    Syncs, PageSize, MaxSubscriptions, Ttl, FigTimeout, MaxMade, FigMaxTime

VARIABLES
    guardNow, guardSigned, waiting, nonceLog, rateLog, buckets, guardAccepted,
    tookAt,
    controlNow, deployed, container, sent, wire, guarded, controlStored,
    nonces, hits, controlStatus, applied, twice, controlOverlapped,
    world, floor, intelNow, intelFaults, intelCache, intelStored, inFlight,
    cooldown, gen, intelFetch, intelReader, rewarm, alarm, refreshing,
    unsaved, servedOld,
    ratesNow, ratesStatus, count, caller, granted, allowed, ratesOverlapped,
    textsNow, posted, shown, rows, seen, textsCache, pause, scrape,
    textsFaults, textsLost, tried, early, apart,
    usageNow, usageFaults, seeds, kv, queue, seeder, usageEdge, usageReader,
    usageAccepted, written, lastHad, outdated, attempts,
    writes, crmFaults, crmAccount, log, summary, writer, builder, crmLost,
    logged, crmOverlapped,
    outNow, outFaults, mark, outRequest, outTold, heard, wrong,
    feed, rssFaults, starts, validator, health, run, published, dropped,
    xpFaults, db, session, xpCache, xpRequest, xpKept,
    rtEdge, backend, rtKnown, rtRequest, deploys, rtFaults,
    airNow, airCached, airRequest, sky,
    figNow, made, figCached, sync

(***************************************************************************)
(* Division with remainder.                                                *)
(***************************************************************************)
LEMMA Quotient ==
    ASSUME NEW a \in Nat, NEW m \in Nat \ {0}
    PROVE  /\ a \div m \in Nat /\ a \div m <= a
           /\ m * (a \div m) <= a
           /\ a < m * (a \div m) + m
           /\ a % m \in 0 .. m - 1
           /\ a = m * (a \div m) + (a % m)
OBVIOUS

LEMMA Multiples ==
    ASSUME NEW m \in Nat \ {0}, NEW x \in Nat, NEW y \in Nat, x < y
    PROVE  m * x + m <= m * y
OBVIOUS

(* Two numbers with one remainder are a multiple apart.                    *)
LEMMA SameRemainder ==
    ASSUME NEW a \in Nat, NEW b \in Nat, NEW c \in Nat \ {0}, a % c = b % c, a < b
    PROVE  a + c <= b
<1>1. /\ a \div c \in Nat /\ a = c * (a \div c) + (a % c)
      /\ b \div c \in Nat /\ b = c * (b \div c) + (b % c)
  BY Quotient
<1>2. /\ c * (a \div c) \in Int /\ c * (b \div c) \in Int /\ a % c \in Int
  BY <1>1, Quotient
<1>3. c * (a \div c) < c * (b \div c)
  BY <1>1, <1>2
<1>4. a \div c < b \div c
  <2>1. SUFFICES ASSUME b \div c <= a \div c PROVE FALSE
    BY <1>1
  <2>2. CASE b \div c = a \div c
    BY <2>2, <1>3, <1>2
  <2>3. CASE b \div c < a \div c
    BY <2>3, <1>1, <1>2, <1>3, Multiples
  <2> QED BY <2>1, <2>2, <2>3, <1>1
<1>5. c * (a \div c) + c <= c * (b \div c)
  BY <1>1, <1>4, Multiples
<1> QED BY <1>1, <1>2, <1>5

-----------------------------------------------------------------------------
(***************************************************************************)
(* AdminGuard.                                                             *)
(***************************************************************************)
Guard == INSTANCE AdminGuard WITH
    now <- guardNow, signed <- guardSigned, accepted <- guardAccepted,
    MaxTime <- GuardMaxTime, NonceTtl <- GuardNonceTtl, Window <- GuardWindow,
    Limit <- GuardLimit

(* A nonce is remembered for as long as a request with it can be within    *)
(* the skew, on either side (intel-cache-do.ts: ten minutes, and five).    *)
GuardAssumption ==
    /\ GuardMaxTime \in Nat /\ MaxSkew \in Nat /\ GuardNonceTtl \in Nat /\ GuardLimit \in Nat
    /\ GuardWindow \in Nat \ {0} /\ EventTtl \in Nat \ {0} /\ Day \in Nat \ {0}
    /\ 2 * MaxSkew <= GuardNonceTtl
    /\ None \notin Int
    /\ None \notin [start : 0..GuardMaxTime, seen : [Events -> 0..GuardMaxTime \cup {None}]]

(* A request let through is in the nonce log, or its time is over.         *)
SignedInv ==
    /\ \A n \in Nonces : guardAccepted[n] <= 1
    /\ \A n \in Nonces, ip \in Ips : <<n, ip>> \in waiting => guardSigned[n] # None
    /\ \A n \in Nonces : guardAccepted[n] > 0 =>
          /\ guardSigned[n] # None
          /\ \/ guardNow > guardSigned[n] + MaxSkew
             \/ nonceLog[n] # None /\ nonceLog[n] >= guardSigned[n] - MaxSkew

(* A bucket is the one of a start, and has an event since a time or later. *)
HasSince(b, e, start, since) ==
    /\ b # None
    /\ b.start = start
    /\ b.seen[e] # None
    /\ b.seen[e] >= since

(* The bucket an event let through at a time was put into, and its slot.   *)
StartAt(t) == (t \div Guard!BucketLength) * Guard!BucketLength
SlotAt(t) == (t \div Guard!BucketLength) % Guard!BucketCount

(* An event let through is in its bucket, or its time is nearly over.      *)
TookInv ==
    \A e \in Events : tookAt[e] # None =>
        /\ tookAt[e] <= guardNow
        /\ \/ guardNow - tookAt[e] > EventTtl - Guard!BucketLength
           \/ HasSince(buckets[SlotAt(tookAt[e])], e, StartAt(tookAt[e]), tookAt[e])

GuardInv == Guard!TypeOK /\ SignedInv /\ TookInv

(* The lengths and numbers of buckets.                                     *)
LEMMA Buckets ==
    ASSUME GuardAssumption
    PROVE  /\ Guard!BucketLength \in Nat \ {0} /\ Guard!BucketLength <= EventTtl
           /\ Guard!BucketCount \in Nat \ {0}
           /\ EventTtl <= Guard!BucketLength * Guard!BucketCount
           /\ Guard!BucketLength * Guard!BucketCount \in Int
<1> DEFINE m == Guard!BucketLength
<1>1. m \in Nat \ {0} /\ m <= EventTtl /\ EventTtl \in Nat
  BY DEF GuardAssumption, Guard!BucketLength
<1> HIDE DEF m
<1>2. Guard!BucketCount = (EventTtl + m - 1) \div m
  BY DEF Guard!BucketCount, m
<1>3. EventTtl + m - 1 \in Nat
  BY <1>1
<1>4. Guard!BucketCount \in Nat /\ EventTtl + m - 1 < m * Guard!BucketCount + m
  BY <1>1, <1>2, <1>3, Quotient
<1>5. m * Guard!BucketCount \in Int
  BY <1>1, <1>4
<1>6. Guard!BucketCount # 0
  BY <1>1, <1>4
<1> QED BY <1>1, <1>4, <1>5, <1>6 DEF m

LEMMA GuardInit == GuardAssumption /\ Guard!Init => GuardInv
<1> SUFFICES ASSUME GuardAssumption, Guard!Init PROVE GuardInv
  OBVIOUS
<1>1. Guard!TypeOK
  BY DEF GuardAssumption, Guard!Init, Guard!TypeOK
<1>2. SignedInv
  BY DEF GuardAssumption, Guard!Init, SignedInv
<1>3. TookInv
  BY DEF GuardAssumption, Guard!Init, TookInv
<1> QED BY <1>1, <1>2, <1>3 DEF GuardInv

(* The hits of a window that is still counted.                             *)
LEMMA HitsOfWindow ==
    ASSUME GuardAssumption, Guard!TypeOK, NEW ip \in Ips
    PROVE  Guard!Hits(ip) \in 0..GuardLimit /\ guardNow \div GuardWindow \in 0..GuardMaxTime
<1>1. guardNow \in Nat /\ GuardWindow \in Nat \ {0} /\ guardNow <= GuardMaxTime /\ GuardMaxTime \in Nat /\ GuardLimit \in Nat
  BY DEF GuardAssumption, Guard!TypeOK
<1>2. guardNow \div GuardWindow \in Nat /\ guardNow \div GuardWindow <= guardNow
  BY <1>1, Quotient
<1>3. rateLog[ip].hits \in 0..GuardLimit
  BY DEF Guard!TypeOK
<1> QED BY <1>1, <1>2, <1>3 DEF Guard!Hits

LEMMA CountsHit ==
    ASSUME GuardAssumption, Guard!TypeOK, NEW ip \in Ips, Guard!Hits(ip) < GuardLimit, Guard!CountHit(ip)
    PROVE  rateLog' \in [Ips -> [window : 0..GuardMaxTime, hits : 0..GuardLimit]]
<1>1. [window |-> guardNow \div GuardWindow, hits |-> Guard!Hits(ip) + 1] \in [window : 0..GuardMaxTime, hits : 0..GuardLimit]
  BY HitsOfWindow DEF GuardAssumption
<1>2. rateLog \in [Ips -> [window : 0..GuardMaxTime, hits : 0..GuardLimit]]
  BY DEF Guard!TypeOK
<1> QED BY <1>1, <1>2 DEF Guard!CountHit

(* The admin guard's steps.                                                *)
LEMMA SignStep ==
    ASSUME GuardAssumption, Guard!TypeOK, SignedInv, NEW n \in Nonces, Guard!Sign(n)
    PROVE  Guard!TypeOK' /\ SignedInv'
<1>1. PICK ts \in guardNow - MaxSkew .. guardNow + MaxSkew : guardSigned' = [guardSigned EXCEPT ![n] = ts]
  BY DEF Guard!Sign
<1>2. /\ guardSigned[n] = None
      /\ UNCHANGED <<guardNow, waiting, nonceLog, rateLog, guardAccepted, buckets, tookAt>>
  BY DEF Guard!Sign, Guard!webhook
<1>3. ts \in -MaxSkew..GuardMaxTime + MaxSkew
  BY <1>1 DEF Guard!TypeOK, GuardAssumption
<1>4. Guard!TypeOK'
  BY <1>1, <1>2, <1>3 DEF Guard!TypeOK, Guard!Slots, Guard!BucketCount, Guard!BucketLength
<1>5. ts # None
  BY <1>1, <1>3 DEF GuardAssumption
<1>6. \A x \in Nonces : guardSigned'[x] = IF x = n THEN ts ELSE guardSigned[x]
  BY <1>1 DEF Guard!TypeOK
<1>7. SignedInv'
  BY <1>2, <1>5, <1>6 DEF SignedInv
<1> QED BY <1>4, <1>7

LEMMA VerifyStep ==
    ASSUME GuardAssumption, Guard!TypeOK, SignedInv, NEW n \in Nonces, NEW ip \in Ips,
           Guard!Verify(n, ip) \/ Guard!Refuse(n, ip)
    PROVE  Guard!TypeOK' /\ SignedInv'
<1>1. /\ waiting' \subseteq waiting \cup {<<n, ip>>}
      /\ UNCHANGED <<guardNow, guardSigned, nonceLog, rateLog, guardAccepted, buckets, tookAt>>
  BY DEF Guard!Verify, Guard!Refuse, Guard!webhook
<1>2. Guard!TypeOK'
  BY <1>1 DEF Guard!TypeOK, Guard!Slots, Guard!BucketCount, Guard!BucketLength
<1>3. guardSigned[n] # None
  BY DEF Guard!Verify, Guard!Refuse, SignedInv
<1>4. SignedInv'
  BY <1>1, <1>3 DEF SignedInv
<1> QED BY <1>2, <1>4

LEMMA AcceptStep ==
    ASSUME GuardAssumption, Guard!TypeOK, SignedInv, NEW n \in Nonces, NEW ip \in Ips, Guard!Accept(n, ip)
    PROVE  Guard!TypeOK' /\ SignedInv'
<1>1. /\ <<n, ip>> \in waiting
      /\ ~ Guard!Refused(n, ip)
      /\ waiting' = waiting \ {<<n, ip>>}
      /\ nonceLog' = [x \in Nonces |-> IF x = n THEN guardNow ELSE IF x \in Guard!Kept THEN nonceLog[x] ELSE None]
      /\ guardAccepted' = [guardAccepted EXCEPT ![n] = IF @ < 2 THEN @ + 1 ELSE @]
      /\ UNCHANGED <<guardNow, guardSigned, buckets, tookAt>>
  BY DEF Guard!Accept, Guard!webhook
<1>2. /\ Guard!WithinSkew(n) /\ n \notin Guard!Kept /\ Guard!Hits(ip) < GuardLimit
  BY <1>1, HitsOfWindow DEF Guard!Refused, GuardAssumption
<1>3. /\ guardNow \in 0..GuardMaxTime /\ GuardMaxTime \in Nat /\ MaxSkew \in Nat /\ GuardNonceTtl \in Nat
      /\ 2 * MaxSkew <= GuardNonceTtl /\ None \notin Int
      /\ guardSigned \in [Nonces -> -MaxSkew..GuardMaxTime + MaxSkew \cup {None}]
      /\ nonceLog \in [Nonces -> 0..GuardMaxTime \cup {None}]
      /\ guardAccepted \in [Nonces -> 0..2]
  BY DEF Guard!TypeOK, GuardAssumption
<1>4. Guard!TypeOK'
  <2>1. rateLog' \in [Ips -> [window : 0..GuardMaxTime, hits : 0..GuardLimit]]
    BY <1>2, CountsHit DEF Guard!Accept
  <2>2. nonceLog' \in [Nonces -> 0..GuardMaxTime \cup {None}]
    BY <1>1, <1>3
  <2>3. guardAccepted' \in [Nonces -> 0..2]
    BY <1>1, <1>3
  <2> QED BY <1>1, <2>1, <2>2, <2>3 DEF Guard!TypeOK, Guard!Slots, Guard!BucketCount, Guard!BucketLength
<1>5. /\ guardSigned[n] # None /\ guardSigned[n] \in Int
      /\ guardNow - guardSigned[n] <= MaxSkew /\ guardNow - guardSigned[n] >= -MaxSkew
  <2>1. guardSigned[n] # None
    BY <1>1 DEF SignedInv
  <2>2. guardSigned[n] \in Int
    BY <2>1, <1>3
  <2> QED BY <1>2, <1>3, <2>1, <2>2 DEF Guard!WithinSkew
<1>6. guardAccepted[n] = 0
  <2>1. SUFFICES ASSUME guardAccepted[n] > 0 PROVE FALSE
    BY <1>3
  <2>2. \/ guardNow > guardSigned[n] + MaxSkew
        \/ nonceLog[n] # None /\ nonceLog[n] >= guardSigned[n] - MaxSkew
    BY <2>1 DEF SignedInv
  <2>3. nonceLog[n] # None /\ nonceLog[n] \in Int /\ nonceLog[n] >= guardSigned[n] - MaxSkew
    BY <2>2, <1>3, <1>5
  <2>4. guardNow - nonceLog[n] > GuardNonceTtl
    BY <1>2, <1>3, <2>3 DEF Guard!Kept
  <2> QED BY <1>3, <1>5, <2>3, <2>4
<1>7. \A x \in Nonces : /\ guardAccepted'[x] = IF x = n THEN 1 ELSE guardAccepted[x]
                        /\ nonceLog'[x] = IF x = n THEN guardNow ELSE IF x \in Guard!Kept THEN nonceLog[x] ELSE None
  BY <1>1, <1>3, <1>6
<1>8. SignedInv'
  <2>1. \A x \in Nonces : guardAccepted'[x] <= 1
    BY <1>7 DEF SignedInv
  <2>2. \A x \in Nonces, i \in Ips : <<x, i>> \in waiting' => guardSigned'[x] # None
    BY <1>1 DEF SignedInv
  <2>3. ASSUME NEW x \in Nonces, guardAccepted'[x] > 0
        PROVE  /\ guardSigned[x] # None
               /\ \/ guardNow > guardSigned[x] + MaxSkew
                  \/ nonceLog'[x] # None /\ nonceLog'[x] >= guardSigned[x] - MaxSkew
    <3>1. CASE x = n
      BY <3>1, <1>3, <1>5, <1>7
    <3>2. CASE x # n
      <4>1. /\ guardSigned[x] # None
            /\ \/ guardNow > guardSigned[x] + MaxSkew
               \/ nonceLog[x] # None /\ nonceLog[x] >= guardSigned[x] - MaxSkew
        BY <2>3, <3>2, <1>7 DEF SignedInv
      <4>2. CASE x \in Guard!Kept
        BY <3>2, <4>1, <4>2, <1>7
      <4>3. CASE x \notin Guard!Kept
        <5>1. guardSigned[x] \in Int
          BY <4>1, <1>3
        <5>2. CASE nonceLog[x] # None
          <6>1. nonceLog[x] \in Int /\ guardNow - nonceLog[x] > GuardNonceTtl
            BY <4>3, <5>2, <1>3 DEF Guard!Kept
          <6> QED BY <4>1, <5>1, <6>1, <1>3
        <5> QED BY <4>1, <5>2
      <4> QED BY <4>2, <4>3
    <3> QED BY <3>1, <3>2
  <2> QED BY <2>1, <2>2, <2>3, <1>1 DEF SignedInv
<1> QED BY <1>4, <1>8

LEMMA StopsAfterHitStep ==
    ASSUME GuardAssumption, Guard!TypeOK, SignedInv, NEW n \in Nonces, NEW ip \in Ips, Guard!StopsAfterHit(n, ip)
    PROVE  Guard!TypeOK' /\ SignedInv'
<1>1. /\ ~ Guard!Refused(n, ip)
      /\ waiting' = waiting \ {<<n, ip>>}
      /\ UNCHANGED <<guardNow, guardSigned, nonceLog, guardAccepted, buckets, tookAt>>
  BY DEF Guard!StopsAfterHit, Guard!webhook
<1>2. Guard!Hits(ip) < GuardLimit
  BY <1>1, HitsOfWindow DEF Guard!Refused, GuardAssumption
<1>3. rateLog' \in [Ips -> [window : 0..GuardMaxTime, hits : 0..GuardLimit]]
  BY <1>2, CountsHit DEF Guard!StopsAfterHit
<1>4. Guard!TypeOK'
  BY <1>1, <1>3 DEF Guard!TypeOK, Guard!Slots, Guard!BucketCount, Guard!BucketLength
<1>5. SignedInv'
  BY <1>1 DEF SignedInv
<1> QED BY <1>4, <1>5

(* The webhook guard: where the present bucket is.                         *)
LEMMA PresentBucket ==
    ASSUME GuardAssumption, Guard!TypeOK
    PROVE  /\ guardNow \div Guard!BucketLength \in Nat
           /\ Guard!CurrentStart \in 0..GuardMaxTime
           /\ Guard!CurrentSlot \in Guard!Slots
           /\ Guard!CurrentStart <= guardNow
<1> DEFINE m == Guard!BucketLength
           c == Guard!BucketCount
<1>1. m \in Nat \ {0} /\ c \in Nat \ {0} /\ guardNow \in 0..GuardMaxTime /\ GuardMaxTime \in Nat
  BY Buckets DEF Guard!TypeOK, GuardAssumption
<1> HIDE DEF m, c
<1>2. guardNow \div m \in Nat /\ m * (guardNow \div m) <= guardNow /\ m * (guardNow \div m) \in Nat
  BY <1>1, Quotient
<1>3. (guardNow \div m) % c \in 0 .. c - 1
  BY <1>1, <1>2, Quotient
<1>4. Guard!CurrentStart = m * (guardNow \div m)
  BY <1>1, <1>2 DEF Guard!CurrentStart, m
<1> QED BY <1>1, <1>2, <1>3, <1>4 DEF Guard!CurrentSlot, Guard!Slots, m, c

Moments == 0..GuardMaxTime \cup {None}

LEMMA RemembersShape ==
    ASSUME GuardAssumption, Guard!TypeOK, NEW s \in Guard!Slots, buckets[s] # None
    PROVE  /\ buckets[s] \in [start : 0..GuardMaxTime, seen : [Events -> Moments]]
           /\ Guard!Remembered(buckets[s]) \in [Events -> Moments]
<1>1. buckets[s] \in [start : 0..GuardMaxTime, seen : [Events -> Moments]]
  BY DEF Guard!TypeOK, Moments
<1> QED BY <1>1 DEF Guard!Remembered, Moments

LEMMA WrittenShape ==
    ASSUME GuardAssumption, Guard!TypeOK, NEW s \in Guard!Slots, NEW e \in Events
    PROVE  Guard!Written(s, e) \in {None} \cup [start : 0..GuardMaxTime, seen : [Events -> Moments]]
<1>1. CASE s = Guard!CurrentSlot
  <2>1. Guard!Empty \in [Events -> Moments]
    BY DEF Guard!Empty, Moments
  <2>2. Guard!CurrentSeen \in [Events -> Moments]
    BY <1>1, <2>1, RemembersShape DEF Guard!CurrentSeen, Guard!Active
  <2>3. guardNow \in Moments
    BY DEF Guard!TypeOK, Moments
  <2> QED BY <1>1, <2>2, <2>3, PresentBucket DEF Guard!Written
<1>2. CASE s # Guard!CurrentSlot /\ Guard!Active(s)
  BY <1>2, RemembersShape DEF Guard!Written, Guard!Swept, Guard!Active
<1>3. CASE s # Guard!CurrentSlot /\ ~ Guard!Active(s)
  BY <1>3 DEF Guard!Written, Guard!Swept
<1> QED BY <1>1, <1>2, <1>3

(* The bucket of an event whose time is not nearly over counts, and the    *)
(* event in it does.                                                       *)
LEMMA StillActive ==
    ASSUME GuardAssumption, Guard!TypeOK, NEW e \in Events, NEW t \in 0..guardNow,
           guardNow - t <= EventTtl - Guard!BucketLength,
           HasSince(buckets[SlotAt(t)], e, StartAt(t), t)
    PROVE  LET s == SlotAt(t) IN
           /\ s \in Guard!Slots
           /\ Guard!Active(s)
           /\ Guard!Remembered(buckets[s])[e] = buckets[s].seen[e]
           /\ buckets[s].seen[e] # None
<1> DEFINE m == Guard!BucketLength
           c == Guard!BucketCount
           k == t \div m
           s == k % c
<1>1. /\ m \in Nat \ {0} /\ c \in Nat \ {0} /\ guardNow \in 0..GuardMaxTime /\ GuardMaxTime \in Nat
      /\ m <= EventTtl /\ EventTtl \in Nat /\ None \notin Int
  BY Buckets DEF Guard!TypeOK, GuardAssumption
<1>2. /\ guardNow - t <= EventTtl - m
      /\ buckets[s] # None
      /\ buckets[s].start = k * m
      /\ buckets[s].seen[e] # None
      /\ buckets[s].seen[e] >= t
  BY DEF HasSince, SlotAt, StartAt
<1>3. s \in Guard!Slots
  <2>0. t \in Nat
    BY <1>1
  <2> HIDE DEF m, c
  <2>1. k \in Nat
    BY <1>1, <2>0, Quotient
  <2>2. s \in 0 .. c - 1
    <3> HIDE DEF k
    <3> QED BY <1>1, <2>1, Quotient
  <2> QED BY <2>2 DEF Guard!Slots, c
<1>4. /\ buckets[s] \in [start : 0..GuardMaxTime, seen : [Events -> Moments]]
  BY <1>2, <1>3, RemembersShape
<1>5. k * m <= t /\ t < k * m + m /\ k * m \in Nat
  <2>0. t \in Nat
    BY <1>1
  <2> HIDE DEF m, c
  <2>1. k \in Nat /\ m * k <= t /\ t < m * k + m
    BY <1>1, <2>0, Quotient
  <2> HIDE DEF k
  <2> QED BY <1>1, <2>1
<1>6. buckets[s].seen[e] \in Nat
  BY <1>2, <1>4 DEF Moments
<1>7. Guard!Remembered(buckets[s])[e] = buckets[s].seen[e]
  BY <1>1, <1>2, <1>6 DEF Guard!Remembered
<1>8. Guard!Remembered(buckets[s]) # Guard!Empty
  BY <1>2, <1>7 DEF Guard!Empty
<1>9. /\ guardNow - buckets[s].start <= EventTtl
      /\ buckets[s].start <= guardNow
  BY <1>1, <1>2, <1>5
<1>10. Guard!Active(s)
  BY <1>2, <1>8, <1>9 DEF Guard!Active
<1> QED BY <1>2, <1>3, <1>7, <1>10 DEF SlotAt

(* The slot of such a bucket has not come round again.                     *)
LEMMA SlotIsItsOwn ==
    ASSUME GuardAssumption, Guard!TypeOK, NEW t \in 0..guardNow,
           guardNow - t <= EventTtl - Guard!BucketLength,
           (t \div Guard!BucketLength) % Guard!BucketCount = Guard!CurrentSlot
    PROVE  (t \div Guard!BucketLength) * Guard!BucketLength = Guard!CurrentStart
<1> DEFINE m == Guard!BucketLength
           c == Guard!BucketCount
           k == t \div m
           l == guardNow \div m
<1>1. /\ m \in Nat \ {0} /\ c \in Nat \ {0} /\ guardNow \in 0..GuardMaxTime /\ GuardMaxTime \in Nat
      /\ m <= EventTtl /\ EventTtl \in Nat /\ EventTtl <= m * c /\ m * c \in Int
  BY Buckets DEF Guard!TypeOK, GuardAssumption
<1>2. k % c = l % c
  BY DEF Guard!CurrentSlot
<1>3. guardNow - t <= EventTtl - m
  OBVIOUS
<1>4. SUFFICES k = l
  BY DEF Guard!CurrentStart
<1> HIDE DEF m, c
<1>0. t \in Nat /\ guardNow \in Nat
  BY <1>1
<1>8. k \in Nat /\ m * k <= t /\ t < m * k + m
  BY <1>0, <1>1, Quotient
<1>9. l \in Nat /\ m * l <= guardNow /\ guardNow < m * l + m
  BY <1>0, <1>1, Quotient
<1> HIDE DEF k, l
<1>5. /\ k \in Nat /\ m * k <= t /\ t < m * k + m /\ m * k \in Nat
      /\ l \in Nat /\ m * l <= guardNow /\ guardNow < m * l + m /\ m * l \in Nat
  BY <1>1, <1>8, <1>9
<1>6. ~ (l < k)
  <2>1. ASSUME l < k PROVE FALSE
    <3>1. m * l + m <= m * k
      BY <1>1, <1>5, <2>1, Multiples
    <3> QED BY <1>1, <1>5, <3>1
  <2> QED BY <2>1
<1>7. ~ (k < l)
  <2>1. ASSUME k < l PROVE FALSE
    <3>1. k + c <= l
      BY <1>1, <1>2, <1>5, <2>1, SameRemainder
    <3>2. m * (k + c) <= m * l
      <4>1. CASE k + c = l
        BY <4>1, <1>5
      <4>2. CASE k + c < l
        <5>1. m * (k + c) + m <= m * l
          BY <1>1, <1>5, <4>2, Multiples
        <5>2. m * (k + c) \in Nat
          BY <1>1, <1>5
        <5> QED BY <1>1, <1>5, <5>1, <5>2
      <4> QED BY <3>1, <1>1, <1>5, <4>1, <4>2
    <3>3. m * (k + c) = m * k + m * c
      BY <1>1, <1>5
    <3> QED BY <1>1, <1>3, <1>5, <3>2, <3>3
  <2> QED BY <2>1
<1> QED BY <1>5, <1>6, <1>7

(* A bucket that counts keeps what is remembered in it when it is written. *)
LEMMA WrittenKeeps ==
    ASSUME GuardAssumption, Guard!TypeOK, NEW e \in Events, NEW x \in Events, NEW t \in 0..guardNow,
           guardNow - t <= EventTtl - Guard!BucketLength,
           HasSince(buckets[SlotAt(t)], e, StartAt(t), t)
    PROVE  HasSince(Guard!Written(SlotAt(t), x), e, StartAt(t), t)
<1> DEFINE s == SlotAt(t)
<1>1. /\ s \in Guard!Slots
      /\ Guard!Active(s)
      /\ Guard!Remembered(buckets[s])[e] = buckets[s].seen[e]
      /\ buckets[s].seen[e] # None
      /\ buckets[s].start = StartAt(t)
      /\ buckets[s].seen[e] >= t
      /\ buckets[s] # None
  <2>1. /\ s \in Guard!Slots
        /\ Guard!Active(s)
        /\ Guard!Remembered(buckets[s])[e] = buckets[s].seen[e]
        /\ buckets[s].seen[e] # None
    BY StillActive
  <2> QED BY <2>1 DEF HasSince
<1>2. s = Guard!CurrentSlot => StartAt(t) = Guard!CurrentStart
  BY SlotIsItsOwn DEF SlotAt, StartAt
<1>3. /\ guardNow \in Int /\ None \notin Int /\ t <= guardNow
      /\ None \notin [start : 0..GuardMaxTime, seen : [Events -> Moments]]
  BY DEF GuardAssumption, Guard!TypeOK, Moments
<1> HIDE DEF s
<1>4. /\ buckets[s] \in [start : 0..GuardMaxTime, seen : [Events -> Moments]]
      /\ Guard!Remembered(buckets[s]) \in [Events -> Moments]
  BY <1>1, RemembersShape
<1>5. CASE s = Guard!CurrentSlot
  <2>1. Guard!CurrentSeen = Guard!Remembered(buckets[s])
    BY <1>1, <1>2, <1>5 DEF Guard!CurrentSeen
  <2>2. Guard!Written(s, x) =
            [start |-> Guard!CurrentStart, seen |-> [Guard!Remembered(buckets[s]) EXCEPT ![x] = guardNow]]
    BY <1>5, <2>1 DEF Guard!Written
  <2>3. Guard!Written(s, x) \in [start : 0..GuardMaxTime, seen : [Events -> Moments]]
    <3>1. guardNow \in Moments
      BY DEF Guard!TypeOK, Moments
    <3> QED BY <2>2, <3>1, <1>4, PresentBucket
  <2>4. Guard!Written(s, x).seen[e] = IF e = x THEN guardNow ELSE buckets[s].seen[e]
    BY <2>2, <1>1, <1>4
  <2> QED BY <1>1, <1>2, <1>3, <1>5, <2>2, <2>3, <2>4 DEF s, HasSince
<1>6. CASE s # Guard!CurrentSlot
  <2>1. Guard!Written(s, x) = [buckets[s] EXCEPT !.seen = Guard!Remembered(buckets[s])]
    BY <1>1, <1>6 DEF Guard!Written, Guard!Swept
  <2>2. Guard!Written(s, x) \in [start : 0..GuardMaxTime, seen : [Events -> Moments]]
    BY <2>1, <1>4
  <2>3. /\ Guard!Written(s, x).start = buckets[s].start
        /\ Guard!Written(s, x).seen = Guard!Remembered(buckets[s])
    BY <2>1, <1>4
  <2> QED BY <1>1, <1>3, <2>2, <2>3 DEF s, HasSince
<1> QED BY <1>5, <1>6

(* What the steps of the webhook guard have in common.                     *)
BucketsStep(e) ==
    /\ buckets' \in [Guard!Slots -> {None} \cup [start : 0..GuardMaxTime, seen : [Events -> Moments]]]
    /\ \A s \in Guard!Slots :
          \/ buckets'[s] = buckets[s]
          \/ buckets'[s] = Guard!Written(s, e)
          \/ ~ Guard!Active(s)
    /\ UNCHANGED <<guardNow, guardSigned, waiting, nonceLog, rateLog, guardAccepted>>

LEMMA BucketsStepTypes ==
    ASSUME GuardAssumption, Guard!TypeOK, SignedInv, NEW e \in Events, BucketsStep(e),
           tookAt' \in [Events -> Moments]
    PROVE  Guard!TypeOK' /\ SignedInv'
<1>1. Guard!TypeOK'
  BY DEF Guard!TypeOK, BucketsStep, Guard!Slots, Guard!BucketCount, Guard!BucketLength, Moments
<1>2. SignedInv'
  BY DEF SignedInv, BucketsStep
<1> QED BY <1>1, <1>2

(* The other events stay where they are.                                   *)
LEMMA BucketsStepKeeps ==
    ASSUME GuardAssumption, Guard!TypeOK, TookInv, NEW e \in Events, BucketsStep(e),
           NEW x \in Events, tookAt[x] # None
    PROVE  LET t == tookAt[x] IN
           /\ t <= guardNow
           /\ \/ guardNow - t > EventTtl - Guard!BucketLength
              \/ HasSince(buckets'[SlotAt(t)], x, StartAt(t), t)
<1> DEFINE t == tookAt[x]
<1>1. t \in 0..guardNow /\ guardNow \in Nat
  <2>1. t \in 0..GuardMaxTime /\ guardNow \in 0..GuardMaxTime /\ GuardMaxTime \in Nat
    BY DEF Guard!TypeOK, GuardAssumption
  <2> QED BY <2>1 DEF TookInv
<1>2. ASSUME ~ (guardNow - t > EventTtl - Guard!BucketLength)
      PROVE  HasSince(buckets'[SlotAt(t)], x, StartAt(t), t)
  <2>1. HasSince(buckets[SlotAt(t)], x, StartAt(t), t)
    BY <1>2 DEF TookInv
  <2>2. guardNow - t <= EventTtl - Guard!BucketLength
    BY <1>1, <1>2, Buckets DEF GuardAssumption
  <2> HIDE DEF t
  <2>3. SlotAt(t) \in Guard!Slots /\ Guard!Active(SlotAt(t))
    BY <1>1, <2>1, <2>2, StillActive
  <2>4. HasSince(Guard!Written(SlotAt(t), e), x, StartAt(t), t)
    BY <1>1, <2>1, <2>2, WrittenKeeps
  <2> QED BY <2>1, <2>3, <2>4 DEF BucketsStep
<1> QED BY <1>1, <1>2

LEMMA TakeStep ==
    ASSUME GuardAssumption, Guard!TypeOK, SignedInv, TookInv, NEW e \in Events, Guard!Take(e)
    PROVE  Guard!TypeOK' /\ SignedInv' /\ TookInv'
<1>1. /\ buckets' = [s \in Guard!Slots |-> Guard!Written(s, e)]
      /\ tookAt' = [tookAt EXCEPT ![e] = guardNow]
      /\ UNCHANGED <<guardNow, guardSigned, waiting, nonceLog, rateLog, guardAccepted>>
  BY DEF Guard!Take, Guard!admin
<1>2. BucketsStep(e)
  BY <1>1, WrittenShape DEF BucketsStep
<1>3. /\ tookAt \in [Events -> Moments] /\ guardNow \in Moments
      /\ guardNow \in Nat /\ None \notin Int
  BY DEF Guard!TypeOK, Moments, GuardAssumption
<1>4. tookAt' \in [Events -> Moments]
  BY <1>1, <1>3
<1>5. /\ tookAt'[e] = guardNow
      /\ \A x \in Events : x # e => tookAt'[x] = tookAt[x]
  BY <1>1, <1>3
<1>6. HasSince(buckets'[SlotAt(guardNow)], e, StartAt(guardNow), guardNow)
  <2>1. SlotAt(guardNow) = Guard!CurrentSlot /\ StartAt(guardNow) = Guard!CurrentStart
    BY DEF SlotAt, StartAt, Guard!CurrentSlot, Guard!CurrentStart
  <2>2. buckets'[Guard!CurrentSlot] =
            [start |-> Guard!CurrentStart, seen |-> [Guard!CurrentSeen EXCEPT ![e] = guardNow]]
    BY <1>1, PresentBucket DEF Guard!Written
  <2>3. buckets'[Guard!CurrentSlot] \in {None} \cup [start : 0..GuardMaxTime, seen : [Events -> Moments]]
    BY <1>2, PresentBucket DEF BucketsStep
  <2>4. Guard!CurrentSeen \in [Events -> Moments]
    <3>1. Guard!Empty \in [Events -> Moments]
      BY DEF Guard!Empty, Moments
    <3> QED BY <3>1, PresentBucket, RemembersShape DEF Guard!CurrentSeen, Guard!Active
  <2>5. buckets'[Guard!CurrentSlot] \in [start : 0..GuardMaxTime, seen : [Events -> Moments]]
    BY <2>2, <2>4, <1>3, PresentBucket
  <2>6. buckets'[Guard!CurrentSlot] # None
    BY <2>5 DEF GuardAssumption, Moments
  <2>7. buckets'[Guard!CurrentSlot].seen[e] = guardNow
    BY <2>2, <2>4
  <2> QED BY <2>1, <2>2, <2>6, <2>7, <1>3 DEF HasSince
<1>7. TookInv'
  <2> SUFFICES ASSUME NEW x \in Events, tookAt'[x] # None
               PROVE  /\ tookAt'[x] <= guardNow'
                      /\ \/ guardNow' - tookAt'[x] > EventTtl - Guard!BucketLength
                         \/ HasSince(buckets'[SlotAt(tookAt'[x])], x, StartAt(tookAt'[x]), tookAt'[x])
    BY DEF TookInv, SlotAt, StartAt, HasSince, Guard!BucketLength, Guard!BucketCount
  <2>1. CASE x = e
    BY <2>1, <1>1, <1>3, <1>5, <1>6
  <2>2. CASE x # e
    BY <2>2, <1>1, <1>2, <1>5, BucketsStepKeeps
  <2> QED BY <2>1, <2>2
<1> QED BY <1>2, <1>4, <1>7, BucketsStepTypes DEF Moments

LEMMA QuietBucketsStep ==
    ASSUME GuardAssumption, Guard!TypeOK, SignedInv, TookInv, NEW e \in Events, BucketsStep(e), UNCHANGED tookAt
    PROVE  Guard!TypeOK' /\ SignedInv' /\ TookInv'
<1>1. tookAt' \in [Events -> Moments] /\ guardNow' = guardNow
  BY DEF Guard!TypeOK, Moments, BucketsStep
<1>2. TookInv'
  <2> SUFFICES ASSUME NEW x \in Events, tookAt[x] # None
               PROVE  /\ tookAt[x] <= guardNow
                      /\ \/ guardNow - tookAt[x] > EventTtl - Guard!BucketLength
                         \/ HasSince(buckets'[SlotAt(tookAt[x])], x, StartAt(tookAt[x]), tookAt[x])
    BY <1>1 DEF TookInv, SlotAt, StartAt, HasSince, Guard!BucketLength, Guard!BucketCount
  <2> QED BY BucketsStepKeeps
<1> QED BY <1>1, <1>2, BucketsStepTypes

LEMMA RefuseDuplicateStep ==
    ASSUME GuardAssumption, Guard!TypeOK, NEW e \in Events, Guard!RefuseDuplicate(e)
    PROVE  BucketsStep(e) /\ UNCHANGED tookAt
<1>1. PICK s \in Guard!Slots :
          /\ buckets' = [t \in Guard!Slots |-> IF t < s /\ ~ Guard!Active(t) THEN None ELSE buckets[t]]
          /\ UNCHANGED <<guardNow, guardSigned, waiting, nonceLog, rateLog, guardAccepted, tookAt>>
  BY DEF Guard!RefuseDuplicate, Guard!admin
<1>2. buckets \in [Guard!Slots -> {None} \cup [start : 0..GuardMaxTime, seen : [Events -> Moments]]]
  BY DEF Guard!TypeOK, Moments
<1> QED BY <1>1, <1>2 DEF BucketsStep

LEMMA StopsBetweenSlotsStep ==
    ASSUME GuardAssumption, Guard!TypeOK, NEW e \in Events, Guard!StopsBetweenSlots(e)
    PROVE  BucketsStep(e) /\ UNCHANGED tookAt
<1>1. PICK done \in SUBSET Guard!Slots :
          buckets' = [s \in Guard!Slots |->
                         IF ~ Guard!Active(s) /\ s \notin done THEN None
                         ELSE IF s \in done /\ (Guard!Active(s) \/ s = Guard!CurrentSlot)
                              THEN Guard!Written(s, e)
                              ELSE buckets[s]]
  BY DEF Guard!StopsBetweenSlots
<1>2. UNCHANGED <<guardNow, guardSigned, waiting, nonceLog, rateLog, guardAccepted, tookAt>>
  BY DEF Guard!StopsBetweenSlots, Guard!admin
<1>3. buckets \in [Guard!Slots -> {None} \cup [start : 0..GuardMaxTime, seen : [Events -> Moments]]]
  BY DEF Guard!TypeOK, Moments
<1> QED BY <1>1, <1>2, <1>3, WrittenShape DEF BucketsStep

LEMMA GuardTick ==
    ASSUME GuardAssumption, GuardInv, Guard!Tick
    PROVE  GuardInv'
<1>1. /\ guardNow \in 0..GuardMaxTime /\ GuardMaxTime \in Nat /\ guardNow' = guardNow + 1 /\ guardNow' \in 0..GuardMaxTime
      /\ UNCHANGED <<guardSigned, waiting, nonceLog, rateLog, guardAccepted, buckets, tookAt>>
  BY DEF GuardAssumption, GuardInv, Guard!TypeOK, Guard!Tick, Guard!admin, Guard!webhook
<1>2. /\ tookAt \in [Events -> 0..GuardMaxTime \cup {None}]
      /\ guardSigned \in [Nonces -> -MaxSkew..GuardMaxTime + MaxSkew \cup {None}]
      /\ MaxSkew \in Nat /\ None \notin Int /\ EventTtl \in Nat
  BY DEF GuardAssumption, GuardInv, Guard!TypeOK
<1>3. Guard!TypeOK'
  BY <1>1 DEF GuardInv, Guard!TypeOK, Guard!Slots, Guard!BucketCount, Guard!BucketLength
<1>4. SignedInv'
  BY <1>1, <1>2 DEF GuardInv, SignedInv
<1>5. TookInv'
  <2>1. Guard!BucketLength \in Nat
    BY Buckets
  <2> SUFFICES ASSUME NEW x \in Events, tookAt'[x] # None
               PROVE  /\ tookAt'[x] <= guardNow'
                      /\ \/ guardNow' - tookAt'[x] > EventTtl - Guard!BucketLength
                         \/ HasSince(buckets'[SlotAt(tookAt'[x])], x, StartAt(tookAt'[x]), tookAt'[x])
    BY DEF TookInv, SlotAt, StartAt, HasSince, Guard!BucketLength, Guard!BucketCount
  <2>2. tookAt[x] \in Int /\ tookAt[x] # None
    BY <1>1, <1>2
  <2>3. /\ tookAt[x] <= guardNow
        /\ \/ guardNow - tookAt[x] > EventTtl - Guard!BucketLength
           \/ HasSince(buckets[SlotAt(tookAt[x])], x, StartAt(tookAt[x]), tookAt[x])
    BY <2>2 DEF GuardInv, TookInv
  <2> QED BY <1>1, <1>2, <2>1, <2>2, <2>3
<1> QED BY <1>3, <1>4, <1>5 DEF GuardInv

LEMMA GuardStep ==
    ASSUME GuardAssumption, GuardInv, [Guard!Next]_(Guard!vars)
    PROVE  GuardInv'
<1>1. Guard!TypeOK /\ SignedInv /\ TookInv
  BY DEF GuardInv
<1>2. ASSUME UNCHANGED <<guardNow, buckets, tookAt>>
      PROVE  TookInv'
  BY <1>1, <1>2 DEF TookInv, SlotAt, StartAt, HasSince, Guard!BucketLength, Guard!BucketCount
<1>3. CASE UNCHANGED Guard!vars
  <2>1. Guard!TypeOK' /\ SignedInv'
    BY <1>1, <1>3 DEF Guard!vars, Guard!admin, Guard!webhook, Guard!TypeOK, SignedInv,
                      Guard!Slots, Guard!BucketCount, Guard!BucketLength
  <2> QED BY <2>1, <1>2, <1>3 DEF GuardInv, Guard!vars, Guard!admin, Guard!webhook
<1>4. ASSUME NEW n \in Nonces, Guard!Sign(n)
      PROVE  GuardInv'
  BY <1>1, <1>2, <1>4, SignStep DEF GuardInv, Guard!Sign, Guard!webhook
<1>5. ASSUME NEW n \in Nonces, NEW ip \in Ips,
             Guard!Verify(n, ip) \/ Guard!Refuse(n, ip) \/ Guard!Accept(n, ip) \/ Guard!StopsAfterHit(n, ip)
      PROVE  GuardInv'
  <2>1. TookInv'
    BY <1>2, <1>5 DEF Guard!Verify, Guard!Refuse, Guard!Accept, Guard!StopsAfterHit, Guard!webhook
  <2>2. Guard!TypeOK' /\ SignedInv'
    BY <1>1, <1>5, VerifyStep, AcceptStep, StopsAfterHitStep
  <2> QED BY <2>1, <2>2 DEF GuardInv
<1>6. ASSUME NEW e \in Events, Guard!Take(e) \/ Guard!RefuseDuplicate(e) \/ Guard!StopsBetweenSlots(e)
      PROVE  GuardInv'
  BY <1>1, <1>6, TakeStep, QuietBucketsStep, RefuseDuplicateStep, StopsBetweenSlotsStep DEF GuardInv
<1>7. CASE Guard!Tick
  BY <1>7, GuardTick
<1> QED BY <1>3, <1>4, <1>5, <1>6, <1>7 DEF Guard!Next

(* An event whose time is not nearly over is a duplicate.                  *)
LEMMA TakesLateEnough ==
    ASSUME GuardAssumption, GuardInv
    PROVE  Guard!TakesLate
<1> SUFFICES ASSUME NEW e \in Events, Guard!Take(e), tookAt[e] # None
             PROVE  guardNow - tookAt[e] > EventTtl - Guard!BucketLength
  BY DEF Guard!TakesLate
<1> DEFINE t == tookAt[e]
<1>1. Guard!TypeOK /\ t \in 0..guardNow /\ guardNow \in Nat
  <2>1. t \in 0..GuardMaxTime /\ guardNow \in 0..GuardMaxTime /\ GuardMaxTime \in Nat
    BY DEF GuardInv, Guard!TypeOK, GuardAssumption
  <2> QED BY <2>1 DEF GuardInv, TookInv
<1>2. SUFFICES ASSUME ~ (guardNow - t > EventTtl - Guard!BucketLength)
               PROVE  Guard!Duplicate(e)
  BY DEF Guard!Take
<1>3. HasSince(buckets[SlotAt(t)], e, StartAt(t), t)
  BY <1>2 DEF GuardInv, TookInv
<1>4. guardNow - t <= EventTtl - Guard!BucketLength
  BY <1>1, <1>2, Buckets DEF GuardAssumption
<1> HIDE DEF t
<1>5. /\ SlotAt(t) \in Guard!Slots
      /\ Guard!Active(SlotAt(t))
      /\ Guard!Remembered(buckets[SlotAt(t)])[e] # None
  BY <1>1, <1>3, <1>4, StillActive
<1> QED BY <1>5 DEF Guard!Duplicate

(* A signed admin request is let through at most once, however late and    *)
(* from wherever it is presented, and whatever write is cut short          *)
(* (enforceIntelAdminGuard).                                               *)
THEOREM GuardAcceptsOnce ==
    ASSUME GuardAssumption
    PROVE  Guard!Spec => []Guard!AcceptedOnce
<1>1. GuardInv => Guard!AcceptedOnce
  BY DEF GuardInv, SignedInv, Guard!AcceptedOnce
<1> QED BY <1>1, GuardInit, GuardStep, PTL DEF Guard!Spec

(* A webhook event is let through a second time only after its time, less  *)
(* the length of a bucket (enforceWebhookDedupe).                          *)
THEOREM GuardTakesLate ==
    ASSUME GuardAssumption
    PROVE  Guard!Spec => Guard!TakenAgainLate
<1> QED BY GuardInit, GuardStep, TakesLateEnough, PTL DEF Guard!Spec, Guard!TakenAgainLate

-----------------------------------------------------------------------------
(***************************************************************************)
(* CollectorControl.                                                       *)
(***************************************************************************)
Control == INSTANCE CollectorControl WITH
    now <- controlNow, stored <- controlStored, status <- controlStatus,
    overlapped <- controlOverlapped, MaxTime <- ControlMaxTime,
    MaxVersion <- ControlMaxVersion, MaxDeploys <- ControlMaxDeploys,
    NonceTtl <- ControlNonceTtl, Window <- ControlWindow,
    Limit <- ControlLimit, Stale <- ControlStale

(* The states a container pushes, and the signed requests.                 *)
Pushed == [config : Control!Config, version : 0..ControlMaxVersion, at : 0..ControlMaxTime]
Signable == [kind : Control!Kind, nonce : 1..MaxSent, ts : 0..ControlMaxTime + Skew, payload : Pushed \cup {None}]

(* Again a nonce is remembered over the whole skew (control-auth.ts and    *)
(* index.ts: ten minutes, and five).                                       *)
ControlAssumption ==
    /\ ControlMaxTime \in Nat /\ ControlMaxVersion \in Nat /\ MaxSent \in Nat /\ Skew \in Nat /\ ControlNonceTtl \in Nat
    /\ ControlLimit \in Nat /\ ControlWindow \in Nat \ {0} /\ ControlMaxDeploys \in Nat \ {0}
    /\ 2 * Skew <= ControlNonceTtl
    /\ None \notin Int
    /\ None \notin Pushed

Under == wire \cup guarded

ControlTypes ==
    /\ Control!TypeOK
    /\ container \in [Control!Config -> [running : BOOLEAN, version : 0..ControlMaxVersion, timer : BOOLEAN]]
    /\ controlStored \in Pushed \cup {None}
    /\ Under \subseteq Signable
    /\ controlStatus \in {Control!Idle, [at |-> "asking"]} \cup [at : {"fetched"}, payload : Pushed]
    /\ \A q \in Under : q.nonce <= sent /\ (q.kind = "update" => q.payload # None)
    /\ \A p, q \in Under : p.nonce = q.nonce => p = q

(* A request that took effect, or that the guard let through, is in the    *)
(* nonce log, or its time is over.                                         *)
Spent(q, uses, t) ==
    \/ t > q.ts + Skew
    \/ uses[q.kind][q.nonce] # None /\ uses[q.kind][q.nonce] >= q.ts - Skew

EffectInv ==
    /\ ~ twice
    /\ \A q \in guarded : q.nonce \notin applied
    /\ \A q \in Under : (q \in guarded \/ q.nonce \in applied) => Spent(q, nonces, controlNow)

(* A state is of a configuration there has been, and no newer than its     *)
(* container.                                                              *)
NotAhead(x, fleet, d) ==
    /\ x.config <= d
    /\ fleet[x.config].running => x.version <= fleet[x.config].version

FleetInv ==
    /\ container[deployed].running
    /\ \A c \in Control!Config : container[c].timer => container[c].running
    /\ \A c \in Control!Config : c > deployed => ~ container[c].running
    /\ controlStored # None => NotAhead(controlStored, container, deployed)
    /\ \A q \in Under : q.kind = "update" => NotAhead(q.payload, container, deployed)
    /\ controlStatus.at = "fetched" => NotAhead(controlStatus.payload, container, deployed)

(* Until two writers overlap there is one at most, and what it is going to *)
(* write is no older than what is stored.                                  *)
NoOlder(x, kept) == kept # None /\ kept.config = x.config => kept.version <= x.version

AloneInv ==
    ~ controlOverlapped =>
        /\ \A p, q \in Under : p = q
        /\ controlStatus.at = "fetched" => Under = {} /\ NoOlder(controlStatus.payload, controlStored)
        /\ \A q \in Under : q.kind = "update" => NoOlder(q.payload, controlStored)

ControlInv == ControlTypes /\ EffectInv /\ FleetInv /\ AloneInv

LEMMA ControlInit == ControlAssumption /\ Control!Init => ControlInv
<1> SUFFICES ASSUME ControlAssumption, Control!Init PROVE ControlInv
  OBVIOUS
<1>1. /\ controlNow = 0 /\ deployed = 1 /\ sent = 0
      /\ container = [c \in Control!Config |-> [running |-> c = 1, version |-> 0, timer |-> FALSE]]
      /\ wire = {} /\ guarded = {} /\ controlStored = None
      /\ nonces = [k \in Control!Kind |-> [n \in 1..MaxSent |-> None]]
      /\ hits = [k \in Control!Kind |-> [window |-> 0, count |-> 0]]
      /\ controlStatus = Control!Idle
      /\ applied = {} /\ twice = FALSE /\ controlOverlapped = FALSE
  BY DEF Control!Init
<1>2. 1 \in Control!Config /\ Under = {}
  BY <1>1 DEF ControlAssumption, Control!Config, Under
<1>3. ControlTypes
  <2>1. Control!TypeOK
    BY <1>1, <1>2 DEF ControlAssumption, Control!TypeOK
  <2>2. container \in [Control!Config -> [running : BOOLEAN, version : 0..ControlMaxVersion, timer : BOOLEAN]]
    BY <1>1 DEF ControlAssumption
  <2> QED BY <1>1, <1>2, <2>1, <2>2 DEF ControlTypes
<1>4. EffectInv
  BY <1>1, <1>2 DEF EffectInv
<1>5. FleetInv
  <2>1. container[1] = [running |-> TRUE, version |-> 0, timer |-> FALSE]
    BY <1>1, <1>2
  <2>2. \A c \in Control!Config : c # 1 => container[c] = [running |-> FALSE, version |-> 0, timer |-> FALSE]
    BY <1>1
  <2>3. \A c \in Control!Config : c > 1 => c # 1
    BY DEF Control!Config
  <2>4. \A c \in Control!Config : ~ container[c].timer /\ (c > 1 => ~ container[c].running)
    BY <2>1, <2>2, <2>3
  <2> QED BY <1>1, <1>2, <2>1, <2>4 DEF FleetInv, Control!Idle
<1>6. AloneInv
  BY <1>1, <1>2 DEF AloneInv, Control!Idle
<1> QED BY <1>3, <1>4, <1>5, <1>6 DEF ControlInv

(* The container's steps.                                                  *)
LEMMA ChangeStep ==
    ASSUME ControlAssumption, ControlInv, Control!Change
    PROVE  ControlInv'
<1>1. PICK c \in Control!Config :
          /\ container[c].running /\ container[c].version < ControlMaxVersion
          /\ container' = [container EXCEPT ![c].version = @ + 1, ![c].timer = TRUE]
  BY DEF Control!Change
<1>2. UNCHANGED <<controlNow, deployed, sent, wire, guarded, controlStored, nonces, hits, controlStatus, applied, twice, controlOverlapped, Under>>
  BY DEF Control!Change, Control!guard, Control!history, Under
<1>3. container \in [Control!Config -> [running : BOOLEAN, version : 0..ControlMaxVersion, timer : BOOLEAN]]
  BY DEF ControlInv, ControlTypes
<1>4. /\ container' \in [Control!Config -> [running : BOOLEAN, version : 0..ControlMaxVersion, timer : BOOLEAN]]
      /\ \A d \in Control!Config :
            /\ container'[d].running = container[d].running
            /\ container'[d].version >= container[d].version
            /\ container'[d].timer => container[d].timer \/ d = c
  <2> DEFINE old == container[c]
             v == old.version + 1
             mid == [old EXCEPT !.version = v]
             new == [mid EXCEPT !.timer = TRUE]
  <2>1. container' = [container EXCEPT ![c] = new]
    BY <1>1, <1>3
  <2>2. /\ new \in [running : BOOLEAN, version : 0..ControlMaxVersion, timer : BOOLEAN]
        /\ new.running = container[c].running
        /\ new.version >= container[c].version
    <3>1. old \in [running : BOOLEAN, version : 0..ControlMaxVersion, timer : BOOLEAN]
      BY <1>3
    <3>2. v \in 0..ControlMaxVersion /\ v >= old.version
      BY <3>1, <1>1 DEF ControlAssumption
    <3> HIDE DEF old, v
    <3>3. /\ mid \in [running : BOOLEAN, version : 0..ControlMaxVersion, timer : BOOLEAN]
          /\ mid.running = old.running /\ mid.version = v
      BY <3>1, <3>2
    <3> HIDE DEF mid
    <3>4. /\ new \in [running : BOOLEAN, version : 0..ControlMaxVersion, timer : BOOLEAN]
          /\ new.running = mid.running /\ new.version = mid.version
      BY <3>3
    <3> QED BY <3>2, <3>3, <3>4 DEF old
  <2>3. \A d \in Control!Config : container[d].version >= container[d].version
    BY <1>3 DEF ControlAssumption
  <2> HIDE DEF new
  <2>4. \A d \in Control!Config : container'[d] = IF d = c THEN new ELSE container[d]
    BY <1>3, <2>1
  <2> QED BY <1>3, <2>1, <2>2, <2>3, <2>4
<1>5. ControlTypes'
  BY <1>2, <1>4 DEF ControlInv, ControlTypes, Control!TypeOK
<1>6. EffectInv' /\ AloneInv'
  BY <1>2 DEF ControlInv, EffectInv, AloneInv, Spent, NoOlder
<1>7. FleetInv'
  <2>1. ASSUME NEW x \in Pushed, NotAhead(x, container, deployed)
        PROVE  NotAhead(x, container', deployed)
    <3>1. x.config \in Control!Config /\ x.version \in Int
      BY DEF Pushed, ControlAssumption
    <3> QED BY <2>1, <3>1, <1>3, <1>4 DEF NotAhead, ControlAssumption
  <2>2. /\ controlStored # None => controlStored \in Pushed
        /\ \A q \in Under : q.kind = "update" => q.payload \in Pushed
        /\ controlStatus.at = "fetched" => controlStatus.payload \in Pushed
    BY DEF ControlInv, ControlTypes, Signable, Control!Idle
  <2>3. deployed \in Control!Config
    BY DEF ControlInv, ControlTypes, Control!TypeOK
  <2> QED BY <1>1, <1>2, <1>4, <2>1, <2>2, <2>3 DEF ControlInv, FleetInv
<1> QED BY <1>5, <1>6, <1>7 DEF ControlInv

(* What the container does leaves the order of states.                     *)
LEMMA FleetKept ==
    ASSUME ControlAssumption, ControlInv,
           NEW fleet \in [Control!Config -> [running : BOOLEAN, version : 0..ControlMaxVersion, timer : BOOLEAN]],
           \A d \in Control!Config : fleet[d].running = container[d].running /\ fleet[d].version = container[d].version,
           NEW x \in Pushed, NotAhead(x, container, deployed)
    PROVE  NotAhead(x, fleet, deployed)
BY DEF NotAhead, Pushed

(* A request is signed when none is under way, or two overlap.             *)
LEMMA SignedStep ==
    ASSUME ControlAssumption, ControlInv, NEW kind \in Control!Kind, NEW payload \in Pushed \cup {None},
           Control!Signed(kind, payload),
           container' \in [Control!Config -> [running : BOOLEAN, version : 0..ControlMaxVersion, timer : BOOLEAN]],
           \A d \in Control!Config : /\ container'[d].running = container[d].running
                                     /\ container'[d].version = container[d].version
                                     /\ container'[d].timer => container[d].timer,
           kind = "update" => /\ payload # None
                              /\ NotAhead(payload, container, deployed)
                              /\ NoOlder(payload, controlStored),
           UNCHANGED <<controlNow, deployed, guarded, controlStored, nonces, hits, controlStatus, applied, twice>>
    PROVE  ControlInv'
<1>1. PICK ts \in {controlNow, controlNow + Skew} :
          wire' = wire \cup {[kind |-> kind, nonce |-> sent + 1, ts |-> ts, payload |-> payload]}
  BY DEF Control!Signed
<1> DEFINE new == [kind |-> kind, nonce |-> sent + 1, ts |-> ts, payload |-> payload]
<1>2. /\ sent < MaxSent /\ sent' = sent + 1
      /\ controlOverlapped' = (controlOverlapped \/ Control!Underway)
  BY DEF Control!Signed
<1>3. /\ controlNow \in 0..ControlMaxTime /\ sent \in 0..MaxSent /\ deployed \in Control!Config
      /\ ControlMaxTime \in Nat /\ MaxSent \in Nat /\ Skew \in Nat
      /\ Under \subseteq Signable
      /\ applied \subseteq 1..sent
  BY DEF ControlInv, ControlTypes, Control!TypeOK, ControlAssumption
<1>4. /\ new \in Signable
      /\ new.kind = kind /\ new.nonce = sent + 1 /\ new.payload = payload
  BY <1>1, <1>2, <1>3 DEF Signable
<1> HIDE DEF new
<1>5. Under' = Under \cup {new}
  BY <1>1 DEF Under, new
<1>6. \A q \in Under : q.nonce <= sent /\ q.nonce \in Int
  BY <1>3 DEF ControlInv, ControlTypes, Signable
<1>7. ControlTypes'
  <2>1. \A p, q \in Under' : p.nonce = q.nonce => p = q
    <3>1. \A q \in Under : q.nonce # new.nonce
      BY <1>3, <1>4, <1>6
    <3> QED BY <1>5, <3>1 DEF ControlInv, ControlTypes
  <2>2. \A q \in Under' : q.nonce <= sent' /\ (q.kind = "update" => q.payload # None)
    BY <1>2, <1>3, <1>4, <1>5, <1>6 DEF ControlInv, ControlTypes
  <2>3. Control!TypeOK'
    <3>1. \A q \in (wire \cup guarded)' : q.kind \in Control!Kind /\ q.nonce \in 1..sent'
      <4>1. \A q \in Under : q.kind \in Control!Kind /\ q.nonce \in 1..sent
        BY DEF ControlInv, ControlTypes, Control!TypeOK, Under
      <4> QED BY <1>2, <1>3, <1>4, <1>5, <4>1 DEF Under
    <3>2. sent' \in 0..MaxSent /\ applied' \subseteq 1..sent'
      BY <1>2, <1>3
    <3> QED BY <3>1, <3>2 DEF ControlInv, ControlTypes, Control!TypeOK
  <2>4. Under' \subseteq Signable
    BY <1>3, <1>4, <1>5
  <2>5. controlStored' \in Pushed \cup {None}
        /\ controlStatus' \in {Control!Idle, [at |-> "asking"]} \cup [at : {"fetched"}, payload : Pushed]
    BY DEF ControlInv, ControlTypes
  <2> QED BY <2>1, <2>2, <2>3, <2>4, <2>5 DEF ControlTypes
<1>8. EffectInv'
  <2>1. new.nonce \notin applied
    BY <1>3, <1>4
  <2>2. ASSUME NEW q \in Under', q \in guarded' \/ q.nonce \in applied'
        PROVE  Spent(q, nonces', controlNow')
    <3>1. CASE q \in Under
      BY <2>2, <3>1 DEF ControlInv, EffectInv
    <3>2. CASE q = new /\ q \notin Under
      BY <2>1, <2>2, <3>2 DEF Under
    <3> QED BY <1>5, <3>1, <3>2
  <2> QED BY <2>2 DEF ControlInv, EffectInv, Spent
<1>9. FleetInv'
  <2>1. /\ controlStored # None => controlStored \in Pushed
        /\ \A q \in Under : q.kind = "update" => q.payload \in Pushed
        /\ controlStatus.at = "fetched" => controlStatus.payload \in Pushed
    BY DEF ControlInv, ControlTypes, Signable, Control!Idle
  <2>2. controlStored' # None => NotAhead(controlStored', container', deployed')
    BY <2>1, FleetKept DEF ControlInv, FleetInv
  <2>3. controlStatus'.at = "fetched" => NotAhead(controlStatus'.payload, container', deployed')
    BY <2>1, FleetKept DEF ControlInv, FleetInv
  <2>4. ASSUME NEW q \in Under', q.kind = "update"
        PROVE  NotAhead(q.payload, container', deployed')
    <3>1. CASE q \in Under
      BY <2>1, <2>4, <3>1, FleetKept DEF ControlInv, FleetInv
    <3>2. CASE q = new
      BY <2>4, <3>2, <1>4, FleetKept
    <3> QED BY <1>5, <3>1, <3>2
  <2>5. /\ container'[deployed'].running
        /\ \A c \in Control!Config : container'[c].timer => container'[c].running
        /\ \A c \in Control!Config : c > deployed' => ~ container'[c].running
    BY <1>3 DEF ControlInv, FleetInv
  <2> QED BY <2>2, <2>3, <2>4, <2>5 DEF FleetInv, NotAhead
<1>10. AloneInv'
  <2> SUFFICES ASSUME ~ controlOverlapped'
               PROVE  /\ \A p, q \in Under' : p = q
                      /\ controlStatus'.at = "fetched" => Under' = {} /\ NoOlder(controlStatus'.payload, controlStored')
                      /\ \A q \in Under' : q.kind = "update" => NoOlder(q.payload, controlStored')
    BY DEF AloneInv, NoOlder
  <2>1. Under = {} /\ controlStatus.at # "fetched"
    BY <1>2 DEF Control!Underway, Under
  <2>2. Under' = {new}
    BY <1>5, <2>1
  <2> QED BY <1>4, <2>1, <2>2
<1> QED BY <1>7, <1>8, <1>9, <1>10 DEF ControlInv

LEMMA PushStep ==
    ASSUME ControlAssumption, ControlInv, Control!Push \/ Control!AskReset
    PROVE  ControlInv'
<1>1. /\ container \in [Control!Config -> [running : BOOLEAN, version : 0..ControlMaxVersion, timer : BOOLEAN]]
      /\ controlNow \in 0..ControlMaxTime /\ deployed \in Control!Config
  BY DEF ControlInv, ControlTypes, Control!TypeOK
<1>2. CASE Control!AskReset
  <2>1. /\ Control!Signed("reset", None)
        /\ UNCHANGED <<controlNow, deployed, container, guarded, controlStored, nonces, hits, controlStatus, applied, twice>>
    BY <1>2 DEF Control!AskReset, Control!guard
  <2> QED BY <1>1, <2>1, SignedStep DEF Control!Kind
<1>3. CASE Control!Push
  <2>1. PICK c \in Control!Config :
            /\ container[c].timer
            /\ container' = [container EXCEPT ![c].timer = FALSE]
            /\ Control!Signed("update", Control!Payload(c))
            /\ UNCHANGED <<controlNow, deployed, guarded, controlStored, nonces, hits, controlStatus, applied, twice>>
    BY <1>3 DEF Control!Push, Control!guard
  <2>2. /\ container' \in [Control!Config -> [running : BOOLEAN, version : 0..ControlMaxVersion, timer : BOOLEAN]]
        /\ \A d \in Control!Config : /\ container'[d].running = container[d].running
                                     /\ container'[d].version = container[d].version
                                     /\ container'[d].timer => container[d].timer
    <3> DEFINE new == [container[c] EXCEPT !.timer = FALSE]
    <3>1. container' = [container EXCEPT ![c] = new]
      BY <1>1, <2>1
    <3>2. /\ new \in [running : BOOLEAN, version : 0..ControlMaxVersion, timer : BOOLEAN]
          /\ new.running = container[c].running /\ new.version = container[c].version
          /\ ~ new.timer
      BY <1>1
    <3> HIDE DEF new
    <3>3. \A d \in Control!Config : container'[d] = IF d = c THEN new ELSE container[d]
      BY <1>1, <3>1
    <3> QED BY <1>1, <3>1, <3>2, <3>3
  <2>3. container[c].running /\ c <= deployed
    BY <1>1, <2>1 DEF ControlInv, FleetInv, Control!Config, ControlAssumption
  <2> DEFINE p == Control!Payload(c)
  <2>4. p \in Pushed /\ p.config = c /\ p.version = container[c].version
    BY <1>1 DEF Control!Payload, Pushed
  <2> HIDE DEF p
  <2>5. p # None
    BY <2>4 DEF ControlAssumption
  <2>6. NotAhead(p, container, deployed)
    BY <1>1, <2>3, <2>4 DEF NotAhead
  <2>7. NoOlder(p, controlStored)
    BY <2>3, <2>4 DEF NoOlder, NotAhead, ControlInv, FleetInv
  <2>8. Control!Signed("update", p)
    BY <2>1 DEF p
  <2> QED BY <2>1, <2>2, <2>4, <2>5, <2>6, <2>7, <2>8, SignedStep DEF Control!Kind
<1> QED BY <1>2, <1>3

LEMMA DeployStep ==
    ASSUME ControlAssumption, ControlInv, Control!Deploy \/ Control!Sleeps
    PROVE  ControlInv'
<1>1. /\ container \in [Control!Config -> [running : BOOLEAN, version : 0..ControlMaxVersion, timer : BOOLEAN]]
      /\ deployed \in Control!Config /\ deployed \in Int /\ ControlMaxDeploys \in Int
      /\ Control!Config = 1..ControlMaxDeploys
  BY DEF ControlInv, ControlTypes, Control!TypeOK, Control!Config, ControlAssumption
<1>2. UNCHANGED <<controlNow, sent, wire, guarded, controlStored, nonces, hits, controlStatus, applied, twice, controlOverlapped, Under>>
  BY DEF Control!Deploy, Control!Sleeps, Control!guard, Control!history, Under
<1>3. /\ container' \in [Control!Config -> [running : BOOLEAN, version : 0..ControlMaxVersion, timer : BOOLEAN]]
      /\ deployed' \in Control!Config /\ deployed' >= deployed
      /\ container'[deployed'].running
      /\ \A c \in Control!Config : /\ container'[c].timer => container'[c].running
                                   /\ c > deployed' => ~ container'[c].running
      /\ \A c \in Control!Config : c <= deployed /\ container'[c].running => container'[c] = container[c]
  <2>1. CASE Control!Deploy
    <3> DEFINE d == deployed + 1
               new == [container[d] EXCEPT !.running = TRUE]
    <3>1. d \in Control!Config /\ deployed' = d
      BY <1>1, <2>1 DEF Control!Deploy
    <3>2. container' = [container EXCEPT ![d] = new]
      BY <1>1, <2>1, <3>1 DEF Control!Deploy
    <3>3. /\ new \in [running : BOOLEAN, version : 0..ControlMaxVersion, timer : BOOLEAN]
          /\ new.running
      BY <1>1, <3>1
    <3> HIDE DEF new
    <3>4. \A c \in Control!Config : container'[c] = IF c = d THEN new ELSE container[c]
      BY <1>1, <3>2
    <3>5. \A c \in Control!Config : (c > d => c # d /\ c > deployed) /\ (c <= deployed => c # d)
      BY <1>1
    <3> HIDE DEF d
    <3>6. \A c \in Control!Config : /\ container[c].timer => container[c].running
                                    /\ c > deployed => ~ container[c].running
      BY DEF ControlInv, FleetInv
    <3>7. container' \in [Control!Config -> [running : BOOLEAN, version : 0..ControlMaxVersion, timer : BOOLEAN]]
      BY <1>1, <3>2, <3>3
    <3>8. deployed' >= deployed
      BY <1>1, <3>1 DEF d
    <3> QED BY <3>1, <3>3, <3>4, <3>5, <3>6, <3>7, <3>8
  <2>2. CASE Control!Sleeps
    <3>1. PICK c \in Control!Config \ {deployed} :
              container' = [container EXCEPT ![c] = [running |-> FALSE, version |-> 0, timer |-> FALSE]]
      BY <2>2 DEF Control!Sleeps
    <3> DEFINE new == [running |-> FALSE, version |-> 0, timer |-> FALSE]
    <3>2. /\ new \in [running : BOOLEAN, version : 0..ControlMaxVersion, timer : BOOLEAN]
          /\ ~ new.running /\ ~ new.timer
      BY DEF ControlAssumption
    <3> HIDE DEF new
    <3>3. container' = [container EXCEPT ![c] = new]
      BY <3>1 DEF new
    <3>4. deployed' = deployed
      BY <2>2 DEF Control!Sleeps
    <3>5. \A d \in Control!Config : container'[d] = IF d = c THEN new ELSE container[d]
      BY <1>1, <3>3
    <3>6. container' \in [Control!Config -> [running : BOOLEAN, version : 0..ControlMaxVersion, timer : BOOLEAN]]
      BY <1>1, <3>2, <3>3
    <3>7. /\ container[deployed].running
          /\ \A d \in Control!Config : /\ container[d].timer => container[d].running
                                       /\ d > deployed => ~ container[d].running
      BY DEF ControlInv, FleetInv
    <3> QED BY <1>1, <3>1, <3>2, <3>4, <3>5, <3>6, <3>7
  <2> QED BY <2>1, <2>2
<1>4. ControlTypes'
  BY <1>2, <1>3 DEF ControlInv, ControlTypes, Control!TypeOK
<1>5. EffectInv' /\ AloneInv'
  BY <1>2 DEF ControlInv, EffectInv, AloneInv, Spent, NoOlder
<1>6. FleetInv'
  <2>1. ASSUME NEW x \in Pushed, NotAhead(x, container, deployed)
        PROVE  NotAhead(x, container', deployed')
    <3>1. x.config \in Control!Config /\ x.config \in Int /\ deployed' \in Int
      BY <1>1, <1>3 DEF Pushed
    <3> QED BY <1>1, <1>3, <2>1, <3>1 DEF NotAhead
  <2>2. /\ controlStored # None => controlStored \in Pushed
        /\ \A q \in Under : q.kind = "update" => q.payload \in Pushed
        /\ controlStatus.at = "fetched" => controlStatus.payload \in Pushed
    BY DEF ControlInv, ControlTypes, Signable, Control!Idle
  <2> QED BY <1>2, <1>3, <2>1, <2>2 DEF ControlInv, FleetInv
<1> QED BY <1>4, <1>5, <1>6 DEF ControlInv

(* The guard lets a request through that is not spent, and it is then.     *)
LEMMA GuardedStep ==
    ASSUME ControlAssumption, ControlInv, NEW q \in wire, Control!Guard(q)
    PROVE  ControlInv'
<1>1. /\ Control!WithinSkew(q) /\ q.nonce \notin Control!Remembered(q.kind) /\ Control!Hits(q.kind) < ControlLimit
      /\ nonces' = [nonces EXCEPT ![q.kind] =
                       [n \in 1..MaxSent |-> IF n = q.nonce THEN controlNow
                                             ELSE IF n \in Control!Remembered(q.kind) THEN @[n] ELSE None]]
      /\ hits' = [hits EXCEPT ![q.kind] = [window |-> controlNow \div ControlWindow, count |-> Control!Hits(q.kind) + 1]]
      /\ guarded' = guarded \cup {q}
      /\ UNCHANGED <<controlNow, deployed, container, sent, wire, controlStored, controlStatus, applied, twice, controlOverlapped>>
  BY DEF Control!Guard, Control!Passes, Control!history
<1>2. Under' = Under
  BY <1>1 DEF Under
<1>3. /\ controlNow \in 0..ControlMaxTime /\ ControlMaxTime \in Nat /\ Skew \in Nat /\ ControlNonceTtl \in Nat /\ 2 * Skew <= ControlNonceTtl
      /\ None \notin Int /\ ControlLimit \in Nat /\ ControlWindow \in Nat \ {0}
      /\ nonces \in [Control!Kind -> [1..MaxSent -> 0..ControlMaxTime \cup {None}]]
      /\ hits \in [Control!Kind -> [window : 0..ControlMaxTime, count : 0..ControlLimit]]
      /\ Under \subseteq Signable /\ q \in Under
  BY DEF ControlInv, ControlTypes, Control!TypeOK, ControlAssumption, Under
<1>4. q.kind \in Control!Kind /\ q.nonce \in 1..MaxSent /\ q.ts \in Int
  BY <1>3 DEF Signable
<1>5. \A k \in Control!Kind, n \in 1..MaxSent : nonces[k][n] \in 0..ControlMaxTime \cup {None}
  <2>1. \A k \in Control!Kind : nonces[k] \in [1..MaxSent -> 0..ControlMaxTime \cup {None}]
    BY <1>3
  <2> QED BY <2>1
<1>6. nonces'[q.kind] = [n \in 1..MaxSent |-> IF n = q.nonce THEN controlNow
                                              ELSE IF n \in Control!Remembered(q.kind) THEN nonces[q.kind][n] ELSE None]
  BY <1>1, <1>3, <1>4
<1>7. \A k \in Control!Kind : k # q.kind => nonces'[k] = nonces[k]
  BY <1>1, <1>3
<1>8. nonces' \in [Control!Kind -> [1..MaxSent -> 0..ControlMaxTime \cup {None}]]
  <2>1. nonces'[q.kind] \in [1..MaxSent -> 0..ControlMaxTime \cup {None}]
    BY <1>3, <1>4, <1>6, <1>5
  <2> QED BY <1>1, <1>3, <1>6, <2>1
<1>9. hits' \in [Control!Kind -> [window : 0..ControlMaxTime, count : 0..ControlLimit]]
  <2>1. controlNow \div ControlWindow \in 0..ControlMaxTime
    <3>1. controlNow \in Nat /\ ControlWindow \in Nat \ {0}
      BY <1>3
    <3>2. controlNow \div ControlWindow \in Nat /\ controlNow \div ControlWindow <= controlNow
      BY <3>1, Quotient
    <3> QED BY <1>3, <3>2
  <2>2. Control!Hits(q.kind) + 1 \in 0..ControlLimit
    <3>1. hits[q.kind].count \in 0..ControlLimit
      BY <1>3, <1>4
    <3> QED BY <1>1, <1>3, <3>1 DEF Control!Hits
  <2>3. [window |-> controlNow \div ControlWindow, count |-> Control!Hits(q.kind) + 1] \in [window : 0..ControlMaxTime, count : 0..ControlLimit]
    BY <2>1, <2>2
  <2> QED BY <1>1, <1>3, <2>3
<1>10. ControlTypes'
  <2>1. Control!TypeOK'
    BY <1>1, <1>2, <1>8, <1>9 DEF ControlInv, ControlTypes, Control!TypeOK, Under
  <2> QED BY <1>1, <1>2, <2>1 DEF ControlInv, ControlTypes
<1>11. q.ts - Skew <= controlNow /\ controlNow <= q.ts + Skew
  <2>1. controlNow - q.ts \in -Skew..Skew
    BY <1>1 DEF Control!WithinSkew
  <2>2. controlNow \in Int /\ Skew \in Int /\ q.ts \in Int
    BY <1>3, <1>4
  <2> QED BY <2>1, <2>2
<1>12. ~ Spent(q, nonces, controlNow)
  <2>1. CASE nonces[q.kind][q.nonce] = None
    BY <2>1, <1>3, <1>4, <1>11 DEF Spent
  <2>2. CASE nonces[q.kind][q.nonce] # None
    <3>1. nonces[q.kind][q.nonce] \in Int
      BY <1>3, <1>4, <1>5, <2>2
    <3>2. q.nonce \notin Control!Remembered(q.kind)
      BY <1>1
    <3>3. ~ (controlNow - nonces[q.kind][q.nonce] <= ControlNonceTtl)
      BY <1>4, <2>2, <3>2 DEF Control!Remembered
    <3> DEFINE noted == nonces[q.kind][q.nonce]
    <3>4. noted \in Int /\ ~ (controlNow - noted <= ControlNonceTtl)
      BY <3>1, <3>3
    <3> HIDE DEF noted
    <3>5. ~ (controlNow > q.ts + Skew) /\ ~ (noted >= q.ts - Skew)
      BY <1>3, <1>4, <1>11, <3>4
    <3> QED BY <3>5 DEF Spent, noted
  <2> QED BY <2>1, <2>2
<1>13. q.nonce \notin applied
  BY <1>3, <1>12 DEF ControlInv, EffectInv
<1>14. Spent(q, nonces', controlNow)
  BY <1>3, <1>4, <1>6, <1>11 DEF Spent
<1>15. ASSUME NEW p \in Under, Spent(p, nonces, controlNow)
       PROVE  Spent(p, nonces', controlNow)
  <2>1. p.kind \in Control!Kind /\ p.nonce \in 1..MaxSent /\ p.ts \in Int
    BY <1>3 DEF Signable
  <2>2. CASE p.kind # q.kind
    BY <1>7, <1>15, <2>1, <2>2 DEF Spent
  <2>3. CASE p.kind = q.kind /\ p.nonce = q.nonce
    BY <1>3, <1>14, <2>3 DEF ControlInv, ControlTypes
  <2>4. CASE p.kind = q.kind /\ p.nonce # q.nonce
    <3>1. CASE p.nonce \in Control!Remembered(q.kind)
      BY <1>6, <1>15, <2>1, <2>4, <3>1 DEF Spent
    <3>2. CASE p.nonce \notin Control!Remembered(q.kind) /\ nonces[p.kind][p.nonce] # None
      <4>1. nonces[p.kind][p.nonce] \in Int
        BY <1>3, <1>5, <2>1, <3>2
      <4>2. controlNow - nonces[p.kind][p.nonce] > ControlNonceTtl
        BY <1>3, <2>1, <2>4, <3>2, <4>1 DEF Control!Remembered
      <4> DEFINE noted == nonces[p.kind][p.nonce]
      <4>3. /\ noted \in Int /\ controlNow - noted > ControlNonceTtl
            /\ controlNow > p.ts + Skew \/ noted >= p.ts - Skew
        BY <1>15, <4>1, <4>2 DEF Spent
      <4> HIDE DEF noted
      <4>4. controlNow > p.ts + Skew
        BY <1>3, <2>1, <4>3
      <4> QED BY <4>4 DEF Spent
    <3>3. CASE nonces[p.kind][p.nonce] = None
      BY <1>15, <3>3 DEF Spent
    <3> QED BY <3>1, <3>2, <3>3
  <2> QED BY <2>2, <2>3, <2>4
<1>16. EffectInv'
  <2>1. \A p \in guarded' : p.nonce \notin applied'
    BY <1>1, <1>13 DEF ControlInv, EffectInv
  <2>2. ASSUME NEW p \in Under', p \in guarded' \/ p.nonce \in applied'
        PROVE  Spent(p, nonces', controlNow')
    <3>1. CASE p = q
      BY <1>1, <1>14, <3>1
    <3>2. CASE p # q
      BY <1>1, <1>2, <1>15, <2>2, <3>2 DEF ControlInv, EffectInv
    <3> QED BY <3>1, <3>2
  <2> QED BY <1>1, <2>1, <2>2 DEF ControlInv, EffectInv, Spent
<1>17. FleetInv' /\ AloneInv'
  BY <1>1, <1>2 DEF ControlInv, FleetInv, AloneInv, NotAhead, NoOlder
<1> QED BY <1>10, <1>16, <1>17 DEF ControlInv

LEMMA DropStep ==
    ASSUME ControlAssumption, ControlInv, NEW q \in wire, Control!Drop(q)
    PROVE  ControlInv'
<1>1. /\ wire' = wire \ {q}
      /\ UNCHANGED <<controlNow, deployed, container, sent, guarded, controlStored, nonces, hits, controlStatus, applied, twice, controlOverlapped>>
  BY DEF Control!Drop, Control!guard, Control!history
<1>2. Under' \subseteq Under
  BY <1>1 DEF Under
<1>3. ControlTypes'
  <2>1. Control!TypeOK'
    BY <1>1 DEF ControlInv, ControlTypes, Control!TypeOK
  <2> QED BY <1>1, <1>2, <2>1 DEF ControlInv, ControlTypes
<1>4. EffectInv'
  BY <1>1, <1>2 DEF ControlInv, EffectInv, Spent
<1>5. FleetInv' /\ AloneInv'
  BY <1>1, <1>2 DEF ControlInv, FleetInv, AloneInv, NotAhead, NoOlder
<1> QED BY <1>3, <1>4, <1>5 DEF ControlInv

(* The object takes over what it is given.                                 *)
LEMMA ApplyStep ==
    ASSUME ControlAssumption, ControlInv, NEW q \in guarded, Control!Apply(q)
    PROVE  ControlInv'
<1> DEFINE x == IF q.kind = "reset" THEN Control!Default ELSE q.payload
<1>1. /\ guarded' = guarded \ {q}
      /\ controlStored' = x
      /\ twice' = (twice \/ q.nonce \in applied)
      /\ applied' = applied \cup {q.nonce}
      /\ UNCHANGED <<controlNow, deployed, container, sent, wire, nonces, hits, controlStatus, controlOverlapped>>
  BY DEF Control!Apply, Control!Update, Control!guard
<1>2. Under' \subseteq Under /\ q \in Under
  BY <1>1 DEF Under
<1>3. /\ Under \subseteq Signable /\ q \in Signable
      /\ controlNow \in 0..ControlMaxTime /\ deployed \in Control!Config /\ ControlMaxVersion \in Nat
      /\ q.nonce \in 1..sent /\ applied \subseteq 1..sent
      /\ deployed \in Int
  BY <1>2 DEF ControlInv, ControlTypes, Control!TypeOK, ControlAssumption, Under, Control!Config
<1>4. q.kind = "reset" => /\ x \in Pushed
                          /\ NotAhead(x, container, deployed)
  <2>1. Control!Default \in Pushed /\ Control!Default.config = deployed /\ Control!Default.version = 0
    BY <1>3 DEF Control!Default, Pushed
  <2>2. container[deployed].version \in 0..ControlMaxVersion
    BY <1>3 DEF ControlInv, ControlTypes
  <2> QED BY <1>3, <2>1, <2>2 DEF NotAhead
<1>5. q.kind # "reset" => /\ q.kind = "update" /\ x = q.payload /\ x \in Pushed
                          /\ NotAhead(x, container, deployed)
  BY <1>2, <1>3 DEF Signable, Control!Kind, ControlInv, ControlTypes, FleetInv
<1> HIDE DEF x
<1>6. ControlTypes'
  <2>1. Control!TypeOK'
    BY <1>1, <1>3 DEF ControlInv, ControlTypes, Control!TypeOK
  <2> QED BY <1>1, <1>2, <1>4, <1>5, <2>1 DEF ControlInv, ControlTypes
<1>7. EffectInv'
  <2>1. q.nonce \notin applied
    BY DEF ControlInv, EffectInv
  <2>2. \A p \in guarded' : p.nonce \notin applied'
    BY <1>1, <1>2 DEF ControlInv, EffectInv, ControlTypes, Under
  <2>3. ASSUME NEW p \in Under', p \in guarded' \/ p.nonce \in applied'
        PROVE  Spent(p, nonces, controlNow)
    <3>1. CASE p.nonce = q.nonce
      BY <1>2, <3>1 DEF ControlInv, EffectInv, ControlTypes
    <3>2. CASE p.nonce # q.nonce
      BY <1>1, <1>2, <2>3, <3>2 DEF ControlInv, EffectInv
    <3> QED BY <3>1, <3>2
  <2> QED BY <1>1, <2>1, <2>2, <2>3 DEF ControlInv, EffectInv, Spent
<1>8. FleetInv'
  BY <1>1, <1>2, <1>4, <1>5 DEF ControlInv, FleetInv, NotAhead
<1>9. AloneInv'
  <2> SUFFICES ASSUME ~ controlOverlapped
               PROVE  /\ \A p, r \in Under' : p = r
                      /\ controlStatus.at = "fetched" => Under' = {} /\ NoOlder(controlStatus.payload, controlStored')
                      /\ \A r \in Under' : r.kind = "update" => NoOlder(r.payload, controlStored')
    BY <1>1 DEF AloneInv, NoOlder
  <2>1. /\ \A p \in Under : p = q
        /\ controlStatus.at # "fetched"
    BY <1>2 DEF ControlInv, AloneInv
  <2>2. ASSUME NEW r \in Under', r.kind = "update"
        PROVE  NoOlder(r.payload, controlStored')
    <3>1. r = q /\ controlStored' = q.payload /\ q.payload \in Pushed
      BY <1>1, <1>2, <1>5, <2>1, <2>2
    <3> QED BY <3>1 DEF NoOlder, Pushed, ControlAssumption
  <2> QED BY <1>2, <2>1, <2>2
<1> QED BY <1>6, <1>7, <1>8, <1>9 DEF ControlInv

(* The status route.                                                       *)
LEMMA StatusStep ==
    ASSUME ControlAssumption, ControlInv,
           Control!StatusAsks \/ Control!StatusFetches \/ Control!StatusWrites \/ Control!StatusFails
    PROVE  ControlInv'
<1>1. /\ UNCHANGED <<controlNow, deployed, container, sent, wire, guarded, nonces, hits, applied, twice>>
      /\ Under' = Under
  BY DEF Control!StatusAsks, Control!StatusFetches, Control!StatusWrites, Control!StatusFails,
         Control!guard, Control!history, Under
<1>2. /\ controlNow \in 0..ControlMaxTime /\ deployed \in Control!Config
      /\ container \in [Control!Config -> [running : BOOLEAN, version : 0..ControlMaxVersion, timer : BOOLEAN]]
      /\ controlStored \in Pushed \cup {None}
      /\ controlStatus \in {Control!Idle, [at |-> "asking"]} \cup [at : {"fetched"}, payload : Pushed]
      /\ deployed \in Int
  BY DEF ControlInv, ControlTypes, Control!TypeOK, ControlAssumption, Control!Config
<1>3. Control!TypeOK' /\ EffectInv'
  BY <1>1 DEF ControlInv, ControlTypes, Control!TypeOK, EffectInv, Spent
<1>4. SUFFICES /\ controlStored' \in Pushed \cup {None}
               /\ controlStatus' \in {Control!Idle, [at |-> "asking"]} \cup [at : {"fetched"}, payload : Pushed]
               /\ controlStored' # None => NotAhead(controlStored', container, deployed)
               /\ controlStatus'.at = "fetched" => NotAhead(controlStatus'.payload, container, deployed)
               /\ ~ controlOverlapped' =>
                     /\ \A p, q \in Under : p = q
                     /\ controlStatus'.at = "fetched" => Under = {} /\ NoOlder(controlStatus'.payload, controlStored')
                     /\ \A q \in Under : q.kind = "update" => NoOlder(q.payload, controlStored')
  <2>1. ControlTypes'
    BY <1>1, <1>3, <1>4 DEF ControlInv, ControlTypes
  <2>2. FleetInv'
    BY <1>1, <1>4 DEF ControlInv, FleetInv, NotAhead
  <2>3. AloneInv'
    BY <1>1, <1>4 DEF AloneInv, NoOlder
  <2> QED BY <1>3, <2>1, <2>2, <2>3 DEF ControlInv
<1>5. CASE Control!StatusAsks
  BY <1>2, <1>5 DEF Control!StatusAsks, Control!history, ControlInv, FleetInv, AloneInv
<1>6. CASE Control!StatusFails
  BY <1>2, <1>6 DEF Control!StatusFails, Control!history, Control!Idle, ControlInv, FleetInv, AloneInv
<1>7. CASE Control!StatusFetches
  <2> DEFINE p == Control!Payload(deployed)
  <2>1. /\ controlStatus' = [at |-> "fetched", payload |-> p]
        /\ controlOverlapped' = (controlOverlapped \/ Control!Underway)
        /\ controlStored' = controlStored
    BY <1>7 DEF Control!StatusFetches
  <2>2. p \in Pushed /\ p.config = deployed /\ p.version = container[deployed].version
    BY <1>2 DEF Control!Payload, Pushed
  <2>3. NotAhead(p, container, deployed)
    BY <1>2, <2>2 DEF NotAhead
  <2>4. NoOlder(p, controlStored)
    BY <2>2 DEF NoOlder, NotAhead, ControlInv, FleetInv
  <2> HIDE DEF p
  <2>5. ~ controlOverlapped' => Under = {}
    BY <2>1 DEF Control!Underway, Under
  <2> QED BY <1>2, <2>1, <2>2, <2>3, <2>4, <2>5 DEF ControlInv, FleetInv
<1>8. CASE Control!StatusWrites
  <2>1. /\ controlStatus.at = "fetched" /\ controlStatus' = Control!Idle /\ controlOverlapped' = controlOverlapped
        /\ controlStored' = controlStatus.payload \/ controlStored' = controlStored
    BY <1>8 DEF Control!StatusWrites, Control!Update, Control!history
  <2>2. controlStatus.payload \in Pushed
    BY <1>2, <2>1 DEF Control!Idle
  <2>3. ~ controlOverlapped => Under = {}
    BY <2>1 DEF ControlInv, AloneInv
  <2>4. controlStatus'.at # "fetched"
    BY <2>1 DEF Control!Idle
  <2> QED BY <1>2, <2>1, <2>2, <2>3, <2>4 DEF ControlInv, FleetInv
<1> QED BY <1>5, <1>6, <1>7, <1>8

LEMMA ControlTick ==
    ASSUME ControlAssumption, ControlInv, Control!Tick
    PROVE  ControlInv'
<1>1. /\ controlNow \in 0..ControlMaxTime /\ ControlMaxTime \in Nat /\ controlNow' = controlNow + 1 /\ controlNow' \in 0..ControlMaxTime
      /\ UNCHANGED <<deployed, container, sent, wire, guarded, controlStored, nonces, hits, controlStatus, applied, twice, controlOverlapped, Under>>
  BY DEF ControlInv, ControlTypes, Control!TypeOK, ControlAssumption, Control!Tick, Control!guard, Control!history, Under
<1>2. ControlTypes'
  BY <1>1 DEF ControlInv, ControlTypes, Control!TypeOK
<1>3. EffectInv'
  <2>1. ASSUME NEW q \in Under, Spent(q, nonces, controlNow)
        PROVE  Spent(q, nonces, controlNow + 1)
    <3>1. q.ts \in Int /\ Skew \in Int
      BY DEF ControlInv, ControlTypes, Signable, ControlAssumption
    <3> QED BY <1>1, <2>1, <3>1 DEF Spent
  <2> QED BY <1>1, <2>1 DEF ControlInv, EffectInv, Spent
<1>4. FleetInv' /\ AloneInv'
  BY <1>1 DEF ControlInv, FleetInv, AloneInv, NotAhead, NoOlder
<1> QED BY <1>2, <1>3, <1>4 DEF ControlInv

LEMMA ControlStep ==
    ASSUME ControlAssumption, ControlInv, [Control!Next]_(Control!vars)
    PROVE  ControlInv'
<1>1. CASE UNCHANGED Control!vars
  <2>1. UNCHANGED <<controlNow, deployed, container, sent, wire, guarded, controlStored, nonces, hits, controlStatus, applied, twice, controlOverlapped, Under>>
    BY <1>1 DEF Control!vars, Control!guard, Control!history, Under
  <2>2. ControlTypes' /\ EffectInv'
    BY <2>1 DEF ControlInv, ControlTypes, Control!TypeOK, EffectInv, Spent
  <2>3. FleetInv' /\ AloneInv'
    BY <2>1 DEF ControlInv, FleetInv, AloneInv, NotAhead, NoOlder
  <2> QED BY <2>2, <2>3 DEF ControlInv
<1>2. CASE Control!Next
  BY <1>2, ChangeStep, PushStep, DeployStep, GuardedStep, DropStep, ApplyStep, StatusStep, ControlTick
     DEF Control!Next
<1> QED BY <1>1, <1>2

(* The state goes back only when two writers overlapped, or for a reset.   *)
LEMMA RegressesAfterOverlap ==
    ASSUME ControlAssumption, ControlInv, [Control!Next]_(Control!vars), Control!Regresses
    PROVE  Control!Overlap
<1>1. SUFFICES ASSUME ~ controlOverlapped, \A q \in guarded : q.kind # "reset" PROVE FALSE
  BY DEF Control!Overlap
<1>2. /\ controlStored # None /\ controlStored' # None /\ controlStored'.config = controlStored.config /\ controlStored'.version < controlStored.version
  BY DEF Control!Regresses
<1>3. controlStored.version \in Int /\ controlStored'.version \in Int
  <2>1. controlStored \in Pushed
    BY <1>2 DEF ControlInv, ControlTypes
  <2>2. ControlInv'
    BY ControlStep
  <2>3. controlStored' \in Pushed
    <3>1. (controlStored \in Pushed \cup {None})'
      BY <2>2 DEF ControlInv, ControlTypes
    <3> QED BY <1>2, <3>1 DEF Pushed, Control!Config
  <2> QED BY <2>1, <2>3 DEF Pushed
<1>4. ~ (controlStored' = controlStored)
  BY <1>2, <1>3
<1>5. ~ UNCHANGED Control!vars
  BY <1>4 DEF Control!vars
<1>6. ASSUME NEW x, NoOlder(x, controlStored), controlStored' = x
      PROVE  FALSE
  BY <1>2, <1>3, <1>6 DEF NoOlder
<1>7. ASSUME NEW q \in guarded, Control!Apply(q)
      PROVE  FALSE
  <2>1. q.kind = "update" /\ q \in Under
    BY <1>1 DEF ControlInv, ControlTypes, Signable, Control!Kind, Under
  <2>2. NoOlder(q.payload, controlStored)
    BY <1>1, <2>1 DEF ControlInv, AloneInv
  <2> QED BY <1>6, <1>7, <2>1, <2>2 DEF Control!Apply, Control!Update
<1>8. ASSUME Control!StatusWrites
      PROVE  FALSE
  <2>1. controlStatus.at = "fetched" /\ (controlStored' = controlStatus.payload \/ controlStored' = controlStored)
    BY <1>8 DEF Control!StatusWrites, Control!Update
  <2>2. NoOlder(controlStatus.payload, controlStored)
    BY <1>1, <2>1 DEF ControlInv, AloneInv
  <2> QED BY <1>4, <1>6, <2>1, <2>2
<1> QED BY <1>4, <1>5, <1>7, <1>8
    DEF Control!Next, Control!Change, Control!Push, Control!AskReset, Control!Deploy, Control!Sleeps,
        Control!Guard, Control!Drop, Control!StatusAsks, Control!StatusFetches, Control!StatusFails, Control!Tick

(* A signed control request takes effect at most once, however often it is *)
(* delivered (verifyControlRequestWithNonceGuard).                         *)
THEOREM ControlAppliesOnce ==
    ASSUME ControlAssumption
    PROVE  Control!Spec => []Control!AppliedOnce
<1>1. ControlInv => Control!AppliedOnce
  BY DEF ControlInv, EffectInv, Control!AppliedOnce
<1> QED BY <1>1, ControlInit, ControlStep, PTL DEF Control!Spec

(* The control object's state goes back to an older one of the same        *)
(* container only when two writers were under way, or by a reset.          *)
THEOREM ControlRegresses ==
    ASSUME ControlAssumption
    PROVE  Control!Spec => Control!RegressesOnlyByOverlap
<1>1. ControlInv /\ [Control!Next]_(Control!vars) => [Control!Regresses => Control!Overlap]_(Control!vars)
  BY RegressesAfterOverlap
<1> QED BY <1>1, ControlInit, ControlStep, PTL DEF Control!Spec, Control!RegressesOnlyByOverlap

-----------------------------------------------------------------------------
(***************************************************************************)
(* IntelCache.                                                             *)
(***************************************************************************)
Intel == INSTANCE IntelCache WITH
    now <- intelNow, faults <- intelFaults, cache <- intelCache,
    stored <- intelStored, fetch <- intelFetch, reader <- intelReader,
    Readers <- IntelReaders, MaxTime <- IntelMaxTime,
    MaxFaults <- IntelMaxFaults

Dated == [version : Nat, at : Nat]

(* The keys of an endpoint in storage, and what is put together of them.   *)
CacheKeys == [whole : Dated \cup {None}, meta : Nat \cup {None}, chunks : 0..3, part : [1..3 -> Nat \cup {None}]]
Put(v, t) == [versions |-> {v}, at |-> t]

CacheAssumption ==
    /\ None \notin Int
    /\ None \notin Dated
    /\ None \notin [versions : SUBSET Nat, at : Nat]
    /\ Proactive \subseteq Standard

LEMMA ChunksAre == ASSUME NEW v \in Nat PROVE Intel!Chunks(v) \in 0..3
<1>1. v % 3 \in 0..2
  OBVIOUS
<1>2. (v % 3) \div 2 \in 0..1
  BY <1>1
<1> QED BY <1>1, <1>2 DEF Intel!Chunks

(* What is saved is what is loaded, whatever was stored before.            *)
LEMMA SavedIsLoaded ==
    ASSUME CacheAssumption, NEW k \in CacheKeys, NEW x \in Dated
    PROVE  /\ Intel!Saved(k, x) \in CacheKeys
           /\ Intel!Loaded(Intel!Saved(k, x)) = Put(x.version, x.at)
<1> DEFINE n == Intel!Chunks(x.version)
           s == Intel!Saved(k, x)
           p == [i \in 1..3 |-> CASE i <= n -> x.version
                                  [] i > n /\ i <= k.chunks -> None
                                  [] OTHER -> k.part[i]]
<1>1. /\ x.version \in Nat /\ x.at \in Nat /\ n \in 0..3
      /\ k.chunks \in 0..3 /\ k.part \in [1..3 -> Nat \cup {None}]
  BY ChunksAre DEF Dated, CacheKeys
<1>2. s = [whole |-> IF n = 0 THEN x ELSE None, meta |-> x.at, chunks |-> n, part |-> p]
  BY DEF Intel!Saved
<1> HIDE DEF n, s
<1>3. p \in [1..3 -> Nat \cup {None}]
  <2>1. ASSUME NEW i \in 1..3
        PROVE  p[i] \in Nat \cup {None}
    <3>1. CASE i <= n
      BY <1>1, <3>1
    <3>2. CASE ~ (i <= n)
      BY <1>1, <3>2
    <3> QED BY <3>1, <3>2
  <2> QED BY <2>1
<1>4. \A i \in 1..3 : i <= n => p[i] = x.version
  BY <1>1
<1> HIDE DEF p
<1>5. s \in CacheKeys
  BY <1>1, <1>2, <1>3 DEF CacheKeys
<1>6. Intel!Loaded(s) = Put(x.version, x.at)
  <2>1. s.meta # None /\ s.meta = x.at /\ s.chunks = n /\ s.part = p
    BY <1>1, <1>2 DEF CacheAssumption
  <2>2. CASE n = 0
    <3>1. s.whole = x /\ s.whole # None
      BY <1>2, <2>2 DEF CacheAssumption
    <3> QED BY <2>1, <2>2, <3>1 DEF Intel!Loaded, Put
  <2>3. CASE n > 0
    <3>1. \A i \in 1..n : i \in 1..3 /\ p[i] = x.version
      BY <1>1, <1>4
    <3>2. ~ \E i \in 1..n : p[i] = None
      BY <1>1, <3>1 DEF CacheAssumption
    <3>3. {p[i] : i \in 1..n} = {x.version}
      <4>1. 1 \in 1..n
        BY <1>1, <2>3
      <4> QED BY <3>1, <4>1
    <3> QED BY <2>1, <2>3, <3>2, <3>3 DEF Intel!Loaded, Put
  <2> QED BY <1>1, <2>2, <2>3
<1> QED BY <1>5, <1>6 DEF s

LEMMA WhalesAreLoaded ==
    ASSUME CacheAssumption, NEW k \in CacheKeys, k.meta = None, NEW x \in Dated
    PROVE  /\ Intel!SavedWhales(k, x) \in CacheKeys /\ Intel!SavedWhales(k, x).meta = None
           /\ Intel!Loaded(Intel!SavedWhales(k, x)) = Put(x.version, x.at)
<1> DEFINE s == Intel!SavedWhales(k, x)
<1>1. s \in CacheKeys /\ s.meta = None /\ s.whole = x /\ x # None
  BY DEF Intel!SavedWhales, CacheKeys, CacheAssumption
<1> HIDE DEF s
<1>2. Intel!Loaded(s) = Put(x.version, x.at)
  BY <1>1 DEF Intel!Loaded, Put
<1> QED BY <1>1, <1>2 DEF s

LEMMA NothingIsLoaded ==
    ASSUME CacheAssumption, NEW k \in CacheKeys
    PROVE  /\ Intel!Deleted(k) \in CacheKeys /\ Intel!Deleted(k).meta = None /\ Intel!Loaded(Intel!Deleted(k)) = None
           /\ Intel!NoKeys \in CacheKeys /\ Intel!NoKeys.meta = None /\ Intel!Loaded(Intel!NoKeys) = None
<1>1. Intel!Deleted(k) \in CacheKeys
  BY DEF Intel!Deleted, CacheKeys
<1>2. Intel!Deleted(k).meta = None /\ Intel!Deleted(k).whole = None
  BY DEF Intel!Deleted
<1>3. Intel!NoKeys \in CacheKeys
  BY DEF Intel!NoKeys, CacheKeys
<1>4. Intel!NoKeys.meta = None /\ Intel!NoKeys.whole = None
  BY DEF Intel!NoKeys
<1> QED BY <1>1, <1>2, <1>3, <1>4 DEF Intel!Loaded

LEMMA PutIsEntry ==
    ASSUME CacheAssumption, NEW v \in Nat, NEW t \in Nat
    PROVE  Put(v, t) # None /\ Intel!AsEntry(Put(v, t)) = [version |-> v, at |-> t]
<1>1. Put(v, t) # None /\ Put(v, t).versions = {v} /\ Put(v, t).at = t
  BY DEF CacheAssumption, Put
<1>2. Intel!Max({v}) = v
  BY DEF Intel!Max
<1> QED BY <1>1, <1>2 DEF Intel!AsEntry

(* Memory, storage, fetches and readers of a world that was busted last at *)
(* version lo.                                                             *)
Since(x, lo) == x # None => x.version >= lo

Memory(c, lo) ==
    /\ c \in [Intel!Endpoint -> Dated \cup {None}]
    /\ \A e \in Intel!Endpoint : Since(c[e], lo)

Loads(k, lo) == Intel!Loaded(k) # None => \E v \in Nat, t \in Nat : v >= lo /\ Intel!Loaded(k) = Put(v, t)

Storage(s, lo) ==
    /\ s \in [Intel!Endpoint -> CacheKeys]
    /\ \A e \in Whales : s[e].meta = None
    /\ \A e \in Intel!Endpoint : Loads(s[e], lo)

Asking == [at : {"asking"}, endpoint : Intel!Endpoint, gen : Nat, left : Nat]
Answered == [at : {"answered"}, endpoint : Intel!Endpoint, gen : Nat, left : Nat, version : Nat]

Fetching(q, g, lo) ==
    /\ q \in [Fetches -> {Intel!Idle} \cup Asking \cup Answered]
    /\ \A f \in Fetches : q[f] # Intel!Idle =>
          /\ q[f].gen <= g
          /\ q[f].at = "answered" /\ q[f].gen = g => q[f].version >= lo

Reading(x, lo) ==
    /\ x.floor \in Nat /\ x.floor <= lo
    /\ x.cached \in Dated \cup {None}
    /\ Since(x.cached, x.floor)

Waiting(q, lo) ==
    /\ DOMAIN q = IntelReaders
    /\ \A r \in IntelReaders : q[r] # Intel!Idle => Reading(q[r], lo)

Agree(c, s) == \A e \in Intel!Endpoint : c[e] # None => Intel!AsEntry(Intel!Loaded(s[e])) = c[e]

Todo(q) == "todo" \in DOMAIN q /\ q.todo \subseteq Intel!Endpoint

CacheInv ==
    /\ world \in Nat /\ floor \in Nat /\ floor <= world /\ intelNow \in Nat /\ gen \in Nat
    /\ Memory(intelCache, floor)
    /\ Storage(intelStored, floor)
    /\ Fetching(intelFetch, gen, floor)
    /\ Waiting(intelReader, floor)
    /\ Todo(rewarm)
    /\ ~ servedOld
    /\ ~ unsaved => Agree(intelCache, intelStored)

LEMMA CacheInit == CacheAssumption /\ Intel!Init => CacheInv
<1> SUFFICES ASSUME CacheAssumption, Intel!Init PROVE CacheInv
  OBVIOUS
<1>1. /\ world = 0 /\ floor = 0 /\ intelNow = 0 /\ gen = 0 /\ servedOld = FALSE
      /\ intelCache = [e \in Intel!Endpoint |-> None]
      /\ intelStored = [e \in Intel!Endpoint |-> Intel!NoKeys]
      /\ intelFetch = [f \in Fetches |-> Intel!Idle]
      /\ intelReader = [r \in IntelReaders |-> Intel!Idle]
      /\ rewarm = [todo |-> {}, wait |-> {}]
  BY DEF Intel!Init
<1>2. Memory(intelCache, floor) /\ Fetching(intelFetch, gen, floor) /\ Waiting(intelReader, floor) /\ Agree(intelCache, intelStored)
  BY <1>1 DEF Memory, Since, Fetching, Waiting, Agree
<1>3. /\ Intel!NoKeys \in CacheKeys /\ Intel!NoKeys.meta = None /\ Intel!Loaded(Intel!NoKeys) = None
  <2>1. [whole |-> None, meta |-> None, chunks |-> 0, part |-> [i \in 1..3 |-> None]] \in CacheKeys
    BY DEF CacheKeys
  <2> QED BY <2>1, NothingIsLoaded
<1>4. Storage(intelStored, floor)
  BY <1>1, <1>3 DEF Storage, Loads, Intel!Endpoint
<1>5. Todo(rewarm)
  BY <1>1 DEF Todo
<1> QED BY <1>1, <1>2, <1>4, <1>5 DEF CacheInv

(* The entry a request finds is in storage too, unless a save failed.      *)
LEMMA FoundIsKept ==
    ASSUME CacheAssumption, CacheInv, NEW e \in Intel!Endpoint
    PROVE  /\ Intel!Found(e) \in Dated \cup {None}
           /\ Since(Intel!Found(e), floor)
           /\ Memory([intelCache EXCEPT ![e] = Intel!Found(e)], floor)
           /\ ~ unsaved => Agree([intelCache EXCEPT ![e] = Intel!Found(e)], intelStored)
<1>1. Memory(intelCache, floor) /\ Loads(intelStored[e], floor)
  BY DEF CacheInv, Storage
<1>2. /\ Intel!Found(e) \in Dated \cup {None}
      /\ Since(Intel!Found(e), floor)
      /\ Intel!Found(e) = intelCache[e] \/ Intel!Found(e) = Intel!AsEntry(Intel!Loaded(intelStored[e]))
  <2>1. CASE e \in Chat /\ intelCache[e] = None
    <3>1. Intel!Found(e) = Intel!AsEntry(Intel!Loaded(intelStored[e]))
      BY <2>1 DEF Intel!Found
    <3>2. CASE Intel!Loaded(intelStored[e]) = None
      BY <3>1, <3>2 DEF Intel!AsEntry, Since
    <3>3. CASE Intel!Loaded(intelStored[e]) # None
      <4>1. PICK v \in Nat, t \in Nat : v >= floor /\ Intel!Loaded(intelStored[e]) = Put(v, t)
        BY <1>1, <3>3 DEF Loads
      <4>2. Intel!Found(e) = [version |-> v, at |-> t]
        BY <3>1, <4>1, PutIsEntry
      <4> QED BY <3>1, <4>1, <4>2 DEF Dated, Since
    <3> QED BY <3>2, <3>3
  <2>2. CASE ~ (e \in Chat /\ intelCache[e] = None)
    <3>1. Intel!Found(e) = intelCache[e]
      BY <2>2 DEF Intel!Found
    <3> QED BY <1>1, <3>1 DEF Memory
  <2> QED BY <2>1, <2>2
<1>3. Memory([intelCache EXCEPT ![e] = Intel!Found(e)], floor)
  BY <1>1, <1>2 DEF Memory
<1>4. ~ unsaved => Agree([intelCache EXCEPT ![e] = Intel!Found(e)], intelStored)
  BY <1>1, <1>2 DEF CacheInv, Agree, Memory
<1> QED BY <1>2, <1>3, <1>4

(* A new fetch is of the present generation and has no answer yet.         *)
LEMMA LaunchedFetches ==
    ASSUME CacheAssumption, CacheInv, NEW E \in SUBSET Intel!Endpoint, NEW tries \in Nat, Intel!Launch(E, tries)
    PROVE  Fetching(intelFetch', gen, floor)
<1>1. /\ Fetching(intelFetch, gen, floor) /\ gen \in Nat
  BY DEF CacheInv
<1>2. ASSUME NEW f \in Fetches
      PROVE  \/ intelFetch'[f] = intelFetch[f]
             \/ \E e \in Intel!Endpoint : intelFetch'[f] = [at |-> "asking", endpoint |-> e, gen |-> gen, left |-> tries]
  <2>1. CASE \E e \in Intel!Starting(E) : Intel!Pick(E)[e] = f
    <3> DEFINE e == CHOOSE e \in Intel!Starting(E) : Intel!Pick(E)[e] = f
    <3>1. e \in Intel!Starting(E)
      BY <2>1
    <3>2. e \in Intel!Endpoint
      BY <3>1 DEF Intel!Starting
    <3>3. intelFetch'[f] = [at |-> "asking", endpoint |-> e, gen |-> gen, left |-> tries]
      BY <2>1 DEF Intel!Launch
    <3> QED BY <3>2, <3>3
  <2>2. CASE ~ \E e \in Intel!Starting(E) : Intel!Pick(E)[e] = f
    BY <2>2 DEF Intel!Launch
  <2> QED BY <2>1, <2>2
<1>3. intelFetch' = [f \in Fetches |-> intelFetch'[f]]
  BY DEF Intel!Launch
<1>4. ASSUME NEW f \in Fetches
      PROVE  /\ intelFetch'[f] \in {Intel!Idle} \cup Asking \cup Answered
             /\ intelFetch'[f] # Intel!Idle =>
                   /\ intelFetch'[f].gen <= gen
                   /\ intelFetch'[f].at = "answered" /\ intelFetch'[f].gen = gen => intelFetch'[f].version >= floor
  <2>1. CASE intelFetch'[f] = intelFetch[f]
    <3>1. /\ intelFetch[f] \in {Intel!Idle} \cup Asking \cup Answered
          /\ intelFetch[f] # Intel!Idle =>
                /\ intelFetch[f].gen <= gen
                /\ intelFetch[f].at = "answered" /\ intelFetch[f].gen = gen => intelFetch[f].version >= floor
      BY <1>1 DEF Fetching
    <3> QED BY <2>1, <3>1
  <2>2. CASE \E e \in Intel!Endpoint : intelFetch'[f] = [at |-> "asking", endpoint |-> e, gen |-> gen, left |-> tries]
    <3>1. PICK e \in Intel!Endpoint : intelFetch'[f] = [at |-> "asking", endpoint |-> e, gen |-> gen, left |-> tries]
      BY <2>2
    <3>2. intelFetch'[f] \in Asking /\ intelFetch'[f].gen = gen /\ intelFetch'[f].at # "answered"
      BY <1>1, <3>1 DEF Asking
    <3> QED BY <1>1, <3>2
  <2> QED BY <1>2, <2>1, <2>2
<1> QED BY <1>3, <1>4 DEF Fetching

(* When a fetch ends, nobody who waits for it gets anything old.           *)
LEMMA SettledFetch ==
    ASSUME CacheAssumption, CacheInv, NEW f \in Fetches, NEW x \in Dated \cup {None}, Since(x, floor),
           Intel!Settle(f, x)
    PROVE  Fetching(intelFetch', gen, floor) /\ Waiting(intelReader', floor) /\ Todo(rewarm') /\ ~ servedOld'
<1>1. /\ Todo(rewarm) /\ Fetching(intelFetch, gen, floor) /\ Waiting(intelReader, floor) /\ ~ servedOld
      /\ floor \in Nat
  BY DEF CacheInv
<1>2. Fetching(intelFetch', gen, floor)
  <2>1. intelFetch' = [intelFetch EXCEPT ![f] = Intel!Idle]
    BY DEF Intel!Settle
  <2> QED BY <1>1, <2>1 DEF Fetching
<1> DEFINE waits == {r \in IntelReaders : intelReader[r] # Intel!Idle /\ intelReader[r].fetch = f}
           answer(r) == IF x # None THEN x ELSE intelReader[r].cached
<1>3. /\ intelReader' = [r \in IntelReaders |-> IF r \in waits THEN Intel!Idle ELSE intelReader[r]]
      /\ servedOld' = (servedOld \/ \E r \in waits : answer(r) # None /\ answer(r).version < intelReader[r].floor)
  BY DEF Intel!Settle
<1>4. \A r \in waits : r \in IntelReaders /\ Reading(intelReader[r], floor)
  BY <1>1 DEF Waiting
<1>5. Waiting(intelReader', floor)
  <2>1. \A r \in IntelReaders : intelReader'[r] # Intel!Idle => intelReader'[r] = intelReader[r]
    BY <1>3
  <2>2. DOMAIN intelReader' = IntelReaders
    BY <1>3
  <2> QED BY <1>1, <2>1, <2>2 DEF Waiting
<1>6. ASSUME NEW r \in waits, answer(r) # None
      PROVE  ~ (answer(r).version < intelReader[r].floor)
  <2>1. /\ intelReader[r].floor \in Nat /\ intelReader[r].floor <= floor
        /\ intelReader[r].cached \in Dated \cup {None}
        /\ Since(intelReader[r].cached, intelReader[r].floor)
    BY <1>4 DEF Reading
  <2>2. CASE x # None
    <3>1. answer(r) = x /\ x.version \in Nat /\ x.version >= floor
      BY <2>2 DEF Dated, Since
    <3> HIDE DEF answer
    <3> QED BY <1>1, <2>1, <3>1
  <2>3. CASE x = None
    <3>1. answer(r) = intelReader[r].cached
      BY <2>3
    <3>2. answer(r).version \in Nat /\ answer(r).version >= intelReader[r].floor
      BY <1>6, <2>1, <3>1 DEF Dated, Since
    <3> HIDE DEF answer
    <3> QED BY <2>1, <3>2
  <2> QED BY <2>2, <2>3
<1> HIDE DEF answer, waits
<1>7. ~ servedOld'
  BY <1>1, <1>3, <1>6
<1>8. Todo(rewarm')
  <2>1. rewarm' = [rewarm EXCEPT !.wait = @ \ {f}]
    BY DEF Intel!Settle
  <2> QED BY <1>1, <2>1 DEF Todo
<1> QED BY <1>2, <1>5, <1>7, <1>8

(* The steps of the requests.                                              *)
LEMMA ReadsKeep ==
    ASSUME CacheAssumption, CacheInv, NEW e \in Intel!Endpoint,
           \/ Intel!ReadHit(e) \/ Intel!ReadStale(e)
           \/ \E r \in IntelReaders : Intel!ReadWaits(r, e)
    PROVE  CacheInv'
<1>1. /\ world \in Nat /\ floor \in Nat /\ floor <= world /\ intelNow \in Nat /\ gen \in Nat
      /\ Storage(intelStored, floor) /\ Fetching(intelFetch, gen, floor) /\ Waiting(intelReader, floor)
      /\ Todo(rewarm) /\ ~ servedOld
  BY DEF CacheInv
<1>2. /\ Intel!Found(e) \in Dated \cup {None}
      /\ Since(Intel!Found(e), floor)
      /\ Memory([intelCache EXCEPT ![e] = Intel!Found(e)], floor)
      /\ ~ unsaved => Agree([intelCache EXCEPT ![e] = Intel!Found(e)], intelStored)
  BY FoundIsKept
<1>3. Intel!Retries(e) \in Nat
  BY DEF Intel!Retries
<1>4. /\ UNCHANGED <<world, floor, intelNow, gen, intelStored, unsaved, rewarm>>
      /\ intelCache' = [intelCache EXCEPT ![e] = Intel!Found(e)]
  BY DEF Intel!ReadHit, Intel!ReadStale, Intel!ReadWaits, Intel!env
<1>5. Intel!Serve(Intel!Found(e), floor) => ~ servedOld'
  <2>1. ASSUME Intel!Found(e) # None
        PROVE  ~ (Intel!Found(e).version < floor)
    <3>1. Intel!Found(e).version \in Nat /\ Intel!Found(e).version >= floor
      BY <1>2, <2>1 DEF Dated, Since
    <3> QED BY <1>1, <3>1
  <2> QED BY <1>1, <2>1 DEF Intel!Serve
<1>6. Intel!Launch({e}, Intel!Retries(e)) => Fetching(intelFetch', gen, floor)
  BY <1>3, LaunchedFetches
<1>7. Fetching(intelFetch', gen, floor) /\ Waiting(intelReader', floor) /\ ~ servedOld'
  <2>1. CASE Intel!ReadHit(e)
    BY <1>1, <1>5, <2>1 DEF Intel!ReadHit
  <2>2. CASE Intel!ReadStale(e)
    BY <1>1, <1>5, <1>6, <2>2 DEF Intel!ReadStale, Intel!RefreshBehind
  <2>3. CASE \E r \in IntelReaders : Intel!ReadWaits(r, e)
    <3>1. PICK r \in IntelReaders : Intel!ReadWaits(r, e)
      BY <2>3
    <3>2. /\ Intel!Launch({e}, Intel!Retries(e)) /\ servedOld' = servedOld
          /\ intelReader' = [intelReader EXCEPT ![r] = [at |-> "waiting", fetch |-> inFlight'[e],
                                                        cached |-> Intel!Found(e), floor |-> floor]]
      BY <3>1 DEF Intel!ReadWaits
    <3>3. Reading([at |-> "waiting", fetch |-> inFlight'[e], cached |-> Intel!Found(e), floor |-> floor], floor)
      BY <1>1, <1>2 DEF Reading
    <3>4. \A q \in IntelReaders : q # r => intelReader'[q] = intelReader[q]
      BY <3>2
    <3>5. DOMAIN intelReader' = IntelReaders /\ Reading(intelReader'[r], floor)
      BY <1>1, <3>2, <3>3 DEF Waiting
    <3>6. Waiting(intelReader', floor)
      BY <1>1, <3>4, <3>5 DEF Waiting
    <3> QED BY <1>1, <1>6, <3>2, <3>6
  <2> QED BY <2>1, <2>2, <2>3
<1> QED BY <1>1, <1>2, <1>4, <1>7 DEF CacheInv

(* The steps of the fetches.                                               *)
LEMMA FetchesKeep ==
    ASSUME CacheAssumption, CacheInv, NEW f \in Fetches,
           Intel!Answer(f) \/ Intel!Receive(f) \/ Intel!ReceiveOld(f) \/ Intel!FetchFails(f)
    PROVE  CacheInv'
<1>1. /\ world \in Nat /\ floor \in Nat /\ floor <= world /\ intelNow \in Nat /\ gen \in Nat
      /\ Memory(intelCache, floor) /\ Storage(intelStored, floor)
      /\ Fetching(intelFetch, gen, floor) /\ Waiting(intelReader, floor)
      /\ Todo(rewarm) /\ ~ servedOld
      /\ ~ unsaved => Agree(intelCache, intelStored)
  BY DEF CacheInv
<1>2. /\ intelFetch \in [Fetches -> {Intel!Idle} \cup Asking \cup Answered]
      /\ intelFetch[f] \in {Intel!Idle} \cup Asking \cup Answered
      /\ intelFetch[f] # Intel!Idle =>
            /\ intelFetch[f].gen <= gen
            /\ intelFetch[f].at = "answered" /\ intelFetch[f].gen = gen => intelFetch[f].version >= floor
  BY <1>1 DEF Fetching
<1>3. Since(None, floor) /\ None \in Dated \cup {None}
  BY DEF Since
<1>4. intelFetch[f].at = "answered" =>
         /\ intelFetch[f] # Intel!Idle /\ intelFetch[f].endpoint \in Intel!Endpoint /\ intelFetch[f].version \in Nat
  BY <1>2 DEF Intel!Idle, Asking, Answered
<1> DEFINE x == [version |-> intelFetch[f].version, at |-> intelNow]
<1>5. intelFetch[f].at = "answered" /\ Intel!Current(f) => x \in Dated /\ x # None /\ x.version >= floor /\ Since(x, floor)
  BY <1>1, <1>2, <1>4 DEF Intel!Current, Dated, Since, CacheAssumption
<1> HIDE DEF x
<1>6. CASE Intel!Answer(f)
  <2>1. /\ intelFetch[f].at = "asking"
        /\ intelFetch' = [intelFetch EXCEPT ![f] = [at |-> "answered", endpoint |-> intelFetch[f].endpoint,
                                                    gen |-> intelFetch[f].gen, left |-> intelFetch[f].left, version |-> world]]
        /\ UNCHANGED <<world, floor, intelNow, intelCache, gen, intelStored, intelReader, rewarm, servedOld, unsaved>>
    BY <1>6 DEF Intel!Answer, Intel!env, Intel!memory
  <2>2. /\ intelFetch[f] # Intel!Idle /\ intelFetch[f].endpoint \in Intel!Endpoint
        /\ intelFetch[f].gen \in Nat /\ intelFetch[f].left \in Nat
    BY <1>2, <2>1 DEF Intel!Idle, Asking, Answered
  <2>3. intelFetch'[f] \in Answered /\ intelFetch'[f].gen <= gen /\ intelFetch'[f].version = world
    BY <1>1, <1>2, <2>1, <2>2 DEF Answered
  <2>4. intelFetch' \in [Fetches -> {Intel!Idle} \cup Asking \cup Answered]
    BY <1>2, <2>1, <2>3
  <2>5. \A g \in Fetches : g # f => intelFetch'[g] = intelFetch[g]
    BY <1>2, <2>1
  <2>6. Fetching(intelFetch', gen, floor)
    BY <1>1, <2>3, <2>4, <2>5 DEF Fetching
  <2> QED BY <1>1, <2>1, <2>6 DEF CacheInv
<1>7. CASE Intel!Receive(f)
  <2> DEFINE e == intelFetch[f].endpoint
  <2>1. /\ intelFetch[f].at = "answered" /\ Intel!Current(f)
        /\ intelCache' = [intelCache EXCEPT ![e] = x]
        /\ intelStored' = [intelStored EXCEPT ![e] = IF e \in Whales THEN Intel!SavedWhales(@, x) ELSE Intel!Saved(@, x)]
        /\ Intel!Settle(f, x)
        /\ UNCHANGED <<world, floor, intelNow, gen, unsaved>>
    BY <1>7 DEF Intel!Receive, Intel!env, x
  <2>2. e \in Intel!Endpoint /\ x \in Dated /\ x # None /\ x.version >= floor /\ Since(x, floor)
    BY <1>4, <1>5, <2>1
  <2> HIDE DEF e
  <2>3. Fetching(intelFetch', gen, floor) /\ Waiting(intelReader', floor) /\ Todo(rewarm') /\ ~ servedOld'
    BY <2>1, <2>2, SettledFetch
  <2>4. Memory(intelCache', floor)
    BY <1>1, <2>1, <2>2 DEF Memory
  <2>5. /\ intelStored[e] \in CacheKeys
        /\ e \in Whales => intelStored[e].meta = None
        /\ intelStored \in [Intel!Endpoint -> CacheKeys]
    BY <1>1, <2>2 DEF Storage
  <2>6. /\ intelStored'[e] \in CacheKeys
        /\ e \in Whales => intelStored'[e].meta = None
        /\ Intel!Loaded(intelStored'[e]) = Put(x.version, x.at)
    BY <2>1, <2>2, <2>5, SavedIsLoaded, WhalesAreLoaded
  <2>7. x.version \in Nat /\ x.at \in Nat /\ x = [version |-> x.version, at |-> x.at]
    BY <2>2 DEF Dated
  <2>8. Loads(intelStored'[e], floor)
    BY <2>2, <2>6, <2>7 DEF Loads
  <2>9. \A d \in Intel!Endpoint : d # e => intelStored'[d] = intelStored[d] /\ intelCache'[d] = intelCache[d]
    BY <1>1, <2>1 DEF Storage, Memory
  <2>10. intelStored' \in [Intel!Endpoint -> CacheKeys]
    BY <2>1, <2>5, <2>6, <2>9
  <2>11. Storage(intelStored', floor)
    <3>1. \A d \in Whales : d \in Intel!Endpoint
      BY DEF Intel!Endpoint
    <3> QED BY <1>1, <2>6, <2>8, <2>9, <2>10, <3>1 DEF Storage
  <2>12. ~ unsaved' => Agree(intelCache', intelStored')
    <3>1. Intel!AsEntry(Intel!Loaded(intelStored'[e])) = x
      BY <2>6, <2>7, PutIsEntry
    <3>2. intelCache'[e] = x
      BY <1>1, <2>1, <2>2 DEF Memory
    <3> QED BY <1>1, <2>1, <2>9, <3>1, <3>2 DEF Agree
  <2> QED BY <1>1, <2>1, <2>3, <2>4, <2>11, <2>12 DEF CacheInv
<1>8. CASE Intel!ReceiveOld(f)
  <2>1. /\ Intel!Settle(f, None)
        /\ UNCHANGED <<world, floor, intelNow, gen, unsaved, intelCache, intelStored>>
    BY <1>8 DEF Intel!ReceiveOld, Intel!env
  <2>2. Fetching(intelFetch', gen, floor) /\ Waiting(intelReader', floor) /\ Todo(rewarm') /\ ~ servedOld'
    BY <1>3, <2>1, SettledFetch
  <2> QED BY <1>1, <2>1, <2>2 DEF CacheInv
<1>9. CASE Intel!FetchFails(f)
  <2>1. /\ intelFetch[f] # Intel!Idle
        /\ UNCHANGED <<world, floor, intelNow, gen, intelStored>>
        /\ \/ UNCHANGED <<intelCache, unsaved>>
           \/ /\ intelFetch[f].at = "answered" /\ Intel!Current(f)
              /\ unsaved' = TRUE
              /\ intelCache' = [intelCache EXCEPT ![intelFetch[f].endpoint] = x]
        /\ IF intelFetch[f].left > 0
           THEN /\ intelFetch' = [intelFetch EXCEPT ![f] = [at |-> "asking", endpoint |-> @.endpoint,
                                                            gen |-> @.gen, left |-> @.left - 1]]
                /\ UNCHANGED <<intelReader, rewarm, servedOld>>
           ELSE Intel!Settle(f, None)
    BY <1>9 DEF Intel!FetchFails, Intel!Fault, x
  <2>2. Fetching(intelFetch', gen, floor) /\ Waiting(intelReader', floor) /\ Todo(rewarm') /\ ~ servedOld'
    <3>1. CASE intelFetch[f].left > 0
      <4>1. /\ intelFetch' = [intelFetch EXCEPT ![f] = [at |-> "asking", endpoint |-> intelFetch[f].endpoint,
                                                        gen |-> intelFetch[f].gen, left |-> intelFetch[f].left - 1]]
            /\ UNCHANGED <<intelReader, rewarm, servedOld>>
        BY <2>1, <3>1
      <4>2. intelFetch[f].endpoint \in Intel!Endpoint /\ intelFetch[f].gen \in Nat /\ intelFetch[f].left \in Nat
        BY <1>2, <2>1 DEF Asking, Answered
      <4>3. intelFetch'[f] \in Asking /\ intelFetch'[f].gen <= gen /\ intelFetch'[f].at # "answered"
        BY <1>2, <2>1, <3>1, <4>1, <4>2 DEF Asking
      <4>4. intelFetch' \in [Fetches -> {Intel!Idle} \cup Asking \cup Answered]
        BY <1>2, <4>1, <4>3
      <4>5. \A g \in Fetches : g # f => intelFetch'[g] = intelFetch[g]
        BY <1>2, <4>1
      <4>6. Fetching(intelFetch', gen, floor)
        BY <1>1, <4>3, <4>4, <4>5 DEF Fetching
      <4> QED BY <1>1, <4>1, <4>6
    <3>2. CASE ~ (intelFetch[f].left > 0)
      BY <1>3, <2>1, <3>2, SettledFetch
    <3> QED BY <3>1, <3>2
  <2>3. Memory(intelCache', floor) /\ (~ unsaved' => Agree(intelCache', intelStored'))
    <3>1. CASE UNCHANGED <<intelCache, unsaved>>
      BY <1>1, <2>1, <3>1
    <3>2. CASE /\ intelFetch[f].at = "answered" /\ Intel!Current(f)
               /\ unsaved' = TRUE
               /\ intelCache' = [intelCache EXCEPT ![intelFetch[f].endpoint] = x]
      <4>1. x \in Dated /\ Since(x, floor) /\ intelFetch[f].endpoint \in Intel!Endpoint
        BY <1>4, <1>5, <3>2
      <4>2. Memory(intelCache', floor)
        BY <1>1, <3>2, <4>1 DEF Memory
      <4> QED BY <3>2, <4>2
    <3> QED BY <2>1, <3>1, <3>2
  <2> QED BY <1>1, <2>1, <2>2, <2>3 DEF CacheInv
<1> QED BY <1>6, <1>7, <1>8, <1>9

(* The bust, the refreshes and the environment.                            *)
LEMMA OthersKeep ==
    ASSUME CacheAssumption, CacheInv,
           \/ Intel!Bust \/ Intel!RewarmBatch \/ Intel!AlarmFires \/ Intel!AlarmEnds
           \/ Intel!Health \/ Intel!Restart \/ Intel!Publish \/ Intel!Tick
    PROVE  CacheInv'
<1>1. /\ world \in Nat /\ floor \in Nat /\ floor <= world /\ intelNow \in Nat /\ gen \in Nat
      /\ Memory(intelCache, floor) /\ Storage(intelStored, floor)
      /\ Fetching(intelFetch, gen, floor) /\ Waiting(intelReader, floor)
      /\ Todo(rewarm) /\ ~ servedOld
      /\ ~ unsaved => Agree(intelCache, intelStored)
  BY DEF CacheInv
<1>2. CASE Intel!Bust
  <2>1. /\ gen' = gen + 1 /\ floor' = world
        /\ intelCache' = [e \in Intel!Endpoint |-> None]
        /\ intelStored' = [e \in Intel!Endpoint |-> Intel!Deleted(intelStored[e])]
        /\ rewarm' = [rewarm EXCEPT !.todo = @ \cup Intel!RewarmTargets]
        /\ UNCHANGED <<world, intelNow, unsaved, intelFetch, intelReader, servedOld>>
    BY <1>2 DEF Intel!Bust
  <2>2. Memory(intelCache', world) /\ Agree(intelCache', intelStored')
    BY <2>1 DEF Memory, Since, Agree
  <2>3. Storage(intelStored', world)
    <3>1. \A e \in Intel!Endpoint :
             intelStored'[e] \in CacheKeys /\ intelStored'[e].meta = None /\ Intel!Loaded(intelStored'[e]) = None
      BY <1>1, <2>1, NothingIsLoaded DEF Storage
    <3>2. intelStored' = [e \in Intel!Endpoint |-> intelStored'[e]]
      BY <2>1
    <3>3. intelStored' \in [Intel!Endpoint -> CacheKeys]
      BY <3>1, <3>2
    <3>4. \A e \in Whales : e \in Intel!Endpoint
      BY DEF Intel!Endpoint
    <3> QED BY <3>1, <3>3, <3>4 DEF Storage, Loads
  <2>4. Fetching(intelFetch, gen + 1, world)
    <3>1. ASSUME NEW f \in Fetches, intelFetch[f] # Intel!Idle
          PROVE  intelFetch[f].gen <= gen + 1 /\ intelFetch[f].gen # gen + 1
      <4>1. intelFetch[f] \in Asking \cup Answered /\ intelFetch[f].gen <= gen
        BY <1>1, <3>1 DEF Fetching
      <4>2. intelFetch[f].gen \in Nat
        BY <4>1 DEF Asking, Answered
      <4> QED BY <1>1, <4>1, <4>2
    <3> QED BY <1>1, <3>1 DEF Fetching
  <2>5. Waiting(intelReader, world)
    <3>1. ASSUME NEW r \in IntelReaders, Reading(intelReader[r], floor)
          PROVE  Reading(intelReader[r], world)
      BY <1>1, <3>1 DEF Reading
    <3> QED BY <1>1, <3>1 DEF Waiting
  <2>6. Todo(rewarm')
    <3>1. Intel!RewarmTargets \subseteq Intel!Endpoint
      BY DEF Intel!RewarmTargets, Intel!ChatVariants, Intel!Endpoint
    <3> QED BY <1>1, <2>1, <3>1 DEF Todo
  <2> QED BY <1>1, <2>1, <2>2, <2>3, <2>4, <2>5, <2>6 DEF CacheInv
<1>3. CASE Intel!RewarmBatch
  <2>1. UNCHANGED <<world, floor, intelNow, unsaved, intelCache, gen, intelStored, intelReader, servedOld>>
    BY <1>3 DEF Intel!RewarmBatch, Intel!env
  <2>2. PICK E \in SUBSET rewarm.todo :
           Intel!Launch(E, 0) /\ rewarm' = [todo |-> rewarm.todo \ E, wait |-> Intel!Joined(E)]
    BY <1>3 DEF Intel!RewarmBatch
  <2>3. E \in SUBSET Intel!Endpoint /\ Todo(rewarm')
    BY <1>1, <2>2 DEF Todo
  <2>4. Fetching(intelFetch', gen, floor)
    BY <2>2, <2>3, LaunchedFetches
  <2> QED BY <1>1, <2>1, <2>3, <2>4 DEF CacheInv
<1>4. CASE Intel!AlarmFires
  <2>1. UNCHANGED <<world, floor, intelNow, unsaved, intelCache, gen, intelStored, intelReader, rewarm, servedOld>>
    BY <1>4 DEF Intel!AlarmFires, Intel!env
  <2>2. Intel!Launch(Intel!Due, 1)
    BY <1>4 DEF Intel!AlarmFires
  <2>3. Intel!Due \in SUBSET Intel!Endpoint
    BY DEF Intel!Due, Intel!Endpoint, CacheAssumption
  <2>4. Fetching(intelFetch', gen, floor)
    BY <2>2, <2>3, LaunchedFetches
  <2> QED BY <1>1, <2>1, <2>4 DEF CacheInv
<1>5. CASE Intel!AlarmEnds \/ Intel!Health
  BY <1>1, <1>5 DEF Intel!AlarmEnds, Intel!Health, Intel!env, Intel!memory, CacheInv
<1>6. CASE Intel!Restart
  <2>1. /\ gen' = 0
        /\ intelCache' = [e \in Intel!Endpoint |-> IF e \in Chat \ DefaultChat THEN None
                                                   ELSE Intel!AsEntry(Intel!Loaded(intelStored[e]))]
        /\ intelFetch' = [f \in Fetches |-> Intel!Idle]
        /\ intelReader' = [r \in IntelReaders |-> Intel!Idle]
        /\ rewarm' = [todo |-> {}, wait |-> {}]
        /\ UNCHANGED <<world, floor, intelNow, unsaved, intelStored, servedOld>>
    BY <1>6 DEF Intel!Restart, Intel!Fault
  <2>2. Fetching(intelFetch', 0, floor) /\ Waiting(intelReader', floor) /\ Todo(rewarm')
    BY <2>1 DEF Fetching, Waiting, Todo
  <2>3. ASSUME NEW e \in Intel!Endpoint
        PROVE  /\ intelCache'[e] \in Dated \cup {None} /\ Since(intelCache'[e], floor)
               /\ intelCache'[e] = None \/ intelCache'[e] = Intel!AsEntry(Intel!Loaded(intelStored[e]))
    <3>1. intelCache'[e] = None \/ intelCache'[e] = Intel!AsEntry(Intel!Loaded(intelStored[e]))
      BY <2>1
    <3>2. CASE intelCache'[e] = None
      BY <3>1, <3>2 DEF Since
    <3>3. CASE intelCache'[e] # None
      <4>1. Intel!Loaded(intelStored[e]) # None /\ Loads(intelStored[e], floor)
        BY <1>1, <3>1, <3>3 DEF Intel!AsEntry, Storage
      <4>2. PICK v \in Nat, t \in Nat : v >= floor /\ Intel!Loaded(intelStored[e]) = Put(v, t)
        BY <4>1 DEF Loads
      <4>3. intelCache'[e] = [version |-> v, at |-> t]
        BY <3>1, <3>3, <4>2, PutIsEntry
      <4> QED BY <3>1, <4>2, <4>3 DEF Dated, Since
    <3> QED BY <3>2, <3>3
  <2>4. Memory(intelCache', floor)
    BY <2>1, <2>3 DEF Memory
  <2>5. Agree(intelCache', intelStored)
    BY <2>3 DEF Agree
  <2> QED BY <1>1, <2>1, <2>2, <2>4, <2>5 DEF CacheInv
<1>7. CASE Intel!Publish
  <2>1. world' = world + 1 /\ UNCHANGED <<floor, intelNow, unsaved, intelCache, gen, intelStored, intelFetch, intelReader, rewarm, servedOld>>
    BY <1>7 DEF Intel!Publish, Intel!memory
  <2> QED BY <1>1, <2>1 DEF CacheInv
<1>8. CASE Intel!Tick
  <2>1. intelNow' = intelNow + 1 /\ UNCHANGED <<world, floor, unsaved, intelCache, gen, intelStored, intelFetch, intelReader, rewarm, servedOld>>
    BY <1>8 DEF Intel!Tick, Intel!memory
  <2> QED BY <1>1, <2>1 DEF CacheInv
<1> QED BY <1>2, <1>3, <1>4, <1>5, <1>6, <1>7, <1>8

LEMMA CacheStep == CacheAssumption /\ CacheInv /\ [Intel!Next]_Intel!vars => CacheInv'
<1> SUFFICES ASSUME CacheAssumption, CacheInv, [Intel!Next]_Intel!vars PROVE CacheInv'
  OBVIOUS
<1>1. CASE \/ \E e \in Intel!Endpoint : Intel!ReadHit(e) \/ Intel!ReadStale(e)
           \/ \E e \in Intel!Endpoint, r \in IntelReaders : Intel!ReadWaits(r, e)
  BY <1>1, ReadsKeep
<1>2. CASE \E f \in Fetches :
             Intel!Answer(f) \/ Intel!Receive(f) \/ Intel!ReceiveOld(f) \/ Intel!FetchFails(f)
  BY <1>2, FetchesKeep
<1>3. CASE \/ Intel!Bust \/ Intel!RewarmBatch \/ Intel!AlarmFires \/ Intel!AlarmEnds
           \/ Intel!Health \/ Intel!Restart \/ Intel!Publish \/ Intel!Tick
  BY <1>3, OthersKeep
<1>4. CASE UNCHANGED Intel!vars
  BY <1>4 DEF Intel!vars, Intel!env, Intel!memory, CacheInv
<1> QED BY <1>1, <1>2, <1>3, <1>4 DEF Intel!Next

LEMMA CacheImplies == CacheAssumption /\ CacheInv => Intel!NothingFromBeforeBust /\ Intel!RestartKeeps
<1> SUFFICES ASSUME CacheAssumption, CacheInv PROVE Intel!NothingFromBeforeBust /\ Intel!RestartKeeps
  OBVIOUS
<1>1. Memory(intelCache, floor) /\ Storage(intelStored, floor) /\ ~ servedOld /\ (~ unsaved => Agree(intelCache, intelStored))
  BY DEF CacheInv
<1>2. ASSUME NEW e \in Intel!Endpoint, Intel!Loaded(intelStored[e]) # None
      PROVE  \A v \in Intel!Loaded(intelStored[e]).versions : v >= floor
  <2>1. PICK v \in Nat, t \in Nat : v >= floor /\ Intel!Loaded(intelStored[e]) = Put(v, t)
    BY <1>1, <1>2 DEF Storage, Loads
  <2>2. Intel!Loaded(intelStored[e]).versions = {v}
    BY <2>1 DEF Put
  <2> QED BY <2>1, <2>2
<1>3. Intel!NothingFromBeforeBust
  BY <1>1, <1>2 DEF Intel!NothingFromBeforeBust, Memory, Since
<1>4. Intel!RestartKeeps
  BY <1>1 DEF Intel!RestartKeeps, Agree
<1> QED BY <1>3, <1>4

(* After a bust, neither the memory nor the storage of the object that     *)
(* caches the feeds holds anything the backend read before it, and nobody  *)
(* who asked after it is answered with that, whatever fetches were on the  *)
(* way and whatever failed or restarted.                                   *)
THEOREM CacheForgets ==
    ASSUME CacheAssumption
    PROVE  Intel!Spec => []Intel!NothingFromBeforeBust
<1>1. CacheInv => Intel!NothingFromBeforeBust
  BY CacheImplies
<1> QED BY <1>1, CacheInit, CacheStep, PTL DEF Intel!Spec

(* What a restart puts together from storage is what memory held: the      *)
(* chunks of two values are never mixed, unless storage refused a save.    *)
THEOREM CacheRestarts ==
    ASSUME CacheAssumption
    PROVE  Intel!Spec => []Intel!RestartKeeps
<1>1. CacheInv => Intel!RestartKeeps
  BY CacheImplies
<1> QED BY <1>1, CacheInit, CacheStep, PTL DEF Intel!Spec

-----------------------------------------------------------------------------
(***************************************************************************)
(* RateLimit.                                                              *)
(***************************************************************************)
Rates == INSTANCE RateLimit WITH
    now <- ratesNow, status <- ratesStatus, overlapped <- ratesOverlapped,
    MaxTime <- RatesMaxTime

(* The count of a minute outlasts it (index.ts: a time to live of 120      *)
(* seconds).                                                               *)
RateAssumption ==
    /\ Minute \in Nat \ {0} /\ KeptFor \in Nat /\ Minute <= KeptFor
    /\ FreeLimit \in Nat /\ TrialLimit \in Nat /\ SubscriberLimit \in Nat
    /\ None \notin [n : Nat, minute : Nat, until : Nat]

Counts == [n : Nat, minute : Nat, until : Nat]
Callings == [at : {"reading", "writing"}, route : Routes, bucket : Nat, limit : Nat, n : Nat]

RateTypes ==
    /\ ratesNow \in Nat
    /\ count \in [Routes -> Counts \cup {None}]
    /\ caller \in [Callers -> Callings \cup {Rates!Idle}]
    /\ granted \in [Routes -> Nat]
    /\ allowed \in Nat

(* Nothing is of a minute that has not begun.                              *)
Begun ==
    /\ \A route \in Routes : count[route] # None => count[route].minute <= ratesNow \div Minute
    /\ \A c \in Callers : caller[c] # Rates!Idle => caller[c].bucket <= ratesNow \div Minute

(* The count of this minute is no less than what it let through, and lasts *)
(* until the minute is over.                                               *)
CountedWell(x, n, m) ==
    /\ x # None
    /\ x.minute = m
    /\ x.n >= n
    /\ x.until >= m * Minute + Minute

GrantedInv ==
    ~ ratesOverlapped =>
        \A route \in Routes : granted[route] > 0 =>
            granted[route] <= allowed /\ CountedWell(count[route], granted[route], ratesNow \div Minute)

(* A request of this minute, and one that is to write its count.           *)
Present(q, m) == q # Rates!Idle /\ q.bucket = m
Writer(q, m) == Present(q, m) /\ q.at = "writing"

CallerInv ==
    /\ \A c \in Callers : Present(caller[c], ratesNow \div Minute) => caller[c].limit <= allowed
    /\ \A c \in Callers : Writer(caller[c], ratesNow \div Minute) => caller[c].n <= caller[c].limit
    /\ ~ ratesOverlapped =>
          /\ \A c \in Callers : Writer(caller[c], ratesNow \div Minute) => caller[c].n > granted[caller[c].route]
          /\ \A c, d \in Callers :
                /\ Writer(caller[c], ratesNow \div Minute) /\ Writer(caller[d], ratesNow \div Minute)
                /\ caller[c].route = caller[d].route
                => c = d

RateInv == RateTypes /\ Begun /\ GrantedInv /\ CallerInv

LEMMA RateInit == RateAssumption /\ Rates!Init => RateInv
<1> SUFFICES ASSUME RateAssumption, Rates!Init PROVE RateInv
  OBVIOUS
<1>1. /\ ratesNow = 0 /\ allowed = 0
      /\ count = [route \in Routes |-> None]
      /\ caller = [c \in Callers |-> Rates!Idle]
      /\ granted = [route \in Routes |-> 0]
  BY DEF Rates!Init
<1>2. RateTypes
  BY <1>1 DEF RateTypes
<1>3. Begun
  BY <1>1 DEF Begun
<1>4. GrantedInv /\ CallerInv
  BY <1>1 DEF GrantedInv, CallerInv, Present, Writer
<1> QED BY <1>2, <1>3, <1>4 DEF RateInv

LEMMA MinuteIs ==
    ASSUME RateAssumption, RateInv
    PROVE  /\ ratesNow \div Minute \in Nat /\ ratesNow < (ratesNow \div Minute) * Minute + Minute
           /\ (ratesNow \div Minute) * Minute <= ratesNow
<1>1. ratesNow \in Nat /\ Minute \in Nat \ {0}
  BY DEF RateAssumption, RateInv, RateTypes
<1> QED BY <1>1, Quotient

LEMMA AsksStep ==
    ASSUME RateAssumption, RateInv, NEW c \in Callers, NEW route \in Routes, Rates!Asks(c, route)
    PROVE  RateInv'
<1> DEFINE limit == Rates!RateLimitPerMinute
           q == [at |-> "reading", route |-> route, bucket |-> ratesNow \div Minute, limit |-> limit, n |-> 0]
<1>1. /\ caller[c] = Rates!Idle
      /\ caller' = [caller EXCEPT ![c] = q]
      /\ allowed' = IF limit > allowed THEN limit ELSE allowed
      /\ UNCHANGED <<ratesNow, count, granted, ratesOverlapped>>
  BY DEF Rates!Asks
<1>2. limit \in Nat
  BY DEF Rates!RateLimitPerMinute, RateAssumption
<1> HIDE DEF limit
<1>3. ratesNow \div Minute \in Nat
  BY MinuteIs
<1>4. q \in Callings /\ q # Rates!Idle /\ q.at # "writing" /\ q.bucket = ratesNow \div Minute /\ q.limit = limit
  BY <1>2, <1>3 DEF Callings, Rates!Idle
<1> HIDE DEF q
<1>5. RateTypes /\ Begun /\ GrantedInv /\ CallerInv
  BY DEF RateInv
<1>6. allowed' \in Nat /\ allowed <= allowed' /\ limit <= allowed'
  BY <1>1, <1>2, <1>5 DEF RateTypes
<1>7. caller'[c] = q /\ \A d \in Callers : d # c => caller'[d] = caller[d]
  BY <1>1, <1>5 DEF RateTypes
<1>8. RateTypes'
  BY <1>1, <1>4, <1>5, <1>6 DEF RateTypes
<1>9. Begun'
  BY <1>1, <1>3, <1>4, <1>5, <1>7 DEF Begun
<1>10. GrantedInv'
  <2>1. \A r \in Routes : granted[r] \in Nat
    BY <1>5 DEF RateTypes
  <2>2. allowed \in Nat
    BY <1>5 DEF RateTypes
  <2> QED BY <1>1, <1>5, <1>6, <2>1, <2>2 DEF GrantedInv
<1>11. CallerInv'
  <2>1. \A d \in Callers : Writer(caller'[d], ratesNow' \div Minute) =>
           d # c /\ caller'[d] = caller[d] /\ Writer(caller[d], ratesNow \div Minute)
    BY <1>1, <1>4, <1>7 DEF Writer
  <2>2. ASSUME NEW d \in Callers, Present(caller'[d], ratesNow' \div Minute)
        PROVE  caller'[d].limit <= allowed'
    <3>1. CASE d = c
      BY <1>4, <1>6, <1>7, <3>1
    <3>2. CASE d # c
      <4>1. caller[d].limit <= allowed /\ caller[d] # Rates!Idle
        BY <1>1, <1>5, <1>7, <2>2, <3>2 DEF CallerInv, Present
      <4>2. caller[d].limit \in Nat /\ allowed \in Nat
        BY <1>5, <4>1 DEF RateTypes, Callings
      <4> QED BY <1>6, <1>7, <3>2, <4>1, <4>2
    <3> QED BY <3>1, <3>2
  <2> QED BY <1>1, <1>5, <2>1, <2>2 DEF CallerInv
<1> QED BY <1>8, <1>9, <1>10, <1>11 DEF RateInv

(* A minute ends exactly where now' is a multiple of it.                   *)
LEMMA NextMinute ==
    ASSUME NEW n \in Nat, NEW M \in Nat \ {0}
    PROVE  /\ (n + 1) % M = 0 => n \div M < (n + 1) \div M
           /\ (n + 1) % M # 0 => n \div M = (n + 1) \div M
<1> DEFINE a == n \div M
           b == (n + 1) \div M
           ma == M * a
           mb == M * b
           r == (n + 1) % M
<1>1. a \in Nat /\ ma <= n /\ n < ma + M
  BY Quotient
<1>2. b \in Nat /\ mb <= n + 1 /\ n + 1 < mb + M /\ n + 1 = mb + r /\ r \in 0 .. M - 1
  <2>1. n + 1 \in Nat
    OBVIOUS
  <2> QED BY <2>1, Quotient
<1>3. ma \in Int /\ mb \in Int
  BY <1>1, <1>2
<1>4. a < b => ma + M <= mb
  BY <1>1, <1>2, Multiples
<1>5. b < a => mb + M <= ma
  BY <1>1, <1>2, Multiples
<1>6. a = b => ma = mb
  OBVIOUS
<1> HIDE DEF a, b, ma, mb, r
<1>7. r = 0 => a < b
  BY <1>1, <1>2, <1>3, <1>5, <1>6
<1>8. r # 0 => a = b
  BY <1>1, <1>2, <1>3, <1>4, <1>5
<1> QED BY <1>7, <1>8 DEF a, b, r

LEMMA ReadsStep ==
    ASSUME RateAssumption, RateInv, NEW c \in Callers, Rates!Reads(c)
    PROVE  RateInv'
<1> DEFINE q == caller[c]
           m == ratesNow \div Minute
           n == Rates!CurrentCount(q.route, q.bucket)
           next == IF n >= q.limit THEN Rates!Idle ELSE [q EXCEPT !.at = "writing", !.n = n + 1]
<1>1. /\ q.at = "reading"
      /\ caller' = [caller EXCEPT ![c] = next]
      /\ ratesOverlapped' = (ratesOverlapped \/ \E d \in Callers : caller[d].at = "writing" /\ caller[d].route = q.route
                                                               /\ caller[d].bucket = q.bucket)
      /\ UNCHANGED <<ratesNow, count, granted, allowed>>
  BY DEF Rates!Reads
<1>2. RateTypes /\ Begun /\ GrantedInv /\ CallerInv
  BY DEF RateInv
<1>3. q \in Callings /\ q # Rates!Idle
  BY <1>1, <1>2 DEF RateTypes, Rates!Idle, Callings
<1>4. n \in Nat
  BY <1>2, <1>3 DEF Rates!CurrentCount, RateTypes, Counts, Callings
<1>5. q.bucket = m /\ ~ ratesOverlapped => n >= granted[q.route]
  <2> SUFFICES ASSUME q.bucket = m, ~ ratesOverlapped, granted[q.route] > 0 PROVE n >= granted[q.route]
    BY <1>2, <1>3, <1>4 DEF RateTypes, Callings
  <2> DEFINE x == count[q.route]
  <2>1. CountedWell(x, granted[q.route], m)
    BY <1>2, <1>3 DEF GrantedInv, Callings
  <2>2. ratesNow < m * Minute + Minute /\ m * Minute \in Nat
    BY MinuteIs DEF RateAssumption
  <2>3. x \in Counts /\ ratesNow \in Nat /\ Minute \in Nat
    BY <1>2, <1>3, <2>1 DEF RateTypes, CountedWell, Callings, RateAssumption
  <2>4. x.until > ratesNow
    <3> DEFINE u == x.until
               s == m * Minute
    <3>1. u \in Nat /\ s \in Nat /\ u >= s + Minute /\ ratesNow < s + Minute
      BY <2>1, <2>2, <2>3 DEF CountedWell, Counts
    <3> HIDE DEF u, s
    <3>2. u > ratesNow
      BY <3>1, <2>3
    <3> QED BY <3>2 DEF u
  <2>5. n = x.n
    BY <2>1, <2>4 DEF Rates!CurrentCount, CountedWell
  <2> QED BY <2>1, <2>5 DEF CountedWell
<1>6. next = Rates!Idle \/ (/\ next \in Callings /\ next # Rates!Idle /\ next.at = "writing" /\ next.route = q.route
                            /\ next.bucket = q.bucket /\ next.limit = q.limit /\ next.n = n + 1 /\ n < q.limit)
  <2>1. CASE n >= q.limit
    BY <2>1
  <2>2. CASE ~ (n >= q.limit)
    <3> DEFINE w == [q EXCEPT !.at = "writing", !.n = n + 1]
    <3>1. n + 1 \in Nat /\ q.limit \in Nat
      BY <1>3, <1>4 DEF Callings
    <3> HIDE DEF n
    <3>2. /\ w \in Callings /\ w.at = "writing" /\ w.route = q.route
          /\ w.bucket = q.bucket /\ w.limit = q.limit /\ w.n = n + 1
      BY <1>3, <3>1 DEF Callings
    <3>3. w # Rates!Idle
      BY <3>2 DEF Rates!Idle
    <3>4. n < q.limit
      BY <1>4, <2>2, <3>1
    <3>5. next = w
      BY <2>2
    <3> HIDE DEF w, next
    <3> QED BY <3>2, <3>3, <3>4, <3>5
  <2> QED BY <2>1, <2>2
<1> HIDE DEF n, next, m
<1>7. caller'[c] = next /\ \A d \in Callers : d # c => caller'[d] = caller[d]
  BY <1>1, <1>2 DEF RateTypes
<1>8. RateTypes'
  <2>1. next \in Callings \cup {Rates!Idle}
    BY <1>6
  <2> QED BY <1>1, <1>2, <2>1 DEF RateTypes
<1>9. Begun'
  <2>1. q.bucket <= ratesNow \div Minute
    BY <1>2, <1>3 DEF Begun
  <2> QED BY <1>1, <1>2, <1>6, <1>7, <2>1 DEF Begun
<1>10. GrantedInv'
  BY <1>1, <1>2 DEF GrantedInv
<1>11. CallerInv'
  <2>1. ratesNow' \div Minute = m
    BY <1>1 DEF m
  <2>2. ASSUME NEW d \in Callers, Present(caller'[d], m)
        PROVE  caller'[d].limit <= allowed' /\ (Writer(caller'[d], m) => caller'[d].n <= caller'[d].limit)
    <3>1. CASE d = c
      <4>1. next # Rates!Idle /\ Present(q, m)
        BY <1>3, <1>6, <1>7, <2>2, <3>1 DEF Present
      <4>2. q.limit <= allowed
        BY <1>2, <4>1 DEF CallerInv, m
      <4>3. q.limit \in Nat
        BY <1>3 DEF Callings
      <4>4. next.n <= next.limit
        BY <1>4, <1>6, <4>1, <4>3
      <4> QED BY <1>1, <1>6, <1>7, <3>1, <4>1, <4>2, <4>4
    <3>2. CASE d # c
      BY <1>1, <1>2, <1>7, <2>2, <3>2 DEF CallerInv, m
    <3> QED BY <3>1, <3>2
  <2>3. ASSUME ~ ratesOverlapped', NEW d \in Callers, Writer(caller'[d], m)
        PROVE  /\ ~ ratesOverlapped
               /\ d # c => Writer(caller[d], m) /\ caller'[d] = caller[d]
               /\ d = c => caller'[d] = next /\ next # Rates!Idle /\ q.bucket = m
               /\ d # c /\ q.bucket = m => caller[d].route # q.route
    BY <1>1, <1>6, <1>7, <2>3 DEF Writer, Present
  <2>4. ASSUME ~ ratesOverlapped', NEW d \in Callers, Writer(caller'[d], m)
        PROVE  caller'[d].n > granted'[caller'[d].route]
    <3>1. CASE d = c
      <4>1. n >= granted[q.route] /\ granted[q.route] \in Nat
        BY <1>2, <1>3, <1>5, <2>3, <2>4, <3>1 DEF RateTypes, Callings
      <4>2. n + 1 > granted[q.route]
        BY <1>4, <4>1
      <4> QED BY <1>1, <1>6, <2>3, <2>4, <3>1, <4>2
    <3>2. CASE d # c
      BY <1>1, <1>2, <2>3, <2>4, <3>2 DEF CallerInv, m
    <3> QED BY <3>1, <3>2
  <2>5. ASSUME ~ ratesOverlapped', NEW d \in Callers, NEW e \in Callers, Writer(caller'[d], m), Writer(caller'[e], m),
               caller'[d].route = caller'[e].route
        PROVE  d = e
    <3>1. CASE d # c /\ e # c
      BY <1>2, <2>3, <2>5, <3>1 DEF CallerInv, m
    <3>2. CASE d = c /\ e # c
      BY <1>6, <2>3, <2>5, <3>2
    <3>3. CASE d # c /\ e = c
      BY <1>6, <2>3, <2>5, <3>3
    <3> QED BY <3>1, <3>2, <3>3
  <2>6. \A d \in Callers : Writer(caller'[d], m) => Present(caller'[d], m)
    BY DEF Writer
  <2> QED BY <2>1, <2>2, <2>4, <2>5, <2>6 DEF CallerInv
<1> QED BY <1>8, <1>9, <1>10, <1>11 DEF RateInv

LEMMA WritesStep ==
    ASSUME RateAssumption, RateInv, NEW c \in Callers, Rates!Writes(c)
    PROVE  RateInv'
<1> DEFINE q == caller[c]
           r == q.route
           m == ratesNow \div Minute
           old == count[r]
           new == [n |-> q.n, minute |-> q.bucket, until |-> ratesNow + KeptFor]
           kept == old # None /\ old.minute > q.bucket
<1>1. /\ q.at = "writing"
      /\ count' = [count EXCEPT ![r] = IF kept THEN old ELSE new]
      /\ granted' = IF q.bucket = m THEN [granted EXCEPT ![r] = @ + 1] ELSE granted
      /\ caller' = [caller EXCEPT ![c] = Rates!Idle]
      /\ UNCHANGED <<ratesNow, allowed, ratesOverlapped>>
  <2>1. [Rates!Stored(q.bucket) EXCEPT !.n = q.n] = new
    BY DEF Rates!Stored
  <2> QED BY <2>1 DEF Rates!Writes
<1>2. RateTypes /\ Begun /\ GrantedInv /\ CallerInv
  BY DEF RateInv
<1>3. q \in Callings /\ q # Rates!Idle
  BY <1>1, <1>2 DEF RateTypes, Rates!Idle, Callings
<1>4. /\ r \in Routes /\ q.bucket \in Nat /\ q.n \in Nat /\ q.limit \in Nat
      /\ ratesNow \in Nat /\ KeptFor \in Nat /\ Minute \in Nat /\ allowed \in Nat
      /\ m \in Nat /\ q.bucket <= m
  BY <1>2, <1>3, MinuteIs DEF RateTypes, Callings, RateAssumption, Begun
<1>5. new \in Counts /\ new # None /\ new.minute = q.bucket /\ new.n = q.n /\ new.until = ratesNow + KeptFor
  BY <1>4 DEF Counts, RateAssumption
<1>6. old # None => old \in Counts /\ old.minute \in Nat /\ old.minute <= m
  BY <1>2, <1>4 DEF RateTypes, Begun, Counts
<1> HIDE DEF new, m, old, r
<1>7. /\ caller'[c] = Rates!Idle
      /\ \A d \in Callers : d # c => caller'[d] = caller[d]
      /\ \A s \in Routes : s # r => count'[s] = count[s] /\ granted'[s] = granted[s]
      /\ count'[r] = IF kept THEN old ELSE new
      /\ granted'[r] = IF q.bucket = m THEN granted[r] + 1 ELSE granted[r]
  BY <1>1, <1>2, <1>4 DEF RateTypes
<1>8. ratesNow' \div Minute = m
  BY <1>1 DEF m
<1>9. RateTypes'
  <2>1. old \in Counts \cup {None}
    BY <1>6
  <2>2. count' \in [Routes -> Counts \cup {None}]
    BY <1>1, <1>2, <1>5, <2>1 DEF RateTypes
  <2>3. granted' \in [Routes -> Nat]
    <3>1. granted[r] + 1 \in Nat
      BY <1>2, <1>4 DEF RateTypes
    <3>2. [granted EXCEPT ![r] = granted[r] + 1] \in [Routes -> Nat]
      BY <1>2, <3>1 DEF RateTypes
    <3> QED BY <1>1, <1>2, <3>2 DEF RateTypes
  <2> QED BY <1>1, <1>2, <2>2, <2>3 DEF RateTypes
<1>10. Begun'
  <2>1. ASSUME NEW s \in Routes, count'[s] # None PROVE count'[s].minute <= m
    <3>1. CASE s = r
      BY <1>4, <1>5, <1>6, <1>7, <3>1
    <3>2. CASE s # r
      BY <1>2, <1>7, <2>1, <3>2 DEF Begun, m
    <3> QED BY <3>1, <3>2
  <2>2. ASSUME NEW d \in Callers, caller'[d] # Rates!Idle PROVE caller'[d].bucket <= m
    BY <1>2, <1>7, <2>2 DEF Begun, m
  <2> QED BY <1>8, <2>1, <2>2 DEF Begun
<1>11. Writer(q, m) <=> q.bucket = m
  BY <1>1, <1>3 DEF Writer, Present
<1>12. GrantedInv'
  <2> SUFFICES ASSUME ~ ratesOverlapped, NEW s \in Routes, granted'[s] > 0
               PROVE  granted'[s] <= allowed /\ CountedWell(count'[s], granted'[s], m)
    BY <1>1, <1>8 DEF GrantedInv
  <2>1. CASE s # r
    BY <1>2, <1>7, <2>1 DEF GrantedInv, m
  <2>2. CASE s = r /\ q.bucket = m
    <3>1. ~ kept
      BY <1>4, <1>6, <2>2
    <3>2. q.n > granted[r] /\ q.n <= q.limit /\ q.limit <= allowed /\ granted[r] \in Nat
      BY <1>2, <1>4, <1>11, <2>2 DEF CallerInv, m, r, Writer, RateTypes
    <3>3. granted[r] + 1 <= allowed /\ granted[r] + 1 <= q.n
      BY <1>4, <3>2
    <3>4. ratesNow + KeptFor >= m * Minute + Minute
      <4> DEFINE w == m * Minute
      <4>1. w <= ratesNow /\ w \in Nat /\ Minute <= KeptFor
        BY <1>4, MinuteIs DEF m, RateAssumption
      <4> HIDE DEF w
      <4>2. ratesNow + KeptFor >= w + Minute
        BY <1>4, <4>1
      <4> QED BY <4>2 DEF w
    <3>5. CountedWell(new, granted[r] + 1, m)
      BY <1>5, <2>2, <3>3, <3>4 DEF CountedWell
    <3> QED BY <1>7, <2>2, <3>1, <3>3, <3>5
  <2>3. CASE s = r /\ q.bucket # m
    <3>1. granted'[r] = granted[r] /\ granted[r] > 0
      BY <1>7, <2>3
    <3>2. granted[r] <= allowed /\ CountedWell(old, granted[r], m)
      BY <1>2, <1>4, <3>1 DEF GrantedInv, m, old
    <3>3. kept
      <4>1. old # None /\ old.minute = m
        BY <3>2 DEF CountedWell
      <4>2. m > q.bucket
        <5> HIDE DEF kept, q
        <5> QED BY <1>4, <2>3
      <4>3. old.minute > q.bucket
        <5> HIDE DEF kept, q
        <5> QED BY <4>1, <4>2
      <4> QED BY <4>1, <4>3
    <3> QED BY <1>7, <2>3, <3>1, <3>2, <3>3
  <2> QED BY <2>1, <2>2, <2>3
<1>13. CallerInv'
  <2>1. ASSUME NEW d \in Callers, Present(caller'[d], m)
        PROVE  d # c /\ caller'[d] = caller[d] /\ Present(caller[d], m)
    BY <1>7, <2>1 DEF Present
  <2>2. ASSUME ~ ratesOverlapped, NEW d \in Callers, Writer(caller'[d], m)
        PROVE  caller'[d].n > granted'[caller'[d].route]
    <3>1. d # c /\ caller'[d] = caller[d] /\ Writer(caller[d], m)
      BY <2>1, <2>2 DEF Writer
    <3>2. caller[d].n > granted[caller[d].route] /\ caller[d].route \in Routes
      BY <1>2, <2>2, <3>1 DEF CallerInv, m, Writer, Present, RateTypes, Callings
    <3>3. CASE caller[d].route # r
      BY <1>7, <3>1, <3>2, <3>3
    <3>4. CASE caller[d].route = r
      <4>1. q.bucket # m
        BY <1>2, <1>11, <2>2, <3>1, <3>4 DEF CallerInv, m, r
      <4> QED BY <1>7, <3>1, <3>2, <3>4, <4>1
    <3> QED BY <3>3, <3>4
  <2>3. \A d \in Callers : Writer(caller'[d], m) => Present(caller'[d], m)
    BY DEF Writer
  <2>4. \A d \in Callers : Present(caller'[d], m) => caller'[d].limit <= allowed
    BY <1>2, <2>1 DEF CallerInv, m
  <2>5. \A d \in Callers : Writer(caller'[d], m) => caller'[d].n <= caller'[d].limit /\ Writer(caller[d], m)
    BY <1>2, <2>1, <2>3 DEF CallerInv, m, Writer
  <2>6. ~ ratesOverlapped => \A d, e \in Callers : /\ Writer(caller'[d], m) /\ Writer(caller'[e], m)
                                                   /\ caller'[d].route = caller'[e].route
                                                   => d = e
    BY <1>2, <2>1, <2>3, <2>5 DEF CallerInv, m
  <2> QED BY <1>1, <1>8, <2>2, <2>4, <2>5, <2>6 DEF CallerInv
<1> QED BY <1>9, <1>10, <1>12, <1>13 DEF RateInv

LEMMA ThrowsStep ==
    ASSUME RateInv, NEW c \in Callers, Rates!Throws(c)
    PROVE  RateInv'
<1>1. /\ caller' = [caller EXCEPT ![c] = Rates!Idle]
      /\ UNCHANGED <<ratesNow, count, granted, allowed, ratesOverlapped>>
  BY DEF Rates!Throws
<1>2. RateTypes /\ Begun /\ GrantedInv /\ CallerInv
  BY DEF RateInv
<1>3. caller'[c] = Rates!Idle /\ \A d \in Callers : d # c => caller'[d] = caller[d]
  BY <1>1, <1>2 DEF RateTypes
<1>4. RateTypes'
  BY <1>1, <1>2 DEF RateTypes
<1>5. Begun'
  BY <1>1, <1>2, <1>3 DEF Begun
<1>6. GrantedInv'
  BY <1>1, <1>2 DEF GrantedInv
<1>7. \A d \in Callers : Present(caller'[d], ratesNow' \div Minute) => caller'[d] = caller[d] /\ Present(caller[d], ratesNow \div Minute)
  BY <1>1, <1>3 DEF Present
<1>8. CallerInv'
  BY <1>1, <1>2, <1>7 DEF CallerInv, Writer
<1> QED BY <1>4, <1>5, <1>6, <1>8 DEF RateInv

LEMMA RateTickStep ==
    ASSUME RateAssumption, RateInv, Rates!Tick
    PROVE  RateInv'
<1> DEFINE m == ratesNow \div Minute
           next == ratesNow' \div Minute
<1>1. ratesNow' = ratesNow + 1 /\ UNCHANGED <<count, caller>>
  BY DEF Rates!Tick
<1>2. RateTypes /\ Begun /\ GrantedInv /\ CallerInv
  BY DEF RateInv
<1>3. ratesNow \in Nat /\ Minute \in Nat \ {0} /\ m \in Nat /\ next \in Nat
  <2>1. ratesNow \in Nat /\ ratesNow + 1 \in Nat /\ Minute \in Nat \ {0}
    BY <1>2 DEF RateTypes, RateAssumption
  <2>2. m \in Nat
    BY <2>1, Quotient
  <2>3. (ratesNow + 1) \div Minute \in Nat
    BY <2>1, Quotient
  <2> QED BY <1>1, <2>1, <2>2, <2>3
<1>4. /\ ratesNow' % Minute = 0 => m < next
      /\ ratesNow' % Minute # 0 => m = next
  BY <1>1, <1>3, NextMinute
<1>5. Begun'
  <2> HIDE DEF m, next
  <2>1. \A route \in Routes : count[route] # None => count[route].minute \in Nat /\ count[route].minute <= m
    BY <1>2 DEF RateTypes, Begun, Counts, m
  <2>2. \A c \in Callers : caller[c] # Rates!Idle => caller[c].bucket \in Nat /\ caller[c].bucket <= m
    BY <1>2 DEF RateTypes, Begun, Callings, m
  <2>3. m <= next
    BY <1>3, <1>4
  <2>4. \A b \in Nat : b <= m => b <= next
    BY <1>3, <2>3
  <2> QED BY <1>1, <2>1, <2>2, <2>4 DEF Begun, next
<1>6. CASE ratesNow' % Minute = 0
  <2>1. granted' = [route \in Routes |-> 0] /\ allowed' = 0
    BY <1>6 DEF Rates!Tick
  <2>2. RateTypes'
    BY <1>1, <1>2, <2>1 DEF RateTypes
  <2>3. GrantedInv'
    BY <2>1 DEF GrantedInv
  <2>4. \A c \in Callers : ~ Present(caller'[c], next)
    <3> HIDE DEF m, next
    <3>1. \A c \in Callers : caller[c] # Rates!Idle => caller[c].bucket \in Nat /\ caller[c].bucket <= m
      BY <1>2 DEF RateTypes, Begun, Callings, m
    <3> QED BY <1>1, <1>3, <1>4, <1>6, <3>1 DEF Present
  <2>5. CallerInv'
    BY <2>4 DEF CallerInv, Writer
  <2> QED BY <1>5, <2>2, <2>3, <2>5 DEF RateInv
<1>7. CASE ratesNow' % Minute # 0
  <2>1. UNCHANGED <<granted, allowed, ratesOverlapped>>
    BY <1>7 DEF Rates!Tick
  <2>2. RateTypes'
    BY <1>1, <1>2, <2>1 DEF RateTypes
  <2>3. m = next
    BY <1>4, <1>7
  <2>4. GrantedInv'
    BY <1>1, <1>2, <2>1, <2>3 DEF GrantedInv
  <2>5. CallerInv'
    BY <1>1, <1>2, <2>1, <2>3 DEF CallerInv
  <2> QED BY <1>5, <2>2, <2>4, <2>5 DEF RateInv
<1> QED BY <1>6, <1>7

LEMMA RateStep ==
    ASSUME RateAssumption, RateInv, [Rates!Next]_(Rates!vars)
    PROVE  RateInv'
<1>1. ASSUME NEW c \in Callers, Rates!Reads(c) PROVE RateInv'
  BY <1>1, ReadsStep
<1>2. ASSUME NEW c \in Callers, Rates!Writes(c) PROVE RateInv'
  BY <1>2, WritesStep
<1>3. ASSUME NEW c \in Callers, Rates!Throws(c) PROVE RateInv'
  BY <1>3, ThrowsStep
<1>4. ASSUME NEW c \in Callers, NEW route \in Routes, Rates!Asks(c, route) PROVE RateInv'
  BY <1>4, AsksStep
<1>5. CASE Rates!Tick
  BY <1>5, RateTickStep
<1>6. CASE Rates!AccountChanges \/ UNCHANGED Rates!vars
  BY <1>6 DEF Rates!AccountChanges, Rates!vars, RateInv, RateTypes, Begun, GrantedInv, CallerInv
<1> QED BY <1>1, <1>2, <1>3, <1>4, <1>5, <1>6 DEF Rates!Next

(* Unless two requests of a minute overlapped, no more are let through in  *)
(* it than the highest limit the user had in it (checkRateLimit), however  *)
(* the account changes and whatever KV refuses.                            *)
THEOREM RatesWithinLimit ==
    ASSUME RateAssumption
    PROVE  Rates!Spec => []Rates!WithinLimit
<1>1. RateInv => Rates!WithinLimit
  BY DEF RateInv, GrantedInv, Rates!WithinLimit
<1> QED BY <1>1, RateInit, RateStep, PTL DEF Rates!Spec

-----------------------------------------------------------------------------
(***************************************************************************)
(* TelegramTexts.                                                          *)
(***************************************************************************)
Texts == INSTANCE TelegramTexts WITH
    now <- textsNow, cache <- textsCache, faults <- textsFaults,
    lost <- textsLost, Foreign <- TextsForeign, Base <- TextsBase,
    CacheTtl <- TextsCacheTtl, MaxTime <- TextsMaxTime,
    MaxFaults <- TextsMaxFaults

(* Every set of numbers that is not empty has a least one.                 *)
LEMMA LeastNumber == ASSUME NEW T \in SUBSET Nat, T # {} PROVE \E x \in T : \A y \in T : x <= y
<1> DEFINE R == OpToRel(<, Nat)
<1>1. IsWellFoundedOn(R, Nat)
  BY NatLessThanWellFounded
<1>2. \A x \in Nat, y \in Nat : y < x => <<y, x>> \in R
  BY DEF OpToRel
<1> HIDE DEF R
<1>3. PICK x \in T : \A y \in T : ~ (<<y, x>> \in R)
  BY <1>1, WFMin
<1>4. \A y \in T : ~ (y < x)
  BY <1>2, <1>3
<1>5. x \in Nat /\ \A y \in T : y \in Nat
  OBVIOUS
<1>6. \A y \in T : x <= y
  BY <1>4, <1>5
<1> QED BY <1>3, <1>6

(* Induction, for a set.                                                   *)
LEMMA Everyone == ASSUME NEW S, 0 \in S, \A n \in Nat : n \in S => n + 1 \in S PROVE Nat \subseteq S
<1> DEFINE T == Nat \ S
<1> SUFFICES ASSUME T # {} PROVE FALSE
  OBVIOUS
<1>1. PICK x \in T : \A y \in T : x <= y
  BY LeastNumber
<1>2. x \in Nat /\ x # 0 /\ x - 1 \in Nat /\ ~ (x <= x - 1)
  OBVIOUS
<1>3. x - 1 \in S
  BY <1>1, <1>2
<1>4. (x - 1) + 1 = x
  BY <1>2
<1>5. x \in S
  BY <1>2, <1>3, <1>4
<1> QED BY <1>5

(* What has failed is remembered for longer than the longest pause         *)
(* (telegram-scraper-do.ts: seven days, and at most one).                  *)
TextsAssumption ==
    /\ TextsBase \in Nat /\ Longest \in Nat /\ RetryTtl \in Nat
    /\ Longest <= RetryTtl
    /\ TextsMaxTime \in Nat /\ TextsMaxFaults \in Nat
    /\ Photos \subseteq Messages
    /\ None \notin Texts!Versions
    /\ None \notin [fails : Nat, next : Nat, at : Nat]
    /\ None \notin [fails : Nat, at : Nat]

(* The first n doublings.                                                  *)
Doubling(f, n) == f \in [0..n -> Nat] /\ f[0] = TextsBase /\ \A i \in 1..n : f[i] = 2 * f[i - 1]

LEMMA DoublingExists == ASSUME TextsAssumption PROVE \A n \in Nat : \E f : Doubling(f, n)
<1> DEFINE S == {n \in Nat : \E f : Doubling(f, n)}
<1>1. 0 \in S
  <2>1. Doubling([i \in 0..0 |-> TextsBase], 0)
    BY DEF Doubling, TextsAssumption
  <2> QED BY <2>1
<1>2. ASSUME NEW n \in Nat, n \in S PROVE n + 1 \in S
  <2>1. PICK f : Doubling(f, n)
    BY <1>2
  <2> DEFINE g == [i \in 0..n + 1 |-> IF i <= n THEN f[i] ELSE 2 * f[n]]
  <2>2. \A i \in 0..n : f[i] \in Nat /\ g[i] = f[i]
    BY <2>1 DEF Doubling
  <2>3. g[n + 1] = 2 * f[n] /\ 2 * f[n] \in Nat
    <3>1. n \in 0..n /\ n + 1 \in 0..n + 1 /\ ~ (n + 1 <= n)
      OBVIOUS
    <3>2. f[n] \in Nat
      BY <2>2, <3>1
    <3>3. 2 * f[n] \in Nat
      BY <3>2
    <3> QED BY <3>1, <3>3
  <2>4. g \in [0..n + 1 -> Nat]
    <3>1. \A i \in 0..n + 1 : i \in 0..n \/ i = n + 1
      OBVIOUS
    <3>2. \A i \in 0..n + 1 : g[i] \in Nat
      BY <2>2, <2>3, <3>1
    <3> QED BY <3>2
  <2>5. g[0] = TextsBase
    BY <2>1, <2>2 DEF Doubling
  <2>6. ASSUME NEW i \in 1..n + 1 PROVE g[i] = 2 * g[i - 1]
    <3>1. i - 1 \in 0..n /\ g[i - 1] = f[i - 1]
      BY <2>2
    <3>2. CASE i \in 1..n
      BY <2>1, <2>2, <3>1, <3>2 DEF Doubling
    <3>3. CASE i = n + 1
      BY <2>3, <3>1, <3>3
    <3> QED BY <3>2, <3>3
  <2> HIDE DEF g
  <2>7. Doubling(g, n + 1)
    BY <2>4, <2>5, <2>6 DEF Doubling
  <2> QED BY <2>7
<1>3. Nat \subseteq S
  <2> HIDE DEF S
  <2> QED BY <1>1, <1>2, Everyone
<1> QED BY <1>3

LEMMA DoublingsAgree ==
    \A i \in Nat : \A n \in Nat, k \in Nat : \A f, g :
        Doubling(f, n) /\ Doubling(g, k) /\ i <= n /\ i <= k => f[i] = g[i]
<1> DEFINE Agreeing(i) == \A n \in Nat, k \in Nat : \A f, g :
                          Doubling(f, n) /\ Doubling(g, k) /\ i <= n /\ i <= k => f[i] = g[i]
           S == {i \in Nat : Agreeing(i)}
<1>1. 0 \in S
  BY DEF Doubling
<1>2. ASSUME NEW i \in Nat, i \in S PROVE i + 1 \in S
  <2> SUFFICES ASSUME NEW n \in Nat, NEW k \in Nat, NEW f, NEW g, Doubling(f, n), Doubling(g, k),
                      i + 1 <= n, i + 1 <= k
               PROVE  f[i + 1] = g[i + 1]
    OBVIOUS
  <2>1. f[i] = g[i]
    BY <1>2
  <2>2. i + 1 \in 1..n /\ i + 1 \in 1..k /\ (i + 1) - 1 = i
    OBVIOUS
  <2>3. f[i + 1] = 2 * f[i] /\ g[i + 1] = 2 * g[i]
    BY <2>2 DEF Doubling
  <2> QED BY <2>1, <2>3
<1>3. Nat \subseteq S
  <2> HIDE DEF S
  <2> QED BY <1>1, <1>2, Everyone
<1> QED BY <1>3

(* The recursive function is defined everywhere.                           *)
LEMMA DoubledIs ==
    ASSUME TextsAssumption
    PROVE  Texts!Doubled = [n \in Nat |-> IF n = 0 THEN TextsBase ELSE 2 * Texts!Doubled[n - 1]]
<1> DEFINE d(n) == CHOOSE f : Doubling(f, n)
           h == [n \in Nat |-> d(n)[n]]
<1>1. \A n \in Nat : Doubling(d(n), n)
  BY DoublingExists
<1> HIDE DEF d
<1>2. ASSUME NEW n \in Nat PROVE h[n] = IF n = 0 THEN TextsBase ELSE 2 * h[n - 1]
  <2>1. CASE n = 0
    BY <1>1, <2>1 DEF Doubling
  <2>2. CASE n # 0
    <3>1. n - 1 \in Nat /\ n \in 1..n /\ n - 1 <= n /\ n - 1 <= n - 1
      BY <2>2
    <3>2. d(n)[n] = 2 * d(n)[n - 1]
      BY <1>1, <3>1 DEF Doubling
    <3>3. d(n)[n - 1] = d(n - 1)[n - 1]
      BY <1>1, <3>1, DoublingsAgree
    <3> QED BY <2>2, <3>1, <3>2, <3>3
  <2> QED BY <2>1, <2>2
<1>3. h = [n \in Nat |-> IF n = 0 THEN TextsBase ELSE 2 * h[n - 1]]
  BY <1>2
<1> HIDE DEF h
<1> QED BY <1>3 DEF Texts!Doubled

LEMMA DoubledGrows ==
    ASSUME TextsAssumption
    PROVE  /\ Texts!Doubled \in [Nat -> Nat]
           /\ \A n \in Nat : \A i \in 0..n : Texts!Doubled[i] <= Texts!Doubled[n]
<1> DEFINE D == Texts!Doubled
<1>1. D = [n \in Nat |-> IF n = 0 THEN TextsBase ELSE 2 * D[n - 1]]
  BY DoubledIs
<1> HIDE DEF D
<1>2. D[0] = TextsBase /\ TextsBase \in Nat /\ \A n \in Nat : D[n + 1] = 2 * D[n]
  BY <1>1 DEF TextsAssumption
<1> DEFINE S == {n \in Nat : D[n] \in Nat /\ \A i \in 0..n : D[i] \in Nat /\ D[i] <= D[n]}
<1>3. 0 \in S
  BY <1>2
<1>4. ASSUME NEW n \in Nat, n \in S PROVE n + 1 \in S
  <2>1. D[n] \in Nat /\ D[n + 1] = 2 * D[n] /\ \A i \in 0..n : D[i] \in Nat /\ D[i] <= D[n]
    BY <1>2, <1>4
  <2>2. D[n + 1] \in Nat /\ D[n] <= D[n + 1]
    <3> DEFINE x == D[n]
    <3>1. x \in Nat
      BY <2>1
    <3> HIDE DEF x
    <3>2. 2 * x \in Nat /\ x <= 2 * x
      BY <3>1
    <3> QED BY <2>1, <3>2 DEF x
  <2>3. ASSUME NEW i \in 0..n + 1 PROVE D[i] \in Nat /\ D[i] <= D[n + 1]
    <3>1. CASE i \in 0..n
      BY <2>1, <2>2, <3>1
    <3>2. CASE i = n + 1
      BY <2>2, <3>2
    <3> QED BY <3>1, <3>2
  <2> QED BY <2>2, <2>3
<1>5. Nat \subseteq S
  <2> HIDE DEF S
  <2> QED BY <1>3, <1>4, Everyone
<1>6. \A n \in Nat : D[n] \in Nat
  BY <1>5
<1>7. D \in [Nat -> Nat]
  <2>1. \E e : D = [n \in Nat |-> e[n]]
    BY <1>1, <1>6
  <2> QED BY <1>1, <1>6
<1> QED BY <1>5, <1>7 DEF D

(* A pause is no longer than the longest, and none is shorter than one     *)
(* after fewer failures.                                                   *)
LEMMA PauseGrows ==
    ASSUME TextsAssumption, NEW k \in Nat \ {0}, NEW n \in Nat \ {0}, k <= n
    PROVE  /\ Texts!Pause(k) \in Nat /\ Texts!Pause(n) \in Nat
           /\ Texts!Pause(k) <= Texts!Pause(n) /\ Texts!Pause(k) <= Longest
<1> DEFINE x == Texts!Doubled[k - 1]
           y == Texts!Doubled[n - 1]
<1>1. k - 1 \in 0..n - 1 /\ n - 1 \in Nat /\ k - 1 \in Nat
  OBVIOUS
<1>2. x \in Nat /\ y \in Nat /\ x <= y
  BY <1>1, DoubledGrows
<1> HIDE DEF x, y
<1>3. /\ Texts!Pause(k) = IF x < Longest THEN x ELSE Longest
      /\ Texts!Pause(n) = IF y < Longest THEN y ELSE Longest
  BY DEF Texts!Pause, x, y
<1> QED BY <1>2, <1>3 DEF TextsAssumption

(* A pause, and failures in a row.                                         *)
Resting == [fails : Nat \ {0}, next : Nat, at : Nat]
Failing == [fails : Nat \ {0}, at : Nat]

(* The pause after the failures t is that of as many or more, unless it    *)
(* was removed when all was long over.                                     *)
Paired(t, p, n) ==
    t # None =>
        /\ t.at <= n
        /\ \/ n - t.at > RetryTtl
           \/ p # None /\ p.at = t.at /\ t.fails <= p.fails /\ p.next = t.at + Texts!Pause(p.fails)

PauseTypes ==
    /\ pause \in [Texts!Kinds -> [Messages -> Resting \cup {None}]]
    /\ tried \in [Texts!Kinds -> [Messages -> Failing \cup {None}]]

PauseInv ==
    /\ ~ early
    /\ \A k \in Texts!Kinds, m \in Messages : Paired(tried[k][m], pause[k][m], textsNow)

(* A scrape's state differs from what is shown only in what it recorded    *)
(* and in what the collector brought meanwhile; and when its rows are      *)
(* written they are of its state.                                          *)
States == [Messages -> Texts!Versions \cup {None}]

Scrapings ==
    [at : {"translating", "backfilling", "building", "copying", "persisting", "saving"},
     scope : SUBSET Texts!Channels, new : SUBSET Messages, prev : States, texts : SUBSET Messages,
     jobs : SUBSET Messages, records : SUBSET Messages, moved : SUBSET Messages, aside : States]

(* The message as it is, or in English.                                    *)
Renders(p, s) == p = s \/ p = [s EXCEPT !.text = "english"]

(* The message's row has what is shown, but for a text in English that was *)
(* not saved.                                                              *)
RowIs(m) == rows[m] = shown[m] \/ (m \in apart /\ rows[m] = [shown[m] EXCEPT !.text = "english"])

Scraped(r) ==
    /\ r \in Scrapings
    /\ r.at \in {"translating", "backfilling"} => r.records = {}
    /\ \A m \in r.jobs : r.prev[m] # None
    /\ r.at = "backfilling" => \A m \in r.jobs : r.prev[m].text = "own"
    /\ \A m \in Messages \ (r.records \cup r.moved) : r.prev[m] = shown[m]
    /\ r.at = "building" => \A m \in r.records \ r.moved : Renders(r.prev[m], shown[m])
    /\ r.at \in {"copying", "persisting"} =>
         \A m \in Messages \ r.moved : r.aside[m] # None => Renders(r.aside[m], shown[m])
    /\ r.at = "saving" => \A m \in r.records \ (textsLost \cup r.moved) : rows[m] = r.prev[m]

RowsInv == Texts!RowsAgree /\ (scrape = Texts!Idle \/ Scraped(scrape))

TextsInv == Texts!TypeOK /\ PauseTypes /\ PauseInv /\ RowsInv

LEMMA TextsInit == TextsAssumption /\ Texts!Init => TextsInv
<1> SUFFICES ASSUME TextsAssumption, Texts!Init PROVE TextsInv
  OBVIOUS
<1>1. /\ textsNow = 0 /\ posted = {} /\ seen = {} /\ textsLost = {} /\ textsFaults = 0
      /\ early = FALSE /\ apart = {}
      /\ shown = [m \in Messages |-> None] /\ rows = [m \in Messages |-> None]
      /\ pause = [k \in Texts!Kinds |-> [m \in Messages |-> None]]
      /\ tried = [k \in Texts!Kinds |-> [m \in Messages |-> None]]
      /\ scrape = Texts!Idle
  BY DEF Texts!Init
<1>2. Texts!TypeOK
  <2>1. shown \in States /\ rows \in States
    BY <1>1 DEF States
  <2>2. textsNow \in 0..TextsMaxTime /\ textsFaults \in 0..TextsMaxFaults /\ early \in BOOLEAN
    <3>1. 0 \in 0..TextsMaxTime /\ 0 \in 0..TextsMaxFaults
      BY DEF TextsAssumption
    <3> QED BY <1>1, <3>1
  <2> QED BY <1>1, <2>1, <2>2 DEF Texts!TypeOK, States
<1>3. PauseTypes /\ PauseInv
  BY <1>1 DEF PauseTypes, PauseInv, Paired
<1>4. RowsInv
  BY <1>1 DEF RowsInv, Texts!RowsAgree
<1> QED BY <1>2, <1>3, <1>4 DEF TextsInv

(* What is tried when its pause is over is not tried early.                *)
LEMMA NotEarly ==
    ASSUME TextsAssumption, textsNow \in Nat, NEW t \in Failing, NEW p \in Resting \cup {None},
           Paired(t, p, textsNow), p # None => p.next <= textsNow
    PROVE  ~ (textsNow - t.at < Texts!Pause(t.fails))
<1> DEFINE a == t.at
           k == t.fails
<1>1. a \in Nat /\ k \in Nat \ {0} /\ t # None
  BY DEF Failing, TextsAssumption
<1>2. Texts!Pause(k) \in Nat /\ Texts!Pause(k) <= Longest
  BY <1>1, PauseGrows
<1>3. CASE textsNow - a > RetryTtl
  <2> HIDE DEF a, k
  <2>1. Longest \in Nat /\ RetryTtl \in Nat /\ Longest <= RetryTtl
    BY DEF TextsAssumption
  <2>2. ~ (textsNow - a < Texts!Pause(k))
    BY <1>1, <1>2, <1>3, <2>1
  <2> QED BY <2>2 DEF a, k
<1>4. CASE ~ (textsNow - a > RetryTtl)
  <2> DEFINE n == p.fails
  <2>1. p # None /\ p.at = a /\ k <= n /\ p.next = a + Texts!Pause(n)
    BY <1>1, <1>4 DEF Paired
  <2>2. n \in Nat \ {0} /\ p.next <= textsNow
    BY <2>1 DEF Resting
  <2>3. Texts!Pause(n) \in Nat /\ Texts!Pause(k) <= Texts!Pause(n)
    BY <1>1, <2>1, <2>2, PauseGrows
  <2> HIDE DEF a, k, n
  <2>4. a + Texts!Pause(n) <= textsNow
    BY <2>1, <2>2
  <2>5. ~ (textsNow - a < Texts!Pause(k))
    BY <1>1, <1>2, <2>3, <2>4
  <2> QED BY <2>5 DEF a, k
<1> QED BY <1>3, <1>4

LEMMA NotedOnTime ==
    ASSUME TextsAssumption, textsNow \in Nat, PauseTypes, PauseInv, NEW k \in Texts!Kinds,
           NEW S \in SUBSET Messages, \A m \in S : Texts!MayTry(k, m), Texts!Noted(k, S)
    PROVE  early' = FALSE
<1>1. ASSUME NEW m \in S, tried[k][m] # None
      PROVE  ~ (textsNow - tried[k][m].at < Texts!Pause(tried[k][m].fails))
  <2>1. tried[k][m] \in Failing /\ pause[k][m] \in Resting \cup {None}
    BY <1>1 DEF PauseTypes
  <2>2. Paired(tried[k][m], pause[k][m], textsNow)
    BY DEF PauseInv
  <2>3. pause[k][m] # None => pause[k][m].next <= textsNow
    BY DEF Texts!MayTry
  <2> QED BY <2>1, <2>2, <2>3, NotEarly
<1>2. ~ \E m \in S : tried[k][m] # None /\ textsNow - tried[k][m].at < Texts!Pause(tried[k][m].fails)
  BY <1>1
<1>3. ~ early
  BY DEF PauseInv
<1>4. early' = (early \/ \E m \in S : tried[k][m] # None /\ textsNow - tried[k][m].at < Texts!Pause(tried[k][m].fails))
  BY DEF Texts!Noted
<1> QED BY <1>2, <1>3, <1>4

(* A failure is paused for as long as its count says.                      *)
LEMMA FailedPaired ==
    ASSUME TextsAssumption, textsNow \in Nat, NEW t \in Failing \cup {None}, NEW p \in Resting \cup {None},
           Paired(t, p, textsNow)
    PROVE  LET again == [fails |-> IF t = None \/ textsNow - t.at > RetryTtl THEN 1 ELSE t.fails + 1, at |-> textsNow]
           IN  /\ again \in Failing
               /\ Texts!Failed(p) \in Resting
               /\ Paired(again, Texts!Failed(p), textsNow)
<1> DEFINE k == IF t = None \/ textsNow - t.at > RetryTtl THEN 1 ELSE t.fails + 1
           n == IF p = None THEN 1 ELSE p.fails + 1
           again == [fails |-> k, at |-> textsNow]
<1>1. k \in Nat \ {0}
  BY DEF Failing
<1>2. n \in Nat \ {0}
  BY DEF Resting
<1>3. k <= n
  <2>1. CASE t = None \/ textsNow - t.at > RetryTtl
    <3>1. k = 1
      BY <2>1
    <3> HIDE DEF k, n
    <3> QED BY <1>2, <3>1
  <2>2. CASE ~ (t = None \/ textsNow - t.at > RetryTtl)
    <3>1. p # None /\ t.fails <= p.fails
      BY <2>2 DEF Paired
    <3>2. t.fails \in Nat /\ p.fails \in Nat
      BY <2>2, <3>1 DEF Failing, Resting
    <3>3. k = t.fails + 1 /\ n = p.fails + 1
      BY <2>2, <3>1
    <3> HIDE DEF k, n
    <3> QED BY <3>1, <3>2, <3>3
  <2> QED BY <2>1, <2>2
<1> HIDE DEF k, n
<1>4. Texts!Pause(n) \in Nat
  BY <1>2, PauseGrows
<1>5. Texts!Failed(p) = [fails |-> n, next |-> textsNow + Texts!Pause(n), at |-> textsNow]
  BY DEF Texts!Failed, n
<1>6. again \in Failing
  BY <1>1 DEF Failing
<1>7. Texts!Failed(p) \in Resting
  BY <1>2, <1>4, <1>5 DEF Resting
<1>8. Texts!Failed(p) # None
  BY <1>7 DEF Resting, TextsAssumption
<1>9. Paired(again, Texts!Failed(p), textsNow)
  BY <1>3, <1>5, <1>8 DEF Paired
<1> QED BY <1>6, <1>7, <1>9 DEF k

LEMMA FailuresKept ==
    ASSUME TextsAssumption, textsNow \in Nat, PauseTypes, PauseInv, NEW k \in Texts!Kinds, NEW bad, NEW good,
           Texts!Paused(k, bad, good), Texts!Counted(k, bad, good), textsNow' = textsNow, early' = early
    PROVE  PauseTypes' /\ PauseInv'
<1> DEFINE t(m) == tried[k][m]
           p(m) == pause[k][m]
           again(m) == [fails |-> IF t(m) = None \/ textsNow - t(m).at > RetryTtl THEN 1 ELSE t(m).fails + 1,
                        at |-> textsNow]
           pauses == [m \in Messages |-> IF m \in bad THEN Texts!Failed(p(m))
                                         ELSE IF m \in good THEN None ELSE p(m)]
           tries == [m \in Messages |-> IF m \in good THEN None
                                        ELSE IF m \notin bad THEN t(m) ELSE again(m)]
<1>1. \A m \in Messages : t(m) \in Failing \cup {None} /\ p(m) \in Resting \cup {None}
  BY DEF PauseTypes
<1>2. \A m \in Messages : Paired(t(m), p(m), textsNow)
  BY DEF PauseInv
<1>3. \A m \in Messages : /\ again(m) \in Failing /\ Texts!Failed(p(m)) \in Resting
                          /\ Paired(again(m), Texts!Failed(p(m)), textsNow)
  BY <1>1, <1>2, FailedPaired
<1>4. pause' = [pause EXCEPT ![k] = pauses] /\ tried' = [tried EXCEPT ![k] = tries]
  BY DEF Texts!Paused, Texts!Counted
<1> HIDE DEF again, t, p
<1>5. pauses \in [Messages -> Resting \cup {None}] /\ tries \in [Messages -> Failing \cup {None}]
  BY <1>1, <1>3
<1>6. \A m \in Messages : Paired(tries[m], pauses[m], textsNow)
  <2>1. \A m \in Messages : m \in good => Paired(tries[m], pauses[m], textsNow)
    BY DEF Paired
  <2>2. \A m \in Messages : m \in bad /\ m \notin good => Paired(tries[m], pauses[m], textsNow)
    BY <1>3
  <2>3. \A m \in Messages : m \notin bad /\ m \notin good => Paired(tries[m], pauses[m], textsNow)
    BY <1>2
  <2> QED BY <2>1, <2>2, <2>3
<1> HIDE DEF pauses, tries
<1>7. PauseTypes'
  BY <1>4, <1>5 DEF PauseTypes
<1>8. /\ pause'[k] = pauses /\ tried'[k] = tries
      /\ \A j \in Texts!Kinds : j # k => pause'[j] = pause[j] /\ tried'[j] = tried[j]
  BY <1>4 DEF PauseTypes
<1>9. PauseInv'
  BY <1>6, <1>8 DEF PauseInv
<1> QED BY <1>7, <1>9

(* What is known in every step.                                            *)
LEMMA TextsFacts ==
    ASSUME TextsAssumption, TextsInv
    PROVE  /\ textsNow \in Nat /\ textsNow \in 0..TextsMaxTime /\ textsFaults \in 0..TextsMaxFaults
           /\ shown \in States /\ rows \in States
           /\ posted \subseteq Messages /\ seen \subseteq Messages /\ textsLost \subseteq Messages
           /\ apart \subseteq Messages /\ early \in BOOLEAN /\ Texts!RowsAgree
           /\ scrape # Texts!Idle => Scraped(scrape)
BY DEF TextsAssumption, TextsInv, Texts!TypeOK, States, RowsInv

LEMMA TextsMade ==
    ASSUME textsNow' \in 0..TextsMaxTime, textsFaults' \in 0..TextsMaxFaults, shown' \in States, rows' \in States,
           posted' \subseteq Messages, seen' \subseteq Messages, textsLost' \subseteq Messages,
           apart' \subseteq Messages, early' \in BOOLEAN
    PROVE  Texts!TypeOK'
BY DEF Texts!TypeOK, States

(* Steps without failures.                                                 *)
LEMMA PausesSame ==
    ASSUME PauseTypes, PauseInv, UNCHANGED <<pause, tried, textsNow, early>>
    PROVE  PauseTypes' /\ PauseInv'
BY DEF PauseTypes, PauseInv

LEMMA NotSaving ==
    ASSUME TextsInv, scrape.at # "saving"
    PROVE  Texts!Unsaved = {} /\ \A m \in Messages \ textsLost : shown[m] # None => RowIs(m)
BY DEF TextsInv, RowsInv, Texts!RowsAgree, Texts!Unsaved, RowIs

LEMMA RowsSame ==
    ASSUME TextsInv, scrape.at # "saving", UNCHANGED <<shown, rows, textsLost, apart>>
    PROVE  Texts!RowsAgree'
BY NotSaving DEF Texts!RowsAgree, RowIs

LEMMA BeginsStep ==
    ASSUME TextsAssumption, TextsInv, NEW scope \in SUBSET Texts!Channels, NEW fetched, Texts!Begins(scope, fetched)
    PROVE  TextsInv'
<1>1. /\ scrape = Texts!Idle
      /\ scrape' = [at |-> "translating", scope |-> scope, new |-> Texts!New(fetched), prev |-> shown,
                    texts |-> {}, jobs |-> {}, records |-> {}, moved |-> {},
                    aside |-> [m \in Messages |-> None]]
      /\ UNCHANGED <<textsNow, posted, shown, rows, seen, textsCache, pause, textsFaults, textsLost, tried, early, apart>>
  BY DEF Texts!Begins
<1>2. Texts!TypeOK'
  BY <1>1, TextsFacts, TextsMade
<1>3. PauseTypes' /\ PauseInv'
  BY <1>1, PausesSame DEF TextsInv
<1>4. Scraped(scrape)'
  <2>1. Texts!New(fetched) \subseteq Messages
    BY TextsFacts DEF Texts!New
  <2>2. scrape' \in Scrapings
    BY <1>1, <2>1, TextsFacts DEF Scrapings, States
  <2> QED BY <1>1, <2>2 DEF Scraped
<1>5. Texts!RowsAgree'
  <2>1. scrape.at # "saving"
    BY <1>1 DEF Texts!Idle
  <2> QED BY <1>1, <2>1, RowsSame
<1> QED BY <1>2, <1>3, <1>4, <1>5 DEF TextsInv, RowsInv

LEMMA TranslatesStep ==
    ASSUME TextsAssumption, TextsInv, Texts!Translates
    PROVE  TextsInv'
<1> DEFINE r == scrape
<1> DEFINE asked == {m \in r.new : ~ Texts!Cached(Text[m])}
           english(out) == {m \in r.new :
                     IF m \in asked
                     THEN Texts!Accepted(Text[m], out[Text[m]]) /\ Texts!InEnglish(out[Text[m]]) = "english"
                     ELSE textsCache[Text[m]].text = "english"}
<1>0. PICK out \in Texts!Batches(asked), jobs \in SUBSET Texts!ToTranslate(r) :
        /\ scrape' = [r EXCEPT !.at = "backfilling", !.jobs = jobs, !.texts = english(out)]
        /\ Texts!Noted("text", jobs)
  BY DEF Texts!Translates
<1> DEFINE texts == english(out)
<1>1. /\ texts \subseteq r.new
      /\ scrape' = [r EXCEPT !.at = "backfilling", !.jobs = jobs, !.texts = texts]
      /\ Texts!Noted("text", jobs)
  BY <1>0
<1> HIDE DEF texts
<1>2. r.at = "translating" /\ UNCHANGED <<textsNow, posted, shown, rows, seen, pause, textsFaults, textsLost, tried, apart>>
  BY DEF Texts!Translates
<1>3. Scraped(r) /\ r \in Scrapings
  BY <1>2, TextsFacts DEF Texts!Idle, Scraped
<1>4. /\ jobs \subseteq Messages
      /\ \A m \in jobs : r.prev[m] # None /\ r.prev[m].text = "own" /\ Texts!MayTry("text", m)
  BY <1>1 DEF Texts!ToTranslate
<1>5. early' = FALSE
  BY <1>1, <1>4, NotedOnTime, TextsFacts DEF TextsInv, Texts!Kinds
<1>6. Texts!TypeOK'
  BY <1>2, <1>5, TextsFacts, TextsMade
<1>7. PauseTypes' /\ PauseInv'
  BY <1>2, <1>5 DEF TextsInv, PauseTypes, PauseInv
<1>8. Scraped(scrape)'
  <2>1. texts \subseteq Messages
    BY <1>1, <1>3 DEF Scrapings
  <2>2. /\ scrape' \in Scrapings
        /\ scrape'.at = "backfilling" /\ scrape'.prev = r.prev /\ scrape'.jobs = jobs
        /\ scrape'.records = r.records /\ scrape'.moved = r.moved
    BY <1>1, <1>3, <1>4, <2>1 DEF Scrapings
  <2> QED BY <1>2, <1>3, <1>4, <2>2 DEF Scraped
<1>9. Texts!RowsAgree'
  BY <1>2, RowsSame
<1> QED BY <1>6, <1>7, <1>8, <1>9 DEF TextsInv, RowsInv

LEMMA BackfillsStep ==
    ASSUME TextsAssumption, TextsInv, Texts!Backfills
    PROVE  TextsInv'
<1> DEFINE r == scrape
<1>1. PICK out \in Texts!Batches(r.jobs) :
         LET good == {m \in r.jobs : Texts!Accepted(Text[m], out[Text[m]])} IN
         /\ scrape' = [r EXCEPT
              !.at = "building", !.records = good,
              !.prev = [m \in Messages |->
                 IF m \in good THEN [@[m] EXCEPT !.text = Texts!InEnglish(out[Text[m]])] ELSE @[m]]]
         /\ Texts!Paused("text", r.jobs \ good, good)
         /\ Texts!Counted("text", r.jobs \ good, good)
  BY DEF Texts!Backfills
<1>2. r.at = "backfilling" /\ UNCHANGED <<textsNow, posted, shown, rows, seen, textsCache, textsFaults, textsLost, early, apart>>
  BY DEF Texts!Backfills
<1> DEFINE good == {m \in r.jobs : Texts!Accepted(Text[m], out[Text[m]])}
           prev == [m \in Messages |->
                      IF m \in good THEN [r.prev[m] EXCEPT !.text = Texts!InEnglish(out[Text[m]])] ELSE r.prev[m]]
<1>3. Scraped(r) /\ r \in Scrapings
  BY <1>2, TextsFacts DEF Texts!Idle, Scraped
<1>4. scrape' = [r EXCEPT !.at = "building", !.records = good, !.prev = prev]
  BY <1>1
<1>5. Texts!TypeOK'
  BY <1>2, TextsFacts, TextsMade
<1>6. PauseTypes' /\ PauseInv'
  <2>1. Texts!Paused("text", r.jobs \ good, good) /\ Texts!Counted("text", r.jobs \ good, good)
    BY <1>1
  <2>2. "text" \in Texts!Kinds /\ textsNow' = textsNow /\ early' = early
    BY <1>2 DEF Texts!Kinds
  <2> HIDE DEF good
  <2> QED BY <2>1, <2>2, FailuresKept, TextsFacts DEF TextsInv
<1>7. good \subseteq r.jobs /\ r.jobs \subseteq Messages
  BY <1>3 DEF Scrapings
<1>8. \A m \in good : [r.prev[m] EXCEPT !.text = Texts!InEnglish(out[Text[m]])] \in Texts!Versions
  <2> TAKE m \in good
  <2>1. r.prev[m] \in Texts!Versions
    BY <1>3, <1>7 DEF Scraped, Scrapings, States
  <2>2. Texts!InEnglish(out[Text[m]]) \in {"own", "english"}
    BY DEF Texts!InEnglish
  <2> HIDE DEF good
  <2> QED BY <2>1, <2>2 DEF Texts!Versions
<1> HIDE DEF good
<1>9. prev \in States /\ \A m \in Messages : m \notin good => prev[m] = r.prev[m]
  BY <1>3, <1>8 DEF Scrapings, States
<1>10. \A m \in r.jobs : prev[m] # None
  BY <1>3, <1>7, <1>8 DEF Scraped, TextsAssumption
<1>14. \A m \in good \ r.moved : Renders(prev[m], shown[m])
  <2> TAKE m \in good \ r.moved
  <2>1. m \in Messages /\ r.prev[m] = shown[m] /\ r.prev[m] \in Texts!Versions /\ r.prev[m].text = "own"
    BY <1>2, <1>3, <1>7 DEF Scraped, Scrapings, States
  <2>2. [r.prev[m] EXCEPT !.text = "own"] = r.prev[m]
    BY <2>1 DEF Texts!Versions
  <2>3. Texts!InEnglish(out[Text[m]]) = "own" \/ Texts!InEnglish(out[Text[m]]) = "english"
    BY DEF Texts!InEnglish
  <2> DEFINE e == Texts!InEnglish(out[Text[m]])
  <2>4. prev[m] = [r.prev[m] EXCEPT !.text = e]
    BY <2>1
  <2> HIDE DEF good, prev, e
  <2>5. prev[m] = shown[m] \/ prev[m] = [shown[m] EXCEPT !.text = "english"]
    BY <2>1, <2>2, <2>3, <2>4 DEF e
  <2> QED BY <2>5 DEF Renders
<1> HIDE DEF prev
<1>11. Scraped(scrape)'
  <2>1. /\ scrape' \in Scrapings
        /\ scrape'.at = "building" /\ scrape'.prev = prev /\ scrape'.jobs = r.jobs
        /\ scrape'.records = good /\ scrape'.moved = r.moved
    BY <1>3, <1>4, <1>7, <1>9 DEF Scrapings
  <2> QED BY <1>2, <1>3, <1>9, <1>10, <1>14, <2>1 DEF Scraped
<1>12. Texts!RowsAgree'
  BY <1>2, RowsSame
<1> QED BY <1>5, <1>6, <1>11, <1>12 DEF TextsInv, RowsInv

LEMMA BuildsStep ==
    ASSUME TextsAssumption, TextsInv, Texts!Builds
    PROVE  TextsInv'
<1> DEFINE r == scrape
           built(copied) ==
             [m \in Messages |-> IF m \in r.new THEN Texts!Built(r, m, copied)
                                 ELSE IF Home[m] \in r.scope THEN r.prev[m] ELSE shown[m]]
           aside == [m \in Messages |-> IF m \in r.records /\ Home[m] \notin r.scope THEN r.prev[m] ELSE None]
           records == {m \in r.records : Home[m] \in r.scope} \cup r.new
           far(out) == {m \in Photos : out[m] # None /\ out[m].media = "far" /\ Texts!MayTry("media", m)}
<1>0. PICK copied \in SUBSET (r.new \cap Photos) : \E jobs \in SUBSET far(built(copied)) :
         /\ scrape' = [r EXCEPT !.at = "copying", !.prev = built(copied), !.jobs = jobs,
                                !.records = records, !.aside = aside]
         /\ Texts!Noted("media", jobs)
  BY DEF Texts!Builds
<1>1. PICK jobs \in SUBSET far(built(copied)) :
         /\ scrape' = [r EXCEPT !.at = "copying", !.prev = built(copied), !.jobs = jobs,
                                !.records = records, !.aside = aside]
         /\ Texts!Noted("media", jobs)
  BY <1>0
<1>2. /\ r.at = "building" /\ seen' = seen \cup r.new
      /\ UNCHANGED <<textsNow, posted, shown, rows, textsCache, pause, textsFaults, textsLost, tried, apart>>
  BY DEF Texts!Builds
<1>3. Scraped(r) /\ r \in Scrapings
  BY <1>2, TextsFacts DEF Texts!Idle, Scraped
<1> DEFINE out == built(copied)
<1>4. out \in States /\ \A m \in Messages \ (records \cup r.moved) : out[m] = shown[m]
  <2>1. \A m \in Messages : Texts!Built(r, m, copied) \in Texts!Versions
    BY DEF Texts!Built, Texts!Versions
  <2>2. \A m \in Messages : out[m] = IF m \in r.new THEN Texts!Built(r, m, copied)
                                     ELSE IF Home[m] \in r.scope THEN r.prev[m] ELSE shown[m]
    OBVIOUS
  <2>3. \A m \in Messages : r.prev[m] \in Texts!Versions \cup {None} /\ shown[m] \in Texts!Versions \cup {None}
    BY <1>3, TextsFacts DEF Scrapings, States
  <2>4. \A m \in Messages \ (r.records \cup r.moved) : r.prev[m] = shown[m]
    BY <1>3 DEF Scraped
  <2>5. out \in States
    <3>1. \A m \in Messages : out[m] \in Texts!Versions \cup {None}
      BY <2>1, <2>2, <2>3
    <3> QED BY <3>1 DEF States
  <2>6. \A m \in Messages : m \notin records => m \notin r.new /\ (m \in r.records => Home[m] \notin r.scope)
    OBVIOUS
  <2> HIDE DEF out, records
  <2> QED BY <2>2, <2>4, <2>5, <2>6
<1>13. /\ records \subseteq Messages /\ aside \in States
       /\ \A m \in Messages \ r.moved : aside[m] # None => Renders(aside[m], shown[m])
  <2>1. r.records \subseteq Messages /\ r.new \subseteq Messages
    BY <1>3 DEF Scrapings
  <2>2. \A m \in Messages : r.prev[m] \in Texts!Versions \cup {None}
    BY <1>3 DEF Scrapings, States
  <2>3. \A m \in Messages : (aside[m] = r.prev[m] /\ m \in r.records) \/ aside[m] = None
    OBVIOUS
  <2>4. \A m \in r.records \ r.moved : Renders(r.prev[m], shown[m])
    BY <1>2, <1>3 DEF Scraped
  <2>5. aside \in States
    <3>1. \A m \in Messages : aside[m] \in Texts!Versions \cup {None}
      BY <2>2, <2>3
    <3> QED BY <3>1 DEF States
  <2>6. records \subseteq Messages
    BY <2>1
  <2> HIDE DEF aside
  <2>7. \A m \in Messages \ r.moved : aside[m] # None => Renders(aside[m], shown[m])
    BY <2>3, <2>4
  <2> QED BY <2>5, <2>6, <2>7
<1>5. \A m \in jobs : m \in Photos /\ out[m] # None /\ Texts!MayTry("media", m)
  OBVIOUS
<1>6. scrape' = [r EXCEPT !.at = "copying", !.prev = out, !.jobs = jobs,
                         !.records = records, !.aside = aside]
  BY <1>1
<1> HIDE DEF out, built, far, aside, records
<1>7. jobs \subseteq Messages
  BY <1>5 DEF TextsAssumption
<1>8. early' = FALSE
  BY <1>1, <1>5, <1>7, NotedOnTime, TextsFacts DEF TextsInv, Texts!Kinds
<1>9. Texts!TypeOK'
  <2>1. seen' \subseteq Messages
    BY <1>2, <1>3, TextsFacts DEF Scrapings
  <2> QED BY <1>2, <1>8, <2>1, TextsFacts, TextsMade
<1>10. PauseTypes' /\ PauseInv'
  BY <1>2, <1>8 DEF TextsInv, PauseTypes, PauseInv
<1>11. Scraped(scrape)'
  <2>1. /\ scrape' \in Scrapings
        /\ scrape'.at = "copying" /\ scrape'.prev = out /\ scrape'.jobs = jobs
        /\ scrape'.records = records /\ scrape'.moved = r.moved /\ scrape'.aside = aside
    BY <1>3, <1>4, <1>6, <1>7, <1>13 DEF Scrapings
  <2> QED BY <1>2, <1>4, <1>5, <1>13, <2>1 DEF Scraped
<1>12. Texts!RowsAgree'
  BY <1>2, RowsSame
<1> QED BY <1>9, <1>10, <1>11, <1>12 DEF TextsInv, RowsInv

LEMMA CopiesStep ==
    ASSUME TextsAssumption, TextsInv, Texts!Copies
    PROVE  TextsInv'
<1> DEFINE r == scrape
           moved(good) == [m \in Messages |-> IF m \in good THEN [r.prev[m] EXCEPT !.media = "near"] ELSE r.prev[m]]
<1>1. PICK good \in SUBSET r.jobs :
         /\ scrape' = [r EXCEPT !.at = "persisting", !.records = @ \cup good, !.prev = moved(good)]
         /\ Texts!Paused("media", r.jobs \ good, good)
         /\ Texts!Counted("media", r.jobs \ good, good)
  BY DEF Texts!Copies
<1>2. r.at = "copying" /\ UNCHANGED <<textsNow, posted, shown, rows, seen, textsCache, textsFaults, textsLost, early, apart>>
  BY DEF Texts!Copies
<1> DEFINE prev == moved(good)
<1>3. Scraped(r) /\ r \in Scrapings
  BY <1>2, TextsFacts DEF Texts!Idle, Scraped
<1>4. Texts!TypeOK'
  BY <1>2, TextsFacts, TextsMade
<1>5. PauseTypes' /\ PauseInv'
  BY <1>1, <1>2, FailuresKept, TextsFacts DEF TextsInv, Texts!Kinds
<1>6. \A m \in r.jobs : m \in Messages /\ r.prev[m] \in Texts!Versions
  BY <1>3 DEF Scraped, Scrapings, States
<1>7. \A m \in r.jobs : [r.prev[m] EXCEPT !.media = "near"] \in Texts!Versions
  BY <1>6 DEF Texts!Versions
<1>8. /\ prev \in States
      /\ \A m \in Messages : m \notin good => prev[m] = r.prev[m]
      /\ \A m \in r.jobs : prev[m] # None
  <2>1. \A m \in Messages : prev[m] = IF m \in good THEN [r.prev[m] EXCEPT !.media = "near"] ELSE r.prev[m]
    OBVIOUS
  <2>2. \A m \in Messages : r.prev[m] \in Texts!Versions \cup {None}
    BY <1>3 DEF Scrapings, States
  <2>3. \A m \in Messages : prev[m] \in Texts!Versions \cup {None}
    BY <1>7, <2>1, <2>2
  <2>4. prev \in States
    BY <2>3 DEF States
  <2>5. \A m \in r.jobs : prev[m] # None
    BY <1>6, <1>7, <2>1 DEF TextsAssumption
  <2> QED BY <2>1, <2>4, <2>5
<1>9. scrape' = [r EXCEPT !.at = "persisting", !.records = @ \cup good, !.prev = prev]
  BY <1>1
<1> HIDE DEF prev, moved
<1>10. Scraped(scrape)'
  <2>1. /\ scrape' \in Scrapings
        /\ scrape'.at = "persisting" /\ scrape'.prev = prev /\ scrape'.jobs = r.jobs
        /\ scrape'.records = r.records \cup good /\ scrape'.moved = r.moved /\ scrape'.aside = r.aside
    BY <1>3, <1>6, <1>8, <1>9 DEF Scrapings
  <2> QED BY <1>2, <1>3, <1>8, <2>1 DEF Scraped
<1>11. Texts!RowsAgree'
  BY <1>2, RowsSame
<1> QED BY <1>4, <1>5, <1>10, <1>11 DEF TextsInv, RowsInv

LEMMA WrittenIs ==
    ASSUME TextsAssumption, textsFaults \in 0..TextsMaxFaults, NEW S, NEW w \in Texts!Written(S)
    PROVE  w[1] \subseteq S /\ w[2] \in 0..TextsMaxFaults
<1>1. CASE w = <<S, textsFaults>>
  BY <1>1
<1>2. CASE textsFaults < TextsMaxFaults /\ w \in (SUBSET S \ {S}) \X {textsFaults + 1}
  <2>1. textsFaults + 1 \in 0..TextsMaxFaults
    BY <1>2 DEF TextsAssumption
  <2> QED BY <1>2, <2>1
<1> QED BY <1>1, <1>2 DEF Texts!Written

LEMMA PersistsStep ==
    ASSUME TextsAssumption, TextsInv, Texts!Persists
    PROVE  TextsInv'
<1> DEFINE r == scrape
           recorded == r.records \cup {m \in Messages : r.aside[m] # None}
           others(w) == w[1] \ r.records
<1>1. PICK w \in Texts!Written(recorded) :
         /\ rows' = [m \in Messages |->
               IF m \in others(w) THEN r.aside[m] ELSE IF m \in w[1] THEN r.prev[m] ELSE rows[m]]
         /\ textsFaults' = w[2]
         /\ textsLost' = (textsLost \ w[1]) \cup (recorded \ w[1]) \cup (others(w) \cap r.moved)
         /\ apart' = (apart \ w[1]) \cup others(w)
  BY DEF Texts!Persists
<1>2. /\ r.at = "persisting"
      /\ scrape' = [r EXCEPT !.at = "saving"]
      /\ UNCHANGED <<textsNow, posted, shown, seen, textsCache, pause, tried, early>>
  BY DEF Texts!Persists
<1>3. /\ Scraped(r) /\ r \in Scrapings /\ r.prev \in States /\ r.aside \in States
      /\ r.records \subseteq Messages
  BY <1>2, TextsFacts DEF Texts!Idle, Scraped, Scrapings
<1>4. w[1] \subseteq recorded /\ textsFaults' \in 0..TextsMaxFaults
  <2> HIDE DEF recorded
  <2> QED BY <1>1, TextsFacts, WrittenIs
<1> DEFINE aside == others(w)
<1>5. /\ aside = w[1] \ r.records /\ recorded \subseteq Messages
      /\ \A m \in aside : m \in Messages /\ r.aside[m] # None
      /\ r.records \subseteq recorded
  BY <1>3, <1>4
<1>11. rows' \in States
  <2>1. \A m \in Messages :
          rows'[m] = IF m \in aside THEN r.aside[m] ELSE IF m \in w[1] THEN r.prev[m] ELSE rows[m]
    BY <1>1
  <2>2. \A m \in Messages : {r.aside[m], r.prev[m], rows[m]} \subseteq Texts!Versions \cup {None}
    BY <1>3, TextsFacts DEF States
  <2>3. \A m \in Messages : rows'[m] \in Texts!Versions \cup {None}
    BY <2>1, <2>2
  <2>4. \E f : rows' = [m \in Messages |-> f[m]]
    BY <1>1
  <2> QED BY <2>3, <2>4 DEF States
<1>12. /\ textsLost' = (textsLost \ w[1]) \cup (recorded \ w[1]) \cup (aside \cap r.moved)
       /\ apart' = (apart \ w[1]) \cup aside
       /\ \A m \in Messages :
            rows'[m] = IF m \in aside THEN r.aside[m] ELSE IF m \in w[1] THEN r.prev[m] ELSE rows[m]
  BY <1>1
<1> HIDE DEF aside, recorded, others
<1>6. Texts!TypeOK'
  <2>1. textsLost' \subseteq Messages /\ apart' \subseteq Messages
    BY <1>5, <1>12, TextsFacts
  <2> QED BY <1>2, <1>4, <1>11, <2>1, TextsFacts, TextsMade
<1>7. PauseTypes' /\ PauseInv'
  BY <1>2, PausesSame DEF TextsInv
<1>8. /\ scrape' \in Scrapings /\ scrape'.at = "saving" /\ scrape'.prev = r.prev /\ scrape'.jobs = r.jobs
      /\ scrape'.records = r.records /\ scrape'.moved = r.moved
  BY <1>2, <1>3 DEF Scrapings
<1>9. Scraped(scrape)'
  <2>1. \A m \in r.records \ (textsLost' \cup r.moved) : rows'[m] = r.prev[m]
    BY <1>3, <1>5, <1>12
  <2> QED BY <1>2, <1>3, <1>8, <2>1 DEF Scraped
<1>10. Texts!RowsAgree'
  <2>1. Texts!Unsaved' = r.records
    BY <1>8 DEF Texts!Unsaved
  <2>2. ASSUME NEW m \in Messages, m \notin textsLost', m \notin r.records, shown[m] # None
        PROVE  rows'[m] = shown[m] \/ (m \in apart' /\ rows'[m] = [shown[m] EXCEPT !.text = "english"])
    <3>1. CASE m \in aside
      <4>1. m \notin r.moved /\ rows'[m] = r.aside[m] /\ m \in apart'
        BY <1>12, <2>2, <3>1
      <4>2. Renders(r.aside[m], shown[m])
        BY <1>2, <1>3, <1>5, <3>1, <4>1 DEF Scraped
      <4> QED BY <4>1, <4>2 DEF Renders
    <3>2. CASE m \notin aside
      <4>1. m \notin w[1]
        BY <1>5, <2>2, <3>2
      <4>2. m \notin textsLost /\ rows'[m] = rows[m] /\ (m \in apart => m \in apart')
        BY <1>12, <2>2, <3>2, <4>1
      <4>3. RowIs(m)
        BY <1>2, <2>2, <4>2, NotSaving
      <4> QED BY <4>2, <4>3 DEF RowIs
    <3> QED BY <3>1, <3>2
  <2> QED BY <1>2, <2>1, <2>2 DEF Texts!RowsAgree
<1> QED BY <1>6, <1>7, <1>9, <1>10 DEF TextsInv, RowsInv

LEMMA SavesStep ==
    ASSUME TextsAssumption, TextsInv, Texts!Saves
    PROVE  TextsInv'
<1> DEFINE r == scrape
           old(k, m) == pause[k][m] # None /\ pause[k][m].at < textsNow - RetryTtl
<1>1. /\ r.at = "saving"
      /\ shown' = r.prev
      /\ textsLost' = textsLost \cup r.moved
      /\ pause' = [k \in Texts!Kinds |-> [m \in Messages |-> IF old(k, m) THEN None ELSE pause[k][m]]]
      /\ scrape' = Texts!Idle
      /\ UNCHANGED <<textsNow, posted, rows, seen, textsCache, textsFaults, tried, early, apart>>
  BY DEF Texts!Saves
<1>2. Scraped(r) /\ r \in Scrapings /\ r.prev \in States /\ r.moved \subseteq Messages
  BY <1>1, TextsFacts DEF Texts!Idle, Scraped, Scrapings
<1>3. Texts!TypeOK'
  <2>1. textsLost' \subseteq Messages
    BY <1>1, <1>2, TextsFacts
  <2> QED BY <1>1, <1>2, <2>1, TextsFacts, TextsMade
<1>4. \A k \in Texts!Kinds, m \in Messages : /\ pause[k][m] \in Resting \cup {None}
                                             /\ tried[k][m] \in Failing \cup {None}
                                             /\ Paired(tried[k][m], pause[k][m], textsNow)
  BY DEF TextsInv, PauseTypes, PauseInv
<1>5. PauseTypes'
  <2>1. \A k \in Texts!Kinds, m \in Messages : (IF old(k, m) THEN None ELSE pause[k][m]) \in Resting \cup {None}
    BY <1>4
  <2> HIDE DEF old
  <2>2. pause' \in [Texts!Kinds -> [Messages -> Resting \cup {None}]]
    BY <1>1, <2>1
  <2> QED BY <1>1, <2>2 DEF TextsInv, PauseTypes
<1>6. PauseInv'
  <2>1. ASSUME NEW k \in Texts!Kinds, NEW m \in Messages PROVE Paired(tried[k][m], pause'[k][m], textsNow)
    <3>1. pause'[k][m] = IF old(k, m) THEN None ELSE pause[k][m]
      BY <1>1
    <3>2. CASE ~ old(k, m)
      BY <1>4, <3>1, <3>2
    <3>3. CASE old(k, m) /\ tried[k][m] = None
      BY <3>3 DEF Paired
    <3>4. CASE old(k, m) /\ tried[k][m] # None
      <4> DEFINE a == tried[k][m].at
      <4>1. a \in Nat /\ a <= textsNow /\ (textsNow - a > RetryTtl \/ pause[k][m].at = a)
        BY <1>4, <3>4 DEF Paired, Failing
      <4>2. pause[k][m].at < textsNow - RetryTtl
        BY <3>4
      <4> HIDE DEF a, old
      <4>3. textsNow - a > RetryTtl
        BY <4>1, <4>2, TextsFacts DEF TextsAssumption
      <4> QED BY <4>1, <4>3 DEF Paired, a
    <3> QED BY <3>2, <3>3, <3>4
  <2>2. ~ early'
    BY <1>1 DEF TextsInv, PauseInv
  <2> QED BY <1>1, <2>1, <2>2 DEF PauseInv
<1>7. Texts!RowsAgree'
  <2>1. Texts!Unsaved' = {} /\ Texts!Unsaved = r.records
    BY <1>1 DEF Texts!Unsaved, Texts!Idle
  <2>2. ASSUME NEW m \in Messages, m \notin textsLost', shown'[m] # None PROVE RowIs(m)'
    <3>1. /\ m \notin textsLost /\ m \notin r.moved /\ shown'[m] = r.prev[m] /\ rows'[m] = rows[m]
          /\ apart' = apart
      BY <1>1, <2>2
    <3>2. CASE m \in r.records
      <4>1. rows[m] = r.prev[m]
        BY <1>1, <1>2, <3>1, <3>2 DEF Scraped
      <4> QED BY <3>1, <4>1 DEF RowIs
    <3>3. CASE m \notin r.records
      <4>1. shown'[m] = shown[m]
        BY <1>2, <3>1, <3>3 DEF Scraped
      <4>2. RowIs(m)
        BY <2>1, <2>2, <3>1, <3>3, <4>1, TextsFacts DEF RowIs, Texts!RowsAgree
      <4> QED BY <3>1, <4>1, <4>2 DEF RowIs
    <3> QED BY <3>2, <3>3
  <2> QED BY <2>2 DEF Texts!RowsAgree, RowIs
<1> QED BY <1>1, <1>3, <1>5, <1>6, <1>7 DEF TextsInv, RowsInv

LEMMA DiesStep ==
    ASSUME TextsAssumption, TextsInv, Texts!Dies
    PROVE  TextsInv'
<1>1. /\ scrape # Texts!Idle /\ textsFaults < TextsMaxFaults /\ textsFaults' = textsFaults + 1
      /\ textsLost' = IF scrape.at = "saving" THEN textsLost \cup scrape.records ELSE textsLost
      /\ scrape' = Texts!Idle
      /\ UNCHANGED <<textsNow, posted, shown, rows, seen, textsCache, pause, tried, early, apart>>
  BY DEF Texts!Dies, Texts!Fault
<1>2. textsLost' = textsLost \cup Texts!Unsaved /\ Texts!Unsaved \subseteq Messages
  BY <1>1, TextsFacts DEF Texts!Unsaved, Scraped, Scrapings
<1>3. textsFaults' \in 0..TextsMaxFaults
  BY <1>1, TextsFacts DEF TextsAssumption
<1>4. Texts!TypeOK'
  BY <1>1, <1>2, <1>3, TextsFacts, TextsMade
<1>5. PauseTypes' /\ PauseInv'
  BY <1>1, PausesSame DEF TextsInv
<1>6. Texts!RowsAgree'
  <2>1. Texts!Unsaved' = {}
    BY <1>1 DEF Texts!Unsaved, Texts!Idle
  <2> QED BY <1>1, <1>2, <2>1, TextsFacts DEF Texts!RowsAgree
<1> QED BY <1>1, <1>4, <1>5, <1>6 DEF TextsInv, RowsInv

LEMMA CollectsStep ==
    ASSUME TextsAssumption, TextsInv, NEW x \in Messages, NEW v \in Texts!Versions, Texts!Collects(x, v)
    PROVE  TextsInv'
<1> DEFINE r == scrape
<1>1. PICK w \in Texts!Written({x}) :
         /\ rows' = (IF x \in w[1] THEN [rows EXCEPT ![x] = v] ELSE rows)
         /\ textsFaults' = w[2]
         /\ textsLost' = (textsLost \ {x}) \cup ({x} \ w[1])
  BY DEF Texts!Collects
<1>2. /\ shown' = [shown EXCEPT ![x] = v]
      /\ seen' = seen \cup {x}
      /\ scrape' = IF scrape = Texts!Idle THEN Texts!Idle ELSE [r EXCEPT !.moved = @ \cup {x}]
      /\ apart' = apart \ {x}
      /\ UNCHANGED <<textsNow, posted, textsCache, pause, tried, early>>
  BY DEF Texts!Collects
<1>3. shown' \in States /\ shown'[x] = v /\ \A m \in Messages : m # x => shown'[m] = shown[m]
  BY <1>2, TextsFacts DEF States
<1>4. w[1] \subseteq {x} /\ textsFaults' \in 0..TextsMaxFaults
  BY <1>1, TextsFacts, WrittenIs
<1>5. rows' \in States /\ \A m \in Messages : rows'[m] = IF m \in w[1] THEN shown'[m] ELSE rows[m]
  <2>1. CASE x \in w[1]
    <3>1. rows' = [rows EXCEPT ![x] = v]
      BY <1>1, <2>1
    <3> QED BY <1>3, <1>4, <2>1, <3>1, TextsFacts DEF States
  <2>2. CASE x \notin w[1]
    <3>1. rows' = rows /\ w[1] = {}
      BY <1>1, <1>4, <2>2
    <3> QED BY <3>1, TextsFacts
  <2> QED BY <2>1, <2>2
<1>6. Texts!TypeOK'
  <2>1. textsLost' \subseteq Messages /\ seen' \subseteq Messages /\ apart' \subseteq Messages
    BY <1>1, <1>2, TextsFacts
  <2> QED BY <1>2, <1>3, <1>4, <1>5, <2>1, TextsFacts, TextsMade
<1>7. PauseTypes' /\ PauseInv'
  BY <1>2, PausesSame DEF TextsInv
<1>8. ASSUME scrape # Texts!Idle
      PROVE  Scraped(scrape)' /\ Texts!Unsaved' = Texts!Unsaved
  <2>1. Scraped(r) /\ r \in Scrapings
    BY <1>8, TextsFacts DEF Scraped
  <2>2. /\ scrape' \in Scrapings /\ scrape'.at = r.at /\ scrape'.prev = r.prev /\ scrape'.jobs = r.jobs
        /\ scrape'.records = r.records /\ scrape'.moved = r.moved \cup {x} /\ scrape'.aside = r.aside
    BY <1>2, <1>8, <2>1 DEF Scrapings
  <2>3. \A m \in Messages \ (r.records \cup scrape'.moved) : r.prev[m] = shown'[m]
    BY <1>3, <2>1, <2>2 DEF Scraped
  <2>4. r.at = "saving" => \A m \in r.records \ (textsLost' \cup scrape'.moved) : rows'[m] = r.prev[m]
    <3> SUFFICES ASSUME r.at = "saving", NEW m \in r.records, m \notin textsLost', m \notin scrape'.moved
                 PROVE  rows'[m] = r.prev[m]
      OBVIOUS
    <3>1. m # x /\ m \notin textsLost /\ m \notin r.moved /\ m \in Messages
      BY <1>1, <2>1, <2>2 DEF Scrapings
    <3>2. rows'[m] = rows[m]
      BY <1>4, <1>5, <3>1
    <3> QED BY <2>1, <3>1, <3>2 DEF Scraped
  <2>7. r.at = "building" => \A m \in r.records \ scrape'.moved : Renders(r.prev[m], shown'[m])
    BY <1>3, <2>1, <2>2 DEF Scraped, Scrapings
  <2>8. r.at \in {"copying", "persisting"} =>
          \A m \in Messages \ scrape'.moved : r.aside[m] # None => Renders(r.aside[m], shown'[m])
    BY <1>3, <2>1, <2>2 DEF Scraped
  <2>5. Scraped(scrape)'
    BY <2>1, <2>2, <2>3, <2>4, <2>7, <2>8 DEF Scraped
  <2>6. Texts!Unsaved' = Texts!Unsaved
    BY <2>2 DEF Texts!Unsaved
  <2> QED BY <2>5, <2>6
<1>9. Texts!Unsaved' = Texts!Unsaved
  BY <1>2, <1>8 DEF Texts!Unsaved
<1>10. Texts!RowsAgree'
  <2>1. ASSUME NEW m \in Messages, m \notin textsLost', m \notin Texts!Unsaved, shown'[m] # None
        PROVE  RowIs(m)'
    <3>1. CASE m = x
      <4>1. rows'[m] = shown'[m]
        BY <1>1, <1>5, <2>1, <3>1
      <4> QED BY <4>1 DEF RowIs
    <3>2. CASE m # x
      <4>1. /\ m \notin textsLost /\ rows'[m] = rows[m] /\ shown'[m] = shown[m]
            /\ (m \in apart => m \in apart')
        BY <1>1, <1>2, <1>3, <1>4, <1>5, <2>1, <3>2
      <4>2. RowIs(m)
        BY <2>1, <4>1, TextsFacts DEF RowIs, Texts!RowsAgree
      <4> QED BY <4>1, <4>2 DEF RowIs
    <3> QED BY <3>1, <3>2
  <2> QED BY <1>9, <2>1 DEF Texts!RowsAgree, RowIs
<1> QED BY <1>2, <1>6, <1>7, <1>8, <1>10 DEF TextsInv, RowsInv

LEMMA PostsStep ==
    ASSUME TextsAssumption, TextsInv, NEW x \in Messages, Texts!Posts(x)
    PROVE  TextsInv'
<1>1. /\ posted' = posted \cup {x}
      /\ UNCHANGED <<textsNow, shown, rows, seen, textsCache, pause, scrape, textsFaults, textsLost, tried, early, apart>>
  BY DEF Texts!Posts
<1>2. Texts!TypeOK'
  <2>1. posted' \subseteq Messages
    BY <1>1, TextsFacts
  <2> QED BY <1>1, <2>1, TextsFacts, TextsMade
<1>3. PauseTypes' /\ PauseInv'
  BY <1>1, PausesSame DEF TextsInv
<1>4. RowsInv'
  BY <1>1 DEF TextsInv, RowsInv, Texts!RowsAgree, Texts!Unsaved, Scraped
<1> QED BY <1>2, <1>3, <1>4 DEF TextsInv

LEMMA TextsTick ==
    ASSUME TextsAssumption, TextsInv, Texts!Tick
    PROVE  TextsInv'
<1>1. /\ textsNow < TextsMaxTime /\ textsNow' = textsNow + 1
      /\ UNCHANGED <<posted, shown, rows, seen, textsCache, pause, scrape, textsFaults, textsLost, tried, early, apart>>
  BY DEF Texts!Tick
<1>2. Texts!TypeOK'
  <2>1. textsNow' \in 0..TextsMaxTime
    BY <1>1, TextsFacts DEF TextsAssumption
  <2> QED BY <1>1, <2>1, TextsFacts, TextsMade
<1>3. PauseTypes'
  BY <1>1 DEF TextsInv, PauseTypes
<1>4. PauseInv'
  <2>1. ASSUME NEW k \in Texts!Kinds, NEW m \in Messages PROVE Paired(tried[k][m], pause[k][m], textsNow')
    <3> DEFINE t == tried[k][m]
               p == pause[k][m]
    <3>1. Paired(t, p, textsNow) /\ t \in Failing \cup {None}
      BY DEF TextsInv, PauseInv, PauseTypes
    <3> HIDE DEF t, p
    <3>2. ASSUME t = None PROVE Paired(t, p, textsNow')
      BY <3>2 DEF Paired
    <3>3. ASSUME t # None PROVE Paired(t, p, textsNow')
      <4> DEFINE a == t.at
      <4>1. a \in Nat /\ a <= textsNow
        BY <3>1, <3>3 DEF Failing, Paired
      <4> HIDE DEF a
      <4>2. a <= textsNow' /\ (textsNow - a > RetryTtl => textsNow' - a > RetryTtl)
        BY <1>1, <4>1, TextsFacts DEF TextsAssumption
      <4> QED BY <3>1, <4>2 DEF Paired, a
    <3> QED BY <3>2, <3>3 DEF t, p
  <2>2. ~ early'
    BY <1>1 DEF TextsInv, PauseInv
  <2> QED BY <1>1, <2>1, <2>2 DEF PauseInv
<1>5. RowsInv'
  BY <1>1 DEF TextsInv, RowsInv, Texts!RowsAgree, Texts!Unsaved, Scraped
<1> QED BY <1>2, <1>3, <1>4, <1>5 DEF TextsInv

LEMMA TextsStep ==
    ASSUME TextsAssumption, TextsInv, [Texts!Next]_(Texts!vars)
    PROVE  TextsInv'
<1>1. ASSUME NEW scope \in SUBSET Texts!Channels \ {{}}, NEW fetched \in SUBSET scope,
             Texts!Begins(scope, fetched)
      PROVE  TextsInv'
  BY <1>1, BeginsStep
<1>2. CASE Texts!Translates \/ Texts!Backfills \/ Texts!Builds \/ Texts!Copies
  BY <1>2, TranslatesStep, BackfillsStep, BuildsStep, CopiesStep
<1>3. CASE Texts!Persists \/ Texts!Saves \/ Texts!Dies \/ Texts!Tick
  BY <1>3, PersistsStep, SavesStep, DiesStep, TextsTick
<1>4. ASSUME NEW m \in Collected, NEW v \in Texts!Versions, Texts!Collects(m, v) PROVE TextsInv'
  <2>1. m \in Messages
    BY <1>4, TextsFacts DEF Texts!Collects
  <2> QED BY <1>4, <2>1, CollectsStep
<1>5. ASSUME NEW m \in Messages, Texts!Posts(m) PROVE TextsInv'
  BY <1>5, PostsStep
<1>6. CASE UNCHANGED Texts!vars
  <2>1. Texts!TypeOK'
    BY <1>6 DEF Texts!vars, TextsInv, Texts!TypeOK
  <2>2. PauseTypes' /\ PauseInv'
    BY <1>6, PausesSame DEF TextsInv, Texts!vars
  <2>3. RowsInv'
    BY <1>6 DEF Texts!vars, TextsInv, RowsInv, Texts!RowsAgree, Texts!Unsaved, Scraped
  <2> QED BY <2>1, <2>2, <2>3 DEF TextsInv
<1> QED BY <1>1, <1>2, <1>3, <1>4, <1>5, <1>6 DEF Texts!Next

(* A text or photo that failed k times in a row is tried again only after  *)
(* the k-th pause (shouldAttemptBackfill), also when its pause was cleaned *)
(* up in between.                                                          *)
THEOREM TextsPause ==
    ASSUME TextsAssumption
    PROVE  Texts!Spec => []Texts!ApartByPause
<1>1. TextsInv => Texts!ApartByPause
  BY DEF TextsInv, PauseInv, Texts!ApartByPause
<1> QED BY <1>1, TextsInit, TextsStep, PTL DEF Texts!Spec

(* The row of a message has what the state has, unless D1 failed, the      *)
(* object restarted before it saved, or a batch of the collector's came    *)
(* during a scrape (persistCycleToD1); but a text that a scrape translated *)
(* in a channel outside its cycle is in English in the row alone           *)
(* (telegram-state-merge.ts).                                              *)
THEOREM TextsRows ==
    ASSUME TextsAssumption
    PROVE  Texts!Spec => []Texts!RowsAgree
<1>1. TextsInv => Texts!RowsAgree
  BY DEF TextsInv, RowsInv
<1> QED BY <1>1, TextsInit, TextsStep, PTL DEF Texts!Spec

-----------------------------------------------------------------------------
(***************************************************************************)
(* UsageStore.                                                             *)
(***************************************************************************)
Usage == INSTANCE UsageStore WITH
    now <- usageNow, faults <- usageFaults, edge <- usageEdge,
    reader <- usageReader, accepted <- usageAccepted, Foreign <- UsageForeign,
    Readers <- UsageReaders, CacheTtl <- UsageCacheTtl,
    MaxTime <- UsageMaxTime, MaxFaults <- UsageMaxFaults

UsageAssumption ==
    /\ UsageMaxTime \in Nat /\ UsageMaxFaults \in Nat /\ MaxSeeds \in Nat /\ MaxEntries \in Nat
    /\ UsageCacheTtl \in Nat /\ Deadline \in Nat /\ BatchSize \in Nat \ {0} /\ QueueRetries \in Nat
    /\ Limits \subseteq Nat
    /\ Async \in BOOLEAN /\ Remote \in BOOLEAN
    /\ UsageForeign \notin Keys
    /\ None \notin [response : [value : Nat, length : Nat], until : Nat]
    /\ None \notin [value : Nat, length : Nat]

SeedEntries == [key : Keys \cup {UsageForeign}, seed : 1..MaxSeeds, nth : 1..MaxEntries]
Responses == [value : 0..MaxSeeds, length : Nat]
Questions ==
    [at : {"reading", "caching"}, key : Keys, limit : Limits, since : Nat, tries : Nat,
     response : Responses \cup {None}]

UsageTypes ==
    /\ usageNow \in 0..UsageMaxTime /\ usageFaults \in 0..UsageMaxFaults /\ seeds \in 0..MaxSeeds
    /\ kv \in [Keys -> 0..MaxSeeds]
    /\ queue \subseteq SeedEntries
    /\ seeder \in [at : {"sending"}, all : Seq(SeedEntries), rest : Seq(SeedEntries)] \cup {Usage!Idle}
    /\ usageEdge \in [Keys \X Limits -> [response : Responses, until : Nat] \cup {None}]
    /\ usageReader \in [UsageReaders -> Questions \cup {Usage!Idle}]
    /\ lastHad \in [Keys -> [0..MaxSeeds -> Nat]]
    /\ attempts \in [SeedEntries -> Nat]

(* The messages whose delivery failed more often than the queue retries.   *)
Undelivered == {entry \in SeedEntries : attempts[entry] > QueueRetries}

(* What the queue takes is valid, and what of a seed has been sent is in   *)
(* the queue, has been written or could not be delivered.                  *)
SeedInv ==
    /\ \A entry \in queue : Usage!Valid(entry)
    /\ usageAccepted \subseteq written \cup queue \cup Undelivered
    /\ seeder # Usage!Idle =>
          /\ Async => \A entry \in Usage!Entries(seeder.rest) : Usage!Valid(entry)
          /\ Usage!Entries(seeder.all) \subseteq written \cup queue \cup Undelivered \cup Usage!Entries(seeder.rest)

(* A key has a value, or had it at that time or later.                     *)
HadSince(key, v, t) == kv[key] = v \/ lastHad[key][v] >= t

(* A response that was read after a time, for a question with the limit.   *)
Suits(response, key, limit, t) ==
    /\ response.length \in {0, limit}
    /\ HadSince(key, response.value, t)

(* What is cached suits the question it is the answer to; a request ends   *)
(* in time.                                                                *)
AnswersInv ==
    /\ outdated = FALSE
    /\ \A key \in Keys, limit \in Limits : usageEdge[<<key, limit>>] # None =>
          /\ usageEdge[<<key, limit>>].until <= usageNow + UsageCacheTtl
          /\ Suits(usageEdge[<<key, limit>>].response, key, limit, usageEdge[<<key, limit>>].until - UsageCacheTtl - Deadline)
    /\ \A r \in UsageReaders : usageReader[r] # Usage!Idle =>
          /\ usageReader[r].since <= usageNow /\ usageNow <= usageReader[r].since + Deadline
          /\ usageReader[r].at = "caching" =>
                /\ usageReader[r].response # None
                /\ Suits(usageReader[r].response, usageReader[r].key, usageReader[r].limit, usageReader[r].since)

UsageInv == UsageTypes /\ SeedInv /\ AnswersInv

LEMMA UsageInit == UsageAssumption /\ Usage!Init => UsageInv
<1> SUFFICES ASSUME UsageAssumption, Usage!Init PROVE UsageInv
  OBVIOUS
<1>1. /\ usageNow = 0 /\ usageFaults = 0 /\ seeds = 0
      /\ kv = [key \in Keys |-> 0]
      /\ queue = {} /\ usageAccepted = {} /\ seeder = Usage!Idle
      /\ usageEdge = [c \in Keys \X Limits |-> None]
      /\ usageReader = [r \in UsageReaders |-> Usage!Idle]
      /\ lastHad = [key \in Keys |-> [v \in 0..MaxSeeds |-> 0]]
      /\ outdated = FALSE
      /\ attempts = [entry \in SeedEntries |-> 0]
  BY DEF Usage!Init, Usage!Messages, SeedEntries
<1>2. UsageTypes
  BY <1>1 DEF UsageTypes, UsageAssumption
<1>3. SeedInv
  BY <1>1 DEF SeedInv, Undelivered
<1>4. AnswersInv
  BY <1>1 DEF AnswersInv
<1> QED BY <1>2, <1>3, <1>4 DEF UsageInv

(* The entries of a list and of its parts.                                 *)
LEMMA EntriesOfParts ==
    ASSUME NEW S, NEW list \in Seq(S), NEW n \in 0..Len(list)
    PROVE  /\ SubSeq(list, 1, n) \in Seq(S) /\ SubSeq(list, n + 1, Len(list)) \in Seq(S)
           /\ Usage!Entries(SubSeq(list, 1, n)) \subseteq Usage!Entries(list)
           /\ Usage!Entries(SubSeq(list, n + 1, Len(list))) \subseteq Usage!Entries(list)
           /\ Usage!Entries(list) \subseteq Usage!Entries(SubSeq(list, 1, n))
                                      \cup Usage!Entries(SubSeq(list, n + 1, Len(list)))
           /\ Usage!Entries(list) \subseteq S
<1> DEFINE a == SubSeq(list, 1, n)
           b == SubSeq(list, n + 1, Len(list))
<1>1. Len(list) \in Nat /\ DOMAIN list = 1..Len(list) /\ list \in [1..Len(list) -> S]
  BY LenProperties
<1>2. a \in Seq(S) /\ Len(a) = n /\ DOMAIN a = 1..n /\ \A i \in 1..n : a[i] = list[i]
  BY <1>1
<1>3. /\ b \in Seq(S) /\ Len(b) = Len(list) - n /\ DOMAIN b = 1..Len(list) - n
      /\ \A i \in 1..Len(list) - n : b[i] = list[n + i]
  <2>0. n \in Int /\ Len(list) \in Int /\ n <= Len(list)
    BY <1>1
  <2>1. n + 1 \in Int /\ Len(list) \in Int /\ Len(list) - (n + 1) + 1 = Len(list) - n
    BY <1>1
  <2>2. \A i \in n + 1..Len(list) : list[i] \in S
    BY <1>1
  <2>3. /\ b \in Seq(S)
        /\ Len(b) = IF n + 1 <= Len(list) THEN Len(list) - (n + 1) + 1 ELSE 0
        /\ \A i \in 1..Len(list) - (n + 1) + 1 : b[i] = list[(n + 1) + i - 1]
    BY <2>1, <2>2, SubSeqProperties
  <2> HIDE DEF b
  <2>4. Len(b) = Len(list) - n
    <3>1. CASE n + 1 <= Len(list)
      <4>1. Len(b) = Len(list) - (n + 1) + 1
        BY <2>3, <3>1
      <4> QED BY <2>1, <4>1
    <3>2. CASE ~ (n + 1 <= Len(list))
      <4>1. Len(b) = 0
        BY <2>3, <3>2
      <4>2. Len(list) - n = 0
        BY <2>0, <3>2
      <4> QED BY <4>1, <4>2
    <3> QED BY <3>1, <3>2
  <2>5. \A i \in 1..Len(list) - n : b[i] = list[n + i]
    <3>1. ASSUME NEW i \in 1..Len(list) - n
          PROVE  b[i] = list[n + i]
      <4>1. (n + 1) + i - 1 = n + i /\ i \in 1..Len(list) - (n + 1) + 1
        BY <2>0, <2>1
      <4>2. b[i] = list[(n + 1) + i - 1]
        BY <2>3, <4>1
      <4> QED BY <4>1, <4>2
    <3> QED BY <3>1
  <2>6. DOMAIN b = 1..Len(b)
    BY <2>3, LenProperties
  <2> QED BY <2>3, <2>4, <2>5, <2>6
<1> HIDE DEF a, b
<1>4. ASSUME NEW i \in 1..Len(list)
      PROVE  list[i] \in Usage!Entries(a) \cup Usage!Entries(b)
  <2>1. CASE i <= n
    BY <1>2, <2>1 DEF Usage!Entries
  <2>2. CASE i > n
    <3>1. i - n \in 1..Len(list) - n /\ n + (i - n) = i
      BY <1>1, <2>2
    <3>2. b[i - n] = list[i]
      BY <1>3, <3>1
    <3> QED BY <1>3, <3>1, <3>2 DEF Usage!Entries
  <2> QED BY <1>1, <2>1, <2>2
<1>5. Usage!Entries(a) \subseteq Usage!Entries(list)
  BY <1>1, <1>2 DEF Usage!Entries
<1>6. Usage!Entries(b) \subseteq Usage!Entries(list)
  <2>1. ASSUME NEW i \in 1..Len(list) - n
        PROVE  b[i] \in Usage!Entries(list)
    <3>1. n + i \in 1..Len(list)
      BY <1>1
    <3>2. b[i] = list[n + i]
      BY <1>3
    <3> QED BY <1>1, <3>1, <3>2 DEF Usage!Entries
  <2>2. Usage!Entries(b) = {b[i] : i \in 1..Len(list) - n}
    BY <1>3 DEF Usage!Entries
  <2> QED BY <2>1, <2>2
<1> QED BY <1>1, <1>2, <1>3, <1>4, <1>5, <1>6, ZenonT(30) DEF a, b, Usage!Entries

LEMMA EntriesOfTail ==
    ASSUME NEW S, NEW list \in Seq(S), list # <<>>
    PROVE  /\ Head(list) \in S /\ Head(list) \in Usage!Entries(list)
           /\ Tail(list) \in Seq(S)
           /\ Usage!Entries(list) \subseteq {Head(list)} \cup Usage!Entries(Tail(list))
           /\ Usage!Entries(Tail(list)) \subseteq Usage!Entries(list)
<1>1. /\ Len(list) \in Nat \ {0} /\ DOMAIN list = 1..Len(list) /\ list \in [1..Len(list) -> S]
      /\ Head(list) = list[1] /\ Tail(list) \in Seq(S) /\ Len(Tail(list)) = Len(list) - 1
      /\ DOMAIN Tail(list) = 1..Len(list) - 1
      /\ \A i \in 1..Len(list) - 1 : Tail(list)[i] = list[i + 1]
  BY LenProperties, HeadTailProperties
<1>2. ASSUME NEW i \in 2..Len(list)
      PROVE  list[i] \in Usage!Entries(Tail(list))
  <2>1. i - 1 \in 1..Len(list) - 1 /\ (i - 1) + 1 = i
    BY <1>1
  <2> QED BY <1>1, <2>1 DEF Usage!Entries
<1>3. \A i \in 1..Len(list) : i = 1 \/ i \in 2..Len(list)
  BY <1>1
<1>4. Usage!Entries(Tail(list)) \subseteq Usage!Entries(list)
  <2>1. \A i \in 1..Len(list) - 1 : i + 1 \in 1..Len(list)
    BY <1>1
  <2> QED BY <1>1, <2>1 DEF Usage!Entries
<1>5. 1 \in 1..Len(list)
  BY <1>1
<1> QED BY <1>1, <1>2, <1>3, <1>4, <1>5 DEF Usage!Entries

(* What is cached and asked stays as it is, and so does what it suits when *)
(* the values do.                                                          *)
LEMMA AnswersKept ==
    ASSUME UsageInv, UNCHANGED <<usageNow, kv, usageEdge, usageReader, lastHad, outdated>>
    PROVE  AnswersInv'
BY DEF UsageInv, AnswersInv, Suits, HadSince

(* A value that is put does not make what the key had forgotten.           *)
LEMMA PutKept ==
    ASSUME UsageAssumption, UsageInv, NEW entry \in SeedEntries, Usage!Valid(entry), Usage!Puts(entry),
           UNCHANGED <<usageNow, usageEdge, usageReader, outdated>>
    PROVE  /\ kv' \in [Keys -> 0..MaxSeeds] /\ lastHad' \in [Keys -> [0..MaxSeeds -> Nat]]
           /\ written' = written \cup {entry}
           /\ AnswersInv'
<1> DEFINE k == entry.key
<1>1. /\ k \in Keys /\ entry.seed \in 0..MaxSeeds
      /\ kv' = [kv EXCEPT ![k] = entry.seed] /\ written' = written \cup {entry}
      /\ lastHad' = [lastHad EXCEPT ![k][kv[k]] = usageNow]
  BY DEF SeedEntries, Usage!Valid, Usage!Puts, Usage!Had
<1>2. UsageTypes /\ AnswersInv /\ usageNow \in Nat
  BY DEF UsageInv, UsageTypes
<1> HIDE DEF k
<1>3. kv' \in [Keys -> 0..MaxSeeds] /\ lastHad' \in [Keys -> [0..MaxSeeds -> Nat]]
  BY <1>1, <1>2 DEF UsageTypes
<1>4. ASSUME NEW key \in Keys, NEW v \in 0..MaxSeeds, NEW t \in Int, t <= usageNow, HadSince(key, v, t)
      PROVE  HadSince(key, v, t)'
  <2>1. lastHad[key][v] \in Nat /\ kv[key] \in 0..MaxSeeds
    BY <1>2 DEF UsageTypes
  <2>2. CASE key # k
    BY <1>1, <1>2, <1>4, <2>2 DEF HadSince, UsageTypes
  <2>3. CASE key = k /\ kv[key] = v
    <3>1. lastHad'[key][v] = usageNow
      BY <1>1, <1>2, <2>1, <2>3 DEF UsageTypes
    <3> QED BY <1>4, <3>1 DEF HadSince
  <2>4. CASE key = k /\ kv[key] # v
    <3>1. lastHad'[key][v] = lastHad[key][v]
      BY <1>1, <1>2, <2>1, <2>4 DEF UsageTypes
    <3> QED BY <1>4, <2>4, <3>1 DEF HadSince
  <2> QED BY <2>2, <2>3, <2>4
<1>5. ASSUME NEW key \in Keys, NEW limit \in Limits, usageEdge[<<key, limit>>] # None
      PROVE  Suits(usageEdge[<<key, limit>>].response, key, limit, usageEdge[<<key, limit>>].until - UsageCacheTtl - Deadline)'
  <2> DEFINE c == usageEdge[<<key, limit>>]
             t == c.until - UsageCacheTtl - Deadline
  <2>1. c \in [response : Responses, until : Nat] /\ c.until <= usageNow + UsageCacheTtl
    BY <1>2, <1>5 DEF UsageTypes, AnswersInv
  <2>2. Suits(c.response, key, limit, t)
    BY <1>2, <1>5 DEF AnswersInv
  <2>3. c.response.value \in 0..MaxSeeds /\ c.until \in Nat
    BY <2>1 DEF Responses
  <2>4. t \in Int /\ t <= usageNow
    BY <1>2, <2>1, <2>3 DEF UsageAssumption
  <2>5. c' = c /\ t' = t
    OBVIOUS
  <2> HIDE DEF c, t
  <2>6. Suits(c.response, key, limit, t)'
    BY <1>4, <2>2, <2>3, <2>4, <2>5 DEF Suits
  <2> QED BY <2>6 DEF c, t
<1>6. ASSUME NEW r \in UsageReaders, usageReader[r] # Usage!Idle, usageReader[r].at = "caching"
      PROVE  Suits(usageReader[r].response, usageReader[r].key, usageReader[r].limit, usageReader[r].since)'
  <2> DEFINE q == usageReader[r]
  <2>1. /\ q \in Questions /\ q.since <= usageNow /\ q.response # None
        /\ Suits(q.response, q.key, q.limit, q.since)
    BY <1>2, <1>6 DEF UsageTypes, AnswersInv
  <2>2. q.response.value \in 0..MaxSeeds /\ q.key \in Keys /\ q.since \in Int
    BY <2>1 DEF Questions, Responses
  <2>3. q' = q
    OBVIOUS
  <2> HIDE DEF q
  <2>4. Suits(q.response, q.key, q.limit, q.since)'
    BY <1>4, <2>1, <2>2, <2>3 DEF Suits
  <2> QED BY <2>4 DEF q
<1>7. AnswersInv'
  BY <1>2, <1>5, <1>6 DEF AnswersInv
<1> QED BY <1>1, <1>3, <1>7

LEMMA SeedStep ==
    ASSUME UsageAssumption, UsageInv, Usage!Seed
    PROVE  UsageInv'
<1>1. /\ seeder = Usage!Idle /\ seeds < MaxSeeds /\ seeds' = seeds + 1
      /\ UNCHANGED <<usageNow, usageFaults, kv, queue, usageEdge, usageReader, usageAccepted, written, lastHad, outdated, attempts>>
  BY DEF Usage!Seed
<1>2. UsageTypes /\ SeedInv
  BY DEF UsageInv
<1>3. seeds + 1 \in 1..MaxSeeds /\ MaxEntries \in Nat
  BY <1>1, <1>2 DEF UsageTypes, UsageAssumption
<1>4. PICK n \in 1..MaxEntries : \E keys \in [1..n -> Keys \cup {UsageForeign}] :
          LET entries == [i \in 1..n |-> [key |-> keys[i], seed |-> seeds + 1, nth |-> i]]
              refused == Async /\ \E i \in 1..n : ~ Usage!Valid(entries[i])
          IN  seeder' = IF refused THEN Usage!Idle ELSE [at |-> "sending", all |-> entries, rest |-> entries]
  BY DEF Usage!Seed
<1>5. PICK keys \in [1..n -> Keys \cup {UsageForeign}] :
          LET entries == [i \in 1..n |-> [key |-> keys[i], seed |-> seeds + 1, nth |-> i]]
              refused == Async /\ \E i \in 1..n : ~ Usage!Valid(entries[i])
          IN  seeder' = IF refused THEN Usage!Idle ELSE [at |-> "sending", all |-> entries, rest |-> entries]
  BY <1>4
<1> DEFINE entries == [i \in 1..n |-> [key |-> keys[i], seed |-> seeds + 1, nth |-> i]]
<1>6. n \in Nat /\ \A i \in 1..n : entries[i] \in SeedEntries
  BY <1>3 DEF SeedEntries
<1>7. \/ seeder' = Usage!Idle
      \/ /\ seeder' = [at |-> "sending", all |-> entries, rest |-> entries]
         /\ Async => \A i \in 1..n : Usage!Valid(entries[i])
  BY <1>5
<1>8. DOMAIN entries = 1..n /\ entries \in [1..n -> SeedEntries]
  BY <1>6
<1> HIDE DEF entries
<1>9. entries \in Seq(SeedEntries)
  BY <1>6, <1>8
<1>10. UsageTypes'
  BY <1>1, <1>2, <1>3, <1>7, <1>9 DEF UsageTypes
<1>11. SeedInv'
  BY <1>1, <1>2, <1>7, <1>8 DEF SeedInv, Undelivered, Usage!Idle, Usage!Entries, Usage!Valid
<1>12. AnswersInv'
  BY <1>1, AnswersKept
<1> QED BY <1>10, <1>11, <1>12 DEF UsageInv

LEMMA SendBatchStep ==
    ASSUME UsageAssumption, UsageInv, Usage!SendBatch
    PROVE  UsageInv'
<1> DEFINE n == IF Len(seeder.rest) < BatchSize THEN Len(seeder.rest) ELSE BatchSize
           batch == SubSeq(seeder.rest, 1, n)
           left == SubSeq(seeder.rest, n + 1, Len(seeder.rest))
<1>1. /\ seeder.at = "sending" /\ Async
      /\ queue' = queue \cup Usage!Entries(batch)
      /\ seeder' = [seeder EXCEPT !.rest = left]
      /\ UNCHANGED <<usageNow, usageFaults, seeds, kv, usageEdge, usageReader, usageAccepted, written, lastHad, outdated, attempts>>
  BY DEF Usage!SendBatch, Usage!Sends
<1>2. UsageTypes /\ SeedInv
  BY DEF UsageInv
<1>3. seeder # Usage!Idle /\ seeder \in [at : {"sending"}, all : Seq(SeedEntries), rest : Seq(SeedEntries)]
  BY <1>1, <1>2 DEF UsageTypes, Usage!Idle
<1>4. seeder.rest \in Seq(SeedEntries) /\ n \in 0..Len(seeder.rest)
  BY <1>3, LenProperties DEF UsageAssumption
<1> HIDE DEF n
<1>5. /\ batch \in Seq(SeedEntries) /\ left \in Seq(SeedEntries)
      /\ Usage!Entries(batch) \subseteq Usage!Entries(seeder.rest)
      /\ Usage!Entries(left) \subseteq Usage!Entries(seeder.rest)
      /\ Usage!Entries(seeder.rest) \subseteq Usage!Entries(batch) \cup Usage!Entries(left)
      /\ Usage!Entries(seeder.rest) \subseteq SeedEntries
  BY <1>4, EntriesOfParts
<1> HIDE DEF batch, left
<1>6. seeder' \in [at : {"sending"}, all : Seq(SeedEntries), rest : Seq(SeedEntries)]
      /\ seeder'.all = seeder.all /\ seeder'.rest = left
  BY <1>1, <1>3, <1>5
<1>7. UsageTypes'
  BY <1>1, <1>2, <1>5, <1>6 DEF UsageTypes
<1>8. SeedInv'
  <2>1. \A entry \in Usage!Entries(seeder.rest) : Usage!Valid(entry)
    BY <1>1, <1>2, <1>3 DEF SeedInv, Undelivered
  <2>2. \A entry \in queue' : Usage!Valid(entry)
    BY <1>1, <1>2, <1>5, <2>1 DEF SeedInv, Undelivered
  <2>3. Usage!Entries(seeder.all) \subseteq written \cup queue' \cup Undelivered' \cup Usage!Entries(left)
    BY <1>1, <1>2, <1>3, <1>5 DEF SeedInv, Undelivered
  <2>4. \A entry \in Usage!Entries(left) : Usage!Valid(entry)
    BY <1>5, <2>1
  <2>5. usageAccepted' \subseteq written' \cup queue' \cup Undelivered'
    BY <1>1, <1>2 DEF SeedInv, Undelivered
  <2>6. /\ Usage!Entries(seeder.all)' = Usage!Entries(seeder.all)
        /\ Usage!Entries(seeder.rest)' = Usage!Entries(left)
    BY <1>6 DEF Usage!Entries
  <2> QED BY <1>1, <2>2, <2>3, <2>4, <2>5, <2>6 DEF SeedInv, Undelivered, Usage!Valid
<1>9. AnswersInv'
  BY <1>1, AnswersKept
<1> QED BY <1>7, <1>8, <1>9 DEF UsageInv

LEMMA PutEntryStep ==
    ASSUME UsageAssumption, UsageInv, Usage!PutEntry
    PROVE  UsageInv'
<1> DEFINE entry == Head(seeder.rest)
<1>1. /\ seeder.at = "sending" /\ ~ Async /\ seeder.rest # <<>>
      /\ UNCHANGED <<usageNow, usageFaults, seeds, queue, usageEdge, usageReader, usageAccepted, outdated, attempts>>
  BY DEF Usage!PutEntry
<1>2. UsageTypes /\ SeedInv
  BY DEF UsageInv
<1>3. seeder # Usage!Idle /\ seeder \in [at : {"sending"}, all : Seq(SeedEntries), rest : Seq(SeedEntries)]
  BY <1>1, <1>2 DEF UsageTypes, Usage!Idle
<1>4. /\ entry \in SeedEntries /\ Tail(seeder.rest) \in Seq(SeedEntries)
      /\ Usage!Entries(seeder.rest) \subseteq {entry} \cup Usage!Entries(Tail(seeder.rest))
  BY <1>1, <1>3, EntriesOfTail
<1>5. CASE Usage!Valid(entry)
  <2>1. Usage!Puts(entry) /\ seeder' = [seeder EXCEPT !.rest = Tail(@)]
    BY <1>5 DEF Usage!PutEntry
  <2> HIDE DEF entry
  <2>2. /\ kv' \in [Keys -> 0..MaxSeeds] /\ lastHad' \in [Keys -> [0..MaxSeeds -> Nat]]
        /\ written' = written \cup {entry}
        /\ AnswersInv'
    BY <1>1, <1>4, <1>5, <2>1, PutKept
  <2>3. /\ seeder' \in [at : {"sending"}, all : Seq(SeedEntries), rest : Seq(SeedEntries)]
        /\ seeder'.all = seeder.all /\ seeder'.rest = Tail(seeder.rest)
    BY <1>3, <1>4, <2>1
  <2>4. UsageTypes'
    BY <1>1, <1>2, <2>2, <2>3 DEF UsageTypes
  <2>5. SeedInv'
    <3>1. usageAccepted' \subseteq written' \cup queue' \cup Undelivered' /\ \A e \in queue' : Usage!Valid(e)
      BY <1>1, <1>2, <2>2 DEF SeedInv, Undelivered
    <3>2. Usage!Entries(seeder.all) \subseteq written' \cup queue' \cup Undelivered' \cup Usage!Entries(Tail(seeder.rest))
      BY <1>1, <1>2, <1>3, <1>4, <2>2 DEF SeedInv, Undelivered
    <3> QED BY <1>1, <2>3, <3>1, <3>2 DEF SeedInv, Undelivered, Usage!Valid, Usage!Entries
  <2> QED BY <2>2, <2>4, <2>5 DEF UsageInv
<1>6. CASE ~ Usage!Valid(entry)
  <2>1. seeder' = Usage!Idle /\ UNCHANGED <<kv, written, lastHad>>
    BY <1>6 DEF Usage!PutEntry
  <2>2. UsageTypes'
    BY <1>1, <1>2, <2>1 DEF UsageTypes, Usage!Idle
  <2>3. SeedInv'
    BY <1>1, <1>2, <2>1 DEF SeedInv, Undelivered, Usage!Idle, Usage!Valid
  <2> QED BY <1>1, <2>1, <2>2, <2>3, AnswersKept DEF UsageInv
<1> QED BY <1>5, <1>6

LEMMA SeedAcceptedStep ==
    ASSUME UsageAssumption, UsageInv, Usage!SeedAccepted
    PROVE  UsageInv'
<1>1. /\ seeder.at = "sending" /\ seeder.rest = <<>>
      /\ usageAccepted' = usageAccepted \cup Usage!Entries(seeder.all) /\ seeder' = Usage!Idle
      /\ UNCHANGED <<usageNow, usageFaults, seeds, kv, queue, usageEdge, usageReader, written, lastHad, outdated, attempts>>
  BY DEF Usage!SeedAccepted
<1>2. UsageTypes /\ SeedInv
  BY DEF UsageInv
<1>3. seeder # Usage!Idle
  BY <1>1, <1>2 DEF UsageTypes, Usage!Idle
<1>4. Usage!Entries(seeder.rest) = {}
  BY <1>1 DEF Usage!Entries
<1>5. SeedInv'
  BY <1>1, <1>2, <1>3, <1>4 DEF SeedInv, Undelivered, Usage!Idle, Usage!Valid
<1>6. UsageTypes'
  BY <1>1, <1>2 DEF UsageTypes, Usage!Idle
<1> QED BY <1>1, <1>5, <1>6, AnswersKept DEF UsageInv

LEMMA SeedFailsStep ==
    ASSUME UsageAssumption, UsageInv, Usage!SeedFails
    PROVE  UsageInv'
<1> DEFINE entry == Head(seeder.rest)
<1>1. /\ seeder.at = "sending" /\ usageFaults < UsageMaxFaults /\ usageFaults' = usageFaults + 1 /\ seeder' = Usage!Idle
      /\ UNCHANGED <<usageNow, seeds, usageEdge, usageReader, usageAccepted, outdated, attempts>>
      /\ IF Async /\ seeder.rest # <<>> THEN queue' \in {queue, queue \cup {entry}} ELSE UNCHANGED queue
      /\ \/ UNCHANGED <<kv, written, lastHad>>
         \/ ~ Async /\ seeder.rest # <<>> /\ Usage!Valid(entry) /\ Usage!Puts(entry)
  BY DEF Usage!SeedFails, Usage!Fault
<1>2. UsageTypes /\ SeedInv
  BY DEF UsageInv
<1>3. seeder # Usage!Idle /\ seeder.rest \in Seq(SeedEntries)
  BY <1>1, <1>2 DEF UsageTypes, Usage!Idle
<1>4. seeder.rest # <<>> => entry \in SeedEntries /\ entry \in Usage!Entries(seeder.rest)
  BY <1>3, EntriesOfTail
<1> HIDE DEF entry
<1>5. queue \subseteq queue' /\ queue' \subseteq SeedEntries /\ \A e \in queue' : Usage!Valid(e)
  <2>1. \A e \in queue : Usage!Valid(e) /\ e \in SeedEntries
    BY <1>2 DEF SeedInv, Undelivered, UsageTypes
  <2>2. Async /\ seeder.rest # <<>> => Usage!Valid(entry)
    BY <1>2, <1>3, <1>4 DEF SeedInv, Undelivered
  <2> QED BY <1>1, <1>4, <2>1, <2>2
<1>6. usageFaults' \in 0..UsageMaxFaults
  BY <1>1, <1>2 DEF UsageTypes, UsageAssumption
<1>7. CASE UNCHANGED <<kv, written, lastHad>>
  <2>1. UsageTypes'
    BY <1>1, <1>2, <1>5, <1>6, <1>7 DEF UsageTypes, Usage!Idle
  <2>2. SeedInv'
    BY <1>1, <1>2, <1>5, <1>7 DEF SeedInv, Undelivered, Usage!Idle, Usage!Valid
  <2> QED BY <1>1, <1>7, <2>1, <2>2, AnswersKept DEF UsageInv
<1>8. CASE seeder.rest # <<>> /\ Usage!Valid(entry) /\ Usage!Puts(entry)
  <2>1. /\ kv' \in [Keys -> 0..MaxSeeds] /\ lastHad' \in [Keys -> [0..MaxSeeds -> Nat]]
        /\ written' = written \cup {entry}
        /\ AnswersInv'
    BY <1>1, <1>4, <1>8, PutKept
  <2>2. UsageTypes'
    BY <1>1, <1>2, <1>5, <1>6, <2>1 DEF UsageTypes, Usage!Idle
  <2>3. SeedInv'
    BY <1>1, <1>2, <1>5, <2>1 DEF SeedInv, Undelivered, Usage!Idle, Usage!Valid
  <2> QED BY <2>1, <2>2, <2>3 DEF UsageInv
<1> QED BY <1>1, <1>7, <1>8

(* A seed in work keeps what it has, and so does what was accepted.        *)
LEMMA QueueKept ==
    ASSUME SeedInv, UNCHANGED <<usageAccepted, seeder>>,
           written \subseteq written', \A e \in queue' : Usage!Valid(e),
           written \cup queue \cup Undelivered \subseteq written' \cup queue' \cup Undelivered'
    PROVE  SeedInv'
BY DEF SeedInv, Undelivered, Usage!Idle, Usage!Valid, Usage!Entries

LEMMA ConsumeStep ==
    ASSUME UsageAssumption, UsageInv, NEW entry \in queue, Usage!Consume(entry)
    PROVE  UsageInv'
<1>1. UsageTypes /\ SeedInv
  BY DEF UsageInv
<1>2. Usage!Valid(entry) /\ entry \in SeedEntries
  BY <1>1 DEF SeedInv, Undelivered, UsageTypes
<1>3. /\ Usage!Puts(entry) /\ queue' = queue \ {entry}
      /\ UNCHANGED <<usageNow, usageFaults, seeds, seeder, usageEdge, usageReader, usageAccepted, outdated, attempts>>
  BY <1>2 DEF Usage!Consume
<1>4. /\ kv' \in [Keys -> 0..MaxSeeds] /\ lastHad' \in [Keys -> [0..MaxSeeds -> Nat]]
      /\ written' = written \cup {entry}
      /\ AnswersInv'
  BY <1>2, <1>3, PutKept
<1>5. UsageTypes'
  BY <1>1, <1>3, <1>4 DEF UsageTypes
<1>6. SeedInv'
  <2>1. /\ written \subseteq written' /\ written \cup queue \cup Undelivered \subseteq written' \cup queue' \cup Undelivered'
        /\ \A e \in queue' : Usage!Valid(e)
    BY <1>1, <1>3, <1>4 DEF SeedInv, Undelivered
  <2> QED BY <1>1, <1>3, <2>1, QueueKept
<1> QED BY <1>4, <1>5, <1>6 DEF UsageInv

LEMMA ConsumeFailsStep ==
    ASSUME UsageAssumption, UsageInv, NEW entry \in queue, Usage!ConsumeFails(entry)
    PROVE  UsageInv'
<1>1. UsageTypes /\ SeedInv /\ QueueRetries \in Nat
  BY DEF UsageInv, UsageAssumption
<1>2. Usage!Valid(entry) /\ entry \in SeedEntries
  BY <1>1 DEF SeedInv, UsageTypes
<1>3. /\ queue' = IF attempts[entry] < QueueRetries THEN queue ELSE queue \ {entry}
      /\ attempts' = [attempts EXCEPT ![entry] = @ + 1]
      /\ usageFaults < UsageMaxFaults /\ usageFaults' = usageFaults + 1
      /\ UNCHANGED <<usageNow, seeds, seeder, usageEdge, usageReader, usageAccepted, outdated>>
      /\ UNCHANGED <<kv, written, lastHad>> \/ Usage!Puts(entry)
  BY DEF Usage!ConsumeFails, Usage!AfterPutFailed, Usage!Fault
<1>4. usageFaults' \in 0..UsageMaxFaults
  BY <1>1, <1>3 DEF UsageTypes, UsageAssumption
<1>5. /\ kv' \in [Keys -> 0..MaxSeeds] /\ lastHad' \in [Keys -> [0..MaxSeeds -> Nat]]
      /\ written \subseteq written'
      /\ AnswersInv'
  <2>1. CASE UNCHANGED <<kv, written, lastHad>>
    BY <1>1, <1>3, <2>1, AnswersKept DEF UsageTypes
  <2>2. CASE Usage!Puts(entry)
    BY <1>2, <1>3, <2>2, PutKept
  <2> QED BY <1>3, <2>1, <2>2
<1>6. attempts \in [SeedEntries -> Nat] /\ attempts' \in [SeedEntries -> Nat]
  BY <1>1, <1>2, <1>3 DEF UsageTypes
<1>7. UsageTypes'
  <2>1. queue' \subseteq SeedEntries
    BY <1>1, <1>3 DEF UsageTypes
  <2> QED BY <1>1, <1>3, <1>4, <1>5, <1>6, <2>1 DEF UsageTypes
<1>8. SeedInv'
  <2>1. \A e \in SeedEntries : attempts[e] \in Nat /\ attempts'[e] = IF e = entry THEN attempts[e] + 1 ELSE attempts[e]
    BY <1>2, <1>3, <1>6
  <2>2. Undelivered \subseteq Undelivered'
    BY <1>1, <2>1 DEF Undelivered
  <2>3. entry \in queue' \/ entry \in Undelivered'
    BY <1>1, <1>2, <1>3, <2>1 DEF Undelivered
  <2>4. queue \ {entry} \subseteq queue' /\ queue' \subseteq queue
    BY <1>3
  <2>5. /\ written \cup queue \cup Undelivered \subseteq written' \cup queue' \cup Undelivered'
        /\ \A e \in queue' : Usage!Valid(e)
    BY <1>1, <1>5, <2>2, <2>3, <2>4 DEF SeedInv
  <2> QED BY <1>1, <1>3, <1>5, <2>5, QueueKept
<1> QED BY <1>5, <1>7, <1>8 DEF UsageInv

(* The response to a question is of now, and no longer than was asked.     *)
LEMMA ResponseSuits ==
    ASSUME UsageAssumption, UsageInv, NEW key \in Keys, NEW limit \in Limits
    PROVE  /\ Usage!Response(key, limit) \in Responses
           /\ \A t : Suits(Usage!Response(key, limit), key, limit, t)
<1>1. kv[key] \in 0..MaxSeeds /\ limit \in Nat
  BY DEF UsageInv, UsageTypes, UsageAssumption
<1> QED BY <1>1 DEF Usage!Response, Responses, Suits, HadSince

(* An answer that suits its question, of a time not too long ago.          *)
LEMMA AnsweredInTime ==
    ASSUME UsageAssumption, UsageInv, NEW q, q.key \in Keys, q.limit \in Limits,
           NEW response \in Responses, NEW t \in Int, usageNow - UsageCacheTtl - Deadline <= t,
           Suits(response, q.key, q.limit, t), Usage!Answered(q, response)
    PROVE  outdated' = FALSE
<1>1. outdated = FALSE
  BY DEF UsageInv, AnswersInv
<1>2. q.limit \in Nat /\ response.length \in Nat /\ response.length <= q.limit
  BY DEF UsageAssumption, Suits, Responses
<1>3. ~ (response.length > q.limit)
  BY <1>2
<1>4. /\ usageNow \in Nat /\ UsageCacheTtl \in Nat /\ Deadline \in Nat /\ response.value \in 0..MaxSeeds
      /\ lastHad[q.key][response.value] \in Nat
  BY DEF UsageInv, UsageTypes, UsageAssumption, Responses
<1>5. ~ (kv[q.key] # response.value /\ lastHad[q.key][response.value] < usageNow - UsageCacheTtl - Deadline)
  BY <1>4 DEF Suits, HadSince
<1> QED BY <1>1, <1>3, <1>5 DEF Usage!Answered

LEMMA AskStep ==
    ASSUME UsageAssumption, UsageInv, NEW r \in UsageReaders, NEW key \in Keys, NEW limit \in Limits,
           Usage!Ask(r, key, limit)
    PROVE  UsageInv'
<1> DEFINE q == [at |-> "reading", key |-> key, limit |-> limit, since |-> usageNow, tries |-> 0, response |-> None]
           c == usageEdge[<<key, limit>>]
           hit == ~ Remote /\ UsageCacheTtl > 0 /\ c # None /\ c.until > usageNow
<1>1. /\ UNCHANGED <<usageNow, usageFaults, seeds, kv, queue, seeder, usageEdge, usageAccepted, written, lastHad, attempts>>
      /\ IF hit THEN Usage!Answered(q, c.response) /\ UNCHANGED usageReader
         ELSE usageReader' = [usageReader EXCEPT ![r] = q] /\ UNCHANGED outdated
  BY DEF Usage!Ask, Usage!CacheKey
<1>2. UsageTypes /\ SeedInv /\ AnswersInv /\ usageNow \in Nat
  BY DEF UsageInv, UsageTypes
<1>3. SeedInv'
  BY <1>1, <1>2, QueueKept DEF SeedInv, Undelivered
<1>4. CASE hit
  <2>1. c \in [response : Responses, until : Nat] /\ c.until <= usageNow + UsageCacheTtl /\ c.until > usageNow /\ c # None
    BY <1>2, <1>4 DEF UsageTypes, AnswersInv
  <2>2. Suits(c.response, key, limit, c.until - UsageCacheTtl - Deadline)
    BY <1>2, <2>1 DEF AnswersInv
  <2>3. c.until - UsageCacheTtl - Deadline \in Int /\ usageNow - UsageCacheTtl - Deadline <= c.until - UsageCacheTtl - Deadline
    BY <1>2, <2>1 DEF UsageAssumption
  <2>4. q.key = key /\ q.limit = limit /\ c.response \in Responses /\ Usage!Answered(q, c.response)
    BY <1>1, <1>4, <2>1
  <2> HIDE DEF q, c
  <2>5. outdated' = FALSE
    BY <2>2, <2>3, <2>4, AnsweredInTime
  <2>6. UNCHANGED <<usageNow, usageFaults, seeds, kv, queue, seeder, usageEdge, usageAccepted, written, lastHad, usageReader, attempts>>
    BY <1>1, <1>4
  <2>7. AnswersInv'
    BY <1>2, <2>5, <2>6 DEF AnswersInv, Suits, HadSince
  <2> QED BY <1>2, <1>3, <2>6, <2>7 DEF UsageInv, UsageTypes
<1>5. CASE ~ hit
  <2>1. usageReader' = [usageReader EXCEPT ![r] = q] /\ UNCHANGED outdated
    BY <1>1, <1>5
  <2>2. /\ q \in Questions /\ q.at = "reading" /\ q.since = usageNow
    BY <1>2 DEF Questions
  <2> HIDE DEF q, c, hit
  <2>3. UsageTypes'
    BY <1>1, <1>2, <2>1, <2>2 DEF UsageTypes
  <2>4. AnswersInv'
    <3>1. \A p \in UsageReaders : usageReader'[p] = IF p = r THEN q ELSE usageReader[p]
      BY <1>2, <2>1 DEF UsageTypes
    <3>2. usageNow <= usageNow + Deadline
      BY <1>2 DEF UsageAssumption
    <3> QED BY <1>1, <1>2, <2>1, <2>2, <3>1, <3>2 DEF AnswersInv, Suits, HadSince
  <2> QED BY <1>3, <2>3, <2>4 DEF UsageInv
<1> QED BY <1>4, <1>5

(* Whoever is done asking leaves the other answers as they are.            *)
LEMMA ReaderLeaves ==
    ASSUME UsageAssumption, UsageInv, NEW r \in UsageReaders, NEW q \in Questions \cup {Usage!Idle},
           usageReader' = [usageReader EXCEPT ![r] = q],
           q # Usage!Idle =>
              /\ q.since <= usageNow /\ usageNow <= q.since + Deadline
              /\ q.at = "caching" => q.response # None /\ Suits(q.response, q.key, q.limit, q.since),
           UNCHANGED <<usageNow, seeds, kv, queue, seeder, usageEdge, usageAccepted, written, lastHad, attempts>>,
           outdated' = FALSE, usageFaults' \in 0..UsageMaxFaults
    PROVE  UsageInv'
<1>1. UsageTypes /\ SeedInv /\ AnswersInv
  BY DEF UsageInv
<1>2. \A p \in UsageReaders : usageReader'[p] = IF p = r THEN q ELSE usageReader[p]
  BY <1>1 DEF UsageTypes
<1>3. UsageTypes'
  BY <1>1 DEF UsageTypes
<1>4. SeedInv'
  BY <1>1, QueueKept DEF SeedInv, Undelivered
<1>5. AnswersInv'
  BY <1>1, <1>2 DEF AnswersInv, Suits, HadSince
<1> QED BY <1>3, <1>4, <1>5 DEF UsageInv

(* A question in work was asked not too long ago.                          *)
LEMMA QuestionIs ==
    ASSUME UsageAssumption, UsageInv, NEW r \in UsageReaders, usageReader[r] # Usage!Idle
    PROVE  /\ usageReader[r] \in Questions
           /\ usageReader[r].key \in Keys /\ usageReader[r].limit \in Limits /\ usageReader[r].since \in Nat
           /\ usageReader[r].since <= usageNow /\ usageNow <= usageReader[r].since + Deadline
           /\ usageNow \in Nat /\ usageNow - UsageCacheTtl - Deadline <= usageNow
           /\ usageReader[r].at = "caching" =>
                 /\ usageReader[r].response # None
                 /\ Suits(usageReader[r].response, usageReader[r].key, usageReader[r].limit, usageReader[r].since)
<1>1. UsageTypes /\ AnswersInv
  BY DEF UsageInv
<1>2. usageReader[r] \in Questions
  BY <1>1 DEF UsageTypes
<1>3. usageNow \in Nat /\ UsageCacheTtl \in Nat /\ Deadline \in Nat
  BY <1>1 DEF UsageTypes, UsageAssumption
<1> QED BY <1>1, <1>2, <1>3 DEF Questions, AnswersInv

LEMMA ReadKvStep ==
    ASSUME UsageAssumption, UsageInv, NEW r \in UsageReaders, Usage!ReadKv(r)
    PROVE  UsageInv'
<1> DEFINE q == usageReader[r]
           response == Usage!Response(q.key, q.limit)
           after == IF UsageCacheTtl > 0 THEN [q EXCEPT !.at = "caching", !.response = response] ELSE Usage!Idle
<1>1. /\ q.at = "reading"
      /\ Usage!Answered(q, response)
      /\ usageReader' = [usageReader EXCEPT ![r] = after]
      /\ UNCHANGED <<usageNow, usageFaults, seeds, kv, queue, seeder, usageEdge, usageAccepted, written, lastHad, attempts>>
  BY DEF Usage!ReadKv
<1>2. q # Usage!Idle
  BY <1>1 DEF Usage!Idle
<1>3. /\ q \in Questions /\ q.key \in Keys /\ q.limit \in Limits /\ q.since \in Nat
      /\ q.since <= usageNow /\ usageNow <= q.since + Deadline
      /\ usageNow \in Nat /\ usageNow - UsageCacheTtl - Deadline <= usageNow
  BY <1>2, QuestionIs
<1>4. response \in Responses /\ \A t : Suits(response, q.key, q.limit, t)
  BY <1>3, ResponseSuits
<1>5. usageNow \in Int
  BY <1>3
<1> HIDE DEF q, response
<1>6. outdated' = FALSE
  BY <1>1, <1>3, <1>4, <1>5, AnsweredInTime
<1>7. response # None
  BY <1>4 DEF Responses, UsageAssumption
<1>8. after \in Questions \cup {Usage!Idle}
  BY <1>3, <1>4 DEF Questions
<1>9. after # Usage!Idle =>
         /\ after.since = q.since /\ after.key = q.key /\ after.limit = q.limit /\ after.response = response
  BY <1>3 DEF Questions
<1> HIDE DEF after
<1>10. usageFaults' \in 0..UsageMaxFaults
  BY <1>1 DEF UsageInv, UsageTypes
<1> QED BY <1>1, <1>3, <1>4, <1>6, <1>7, <1>8, <1>9, <1>10, ReaderLeaves

LEMMA CacheAnswerStep ==
    ASSUME UsageAssumption, UsageInv, NEW r \in UsageReaders, Usage!CacheAnswer(r)
    PROVE  UsageInv'
<1> DEFINE q == usageReader[r]
           c == [response |-> q.response, until |-> usageNow + UsageCacheTtl]
<1>1. /\ q.at = "caching"
      /\ usageEdge' = [usageEdge EXCEPT ![<<q.key, q.limit>>] = c]
      /\ usageReader' = [usageReader EXCEPT ![r] = Usage!Idle]
      /\ UNCHANGED <<usageNow, usageFaults, seeds, kv, queue, seeder, usageAccepted, written, lastHad, outdated, attempts>>
  BY DEF Usage!CacheAnswer, Usage!CacheKey
<1>2. q # Usage!Idle
  BY <1>1 DEF Usage!Idle
<1>3. /\ q \in Questions /\ q.key \in Keys /\ q.limit \in Limits /\ q.since \in Nat
      /\ q.since <= usageNow /\ usageNow <= q.since + Deadline /\ usageNow \in Nat
      /\ q.response # None /\ Suits(q.response, q.key, q.limit, q.since)
  BY <1>1, <1>2, QuestionIs
<1>4. UsageTypes /\ SeedInv /\ AnswersInv /\ UsageCacheTtl \in Nat /\ Deadline \in Nat
  BY DEF UsageInv, UsageAssumption
<1>5. /\ q.response \in Responses
      /\ c \in [response : Responses, until : Nat] /\ c.response = q.response /\ c.until = usageNow + UsageCacheTtl
  BY <1>3, <1>4 DEF Questions
<1>6. Suits(c.response, q.key, q.limit, c.until - UsageCacheTtl - Deadline)
  <2>1. c.until - UsageCacheTtl - Deadline <= q.since /\ c.until - UsageCacheTtl - Deadline \in Int
    BY <1>3, <1>4, <1>5
  <2>2. lastHad[q.key][q.response.value] \in Nat
    <3>1. lastHad \in [Keys -> [0..MaxSeeds -> Nat]]
      BY <1>4 DEF UsageTypes
    <3>2. q.key \in Keys /\ q.response.value \in 0..MaxSeeds
      BY <1>3, <1>5 DEF Responses
    <3> HIDE DEF c, q
    <3> QED BY <3>1, <3>2
  <2> HIDE DEF c, q
  <2>3. lastHad[q.key][q.response.value] >= q.since =>
            lastHad[q.key][q.response.value] >= c.until - UsageCacheTtl - Deadline
    BY <1>3, <2>1, <2>2
  <2> QED BY <1>3, <1>5, <2>3 DEF Suits, HadSince
<1> HIDE DEF q, c
<1>7. UsageTypes'
  BY <1>1, <1>3, <1>4, <1>5 DEF UsageTypes
<1>8. SeedInv'
  BY <1>1, <1>4, QueueKept DEF SeedInv, Undelivered
<1>9. AnswersInv'
  <2>1. /\ \A p \in UsageReaders : usageReader'[p] = IF p = r THEN Usage!Idle ELSE usageReader[p]
        /\ \A key \in Keys, limit \in Limits :
              usageEdge'[<<key, limit>>] = IF key = q.key /\ limit = q.limit THEN c ELSE usageEdge[<<key, limit>>]
    BY <1>1, <1>3, <1>4 DEF UsageTypes
  <2>2. c.until <= usageNow + UsageCacheTtl
    BY <1>3, <1>4, <1>5
  <2> QED BY <1>1, <1>4, <1>6, <2>1, <2>2 DEF AnswersInv, Suits, HadSince
<1> QED BY <1>7, <1>8, <1>9 DEF UsageInv

LEMMA ReadRemoteStep ==
    ASSUME UsageAssumption, UsageInv, NEW r \in UsageReaders, Usage!ReadRemote(r)
    PROVE  UsageInv'
<1> DEFINE q == usageReader[r]
           response == Usage!Response(q.key, q.limit)
<1>1. /\ q.at = "reading"
      /\ Usage!Answered(q, response)
      /\ usageReader' = [usageReader EXCEPT ![r] = Usage!Idle]
      /\ UNCHANGED <<usageNow, usageFaults, seeds, kv, queue, seeder, usageEdge, usageAccepted, written, lastHad, attempts>>
  BY DEF Usage!ReadRemote
<1>2. q # Usage!Idle
  BY <1>1 DEF Usage!Idle
<1>3. /\ q \in Questions /\ q.key \in Keys /\ q.limit \in Limits
      /\ usageNow \in Nat /\ usageNow - UsageCacheTtl - Deadline <= usageNow
  BY <1>2, QuestionIs
<1>4. response \in Responses /\ \A t : Suits(response, q.key, q.limit, t)
  BY <1>3, ResponseSuits
<1>5. usageNow \in Int
  BY <1>3
<1> HIDE DEF q, response
<1>6. outdated' = FALSE
  BY <1>1, <1>3, <1>4, <1>5, AnsweredInTime
<1>7. usageFaults' \in 0..UsageMaxFaults
  BY <1>1 DEF UsageInv, UsageTypes
<1> QED BY <1>1, <1>6, <1>7, ReaderLeaves

LEMMA ReaderFailsStep ==
    ASSUME UsageAssumption, UsageInv, NEW r \in UsageReaders, Usage!RemoteFails(r) \/ Usage!ReadFails(r)
    PROVE  UsageInv'
<1>1. PICK q : /\ q \in {Usage!Idle, [usageReader[r] EXCEPT !.tries = @ + 1]}
               /\ q = Usage!Idle \/ usageReader[r].at = "reading"
               /\ usageReader' = [usageReader EXCEPT ![r] = q]
  <2>1. CASE Usage!RemoteFails(r)
    <3> DEFINE p == [usageReader[r] EXCEPT !.tries = @ + 1]
    <3>1. usageReader[r].at = "reading"
      BY <2>1 DEF Usage!RemoteFails
    <3>2. CASE usageReader[r].tries < MaxRetries
      <4>1. usageReader' = [usageReader EXCEPT ![r] = p]
        BY <2>1, <3>2 DEF Usage!RemoteFails
      <4> HIDE DEF p
      <4> QED BY <3>1, <4>1 DEF p
    <3>3. CASE ~ (usageReader[r].tries < MaxRetries)
      <4>1. usageReader' = [usageReader EXCEPT ![r] = Usage!Idle]
        BY <2>1, <3>3 DEF Usage!RemoteFails
      <4> QED BY <4>1
    <3> QED BY <3>2, <3>3
  <2>2. CASE Usage!ReadFails(r)
    BY <2>2 DEF Usage!ReadFails
  <2> QED BY <2>1, <2>2
<1>2. /\ usageFaults < UsageMaxFaults /\ usageFaults' = usageFaults + 1
      /\ UNCHANGED <<usageNow, seeds, kv, queue, seeder, usageEdge, usageAccepted, written, lastHad, outdated, attempts>>
  BY DEF Usage!RemoteFails, Usage!ReadFails, Usage!Fault
<1>3. usageFaults' \in 0..UsageMaxFaults /\ outdated' = FALSE
  BY <1>2 DEF UsageInv, UsageTypes, AnswersInv, UsageAssumption
<1>4. CASE q = Usage!Idle
  BY <1>1, <1>2, <1>3, <1>4, ReaderLeaves
<1>5. CASE q # Usage!Idle
  <2>1. usageReader[r].at = "reading" /\ q = [usageReader[r] EXCEPT !.tries = @ + 1]
    BY <1>1, <1>5
  <2>2. usageReader[r] # Usage!Idle
    BY <2>1 DEF Usage!Idle
  <2>3. /\ usageReader[r] \in Questions /\ usageReader[r].since <= usageNow /\ usageNow <= usageReader[r].since + Deadline
    BY <2>2, QuestionIs
  <2>4. q \in Questions /\ q.since = usageReader[r].since /\ q.at = "reading"
    BY <2>1, <2>3 DEF Questions
  <2> QED BY <1>1, <1>2, <1>3, <2>3, <2>4, ReaderLeaves
<1> QED BY <1>4, <1>5

LEMMA WarmStep ==
    ASSUME UsageAssumption, UsageInv, NEW key \in Keys, NEW limit \in Limits, Usage!Warm(key, limit)
    PROVE  UsageInv'
<1> DEFINE c == [response |-> Usage!Response(key, limit), until |-> usageNow + UsageCacheTtl]
<1>1. /\ usageEdge' = [usageEdge EXCEPT ![<<key, limit>>] = c]
      /\ UNCHANGED <<usageNow, usageFaults, seeds, kv, queue, seeder, usageReader, usageAccepted, written, lastHad, outdated, attempts>>
  BY DEF Usage!Warm, Usage!CacheKey
<1>2. UsageTypes /\ SeedInv /\ AnswersInv /\ UsageCacheTtl \in Nat /\ usageNow \in Nat
  <2>1. UsageTypes /\ SeedInv /\ AnswersInv
    BY DEF UsageInv
  <2> HIDE DEF c
  <2> QED BY <2>1 DEF UsageAssumption, UsageTypes
<1>3. /\ c \in [response : Responses, until : Nat] /\ c.until <= usageNow + UsageCacheTtl
      /\ \A t : Suits(c.response, key, limit, t)
  BY <1>2, ResponseSuits
<1> HIDE DEF c
<1>4. UsageTypes'
  BY <1>1, <1>2, <1>3 DEF UsageTypes
<1>5. SeedInv'
  BY <1>1, <1>2, QueueKept DEF SeedInv, Undelivered
<1>6. AnswersInv'
  <2>1. \A k \in Keys, l \in Limits :
           usageEdge'[<<k, l>>] = IF k = key /\ l = limit THEN c ELSE usageEdge[<<k, l>>]
    BY <1>1, <1>2 DEF UsageTypes
  <2> QED BY <1>1, <1>2, <1>3, <2>1 DEF AnswersInv, Suits, HadSince
<1> QED BY <1>4, <1>5, <1>6 DEF UsageInv

LEMMA UsageTick ==
    ASSUME UsageAssumption, UsageInv, Usage!Tick
    PROVE  UsageInv'
<1>1. /\ usageNow < UsageMaxTime /\ usageNow' = usageNow + 1
      /\ \A r \in UsageReaders : usageReader[r] # Usage!Idle => usageNow < usageReader[r].since + Deadline
      /\ UNCHANGED <<usageFaults, seeds, kv, queue, seeder, usageEdge, usageReader, usageAccepted, written, lastHad, outdated, attempts>>
  BY DEF Usage!Tick
<1>2. UsageTypes /\ SeedInv /\ AnswersInv /\ UsageCacheTtl \in Nat /\ Deadline \in Nat /\ usageNow \in Nat
  BY DEF UsageInv, UsageAssumption, UsageTypes
<1>3. UsageTypes'
  BY <1>1, <1>2 DEF UsageTypes, UsageAssumption
<1>4. SeedInv'
  BY <1>1, <1>2, QueueKept DEF SeedInv, Undelivered
<1>5. ASSUME NEW key \in Keys, NEW limit \in Limits, usageEdge[<<key, limit>>] # None
      PROVE  usageEdge[<<key, limit>>].until <= usageNow' + UsageCacheTtl
  <2>1. usageEdge[<<key, limit>>].until \in Nat /\ usageEdge[<<key, limit>>].until <= usageNow + UsageCacheTtl
    BY <1>2, <1>5 DEF UsageTypes, AnswersInv
  <2> QED BY <1>1, <1>2, <2>1
<1>6. ASSUME NEW r \in UsageReaders, usageReader[r] # Usage!Idle
      PROVE  usageReader[r].since <= usageNow' /\ usageNow' <= usageReader[r].since + Deadline
  <2>1. usageReader[r].since \in Nat /\ usageReader[r].since <= usageNow /\ usageNow < usageReader[r].since + Deadline
    BY <1>1, <1>6, QuestionIs
  <2> QED BY <1>1, <1>2, <2>1
<1>7. AnswersInv'
  BY <1>1, <1>2, <1>5, <1>6 DEF AnswersInv, Suits, HadSince
<1> QED BY <1>3, <1>4, <1>7 DEF UsageInv

LEMMA UsageStep == UsageAssumption /\ UsageInv /\ [Usage!Next]_Usage!vars => UsageInv'
<1> SUFFICES ASSUME UsageAssumption, UsageInv, [Usage!Next]_Usage!vars PROVE UsageInv'
  OBVIOUS
<1>1. CASE Usage!Seed \/ Usage!SendBatch \/ Usage!PutEntry \/ Usage!SeedAccepted \/ Usage!SeedFails
  BY <1>1, SeedStep, SendBatchStep, PutEntryStep, SeedAcceptedStep, SeedFailsStep
<1>2. CASE \E entry \in queue : Usage!Consume(entry) \/ Usage!ConsumeFails(entry)
  BY <1>2, ConsumeStep, ConsumeFailsStep
<1>3. ASSUME NEW r \in UsageReaders,
             \/ Usage!ReadKv(r) \/ Usage!CacheAnswer(r) \/ Usage!ReadRemote(r)
             \/ Usage!RemoteFails(r) \/ Usage!ReadFails(r)
             \/ \E key \in Keys, limit \in Limits : Usage!Ask(r, key, limit)
      PROVE  UsageInv'
  BY <1>3, ReadKvStep, CacheAnswerStep, ReadRemoteStep, ReaderFailsStep, AskStep
<1>4. CASE \E key \in Keys, limit \in Limits : Usage!Warm(key, limit)
  BY <1>4, WarmStep
<1>5. CASE UNCHANGED Usage!vars
  <2>1. UNCHANGED <<usageNow, usageFaults, seeds, kv, queue, seeder, usageEdge, usageReader, usageAccepted, written, lastHad, outdated, attempts>>
    BY <1>5 DEF Usage!vars
  <2>2. UsageTypes'
    BY <2>1 DEF UsageInv, UsageTypes
  <2>3. SeedInv'
    BY <2>1, QueueKept DEF UsageInv, SeedInv, Undelivered
  <2> QED BY <2>1, <2>2, <2>3, AnswersKept DEF UsageInv
<1> QED BY <1>1, <1>2, <1>3, <1>4, <1>5, UsageTick DEF Usage!Next

(* What a seed was accepted with is stored or waits in the queue, whatever *)
(* fails on the way (seedKvStorage, and message.retry), until its delivery *)
(* has failed more often than the queue retries.                           *)
THEOREM UsageAcceptedKept ==
    ASSUME UsageAssumption
    PROVE  Usage!Spec => []Usage!AcceptedKept
<1>1. UsageInv => Usage!AcceptedKept
  BY DEF UsageInv, SeedInv, Undelivered, Usage!AcceptedKept
<1> QED BY <1>1, UsageInit, UsageStep, PTL DEF Usage!Spec

(* An answer from KV, the edge cache or the backend has no more points     *)
(* than were asked for, and is no older than the cache and a request.      *)
THEOREM UsageFreshEnough ==
    ASSUME UsageAssumption
    PROVE  Usage!Spec => []Usage!FreshEnough
<1>1. UsageInv => Usage!FreshEnough
  BY DEF UsageInv, AnswersInv, Usage!FreshEnough
<1> QED BY <1>1, UsageInit, UsageStep, PTL DEF Usage!Spec

-----------------------------------------------------------------------------
(***************************************************************************)
(* CrmSummary.                                                             *)
(***************************************************************************)
Crm == INSTANCE CrmSummary WITH
    faults <- crmFaults, account <- crmAccount, lost <- crmLost,
    overlapped <- crmOverlapped, Users <- CrmUsers, MaxFaults <- CrmMaxFaults

CrmAssumption ==
    /\ LogLimit \in Nat /\ MaxWrites \in Nat /\ CrmMaxFaults \in Nat
    /\ \A A, L : None \notin [account : A, log : L, crossed : BOOLEAN]

Activity == SUBSET (1..MaxWrites)
Stages == {"saving", "refreshing", "loading", "logging", "clearing"}
Writing == [at : Stages, user : CrmUsers, n : 1..MaxWrites, base : Activity]
Summaries == [account : [CrmUsers -> 0..MaxWrites], log : [CrmUsers -> Activity], crossed : BOOLEAN]
Building ==
    [at : {"accounts", "logs", "saving"}, left : SUBSET CrmUsers, crossed : BOOLEAN,
     account : [CrmUsers -> 0..MaxWrites], log : [CrmUsers -> Activity]]

Short(l) == IsFiniteSet(l) /\ Cardinality(l) <= LogLimit

CrmTypes ==
    /\ writes \in 0..MaxWrites /\ crmFaults \in 0..CrmMaxFaults
    /\ crmAccount \in [CrmUsers -> 0..MaxWrites]
    /\ log \in [CrmUsers -> Activity] /\ logged \in [CrmUsers -> Activity]
    /\ \A u \in CrmUsers : Short(log[u])
    /\ writer \in [Writers -> Writing \cup {Crm!Idle}]
    /\ \A w \in Writers : writer[w] # Crm!Idle => Short(writer[w].base)
    /\ builder \in [Builders -> Building \cup {Crm!Idle}]
    /\ summary \in Summaries \cup {None}

(* A log has all that was appended to it, or as much as it may and all     *)
(* that is newer.                                                          *)
Whole(l, all) ==
    /\ l \subseteq all
    /\ \A n \in all \ l : Cardinality(l) = LogLimit /\ \A k \in l : n < k

(* Who is to write a log has read it as it is.                             *)
LogInv ==
    /\ \A u \in CrmUsers \ crmOverlapped : Whole(log[u], logged[u])
    /\ \A w \in Writers : writer[w].at = "logging" /\ writer[w].user \notin crmOverlapped =>
          /\ writer[w].base = log[writer[w].user]
          /\ \A v \in Writers : writer[v].at = "logging" /\ writer[v].user = writer[w].user => v = w

(* An account or a log as it was read is as it is now, or its writer has   *)
(* yet to delete the summary.                                              *)
SeenAccount(a, u) == a = crmAccount[u] \/ Crm!Pending(u, "refreshing")
SeenLog(l, u) == l = log[u] \/ Crm!Pending(u, "clearing")

SummaryInv ==
    ~ crmLost =>
        /\ summary # None /\ ~ summary.crossed =>
              \A u \in CrmUsers : SeenAccount(summary.account[u], u) /\ SeenLog(summary.log[u], u)
        /\ \A b \in Builders : builder[b] # Crm!Idle /\ ~ builder[b].crossed =>
              \A u \in CrmUsers :
                  /\ builder[b].at # "accounts" \/ u \notin builder[b].left => SeenAccount(builder[b].account[u], u)
                  /\ \/ builder[b].at = "saving"
                     \/ builder[b].at = "logs" /\ u \notin builder[b].left
                     => SeenLog(builder[b].log[u], u)

CrmInv == CrmTypes /\ LogInv /\ SummaryInv

LEMMA CrmInit == CrmAssumption /\ Crm!Init => CrmInv
<1> SUFFICES ASSUME CrmAssumption, Crm!Init PROVE CrmInv
  OBVIOUS
<1>1. /\ writes = 0 /\ crmFaults = 0
      /\ crmAccount = [u \in CrmUsers |-> 0]
      /\ log = [u \in CrmUsers |-> {}] /\ logged = [u \in CrmUsers |-> {}]
      /\ summary = None
      /\ writer = [w \in Writers |-> Crm!Idle]
      /\ builder = [b \in Builders |-> Crm!Idle]
      /\ crmLost = FALSE /\ crmOverlapped = {}
  BY DEF Crm!Init
<1>2. Short({})
  BY FS_EmptySet DEF Short, CrmAssumption
<1>3. CrmTypes
  BY <1>1, <1>2 DEF CrmTypes, CrmAssumption, Activity
<1>4. LogInv
  BY <1>1 DEF LogInv, Whole, Crm!Idle
<1>5. SummaryInv
  BY <1>1 DEF SummaryInv
<1> QED BY <1>3, <1>4, <1>5 DEF CrmInv

(* Of a log and one event more, the newest are all of them, or all but the *)
(* least.                                                                  *)
LEMMA NewestOfMore ==
    ASSUME CrmAssumption, NEW l \in SUBSET Nat, Short(l), NEW n \in Nat
    PROVE  \/ Crm!Newest(l \cup {n}) = l \cup {n} /\ Short(l \cup {n})
           \/ /\ n \notin l /\ Cardinality(l) = LogLimit
              /\ \E x \in l \cup {n} :
                    /\ \A y \in l \cup {n} : x <= y
                    /\ Crm!Newest(l \cup {n}) = (l \cup {n}) \ {x}
                    /\ Short((l \cup {n}) \ {x})
                    /\ Cardinality((l \cup {n}) \ {x}) = LogLimit
<1> DEFINE S == l \cup {n}
           above(m) == {k \in S : k > m}
<1>1. IsFiniteSet(l) /\ Cardinality(l) \in Nat /\ Cardinality(l) <= LogLimit /\ LogLimit \in Nat
  BY FS_CardinalityType DEF Short, CrmAssumption
<1>2. IsFiniteSet(S) /\ Cardinality(S) = IF n \in l THEN Cardinality(l) ELSE Cardinality(l) + 1
  BY <1>1, FS_AddElement
<1>3. S \in SUBSET Nat /\ S # {} /\ Cardinality(S) \in Nat
  BY <1>2, FS_CardinalityType
<1>4. Crm!Newest(S) = {m \in S : Cardinality(above(m)) < LogLimit}
  <2>1. \A T : Crm!Cardinality(T) = Cardinality(T)
    BY Zenon DEF Crm!Cardinality, Cardinality
  <2> QED BY <2>1 DEF Crm!Newest
<1>5. ASSUME NEW m \in S, NEW T, IsFiniteSet(T), above(m) \subseteq T
      PROVE  Cardinality(above(m)) \in Nat /\ Cardinality(above(m)) <= Cardinality(T)
  BY <1>5, FS_Subset, FS_CardinalityType
<1> HIDE DEF S
<1>6. \A m \in S : IsFiniteSet(S \ {m}) /\ Cardinality(S \ {m}) = Cardinality(S) - 1
  BY <1>2, FS_RemoveElement
<1>7. CASE Cardinality(S) <= LogLimit
  <2>1. ASSUME NEW m \in S
        PROVE  Cardinality(above(m)) < LogLimit
    <3>1. above(m) \subseteq S \ {m}
      BY <1>3
    <3>2. Cardinality(above(m)) \in Nat /\ Cardinality(above(m)) <= Cardinality(S) - 1
      BY <1>5, <1>6, <3>1
    <3> HIDE DEF above
    <3> QED BY <1>1, <1>3, <1>7, <3>2
  <2>2. Crm!Newest(S) = S
    BY <1>4, <2>1
  <2> QED BY <1>2, <1>7, <2>2 DEF Short, S
<1>8. CASE ~ (Cardinality(S) <= LogLimit)
  <2>1. n \notin l /\ Cardinality(l) = LogLimit /\ Cardinality(S) = LogLimit + 1
    BY <1>1, <1>2, <1>8
  <2>2. PICK x \in S : \A y \in S : x <= y
    BY <1>3, LeastNumber
  <2>3. IsFiniteSet(S \ {x}) /\ Cardinality(S \ {x}) = LogLimit
    BY <1>1, <1>6, <2>1
  <2>4. above(x) = S \ {x}
    <3>1. \A k \in S : k \in Int /\ x \in Int /\ x <= k
      BY <1>3, <2>2
    <3>2. \A k \in S : k > x <=> k # x
      BY <3>1
    <3> QED BY <3>2
  <2>5. ASSUME NEW m \in S \ {x}
        PROVE  Cardinality(above(m)) < LogLimit
    <3>1. above(m) \subseteq (S \ {x}) \ {m}
      BY <1>3, <2>2
    <3>2. IsFiniteSet((S \ {x}) \ {m}) /\ Cardinality((S \ {x}) \ {m}) = LogLimit - 1
      BY <2>3, FS_RemoveElement
    <3>3. Cardinality(above(m)) \in Nat /\ Cardinality(above(m)) <= LogLimit - 1
      BY <1>5, <3>1, <3>2
    <3> HIDE DEF above
    <3> QED BY <1>1, <3>3
  <2>6. ~ (Cardinality(above(x)) < LogLimit)
    BY <1>1, <2>3, <2>4
  <2>7. Crm!Newest(S) = S \ {x}
    BY <1>4, <2>2, <2>5, <2>6
  <2> QED BY <1>1, <2>1, <2>2, <2>3, <2>7 DEF Short, S
<1> QED BY <1>7, <1>8

(* An append keeps a log whole.                                            *)
LEMMA AppendKeeps ==
    ASSUME CrmAssumption, NEW l \in Activity, Short(l), NEW n \in 1..MaxWrites
    PROVE  /\ Crm!Newest(l \cup {n}) \in Activity /\ Short(Crm!Newest(l \cup {n}))
           /\ \A all \in Activity : Whole(l, all) => Whole(Crm!Newest(l \cup {n}), all \cup {n})
<1>1. l \in SUBSET Nat /\ n \in Nat /\ \A k \in 1..MaxWrites : k \in Int
  BY DEF Activity, CrmAssumption
<1>2. CASE Crm!Newest(l \cup {n}) = l \cup {n} /\ Short(l \cup {n})
  <2>1. l \cup {n} \in Activity
    BY DEF Activity
  <2>2. ASSUME NEW all \in Activity, Whole(l, all)
        PROVE  Whole(l \cup {n}, all \cup {n})
    <3> SUFFICES ASSUME NEW m \in all, m \notin l, m # n
                 PROVE  Cardinality(l \cup {n}) = LogLimit /\ \A k \in l \cup {n} : m < k
      BY <2>2 DEF Whole
    <3>1. Cardinality(l) = LogLimit /\ (\A k \in l : m < k) /\ IsFiniteSet(l)
      BY <2>2 DEF Whole, Short
    <3>2. n \in l
      BY <1>2, <3>1, FS_AddElement DEF Short, CrmAssumption
    <3>3. l \cup {n} = l
      BY <3>2
    <3> QED BY <3>1, <3>3
  <2> QED BY <1>2, <2>1, <2>2
<1>3. ASSUME n \notin l, Cardinality(l) = LogLimit,
             NEW x \in l \cup {n}, \A y \in l \cup {n} : x <= y,
             Crm!Newest(l \cup {n}) = (l \cup {n}) \ {x},
             Short((l \cup {n}) \ {x}), Cardinality((l \cup {n}) \ {x}) = LogLimit
      PROVE  /\ Crm!Newest(l \cup {n}) \in Activity /\ Short(Crm!Newest(l \cup {n}))
             /\ \A all \in Activity : Whole(l, all) => Whole(Crm!Newest(l \cup {n}), all \cup {n})
  <2>1. (l \cup {n}) \ {x} \in Activity
    BY DEF Activity
  <2>2. ASSUME NEW all \in Activity, Whole(l, all)
        PROVE  Whole((l \cup {n}) \ {x}, all \cup {n})
    <3>1. ASSUME NEW m \in all \cup {n}, m \notin (l \cup {n}) \ {x}, NEW k \in (l \cup {n}) \ {x}
          PROVE  m < k
      <4>1. x < k /\ x \in Int /\ k \in Int /\ m \in Int
        BY <1>1, <1>3, <2>2 DEF Activity
      <4>2. CASE m = x
        BY <4>1, <4>2
      <4>3. CASE m # x
        <5>1. m \in all /\ m \notin l /\ \A y \in l : m < y
          BY <2>2, <3>1, <4>3 DEF Whole
        <5>2. CASE x \in l
          BY <4>1, <5>1, <5>2
        <5>3. CASE x = n
          BY <5>1, <5>3, <3>1
        <5> QED BY <5>2, <5>3
      <4> QED BY <4>2, <4>3
    <3>2. (l \cup {n}) \ {x} \subseteq all \cup {n}
      BY <2>2 DEF Whole
    <3> QED BY <1>3, <3>1, <3>2 DEF Whole
  <2> QED BY <1>3, <2>1, <2>2
<1>4. CASE ~ (Crm!Newest(l \cup {n}) = l \cup {n} /\ Short(l \cup {n}))
  <2>1. PICK x \in l \cup {n} :
           /\ \A y \in l \cup {n} : x <= y
           /\ Crm!Newest(l \cup {n}) = (l \cup {n}) \ {x}
           /\ Short((l \cup {n}) \ {x})
           /\ Cardinality((l \cup {n}) \ {x}) = LogLimit
    BY <1>1, <1>4, NewestOfMore
  <2>2. n \notin l /\ Cardinality(l) = LogLimit
    BY <1>1, <1>4, NewestOfMore
  <2> QED BY <1>3, <2>1, <2>2
<1> QED BY <1>2, <1>4

(* A writer that moves on without touching accounts or logs: whoever is to *)
(* write a log is as before, and what awaits a deletion too.               *)
LEMMA WriterMoves ==
    ASSUME CrmAssumption, CrmInv, NEW w \in Writers, NEW q \in Writing \cup {Crm!Idle},
           writer' = [writer EXCEPT ![w] = q],
           q # Crm!Idle => Short(q.base) /\ q.at # "logging",
           writer[w] # Crm!Idle => writer[w].at \notin {"refreshing", "clearing"},
           writes' \in 0..MaxWrites, crmFaults' \in 0..CrmMaxFaults,
           UNCHANGED <<crmAccount, log, summary, builder, crmLost, logged, crmOverlapped>>
    PROVE  CrmInv'
<1>1. CrmTypes /\ LogInv /\ SummaryInv
  BY DEF CrmInv
<1>2. \A v \in Writers : writer'[v] = IF v = w THEN q ELSE writer[v]
  BY <1>1 DEF CrmTypes
<1>3. CrmTypes'
  BY <1>1, <1>2 DEF CrmTypes, Short
<1>4. LogInv'
  <2>1. \A v \in Writers : writer'[v].at = "logging" => v # w /\ writer'[v] = writer[v]
    BY <1>2 DEF Crm!Idle
  <2> QED BY <1>1, <2>1 DEF LogInv, Whole
<1>5. \A u, stage : stage \in {"refreshing", "clearing"} /\ Crm!Pending(u, stage) => Crm!Pending(u, stage)'
  BY <1>2 DEF Crm!Pending, Crm!Idle
<1>6. SummaryInv'
  BY <1>1, <1>5 DEF SummaryInv, SeenAccount, SeenLog
<1> QED BY <1>3, <1>4, <1>6 DEF CrmInv

LEMMA StartsStep ==
    ASSUME CrmAssumption, CrmInv, NEW w \in Writers, NEW u \in CrmUsers, Crm!Changes(w, u) \/ Crm!Opens(w, u)
    PROVE  CrmInv'
<1>1. PICK first \in {"saving", "loading"} : Crm!Starts(w, u, first)
  BY DEF Crm!Changes, Crm!Opens
<1> DEFINE q == [at |-> first, user |-> u, n |-> writes + 1, base |-> {}]
<1>2. /\ writer[w] = Crm!Idle /\ writes < MaxWrites /\ writes' = writes + 1
      /\ writer' = [writer EXCEPT ![w] = q]
      /\ UNCHANGED <<crmFaults, crmAccount, log, summary, builder, crmLost, logged, crmOverlapped>>
  BY <1>1 DEF Crm!Starts, Crm!Working
<1>3. writes \in 0..MaxWrites /\ crmFaults \in 0..CrmMaxFaults
  BY DEF CrmInv, CrmTypes
<1>4. writes + 1 \in 1..MaxWrites /\ writes' \in 0..MaxWrites
  BY <1>2, <1>3 DEF CrmAssumption
<1>5. Short({})
  BY FS_EmptySet DEF Short, CrmAssumption
<1>6. q \in Writing /\ q.base = {} /\ q.at = first
  BY <1>4 DEF Writing, Stages, Activity
<1> HIDE DEF q
<1>7. q \in Writing \cup {Crm!Idle} /\ (q # Crm!Idle => Short(q.base) /\ q.at # "logging") /\ crmFaults' \in 0..CrmMaxFaults
  BY <1>2, <1>3, <1>5, <1>6
<1> QED BY <1>2, <1>4, <1>7, WriterMoves

(* What a writer in work is.                                               *)
LEMMA WriterIs ==
    ASSUME CrmInv, NEW w \in Writers, writer[w] # Crm!Idle
    PROVE  /\ writer[w] \in Writing /\ writer[w].user \in CrmUsers /\ writer[w].n \in 1..MaxWrites
           /\ writer[w].base \in Activity /\ Short(writer[w].base)
           /\ \A stage \in Stages : [writer[w] EXCEPT !.at = stage] \in Writing
BY DEF CrmInv, CrmTypes, Writing

LEMMA SavesAccountStep ==
    ASSUME CrmAssumption, CrmInv, NEW w \in Writers, Crm!Saves(w)
    PROVE  CrmInv'
<1>1. writer[w].at = "saving" /\ writer[w] # Crm!Idle
  BY DEF Crm!Saves, Crm!Idle
<1>2. /\ writer[w] \in Writing /\ writer[w].user \in CrmUsers /\ writer[w].n \in 1..MaxWrites
      /\ Short(writer[w].base)
  BY <1>1, WriterIs
<1>3. PICK u \in CrmUsers, n \in 0..MaxWrites, q \in Writing :
         /\ q = [writer[w] EXCEPT !.at = "refreshing"]
         /\ u = writer[w].user /\ n = writer[w].n
  <2>1. [writer[w] EXCEPT !.at = "refreshing"] \in Writing
    BY <1>2 DEF Writing, Stages
  <2>2. writer[w].n \in 0..MaxWrites
    BY <1>2 DEF CrmAssumption
  <2> QED BY <1>2, <2>1, <2>2
<1>4. q.at = "refreshing" /\ q.user = u /\ Short(q.base)
  <2>1. q.at = "refreshing" /\ q.user = u /\ q.base = writer[w].base
    BY <1>2, <1>3 DEF Writing
  <2> QED BY <1>2, <2>1
<1>5. /\ crmAccount' = [crmAccount EXCEPT ![u] = n]
      /\ writer' = [writer EXCEPT ![w] = q]
      /\ UNCHANGED <<writes, crmFaults, log, summary, builder, crmLost, logged, crmOverlapped>>
  BY <1>3 DEF Crm!Saves
<1>6. CrmTypes /\ LogInv /\ SummaryInv
  BY DEF CrmInv
<1>7. \A v \in Writers : writer'[v] = IF v = w THEN q ELSE writer[v]
  BY <1>5, <1>6 DEF CrmTypes
<1>8. CrmTypes'
  BY <1>4, <1>5, <1>6, <1>7 DEF CrmTypes, Short
<1>9. LogInv'
  <2>1. \A v \in Writers : writer'[v].at = "logging" => v # w /\ writer'[v] = writer[v]
    BY <1>4, <1>7
  <2> QED BY <1>5, <1>6, <2>1 DEF LogInv, Whole
<1>10. SummaryInv'
  <2>1. Crm!Pending(u, "refreshing")'
    BY <1>4, <1>7 DEF Crm!Pending
  <2>2. \A x, stage : stage \in {"refreshing", "clearing"} /\ Crm!Pending(x, stage) => Crm!Pending(x, stage)'
    BY <1>1, <1>7 DEF Crm!Pending
  <2>3. \A x \in CrmUsers : x # u => crmAccount'[x] = crmAccount[x]
    BY <1>5, <1>6 DEF CrmTypes
  <2>4. ASSUME NEW a, NEW x \in CrmUsers, SeenAccount(a, x)
        PROVE  SeenAccount(a, x)'
    <3>1. CASE x = u
      BY <2>1, <3>1 DEF SeenAccount
    <3>2. CASE x # u
      BY <2>2, <2>3, <2>4, <3>2 DEF SeenAccount
    <3> QED BY <3>1, <3>2
  <2>5. \A l, x : SeenLog(l, x) => SeenLog(l, x)'
    BY <1>5, <2>2 DEF SeenLog
  <2> QED BY <1>5, <1>6, <2>4, <2>5 DEF SummaryInv
<1> QED BY <1>8, <1>9, <1>10 DEF CrmInv

(* Who deletes the summary crosses every one in the making.                *)
LEMMA DeletesStep ==
    ASSUME CrmAssumption, CrmInv, NEW w \in Writers, Crm!Refreshes(w) \/ Crm!Clears(w)
    PROVE  CrmInv'
<1>1. PICK q : /\ q \in {Crm!Idle, [writer[w] EXCEPT !.at = "loading"]}
               /\ writer' = [writer EXCEPT ![w] = q]
  BY DEF Crm!Refreshes, Crm!Clears
<1>2. /\ writer[w].at \in {"refreshing", "clearing"}
      /\ summary' = None
      /\ builder' = [b \in Builders |->
            IF builder[b] = Crm!Idle THEN Crm!Idle ELSE [builder[b] EXCEPT !.crossed = TRUE]]
      /\ UNCHANGED <<writes, crmFaults, crmAccount, log, crmLost, logged, crmOverlapped>>
  BY DEF Crm!Refreshes, Crm!Clears, Crm!Deleted
<1>3. writer[w] # Crm!Idle
  BY <1>2 DEF Crm!Idle
<1>4. q # Crm!Idle => q \in Writing /\ q.at = "loading" /\ Short(q.base)
  <2>1. [writer[w] EXCEPT !.at = "loading"] \in Writing /\ Short(writer[w].base)
    BY <1>3, WriterIs DEF Stages
  <2>2. /\ [writer[w] EXCEPT !.at = "loading"].base = writer[w].base
        /\ [writer[w] EXCEPT !.at = "loading"].at = "loading"
    BY <1>3, WriterIs DEF Writing
  <2> QED BY <1>1, <2>1, <2>2
<1>5. CrmTypes /\ LogInv
  BY DEF CrmInv
<1>6. \A v \in Writers : writer'[v] = IF v = w THEN q ELSE writer[v]
  BY <1>1, <1>5 DEF CrmTypes
<1>7. CrmTypes'
  <2>1. ASSUME NEW b \in Builders
        PROVE  builder'[b] \in Building \cup {Crm!Idle}
    BY <1>2, <1>5 DEF CrmTypes, Building
  <2>2. builder' \in [Builders -> Building \cup {Crm!Idle}]
    BY <1>2, <2>1
  <2>3. writer' \in [Writers -> Writing \cup {Crm!Idle}]
    BY <1>1, <1>4, <1>5 DEF CrmTypes
  <2>4. \A v \in Writers : writer'[v] # Crm!Idle => Short(writer'[v].base)
    BY <1>4, <1>5, <1>6 DEF CrmTypes
  <2> QED BY <1>2, <1>5, <2>2, <2>3, <2>4 DEF CrmTypes, Short
<1>8. LogInv'
  <2>1. \A v \in Writers : writer'[v].at = "logging" => v # w /\ writer'[v] = writer[v]
    BY <1>4, <1>6 DEF Crm!Idle
  <2> QED BY <1>2, <1>5, <2>1 DEF LogInv, Whole
<1>9. SummaryInv'
  <2>1. \A b \in Builders : builder'[b] # Crm!Idle => builder'[b].crossed
    BY <1>2, <1>5 DEF CrmTypes, Building
  <2> QED BY <1>2, <2>1 DEF SummaryInv
<1> QED BY <1>7, <1>8, <1>9 DEF CrmInv

LEMMA LoadsStep ==
    ASSUME CrmAssumption, CrmInv, NEW w \in Writers, Crm!Loads(w)
    PROVE  CrmInv'
<1>1. writer[w].at = "loading" /\ writer[w] # Crm!Idle
  BY DEF Crm!Loads, Crm!Idle
<1>2. writer[w] \in Writing /\ writer[w].user \in CrmUsers
  BY <1>1, WriterIs
<1>3. CrmTypes /\ LogInv /\ SummaryInv
  BY DEF CrmInv
<1>4. PICK u \in CrmUsers : u = writer[w].user
  BY <1>2
<1>5. log[u] \in Activity /\ Short(log[u])
  BY <1>3 DEF CrmTypes
<1>6. [writer[w] EXCEPT !.at = "logging", !.base = log[u]] \in Writing
  BY <1>2, <1>5 DEF Writing, Stages
<1>7. PICK q \in Writing : q = [writer[w] EXCEPT !.at = "logging", !.base = log[u]]
  BY <1>6
<1>8. /\ writer' = [writer EXCEPT ![w] = q]
      /\ crmOverlapped' = IF \E v \in Writers : writer[v].at = "logging" /\ writer[v].user = u
                          THEN crmOverlapped \cup {u} ELSE crmOverlapped
      /\ UNCHANGED <<writes, crmFaults, crmAccount, log, summary, builder, crmLost, logged>>
  BY <1>4, <1>7 DEF Crm!Loads
<1>9. q.at = "logging" /\ q.user = u /\ q.base = log[u]
  BY <1>2, <1>4, <1>7 DEF Writing
<1>10. \A v \in Writers : writer'[v] = IF v = w THEN q ELSE writer[v]
  BY <1>8, <1>3 DEF CrmTypes
<1>11. CrmTypes'
  BY <1>8, <1>3, <1>9, <1>10, <1>5 DEF CrmTypes, Short
<1>12. LogInv'
  <2>1. crmOverlapped \subseteq crmOverlapped'
    BY <1>8
  <2>2. \A x \in CrmUsers \ crmOverlapped' : Whole(log'[x], logged'[x])
    BY <1>8, <1>3, <2>1 DEF LogInv, Whole
  <2>3. ASSUME NEW v \in Writers, writer'[v].at = "logging", writer'[v].user \notin crmOverlapped'
        PROVE  /\ writer'[v].base = log'[writer'[v].user]
               /\ \A x \in Writers : writer'[x].at = "logging" /\ writer'[x].user = writer'[v].user => x = v
    <3>1. CASE v = w
      <4>1. \A x \in Writers : ~ (writer[x].at = "logging" /\ writer[x].user = u)
        BY <1>8, <1>9, <1>10, <2>3, <3>1
      <4> QED BY <1>8, <1>9, <1>10, <3>1, <4>1
    <3>2. CASE v # w
      <4>1. writer'[v] = writer[v] /\ writer[v].at = "logging" /\ writer[v].user \notin crmOverlapped
        BY <1>10, <2>1, <2>3, <3>2
      <4>2. writer[v].user # u
        BY <1>8, <2>3, <4>1
      <4> QED BY <1>8, <1>3, <1>9, <1>10, <4>1, <4>2 DEF LogInv
    <3> QED BY <3>1, <3>2
  <2> QED BY <2>2, <2>3 DEF LogInv
<1>13. SummaryInv'
  <2>1. \A x, stage : stage \in {"refreshing", "clearing"} /\ Crm!Pending(x, stage) => Crm!Pending(x, stage)'
    BY <1>1, <1>10 DEF Crm!Pending
  <2> QED BY <1>8, <1>3, <2>1 DEF SummaryInv, SeenAccount, SeenLog
<1> QED BY <1>11, <1>12, <1>13 DEF CrmInv

(* The log as a writer makes it.                                           *)
LEMMA LoggedKeeps ==
    ASSUME CrmAssumption, CrmInv, NEW w \in Writers, writer[w].at = "logging", Crm!Logged(w),
           NEW q \in Writing \cup {Crm!Idle}, q # Crm!Idle => q.at # "logging",
           writer' = [writer EXCEPT ![w] = q], UNCHANGED crmOverlapped
    PROVE  /\ LogInv'
           /\ log' \in [CrmUsers -> Activity] /\ logged' \in [CrmUsers -> Activity]
           /\ \A u \in CrmUsers : Short(log'[u])
           /\ \A u \in CrmUsers : u # writer[w].user => log'[u] = log[u]
<1>1. CrmTypes /\ LogInv /\ writer[w] # Crm!Idle
  BY DEF CrmInv, Crm!Idle
<1>2. /\ writer[w].user \in CrmUsers /\ writer[w].n \in 1..MaxWrites
      /\ writer[w].base \in Activity /\ Short(writer[w].base)
  BY <1>1, WriterIs
<1>3. PICK u \in CrmUsers, n \in 1..MaxWrites, l \in Activity :
         u = writer[w].user /\ n = writer[w].n /\ l = writer[w].base
  BY <1>2
<1>4. /\ log' = [log EXCEPT ![u] = Crm!Newest(l \cup {n})]
      /\ logged' = [logged EXCEPT ![u] = @ \cup {n}]
  BY <1>3 DEF Crm!Logged
<1>5. /\ Crm!Newest(l \cup {n}) \in Activity /\ Short(Crm!Newest(l \cup {n}))
      /\ \A all \in Activity : Whole(l, all) => Whole(Crm!Newest(l \cup {n}), all \cup {n})
  BY <1>2, <1>3, AppendKeeps
<1>6. PICK m \in Activity : m = Crm!Newest(l \cup {n})
  BY <1>5
<1>7. logged[u] \in Activity /\ logged[u] \cup {n} \in Activity
  BY <1>1 DEF CrmTypes, Activity
<1>8. \A x \in CrmUsers : /\ log'[x] = IF x = u THEN m ELSE log[x]
                          /\ logged'[x] = IF x = u THEN logged[u] \cup {n} ELSE logged[x]
  BY <1>1, <1>4, <1>6 DEF CrmTypes
<1>9. log' \in [CrmUsers -> Activity] /\ logged' \in [CrmUsers -> Activity]
  BY <1>1, <1>4, <1>6, <1>7 DEF CrmTypes
<1>10. \A x \in CrmUsers : Short(log'[x])
  BY <1>1, <1>5, <1>6, <1>8 DEF CrmTypes
<1>11. \A v \in Writers : writer'[v] = IF v = w THEN q ELSE writer[v]
  BY <1>1 DEF CrmTypes
<1>12. LogInv'
  <2>1. ASSUME NEW x \in CrmUsers, x \notin crmOverlapped
        PROVE  Whole(log'[x], logged'[x])
    <3>1. CASE x = u
      <4>1. l = log[u] /\ Whole(log[u], logged[u])
        BY <1>1, <1>3, <2>1, <3>1 DEF LogInv
      <4>2. Whole(m, logged[u] \cup {n})
        BY <1>5, <1>6, <1>7, <4>1
      <4> QED BY <1>8, <3>1, <4>2
    <3>2. CASE x # u
      BY <1>1, <1>8, <2>1, <3>2 DEF LogInv
    <3> QED BY <3>1, <3>2
  <2>2. ASSUME NEW v \in Writers, writer'[v].at = "logging", writer'[v].user \notin crmOverlapped
        PROVE  /\ writer'[v].base = log'[writer'[v].user]
               /\ \A x \in Writers : writer'[x].at = "logging" /\ writer'[x].user = writer'[v].user => x = v
    <3>1. v # w /\ writer'[v] = writer[v] /\ writer[v] # Crm!Idle
      BY <1>11, <2>2 DEF Crm!Idle
    <3>2. /\ writer[v].base = log[writer[v].user]
          /\ \A x \in Writers : writer[x].at = "logging" /\ writer[x].user = writer[v].user => x = v
      BY <1>1, <2>2, <3>1 DEF LogInv
    <3>3. writer[v].user \in CrmUsers /\ writer[v].user # u
      BY <1>3, <3>1, <3>2, WriterIs
    <3>4. \A x \in Writers : writer'[x].at = "logging" => writer'[x] = writer[x]
      BY <1>11 DEF Crm!Idle
    <3> QED BY <1>8, <3>1, <3>2, <3>3, <3>4
  <2>3. LogInv' = /\ \A x \in CrmUsers \ crmOverlapped' : Whole(log'[x], logged'[x])
                  /\ \A v \in Writers : writer'[v].at = "logging" /\ writer'[v].user \notin crmOverlapped' =>
                        /\ writer'[v].base = log'[writer'[v].user]
                        /\ \A x \in Writers :
                              writer'[x].at = "logging" /\ writer'[x].user = writer'[v].user => x = v
    BY DEF LogInv, Whole
  <2> QED BY <2>1, <2>2, <2>3
<1> QED BY <1>3, <1>8, <1>9, <1>10, <1>12

LEMMA LogsStep ==
    ASSUME CrmAssumption, CrmInv, NEW w \in Writers, Crm!Logs(w)
    PROVE  CrmInv'
<1>1. /\ writer[w].at = "logging" /\ writer[w] # Crm!Idle /\ Crm!Logged(w)
      /\ UNCHANGED <<writes, crmFaults, crmAccount, summary, builder, crmLost, crmOverlapped>>
  BY DEF Crm!Logs, Crm!Idle
<1>2. writer[w] \in Writing /\ writer[w].user \in CrmUsers /\ Short(writer[w].base)
  BY <1>1, WriterIs
<1>3. [writer[w] EXCEPT !.at = "clearing"] \in Writing
  BY <1>2 DEF Writing, Stages
<1>4. PICK q \in Writing, u \in CrmUsers : q = [writer[w] EXCEPT !.at = "clearing"] /\ u = writer[w].user
  BY <1>2, <1>3
<1>5. q.at = "clearing" /\ q.user = u /\ q.base = writer[w].base
  BY <1>2, <1>4 DEF Writing
<1>6. writer' = [writer EXCEPT ![w] = q]
  BY <1>4 DEF Crm!Logs
<1>7. CrmTypes /\ SummaryInv
  BY DEF CrmInv
<1>8. /\ LogInv'
      /\ log' \in [CrmUsers -> Activity] /\ logged' \in [CrmUsers -> Activity]
      /\ \A x \in CrmUsers : Short(log'[x])
      /\ \A x \in CrmUsers : x # u => log'[x] = log[x]
  BY <1>1, <1>4, <1>5, <1>6, LoggedKeeps
<1>9. \A v \in Writers : writer'[v] = IF v = w THEN q ELSE writer[v]
  BY <1>6, <1>7 DEF CrmTypes
<1>10. CrmTypes'
  <2>1. writer' \in [Writers -> Writing \cup {Crm!Idle}]
    BY <1>6, <1>7 DEF CrmTypes
  <2>2. \A v \in Writers : writer'[v] # Crm!Idle => Short(writer'[v].base)
    BY <1>2, <1>5, <1>7, <1>9 DEF CrmTypes
  <2> QED BY <1>1, <1>7, <1>8, <2>1, <2>2 DEF CrmTypes, Short
<1>11. SummaryInv'
  <2>1. Crm!Pending(u, "clearing")'
    BY <1>5, <1>9 DEF Crm!Pending
  <2>2. \A x, stage : stage \in {"refreshing", "clearing"} /\ Crm!Pending(x, stage) => Crm!Pending(x, stage)'
    BY <1>1, <1>9 DEF Crm!Pending
  <2>3. ASSUME NEW l, NEW x \in CrmUsers, SeenLog(l, x)
        PROVE  SeenLog(l, x)'
    <3>1. CASE x = u
      BY <2>1, <3>1 DEF SeenLog
    <3>2. CASE x # u
      BY <1>8, <2>2, <2>3, <3>2 DEF SeenLog
    <3> QED BY <3>1, <3>2
  <2>4. \A a, x : SeenAccount(a, x) => SeenAccount(a, x)'
    BY <1>1, <2>2 DEF SeenAccount
  <2> QED BY <1>1, <1>7, <2>3, <2>4 DEF SummaryInv
<1> QED BY <1>8, <1>10, <1>11 DEF CrmInv

LEMMA WriterFailsStep ==
    ASSUME CrmAssumption, CrmInv, NEW w \in Writers, Crm!WriterFails(w)
    PROVE  CrmInv'
<1>1. /\ writer[w] # Crm!Idle /\ crmFaults < CrmMaxFaults /\ crmFaults' = crmFaults + 1
      /\ writer' = [writer EXCEPT ![w] = Crm!Idle]
      /\ UNCHANGED <<writes, summary, builder, crmOverlapped>>
  BY DEF Crm!WriterFails, Crm!Fault
<1>2. CrmTypes /\ LogInv /\ SummaryInv
  BY DEF CrmInv
<1>3. \A v \in Writers : writer'[v] = IF v = w THEN Crm!Idle ELSE writer[v]
  BY <1>1, <1>2 DEF CrmTypes
<1>4. crmFaults' \in 0..CrmMaxFaults /\ writer' \in [Writers -> Writing \cup {Crm!Idle}]
  BY <1>1, <1>2 DEF CrmTypes, CrmAssumption
<1>5. \A v \in Writers : writer'[v].at = "logging" => v # w /\ writer'[v] = writer[v]
  BY <1>3 DEF Crm!Idle
<1>6. CASE UNCHANGED <<crmAccount, log, logged>> /\ crmLost' = (crmLost \/ writer[w].at \in {"refreshing", "clearing"})
  <2>1. CrmTypes'
    BY <1>1, <1>2, <1>3, <1>4, <1>6 DEF CrmTypes, Short
  <2>2. LogInv'
    BY <1>1, <1>2, <1>5, <1>6 DEF LogInv, Whole
  <2>3. SummaryInv'
    <3> SUFFICES ASSUME ~ crmLost' PROVE SummaryInv'
      BY DEF SummaryInv
    <3>1. ~ crmLost /\ writer[w].at \notin {"refreshing", "clearing"}
      BY <1>6
    <3>2. \A x, stage : stage \in {"refreshing", "clearing"} /\ Crm!Pending(x, stage) => Crm!Pending(x, stage)'
      BY <1>3, <3>1 DEF Crm!Pending
    <3> QED BY <1>1, <1>2, <1>6, <3>1, <3>2 DEF SummaryInv, SeenAccount, SeenLog
  <2> QED BY <2>1, <2>2, <2>3 DEF CrmInv
<1>7. CASE /\ writer[w].at = "saving" /\ crmAccount' = [crmAccount EXCEPT ![writer[w].user] = writer[w].n]
           /\ crmLost' = TRUE /\ UNCHANGED <<log, logged>>
  <2>1. writer[w].user \in CrmUsers /\ writer[w].n \in 0..MaxWrites
    BY <1>1, WriterIs DEF CrmAssumption
  <2>2. CrmTypes'
    BY <1>1, <1>2, <1>3, <1>4, <1>7, <2>1 DEF CrmTypes, Short
  <2>3. LogInv'
    BY <1>1, <1>2, <1>5, <1>7 DEF LogInv, Whole
  <2> QED BY <1>7, <2>2, <2>3 DEF CrmInv, SummaryInv
<1>8. CASE writer[w].at = "logging" /\ Crm!Logged(w) /\ crmLost' = TRUE /\ UNCHANGED crmAccount
  <2>1. /\ LogInv'
        /\ log' \in [CrmUsers -> Activity] /\ logged' \in [CrmUsers -> Activity]
        /\ \A x \in CrmUsers : Short(log'[x])
    BY <1>1, <1>8, LoggedKeeps
  <2>2. CrmTypes'
    BY <1>1, <1>2, <1>3, <1>4, <1>8, <2>1 DEF CrmTypes, Short
  <2> QED BY <1>8, <2>1, <2>2 DEF CrmInv, SummaryInv
<1>9. \/ UNCHANGED <<crmAccount, log, logged>> /\ crmLost' = (crmLost \/ writer[w].at \in {"refreshing", "clearing"})
      \/ /\ writer[w].at = "saving" /\ crmAccount' = [crmAccount EXCEPT ![writer[w].user] = writer[w].n]
         /\ crmLost' = TRUE /\ UNCHANGED <<log, logged>>
      \/ writer[w].at = "logging" /\ Crm!Logged(w) /\ crmLost' = TRUE /\ UNCHANGED crmAccount
  BY DEF Crm!WriterFails
<1> QED BY <1>6, <1>7, <1>8, <1>9

(* Whoever builds a summary leaves accounts, logs and writers alone.       *)
LEMMA BuilderMoves ==
    ASSUME CrmAssumption, CrmInv, NEW b \in Builders, NEW q \in Building \cup {Crm!Idle},
           builder' = [builder EXCEPT ![b] = q],
           q # Crm!Idle /\ ~ crmLost /\ ~ q.crossed =>
              \A u \in CrmUsers :
                  /\ q.at # "accounts" \/ u \notin q.left => SeenAccount(q.account[u], u)
                  /\ q.at = "saving" \/ (q.at = "logs" /\ u \notin q.left) => SeenLog(q.log[u], u),
           summary' \in Summaries \cup {None},
           summary' # None /\ ~ crmLost /\ ~ summary'.crossed =>
              \A u \in CrmUsers : SeenAccount(summary'.account[u], u) /\ SeenLog(summary'.log[u], u),
           crmFaults' \in 0..CrmMaxFaults, UNCHANGED <<writes, crmAccount, log, writer, crmLost, logged, crmOverlapped>>
    PROVE  CrmInv'
<1>1. CrmTypes /\ LogInv /\ SummaryInv
  BY DEF CrmInv
<1>2. \A c \in Builders : builder'[c] = IF c = b THEN q ELSE builder[c]
  BY <1>1 DEF CrmTypes
<1>3. CrmTypes'
  BY <1>1 DEF CrmTypes, Short
<1>4. LogInv'
  BY <1>1 DEF LogInv, Whole
<1>5. /\ \A a, u : SeenAccount(a, u)' = SeenAccount(a, u)
      /\ \A l, u : SeenLog(l, u)' = SeenLog(l, u)
  BY DEF SeenAccount, SeenLog, Crm!Pending
<1>6. SummaryInv'
  BY <1>1, <1>2, <1>5 DEF SummaryInv
<1> QED BY <1>3, <1>4, <1>6 DEF CrmInv

(* What a summary in the making is, and what it has seen.                  *)
LEMMA BuilderIs ==
    ASSUME CrmInv, NEW b \in Builders, builder[b] # Crm!Idle
    PROVE  /\ builder[b] \in Building
           /\ ~ crmLost /\ ~ builder[b].crossed =>
                 \A u \in CrmUsers :
                     /\ builder[b].at # "accounts" \/ u \notin builder[b].left => SeenAccount(builder[b].account[u], u)
                     /\ \/ builder[b].at = "saving"
                        \/ builder[b].at = "logs" /\ u \notin builder[b].left
                        => SeenLog(builder[b].log[u], u)
           /\ summary \in Summaries \cup {None}
           /\ summary # None /\ ~ crmLost /\ ~ summary.crossed =>
                 \A u \in CrmUsers : SeenAccount(summary.account[u], u) /\ SeenLog(summary.log[u], u)
           /\ crmFaults \in 0..CrmMaxFaults
BY DEF CrmInv, CrmTypes, SummaryInv

LEMMA SummaryIs ==
    ASSUME CrmInv
    PROVE  /\ summary \in Summaries \cup {None}
           /\ summary # None /\ ~ crmLost /\ ~ summary.crossed =>
                 \A u \in CrmUsers : SeenAccount(summary.account[u], u) /\ SeenLog(summary.log[u], u)
           /\ crmFaults \in 0..CrmMaxFaults
BY DEF CrmInv, CrmTypes, SummaryInv

LEMMA BuildsSummaryStep ==
    ASSUME CrmAssumption, CrmInv, NEW b \in Builders, Crm!Builds(b)
    PROVE  CrmInv'
<1> DEFINE q == [at |-> "accounts", left |-> CrmUsers, crossed |-> FALSE,
                 account |-> [u \in CrmUsers |-> 0], log |-> [u \in CrmUsers |-> {}]]
<1>1. /\ builder' = [builder EXCEPT ![b] = q]
      /\ UNCHANGED <<writes, crmFaults, crmAccount, log, summary, writer, crmLost, logged, crmOverlapped>>
  BY DEF Crm!Builds
<1>2. q \in Building /\ q.at = "accounts" /\ q.left = CrmUsers
  <2>1. [u \in CrmUsers |-> 0] \in [CrmUsers -> 0..MaxWrites]
    BY DEF CrmAssumption
  <2>2. [u \in CrmUsers |-> {}] \in [CrmUsers -> Activity]
    BY DEF Activity
  <2> QED BY <2>1, <2>2 DEF Building
<1> HIDE DEF q
<1> QED BY <1>1, <1>2, SummaryIs, BuilderMoves

LEMMA ReadsAccountStep ==
    ASSUME CrmAssumption, CrmInv, NEW b \in Builders, NEW x \in CrmUsers, Crm!ReadsAccount(b, x)
    PROVE  CrmInv'
<1> DEFINE p == builder[b]
           q == [p EXCEPT !.account[x] = crmAccount[x],
                          !.left = IF p.left = {x} THEN CrmUsers ELSE p.left \ {x},
                          !.at = IF p.left = {x} THEN "logs" ELSE "accounts"]
<1>1. /\ p.at = "accounts" /\ x \in p.left /\ p # Crm!Idle
      /\ builder' = [builder EXCEPT ![b] = q]
      /\ UNCHANGED <<writes, crmFaults, crmAccount, log, summary, writer, crmLost, logged, crmOverlapped>>
  BY DEF Crm!ReadsAccount, Crm!Idle
<1>2. /\ p \in Building
      /\ ~ crmLost /\ ~ p.crossed => \A u \in CrmUsers : u \notin p.left => SeenAccount(p.account[u], u)
  BY <1>1, BuilderIs
<1>3. crmAccount[x] \in 0..MaxWrites
  BY DEF CrmInv, CrmTypes
<1>4. /\ q \in Building /\ q.crossed = p.crossed
      /\ q.account = [p.account EXCEPT ![x] = crmAccount[x]]
      /\ q.left = IF p.left = {x} THEN CrmUsers ELSE p.left \ {x}
      /\ q.at = IF p.left = {x} THEN "logs" ELSE "accounts"
  BY <1>2, <1>3 DEF Building
<1>5. p.account \in [CrmUsers -> 0..MaxWrites] /\ p.left \subseteq CrmUsers
  BY <1>2 DEF Building
<1> HIDE DEF p, q
<1>6. \A u \in CrmUsers : q.account[u] = IF u = x THEN crmAccount[x] ELSE p.account[u]
  BY <1>4, <1>5
<1>7. ASSUME ~ crmLost, ~ q.crossed, NEW u \in CrmUsers
      PROVE  /\ q.at # "accounts" \/ u \notin q.left => SeenAccount(q.account[u], u)
             /\ q.at = "saving" \/ (q.at = "logs" /\ u \notin q.left) => SeenLog(q.log[u], u)
  <2>1. u # x /\ u \notin p.left => SeenAccount(q.account[u], u)
    BY <1>2, <1>4, <1>6, <1>7
  <2>2. SeenAccount(q.account[x], x)
    BY <1>6 DEF SeenAccount
  <2>3. (q.at # "accounts" \/ u \notin q.left) => u = x \/ u \notin p.left
    BY <1>1, <1>4
  <2>4. q.at # "saving" /\ (q.at = "logs" => q.left = CrmUsers)
    BY <1>4
  <2> QED BY <2>1, <2>2, <2>3, <2>4
<1> QED BY <1>1, <1>4, <1>7, SummaryIs, BuilderMoves

LEMMA ReadsLogStep ==
    ASSUME CrmAssumption, CrmInv, NEW b \in Builders, NEW x \in CrmUsers, Crm!ReadsLog(b, x)
    PROVE  CrmInv'
<1> DEFINE p == builder[b]
           q == [p EXCEPT !.log[x] = log[x], !.left = p.left \ {x},
                          !.at = IF p.left = {x} THEN "saving" ELSE "logs"]
<1>1. /\ p.at = "logs" /\ x \in p.left /\ p # Crm!Idle
      /\ builder' = [builder EXCEPT ![b] = q]
      /\ UNCHANGED <<writes, crmFaults, crmAccount, log, summary, writer, crmLost, logged, crmOverlapped>>
  BY DEF Crm!ReadsLog, Crm!Idle
<1>2. /\ p \in Building
      /\ ~ crmLost /\ ~ p.crossed =>
            \A u \in CrmUsers : /\ SeenAccount(p.account[u], u)
                                /\ u \notin p.left => SeenLog(p.log[u], u)
  BY <1>1, BuilderIs
<1>3. log[x] \in Activity
  BY DEF CrmInv, CrmTypes
<1>4. /\ q \in Building /\ q.crossed = p.crossed /\ q.account = p.account
      /\ q.log = [p.log EXCEPT ![x] = log[x]]
      /\ q.left = p.left \ {x}
      /\ q.at = IF p.left = {x} THEN "saving" ELSE "logs"
  BY <1>2, <1>3 DEF Building
<1>5. p.log \in [CrmUsers -> Activity] /\ p.left \subseteq CrmUsers
  BY <1>2 DEF Building
<1> HIDE DEF p, q
<1>6. \A u \in CrmUsers : q.log[u] = IF u = x THEN log[x] ELSE p.log[u]
  BY <1>4, <1>5
<1>7. ASSUME ~ crmLost, ~ q.crossed, NEW u \in CrmUsers
      PROVE  /\ q.at # "accounts" \/ u \notin q.left => SeenAccount(q.account[u], u)
             /\ q.at = "saving" \/ (q.at = "logs" /\ u \notin q.left) => SeenLog(q.log[u], u)
  <2>1. u # x /\ u \notin p.left => SeenLog(q.log[u], u)
    BY <1>2, <1>4, <1>6, <1>7
  <2>2. SeenLog(q.log[x], x)
    BY <1>6 DEF SeenLog
  <2>3. (q.at = "saving" \/ u \notin q.left) => u = x \/ u \notin p.left
    BY <1>1, <1>4
  <2> QED BY <1>2, <1>4, <1>7, <2>1, <2>2, <2>3
<1> QED BY <1>1, <1>4, <1>7, SummaryIs, BuilderMoves

LEMMA KeepsStep ==
    ASSUME CrmAssumption, CrmInv, NEW b \in Builders, Crm!Keeps(b)
    PROVE  CrmInv'
<1> DEFINE p == builder[b]
           s == [account |-> p.account, log |-> p.log, crossed |-> p.crossed]
<1>1. /\ p.at = "saving" /\ p # Crm!Idle
      /\ builder' = [builder EXCEPT ![b] = Crm!Idle] /\ summary' = s
      /\ UNCHANGED <<writes, crmFaults, crmAccount, log, writer, crmLost, logged, crmOverlapped>>
  BY DEF Crm!Keeps, Crm!Idle
<1>2. /\ p \in Building /\ crmFaults \in 0..CrmMaxFaults
      /\ ~ crmLost /\ ~ p.crossed =>
            \A u \in CrmUsers : SeenAccount(p.account[u], u) /\ SeenLog(p.log[u], u)
  BY <1>1, BuilderIs
<1>3. s \in Summaries /\ s.account = p.account /\ s.log = p.log /\ s.crossed = p.crossed
  BY <1>2 DEF Building, Summaries
<1> HIDE DEF p, s
<1> QED BY <1>1, <1>2, <1>3, BuilderMoves

LEMMA BuilderFailsStep ==
    ASSUME CrmAssumption, CrmInv, NEW b \in Builders, Crm!BuilderFails(b)
    PROVE  CrmInv'
<1>1. /\ crmFaults < CrmMaxFaults /\ crmFaults' = crmFaults + 1
      /\ builder' = [builder EXCEPT ![b] = Crm!Idle]
      /\ UNCHANGED <<writes, crmAccount, log, summary, writer, crmLost, logged, crmOverlapped>>
  BY DEF Crm!BuilderFails, Crm!Fault
<1>2. crmFaults' \in 0..CrmMaxFaults
  BY <1>1, SummaryIs DEF CrmAssumption
<1> QED BY <1>1, <1>2, SummaryIs, BuilderMoves

LEMMA ExpiresStep ==
    ASSUME CrmAssumption, CrmInv, Crm!Expires
    PROVE  CrmInv'
<1>1. summary' = None /\ UNCHANGED <<writes, crmFaults, crmAccount, log, writer, builder, crmLost, logged, crmOverlapped>>
  BY DEF Crm!Expires
<1>2. /\ \A a, u : SeenAccount(a, u)' = SeenAccount(a, u)
      /\ \A l, u : SeenLog(l, u)' = SeenLog(l, u)
  BY <1>1 DEF SeenAccount, SeenLog, Crm!Pending
<1>3. CrmTypes' /\ LogInv'
  BY <1>1 DEF CrmInv, CrmTypes, LogInv, Short, Whole
<1>4. SummaryInv'
  BY <1>1, <1>2 DEF CrmInv, SummaryInv
<1> QED BY <1>3, <1>4 DEF CrmInv

LEMMA CrmStep == CrmAssumption /\ CrmInv /\ [Crm!Next]_Crm!vars => CrmInv'
<1> SUFFICES ASSUME CrmAssumption, CrmInv, [Crm!Next]_Crm!vars PROVE CrmInv'
  OBVIOUS
<1>1. ASSUME NEW w \in Writers,
             \/ Crm!Saves(w) \/ Crm!Refreshes(w) \/ Crm!Loads(w) \/ Crm!Logs(w)
             \/ Crm!Clears(w) \/ Crm!WriterFails(w)
             \/ \E u \in CrmUsers : Crm!Changes(w, u) \/ Crm!Opens(w, u)
      PROVE  CrmInv'
  BY <1>1, StartsStep, SavesAccountStep, DeletesStep, LoadsStep, LogsStep, WriterFailsStep
<1>2. ASSUME NEW b \in Builders,
             \/ Crm!Builds(b) \/ Crm!Keeps(b) \/ Crm!BuilderFails(b)
             \/ \E u \in CrmUsers : Crm!ReadsAccount(b, u) \/ Crm!ReadsLog(b, u)
      PROVE  CrmInv'
  BY <1>2, BuildsSummaryStep, KeepsStep, BuilderFailsStep, ReadsAccountStep, ReadsLogStep
<1>3. CASE UNCHANGED Crm!vars
  <2>1. UNCHANGED <<writes, crmFaults, crmAccount, log, summary, writer, builder, crmLost, logged, crmOverlapped>>
    BY <1>3 DEF Crm!vars
  <2>2. CrmTypes' /\ LogInv'
    BY <2>1 DEF CrmInv, CrmTypes, LogInv, Short, Whole
  <2>3. SummaryInv'
    BY <2>1 DEF CrmInv, SummaryInv, SeenAccount, SeenLog, Crm!Pending
  <2> QED BY <2>2, <2>3 DEF CrmInv
<1> QED BY <1>1, <1>2, <1>3, ExpiresStep DEF Crm!Next

LEMMA CrmImplies == CrmAssumption /\ CrmInv => Crm!LogKept /\ Crm!SummaryCurrent /\ Crm!TypeOK
<1> SUFFICES ASSUME CrmAssumption, CrmInv PROVE Crm!LogKept /\ Crm!SummaryCurrent /\ Crm!TypeOK
  OBVIOUS
<1>1. \A T : Crm!Cardinality(T) = Cardinality(T)
  BY Zenon DEF Crm!Cardinality, Cardinality
<1>2. Crm!LogKept
  <2> SUFFICES ASSUME NEW u \in CrmUsers \ crmOverlapped, NEW n \in logged[u], n \notin log[u]
               PROVE  Cardinality({k \in log[u] : k > n}) = LogLimit
    BY <1>1 DEF Crm!LogKept
  <2>1. /\ Whole(log[u], logged[u]) /\ log[u] \in Activity /\ logged[u] \in Activity
    BY DEF CrmInv, CrmTypes, LogInv
  <2>2. Cardinality(log[u]) = LogLimit /\ \A k \in log[u] : n < k
    BY <2>1 DEF Whole
  <2>3. {k \in log[u] : k > n} = log[u]
    BY <2>1, <2>2 DEF Activity
  <2> QED BY <2>2, <2>3
<1>3. Crm!SummaryCurrent
  BY DEF CrmInv, SummaryInv, SeenAccount, SeenLog, Crm!SummaryCurrent
<1>4. Crm!TypeOK
  BY <1>1 DEF CrmInv, CrmTypes, Short, Activity, Crm!TypeOK
<1> QED BY <1>2, <1>3, <1>4

(* An activity log has what was appended to it, or as many newer events as *)
(* it may have, unless two appends overlapped (appendBillingActivityEvent).*)
THEOREM CrmLogKept ==
    ASSUME CrmAssumption
    PROVE  Crm!Spec => []Crm!LogKept
<1> QED BY CrmInit, CrmStep, CrmImplies, PTL DEF Crm!Spec

(* The owner's summary is of the accounts and logs there are, or whoever   *)
(* wrote one of them has yet to delete it, unless that was lost or crossed *)
(* the making of the summary (resolveCrmSummarySnapshot).                  *)
THEOREM CrmSummaryCurrent ==
    ASSUME CrmAssumption
    PROVE  Crm!Spec => []Crm!SummaryCurrent
<1> QED BY CrmInit, CrmStep, CrmImplies, PTL DEF Crm!Spec

-----------------------------------------------------------------------------
(***************************************************************************)
(* Outbound.                                                               *)
(***************************************************************************)
Out == INSTANCE Outbound WITH
    now <- outNow, faults <- outFaults, request <- outRequest,
    told <- outTold, Requests <- OutRequests, MaxTime <- OutMaxTime,
    MaxFaults <- OutMaxFaults

OutAssumption ==
    /\ OutMaxTime \in Nat /\ OutMaxFaults \in Nat /\ MaxJobs \in Nat
    /\ Ttls \subseteq Nat /\ Escalation \in BOOLEAN

PrintsThereAre == {<<"story", i.story>> : i \in Items} \cup {<<"hash", i.text>> : i \in Items}

Deliveries ==
    [at : {"waiting", "printing", "looking", "sending", "marking", "done"},
     key : Out!Keys \cup {None}, knew : BOOLEAN, item : Items, channel : Channels]
DeliveryLists == UNION {[1..m -> Deliveries] : m \in Nat}

OutCalls ==
    [at : {"running"}, scope : Scopes, ttl : Ttls, seen : SUBSET Out!Keys, sent : SUBSET Out!Keys,
     prints : [{i.id : i \in Items} -> PrintsThereAre \cup {None}], job : DeliveryLists]

OutTypes ==
    /\ outNow \in 0..OutMaxTime /\ outFaults \in 0..OutMaxFaults
    /\ mark \in [Out!Keys -> Nat] /\ outTold \in [Out!Keys -> Nat]
    /\ outRequest \in [OutRequests -> OutCalls \cup {Out!Idle}]

Active(j) == j.at \in {"looking", "sending", "marking"}

(* A job past its fingerprint has the key of what it tells, and has not    *)
(* told it; one that is about to tell it does not know of a mark; one that *)
(* is about to mark it has told it.                                        *)
JobOk(q, j, h) ==
    /\ Active(j) => j.key \in q.seen /\ j.key[1] = q.scope /\ j.key[2] = j.channel
    /\ j.at \in {"looking", "sending"} => j.key \notin q.sent
    /\ j.at = "sending" => ~ j.knew
    /\ j.at = "marking" => j.key \in h

(* One job of a call for a key, and what was told was seen.                *)
CallOk(q, h) ==
    /\ q.sent \subseteq q.seen
    /\ \A n \in DOMAIN q.job : JobOk(q, q.job[n], h)
    /\ \A n, k \in DOMAIN q.job : n # k /\ Active(q.job[n]) /\ Active(q.job[k]) => q.job[n].key # q.job[k].key

CallsInv == \A r \in OutRequests : outRequest[r] # Out!Idle => CallOk(outRequest[r], heard)

(* A delivery that was counted is marked as long, and what is marked has   *)
(* been told.                                                              *)
MarksInv ==
    /\ wrong = FALSE
    /\ \A k \in Out!Keys : outTold[k] <= mark[k] /\ (mark[k] # 0 => k \in heard)

OutInv == OutTypes /\ CallsInv /\ MarksInv

LEMMA OutInit == OutAssumption /\ Out!Init => OutInv
<1> SUFFICES ASSUME OutAssumption, Out!Init PROVE OutInv
  OBVIOUS
<1>1. OutTypes
  BY DEF OutTypes, Out!Init, OutAssumption
<1>2. CallsInv
  BY DEF CallsInv, Out!Init
<1>3. MarksInv
  BY DEF MarksInv, Out!Init
<1> QED BY <1>1, <1>2, <1>3 DEF OutInv

(* The jobs of a call are of its items and channels.                       *)
LEMMA JobsAre ==
    ASSUME NEW n \in Nat \ {0}, NEW c \in Nat \ {0},
           NEW items \in [1..n -> Items], NEW channels \in [1..c -> Channels]
    PROVE  /\ Out!Jobs(items, channels) \in DeliveryLists
           /\ \A k \in DOMAIN Out!Jobs(items, channels) : Out!Jobs(items, channels)[k].at = "waiting"
<1>1. Len(items) = n /\ Len(channels) = c
  BY LenProperties
<1>2. n * c \in Nat
  OBVIOUS
<1>3. ASSUME NEW k \in 1..(n * c)
      PROVE  1 + (k - 1) \div c \in 1..n /\ 1 + ((k - 1) % c) \in 1..c
  <2> DEFINE d == (k - 1) \div c
  <2>1. k - 1 \in Nat
    OBVIOUS
  <2>2. d \in Nat /\ c * d <= k - 1 /\ (k - 1) % c \in 0..c - 1
    BY <2>1, Quotient
  <2> HIDE DEF d
  <2>3. c * d \in Nat /\ c * n \in Nat /\ n * c = c * n
    BY <2>2
  <2>4. d < n
    <3>1. SUFFICES ASSUME n <= d PROVE FALSE
      BY <2>2
    <3>2. c * n <= c * d
      <4>1. CASE n = d
        BY <4>1, <2>3
      <4>2. CASE n < d
        BY <4>2, <2>2, <2>3, Multiples
      <4> QED BY <3>1, <2>2, <4>1, <4>2
    <3> QED BY <3>2, <2>2, <2>3, <1>2
  <2> QED BY <2>2, <2>4 DEF d
<1> DEFINE work(k) == [at |-> "waiting", key |-> None, knew |-> FALSE,
                       item |-> items[1 + (k - 1) \div c], channel |-> channels[1 + ((k - 1) % c)]]
<1>4. Out!Jobs(items, channels) = [k \in 1..(n * c) |-> work(k)]
  BY <1>1 DEF Out!Jobs
<1>5. \A k \in 1..(n * c) : work(k) \in Deliveries /\ work(k).at = "waiting"
  BY <1>3 DEF Deliveries
<1> HIDE DEF work
<1>6. Out!Jobs(items, channels) \in [1..(n * c) -> Deliveries]
  BY <1>4, <1>5
<1>7. \A k \in DOMAIN Out!Jobs(items, channels) : Out!Jobs(items, channels)[k].at = "waiting"
  BY <1>4, <1>5
<1> QED BY <1>2, <1>6, <1>7 DEF DeliveryLists

(* A call that goes on.                                                    *)
LEMMA CallGoesOn ==
    ASSUME OutInv, NEW r \in OutRequests, NEW q \in OutCalls \cup {Out!Idle},
           heard \subseteq heard', q # Out!Idle => CallOk(q, heard'),
           outRequest' = [outRequest EXCEPT ![r] = q]
    PROVE  outRequest' \in [OutRequests -> OutCalls \cup {Out!Idle}] /\ CallsInv'
<1>1. outRequest \in [OutRequests -> OutCalls \cup {Out!Idle}]
  BY DEF OutInv, OutTypes
<1>2. \A p \in OutRequests : outRequest'[p] = IF p = r THEN q ELSE outRequest[p]
  BY <1>1
<1>3. \A p \in OutRequests : outRequest[p] # Out!Idle => CallOk(outRequest[p], heard')
  BY DEF OutInv, CallsInv, CallOk, JobOk
<1> QED BY <1>1, <1>2, <1>3 DEF CallsInv

LEMMA OutAsked ==
    ASSUME OutAssumption, OutInv, NEW r \in OutRequests, Out!Asked(r)
    PROVE  OutInv'
<1>1. PICK n, c \in 1..MaxJobs : \E items \in [1..n -> Items], channels \in [1..c -> Channels] :
          \E scope \in Scopes, ttl \in Ttls : outRequest' = [outRequest EXCEPT ![r] =
              [at |-> "running", scope |-> scope, ttl |-> ttl, seen |-> {}, sent |-> {},
               prints |-> [id \in {i.id : i \in Items} |-> None], job |-> Out!Jobs(items, channels)]]
  BY DEF Out!Asked
<1>2. PICK items \in [1..n -> Items], channels \in [1..c -> Channels], scope \in Scopes, ttl \in Ttls :
          outRequest' = [outRequest EXCEPT ![r] =
              [at |-> "running", scope |-> scope, ttl |-> ttl, seen |-> {}, sent |-> {},
               prints |-> [id \in {i.id : i \in Items} |-> None], job |-> Out!Jobs(items, channels)]]
  BY <1>1
<1>3. UNCHANGED <<outNow, outFaults, mark, outTold, heard, wrong>>
  BY DEF Out!Asked
<1> DEFINE jobs == Out!Jobs(items, channels)
           q == [at |-> "running", scope |-> scope, ttl |-> ttl, seen |-> {}, sent |-> {},
                 prints |-> [id \in {i.id : i \in Items} |-> None], job |-> jobs]
<1>4. /\ jobs \in DeliveryLists
      /\ \A k \in DOMAIN jobs : jobs[k].at = "waiting"
  BY JobsAre, n \in Nat \ {0}, c \in Nat \ {0} DEF OutAssumption
<1> HIDE DEF jobs
<1>5. q \in OutCalls /\ CallOk(q, heard')
  BY <1>4 DEF OutCalls, CallOk, JobOk, Active
<1>6. outRequest' = [outRequest EXCEPT ![r] = q]
  BY <1>2 DEF jobs
<1> HIDE DEF q
<1>7. outRequest' \in [OutRequests -> OutCalls \cup {Out!Idle}] /\ CallsInv'
  BY <1>3, <1>5, <1>6, CallGoesOn
<1> QED BY <1>3, <1>7 DEF OutInv, OutTypes, MarksInv


LEMMA CallIs ==
    ASSUME OutInv, NEW r \in OutRequests, outRequest[r].at = "running"
    PROVE  /\ outRequest[r] # Out!Idle /\ outRequest[r] \in OutCalls /\ CallOk(outRequest[r], heard)
           /\ \E m \in Nat : outRequest[r].job \in [1..m -> Deliveries]
           /\ \A n \in DOMAIN outRequest[r].job : outRequest[r].job[n] \in Deliveries
<1>1. outRequest[r] \in OutCalls \cup {Out!Idle} /\ outRequest[r] # Out!Idle
  BY DEF OutInv, OutTypes, Out!Idle
<1>2. outRequest[r].job \in DeliveryLists
  BY <1>1 DEF OutCalls
<1>3. PICK m \in Nat : outRequest[r].job \in [1..m -> Deliveries]
  BY <1>2 DEF DeliveryLists
<1> QED BY <1>1, <1>3 DEF OutInv, CallsInv

(* One job of a call goes on.                                              *)
LEMMA JobGoesOn ==
    ASSUME OutInv, NEW r \in OutRequests, outRequest[r].at = "running",
           NEW n \in DOMAIN outRequest[r].job, NEW j \in Deliveries, NEW q,
           q.at = "running", q.scope = outRequest[r].scope, q.ttl = outRequest[r].ttl,
           DOMAIN q = DOMAIN outRequest[r],
           q = [f \in DOMAIN q |-> q[f]],
           q.prints \in [{i.id : i \in Items} -> PrintsThereAre \cup {None}],
           q.seen \in SUBSET Out!Keys, outRequest[r].seen \subseteq q.seen, q.sent \subseteq q.seen,
           q.job = [outRequest[r].job EXCEPT ![n] = j],
           heard \subseteq heard', JobOk(q, j, heard'),
           \A k \in DOMAIN outRequest[r].job \ {n} :
               LET i == outRequest[r].job[k] IN
               /\ i.at \in {"looking", "sending"} => i.key \notin q.sent
               /\ Active(i) /\ Active(j) => i.key # j.key,
           outRequest' = [outRequest EXCEPT ![r] = q]
    PROVE  outRequest' \in [OutRequests -> OutCalls \cup {Out!Idle}] /\ CallsInv'
<1>1. /\ outRequest[r] \in OutCalls /\ CallOk(outRequest[r], heard)
      /\ \A k \in DOMAIN outRequest[r].job : outRequest[r].job[k] \in Deliveries
  BY CallIs
<1>2. PICK m \in Nat : outRequest[r].job \in [1..m -> Deliveries]
  BY CallIs
<1>3. q.job \in DeliveryLists /\ DOMAIN q.job = DOMAIN outRequest[r].job
  <2>1. q.job \in [1..m -> Deliveries]
    BY <1>2
  <2>2. DOMAIN q.job = 1..m /\ DOMAIN outRequest[r].job = 1..m
    BY <1>2, <2>1
  <2> QED BY <2>1, <2>2 DEF DeliveryLists
<1>4. q \in OutCalls
  BY <1>1, <1>3 DEF OutCalls
<1>5. \A k \in DOMAIN q.job : q.job[k] = IF k = n THEN j ELSE outRequest[r].job[k]
  BY <1>2
<1>6. CallOk(q, heard')
  <2>1. \A k \in DOMAIN q.job : JobOk(q, q.job[k], heard')
    BY <1>1, <1>3, <1>5 DEF CallOk, JobOk
  <2>2. \A i, k \in DOMAIN q.job : i # k /\ Active(q.job[i]) /\ Active(q.job[k]) => q.job[i].key # q.job[k].key
    BY <1>1, <1>3, <1>5 DEF CallOk
  <2> QED BY <2>1, <2>2 DEF CallOk
<1> QED BY <1>4, <1>6, CallGoesOn

(* A job that only moves, and not to where anything more is asked of it.   *)
LEMMA JobMoves ==
    ASSUME OutInv, NEW r \in OutRequests, outRequest[r].at = "running",
           NEW n \in DOMAIN outRequest[r].job, NEW at \in {"printing", "done"},
           heard' = heard, outRequest' = [outRequest EXCEPT ![r].job[n].at = at]
    PROVE  outRequest' \in [OutRequests -> OutCalls \cup {Out!Idle}] /\ CallsInv'
<1>1. /\ outRequest[r] \in OutCalls /\ CallOk(outRequest[r], heard)
      /\ outRequest[r].job[n] \in Deliveries
  BY CallIs
<1> DEFINE j == [outRequest[r].job[n] EXCEPT !.at = at]
           q == [outRequest[r] EXCEPT !.job[n] = j]
<1>2. j \in Deliveries /\ ~ Active(j) /\ j.at \notin {"looking", "sending", "marking"}
  BY <1>1 DEF Deliveries, Active
<1>3. outRequest' = [outRequest EXCEPT ![r] = q]
  OBVIOUS
<1> HIDE DEF j
<1>4. /\ q.at = "running" /\ q.scope = outRequest[r].scope /\ q.ttl = outRequest[r].ttl
      /\ DOMAIN q = DOMAIN outRequest[r] /\ q = [f \in DOMAIN q |-> q[f]]
      /\ q.prints = outRequest[r].prints /\ q.seen = outRequest[r].seen /\ q.sent = outRequest[r].sent
      /\ q.job = [outRequest[r].job EXCEPT ![n] = j]
  BY <1>1 DEF OutCalls
<1> HIDE DEF q
<1>5. JobOk(q, j, heard')
  BY <1>2 DEF JobOk
<1>6. /\ q.sent \subseteq q.seen
      /\ q.prints \in [{i.id : i \in Items} -> PrintsThereAre \cup {None}] /\ q.seen \in SUBSET Out!Keys
      /\ \A k \in DOMAIN outRequest[r].job : outRequest[r].job[k].at \in {"looking", "sending"}
             => outRequest[r].job[k].key \notin q.sent
  BY <1>1, <1>4 DEF CallOk, JobOk, OutCalls
<1> QED BY <1>1, <1>2, <1>3, <1>4, <1>5, <1>6, JobGoesOn

(* What a job tells is what its key says.                                  *)
LEMMA TellsItsKey ==
    ASSUME OutInv, NEW r \in OutRequests, outRequest[r].at = "running",
           NEW n \in DOMAIN outRequest[r].job, Active(outRequest[r].job[n])
    PROVE  /\ outRequest[r].job[n].key \in Out!Keys
           /\ Out!What(outRequest[r], outRequest[r].job[n]) = outRequest[r].job[n].key
<1>1. /\ outRequest[r] \in OutCalls /\ CallOk(outRequest[r], heard)
      /\ outRequest[r].job[n] \in Deliveries
  BY CallIs
<1>2. /\ outRequest[r].job[n].key \in Out!Keys
      /\ outRequest[r].job[n].key[1] = outRequest[r].scope
      /\ outRequest[r].job[n].key[2] = outRequest[r].job[n].channel
  BY <1>1 DEF CallOk, JobOk, OutCalls
<1> QED BY <1>2 DEF Out!What, Out!Keys


LEMMA OutJobStarts ==
    ASSUME OutInv, NEW r \in OutRequests, outRequest[r].at = "running",
           NEW n \in DOMAIN outRequest[r].job, Out!JobStarts(r, n)
    PROVE  OutInv'
<1>1. /\ outRequest' = [outRequest EXCEPT ![r].job[n].at = "printing"]
      /\ UNCHANGED <<outNow, outFaults, mark, outTold, heard, wrong>>
  BY DEF Out!JobStarts
<1>2. outRequest' \in [OutRequests -> OutCalls \cup {Out!Idle}] /\ CallsInv'
  BY <1>1, JobMoves
<1> QED BY <1>1, <1>2 DEF OutInv, OutTypes, MarksInv

LEMMA OutStops ==
    ASSUME OutInv, OutAssumption, NEW r \in OutRequests, outRequest[r].at = "running",
           NEW n \in DOMAIN outRequest[r].job,
           Out!LookFails(r, n) \/ Out!Refused(r, n)
    PROVE  OutInv'
<1>1. /\ outRequest' = [outRequest EXCEPT ![r].job[n].at = "done"]
      /\ UNCHANGED <<outNow, mark, outTold, heard, wrong>>
      /\ outFaults < OutMaxFaults /\ outFaults' = outFaults + 1
  BY DEF Out!LookFails, Out!Refused, Out!Fault
<1>2. outRequest' \in [OutRequests -> OutCalls \cup {Out!Idle}] /\ CallsInv'
  BY <1>1, JobMoves
<1> QED BY <1>1, <1>2 DEF OutInv, OutTypes, MarksInv, OutAssumption

(* The isolate's work ends, or it does.                                    *)
LEMMA OutEnds ==
    ASSUME OutInv, OutAssumption, NEW r \in OutRequests, Out!Returns(r) \/ Out!Dies(r)
    PROVE  OutInv'
<1>1. /\ outRequest' = [outRequest EXCEPT ![r] = Out!Idle]
      /\ UNCHANGED <<outNow, mark, outTold, heard, wrong>>
      /\ outFaults' \in 0..OutMaxFaults
  BY DEF Out!Returns, Out!Dies, Out!Fault, OutInv, OutTypes, OutAssumption
<1>2. outRequest' \in [OutRequests -> OutCalls \cup {Out!Idle}] /\ CallsInv'
  BY <1>1, CallGoesOn
<1> QED BY <1>1, <1>2 DEF OutInv, OutTypes, MarksInv

LEMMA OutTick ==
    ASSUME OutInv, OutAssumption, Out!Tick
    PROVE  OutInv'
<1>1. CallsInv'
  BY DEF OutInv, CallsInv, CallOk, JobOk, Active, Out!Tick
<1> QED BY <1>1 DEF OutInv, OutTypes, MarksInv, Out!Tick, OutAssumption

(* A job's fingerprint, and whether its call came to its key before.       *)
LEMMA OutPrints ==
    ASSUME OutInv, OutAssumption, NEW r \in OutRequests, outRequest[r].at = "running",
           NEW n \in DOMAIN outRequest[r].job, Out!Prints(r, n)
    PROVE  OutInv'
<1> DEFINE c == outRequest[r]
           job == c.job[n]
<1>1. /\ c \in OutCalls /\ CallOk(c, heard) /\ c # Out!Idle
      /\ job \in Deliveries
      /\ \A k \in DOMAIN c.job : c.job[k] \in Deliveries
  BY CallIs
<1>2. PICK print \in IF c.prints[job.item.id] # None THEN {c.prints[job.item.id]} ELSE Out!Fingerprints(job.item) :
          outRequest' = [outRequest EXCEPT ![r] = [c EXCEPT
              !.prints[job.item.id] = print,
              !.seen = c.seen \cup {Out!DedupeKey(c, job, print)},
              !.job[n] = [job EXCEPT !.at = IF Out!DedupeKey(c, job, print) \in c.seen THEN "done" ELSE "looking",
                                     !.key = Out!DedupeKey(c, job, print),
                                     !.knew = Out!Holds(outTold, <<c.scope, job.channel, print>>)]]]
  BY DEF Out!Prints
<1>3. UNCHANGED <<outNow, outFaults, mark, outTold, heard, wrong>> /\ job.at = "printing"
  BY DEF Out!Prints
<1> HIDE DEF c, job
<1>4. job.item \in Items /\ job.channel \in Channels /\ c.scope \in Scopes
  BY <1>1 DEF Deliveries, OutCalls
<1>5. print \in PrintsThereAre
  <2>1. c.prints[job.item.id] \in PrintsThereAre \cup {None}
    BY <1>1, <1>4 DEF OutCalls
  <2>2. Out!Fingerprints(job.item) \subseteq PrintsThereAre
    BY <1>4 DEF Out!Fingerprints, Out!Answers, PrintsThereAre
  <2> QED BY <1>2, <2>1, <2>2
<1> DEFINE key == <<c.scope, job.channel, print>>
           at == IF key \in c.seen THEN "done" ELSE "looking"
           knew == Out!Holds(outTold, key)
           j == [job EXCEPT !.at = at, !.key = key, !.knew = knew]
           prints == [c.prints EXCEPT ![job.item.id] = print]
           q == [c EXCEPT !.prints = prints, !.seen = c.seen \cup {key}, !.job = [c.job EXCEPT ![n] = j]]
<1>6. outRequest' = [outRequest EXCEPT ![r] = q]
  BY <1>2 DEF Out!DedupeKey
<1>7. key \in Out!Keys /\ knew \in BOOLEAN
  BY <1>4, <1>5 DEF Out!Keys, PrintsThereAre, Out!Holds
<1> HIDE DEF knew
<1>8. /\ j \in Deliveries /\ j.at = at /\ j.key = key /\ j.channel = job.channel
  BY <1>1, <1>7 DEF Deliveries
<1>9. prints \in [{i.id : i \in Items} -> PrintsThereAre \cup {None}]
  BY <1>1, <1>5 DEF OutCalls
<1>10. DOMAIN c.job = DOMAIN outRequest[r].job
  BY DEF c
<1> HIDE DEF j, prints
<1>11. /\ q.at = "running" /\ q.scope = c.scope /\ q.ttl = c.ttl
       /\ DOMAIN q = DOMAIN c /\ q = [f \in DOMAIN q |-> q[f]]
       /\ q.prints = prints /\ q.seen = c.seen \cup {key} /\ q.sent = c.sent
       /\ q.job = [c.job EXCEPT ![n] = j]
  BY <1>1 DEF OutCalls
<1> HIDE DEF q
<1>12. key[1] = c.scope /\ key[2] = job.channel
  OBVIOUS
<1> HIDE DEF key
<1>13. JobOk(q, j, heard')
  BY <1>8, <1>11, <1>12, <1>1 DEF JobOk, Active, CallOk
<1>14. \A k \in DOMAIN c.job \ {n} :
          LET i == c.job[k] IN
          /\ i.at \in {"looking", "sending"} => i.key \notin q.sent
          /\ Active(i) /\ Active(j) => i.key # j.key
  BY <1>1, <1>8, <1>11 DEF CallOk, JobOk, Active
<1>15. q.seen \in SUBSET Out!Keys /\ c.seen \subseteq q.seen /\ q.sent \subseteq q.seen
  BY <1>1, <1>7, <1>11 DEF OutCalls, CallOk
<1>16. outRequest' \in [OutRequests -> OutCalls \cup {Out!Idle}] /\ CallsInv'
  BY <1>3, <1>6, <1>8, <1>9, <1>11, <1>13, <1>14, <1>15, JobGoesOn DEF c
<1> QED BY <1>3, <1>16 DEF OutInv, OutTypes, MarksInv

LEMMA OutLooks ==
    ASSUME OutInv, OutAssumption, NEW r \in OutRequests, outRequest[r].at = "running",
           NEW n \in DOMAIN outRequest[r].job, Out!Looks(r, n)
    PROVE  OutInv'
<1> DEFINE c == outRequest[r]
           job == c.job[n]
<1>1. /\ c \in OutCalls /\ CallOk(c, heard) /\ job \in Deliveries
  BY CallIs
<1>2. /\ outRequest' = [outRequest EXCEPT ![r].job[n] =
                         [job EXCEPT !.at = IF Out!Holds(mark, job.key) THEN "done" ELSE "sending",
                                     !.knew = job.knew /\ Out!Holds(outTold, Out!What(c, job))]]
      /\ wrong' = (wrong \/ (Out!Holds(mark, job.key) /\ Out!What(c, job) \notin heard))
      /\ UNCHANGED <<outNow, outFaults, mark, outTold, heard>> /\ job.at = "looking"
  BY DEF Out!Looks
<1>3. job.key \in Out!Keys /\ Out!What(c, job) = job.key
  BY <1>2, TellsItsKey DEF Active
<1>4. /\ outNow \in Nat /\ mark[job.key] \in Nat /\ outTold[job.key] \in Nat
      /\ outTold[job.key] <= mark[job.key] /\ (mark[job.key] # 0 => job.key \in heard)
      /\ wrong = FALSE
  BY <1>3 DEF OutInv, OutTypes, MarksInv, OutAssumption
<1>5. wrong' = FALSE
  <2> DEFINE bad == Out!Holds(mark, job.key) /\ Out!What(c, job) \notin heard
  <2>1. ~ bad
    BY <1>3, <1>4 DEF Out!Holds
  <2>2. wrong' = (wrong \/ bad)
    BY <1>2
  <2> HIDE DEF bad
  <2> QED BY <2>1, <2>2, <1>4, Zenon
<1> DEFINE at == IF Out!Holds(mark, job.key) THEN "done" ELSE "sending"
           knew == job.knew /\ Out!Holds(outTold, job.key)
           j == [job EXCEPT !.at = at, !.knew = knew]
           q == [c EXCEPT !.job[n] = j]
<1>6. at = "sending" => knew = FALSE
  BY <1>4 DEF Out!Holds
<1>7. knew \in BOOLEAN
  OBVIOUS
<1>8. outRequest' = [outRequest EXCEPT ![r] = q]
  BY <1>2, <1>3
<1> HIDE DEF knew, at
<1>9. at \in {"done", "sending"}
  BY DEF at
<1>10. j \in Deliveries /\ j.at = at /\ j.key = job.key /\ j.channel = job.channel /\ j.knew = knew
  BY <1>1, <1>7, <1>9 DEF Deliveries
<1> HIDE DEF j, job
<1>11. /\ q.at = "running" /\ q.scope = c.scope /\ q.ttl = c.ttl
       /\ DOMAIN q = DOMAIN c /\ q = [f \in DOMAIN q |-> q[f]]
       /\ q.prints = c.prints /\ q.seen = c.seen /\ q.sent = c.sent
       /\ q.job = [c.job EXCEPT ![n] = j]
  BY <1>1 DEF OutCalls
<1> HIDE DEF q
<1>12. JobOk(c, job, heard) /\ job.key \in c.seen /\ job.key[1] = c.scope /\ job.key[2] = job.channel
       /\ job.key \notin c.sent
  BY <1>1, <1>2 DEF CallOk, JobOk, Active, job
<1>13. JobOk(q, j, heard')
  BY <1>2, <1>6, <1>9, <1>10, <1>11, <1>12 DEF JobOk, Active
<1>14. \A k \in DOMAIN c.job \ {n} :
          LET i == c.job[k] IN
          /\ i.at \in {"looking", "sending"} => i.key \notin q.sent
          /\ Active(i) /\ Active(j) => i.key # j.key
  BY <1>1, <1>2, <1>10, <1>11 DEF CallOk, JobOk, Active, job
<1>15. /\ q.seen \in SUBSET Out!Keys /\ c.seen \subseteq q.seen /\ q.sent \subseteq q.seen
       /\ q.prints \in [{i.id : i \in Items} -> PrintsThereAre \cup {None}]
  BY <1>1, <1>11 DEF OutCalls, CallOk
<1>16. outRequest' \in [OutRequests -> OutCalls \cup {Out!Idle}] /\ CallsInv'
  BY <1>2, <1>8, <1>10, <1>11, <1>13, <1>14, <1>15, JobGoesOn
<1> QED BY <1>2, <1>4, <1>5, <1>16 DEF OutInv, OutTypes, MarksInv


LEMMA OutDelivered ==
    ASSUME OutInv, OutAssumption, NEW r \in OutRequests, outRequest[r].at = "running",
           NEW n \in DOMAIN outRequest[r].job, Out!Delivers(r, n) \/ Out!AnswerLost(r, n)
    PROVE  OutInv'
<1> DEFINE c == outRequest[r]
           job == c.job[n]
<1>1. /\ c \in OutCalls /\ CallOk(c, heard) /\ job \in Deliveries
  BY CallIs
<1>2. PICK next \in {"marking", "done"} : Out!Delivered(r, n, next)
  BY DEF Out!Delivers, Out!AnswerLost
<1>3. /\ job.at = "sending"
      /\ outRequest' = [outRequest EXCEPT ![r].sent = @ \cup {Out!What(c, job)}, ![r].job[n].at = next]
      /\ heard' = heard \cup {Out!What(c, job)}
      /\ wrong' = (wrong \/ job.knew \/ Out!What(c, job) \in c.sent)
      /\ UNCHANGED <<outNow, mark, outTold>>
  BY <1>2 DEF Out!Delivered
<1>4. outFaults' \in 0..OutMaxFaults
  BY DEF Out!Delivers, Out!AnswerLost, Out!Fault, OutInv, OutTypes, OutAssumption
<1>5. job.key \in Out!Keys /\ Out!What(c, job) = job.key
  BY <1>3, TellsItsKey DEF Active
<1>6. wrong' = FALSE
  <2>1. ~ job.knew /\ job.key \notin c.sent /\ wrong = FALSE
    BY <1>1, <1>3 DEF CallOk, JobOk, OutInv, MarksInv
  <2> HIDE DEF c, job
  <2> QED BY <2>1, <1>3, <1>5, Zenon
<1> DEFINE j == [job EXCEPT !.at = next]
           q == [c EXCEPT !.sent = c.sent \cup {job.key}, !.job[n] = j]
<1>7. outRequest' = [outRequest EXCEPT ![r] = q]
  BY <1>3, <1>5, <1>1
<1>8. j \in Deliveries /\ j.at = next /\ j.key = job.key /\ j.channel = job.channel
  BY <1>1 DEF Deliveries
<1> HIDE DEF j, job
<1>9. /\ q.at = "running" /\ q.scope = c.scope /\ q.ttl = c.ttl
      /\ DOMAIN q = DOMAIN c /\ q = [f \in DOMAIN q |-> q[f]]
      /\ q.prints = c.prints /\ q.seen = c.seen /\ q.sent = c.sent \cup {job.key}
      /\ q.job = [c.job EXCEPT ![n] = j]
  BY <1>1 DEF OutCalls
<1> HIDE DEF q
<1>10. job.key \in c.seen /\ job.key[1] = c.scope /\ job.key[2] = job.channel
  BY <1>1, <1>3 DEF CallOk, JobOk, Active, job
<1>11. JobOk(q, j, heard')
  BY <1>3, <1>5, <1>8, <1>9, <1>10 DEF JobOk, Active
<1>12. \A k \in DOMAIN c.job \ {n} :
          LET i == c.job[k] IN
          /\ i.at \in {"looking", "sending"} => i.key \notin q.sent
          /\ Active(i) /\ Active(j) => i.key # j.key
  BY <1>1, <1>3, <1>8, <1>9 DEF CallOk, JobOk, Active, job
<1>13. /\ q.seen \in SUBSET Out!Keys /\ c.seen \subseteq q.seen /\ q.sent \subseteq q.seen
       /\ q.prints \in [{i.id : i \in Items} -> PrintsThereAre \cup {None}]
  BY <1>1, <1>9, <1>10 DEF OutCalls, CallOk
<1>14. outRequest' \in [OutRequests -> OutCalls \cup {Out!Idle}] /\ CallsInv'
  BY <1>3, <1>7, <1>8, <1>9, <1>11, <1>12, <1>13, JobGoesOn
<1> QED BY <1>3, <1>4, <1>6, <1>14 DEF OutInv, OutTypes, MarksInv

LEMMA OutMarks ==
    ASSUME OutInv, OutAssumption, NEW r \in OutRequests, outRequest[r].at = "running",
           NEW n \in DOMAIN outRequest[r].job, Out!Marks(r, n) \/ Out!MarkFails(r, n)
    PROVE  OutInv'
<1> DEFINE c == outRequest[r]
           job == c.job[n]
           key == job.key
           end == outNow + c.ttl
<1>1. /\ c \in OutCalls /\ CallOk(c, heard) /\ job \in Deliveries
  BY CallIs
<1>2. /\ job.at = "marking"
      /\ outRequest' = [outRequest EXCEPT ![r].job[n].at = "done"]
      /\ UNCHANGED <<outNow, heard, wrong>>
  BY DEF Out!Marks, Out!MarkFails
<1>3. key \in Out!Keys /\ Out!What(c, job) = key /\ key \in heard
  BY <1>1, <1>2, TellsItsKey DEF Active, CallOk, JobOk
<1>4. /\ outFaults' \in 0..OutMaxFaults
      /\ \/ mark' = [mark EXCEPT ![key] = end] /\ outTold' = [outTold EXCEPT ![key] = end]
         \/ mark' = [mark EXCEPT ![key] = end] /\ outTold' = [outTold EXCEPT ![key] = Out!Least(outTold[key], end)]
         \/ UNCHANGED <<mark, outTold>>
  BY <1>3 DEF Out!Marks, Out!MarkFails, Out!Fault, OutInv, OutTypes, OutAssumption
<1>5. outRequest' \in [OutRequests -> OutCalls \cup {Out!Idle}] /\ CallsInv'
  BY <1>2, JobMoves
<1>6. end \in Nat
  <2>1. c.ttl \in Nat
    BY <1>1 DEF OutCalls, OutAssumption
  <2>2. outNow \in Nat
    BY DEF OutInv, OutTypes, OutAssumption
  <2> HIDE DEF c
  <2> QED BY <2>1, <2>2
<1>7. mark \in [Out!Keys -> Nat] /\ outTold \in [Out!Keys -> Nat]
      /\ \A k \in Out!Keys : outTold[k] <= mark[k] /\ (mark[k] # 0 => k \in heard)
  BY DEF OutInv, OutTypes, MarksInv
<1> HIDE DEF key, end
<1>8. Out!Least(outTold[key], end) \in Nat /\ Out!Least(outTold[key], end) <= end
  BY <1>3, <1>6, <1>7 DEF Out!Least
<1>9. /\ mark' \in [Out!Keys -> Nat] /\ outTold' \in [Out!Keys -> Nat]
      /\ \A k \in Out!Keys : outTold'[k] <= mark'[k] /\ (mark'[k] # 0 => k \in heard)
  BY <1>3, <1>4, <1>6, <1>7, <1>8
<1> QED BY <1>2, <1>4, <1>5, <1>9 DEF OutInv, OutTypes, MarksInv

LEMMA OutStep == OutAssumption /\ OutInv /\ [Out!Next]_(Out!vars) => OutInv'
<1> SUFFICES ASSUME OutAssumption, OutInv, [Out!Next]_(Out!vars) PROVE OutInv'
  OBVIOUS
<1>1. ASSUME NEW r \in OutRequests, Out!Asked(r) PROVE OutInv'
  BY <1>1, OutAsked
<1>2. ASSUME NEW r \in OutRequests, Out!Returns(r) \/ Out!Dies(r) PROVE OutInv'
  BY <1>2, OutEnds
<1>3. ASSUME NEW r \in OutRequests, outRequest[r].at = "running", NEW n \in DOMAIN outRequest[r].job,
             \/ Out!JobStarts(r, n) \/ Out!Prints(r, n) \/ Out!Looks(r, n) \/ Out!LookFails(r, n)
             \/ Out!Delivers(r, n) \/ Out!AnswerLost(r, n) \/ Out!Refused(r, n)
             \/ Out!Marks(r, n) \/ Out!MarkFails(r, n)
      PROVE  OutInv'
  BY <1>3, OutJobStarts, OutPrints, OutLooks, OutStops, OutDelivered, OutMarks
<1>4. CASE Out!Tick
  BY <1>4, OutTick
<1>5. CASE UNCHANGED Out!vars
  BY <1>5 DEF OutInv, OutTypes, CallsInv, CallOk, JobOk, Active, MarksInv, Out!vars
<1> QED BY <1>1, <1>2, <1>3, <1>4, <1>5 DEF Out!Next

LEMMA OutImplies == OutAssumption /\ OutInv => Out!ToldOnce
BY DEF OutInv, MarksInv, Out!ToldOnce

(* Outbound: a channel is told of a story once in the life of its mark,    *)
(* and what is skipped for its mark was told, for any items, channels and  *)
(* times the marks last.                                                   *)
THEOREM OutToldOnce ==
    ASSUME OutAssumption
    PROVE  Out!Spec => []Out!ToldOnce
<1> QED BY OutInit, OutStep, OutImplies, PTL DEF Out!Spec

-----------------------------------------------------------------------------
(***************************************************************************)
(* RssIngest.  Which sources a run selects does not matter here: what is   *)
(* claimed is of the catalog's sources, whether a run has others or not.   *)
(***************************************************************************)
Rss == INSTANCE RssIngest WITH
    faults <- rssFaults, Base <- RssBase, MaxVersion <- RssMaxVersion,
    MaxFaults <- RssMaxFaults

RssAssumption ==
    PerSource \in Nat /\ Shown \in Nat /\ RssMaxVersion \in Nat \ {0} /\ RssMaxFaults \in Nat /\ MaxRuns \in Nat
    /\ None \notin Int

(* What has been published, was lost, or is still in a run's memory.       *)
Have == published \cup dropped \cup UNION {run[r].items : r \in {q \in Runs : run[q] # Rss!Idle}}

RunOk(q) ==
    q # Rss!Idle =>
        /\ q = [at |-> "fetching", items |-> q.items, fetch |-> q.fetch]
        /\ q.fetch = [s \in DOMAIN q.fetch |-> q.fetch[s]]

(* A fetch's condition is a version that need not be read again, and so is *)
(* a version that was not.                                                 *)
FetchOk(s, f, have) ==
    /\ f.at \in {"loading", "asking", "validator", "health", "done"}
    /\ f.at = "asking" /\ f.if # None => f.if \in Nat /\ Rss!Entries(s, f.if) \subseteq have
    /\ f.at = "validator" =>
          /\ f = [at |-> "validator", status |-> f.status, failures |-> f.failures, version |-> f.version]
          /\ f.version \in Nat
          /\ f.status \in {"healthy", "not_modified", "parse_error"}
          /\ f.status = "not_modified" => Rss!Entries(s, f.version) \subseteq have
    /\ f.at = "health" => f = [at |-> "health", status |-> f.status, failures |-> f.failures, version |-> f.version]

RssInv ==
    /\ feed \in [Rss!Sources -> Nat]
    /\ validator \in [Rss!Sources -> Nat \cup {None}]
    /\ DOMAIN run = Runs /\ run = [r \in Runs |-> run[r]]
    /\ \A r \in Runs : RunOk(run[r])
    /\ \A r \in Runs : run[r] # Rss!Idle =>
          \A s \in Rss!Sources \cap DOMAIN run[r].fetch : FetchOk(s, run[r].fetch[s], Have)
    /\ \A s \in Rss!Sources : validator[s] # None => Rss!Entries(s, validator[s]) \subseteq Have

LEMMA RssInit == RssAssumption /\ Rss!Init => RssInv
BY DEF RssInv, Rss!Init, RunOk

(* A run keeps its items till they are published or lost.                  *)
LEMMA RunKeeps ==
    ASSUME RssInv, NEW r \in Runs, NEW q,
           run' = [run EXCEPT ![r] = q],
           run[r] # Rss!Idle => run[r].items \subseteq published' \cup dropped' \cup
               (IF q = Rss!Idle THEN {} ELSE q.items),
           published \subseteq published', dropped \subseteq dropped'
    PROVE  Have \subseteq Have' /\ (q # Rss!Idle => q.items \subseteq Have')
<1>1. \A p \in Runs : run'[p] = IF p = r THEN q ELSE run[p]
  BY DEF RssInv
<1>2. q # Rss!Idle => q.items \subseteq Have'
  BY <1>1 DEF Have
<1>3. ASSUME NEW p \in Runs, run[p] # Rss!Idle PROVE run[p].items \subseteq Have'
  <2>1. CASE p = r
    <3>1. published' \cup dropped' \subseteq Have'
      BY DEF Have
    <3> QED BY <2>1, <3>1, <1>2, <1>3
  <2>2. CASE p # r
    BY <2>2, <1>1, <1>3 DEF Have
  <2> QED BY <2>1, <2>2
<1>4. published' \cup dropped' \subseteq Have'
  BY DEF Have
<1>5. UNION {run[p].items : p \in {x \in Runs : run[x] # Rss!Idle}} \subseteq Have'
  BY <1>3
<1> QED BY <1>2, <1>4, <1>5 DEF Have

(* A run goes on: the others, and what they may leave unread, stay.        *)
LEMMA RunGoesOn ==
    ASSUME RssInv, NEW r \in Runs, NEW q, RunOk(q),
           run' = [run EXCEPT ![r] = q],
           run[r] # Rss!Idle => run[r].items \subseteq published' \cup dropped' \cup
               (IF q = Rss!Idle THEN {} ELSE q.items),
           published \subseteq published', dropped \subseteq dropped',
           feed' = feed, validator' = validator,
           q # Rss!Idle => \A s \in Rss!Sources \cap DOMAIN q.fetch : FetchOk(s, q.fetch[s], Have')
    PROVE  RssInv'
<1>1. \A p \in Runs : run'[p] = IF p = r THEN q ELSE run[p]
  BY DEF RssInv
<1>2. DOMAIN run' = Runs /\ run' = [p \in Runs |-> run'[p]]
  BY DEF RssInv
<1>3. Have \subseteq Have'
  BY RunKeeps
<1>4. \A p \in Runs : run'[p] # Rss!Idle =>
          \A s \in Rss!Sources \cap DOMAIN run'[p].fetch : FetchOk(s, run'[p].fetch[s], Have')
  BY <1>1, <1>3 DEF RssInv, FetchOk
<1> HIDE DEF Have
<1>5. \A p \in Runs : RunOk(run'[p])
  BY <1>1 DEF RssInv
<1>6. \A s \in Rss!Sources : validator[s] # None => Rss!Entries(s, validator[s]) \subseteq Have'
  BY <1>3 DEF RssInv
<1> QED BY <1>2, <1>4, <1>5, <1>6 DEF RssInv

(* One fetch of a run goes on.                                             *)
LEMMA FetchGoesOn ==
    ASSUME RssInv, NEW r \in Runs, run[r].at = "fetching", NEW s \in DOMAIN run[r].fetch, NEW f,
           run' = [run EXCEPT ![r].fetch[s] = f],
           feed' = feed, validator' = validator, published' = published, dropped' = dropped,
           s \in Rss!Sources => FetchOk(s, f, Have)
    PROVE  RssInv'
<1> DEFINE c == run[r]
           q == [c EXCEPT !.fetch[s] = f]
<1>1. c # Rss!Idle /\ RunOk(c)
  BY DEF RssInv, Rss!Idle
<1>2. run' = [run EXCEPT ![r] = q]
  OBVIOUS
<1>3. /\ q # Rss!Idle /\ q.items = c.items
      /\ q = [at |-> "fetching", items |-> q.items, fetch |-> q.fetch]
      /\ q.fetch = [c.fetch EXCEPT ![s] = f]
  BY <1>1 DEF RunOk, Rss!Idle
<1> HIDE DEF q
<1>4. RunOk(q) /\ DOMAIN q.fetch = DOMAIN c.fetch
  BY <1>1, <1>3 DEF RunOk
<1>5. Have \subseteq Have'
  BY <1>1, <1>2, <1>3, RunKeeps
<1>6. \A t \in Rss!Sources \cap DOMAIN q.fetch : FetchOk(t, q.fetch[t], Have)
  BY <1>1, <1>3, <1>4 DEF RssInv
<1>7. \A t \in Rss!Sources \cap DOMAIN q.fetch : FetchOk(t, q.fetch[t], Have')
  BY <1>5, <1>6 DEF FetchOk
<1> QED BY <1>1, <1>2, <1>3, <1>4, <1>7, RunGoesOn


LEMMA RssFetches ==
    ASSUME RssAssumption, RssInv, NEW r \in Runs, run[r].at = "fetching", NEW s \in DOMAIN run[r].fetch,
           Rss!Loads(r, s) \/ Rss!NotModified(r, s) \/ Rss!Modified(r, s)
               \/ Rss!FetchFails(r, s) \/ Rss!Reports(r, s)
    PROVE  RssInv'
<1>1. run[r] # Rss!Idle /\ (s \in Rss!Sources => FetchOk(s, run[r].fetch[s], Have))
  BY DEF RssInv, Rss!Idle
<1>2. s \in Rss!Sources =>
        /\ feed[s] \in Nat /\ validator[s] \in Nat \cup {None}
        /\ validator[s] # None => Rss!Entries(s, validator[s]) \subseteq Have
  BY DEF RssInv
<1>3. CASE Rss!Loads(r, s)
  <2> DEFINE f == [at |-> "asking", if |-> validator[s], failures |-> health[s].failures]
  <2>1. s \in Rss!Sources => FetchOk(s, f, Have)
    BY <1>2 DEF FetchOk
  <2>2. run' = [run EXCEPT ![r].fetch[s] = f] /\ UNCHANGED <<feed, validator, published, dropped>>
    BY <1>3 DEF Rss!Loads
  <2> HIDE DEF f
  <2> QED BY <2>1, <2>2, FetchGoesOn
<1> DEFINE got(at, status, failures) == [at |-> at, status |-> status, failures |-> failures, version |-> feed[s]]
<1>4. ASSUME NEW failures PROVE s \in Rss!Sources =>
        /\ \A status \in {"healthy", "parse_error"} : FetchOk(s, got("validator", status, failures), Have)
        /\ \A status : FetchOk(s, got("health", status, failures), Have)
        /\ Rss!Entries(s, feed[s]) \subseteq Have => FetchOk(s, got("validator", "not_modified", failures), Have)
  BY <1>2 DEF FetchOk
<1>5. CASE Rss!NotModified(r, s)
  <2>1. s \in Rss!Sources => Rss!Entries(s, feed[s]) \subseteq Have
    <3>1. run[r].fetch[s].at = "asking" /\ run[r].fetch[s].if = feed[s]
      BY <1>5 DEF Rss!NotModified
    <3> QED BY <3>1, <1>1, <1>2 DEF FetchOk, RssAssumption
  <2>2. run' = [run EXCEPT ![r].fetch[s] = got("validator", "not_modified", 0)]
        /\ UNCHANGED <<feed, validator, published, dropped>>
    BY <1>5 DEF Rss!NotModified, Rss!Got
  <2>3. s \in Rss!Sources => FetchOk(s, got("validator", "not_modified", 0), Have)
    BY <1>4, <2>1
  <2> HIDE DEF got
  <2> QED BY <2>2, <2>3, FetchGoesOn
<1>6. CASE Rss!Modified(r, s)
  <2>1. run' = [run EXCEPT ![r].fetch[s] = got("validator", "healthy", 0)]
        /\ UNCHANGED <<feed, validator, published, dropped>>
    BY <1>6 DEF Rss!Modified, Rss!Got
  <2>2. s \in Rss!Sources => FetchOk(s, got("validator", "healthy", 0), Have)
    BY <1>4
  <2> HIDE DEF got
  <2> QED BY <2>1, <2>2, FetchGoesOn
<1>7. CASE Rss!FetchFails(r, s)
  <2> DEFINE failures == Rss!Least(run[r].fetch[s].failures + 1, 2)
  <2>1. /\ \/ \E status \in {"http_error", "timeout", "network_error"} :
                  run' = [run EXCEPT ![r].fetch[s] = got("health", status, failures)]
           \/ run' = [run EXCEPT ![r].fetch[s] = got("validator", "parse_error", failures)]
        /\ UNCHANGED <<feed, validator, published, dropped>>
    BY <1>7 DEF Rss!FetchFails, Rss!Got
  <2> HIDE DEF failures
  <2>2. PICK f : /\ run' = [run EXCEPT ![r].fetch[s] = f]
                 /\ s \in Rss!Sources => FetchOk(s, f, Have)
    BY <2>1, <1>4
  <2> QED BY <2>1, <2>2, FetchGoesOn
<1>8. CASE Rss!Reports(r, s)
  <2>1. /\ run' = [run EXCEPT ![r].fetch[s] = [at |-> "done"]]
        /\ UNCHANGED <<feed, validator, published, dropped>>
    BY <1>8 DEF Rss!Reports
  <2>2. FetchOk(s, [at |-> "done"], Have)
    BY DEF FetchOk
  <2> QED BY <2>1, <2>2, FetchGoesOn
<1> QED BY <1>3, <1>5, <1>6, <1>7, <1>8

(* A validator is stored with the entries in the run's memory.             *)
LEMMA RssStores ==
    ASSUME RssAssumption, RssInv, NEW r \in Runs, run[r].at = "fetching", NEW s \in DOMAIN run[r].fetch,
           Rss!Stores(r, s)
    PROVE  RssInv'
<1> DEFINE c == run[r]
           f == c.fetch[s]
           g == [f EXCEPT !.at = "health"]
           items == IF f.status = "healthy" THEN c.items \cup Rss!Entries(s, f.version) ELSE c.items
           fetch == [c.fetch EXCEPT ![s] = g]
           q == [c EXCEPT !.items = items, !.fetch = fetch]
<1>1. /\ f.at = "validator"
      /\ validator' = [validator EXCEPT ![s] = Rss!Validates(s, f)] \/ UNCHANGED validator
      /\ run' = [run EXCEPT ![r].fetch[s].at = "health",
                            ![r].items = IF f.status = "healthy" THEN @ \cup Rss!Entries(s, f.version) ELSE @]
      /\ UNCHANGED <<feed, published, dropped>>
  BY DEF Rss!Stores
<1>2. c # Rss!Idle /\ RunOk(c) /\ (s \in Rss!Sources => FetchOk(s, f, Have))
  BY DEF RssInv, Rss!Idle
<1>3. c = [at |-> "fetching", items |-> c.items, fetch |-> c.fetch]
      /\ c.fetch = [t \in DOMAIN c.fetch |-> c.fetch[t]]
  BY <1>2 DEF RunOk
<1>4. run' = [run EXCEPT ![r] = q]
  BY <1>1, <1>3
<1> HIDE DEF items, f, c, fetch
<1>5. /\ q # Rss!Idle /\ q.items = items
      /\ q = [at |-> "fetching", items |-> q.items, fetch |-> q.fetch]
      /\ q.fetch = [c.fetch EXCEPT ![s] = g]
  <2>1. q = [at |-> "fetching", items |-> items, fetch |-> fetch]
    <3> DEFINE a == c.items
               b == c.fetch
               fuller == [c EXCEPT !.items = items]
    <3>1. c = [at |-> "fetching", items |-> a, fetch |-> b]
      BY <1>3
    <3> HIDE DEF a, b
    <3>2. fuller = [at |-> "fetching", items |-> items, fetch |-> b]
      BY <3>1
    <3>3. q = [fuller EXCEPT !.fetch = fetch]
      OBVIOUS
    <3> HIDE DEF fuller, q
    <3> QED BY <3>2, <3>3
  <2>2. q.at = "fetching" /\ q.items = items /\ q.fetch = fetch
    BY <2>1
  <2>3. q # Rss!Idle
    BY <2>1 DEF Rss!Idle
  <2> QED BY <2>1, <2>2, <2>3 DEF fetch
<1> HIDE DEF q
<1>6. RunOk(q) /\ DOMAIN q.fetch = DOMAIN c.fetch
  BY <1>3, <1>5 DEF RunOk
<1>7. c.items \subseteq items
  BY DEF items
<1>8. Have \subseteq Have' /\ items \subseteq Have'
  BY <1>1, <1>4, <1>5, <1>7, RunKeeps DEF c
<1>9. s \in Rss!Sources => FetchOk(s, g, Have') /\ Rss!Validates(s, f) \in Nat
                           /\ Rss!Entries(s, Rss!Validates(s, f)) \subseteq Have'
  <2> SUFFICES ASSUME s \in Rss!Sources
               PROVE  FetchOk(s, g, Have') /\ Rss!Validates(s, f) \in Nat
                      /\ Rss!Entries(s, Rss!Validates(s, f)) \subseteq Have'
    OBVIOUS
  <2>1. /\ f = [at |-> "validator", status |-> f.status, failures |-> f.failures, version |-> f.version]
        /\ f.version \in Nat
        /\ f.status \in {"healthy", "not_modified", "parse_error"}
        /\ f.status = "not_modified" => Rss!Entries(s, f.version) \subseteq Have
    BY <1>1, <1>2 DEF FetchOk
  <2>2. FetchOk(s, g, Have')
    BY <2>1 DEF FetchOk
  <2>3. Rss!Entries(s, Rss!Page) = {}
    BY DEF Rss!Entries, Rss!Page
  <2>4. Rss!Validates(s, f) = IF f.status = "parse_error" THEN Rss!Page ELSE f.version
    BY DEF Rss!Validates
  <2>5. f.status = "healthy" => Rss!Entries(s, f.version) \subseteq Have'
    BY <1>8 DEF items
  <2>6. f.status = "not_modified" => Rss!Entries(s, f.version) \subseteq Have'
    BY <1>8, <2>1
  <2>7. Rss!Page \in Nat
    BY DEF Rss!Page
  <2> QED BY <2>1, <2>2, <2>3, <2>4, <2>5, <2>6, <2>7
<1> HIDE DEF g
<1>10. /\ validator' \in [Rss!Sources -> Nat \cup {None}]
       /\ \A t \in Rss!Sources : validator'[t] # None => Rss!Entries(t, validator'[t]) \subseteq Have'
  BY <1>1, <1>8, <1>9 DEF RssInv
<1>11. \A p \in Runs : run'[p] = IF p = r THEN q ELSE run[p]
  BY <1>4 DEF RssInv
<1>12. DOMAIN run' = Runs /\ run' = [p \in Runs |-> run'[p]] /\ \A p \in Runs : RunOk(run'[p])
  BY <1>4, <1>6, <1>11 DEF RssInv
<1>13. \A p \in Runs : run[p] # Rss!Idle =>
          \A t \in Rss!Sources \cap DOMAIN run[p].fetch : FetchOk(t, run[p].fetch[t], Have')
  BY <1>8 DEF RssInv, FetchOk
<1>14. \A t \in Rss!Sources \cap DOMAIN q.fetch : FetchOk(t, q.fetch[t], Have')
  BY <1>2, <1>3, <1>5, <1>6, <1>9, <1>13 DEF c
<1> HIDE DEF Have
<1>15. \A p \in Runs : run'[p] # Rss!Idle =>
          \A t \in Rss!Sources \cap DOMAIN run'[p].fetch : FetchOk(t, run'[p].fetch[t], Have')
  BY <1>11, <1>13, <1>14
<1> QED BY <1>1, <1>10, <1>12, <1>15 DEF RssInv

(* A run starts, and ends.                                                 *)
LEMMA RssRuns ==
    ASSUME RssAssumption, RssInv, NEW r \in Runs,
           Rss!Starts(r) \/ Rss!Publishes(r) \/ Rss!Fails(r)
    PROVE  RssInv'
<1>1. RunOk(Rss!Idle)
  BY DEF RunOk
<1>2. CASE Rss!Starts(r)
  <2>1. PICK chosen \in Rss!Selections :
            run' = [run EXCEPT ![r] = [at |-> "fetching", items |-> {}, fetch |-> [s \in chosen |-> [at |-> "loading"]]]]
    BY <1>2 DEF Rss!Starts
  <2> DEFINE q == [at |-> "fetching", items |-> {}, fetch |-> [s \in chosen |-> [at |-> "loading"]]]
  <2>2. run[r] = Rss!Idle /\ UNCHANGED <<feed, validator, published, dropped>>
    BY <1>2 DEF Rss!Starts
  <2>3. RunOk(q) /\ \A s \in DOMAIN q.fetch : FetchOk(s, q.fetch[s], Have')
    BY DEF RunOk, FetchOk
  <2> HIDE DEF q, Have
  <2>4. run' = [run EXCEPT ![r] = q]
    BY <2>1 DEF q
  <2> QED BY <2>2, <2>3, <2>4, RunGoesOn
<1>3. CASE Rss!Publishes(r)
  BY <1>1, <1>3, RunGoesOn DEF Rss!Publishes
<1>4. CASE Rss!Fails(r)
  BY <1>1, <1>4, RunGoesOn DEF Rss!Fails
<1> QED BY <1>2, <1>3, <1>4

LEMMA RssStep == RssAssumption /\ RssInv /\ [Rss!Next]_(Rss!vars) => RssInv'
<1> SUFFICES ASSUME RssAssumption, RssInv, [Rss!Next]_(Rss!vars) PROVE RssInv'
  OBVIOUS
<1>1. ASSUME NEW r \in Runs, Rss!Starts(r) \/ Rss!Publishes(r) \/ Rss!Fails(r) PROVE RssInv'
  BY <1>1, RssRuns
<1>2. ASSUME NEW r \in Runs, run[r].at = "fetching", NEW s \in DOMAIN run[r].fetch,
             \/ Rss!Loads(r, s) \/ Rss!NotModified(r, s) \/ Rss!Modified(r, s)
             \/ Rss!FetchFails(r, s) \/ Rss!Stores(r, s) \/ Rss!Reports(r, s)
      PROVE  RssInv'
  BY <1>2, RssFetches, RssStores
<1>3. ASSUME NEW s \in Rss!Sources, Rss!FeedGrows(s) PROVE RssInv'
  <2>1. feed' \in [Rss!Sources -> Nat] /\ UNCHANGED <<validator, run, published, dropped>>
    BY <1>3 DEF RssInv, Rss!FeedGrows
  <2> QED BY <2>1 DEF RssInv, Have, RunOk, FetchOk
<1>4. ASSUME NEW s \in Rss!Sources, Rss!ValidatorExpires(s) PROVE RssInv'
  <2>1. validator' = [validator EXCEPT ![s] = None] /\ UNCHANGED <<feed, run, published, dropped>>
    BY <1>4 DEF Rss!ValidatorExpires
  <2>2. Have' = Have
    BY <2>1 DEF Have
  <2>3. /\ validator' \in [Rss!Sources -> Nat \cup {None}]
        /\ \A t \in Rss!Sources : validator'[t] # None => validator'[t] = validator[t]
    BY <2>1 DEF RssInv
  <2> HIDE DEF Have
  <2> QED BY <2>1, <2>2, <2>3 DEF RssInv, RunOk, FetchOk
<1>5. CASE UNCHANGED Rss!vars
  BY <1>5 DEF RssInv, Have, RunOk, FetchOk, Rss!vars
<1> QED BY <1>1, <1>2, <1>3, <1>4, <1>5 DEF Rss!Next

LEMMA RssImplies == RssAssumption /\ RssInv => Rss!SkippedIsPublished
<1> SUFFICES ASSUME RssAssumption, RssInv, NEW s \in Rss!Sources, validator[s] = feed[s]
             PROVE  Rss!Entries(s, feed[s]) \subseteq Have
  BY DEF Rss!SkippedIsPublished, Have
<1>1. feed[s] \in Nat
  BY DEF RssInv
<1> QED BY <1>1 DEF RssInv, RssAssumption

(* RssIngest: a feed is left unread only up to what was published of it,   *)
(* or is about to be, or was lost with a run that failed.                  *)
THEOREM RssSkippedIsPublished ==
    ASSUME RssAssumption
    PROVE  Rss!Spec => []Rss!SkippedIsPublished
<1> QED BY RssInit, RssStep, RssImplies, PTL DEF Rss!Spec

-----------------------------------------------------------------------------
(***************************************************************************)
(* XProfile.                                                               *)
(***************************************************************************)
Xp == INSTANCE XProfile WITH
    faults <- xpFaults, cache <- xpCache, request <- xpRequest,
    kept <- xpKept, Users <- XpUsers, Requests <- XpRequests,
    MaxFaults <- XpMaxFaults

XpAssumption ==
    /\ \A u, v \in XpUsers : Person[u] = Person[v] => u = v
    /\ XpUsers \cap Xp!Persons = {}
    /\ Xp!Placeholder \notin Xp!Persons
    /\ None \notin XpUsers \cup Xp!Persons \cup [user : XpUsers, name : Xp!Persons]

Names == {Xp!Placeholder} \cup Xp!Persons
Profiles == [user : XpUsers, name : Xp!Persons]
Rows == [name : Names, account : Xp!Persons \cup {None},
         access : {"good", "expired"}, refresh : {"good", "spent"}]

XpAsking ==
    [at : {"token"}, user : XpUsers, session : Names, cached : Profiles \cup {None}, expected : BOOLEAN]
XpLooking ==
    [at : {"profile", "refresh", "fallback", "user", "account"}, user : XpUsers, session : Names,
     expected : BOOLEAN, cached : Profiles \cup {None},
     access : {"good", "expired"}, refresh : {"good", "spent"}, attempted : BOOLEAN]
XpFailed ==
    [at : {"fallback"}, user : XpUsers, session : Names, expected : BOOLEAN, cached : Profiles \cup {None}]
XpCaching ==
    [at : {"cache"}, user : XpUsers, session : Names, expected : BOOLEAN, left : SUBSET Xp!Keys]
XpServed ==
    [at : {"served"}, user : XpUsers, id : Xp!Keys, name : Names, expected : BOOLEAN, session : Names]

XpCalls == XpAsking \cup XpLooking \cup XpFailed \cup XpCaching \cup XpServed

XpTypes ==
    /\ db \in [XpUsers -> Rows]
    /\ session \in [XpUsers -> Names]
    /\ xpCache \in [Xp!Keys -> Profiles \cup {None}]
    /\ xpRequest \in [XpRequests -> XpCalls \cup {Xp!Idle}]
    /\ xpKept \subseteq XpUsers

(* A name is of the user, or none.                                         *)
NameOf(u, name) == name \in {Xp!Placeholder, Person[u]}

(* What a request has found so far is its user's own, and what was there   *)
(* when it began is found, once it has the account.                        *)
CallNamed(q) ==
    /\ NameOf(q.user, q.session)
    /\ q.at \notin {"cache", "served"} /\ q.cached # None =>
          q.cached.user = q.user /\ q.cached.name = Person[q.user]
    /\ q.at \notin {"token", "cache", "served"} /\ q.expected => q.cached # None
    /\ q.at = "served" =>
          /\ q.expected => q.name # Xp!Placeholder
          /\ ~ NameOf(q.user, q.name) => q.session = Xp!Placeholder /\ ~ q.expected

(* KV keeps its users' own profiles, and where it is said to keep one the  *)
(* account leads to it.                                                    *)
StoreNamed ==
    /\ \A u \in XpUsers : NameOf(u, db[u].name) /\ db[u].account \in {None, Person[u]} /\ NameOf(u, session[u])
    /\ \A k \in Xp!Keys : xpCache[k] # None =>
          xpCache[k].name = Person[xpCache[k].user] /\ k \in {xpCache[k].user, Person[xpCache[k].user]}
    /\ \A u \in xpKept : db[u].account = Person[u] /\ \E k \in {u, Person[u]} : xpCache[k] # None

XpInv ==
    /\ XpTypes /\ StoreNamed
    /\ \A r \in XpRequests : xpRequest[r] # Xp!Idle =>
          /\ CallNamed(xpRequest[r])
          /\ xpRequest[r].at # "served" /\ xpRequest[r].expected => xpRequest[r].user \in xpKept
          /\ xpRequest[r].at = "cache" => db[xpRequest[r].user].account = Person[xpRequest[r].user]
                /\ xpRequest[r].left \subseteq {xpRequest[r].user, Person[xpRequest[r].user]}

LEMMA XpInit == XpAssumption /\ Xp!Init => XpInv
<1> SUFFICES ASSUME XpAssumption, Xp!Init PROVE XpInv
  OBVIOUS
<1>1. PICK name \in [XpUsers -> Names] :
          /\ \A u \in XpUsers : name[u] \in {Xp!Placeholder, Person[u]}
          /\ db = [u \in XpUsers |-> [name |-> name[u],
                account |-> IF name[u] = Xp!Placeholder THEN None ELSE Person[u],
                access |-> "good", refresh |-> "good"]]
          /\ session = name
  BY DEF Xp!Init, Names
<1>2. xpKept = {} /\ xpCache = [k \in Xp!Keys |-> None] /\ xpRequest = [r \in XpRequests |-> Xp!Idle]
  BY DEF Xp!Init
<1>3. \A u \in XpUsers : Person[u] \in Xp!Persons
  BY DEF Xp!Persons
<1>4. XpTypes
  BY <1>1, <1>2, <1>3 DEF XpTypes, Rows
<1>5. StoreNamed
  BY <1>1, <1>2 DEF StoreNamed, NameOf
<1> QED BY <1>2, <1>4, <1>5 DEF XpInv

LEMMA XpCallIs ==
    ASSUME XpInv, NEW r \in XpRequests
    PROVE  /\ xpRequest[r].at = "idle" \/ xpRequest[r] \in XpCalls
           /\ xpRequest[r].at = "token" => xpRequest[r] \in XpAsking
           /\ xpRequest[r].at \in {"profile", "refresh", "user", "account"} => xpRequest[r] \in XpLooking
           /\ xpRequest[r].at = "fallback" => xpRequest[r] \in XpLooking \cup XpFailed
           /\ xpRequest[r].at = "cache" => xpRequest[r] \in XpCaching
           /\ xpRequest[r].at # "idle" => xpRequest[r] # Xp!Idle
BY DEF XpInv, XpTypes, XpCalls, XpAsking, XpLooking, XpFailed, XpCaching, XpServed, Xp!Idle

(* A request goes on, and what it leaves is as good as what there was.     *)
LEMMA XpGoesOn ==
    ASSUME XpInv, NEW r \in XpRequests, NEW q \in XpCalls, Xp!Proceeds(r, q), CallNamed(q),
           q.at # "served" /\ q.expected => q.user \in xpKept',
           q.at = "cache" => db'[q.user].account = Person[q.user] /\ q.left \subseteq {q.user, Person[q.user]},
           xpKept \subseteq xpKept',
           \A u \in XpUsers : db[u].account = Person[u] => db'[u].account = Person[u],
           db' \in [XpUsers -> Rows],
           xpCache' \in [Xp!Keys -> Profiles \cup {None}],
           xpKept' \subseteq XpUsers, session' = session, StoreNamed'
    PROVE  XpInv'
<1>1. xpRequest \in [XpRequests -> XpCalls \cup {Xp!Idle}] /\ session \in [XpUsers -> Names]
  BY DEF XpInv, XpTypes
<1>2. xpRequest' = [xpRequest EXCEPT ![r] = q]
  BY DEF Xp!Proceeds
<1>3. \A p \in XpRequests : xpRequest'[p] = IF p = r THEN q ELSE xpRequest[p]
  BY <1>1, <1>2
<1>4. xpRequest' \in [XpRequests -> XpCalls \cup {Xp!Idle}]
  BY <1>1, <1>2
<1>5. XpTypes'
  BY <1>1, <1>4 DEF XpTypes
<1>6. ASSUME NEW p \in XpRequests, xpRequest[p] # Xp!Idle PROVE xpRequest[p].user \in XpUsers
  BY <1>1, <1>6 DEF XpCalls, XpAsking, XpLooking, XpFailed, XpCaching, XpServed
<1>7. \A p \in XpRequests : xpRequest'[p] # Xp!Idle =>
          /\ CallNamed(xpRequest'[p])
          /\ xpRequest'[p].at # "served" /\ xpRequest'[p].expected => xpRequest'[p].user \in xpKept'
          /\ xpRequest'[p].at = "cache" => db'[xpRequest'[p].user].account = Person[xpRequest'[p].user]
                /\ xpRequest'[p].left \subseteq {xpRequest'[p].user, Person[xpRequest'[p].user]}
  BY <1>3, <1>6 DEF XpInv
<1> QED BY <1>5, <1>7 DEF XpInv


(* The steps of a request that leave the stores alone.                     *)
LEMMA XpMoves ==
    ASSUME XpInv, NEW r \in XpRequests, NEW q \in XpCalls, Xp!Proceeds(r, q), CallNamed(q),
           q.at # "served" /\ q.expected => q.user \in xpKept,
           q.at # "cache",
           UNCHANGED <<db, session, xpCache, xpKept>>
    PROVE  XpInv'
<1>1. StoreNamed'
  BY DEF XpInv, StoreNamed, NameOf
<1> QED BY <1>1, XpGoesOn DEF XpInv, XpTypes

LEMMA OwnIs ==
    ASSUME XpAssumption, XpInv, NEW u \in XpUsers, NEW k \in {None, u, Person[u]}
    PROVE  /\ Xp!Own(u, k) \in Profiles \cup {None}
           /\ Xp!Own(u, k) # None => Xp!Own(u, k).user = u /\ Xp!Own(u, k).name = Person[u]
           /\ k # None /\ xpCache[k] # None => Xp!Own(u, k) # None
<1>1. k # None => k \in Xp!Keys
  BY DEF Xp!Keys, Xp!Persons
<1>2. k # None => xpCache[k] \in Profiles \cup {None}
  BY <1>1 DEF XpInv, XpTypes
<1>3. k # None /\ xpCache[k] # None =>
          /\ xpCache[k].user \in XpUsers /\ xpCache[k].name = Person[xpCache[k].user]
          /\ k \in {xpCache[k].user, Person[xpCache[k].user]}
  BY <1>1, <1>2 DEF XpInv, StoreNamed, Profiles
<1>4. Person[u] \in Xp!Persons
  BY DEF Xp!Persons
<1>5. k # None /\ xpCache[k] # None => xpCache[k].user = u
  BY <1>3, <1>4 DEF XpAssumption, Xp!Persons
<1> QED BY <1>2, <1>3, <1>5 DEF Xp!Own

LEMMA CachedIs ==
    ASSUME XpAssumption, XpInv, NEW u \in XpUsers, NEW account \in {None, Person[u]}
    PROVE  /\ Xp!Cached(u, account) \in Profiles \cup {None}
           /\ Xp!Cached(u, account) # None =>
                  Xp!Cached(u, account).user = u /\ Xp!Cached(u, account).name = Person[u]
           /\ u \in xpKept /\ account = Person[u] => Xp!Cached(u, account) # None
<1>1. u \in xpKept => \E k \in {u, Person[u]} : xpCache[k] # None
  BY DEF XpInv, StoreNamed
<1>2. u # None /\ Person[u] # None
  BY DEF XpAssumption, Xp!Persons
<1>3. /\ Xp!Own(u, u) \in Profiles \cup {None}
      /\ Xp!Own(u, u) # None => Xp!Own(u, u).user = u /\ Xp!Own(u, u).name = Person[u]
      /\ xpCache[u] # None => Xp!Own(u, u) # None
  BY <1>2, OwnIs
<1>4. /\ Xp!Own(u, account) \in Profiles \cup {None}
      /\ Xp!Own(u, account) # None => Xp!Own(u, account).user = u /\ Xp!Own(u, account).name = Person[u]
      /\ account = Person[u] /\ xpCache[account] # None => Xp!Own(u, account) # None
  BY <1>2, OwnIs
<1> QED BY <1>1, <1>3, <1>4 DEF Xp!Cached

LEMMA XpBegins ==
    ASSUME XpAssumption, XpInv, NEW r \in XpRequests, NEW u \in XpUsers, Xp!Begins(r, u)
    PROVE  XpInv'
<1> DEFINE cached == Xp!Cached(u, None)
           q == [at |-> "token", user |-> u, session |-> session[u], cached |-> cached, expected |-> u \in xpKept]
<1>1. Xp!Proceeds(r, q) /\ UNCHANGED <<db, session, xpCache, xpKept>>
  BY DEF Xp!Begins
<1>2. cached \in Profiles \cup {None} /\ (cached # None => cached.user = u /\ cached.name = Person[u])
  BY CachedIs
<1>3. session[u] \in Names /\ NameOf(u, session[u])
  BY DEF XpInv, XpTypes, StoreNamed
<1> HIDE DEF cached
<1>4. q \in XpCalls
  BY <1>2, <1>3 DEF XpCalls, XpAsking
<1>5. CallNamed(q)
  BY <1>2, <1>3 DEF CallNamed
<1>6. q.at = "token" /\ (q.expected => q.user \in xpKept)
  OBVIOUS
<1> HIDE DEF q
<1> QED BY <1>1, <1>4, <1>5, <1>6, XpMoves

LEMMA XpReadsToken ==
    ASSUME XpAssumption, XpInv, NEW r \in XpRequests, Xp!ReadsToken(r)
    PROVE  XpInv'
<1> DEFINE c == xpRequest[r]
           row == db[c.user]
           cached == IF c.cached # None THEN c.cached ELSE Xp!Cached(c.user, row.account)
           at == IF row.access # "none" THEN "profile" ELSE IF row.refresh # "none" THEN "refresh" ELSE "fallback"
           q == [at |-> at, user |-> c.user, session |-> c.session, expected |-> c.expected, cached |-> cached,
                 access |-> row.access, refresh |-> row.refresh, attempted |-> FALSE]
<1>1. Xp!Proceeds(r, q) /\ UNCHANGED <<db, session, xpCache, xpKept>> /\ c.at = "token"
  BY DEF Xp!ReadsToken
<1>2. c \in XpAsking /\ c # Xp!Idle /\ CallNamed(c) /\ (c.expected => c.user \in xpKept)
  BY <1>1, XpCallIs DEF XpInv
<1>3. c.user \in XpUsers /\ c.session \in Names /\ c.expected \in BOOLEAN /\ c.cached \in Profiles \cup {None}
  BY <1>2 DEF XpAsking
<1>4. /\ row.access \in {"good", "expired"} /\ row.refresh \in {"good", "spent"}
      /\ row.account \in {None, Person[c.user]} /\ (c.user \in xpKept => row.account = Person[c.user])
  BY <1>3 DEF XpInv, XpTypes, StoreNamed, Rows
<1>5. /\ cached \in Profiles \cup {None}
      /\ cached # None => cached.user = c.user /\ cached.name = Person[c.user]
      /\ c.expected => cached # None
  BY <1>1, <1>2, <1>3, <1>4, CachedIs DEF CallNamed
<1>6. at = "profile"
  BY <1>4
<1>7. NameOf(c.user, c.session)
  BY <1>2 DEF CallNamed
<1> HIDE DEF cached, row, at, c
<1>8. q \in XpCalls
  BY <1>3, <1>4, <1>5, <1>6 DEF XpCalls, XpLooking
<1>9. CallNamed(q) /\ q.at = "profile" /\ (q.expected => q.user \in xpKept)
  BY <1>2, <1>5, <1>6, <1>7 DEF CallNamed
<1> HIDE DEF q
<1> QED BY <1>1, <1>8, <1>9, XpMoves

LEMMA XpLooksUp ==
    ASSUME XpAssumption, XpInv, NEW r \in XpRequests, NEW answered \in BOOLEAN, Xp!LooksUp(r, answered)
    PROVE  XpInv'
<1> DEFINE c == xpRequest[r]
           at == IF answered /\ Xp!Known(c) THEN "user"
                 ELSE IF c.refresh # "none" /\ ~ c.attempted THEN "refresh" ELSE "fallback"
           q == [c EXCEPT !.at = at]
<1>1. Xp!Proceeds(r, q) /\ UNCHANGED <<db, session, xpCache, xpKept>> /\ c.at = "profile"
  BY DEF Xp!LooksUp
<1>2. c \in XpLooking /\ c # Xp!Idle /\ CallNamed(c) /\ (c.expected => c.user \in xpKept)
  BY <1>1, XpCallIs DEF XpInv
<1>3. at \in {"user", "refresh", "fallback"}
  OBVIOUS
<1> HIDE DEF at, c
<1>4. q \in XpLooking /\ q.at = at /\ q.user = c.user /\ q.session = c.session /\ q.expected = c.expected /\ q.cached = c.cached
  BY <1>2, <1>3 DEF XpLooking
<1> HIDE DEF q
<1>5. CallNamed(q)
  BY <1>1, <1>2, <1>3, <1>4 DEF CallNamed
<1> QED BY <1>1, <1>2, <1>3, <1>4, <1>5, XpMoves DEF XpCalls

LEMMA XpRefreshes ==
    ASSUME XpAssumption, XpInv, NEW r \in XpRequests, NEW answered \in BOOLEAN, Xp!Refreshes(r, answered)
    PROVE  XpInv'
<1> DEFINE c == xpRequest[r]
           ok == answered /\ db[c.user].refresh = "good"
           at == IF ok THEN "profile" ELSE "fallback"
           access == IF ok THEN "good" ELSE c.access
           q == [c EXCEPT !.attempted = TRUE, !.access = access, !.at = at]
<1>1. /\ c.at = "refresh" /\ Xp!Proceeds(r, q)
      /\ db' = IF ok THEN [db EXCEPT ![c.user].refresh = "spent"] ELSE db
      /\ UNCHANGED <<session, xpCache, xpKept>>
  BY DEF Xp!Refreshes
<1>2. c \in XpLooking /\ c # Xp!Idle /\ CallNamed(c) /\ (c.expected => c.user \in xpKept)
  BY <1>1, XpCallIs DEF XpInv
<1>3. at \in {"profile", "fallback"} /\ access \in {"good", "expired"}
  BY <1>2 DEF XpLooking
<1> HIDE DEF at, access, c, ok
<1>4. q \in XpLooking /\ q.at = at /\ q.user = c.user /\ q.session = c.session /\ q.expected = c.expected /\ q.cached = c.cached
  BY <1>2, <1>3 DEF XpLooking
<1> HIDE DEF q
<1>5. CallNamed(q)
  BY <1>1, <1>2, <1>3, <1>4 DEF CallNamed
<1>6. /\ db' \in [XpUsers -> Rows]
      /\ \A u \in XpUsers : db'[u].name = db[u].name /\ db'[u].account = db[u].account
  <2> DEFINE row == [db[c.user] EXCEPT !.refresh = "spent"]
  <2>1. db \in [XpUsers -> Rows] /\ c.user \in XpUsers
    BY <1>2 DEF XpInv, XpTypes, XpLooking
  <2>2. row \in Rows /\ row.name = db[c.user].name /\ row.account = db[c.user].account
    BY <2>1 DEF Rows
  <2>3. db' = [db EXCEPT ![c.user] = row] \/ db' = db
    BY <1>1
  <2> HIDE DEF row
  <2> QED BY <2>1, <2>2, <2>3
<1>7. StoreNamed'
  BY <1>1, <1>6 DEF XpInv, XpTypes, StoreNamed, NameOf
<1> QED BY <1>1, <1>2, <1>3, <1>4, <1>5, <1>6, <1>7, XpGoesOn DEF XpCalls, XpInv, XpTypes


(* A profile that was found is the user's, and so is what becomes of it.   *)
LEMMA XpSaves ==
    ASSUME XpAssumption, XpInv, NEW r \in XpRequests, Xp!SavesUser(r) \/ Xp!SavesAccount(r)
    PROVE  XpInv'
<1> DEFINE c == xpRequest[r]
<1>1. UNCHANGED <<session, xpCache, xpKept>> /\ c.at \in {"user", "account"}
  BY DEF Xp!SavesUser, Xp!SavesAccount
<1>2. c \in XpLooking /\ c # Xp!Idle /\ CallNamed(c) /\ (c.expected => c.user \in xpKept)
  BY <1>1, XpCallIs DEF XpInv
<1>3. c.user \in XpUsers /\ Person[c.user] \in Xp!Persons /\ c.session \in Names /\ c.expected \in BOOLEAN
  BY <1>2 DEF XpLooking, Xp!Persons
<1>4. db \in [XpUsers -> Rows]
  BY DEF XpInv, XpTypes
<1>5. CASE Xp!SavesUser(r)
  <2> DEFINE row == [db[c.user] EXCEPT !.name = Person[c.user]]
             q == [c EXCEPT !.at = "account"]
  <2>1. Xp!Proceeds(r, q) /\ db' = [db EXCEPT ![c.user] = row] /\ c.at = "user"
    BY <1>5 DEF Xp!SavesUser
  <2> HIDE DEF c
  <2>2. row \in Rows /\ row.name = Person[c.user] /\ row.account = db[c.user].account
    BY <1>3, <1>4 DEF Rows, Names
  <2>3. q \in XpLooking /\ q.at = "account" /\ q.user = c.user /\ q.session = c.session /\ q.expected = c.expected /\ q.cached = c.cached
    BY <1>2 DEF XpLooking
  <2> HIDE DEF row, q
  <2>4. db' \in [XpUsers -> Rows] /\ \A u \in XpUsers : db'[u].account = db[u].account /\ NameOf(u, db'[u].name)
    BY <2>1, <2>2, <1>3, <1>4 DEF NameOf, XpInv, StoreNamed
  <2>5. StoreNamed'
    BY <1>1, <2>4 DEF XpInv, XpTypes, StoreNamed, NameOf
  <2>6. CallNamed(q)
    BY <1>1, <1>2, <2>1, <2>3 DEF CallNamed
  <2> QED BY <1>1, <1>2, <2>1, <2>3, <2>4, <2>5, <2>6, XpGoesOn DEF XpCalls, XpInv, XpTypes
<1>6. CASE Xp!SavesAccount(r)
  <2> DEFINE row == [db[c.user] EXCEPT !.account = Person[c.user]]
             q == [at |-> "cache", user |-> c.user, session |-> c.session,
                   expected |-> c.expected, left |-> {c.user, Person[c.user]}]
  <2>1. Xp!Proceeds(r, q) /\ db' = [db EXCEPT ![c.user] = row]
    BY <1>6 DEF Xp!SavesAccount
  <2> HIDE DEF c
  <2>2. row \in Rows /\ row.name = db[c.user].name /\ row.account = Person[c.user]
    BY <1>3, <1>4 DEF Rows
  <2>3. q \in XpCaching
    BY <1>3 DEF XpCaching, Xp!Keys
  <2>4. CallNamed(q)
    BY <1>2 DEF CallNamed
  <2> HIDE DEF row
  <2>5. /\ db' \in [XpUsers -> Rows]
        /\ \A u \in XpUsers : db'[u].name = db[u].name /\ db'[u].account \in {db[u].account, Person[u]}
        /\ db'[c.user].account = Person[c.user]
    BY <2>1, <2>2, <1>3, <1>4
  <2>6. StoreNamed'
    BY <1>1, <2>5 DEF XpInv, XpTypes, StoreNamed, NameOf
  <2>7. /\ q.at = "cache" /\ q.user = c.user /\ q.left = {c.user, Person[c.user]}
        /\ q.expected = c.expected
    OBVIOUS
  <2> HIDE DEF q
  <2> QED BY <1>1, <1>2, <2>1, <2>3, <2>4, <2>5, <2>6, <2>7, XpGoesOn DEF XpCalls, XpInv, XpTypes
<1> QED BY <1>5, <1>6

LEMMA XpCaches ==
    ASSUME XpAssumption, XpInv, NEW r \in XpRequests, NEW k \in Xp!Keys, NEW ok \in BOOLEAN, Xp!Caches(r, k, ok)
    PROVE  XpInv'
<1> DEFINE c == xpRequest[r]
           u == c.user
           entry == [user |-> u, name |-> Person[u]]
           on == [c EXCEPT !.left = @ \ {k}]
           over == [at |-> "served", user |-> u, id |-> Person[u], name |-> Person[u],
                    expected |-> c.expected, session |-> c.session]
           q == IF c.left = {k} THEN over ELSE on
<1>1. /\ c.at = "cache" /\ k \in c.left
      /\ \/ xpCache' = [xpCache EXCEPT ![k] = entry] /\ xpKept' = xpKept \cup {u}
         \/ UNCHANGED <<xpCache, xpKept>>
      /\ Xp!Proceeds(r, q) /\ UNCHANGED <<db, session>>
  BY DEF Xp!Caches, Xp!ServedAs
<1>2. /\ c \in XpCaching /\ c # Xp!Idle /\ CallNamed(c) /\ (c.expected => c.user \in xpKept)
      /\ db[c.user].account = Person[c.user] /\ c.left \subseteq {c.user, Person[c.user]}
  BY <1>1, XpCallIs DEF XpInv
<1>3. u \in XpUsers /\ Person[u] \in Xp!Persons /\ c.session \in Names /\ c.expected \in BOOLEAN
  BY <1>2 DEF XpCaching, Xp!Persons
<1>4. k \in {u, Person[u]}
  BY <1>1, <1>2
<1>5. Person[u] # Xp!Placeholder
  BY <1>3 DEF XpAssumption
<1>6. /\ entry \in Profiles /\ entry # None /\ entry.user = u /\ entry.name = Person[u]
  BY <1>3 DEF Profiles, XpAssumption
<1> HIDE DEF c, entry
<1>7. over \in XpServed /\ CallNamed(over) /\ over.at = "served"
  BY <1>2, <1>3, <1>5 DEF XpServed, CallNamed, NameOf, Names, Xp!Keys
<1>8. /\ on \in XpCaching /\ on.at = "cache" /\ on.user = u /\ on.session = c.session
      /\ on.left \subseteq c.left /\ on.expected = c.expected
  BY <1>2 DEF XpCaching
<1> HIDE DEF on, over
<1>9. CallNamed(on)
  BY <1>2, <1>8 DEF CallNamed
<1>10. q \in XpCalls /\ CallNamed(q)
  BY <1>7, <1>8, <1>9 DEF XpCalls
<1>11. /\ q.at # "served" /\ q.expected => q.user \in xpKept'
       /\ q.at = "cache" => db'[q.user].account = Person[q.user] /\ q.left \subseteq {q.user, Person[q.user]}
  BY <1>1, <1>2, <1>7, <1>8
<1> HIDE DEF q
<1>12. xpKept \subseteq xpKept' /\ xpKept' \subseteq XpUsers /\ xpCache' \in [Xp!Keys -> Profiles \cup {None}]
  BY <1>1, <1>3, <1>6 DEF XpInv, XpTypes
<1>13. /\ \A l \in Xp!Keys : xpCache'[l] # None =>
              xpCache'[l].name = Person[xpCache'[l].user] /\ l \in {xpCache'[l].user, Person[xpCache'[l].user]}
       /\ \A l \in Xp!Keys : xpCache[l] # None => xpCache'[l] # None
       /\ xpKept' # xpKept => xpKept' = xpKept \cup {u} /\ xpCache'[k] # None
  BY <1>1, <1>4, <1>6 DEF XpInv, XpTypes, StoreNamed
<1>14. \A v \in XpUsers : v \in Xp!Keys /\ Person[v] \in Xp!Keys
  BY DEF Xp!Keys, Xp!Persons
<1>15. \A v \in xpKept' : db[v].account = Person[v] /\ \E l \in {v, Person[v]} : xpCache'[l] # None
  <2>1. \A v \in xpKept : db[v].account = Person[v] /\ \E l \in {v, Person[v]} : xpCache'[l] # None
    BY <1>13, <1>14 DEF XpInv, XpTypes, StoreNamed
  <2>2. xpKept' # xpKept => db[u].account = Person[u] /\ \E l \in {u, Person[u]} : xpCache'[l] # None
    BY <1>2, <1>4, <1>13
  <2> QED BY <2>1, <2>2, <1>13
<1>16. StoreNamed'
  BY <1>1, <1>13, <1>15 DEF XpInv, StoreNamed, NameOf
<1> QED BY <1>1, <1>10, <1>11, <1>12, <1>16, XpGoesOn DEF XpInv, XpTypes

(* Without an answer from X.                                               *)
LEMMA XpFallsBack ==
    ASSUME XpAssumption, XpInv, NEW r \in XpRequests, Xp!FallsBack(r)
    PROVE  XpInv'
<1> DEFINE c == xpRequest[r]
           served(id, name) == [at |-> "served", user |-> c.user, id |-> id, name |-> name,
                                expected |-> c.expected, session |-> c.session]
<1>1. /\ c.at = "fallback" /\ UNCHANGED <<db, session, xpCache, xpKept>>
      /\ \/ c.cached # None /\ Xp!Proceeds(r, served(c.cached.user, c.cached.name))
         \/ /\ c.cached = None /\ c.session = Xp!Placeholder
            /\ \E v \in Xp!Stable : Xp!Proceeds(r, served(v, db[v].name))
         \/ c.cached = None /\ Xp!Proceeds(r, served(c.user, c.session))
  BY DEF Xp!FallsBack, Xp!ServedAs
<1>2. c \in XpLooking \cup XpFailed /\ c # Xp!Idle /\ CallNamed(c)
  BY <1>1, XpCallIs DEF XpInv
<1>3. c.user \in XpUsers /\ c.session \in Names /\ c.expected \in BOOLEAN /\ c.cached \in Profiles \cup {None}
      /\ Person[c.user] \in Xp!Persons /\ NameOf(c.user, c.session)
  BY <1>2 DEF XpLooking, XpFailed, Xp!Persons, CallNamed
<1>4. /\ c.cached # None => c.cached.user = c.user /\ c.cached.name = Person[c.user]
      /\ c.cached = None => c.expected = FALSE
  BY <1>1, <1>2, <1>3 DEF CallNamed
<1> HIDE DEF c
<1>5. ASSUME NEW id \in Xp!Keys, NEW name \in Names,
             c.expected => name # Xp!Placeholder,
             ~ NameOf(c.user, name) => c.session = Xp!Placeholder /\ ~ c.expected,
             Xp!Proceeds(r, served(id, name))
      PROVE  XpInv'
  <2>1. served(id, name) \in XpCalls
    BY <1>3 DEF XpCalls, XpServed
  <2>2. CallNamed(served(id, name)) /\ served(id, name).at = "served"
    BY <1>3, <1>5 DEF CallNamed
  <2> HIDE DEF served
  <2> QED BY <1>1, <1>5, <2>1, <2>2, XpMoves
<1>6. CASE c.cached # None /\ Xp!Proceeds(r, served(c.cached.user, c.cached.name))
  <2>1. c.cached.user \in Xp!Keys /\ c.cached.name \in Names
        /\ c.cached.name # Xp!Placeholder /\ NameOf(c.user, c.cached.name)
    BY <1>3, <1>4, <1>6 DEF Xp!Keys, Names, NameOf, XpAssumption
  <2> HIDE DEF served
  <2> QED BY <1>5, <1>6, <2>1
<1>7. ASSUME NEW v \in Xp!Stable, c.cached = None, c.session = Xp!Placeholder,
             Xp!Proceeds(r, served(v, db[v].name))
      PROVE  XpInv'
  <2>1. v \in XpUsers /\ db[v].name \in Names
    BY DEF Xp!Stable, XpInv, XpTypes, Rows
  <2> HIDE DEF served
  <2> QED BY <1>4, <1>5, <1>7, <2>1 DEF Xp!Keys
<1>8. CASE c.cached = None /\ Xp!Proceeds(r, served(c.user, c.session))
  <2> HIDE DEF served
  <2> QED BY <1>3, <1>4, <1>5, <1>8 DEF Xp!Keys
<1> QED BY <1>1, <1>6, <1>7, <1>8


LEMMA XpFails ==
    ASSUME XpAssumption, XpInv, NEW r \in XpRequests, Xp!Fails(r)
    PROVE  XpInv'
<1> DEFINE c == xpRequest[r]
           failed == [at |-> "fallback", user |-> c.user, session |-> c.session,
                      expected |-> FALSE, cached |-> c.cached]
           served == [at |-> "served", user |-> c.user, id |-> Person[c.user], name |-> Person[c.user],
                      expected |-> c.expected, session |-> c.session]
<1>1. /\ c.at \in {"token", "user", "account"} /\ UNCHANGED <<db, session, xpCache, xpKept>>
      /\ \/ c.at = "token" /\ Xp!Proceeds(r, failed)
         \/ Xp!Proceeds(r, served)
  BY DEF Xp!Fails, Xp!ServedAs
<1>2. c \in XpAsking \cup XpLooking /\ c # Xp!Idle /\ CallNamed(c)
  BY <1>1, XpCallIs DEF XpInv
<1>3. /\ c.user \in XpUsers /\ c.session \in Names /\ c.expected \in BOOLEAN /\ c.cached \in Profiles \cup {None}
      /\ Person[c.user] \in Xp!Persons /\ NameOf(c.user, c.session)
  BY <1>2 DEF XpAsking, XpLooking, Xp!Persons, CallNamed
<1> HIDE DEF c
<1>4. failed \in XpCalls /\ (c.at = "token" => CallNamed(failed)) /\ failed.at = "fallback" /\ failed.expected = FALSE
  BY <1>2, <1>3 DEF XpCalls, XpFailed, CallNamed
<1>5. served \in XpCalls /\ CallNamed(served) /\ served.at = "served"
  BY <1>3 DEF XpCalls, XpServed, CallNamed, NameOf, Names, Xp!Keys, XpAssumption
<1> HIDE DEF failed, served
<1> QED BY <1>1, <1>4, <1>5, XpMoves

(* The world around a request.                                             *)
LEMMA XpWorld ==
    ASSUME XpAssumption, XpInv,
           (\E u \in XpUsers : Xp!AccessEnds(u) \/ Xp!SignsIn(u)) \/ (\E k \in Xp!Keys : Xp!Expires(k))
    PROVE  XpInv'
<1>1. ASSUME NEW u \in XpUsers, Xp!AccessEnds(u) \/ Xp!SignsIn(u)
      PROVE  XpInv'
  <2> DEFINE ended == [db[u] EXCEPT !.access = "expired"]
             signed == [db[u] EXCEPT !.access = "good", !.refresh = "good"]
  <2>1. db[u] \in Rows /\ db \in [XpUsers -> Rows] /\ session \in [XpUsers -> Names]
    BY DEF XpInv, XpTypes
  <2>2. ended \in Rows /\ ended.name = db[u].name /\ ended.account = db[u].account
    BY <2>1 DEF Rows
  <2>3. signed \in Rows /\ signed.name = db[u].name /\ signed.account = db[u].account
    BY <2>1 DEF Rows
  <2>4. /\ db' = [db EXCEPT ![u] = ended] \/ db' = [db EXCEPT ![u] = signed]
        /\ session' = session \/ session' = [session EXCEPT ![u] = db[u].name]
        /\ UNCHANGED <<xpCache, xpRequest, xpKept>>
    BY <1>1 DEF Xp!AccessEnds, Xp!SignsIn
  <2> HIDE DEF ended, signed
  <2>5. db' \in [XpUsers -> Rows] /\ \A v \in XpUsers : db'[v].name = db[v].name /\ db'[v].account = db[v].account
    BY <2>1, <2>2, <2>3, <2>4
  <2>6. session' \in [XpUsers -> Names] /\ \A v \in XpUsers : NameOf(v, session'[v])
    BY <2>1, <2>4 DEF XpInv, StoreNamed, Rows
  <2>7. XpTypes'
    BY <2>4, <2>5, <2>6 DEF XpInv, XpTypes
  <2>8. StoreNamed'
    BY <2>4, <2>5, <2>6 DEF XpInv, XpTypes, StoreNamed, NameOf
  <2>9. \A r \in XpRequests : xpRequest[r] # Xp!Idle => xpRequest[r].user \in XpUsers
    BY DEF XpInv, XpTypes, XpCalls, XpAsking, XpLooking, XpFailed, XpCaching, XpServed
  <2> QED BY <2>4, <2>5, <2>7, <2>8, <2>9 DEF XpInv, CallNamed, NameOf
<1>2. ASSUME NEW k \in Xp!Keys, Xp!Expires(k)
      PROVE  XpInv'
  <2> DEFINE u == xpCache[k].user
             less(r) == [xpRequest[r] EXCEPT !.expected = FALSE]
  <2>1. /\ xpCache[k] # None /\ xpCache' = [xpCache EXCEPT ![k] = None] /\ xpKept' = xpKept \ {u}
        /\ xpRequest' = [r \in XpRequests |->
              IF xpRequest[r].at \notin {"idle", "served"} /\ xpRequest[r].user = u THEN less(r) ELSE xpRequest[r]]
        /\ UNCHANGED <<db, session>>
    BY <1>2 DEF Xp!Expires
  <2>2. xpCache \in [Xp!Keys -> Profiles \cup {None}] /\ xpKept \subseteq XpUsers
        /\ xpRequest \in [XpRequests -> XpCalls \cup {Xp!Idle}]
    BY DEF XpInv, XpTypes
  <2>3. xpCache[k].name = Person[u] /\ k \in {u, Person[u]} /\ u \in XpUsers
    BY <2>1, <2>2 DEF XpInv, StoreNamed, Profiles
  <2> HIDE DEF u
  <2>4. ASSUME NEW r \in XpRequests, xpRequest[r].at \notin {"idle", "served"}
        PROVE  /\ less(r) \in XpCalls /\ less(r).at = xpRequest[r].at /\ less(r).at # "served"
               /\ less(r).expected = FALSE
               /\ xpRequest[r].at = "cache" => less(r).left = xpRequest[r].left
               /\ less(r).user = xpRequest[r].user /\ CallNamed(less(r))
    <3>1. CASE xpRequest[r].at = "token"
      <4>1. xpRequest[r] \in XpAsking /\ CallNamed(xpRequest[r])
        BY <3>1, XpCallIs DEF XpInv
      <4> QED BY <3>1, <4>1 DEF XpAsking, XpCalls, CallNamed
    <3>2. CASE xpRequest[r] \in XpLooking
      <4>1. CallNamed(xpRequest[r])
        BY <2>4, XpCallIs DEF XpInv
      <4> QED BY <3>2, <4>1 DEF XpLooking, XpCalls, CallNamed
    <3>3. CASE xpRequest[r] \in XpFailed
      <4>1. CallNamed(xpRequest[r])
        BY <2>4, XpCallIs DEF XpInv
      <4> QED BY <3>3, <4>1 DEF XpFailed, XpCalls, CallNamed
    <3>4. CASE xpRequest[r].at = "cache"
      <4>1. xpRequest[r] \in XpCaching /\ CallNamed(xpRequest[r])
        BY <3>4, XpCallIs DEF XpInv
      <4> QED BY <3>4, <4>1 DEF XpCaching, XpCalls, CallNamed
    <3> QED BY <3>1, <3>2, <3>3, <3>4, <2>2, <2>4 DEF XpCalls, XpAsking, XpCaching, XpServed, Xp!Idle
  <2>5. \A r \in XpRequests : xpRequest'[r] = IF xpRequest[r].at \notin {"idle", "served"} /\ xpRequest[r].user = u
                                              THEN less(r) ELSE xpRequest[r]
    BY <2>1
  <2> HIDE DEF less
  <2>6. xpRequest' \in [XpRequests -> XpCalls \cup {Xp!Idle}]
    BY <2>1, <2>2, <2>4
  <2>7. xpCache' \in [Xp!Keys -> Profiles \cup {None}] /\ xpKept' \subseteq XpUsers
    BY <2>1, <2>2
  <2>8. XpTypes'
    BY <2>1, <2>6, <2>7 DEF XpInv, XpTypes
  <2>9. \A v \in xpKept' : \A l \in {v, Person[v]} : l # k
    BY <2>1, <2>2, <2>3 DEF XpAssumption, Xp!Persons
  <2>10. StoreNamed'
    <3>1. \A l \in Xp!Keys : xpCache'[l] # None => xpCache'[l] = xpCache[l]
      BY <2>1, <2>2
    <3>2. \A v \in XpUsers : v \in Xp!Keys /\ Person[v] \in Xp!Keys
      BY DEF Xp!Keys, Xp!Persons
    <3>3. \A v \in xpKept' : \A l \in {v, Person[v]} : xpCache'[l] = xpCache[l]
      BY <2>1, <2>2, <2>7, <2>9, <3>2
    <3>4. \A v \in xpKept' : db[v].account = Person[v] /\ \E l \in {v, Person[v]} : xpCache'[l] # None
      BY <2>1, <3>3 DEF XpInv, StoreNamed
    <3> QED BY <2>1, <3>1, <3>4 DEF XpInv, StoreNamed, NameOf
  <2>11. ASSUME NEW r \in XpRequests, xpRequest'[r] # Xp!Idle
         PROVE  /\ CallNamed(xpRequest'[r])
                /\ xpRequest'[r].at # "served" /\ xpRequest'[r].expected => xpRequest'[r].user \in xpKept'
                /\ xpRequest'[r].at = "cache" => db[xpRequest'[r].user].account = Person[xpRequest'[r].user]
                      /\ xpRequest'[r].left \subseteq {xpRequest'[r].user, Person[xpRequest'[r].user]}
    <3>1. CASE xpRequest[r].at \notin {"idle", "served"} /\ xpRequest[r].user = u
      <4>1. xpRequest[r] # Xp!Idle
        BY <3>1, XpCallIs
      <4>2. xpRequest[r].at = "cache" => db[xpRequest[r].user].account = Person[xpRequest[r].user]
                /\ xpRequest[r].left \subseteq {xpRequest[r].user, Person[xpRequest[r].user]}
        BY <4>1 DEF XpInv
      <4>3. xpRequest'[r] = less(r)
        BY <2>5, <3>1
      <4> QED BY <2>4, <3>1, <4>2, <4>3
    <3>2. CASE ~ (xpRequest[r].at \notin {"idle", "served"} /\ xpRequest[r].user = u)
      <4>1. xpRequest'[r] = xpRequest[r]
        BY <2>5, <3>2
      <4>2. xpRequest[r].at # "idle"
        BY <4>1, <2>11, <2>2 DEF XpCalls, XpAsking, XpLooking, XpFailed, XpCaching, XpServed
      <4> QED BY <2>1, <2>11, <3>2, <4>1, <4>2 DEF XpInv
    <3> QED BY <3>1, <3>2
  <2> QED BY <2>1, <2>8, <2>10, <2>11 DEF XpInv
<1> QED BY <1>1, <1>2

LEMMA XpStep == XpAssumption /\ XpInv /\ [Xp!Next]_(Xp!vars) => XpInv'
<1> SUFFICES ASSUME XpAssumption, XpInv, [Xp!Next]_(Xp!vars) PROVE XpInv'
  OBVIOUS
<1>1. CASE (\E u \in XpUsers : Xp!AccessEnds(u) \/ Xp!SignsIn(u)) \/ (\E k \in Xp!Keys : Xp!Expires(k))
  BY <1>1, XpWorld
<1>2. ASSUME NEW r \in XpRequests,
             \/ Xp!ReadsToken(r) \/ Xp!SavesUser(r) \/ Xp!SavesAccount(r)
             \/ Xp!FallsBack(r) \/ Xp!Fails(r)
      PROVE  XpInv'
  BY <1>2, XpReadsToken, XpSaves, XpFallsBack, XpFails
<1>3. ASSUME NEW r \in XpRequests, NEW answered \in BOOLEAN, Xp!LooksUp(r, answered) \/ Xp!Refreshes(r, answered)
      PROVE  XpInv'
  BY <1>3, XpLooksUp, XpRefreshes
<1>4. ASSUME NEW r \in XpRequests, NEW u \in XpUsers, Xp!Begins(r, u) PROVE XpInv'
  BY <1>4, XpBegins
<1>5. ASSUME NEW r \in XpRequests, NEW k \in Xp!Keys, NEW ok \in BOOLEAN, Xp!Caches(r, k, ok) PROVE XpInv'
  BY <1>5, XpCaches
<1>6. CASE UNCHANGED Xp!vars
  BY <1>6 DEF XpInv, XpTypes, StoreNamed, NameOf, CallNamed, Xp!vars
<1> QED BY <1>1, <1>2, <1>3, <1>4, <1>5, <1>6 DEF Xp!Next

LEMMA XpImplies == XpAssumption /\ XpInv => Xp!NamedOnce
<1> SUFFICES ASSUME XpAssumption, XpInv, NEW r \in XpRequests, xpRequest[r].at = "served"
             PROVE  /\ xpRequest[r].expected => xpRequest[r].name # Xp!Placeholder
                    /\ xpRequest[r].name \notin {Xp!Placeholder, Person[xpRequest[r].user]} =>
                           xpRequest[r].session = Xp!Placeholder /\ ~ xpRequest[r].expected
  BY DEF Xp!NamedOnce
<1>1. CallNamed(xpRequest[r])
  BY XpCallIs DEF XpInv
<1> QED BY <1>1 DEF CallNamed, NameOf

(* XProfile: while KV has a user's profile no outage gives a request the   *)
(* placeholder back, and who has a name is called by no other.             *)
THEOREM XpNamedOnce ==
    ASSUME XpAssumption
    PROVE  Xp!Spec => []Xp!NamedOnce
<1> QED BY XpInit, XpStep, XpImplies, PTL DEF Xp!Spec

-----------------------------------------------------------------------------
(***************************************************************************)
(* Routes.                                                                 *)
(***************************************************************************)
Rt == INSTANCE Routes WITH
    edge <- rtEdge, known <- rtKnown, request <- rtRequest,
    faults <- rtFaults, Users <- RtUsers, MaxDeploys <- RtMaxDeploys,
    MaxFaults <- RtMaxFaults

RtAssumption == None \notin Int

(* The first of some places of a short list.                               *)
LEMMA FirstOfTen ==
    ASSUME NEW S \in SUBSET (1..10), S # {}
    PROVE  \E i \in S : \A j \in S : i <= j
<1> SUFFICES ASSUME \A i \in S : \E j \in S : j < i PROVE FALSE
  OBVIOUS
<1>1. 1 \notin S /\ 2 \notin S /\ 3 \notin S
  OBVIOUS
<1>2. 4 \notin S /\ 5 \notin S /\ 6 \notin S
  BY <1>1
<1>3. 7 \notin S /\ 8 \notin S
  BY <1>1, <1>2
<1>4. 9 \notin S /\ 10 \notin S
  BY <1>1, <1>2, <1>3
<1>5. PICK i \in S : TRUE
  OBVIOUS
<1>6. i \in {1, 2, 3, 4, 5, 6, 7, 8, 9, 10}
  BY <1>5
<1> QED BY <1>1, <1>2, <1>3, <1>4, <1>5, <1>6

(* A request that is not refused passed every check there is.              *)
LEMMA NotRefused ==
    ASSUME RtAssumption, NEW env, NEW q, Rt!Refusal(env, q) = None
    PROVE  /\ Rt!Authorized(env, q) /\ Rt!ValidUser(env, q) /\ Rt!ByOwner(env, q)
           /\ Rt!Configured(env, q) /\ Rt!StripeVerified(env, q)
<1> DEFINE checks == Rt!Checks(env, q)
           failed == {i \in 1..Len(checks) : ~ checks[i][1]}
<1>1. /\ Len(checks) = 10
      /\ checks[3][1] = Rt!Configured(env, q) /\ checks[4][1] = Rt!Authorized(env, q)
      /\ checks[8][1] = Rt!StripeVerified(env, q)
      /\ checks[9][1] = Rt!ValidUser(env, q) /\ checks[10][1] = Rt!ByOwner(env, q)
  BY DEF Rt!Checks
<1>2. \A i \in 1..10 : checks[i][2] \in Nat
  BY DEF Rt!Checks
<1>3. failed = {}
  <2> SUFFICES ASSUME failed # {} PROVE FALSE
    OBVIOUS
  <2> DEFINE first == Rt!Min(failed)
  <2>1. \E i \in failed : \A j \in failed : i <= j
    <3>1. failed \subseteq 1..10
      BY <1>1
    <3> HIDE DEF failed
    <3> QED BY <3>1, FirstOfTen
  <2>2. first \in failed
    BY <2>1 DEF Rt!Min
  <2>3. first \in 1..10
    BY <2>2, <1>1
  <2>4. Rt!Refusal(env, q) = IF (IF failed # {} THEN first ELSE 0) = 0 THEN None
                             ELSE checks[IF failed # {} THEN first ELSE 0][2]
    BY DEF Rt!Refusal, Rt!SelectInSeq
  <2>5. Rt!Refusal(env, q) = checks[first][2]
    BY <2>3, <2>4
  <2>6. checks[first][2] \in Nat
    BY <1>2, <2>3
  <2> HIDE DEF first, checks, failed
  <2> QED BY <2>5, <2>6 DEF RtAssumption
<1>4. \A i \in 1..10 : checks[i][1]
  BY <1>1, <1>3
<1> QED BY <1>1, <1>4

(* A request on its way through the edge: what it is for, who makes it,    *)
(* and what was done for it when a first answer was lost.                  *)
RtFields ==
    {"at", "via", "path", "method", "cookie", "valid", "trusted", "signed", "bearer", "stripe",
     "body", "env", "user", "attempt", "done"}

RtCall(q) ==
    /\ DOMAIN q = RtFields /\ q = [f \in RtFields |-> q[f]]
    /\ q.at \in {"routing", "gate", "call", "proxy"}
    /\ q.via \in {"client", "stripe", "session"}
    /\ q.attempt = 0 => q.done = <<>>
    /\ q.attempt # 0 => /\ q.at = "proxy" /\ ~ Rt!Mutating(q)
                        /\ q.done = <<>> \/ \E e : q.done = <<e>> /\ e.path = q.path /\ Rt!Justified(q, e)
    /\ q.via = "client" => q.at = "proxy" /\ q.path \in Rt!Paths \ {"webhook"}
    /\ q.via = "stripe" => q.at = "proxy" /\ q.path = "webhook"
    /\ q.via = "session" =>
          /\ q.path \in Rt!Sessions \cup Rt!SignedOnly \cup {"ingest"}
          /\ q.at = "routing" /\ q.valid => q.cookie # None
          /\ q.at # "routing" =>
                /\ q.cookie # None /\ (Rt!Mutating(q) => q.trusted)
                /\ q.user = q.cookie \/ (q.path \in Rt!OfOwner /\ q.user = Login[q.cookie])
          /\ q.at = "gate" => q.user = q.cookie /\ q.path \in Rt!Overviews \cup Rt!Manages \cup Rt!OwnOwner
          /\ q.at \in {"call", "proxy"} => q.path \in Rt!Billing \cup Rt!Overviews \cup Rt!Manages
          /\ q.at = "proxy" => q.body.user = q.user

RtDone(a) ==
    /\ Rt!Mutating(a.from) => Len(a.done) <= 1
    /\ \A k \in DOMAIN a.done :
          LET e == a.done[k] IN
          IF e.path \in Rt!OwnPaths
          THEN a.from.signed \/ (a.from.cookie # None /\ e.user \in {a.from.cookie, Login[a.from.cookie]})
          ELSE Rt!Justified(a.from, e)

RtInv ==
    /\ rtRequest.at \in {"idle", "routing", "gate", "call", "proxy", "answered"}
    /\ rtRequest.at = "answered" => RtDone(rtRequest)
    /\ rtRequest.at \in {"routing", "gate", "call", "proxy"} => RtCall(rtRequest)

LEMMA RtAnswered ==
    ASSUME NEW q, NEW status, Rt!Answered(q, status),
           q.done = <<>> \/ \E e : q.done = <<e>> /\
              (IF e.path \in Rt!OwnPaths
               THEN q.signed \/ (q.cookie # None /\ e.user \in {q.cookie, Login[q.cookie]})
               ELSE Rt!Justified(q, e))
    PROVE  RtInv'
<1>1. rtRequest'.at = "answered" /\ rtRequest'.from = q /\ rtRequest'.done = q.done
  BY DEF Rt!Answered
<1>2. Len(q.done) <= 1 /\ DOMAIN q.done \subseteq {1}
  <2>1. CASE q.done = <<>>
    BY <2>1
  <2>2. ASSUME NEW e, q.done = <<e>> PROVE Len(q.done) <= 1 /\ DOMAIN q.done \subseteq {1}
    BY <2>2
  <2> QED BY <2>1, <2>2
<1>3. RtDone(rtRequest')
  BY <1>1, <1>2 DEF RtDone
<1> QED BY <1>1, <1>3 DEF RtInv

LEMMA RtArrives == ASSUME RtAssumption, RtInv, Rt!Arrives PROVE RtInv'
<1> DEFINE new(via, path, method) ==
        [at |-> "routing", via |-> via, path |-> path, method |-> method,
         cookie |-> None, valid |-> FALSE, trusted |-> TRUE, signed |-> FALSE,
         bearer |-> None, stripe |-> None, body |-> None, env |-> rtEdge,
         user |-> None, attempt |-> 0, done |-> <<>>]
<1>1. ASSUME NEW method, NEW path \in Rt!Paths \ {"webhook"}, NEW bearer, NEW body,
             rtRequest' = Rt!FromClient(path, method, bearer, body)
      PROVE  RtInv'
  <2>1. rtRequest' = [at |-> "proxy", via |-> "client", path |-> path, method |-> method,
                      cookie |-> None, valid |-> FALSE, trusted |-> TRUE, signed |-> FALSE,
                      bearer |-> bearer, stripe |-> None, body |-> body, env |-> rtEdge,
                      user |-> None, attempt |-> 0, done |-> <<>>]
    BY <1>1 DEF Rt!FromClient, Rt!Request
  <2>2. RtCall(rtRequest') /\ rtRequest'.at = "proxy"
    BY <2>1 DEF RtCall, RtFields
  <2> QED BY <2>2 DEF RtInv
<1>2. ASSUME NEW method, NEW stripe, rtRequest' = Rt!FromStripe(method, stripe)
      PROVE  RtInv'
  <2> DEFINE body == [user |-> None, sig |-> None]
             q == [new("stripe", "webhook", method) EXCEPT !.stripe = stripe, !.body = body]
  <2>1. q.done = <<>>
    OBVIOUS
  <2>2. CASE rtRequest' = [q EXCEPT !.at = "proxy"]
    <3>1. rtRequest' = [at |-> "proxy", via |-> "stripe", path |-> "webhook", method |-> method,
                        cookie |-> None, valid |-> FALSE, trusted |-> TRUE, signed |-> FALSE,
                        bearer |-> None, stripe |-> stripe, body |-> body, env |-> rtEdge,
                        user |-> None, attempt |-> 0, done |-> <<>>]
      BY <2>2
    <3>2. RtCall(rtRequest') /\ rtRequest'.at = "proxy"
      BY <3>1 DEF RtCall, RtFields
    <3> QED BY <3>2 DEF RtInv
  <2>3. CASE \E status : rtRequest' = [at |-> "answered", status |-> status, from |-> q, done |-> <<>>]
    <3> HIDE DEF q
    <3> QED BY <2>3, <2>1, RtAnswered DEF Rt!Answered
  <2> QED BY <1>2, <2>2, <2>3 DEF Rt!FromStripe, Rt!Request
<1>3. ASSUME NEW method, NEW path \in Rt!Sessions \cup Rt!SignedOnly \cup {"ingest"}, NEW cookie, NEW trusted, NEW signed, NEW body,
             rtRequest' = Rt!FromBrowser(path, method, cookie, trusted, signed, body)
      PROVE  RtInv'
  <2>1. rtRequest' = [at |-> "routing", via |-> "session", path |-> path, method |-> method,
                      cookie |-> cookie, valid |-> cookie # None, trusted |-> trusted, signed |-> signed,
                      bearer |-> None, stripe |-> None, body |-> body, env |-> rtEdge,
                      user |-> None, attempt |-> 0, done |-> <<>>]
    BY <1>3 DEF Rt!FromBrowser, Rt!Request
  <2>2. RtCall(rtRequest') /\ rtRequest'.at = "routing"
    BY <2>1 DEF RtCall, RtFields
  <2> QED BY <2>2 DEF RtInv
<1> QED BY <1>1, <1>2, <1>3 DEF Rt!Arrives


LEMMA RtPrivileged == ASSUME RtAssumption, RtInv, Rt!Privileged PROVE RtInv'
<1> DEFINE c == rtRequest
           event == [path |-> c.path, user |-> None]
           q == [c EXCEPT !.done = <<event>>]
<1>1. /\ c.at = "routing" /\ c.path \in Rt!SignedOnly
      /\ (c.signed /\ Rt!Answered(q, 200)) \/ Rt!Answered(c, 403)
  BY DEF Rt!Privileged
<1>2. RtCall(c) /\ c.done = <<>>
  BY <1>1 DEF RtInv, RtCall
<1> HIDE DEF c
<1>3. q.done = <<event>> /\ q.signed = c.signed /\ event.path \in Rt!OwnPaths
  BY <1>1, <1>2 DEF RtCall, RtFields, Rt!OwnPaths
<1> HIDE DEF q, event
<1>4. CASE c.signed /\ Rt!Answered(q, 200)
  BY <1>3, <1>4, RtAnswered
<1>5. CASE Rt!Answered(c, 403)
  BY <1>2, <1>5, RtAnswered
<1> QED BY <1>1, <1>4, <1>5

LEMMA RtLooksUp == ASSUME RtAssumption, RtInv, Rt!LooksUp PROVE RtInv'
<1> DEFINE c == rtRequest
           user == IF c.valid THEN c.cookie ELSE None
           q == [c EXCEPT !.user = user]
           event == [path |-> q.path, user |-> None]
           told == [q EXCEPT !.done = <<event>>]
<1>1. /\ c.at = "routing" /\ c.path \notin Rt!SignedOnly
      /\ (\E status : Rt!Answered(c, status)) \/ Rt!Dispatched(q)
  BY DEF Rt!LooksUp
<1>2. RtCall(c) /\ c.done = <<>>
  BY <1>1 DEF RtInv, RtCall
<1>3. c.via = "session"
  BY <1>1, <1>2 DEF RtCall
<1>4. /\ c.path \in Rt!Sessions \cup {"ingest"}
      /\ user # None => user = c.cookie
      /\ c.attempt = 0
  BY <1>1, <1>2, <1>3 DEF RtCall
<1> HIDE DEF c, user
<1>5. /\ DOMAIN q = RtFields /\ q = [f \in RtFields |-> q[f]] /\ q.at = "routing"
      /\ q.via = "session" /\ q.path = c.path /\ q.method = c.method /\ q.cookie = c.cookie
      /\ q.trusted = c.trusted /\ q.signed = c.signed /\ q.attempt = 0 /\ q.done = <<>> /\ q.user = user
  BY <1>1, <1>2, <1>3, <1>4 DEF RtCall, RtFields
<1> HIDE DEF q
<1>6. ASSUME NEW status, Rt!Answered(c, status) PROVE RtInv'
  BY <1>2, <1>6, RtAnswered
<1>7. ASSUME NEW status, Rt!Answered(q, status) PROVE RtInv'
  BY <1>5, <1>7, RtAnswered
<1>8. ASSUME NEW status, q.signed, q.path = "ingest", Rt!Answered(told, status) PROVE RtInv'
  <2>1. told.done = <<event>> /\ told.signed = q.signed /\ event.path \in Rt!OwnPaths
    BY <1>5, <1>8 DEF RtFields, Rt!OwnPaths
  <2> HIDE DEF told, event
  <2> QED BY <1>8, <2>1, RtAnswered
<1>9. ASSUME NEW at \in {"gate", "call"}, rtRequest' = [q EXCEPT !.at = at],
             ~ (Rt!NeedsSession(q.path) /\ q.user = None), ~ Rt!CrossSite(q), Rt!NeedsSession(q.path),
             at = "gate" => q.path \in Rt!Overviews \cup Rt!Manages \cup Rt!OwnOwner,
             at = "call" => q.path \in Rt!Billing
      PROVE  RtInv'
  <2>1. q.cookie # None /\ (Rt!Mutating(q) => q.trusted) /\ q.user = q.cookie
    BY <1>4, <1>5, <1>9 DEF Rt!CrossSite
  <2> DEFINE n == [q EXCEPT !.at = at]
  <2>2. /\ DOMAIN n = RtFields /\ n = [f \in RtFields |-> n[f]] /\ n.at = at
        /\ n.via = "session" /\ n.path = q.path /\ n.method = q.method /\ n.cookie = q.cookie
        /\ n.trusted = q.trusted /\ n.attempt = 0 /\ n.done = <<>> /\ n.user = q.user
    BY <1>5 DEF RtFields
  <2>3. n.path \in Rt!Sessions \cup {"ingest"}
    BY <1>4, <1>5, <2>2
  <2> HIDE DEF n
  <2>4. RtCall(n)
    BY <1>9, <2>1, <2>2, <2>3 DEF RtCall, Rt!Mutating
  <2>5. rtRequest' = n
    BY <1>9 DEF n
  <2> QED BY <2>2, <2>4, <2>5, <1>9 DEF RtInv
<1>10. CASE Rt!Dispatched(q)
  <2> DEFINE ingest == IF q.method = "POST" /\ q.signed THEN Rt!Answered(told, 200) ELSE Rt!Answered(q, 403)
             calls == rtRequest' = [q EXCEPT !.at = "call"]
             gates == rtRequest' = [q EXCEPT !.at = "gate"]
             lets == CASE q.path = "ingest" -> ingest
                       [] q.path \in Rt!Billing -> calls
                       [] q.path \in Rt!Overviews /\ q.method \notin Rt!EdgeMethods(q.path) -> Rt!Answered(q, 405)
                       [] q.path = "other" -> Rt!Answered(q, 404)
                       [] OTHER -> gates
             open == Rt!NeedsSession(q.path) /\ q.user = None
             refused == (Rt!NeedsSession(q.path) => q.user # None) /\ Rt!CrossSite(q)
  <2>0. ~ open /\ ~ refused /\ q.path # "me" => lets
    <3> HIDE DEF ingest, calls, gates, told
    <3>1. CASE ~ open /\ ~ refused /\ q.path # "me"
      <4>1. Rt!Dispatched(q) = lets
        BY <3>1 DEF Rt!Dispatched, ingest, calls, gates, told
      <4> QED BY <4>1, <1>10
    <3> QED BY <3>1
  <2>1. CASE q.path = "me"
    BY <2>1, <1>7, <1>10 DEF Rt!Dispatched
  <2>2. CASE q.path # "me" /\ open
    BY <2>2, <1>7, <1>10 DEF Rt!Dispatched
  <2>3. CASE q.path # "me" /\ ~ open /\ refused
    BY <2>3, <1>7, <1>10 DEF Rt!Dispatched
  <2>4. CASE q.path = "ingest" /\ ~ open /\ ~ refused
    <3>1. ingest
      BY <2>0, <2>4 DEF Rt!Billing, Rt!Overviews
    <3> HIDE DEF told
    <3> QED BY <3>1, <1>7, <1>8, <2>4
  <2>5. CASE q.path \notin {"me", "ingest"} /\ ~ open /\ ~ refused
    <3>1. Rt!NeedsSession(q.path) /\ ~ Rt!CrossSite(q)
      BY <2>5 DEF Rt!NeedsSession
    <3>2. CASE q.path \in Rt!Billing
      <4>1. rtRequest' = [q EXCEPT !.at = "call"]
        BY <2>0, <2>5, <3>2 DEF Rt!Billing, Rt!Overviews
      <4> QED BY <4>1, <3>1, <3>2, <2>5, <1>9
    <3>3. CASE q.path \notin Rt!Billing
      <4>1. (\E status : Rt!Answered(q, status)) \/ (q.path # "other" /\ rtRequest' = [q EXCEPT !.at = "gate"])
        BY <2>0, <2>5, <3>3
      <4>2. q.path # "other" => q.path \in Rt!Overviews \cup Rt!Manages \cup Rt!OwnOwner
        BY <1>4, <1>5, <2>5, <3>3 DEF Rt!Sessions
      <4> QED BY <4>1, <4>2, <3>1, <2>5, <1>7, <1>9
    <3> QED BY <3>2, <3>3
  <2> QED BY <2>1, <2>2, <2>3, <2>4, <2>5
<1> QED BY <1>1, <1>6, <1>10

(* The owner's gate finds whose request it is.                             *)
LEMMA RtGates ==
    ASSUME RtAssumption, RtInv, rtRequest.at = "gate",
           NEW found \in {None, rtRequest.user, Login[rtRequest.user]}, Rt!Gates(found)
    PROVE  RtInv'
<1> DEFINE c == rtRequest
           event == [path |-> c.path, user |-> found]
           told == [c EXCEPT !.done = <<event>>]
           n == [c EXCEPT !.at = "call", !.user = found]
<1>1. RtCall(c) /\ c.done = <<>> /\ c.at = "gate" /\ c.via = "session" /\ c.attempt = 0
  BY DEF RtInv, RtCall
<1>2. /\ c.user = c.cookie /\ c.path \in Rt!Overviews \cup Rt!Manages \cup Rt!OwnOwner /\ c.cookie # None
      /\ (Rt!Mutating(c) => c.trusted) /\ c.path \in Rt!Sessions \cup Rt!SignedOnly \cup {"ingest"}
  BY <1>1 DEF RtCall
<1>3. \/ \E status : Rt!Answered(c, status)
      \/ c.path \in Rt!OwnOwner /\ found # None /\ Rt!Answered(told, 200)
      \/ c.path \notin Rt!OwnOwner /\ found # None /\ rtRequest' = n
  BY DEF Rt!Gates
<1>4. found # None => found \in {c.cookie, Login[c.cookie]}
  BY <1>2
<1> HIDE DEF c
<1>5. ASSUME NEW status, Rt!Answered(c, status) PROVE RtInv'
  BY <1>1, <1>5, RtAnswered
<1>6. CASE c.path \in Rt!OwnOwner /\ found # None /\ Rt!Answered(told, 200)
  <2>1. told.done = <<event>> /\ told.cookie = c.cookie /\ event.path \in Rt!OwnPaths /\ event.user = found
    BY <1>1, <1>6 DEF RtCall, RtFields, Rt!OwnPaths
  <2> HIDE DEF told, event
  <2> QED BY <1>2, <1>4, <1>6, <2>1, RtAnswered
<1>7. CASE c.path \notin Rt!OwnOwner /\ found # None /\ rtRequest' = n
  <2>1. /\ DOMAIN n = RtFields /\ n = [f \in RtFields |-> n[f]] /\ n.at = "call"
        /\ n.via = "session" /\ n.path = c.path /\ n.method = c.method /\ n.cookie = c.cookie
        /\ n.trusted = c.trusted /\ n.attempt = 0 /\ n.done = <<>> /\ n.user = found
    BY <1>1 DEF RtCall, RtFields
  <2>2. n.path \in Rt!Overviews \cup Rt!Manages /\ n.path \in Rt!OfOwner
    BY <1>2, <1>7, <2>1 DEF Rt!OfOwner, Rt!Overviews, Rt!Manages
  <2> HIDE DEF n
  <2>3. RtCall(n)
    BY <1>2, <1>4, <1>7, <2>1, <2>2 DEF RtCall, Rt!Mutating
  <2> QED BY <1>7, <2>1, <2>3 DEF RtInv
<1> QED BY <1>3, <1>5, <1>6, <1>7


(* A check whose result is a proof of who may.                             *)
LEMMA RtJustified ==
    ASSUME RtAssumption, NEW q, RtCall(q), q.at = "proxy", Rt!Refusal(backend, Rt!Sent(q)) = None,
           NEW answer \in Rt!Answers(backend, Accounts, Rt!Sent(q))
    PROVE  /\ Rt!Did(q, answer).path = q.path
           /\ Rt!Did(q, answer).path \notin Rt!OwnPaths
           /\ Rt!Justified(q, Rt!Did(q, answer))
<1> DEFINE s == Rt!Sent(q)
           e == Rt!Did(q, answer)
<1>1. /\ s.path = q.path /\ s.bearer = q.bearer /\ s.body = q.body
  BY DEF Rt!Sent
<1>2. /\ e.path = q.path /\ e.user = answer.user /\ e.bearer = q.bearer /\ e.signing = backend.signing
      /\ e.expected = Rt!Expected(backend, q.path) /\ e.owner = (answer.user \in backend.owners)
  BY DEF Rt!Did
<1>3. /\ Rt!Authorized(backend, s) /\ Rt!ValidUser(backend, s) /\ Rt!ByOwner(backend, s)
      /\ Rt!Configured(backend, s)
  BY NotRefused
<1>4. q.path \in Rt!OfUser => answer.user = q.body.user
  BY <1>1 DEF Rt!Answers, Rt!OfUser, Rt!Reads, Rt!StatusAnswer, Rt!ActivityAnswer, Rt!GatesAnswer,
              Rt!InfoAnswer, Rt!CheckoutAnswers, Rt!PortalAnswers
<1>5. q.path \in Rt!Paths
  BY DEF RtCall, Rt!Paths, Rt!Billing, Rt!Overviews, Rt!Manages, Rt!Reads, Rt!Buys, Rt!OfOwner
<1>6. q.path \notin Rt!OwnPaths
  BY <1>5 DEF Rt!Paths, Rt!Reads, Rt!Buys, Rt!OfOwner, Rt!Catalogs, Rt!Admins, Rt!Feeds, Rt!OwnPaths,
              Rt!OwnOwner, Rt!SignedOnly
<1> HIDE DEF s, e
<1>7. q.path \notin Rt!Feeds \cup {"landing", "webhook", "rpc"} => e.bearer # None /\ e.bearer = e.expected
  BY <1>1, <1>2, <1>3 DEF Rt!Authorized, Rt!Open, Rt!Matches
<1>8. q.path \in Rt!OfUser =>
        /\ e.user # None /\ e.user = q.body.user
        /\ e.signing # "off" => q.body.sig = e.user
  BY <1>1, <1>2, <1>3, <1>4 DEF Rt!ValidUser
<1>9. q.path \in Rt!OfOwner => q.path \in Rt!OfUser
  BY DEF Rt!OfUser
<1>10. q.path \in Rt!OfOwner => e.owner
  BY <1>1, <1>2, <1>3, <1>8, <1>9 DEF Rt!ByOwner
<1>11. q.via = "session" =>
        /\ q.cookie # None /\ (Rt!Mutating(q) => q.trusted)
        /\ e.user = q.cookie \/ (q.path \in Rt!OfOwner /\ e.user = Login[q.cookie])
  <2> SUFFICES ASSUME q.via = "session"
               PROVE  /\ q.cookie # None /\ (Rt!Mutating(q) => q.trusted)
                      /\ e.user = q.cookie \/ (q.path \in Rt!OfOwner /\ e.user = Login[q.cookie])
    OBVIOUS
  <2>1. /\ q.cookie # None /\ (Rt!Mutating(q) => q.trusted)
        /\ q.user = q.cookie \/ (q.path \in Rt!OfOwner /\ q.user = Login[q.cookie])
        /\ q.path \in Rt!Billing \cup Rt!Overviews \cup Rt!Manages
        /\ q.body.user = q.user
    BY DEF RtCall
  <2>2. q.path \in Rt!OfUser
    BY <2>1 DEF Rt!OfUser, Rt!OfOwner, Rt!Reads, Rt!Buys, Rt!Billing, Rt!Overviews, Rt!Manages
  <2> QED BY <2>1, <2>2, <1>8
<1>12. e.path = q.path
  BY <1>2
<1> QED BY <1>6, <1>7, <1>8, <1>10, <1>11, <1>12 DEF Rt!Justified, e

LEMMA JustifiedAlike ==
    ASSUME NEW q, NEW n, n.via = q.via, n.body = q.body, n.cookie = q.cookie,
           n.trusted = q.trusted, n.method = q.method, NEW e, Rt!Justified(q, e)
    PROVE  Rt!Justified(n, e)
BY DEF Rt!Justified, Rt!Mutating

(* The backend has done something for a request, or nothing, and the       *)
(* answer comes or is lost.                                                *)
LEMMA RtReplied ==
    ASSUME RtInv, RtCall(rtRequest), rtRequest.at = "proxy", NEW q,
           q = rtRequest \/ \E e : /\ q = [rtRequest EXCEPT !.done = Append(rtRequest.done, e)]
                                  /\ e.path = rtRequest.path /\ Rt!Justified(rtRequest, e),
           rtRequest.path \notin Rt!OwnPaths,
           NEW status, NEW lost, Rt!Replied(q, status, lost)
    PROVE  RtInv'
<1> DEFINE c == rtRequest
           again == [q EXCEPT !.attempt = 1]
<1>1. /\ DOMAIN c = RtFields /\ c = [f \in RtFields |-> c[f]]
      /\ c.done = <<>> \/ (c.attempt # 0 /\ ~ Rt!Mutating(c) /\
            \E e : c.done = <<e>> /\ e.path = c.path /\ Rt!Justified(c, e))
  BY DEF RtCall
<1>2. /\ (q = c) \/ \E e : q = [c EXCEPT !.done = Append(c.done, e)] /\ e.path = c.path /\ Rt!Justified(c, e)
      /\ RtCall(c) /\ c.at = "proxy" /\ c.path \notin Rt!OwnPaths
  OBVIOUS
<1>3. (\E st : Rt!Answered(q, st)) \/ (Rt!Again(q) /\ rtRequest' = again)
  BY DEF Rt!Replied
<1> HIDE DEF c
<1>4. /\ DOMAIN q = RtFields /\ q = [f \in RtFields |-> q[f]] /\ q.at = "proxy"
      /\ q.via = c.via /\ q.body = c.body /\ q.cookie = c.cookie /\ q.trusted = c.trusted
      /\ q.method = c.method /\ q.path = c.path /\ q.attempt = c.attempt /\ q.user = c.user
  BY <1>1, <1>2 DEF RtFields
<1>5. \/ q.done = <<>>
      \/ \E e : q.done = <<e>> /\ e.path = c.path /\ Rt!Justified(c, e)
      \/ /\ c.attempt # 0 /\ ~ Rt!Mutating(c)
         /\ \E a, e : /\ q.done = <<a, e>> /\ a.path = c.path /\ e.path = c.path
                      /\ Rt!Justified(c, a) /\ Rt!Justified(c, e)
  <2>1. CASE q = c
    BY <2>1, <1>1
  <2>2. ASSUME NEW e, q = [c EXCEPT !.done = Append(c.done, e)], e.path = c.path, Rt!Justified(c, e)
        PROVE  \/ q.done = <<>>
               \/ \E x : q.done = <<x>> /\ x.path = c.path /\ Rt!Justified(c, x)
               \/ /\ c.attempt # 0 /\ ~ Rt!Mutating(c)
                  /\ \E a, x : /\ q.done = <<a, x>> /\ a.path = c.path /\ x.path = c.path
                               /\ Rt!Justified(c, a) /\ Rt!Justified(c, x)
    <3>1. q.done = Append(c.done, e)
      BY <2>2, <1>1 DEF RtFields
    <3>2. CASE c.done = <<>>
      <4>1. q.done = <<e>>
        BY <3>1, <3>2
      <4> QED BY <4>1, <2>2
    <3>3. ASSUME NEW a, c.done = <<a>>, a.path = c.path, Rt!Justified(c, a), c.attempt # 0, ~ Rt!Mutating(c)
          PROVE  \/ q.done = <<>>
                 \/ \E x : q.done = <<x>> /\ x.path = c.path /\ Rt!Justified(c, x)
                 \/ /\ c.attempt # 0 /\ ~ Rt!Mutating(c)
                    /\ \E y, x : /\ q.done = <<y, x>> /\ y.path = c.path /\ x.path = c.path
                                 /\ Rt!Justified(c, y) /\ Rt!Justified(c, x)
      <4>1. q.done = <<a, e>>
        <5>1. <<a>> \in Seq({a, e}) /\ Len(<<a>>) = 1
          OBVIOUS
        <5>2. Append(<<a>>, e) = <<a, e>>
          <6>1. /\ Append(<<a>>, e) \in Seq({a, e}) /\ Len(Append(<<a>>, e)) = 2
                /\ Append(<<a>>, e)[1] = a /\ Append(<<a>>, e)[2] = e
            BY <5>1, AppendProperties
          <6>2. <<a, e>> \in Seq({a, e}) /\ Len(<<a, e>>) = 2 /\ <<a, e>>[1] = a /\ <<a, e>>[2] = e
            OBVIOUS
          <6> DEFINE u == Append(<<a>>, e)
                     v == <<a, e>>
          <6>3. \A i \in 1..Len(u) : u[i] = v[i]
            BY <6>1, <6>2
          <6>4. u \in Seq({a, e}) /\ v \in Seq({a, e}) /\ Len(u) = Len(v)
            BY <6>1, <6>2
          <6> HIDE DEF u, v
          <6>5. u = v
            BY <6>3, <6>4, SeqEqual, Zenon
          <6> QED BY <6>5 DEF u, v
        <5> QED BY <3>1, <3>3, <5>2
      <4> QED BY <4>1, <2>2, <3>3
    <3> QED BY <3>2, <3>3, <1>1
  <2> QED BY <2>1, <2>2, <1>2
<1>6. \A e : Rt!Justified(c, e) => Rt!Justified(q, e)
  BY <1>4, JustifiedAlike
<1>7. ASSUME NEW st, Rt!Answered(q, st) PROVE RtInv'
  <2>1. CASE q.done = <<>> \/ \E e : q.done = <<e>> /\ e.path = c.path /\ Rt!Justified(c, e)
    BY <2>1, <1>2, <1>6, <1>7, RtAnswered
  <2>2. ASSUME NEW a, NEW e, ~ Rt!Mutating(c), q.done = <<a, e>>, a.path = c.path, e.path = c.path,
               Rt!Justified(c, a), Rt!Justified(c, e)
        PROVE  RtInv'
    <3>1. rtRequest'.at = "answered" /\ rtRequest'.from = q /\ rtRequest'.done = q.done
      BY <1>7 DEF Rt!Answered
    <3>2. ~ Rt!Mutating(q)
      BY <2>2, <1>4 DEF Rt!Mutating
    <3>3. DOMAIN q.done = {1, 2} /\ q.done[1] = a /\ q.done[2] = e
      BY <2>2
    <3>4. RtDone(rtRequest')
      BY <3>1, <3>2, <3>3, <2>2, <1>2, <1>6 DEF RtDone
    <3> QED BY <3>1, <3>4 DEF RtInv
  <2> QED BY <2>1, <2>2, <1>5
<1>8. CASE Rt!Again(q) /\ rtRequest' = again
  <2>1. q.via = "client" /\ ~ Rt!Mutating(q) /\ c.attempt = 0
    BY <1>4, <1>8 DEF Rt!Again
  <2>2. /\ DOMAIN again = RtFields /\ again = [f \in RtFields |-> again[f]] /\ again.at = "proxy"
        /\ again.via = c.via /\ again.body = c.body /\ again.cookie = c.cookie /\ again.trusted = c.trusted
        /\ again.method = c.method /\ again.path = c.path /\ again.attempt = 1 /\ again.done = q.done
    BY <1>4 DEF RtFields
  <2> HIDE DEF again
  <2>3. ~ Rt!Mutating(again)
    BY <2>1, <2>2, <1>4 DEF Rt!Mutating
  <2>4. again.done = <<>> \/ \E e : again.done = <<e>> /\ e.path = again.path /\ Rt!Justified(again, e)
    <3>1. \A e : Rt!Justified(c, e) => Rt!Justified(again, e)
      BY <2>2, JustifiedAlike
    <3> QED BY <2>1, <2>2, <3>1, <1>5
  <2>5. c.path \in Rt!Paths \ {"webhook"}
    BY <2>1, <1>2, <1>4 DEF RtCall
  <2>6. again.via = "client" /\ again.path \in Rt!Paths \ {"webhook"} /\ again.attempt # 0
    BY <2>1, <2>2, <2>5, <1>4
  <2>7. RtCall(again)
    <3> HIDE DEF c
    <3> QED BY <2>2, <2>3, <2>4, <2>6 DEF RtCall
  <2> QED BY <1>8, <2>2, <2>7 DEF RtInv
<1> QED BY <1>3, <1>7, <1>8

(* Nothing passed on is for the edge's own.                                *)
LEMMA RtPassedOn ==
    ASSUME NEW q, RtCall(q), q.at = "proxy"
    PROVE  q.path \notin Rt!OwnPaths
BY DEF RtCall, Rt!Paths, Rt!Billing, Rt!Overviews, Rt!Manages, Rt!Reads, Rt!Buys, Rt!OfOwner,
       Rt!Catalogs, Rt!Admins, Rt!Feeds, Rt!OwnPaths, Rt!OwnOwner, Rt!SignedOnly

LEMMA RtHandles ==
    ASSUME RtAssumption, RtInv, (\E lost \in BOOLEAN : Rt!Handles(lost)) \/ Rt!Misses
    PROVE  RtInv'
<1> DEFINE c == rtRequest
<1>1. c.at = "proxy" /\ RtCall(c) /\ c.path \notin Rt!OwnPaths
  BY RtPassedOn DEF Rt!Handles, Rt!Misses, RtInv
<1>2. ASSUME NEW status, NEW lost, Rt!Replied(c, status, lost) PROVE RtInv'
  BY <1>1, <1>2, RtReplied
<1>3. ASSUME NEW lost, NEW answer \in Rt!Answers(backend, Accounts, Rt!Sent(c)),
             Rt!Refusal(backend, Rt!Sent(c)) = None,
             Rt!Replied([c EXCEPT !.done = Append(c.done, Rt!Did(c, answer))], 200, lost)
      PROVE  RtInv'
  <2> DEFINE e == Rt!Did(c, answer)
             q == [c EXCEPT !.done = Append(c.done, e)]
  <2>1. e.path = c.path /\ Rt!Justified(c, e)
    BY <1>1, <1>3, RtJustified
  <2> HIDE DEF e
  <2>2. q = [rtRequest EXCEPT !.done = Append(rtRequest.done, e)]
    OBVIOUS
  <2>3. Rt!Replied(q, 200, lost)
    BY <1>3 DEF e
  <2> HIDE DEF q
  <2>4. \E x : /\ q = [rtRequest EXCEPT !.done = Append(rtRequest.done, x)]
               /\ x.path = rtRequest.path /\ Rt!Justified(rtRequest, x)
    BY <2>1, <2>2
  <2> QED BY <1>1, <2>3, <2>4, RtReplied
<1>4. CASE Rt!Misses
  BY <1>2, <1>4 DEF Rt!Misses
<1>5. ASSUME NEW lost \in BOOLEAN, Rt!Handles(lost) PROVE RtInv'
  <2>1. CASE Rt!Refusal(backend, Rt!Sent(c)) # None
    BY <2>1, <1>2, <1>5 DEF Rt!Handles
  <2>2. CASE Rt!Refusal(backend, Rt!Sent(c)) = None
    <3>1. PICK answer \in Rt!Answers(backend, Accounts, Rt!Sent(c)) :
              Rt!Replied([c EXCEPT !.done = Append(c.done, Rt!Did(c, answer))], 200, lost)
      BY <2>2, <1>5 DEF Rt!Handles
    <3> QED BY <2>2, <3>1, <1>3
  <2> QED BY <2>1, <2>2
<1> QED BY <1>4, <1>5

LEMMA RtCalls == ASSUME RtAssumption, RtInv, Rt!Calls PROVE RtInv'
<1> DEFINE c == rtRequest
           payload == Rt!Payload(c)
           n == [c EXCEPT !.at = "proxy", !.bearer = c.env.api, !.body = payload]
<1>1. c.at = "call" /\ ((\E status : Rt!Answered(c, status)) \/ rtRequest' = n)
  BY DEF Rt!Calls
<1>2. RtCall(c) /\ c.done = <<>> /\ c.via = "session" /\ c.attempt = 0
  BY <1>1 DEF RtInv, RtCall
<1>3. payload.user = c.user
  BY DEF Rt!Payload
<1> HIDE DEF c, payload
<1>4. ASSUME NEW status, Rt!Answered(c, status) PROVE RtInv'
  BY <1>2, <1>4, RtAnswered
<1>5. CASE rtRequest' = n
  <2>1. /\ DOMAIN n = RtFields /\ n = [f \in RtFields |-> n[f]] /\ n.at = "proxy"
        /\ n.via = "session" /\ n.path = c.path /\ n.method = c.method /\ n.cookie = c.cookie
        /\ n.trusted = c.trusted /\ n.attempt = 0 /\ n.done = <<>> /\ n.user = c.user /\ n.body = payload
    BY <1>2 DEF RtCall, RtFields
  <2> HIDE DEF n
  <2>2. RtCall(n)
    BY <1>1, <1>2, <1>3, <2>1 DEF RtCall, Rt!Mutating
  <2> QED BY <1>5, <2>1, <2>2 DEF RtInv
<1> QED BY <1>1, <1>4, <1>5


LEMMA RtOwnerGate == ASSUME RtAssumption, RtInv, Rt!OwnerGate \/ Rt!GateFails PROVE RtInv'
<1>1. CASE Rt!GateFails
  <2>1. Rt!Gates(None) /\ rtRequest.at = "gate"
    BY <1>1 DEF Rt!GateFails, Rt!Gates
  <2> QED BY <2>1, RtGates
<1>2. CASE Rt!OwnerGate
  <2> DEFINE owners == {i \in 1..2 : Rt!Principals(rtRequest)[i] \in rtKnown \/ Rt!IsOwner(rtRequest, Rt!Principals(rtRequest)[i])}
             first == Rt!Min(owners)
  <2>0. Len(Rt!Principals(rtRequest)) = 2
    BY DEF Rt!Principals
  <2>1. /\ rtRequest.at = "gate"
        /\ \/ Rt!Gates(None)
           \/ owners # {} /\ Rt!Gates(Rt!Principals(rtRequest)[first])
    BY <1>2, <2>0 DEF Rt!OwnerGate, Rt!SelectInSeq
  <2>2. owners # {} => first \in 1..2
    <3>1. owners # {} => \E i \in owners : \A j \in owners : i <= j
      BY FirstOfTen, owners \subseteq 1..10
    <3> HIDE DEF owners
    <3>2. owners # {} => first \in owners
      BY <3>1 DEF Rt!Min
    <3> QED BY <3>2 DEF owners
  <2>3. owners # {} => Rt!Principals(rtRequest)[first] \in {Login[rtRequest.user], rtRequest.user}
    BY <2>2 DEF Rt!Principals
  <2> HIDE DEF owners, first
  <2> QED BY <2>1, <2>3, RtGates
<1> QED BY <1>1, <1>2

LEMMA RtWorld ==
    ASSUME RtAssumption, RtInv, Rt!Ends \/ Rt!SignsOut \/ Rt!Forgets \/ Rt!Deploys \/ UNCHANGED Rt!vars
    PROVE  RtInv'
<1>1. CASE Rt!Ends
  BY <1>1 DEF Rt!Ends, RtInv, Rt!Idle
<1>2. CASE Rt!SignsOut
  <2> DEFINE c == rtRequest
             q == [c EXCEPT !.valid = FALSE]
  <2>1. c.at = "routing" /\ rtRequest' = q
    BY <1>2 DEF Rt!SignsOut
  <2>2. RtCall(c)
    BY <2>1 DEF RtInv
  <2> HIDE DEF c
  <2>3. /\ DOMAIN q = RtFields /\ q = [f \in RtFields |-> q[f]] /\ q.valid = FALSE
        /\ \A f \in RtFields \ {"valid"} : q[f] = c[f]
    BY <2>2 DEF RtCall, RtFields
  <2> HIDE DEF q
  <2>4. /\ q.at = "routing" /\ q.via = c.via /\ q.body = c.body /\ q.cookie = c.cookie /\ q.trusted = c.trusted
        /\ q.method = c.method /\ q.path = c.path /\ q.attempt = c.attempt /\ q.user = c.user /\ q.done = c.done
    BY <2>1, <2>3 DEF RtFields
  <2>5. RtCall(q)
    BY <2>1, <2>2, <2>3, <2>4 DEF RtCall
  <2> QED BY <2>1, <2>4, <2>5 DEF RtInv
<1>3. CASE UNCHANGED rtRequest
  BY <1>3 DEF RtInv, RtCall, RtDone, Rt!Justified, Rt!Mutating
<1> QED BY <1>1, <1>2, <1>3 DEF Rt!Forgets, Rt!Deploys, Rt!vars

LEMMA RtStep == RtAssumption /\ RtInv /\ [Rt!Next]_(Rt!vars) => RtInv'
BY RtArrives, RtPrivileged, RtLooksUp, RtOwnerGate, RtCalls, RtHandles, RtWorld DEF Rt!Next

LEMMA RtInit == RtAssumption /\ Rt!Init => RtInv
BY DEF Rt!Init, RtInv, Rt!Idle

LEMMA RtImplies == RtAssumption /\ RtInv => Rt!OnlyAllowed
BY DEF RtInv, RtDone, Rt!OnlyAllowed

(* Routes: what the two workers do for a request is the session's or the   *)
(* token's own, and done once, whatever environments they are deployed     *)
(* with and whoever their users and owners are.                            *)
THEOREM RtOnlyAllowed ==
    ASSUME RtAssumption
    PROVE  Rt!Spec => []Rt!OnlyAllowed
<1> QED BY RtInit, RtStep, RtImplies, PTL DEF Rt!Spec

-----------------------------------------------------------------------------
(***************************************************************************)
(* AirSea.                                                                 *)
(***************************************************************************)
Air == INSTANCE AirSea WITH
    now <- airNow, cached <- airCached, request <- airRequest,
    Requests <- AirRequests, Stale <- AirStale, Timeout <- AirTimeout,
    MaxTime <- AirMaxTime

AirAssumption == Refresh \in Nat /\ AirStale \in Nat /\ AirTimeout \in Nat /\ Refresh <= AirStale

(* A snapshot is from a time.                                              *)
TakenBy(snapshot, t) == snapshot # None => snapshot.fetchedAt \in Nat /\ snapshot.fetchedAt <= t

(* A fetch ends in time, and has before it what was cached when it began.  *)
AirFetchInv(q) ==
    q.at = "fetching" =>
        /\ q.since \in Nat /\ q.since <= airNow /\ airNow <= q.since + AirTimeout
        /\ TakenBy(q.cached, q.since)

AirAnswerInv(q) ==
    q.at = "answered" =>
        /\ TakenBy(q.snapshot, airNow)
        /\ q.snapshot # None => airNow - q.snapshot.fetchedAt <= AirStale + AirTimeout

AirInv ==
    /\ airNow \in Nat
    /\ TakenBy(airCached, airNow)
    /\ airRequest = [r \in AirRequests |-> airRequest[r]]
    /\ \A r \in AirRequests : AirFetchInv(airRequest[r]) /\ AirAnswerInv(airRequest[r])

LEMMA AirInit == AirAssumption /\ Air!Init => AirInv
<1> SUFFICES ASSUME AirAssumption, Air!Init PROVE AirInv
  OBVIOUS
<1>1. /\ airNow = 0 /\ airCached = None
      /\ airRequest = [r \in AirRequests |-> [at |-> "idle"]]
  BY DEF Air!Init, Air!Idle
<1> QED BY <1>1 DEF AirInv, TakenBy, AirFetchInv, AirAnswerInv

LEMMA AirAsks ==
    ASSUME AirAssumption, AirInv, NEW r \in AirRequests, Air!Asks(r)
    PROVE  AirInv'
<1>1. airNow' = airNow /\ airCached' = airCached
  BY DEF Air!Asks
<1>2. CASE airCached # None /\ airNow - airCached.fetchedAt <= Refresh
  <2> DEFINE q == [at |-> "answered", snapshot |-> airCached]
  <2>1. airRequest' = [airRequest EXCEPT ![r] = q]
    BY <1>2 DEF Air!Asks, Air!Answers
  <2>2. AirFetchInv(q)' /\ AirAnswerInv(q)'
    BY <1>1, <1>2 DEF AirAssumption, AirInv, TakenBy, AirFetchInv, AirAnswerInv
  <2> QED BY <1>1, <2>1, <2>2 DEF AirInv, TakenBy, AirFetchInv, AirAnswerInv
<1>3. CASE ~ (airCached # None /\ airNow - airCached.fetchedAt <= Refresh)
  <2> DEFINE q == [at |-> "fetching", cached |-> airCached, since |-> airNow]
  <2>1. airRequest' = [airRequest EXCEPT ![r] = q]
    BY <1>3 DEF Air!Asks
  <2>2. AirFetchInv(q)' /\ AirAnswerInv(q)'
    BY <1>1 DEF AirAssumption, AirInv, TakenBy, AirFetchInv, AirAnswerInv
  <2> QED BY <1>1, <2>1, <2>2 DEF AirInv, TakenBy, AirFetchInv, AirAnswerInv
<1> QED BY <1>2, <1>3

LEMMA AirFetches ==
    ASSUME AirAssumption, AirInv, NEW r \in AirRequests, Air!Fetches(r)
    PROVE  AirInv'
<1>1. PICK snapshot : /\ snapshot.fetchedAt = airNow
                      /\ airCached' \in {airCached, snapshot}
                      /\ airRequest' = [airRequest EXCEPT ![r] = [at |-> "answered", snapshot |-> snapshot]]
                      /\ airNow' = airNow
  BY DEF Air!Fetches, Air!Answers, Air!Snapshot
<1> DEFINE q == [at |-> "answered", snapshot |-> snapshot]
<1>2. TakenBy(snapshot, airNow)' /\ TakenBy(airCached, airNow)'
  BY <1>1 DEF AirInv, TakenBy
<1>3. AirFetchInv(q)' /\ AirAnswerInv(q)'
  BY <1>1, <1>2 DEF AirAssumption, AirInv, TakenBy, AirFetchInv, AirAnswerInv
<1> QED BY <1>1, <1>2, <1>3 DEF AirInv, TakenBy, AirFetchInv, AirAnswerInv

LEMMA AirFetchFails ==
    ASSUME AirAssumption, AirInv, NEW r \in AirRequests, Air!FetchFails(r)
    PROVE  AirInv'
<1>1. airRequest[r].at = "fetching" /\ airNow' = airNow /\ airCached' = airCached
  BY DEF Air!FetchFails
<1>2. PICK snapshot :
         /\ airRequest' = [airRequest EXCEPT ![r] = [at |-> "answered", snapshot |-> snapshot]]
         /\ snapshot = IF Air!StaleEnough(airRequest[r]) THEN airRequest[r].cached ELSE None
  BY DEF Air!FetchFails, Air!Answers
<1>3. TakenBy(snapshot, airNow)' /\ (snapshot # None => airNow - snapshot.fetchedAt <= AirStale + AirTimeout)
  <2>1. CASE Air!StaleEnough(airRequest[r])
    BY <1>1, <1>2, <2>1 DEF AirAssumption, AirInv, TakenBy, AirFetchInv, Air!StaleEnough
  <2>2. CASE ~ Air!StaleEnough(airRequest[r])
    BY <1>2, <2>2 DEF TakenBy
  <2> QED BY <2>1, <2>2
<1> DEFINE q == [at |-> "answered", snapshot |-> snapshot]
<1>4. AirFetchInv(q)' /\ AirAnswerInv(q)'
  BY <1>1, <1>3 DEF AirFetchInv, AirAnswerInv
<1> QED BY <1>1, <1>2, <1>4 DEF AirInv, TakenBy, AirFetchInv, AirAnswerInv

LEMMA AirTick ==
    ASSUME AirAssumption, AirInv, Air!Tick
    PROVE  AirInv'
<1>1. /\ airNow' = airNow + 1 /\ airCached' = airCached
      /\ \A r \in AirRequests : airRequest[r].at = "fetching" => airNow + 1 - airRequest[r].since <= AirTimeout
      /\ airRequest' = [r \in AirRequests |-> IF airRequest[r].at = "answered" THEN [at |-> "idle"] ELSE airRequest[r]]
  BY DEF Air!Tick, Air!Idle
<1>2. airNow' \in Nat /\ TakenBy(airCached, airNow)'
  BY <1>1 DEF AirInv, TakenBy
<1>3. ASSUME NEW r \in AirRequests
      PROVE  AirFetchInv(airRequest[r])' /\ AirAnswerInv(airRequest[r])'
  <2>1. CASE airRequest[r].at = "answered"
    BY <1>1, <2>1 DEF AirFetchInv, AirAnswerInv
  <2>2. CASE airRequest[r].at # "answered"
    BY <1>1, <2>2 DEF AirAssumption, AirInv, TakenBy, AirFetchInv, AirAnswerInv
  <2> QED BY <2>1, <2>2
<1> QED BY <1>1, <1>2, <1>3 DEF AirInv

LEMMA AirStep == AirAssumption /\ AirInv /\ [Air!Next]_(Air!vars) => AirInv'
<1> SUFFICES ASSUME AirAssumption, AirInv, [Air!Next]_(Air!vars) PROVE AirInv'
  OBVIOUS
<1>1. CASE UNCHANGED Air!vars
  BY <1>1 DEF Air!vars, AirInv, TakenBy, AirFetchInv, AirAnswerInv
<1>2. ASSUME NEW S, Air!Flies(S) PROVE AirInv'
  BY <1>2 DEF Air!Flies, AirInv, TakenBy, AirFetchInv, AirAnswerInv
<1>3. CASE Air!Expires
  BY <1>3 DEF Air!Expires, AirInv, TakenBy, AirFetchInv, AirAnswerInv
<1> QED BY <1>1, <1>2, <1>3, AirTick, AirAsks, AirFetches, AirFetchFails DEF Air!Next

LEMMA AirImplies == AirAssumption /\ AirInv => Air!FreshEnough
BY DEF AirAssumption, AirInv, AirFetchInv, AirAnswerInv, TakenBy, Air!FreshEnough, Air!Answer

(* An answer's aircraft are from no earlier than a snapshot may be kept    *)
(* for when the request begins, and the time of one fetch before now       *)
(* (resolveAirSeaAviationSnapshot).                                        *)
THEOREM AirFreshEnough ==
    ASSUME AirAssumption
    PROVE  Air!Spec => []Air!FreshEnough
BY AirInit, AirStep, AirImplies, PTL DEF Air!Spec

-----------------------------------------------------------------------------
(***************************************************************************)
(* StripeSummary.                                                          *)
(***************************************************************************)
Fig == INSTANCE StripeSummary WITH
    now <- figNow, cached <- figCached, Timeout <- FigTimeout,
    MaxTime <- FigMaxTime

FigAssumption ==
    /\ PageSize \in Nat \ {0} /\ MaxSubscriptions \in Nat /\ Ttl \in Nat /\ FigTimeout \in Nat

(* The whole pages that have been counted, and the time they took.         *)
WholePages(q, n) ==
    /\ Len(q.counted) = n * PageSize
    /\ n = 0 \/ n * PageSize < MaxSubscriptions
    /\ q.called - q.since <= n * FigTimeout

(* While there are more pages, those before were whole; each call ends in  *)
(* time.                                                                   *)
PagesInv(q) ==
    q.at = "page" =>
        /\ q = [at |-> "page", counted |-> q.counted, stale |-> q.stale, before |-> q.before,
                since |-> q.since, called |-> q.called]
        /\ q.since \in Nat /\ q.called \in Nat
        /\ q.called <= figNow /\ figNow <= q.called + FigTimeout
        /\ q.counted \in Seq(Nat \ {0})
        /\ \E n \in Nat : WholePages(q, n)

(* What was fetched is no older than all its calls may take.               *)
FetchedIn(figures, t) ==
    /\ figures.since \in Nat /\ figures.syncedAt \in Nat /\ figures.syncedAt <= t
    /\ figures.syncedAt - figures.since <= Fig!Pages * FigTimeout

KeptInv(q) ==
    /\ q.at = "keeping" => FetchedIn(q.figures, figNow) /\ q.figures.syncedAt = figNow
    /\ q.at = "answered" /\ q.live = TRUE /\ q.figures # None =>
          FetchedIn(q.figures, figNow) /\ (Ttl = 0 \/ figNow - q.figures.syncedAt <= Ttl)

FigInv ==
    /\ figNow \in Nat /\ made \in Nat
    /\ figCached # None => FetchedIn(figCached, figNow)
    /\ sync = [y \in Syncs |-> sync[y]]
    /\ \A y \in Syncs : PagesInv(sync[y]) /\ KeptInv(sync[y])

LEMMA FigInit == FigAssumption /\ Fig!Init => FigInv
<1> SUFFICES ASSUME FigAssumption, Fig!Init PROVE FigInv
  OBVIOUS
<1>1. /\ figNow = 0 /\ made \in Nat /\ figCached = None
      /\ sync = [y \in Syncs |-> [at |-> "idle"]]
  BY DEF Fig!Init, Fig!Idle
<1> QED BY <1>1 DEF FigInv, PagesInv, KeptInv

(* The largest numbers of an interval are an interval.                     *)
LEMMA LargestOf ==
    ASSUME NEW a \in Int, NEW b \in Int, NEW n \in Int
    PROVE  {s \in a..b : Cardinality({k \in a..b : k > s}) < n}
             = (IF b - n + 1 > a THEN b - n + 1 ELSE a)..b
<1> DEFINE lo == IF b - n + 1 > a THEN b - n + 1 ELSE a
<1>1. ASSUME NEW s \in a..b
      PROVE  Cardinality({k \in a..b : k > s}) = b - s
  <2>1. {k \in a..b : k > s} = s + 1..b
    OBVIOUS
  <2>2. Cardinality(s + 1..b) = IF s + 1 > b THEN 0 ELSE b - (s + 1) + 1
    BY FS_Interval
  <2>3. (IF s + 1 > b THEN 0 ELSE b - (s + 1) + 1) = b - s
    OBVIOUS
  <2> QED BY <2>1, <2>2, <2>3
<1>2. ASSUME NEW s \in a..b
      PROVE  Cardinality({k \in a..b : k > s}) < n <=> s \in lo..b
  BY <1>1
<1>3. lo..b \subseteq a..b
  OBVIOUS
<1> QED BY <1>2, <1>3

(* An interval from its largest number down.                               *)
LEMMA NewestOf ==
    ASSUME NEW a \in Int, NEW b \in Int, a <= b + 1
    PROVE  Fig!Newest(a..b) \in Seq(a..b) /\ Len(Fig!Newest(a..b)) = b - a + 1
<1> DEFINE n == b - a + 1
           f == Fig!Newest(a..b)
<1>1. n \in Nat /\ Cardinality(a..b) = n
  BY FS_Interval
<1>2. ASSUME NEW i \in 1..n
      PROVE  \E s \in a..b : Cardinality({t \in a..b : t > s}) = i - 1
  <2>1. b - i + 1 \in a..b
    BY <1>1
  <2>2. {t \in a..b : t > b - i + 1} = b - i + 2..b
    BY <1>1
  <2>3. Cardinality(b - i + 2..b) = IF b - i + 2 > b THEN 0 ELSE b - (b - i + 2) + 1
    BY FS_Interval
  <2>4. (IF b - i + 2 > b THEN 0 ELSE b - (b - i + 2) + 1) = i - 1
    OBVIOUS
  <2> QED BY <2>1, <2>2, <2>3, <2>4
<1>3. f = [i \in 1..n |-> CHOOSE s \in a..b : Cardinality({t \in a..b : t > s}) = i - 1]
  BY <1>1 DEF Fig!Newest, Fig!Cardinality, Cardinality
<1>4. f \in [1..n -> a..b]
  BY <1>2, <1>3
<1> QED BY <1>1, <1>4

(* A page that is not the last, and that the limit does not cut, is whole. *)
LEMMA FigPage ==
    ASSUME FigAssumption, made \in Nat, NEW counted \in Seq(Nat \ {0}),
           Len(counted) <= MaxSubscriptions
    PROVE  LET page == Fig!Page(counted)
               next == Fig!Counted(counted, Fig!Limited(counted, page))
           IN  /\ next \in Seq(Nat \ {0})
               /\ page # Fig!Rest(counted) /\ Len(next) < MaxSubscriptions =>
                      Len(next) = Len(counted) + PageSize
<1> DEFINE page == Fig!Page(counted)
           limited == Fig!Limited(counted, page)
           next == Fig!Counted(counted, limited)
           room == MaxSubscriptions - Len(counted)
<1>1. Len(counted) \in Nat /\ room \in Nat /\ PageSize \in Nat \ {0}
  BY LenProperties DEF FigAssumption
<1>2. PICK m \in Nat : Fig!Rest(counted) = 1..m
  <2>1. CASE counted = <<>>
    BY <2>1 DEF Fig!Rest
  <2>2. CASE counted # <<>>
    <3>1. Len(counted) \in 1..Len(counted)
      BY <2>2, <1>1, EmptySeq
    <3>2. counted[Len(counted)] \in Nat \ {0}
      BY <3>1, ElementOfSeq
    <3>3. Fig!Rest(counted) = 1..counted[Len(counted)] - 1
      BY <2>2 DEF Fig!Rest, Fig!Last
    <3> QED BY <3>2, <3>3
  <2> QED BY <2>1, <2>2
<1>a. PICK lo \in Int : lo = IF m - PageSize + 1 > 1 THEN m - PageSize + 1 ELSE 1
  <2>1. (IF m - PageSize + 1 > 1 THEN m - PageSize + 1 ELSE 1) \in Int
    BY <1>1
  <2> QED BY <2>1
<1>b. PICK low \in Int : low = IF m - room + 1 > lo THEN m - room + 1 ELSE lo
  BY <1>1
<1>3. \A S : Fig!Cardinality(S) = Cardinality(S)
  BY DEF Fig!Cardinality, Cardinality
<1>4. page = lo..m
  <2>1. page = {s \in 1..m : Cardinality({k \in 1..m : k > s}) < PageSize}
    BY <1>2, <1>3 DEF Fig!Page
  <2> QED BY <1>1, <1>a, <2>1, LargestOf
<1>5. 1 <= lo /\ 1 <= low /\ low <= m + 1
  BY <1>1, <1>a, <1>b
<1>6. limited = low..m
  <2>1. limited = {s \in lo..m : Cardinality({k \in lo..m : k > s}) < room}
    BY <1>3, <1>4 DEF Fig!Limited
  <2>2. {s \in lo..m : Cardinality({k \in lo..m : k > s}) < room}
          = (IF m - room + 1 > lo THEN m - room + 1 ELSE lo)..m
    BY <1>1, LargestOf
  <2> QED BY <1>b, <2>1, <2>2
<1>7. /\ Fig!Newest(low..m) \in Seq(Nat \ {0})
      /\ Len(Fig!Newest(low..m)) = m - low + 1
  <2>1. Fig!Newest(low..m) \in Seq(low..m) /\ Len(Fig!Newest(low..m)) = m - low + 1
    <3>1. m \in Int
      OBVIOUS
    <3> QED BY <1>5, <3>1, NewestOf, ZenonT(30)
  <2>2. low..m \subseteq Nat \ {0}
    BY <1>2, <1>5
  <2> QED BY <2>1, <2>2, SeqMonotonic
<1>8. next \in Seq(Nat \ {0}) /\ Len(next) = Len(counted) + (m - low + 1)
  <2>1. next = counted \o Fig!Newest(low..m)
    BY <1>6 DEF Fig!Counted
  <2>2. next \in Seq(Nat \ {0}) /\ Len(next) = Len(counted) + Len(Fig!Newest(low..m))
    BY <1>7, <2>1, ConcatProperties, ZenonT(30)
  <2> HIDE DEF next
  <2> QED BY <1>7, <2>2
<1>9. ASSUME page # Fig!Rest(counted), Len(next) < MaxSubscriptions
      PROVE  Len(next) = Len(counted) + PageSize
  <2>1. lo # 1
    BY <1>2, <1>4, <1>9
  <2>2. lo = m - PageSize + 1
    BY <1>a, <2>1
  <2>3. Len(counted) + (m - low + 1) < MaxSubscriptions
    BY <1>8, <1>9
  <2>4. low = lo
    <3>1. MaxSubscriptions \in Int /\ Len(counted) \in Int
      BY <1>1 DEF FigAssumption
    <3>2. low # m - room + 1
      BY <2>3, <3>1
    <3> QED BY <1>b, <3>2
  <2> HIDE DEF next
  <2>5. m - low + 1 = PageSize
    BY <1>1, <1>2, <2>2, <2>4
  <2> QED BY <1>8, <2>5
<1> QED BY <1>8, <1>9

LEMMA PagesBound ==
    ASSUME FigAssumption, NEW n \in Nat, n = 0 \/ n * PageSize < MaxSubscriptions
    PROVE  Fig!Pages \in Nat /\ n * FigTimeout + FigTimeout <= Fig!Pages * FigTimeout
<1> DEFINE d == MaxSubscriptions \div PageSize
<1>1. PageSize \in Nat /\ PageSize > 0 /\ MaxSubscriptions \in Nat /\ FigTimeout \in Nat
  BY DEF FigAssumption
<1>2. d \in Nat /\ MaxSubscriptions < d * PageSize + PageSize
  BY <1>1
<1>3. Fig!Pages = d + 1
  BY DEF Fig!Pages
<1> HIDE DEF d
<1>4. n <= d
  <2> SUFFICES ASSUME n >= d + 1 PROVE FALSE
    BY <1>2
  <2>1. n * PageSize < MaxSubscriptions
    BY <1>2
  <2>2. PICK k \in Nat : n = d + 1 + k
    <3>1. n - (d + 1) \in Nat /\ n = d + 1 + (n - (d + 1))
      BY <1>2
    <3> QED BY <3>1
  <2>3. n * PageSize = d * PageSize + PageSize + k * PageSize
    BY <1>1, <1>2, <2>2
  <2>4. k * PageSize \in Nat /\ d * PageSize \in Nat
    BY <1>1, <1>2
  <2> QED BY <1>1, <1>2, <2>1, <2>3, <2>4
<1>5. PICK k \in Nat : d = n + k
  <2>1. d - n \in Nat /\ d = n + (d - n)
    BY <1>2, <1>4
  <2> QED BY <2>1
<1>6. (d + 1) * FigTimeout = n * FigTimeout + FigTimeout + k * FigTimeout
  BY <1>1, <1>2, <1>5
<1>7. k * FigTimeout \in Nat /\ n * FigTimeout \in Nat
  BY <1>1
<1> QED BY <1>1, <1>2, <1>3, <1>6, <1>7

LEMMA PageRead ==
    ASSUME NEW q, NEW next, NEW t,
           q = [at |-> "page", counted |-> q.counted, stale |-> q.stale, before |-> q.before,
                since |-> q.since, called |-> q.called]
    PROVE  [q EXCEPT !.counted = next, !.called = t]
             = [at |-> "page", counted |-> next, stale |-> q.stale, before |-> q.before,
                since |-> q.since, called |-> t]
<1> DEFINE a == [q EXCEPT !.counted = next]
           b == [at |-> "page", counted |-> next, stale |-> q.stale, before |-> q.before,
                 since |-> q.since, called |-> q.called]
<1>1. a = b
  OBVIOUS
<1>2. [b EXCEPT !.called = t]
        = [at |-> "page", counted |-> next, stale |-> q.stale, before |-> q.before,
           since |-> q.since, called |-> t]
  OBVIOUS
<1>3. [q EXCEPT !.counted = next, !.called = t] = [a EXCEPT !.called = t]
  BY Zenon
<1> QED BY <1>1, <1>2, <1>3, Zenon

LEMMA FigReads ==
    ASSUME FigAssumption, FigInv, NEW y \in Syncs, Fig!Reads(y)
    PROVE  FigInv'
<1> DEFINE q == sync[y]
           page == Fig!Page(q.counted)
           next == Fig!Counted(q.counted, Fig!Limited(q.counted, page))
           more == page # Fig!Rest(q.counted) /\ Len(next) < MaxSubscriptions
<1>1. /\ q.at = "page" /\ figNow' = figNow /\ made' = made /\ figCached' = figCached
      /\ more => sync' = [sync EXCEPT ![y] = [q EXCEPT !.counted = next, !.called = figNow]]
      /\ ~ more => sync' = [sync EXCEPT ![y] = [at |-> "keeping", figures |-> Fig!Figures(y, next)]]
  BY DEF Fig!Reads
<1>2. /\ q.since \in Nat /\ q.called \in Nat /\ figNow \in Nat /\ made \in Nat
      /\ q.called <= figNow /\ figNow <= q.called + FigTimeout
      /\ q.counted \in Seq(Nat \ {0})
      /\ q = [at |-> "page", counted |-> q.counted, stale |-> q.stale, before |-> q.before,
              since |-> q.since, called |-> q.called]
  <2>1. PagesInv(q) /\ figNow \in Nat /\ made \in Nat
    BY DEF FigInv
  <2> QED BY <1>1, <2>1 DEF PagesInv
<1>3. PICK n \in Nat : WholePages(q, n)
  BY <1>1 DEF FigInv, PagesInv
<1>4. /\ PageSize \in Nat \ {0} /\ MaxSubscriptions \in Nat /\ FigTimeout \in Nat
      /\ n * PageSize \in Nat /\ n * FigTimeout \in Nat
  BY DEF FigAssumption
<1>5. Len(q.counted) <= MaxSubscriptions
  BY <1>3, <1>4 DEF WholePages
<1>6. /\ next \in Seq(Nat \ {0})
      /\ more => Len(next) = Len(q.counted) + PageSize
  BY <1>2, <1>5, FigPage
<1>7. /\ figNow' \in Nat /\ made' \in Nat /\ (figCached # None => FetchedIn(figCached, figNow))'
      /\ \A x \in Syncs : (PagesInv(sync[x]) /\ KeptInv(sync[x])) /\ figNow' = figNow
  BY <1>1 DEF FigInv, FetchedIn
<1>8. CASE more
  <2>0. PICK paged : paged = [at |-> "page", counted |-> next, stale |-> q.stale,
                              before |-> q.before, since |-> q.since, called |-> figNow]
    OBVIOUS
  <2>1. sync' = [sync EXCEPT ![y] = paged]
    <3> HIDE DEF next, q
    <3>1. [q EXCEPT !.counted = next, !.called = figNow] = paged
      BY <1>2, <2>0, PageRead
    <3> QED BY <1>1, <1>8, <3>1 DEF q
  <2>2. WholePages(paged, n + 1)
    <3>1. Len(next) = n * PageSize + PageSize /\ Len(next) < MaxSubscriptions
      BY <1>3, <1>6, <1>8 DEF WholePages
    <3>2. (n + 1) * PageSize = n * PageSize + PageSize /\ (n + 1) * FigTimeout = n * FigTimeout + FigTimeout
      BY <1>4
    <3>3. figNow - q.since <= n * FigTimeout + FigTimeout
      BY <1>2, <1>3, <1>4 DEF WholePages
    <3> HIDE DEF next
    <3> QED BY <2>0, <3>1, <3>2, <3>3 DEF WholePages
  <2> HIDE DEF next
  <2>3. PagesInv(paged)' /\ KeptInv(paged)'
    <3>1. n + 1 \in Nat /\ WholePages(paged, n + 1)'
      BY <2>2 DEF WholePages
    <3>2. /\ paged.since \in Nat /\ paged.called \in Nat /\ paged.counted \in Seq(Nat \ {0})
          /\ paged.called = figNow'
          /\ paged = [at |-> "page", counted |-> paged.counted, stale |-> paged.stale,
                      before |-> paged.before, since |-> paged.since, called |-> paged.called]
      BY <1>1, <1>2, <1>6, <2>0
    <3>3. paged.called <= figNow' /\ figNow' <= paged.called + FigTimeout
      BY <1>1, <1>2, <1>4, <3>2
    <3>4. PagesInv(paged)'
      BY <3>1, <3>2, <3>3 DEF PagesInv
    <3>5. paged.at = "page"
      BY <2>0
    <3> QED BY <3>4, <3>5 DEF KeptInv
  <2> QED BY <1>1, <1>7, <2>1, <2>3 DEF FigInv, PagesInv, KeptInv, FetchedIn
<1>9. CASE ~ more
  <2>1. PICK figures : /\ figures.since = q.since /\ figures.syncedAt = figNow
                       /\ sync' = [sync EXCEPT ![y] = [at |-> "keeping", figures |-> figures]]
    BY <1>1, <1>9 DEF Fig!Figures
  <2> DEFINE kept == [at |-> "keeping", figures |-> figures]
  <2> HIDE DEF next, page
  <2>2. FetchedIn(figures, figNow)
    <3>1. Fig!Pages \in Nat /\ n * FigTimeout + FigTimeout <= Fig!Pages * FigTimeout
      BY <1>3, PagesBound DEF WholePages
    <3>2. figNow - q.since <= n * FigTimeout + FigTimeout
      BY <1>2, <1>3, <1>4 DEF WholePages
    <3>3. Fig!Pages * FigTimeout \in Nat
      BY <1>4, <3>1
    <3>4. figNow - q.since <= Fig!Pages * FigTimeout
      <4>1. n * FigTimeout \in Int /\ FigTimeout \in Int /\ figNow - q.since \in Int
        BY <1>2, <1>4
      <4> QED BY <3>1, <3>2, <3>3, <4>1
    <3> QED BY <1>2, <2>1, <3>4 DEF FetchedIn
  <2>3. PagesInv(kept)' /\ KeptInv(kept)'
    BY <1>1, <2>1, <2>2 DEF PagesInv, KeptInv, FetchedIn
  <2> QED BY <1>1, <1>7, <2>1, <2>3 DEF FigInv, PagesInv, KeptInv, FetchedIn
<1> QED BY <1>8, <1>9

LEMMA FigAnswers ==
    ASSUME FigAssumption, FigInv, NEW y \in Syncs, NEW live, NEW figures, Fig!Answers(y, live, figures),
           live = TRUE /\ figures # None =>
               FetchedIn(figures, figNow) /\ (Ttl = 0 \/ figNow - figures.syncedAt <= Ttl),
           figNow' = figNow, made' = made, figCached' = figCached \/ FetchedIn(figCached', figNow)
    PROVE  FigInv'
<1> DEFINE q == [at |-> "answered", live |-> live, figures |-> figures]
<1>1. sync' = [sync EXCEPT ![y] = q]
  BY DEF Fig!Answers
<1>2. (figCached # None => FetchedIn(figCached, figNow))'
  BY DEF FigInv, FetchedIn
<1>3. PagesInv(q)' /\ KeptInv(q)'
  BY DEF PagesInv, KeptInv, FetchedIn
<1> QED BY <1>1, <1>2, <1>3 DEF FigInv, PagesInv, KeptInv, FetchedIn

LEMMA FigSyncing ==
    ASSUME FigAssumption, FigInv, NEW y \in Syncs, NEW stale,
           sync' = [sync EXCEPT ![y] = Fig!Syncing(stale)], UNCHANGED <<figNow, made, figCached>>
    PROVE  FigInv'
<1>1. PICK q : q = [at |-> "page", counted |-> <<>>, stale |-> stale, before |-> made,
                    since |-> figNow, called |-> figNow]
  OBVIOUS
<1>2. sync' = [sync EXCEPT ![y] = q]
  BY <1>1 DEF Fig!Syncing
<1>3. WholePages(q, 0)'
  BY <1>1 DEF WholePages, FigAssumption, FigInv
<1>4. PagesInv(q)' /\ KeptInv(q)'
  <2>1. /\ q.since \in Nat /\ q.called \in Nat /\ q.called = figNow' /\ figNow' <= q.called + FigTimeout
        /\ q.counted \in Seq(Nat \ {0}) /\ q.at = "page"
        /\ q = [at |-> "page", counted |-> q.counted, stale |-> q.stale, before |-> q.before,
                since |-> q.since, called |-> q.called]
    BY <1>1 DEF FigInv, FigAssumption
  <2> QED BY <1>3, <2>1 DEF PagesInv, KeptInv
<1> QED BY <1>2, <1>4 DEF FigInv, PagesInv, KeptInv, FetchedIn

LEMMA FigAsks ==
    ASSUME FigAssumption, FigInv, NEW y \in Syncs, Fig!Asks(y)
    PROVE  FigInv'
<1>1. CASE figCached # None /\ Fig!NewEnough(figCached)
  <2>1. Fig!Answers(y, TRUE, figCached) /\ UNCHANGED <<figNow, made, figCached>>
    BY <1>1 DEF Fig!Asks
  <2>2. FetchedIn(figCached, figNow) /\ (Ttl = 0 \/ figNow - figCached.syncedAt <= Ttl)
    BY <1>1 DEF FigInv, Fig!NewEnough
  <2> QED BY <2>1, <2>2, FigAnswers
<1>2. CASE ~ (figCached # None /\ Fig!NewEnough(figCached))
  <2>1. sync' = [sync EXCEPT ![y] = Fig!Syncing(figCached)] /\ UNCHANGED <<figNow, made, figCached>>
    BY <1>2 DEF Fig!Asks
  <2> QED BY <2>1, FigSyncing
<1> QED BY <1>1, <1>2

LEMMA FigKeeps ==
    ASSUME FigAssumption, FigInv, NEW y \in Syncs, Fig!Keeps(y)
    PROVE  FigInv'
<1>1. /\ sync[y].at = "keeping" /\ figCached' = sync[y].figures /\ figNow' = figNow /\ made' = made
      /\ Fig!Answers(y, TRUE, sync[y].figures)
  BY DEF Fig!Keeps
<1>2. FetchedIn(sync[y].figures, figNow) /\ sync[y].figures.syncedAt = figNow
  BY <1>1 DEF FigInv, KeptInv
<1>3. figNow - sync[y].figures.syncedAt <= Ttl
  BY <1>2 DEF FigInv, FigAssumption
<1> QED BY <1>1, <1>2, <1>3, FigAnswers

LEMMA FigFails ==
    ASSUME FigAssumption, FigInv, NEW y \in Syncs, Fig!Fails(y)
    PROVE  FigInv'
<1>1. Fig!Answers(y, FALSE, sync[y].stale) /\ UNCHANGED <<figNow, made, figCached>>
  BY DEF Fig!Fails
<1> QED BY <1>1, FigAnswers

LEMMA FigTick ==
    ASSUME FigAssumption, FigInv, Fig!Tick
    PROVE  FigInv'
<1>1. /\ figNow' = figNow + 1 /\ made' = made /\ figCached' = figCached
      /\ \A y \in Syncs : sync[y].at = "page" => figNow < sync[y].called + FigTimeout
      /\ \A y \in Syncs : sync[y].at # "keeping"
      /\ sync' = [y \in Syncs |-> IF sync[y].at = "answered" THEN [at |-> "idle"] ELSE sync[y]]
  BY DEF Fig!Tick, Fig!Idle
<1>2. figNow' \in Nat /\ made' \in Nat /\ (figCached # None => FetchedIn(figCached, figNow))'
  BY <1>1 DEF FigInv, FetchedIn
<1>3. ASSUME NEW y \in Syncs
      PROVE  PagesInv(sync[y])' /\ KeptInv(sync[y])'
  <2>1. CASE sync[y].at = "answered"
    BY <1>1, <2>1 DEF PagesInv, KeptInv
  <2>2. CASE sync[y].at # "answered"
    <3>1. sync'[y] = sync[y]
      BY <1>1, <2>2
    <3>2. KeptInv(sync[y])'
      BY <1>1, <2>2, <3>1 DEF KeptInv
    <3>3. ASSUME sync[y].at = "page" PROVE PagesInv(sync[y])'
      <4>1. PagesInv(sync[y]) /\ figNow \in Nat
        BY DEF FigInv
      <4>2. sync[y].called <= figNow' /\ figNow' <= sync[y].called + FigTimeout
        BY <1>1, <3>3, <4>1 DEF PagesInv, FigAssumption
      <4> QED BY <3>1, <3>3, <4>1, <4>2 DEF PagesInv, WholePages
    <3> QED BY <3>1, <3>2, <3>3 DEF PagesInv
  <2> QED BY <2>1, <2>2
<1> QED BY <1>1, <1>2, <1>3 DEF FigInv

LEMMA FigStep == FigAssumption /\ FigInv /\ [Fig!Next]_(Fig!vars) => FigInv'
<1> SUFFICES ASSUME FigAssumption, FigInv, [Fig!Next]_(Fig!vars) PROVE FigInv'
  OBVIOUS
<1>1. CASE UNCHANGED Fig!vars
  BY <1>1 DEF Fig!vars, FigInv, PagesInv, KeptInv, FetchedIn, WholePages
<1>2. CASE Fig!Subscribes
  BY <1>2 DEF Fig!Subscribes, FigInv, PagesInv, KeptInv, FetchedIn, WholePages
<1>3. CASE Fig!Deletes
  BY <1>3 DEF Fig!Deletes, FigInv, PagesInv, KeptInv, FetchedIn, WholePages
<1>4. ASSUME NEW y \in Syncs, Fig!Warms(y) PROVE FigInv'
  BY <1>4, FigSyncing DEF Fig!Warms
<1> QED BY <1>1, <1>2, <1>3, <1>4, FigTick, FigAsks, FigReads, FigKeeps, FigFails DEF Fig!Next

LEMMA FigImplies == FigAssumption /\ FigInv => Fig!FreshEnough
<1> SUFFICES ASSUME FigAssumption, FigInv, NEW y \in Syncs, sync[y].at = "answered",
                    sync[y].live, sync[y].figures # None, Ttl > 0
             PROVE  figNow - sync[y].figures.since <= Ttl + Fig!Pages * FigTimeout
  BY DEF Fig!FreshEnough, Fig!Answer
<1>1. FetchedIn(sync[y].figures, figNow) /\ figNow - sync[y].figures.syncedAt <= Ttl
  BY DEF FigInv, KeptInv
<1>2. Fig!Pages * FigTimeout \in Nat
  BY PagesBound DEF FigAssumption
<1> QED BY <1>1, <1>2 DEF FetchedIn, FigInv, FigAssumption

(* The figures given as live are no older than the time they may live, if  *)
(* there is one, and the calls that fetched them, one for each page the    *)
(* limit allows (resolveStripeCrmSummary, fetchStripeLiveCrmSummary).      *)
THEOREM FigFreshEnough ==
    ASSUME FigAssumption
    PROVE  Fig!Spec => []Fig!FreshEnough
BY FigInit, FigStep, FigImplies, PTL DEF Fig!Spec
=============================================================================
