------------------------ MODULE TelegramStateProofs -------------------------
(***************************************************************************)
(* Proofs about the Durable Object that keeps the Telegram state, for all  *)
(* channels, messages, jobs and sizes and every bound.                     *)
(*                                                                         *)
(* TypeInv says what a job has at each place, and that every copy of the   *)
(* state holds posted messages, each in its channel and no more than are   *)
(* kept.  ScrapeInv ties the flag to the one scrape.  Honest is what holds *)
(* until a job writes over another's work: what is current (what is shown, *)
(* or what a job between its two saves is about to show), together with    *)
(* what jobs have recorded and are yet to save, makes the newest of all    *)
(* messages ever recorded; and what a job has loaded is what is shown but  *)
(* for the channels it has missed.                                         *)
(*                                                                         *)
(* The argument rests on one fact about Newest (NewestOfKept): the newest  *)
(* of what was kept and of more are the newest of all.                     *)
(***************************************************************************)
EXTENDS TelegramState, FiniteSetTheorems, TLAPS

-----------------------------------------------------------------------------
(* A copy of the state: messages that Telegram has, each in its channel,   *)
(* and no more of a channel than are kept.                                 *)
Trim(s) ==
    /\ s \in Contents
    /\ \A c \in Channels : s[c] \subseteq posted \cap In(c) /\ Newest(s[c], Keep) = s[c]

Places == {"idle", "first", "select", "fetch", "record", "last", "save", "mirror"}

(* What a job has at each place.                                           *)
Shape(r) ==
    /\ r \in [kind : {"none", "look", "scrape", "apply"}, pc : Places, scope : SUBSET Channels,
              news : SUBSET posted, prev : Contents \cup {None}, out : Contents \cup {None},
              missed : SUBSET Channels, late : SUBSET Channels]
    /\ r.prev # None => Trim(r.prev)
    /\ r.out # None => Trim(r.out)
    /\ r.kind = "none" => r.pc = "idle"
    /\ r.pc = "idle" => r = Idle
    /\ r.kind = "look" => r.pc = "first"
    /\ r.kind = "scrape" /\ r.pc \in {"first", "select", "fetch"} => r.news = {}
    /\ r.kind = "apply" => r.pc \notin {"select", "fetch"} /\ r.scope \subseteq Configured
    /\ r.pc \in {"save", "mirror"} => r.out # None
    /\ \A m \in r.news : Home[m] \in r.scope

TypeInv ==
    /\ posted \subseteq Messages /\ IsFiniteSet(posted)
    /\ local # None => Trim(local)
    /\ kv # None => Trim(kv)
    /\ seen \subseteq known /\ known \subseteq posted
    /\ mtproto \subseteq Configured
    /\ isRunning \in BOOLEAN /\ lossy \in BOOLEAN
    /\ batches \in 0..MaxBatches /\ faults \in 0..MaxFaults
    /\ DOMAIN job = Jobs /\ \A j \in Jobs : Shape(job[j])

(* A scrape runs exactly while the flag is set.                            *)
Scrapes(j) == job[j].kind = "scrape"

ScrapeInv ==
    /\ \A j, k \in Jobs : Scrapes(j) /\ Scrapes(k) => j = k
    /\ isRunning <=> \E j \in Jobs : Scrapes(j)

(* What readers will see once a job that is between its two saves is done. *)
Current ==
    IF \E j \in Jobs : Between(j) THEN {job[j].out : j \in {k \in Jobs : Between(k)}}
    ELSE {Shown(local, kv)}

(* What job r has recorded as seen and is yet to save, and all of channel  *)
(* c that jobs have so.                                                    *)
Pending(r) == IF r.pc \in {"last", "save"} THEN r.news ELSE {}

Unsaved(c) == {m \in In(c) : \E j \in Jobs : m \in Pending(job[j])}

(* The places before the last load is made use of.                         *)
Early == {"first", "select", "fetch", "record", "last"}

(* What job r loaded is what is shown but for the channels it has missed,  *)
(* and so is what it will save, its own channels aside.  When its last     *)
(* load came between the two saves of another job, it may keep a channel   *)
(* nothing was shown of at that moment.                                    *)
Behind(r, shown, current) ==
    /\ r.pc \in Early => \A c \in Channels \ r.missed : Prior(r.prev)[c] = shown[c]
    /\ r.pc = "last" => \A c \in Channels \ r.late : Prior(r.out)[c] = shown[c]
    /\ r.pc = "save" =>
          /\ \A c \in r.scope \ r.missed :
                r.out[c] = Newest((r.news \cap In(c)) \cup shown[c], Keep)
          /\ \A c \in Channels \ (r.scope \cup r.late) :
                \/ r.out[c] = shown[c]
                \/ shown[c] = {} /\ \A s \in current : s[c] # {}
    /\ r.pc = "mirror" /\ Fits(r.out) => \A c \in Channels \ r.late : r.out[c] = shown[c]

(* No channel that has messages in the copy s loses them all.              *)
Lasts(s, current) == \A t \in current : \A c \in Channels : Prior(s)[c] # {} => t[c] # {}

(* While no job wrote over another's work: at most one job is between its  *)
(* two saves, and what is current, with what is yet to be saved, makes the *)
(* newest of all messages ever recorded.                                   *)
Honest ==
    /\ \A j, k \in Jobs : Between(j) /\ Between(k) => j = k
    /\ \A j \in Jobs : Between(j) => local = None
    /\ \A j \in Jobs : Behind(job[j], Shown(local, kv), Current)
    /\ \A s \in Current : \A c \in Channels :
          Newest(known \cap In(c), Keep) = Newest(s[c] \cup Unsaved(c), Keep)
    /\ Lasts(kv, Current)
    /\ \A j \in Jobs : job[j].pc \in Early => Lasts(job[j].prev, Current)

HonestInv == ~ lossy => Honest

-----------------------------------------------------------------------------
(* The newest messages of a set.                                           *)

(* Of two messages of a set the newer one has fewer that are newer still.  *)
LEMMA NewerRanksBelow ==
    ASSUME NEW S, IsFiniteSet(S), S \subseteq Int, NEW m \in S, NEW k \in S, m < k
    PROVE  /\ Cardinality({x \in S : x > k}) \in Nat
           /\ Cardinality({x \in S : x > m}) \in Nat
           /\ Cardinality({x \in S : x > k}) < Cardinality({x \in S : x > m})
<1> DEFINE above(y) == {x \in S : x > y}
<1>1. IsFiniteSet(above(m)) /\ IsFiniteSet(above(k))
  BY FS_Subset
<1>2. above(k) \subseteq above(m)
  <2>1. \A x \in S : x \in Int
    OBVIOUS
  <2>2. \A x \in S : x > k => x > m
    BY <2>1
  <2> QED
    BY <2>2
<1>3. k \in above(m) /\ k \notin above(k)
  BY SMT
<1>4. Cardinality(above(k)) <= Cardinality(above(m))
  BY <1>1, <1>2, FS_Subset
<1>5. Cardinality(above(k)) # Cardinality(above(m))
  BY <1>1, <1>2, <1>3, FS_Subset
<1>6. Cardinality(above(k)) \in Nat /\ Cardinality(above(m)) \in Nat
  BY <1>1, FS_CardinalityType
<1> HIDE DEF above
<1>7. Cardinality(above(k)) < Cardinality(above(m))
  BY <1>4, <1>5, <1>6, SMT
<1> QED
  BY <1>6, <1>7 DEF above

(* Every message of a finite set has a rank below the set's size.          *)
LEMMA RankOf ==
    ASSUME NEW S, IsFiniteSet(S), S \subseteq Int
    PROVE  /\ Cardinality(S) \in Nat
           /\ [m \in S |-> Cardinality({x \in S : x > m})] \in Injection(S, 0..Cardinality(S) - 1)
<1> DEFINE rank == [m \in S |-> Cardinality({x \in S : x > m})]
<1>1. Cardinality(S) \in Nat
  BY FS_CardinalityType
<1>2. \A m \in S : rank[m] \in 0..Cardinality(S) - 1
  <2> SUFFICES ASSUME NEW m \in S
               PROVE  rank[m] \in 0..Cardinality(S) - 1
    OBVIOUS
  <2>1. {x \in S : x > m} \subseteq S \ {m}
    BY SMT
  <2>2. IsFiniteSet(S \ {m}) /\ Cardinality(S \ {m}) = Cardinality(S) - 1
    BY FS_RemoveElement
  <2>3. /\ Cardinality({x \in S : x > m}) <= Cardinality(S) - 1
        /\ IsFiniteSet({x \in S : x > m})
    BY <2>1, <2>2, FS_Subset
  <2>4. Cardinality({x \in S : x > m}) \in Nat
    BY <2>3, FS_CardinalityType
  <2> QED
    BY <2>3, <2>4, <1>1
<1>3. \A m, k \in S : rank[m] = rank[k] => m = k
  <2> SUFFICES ASSUME NEW m \in S, NEW k \in S, m # k
               PROVE  rank[m] # rank[k]
    OBVIOUS
  <2>1. CASE m < k
    <3>1. /\ Cardinality({x \in S : x > k}) < Cardinality({x \in S : x > m})
          /\ Cardinality({x \in S : x > k}) \in Nat
      BY <2>1, NewerRanksBelow
    <3> QED
      BY <3>1
  <2>2. CASE k < m
    <3>1. /\ Cardinality({x \in S : x > m}) < Cardinality({x \in S : x > k})
          /\ Cardinality({x \in S : x > m}) \in Nat
      BY <2>2, NewerRanksBelow
    <3> QED
      BY <3>1
  <2>3. m \in Int /\ k \in Int
    OBVIOUS
  <2> QED
    BY <2>1, <2>2, <2>3
<1> HIDE DEF rank
<1>4. rank \in Injection(S, 0..Cardinality(S) - 1)
  <2>1. rank = [m \in S |-> rank[m]]
    BY DEF rank
  <2> QED
    BY <1>2, <1>3, <2>1 DEF Injection, IsInjective
<1> QED
  BY <1>1, <1>4 DEF rank

(* There are at most n newest messages.                                    *)
LEMMA NewestBounded ==
    ASSUME NEW S, IsFiniteSet(S), S \subseteq Int, NEW n \in Nat
    PROVE  /\ Newest(S, n) \subseteq S
           /\ IsFiniteSet(Newest(S, n))
           /\ Cardinality(Newest(S, n)) <= n
<1> DEFINE T == Newest(S, n)
           rank == [m \in S |-> Cardinality({x \in S : x > m})]
           f == [m \in T |-> rank[m]]
<1>1. T \subseteq S
  BY DEF Newest
<1>2. IsFiniteSet(T)
  BY <1>1, FS_Subset
<1>3. rank \in Injection(S, 0..Cardinality(S) - 1) /\ Cardinality(S) \in Nat
  BY RankOf
<1>4. \A m \in T : rank[m] < n
  BY <1>1 DEF Newest
<1>5. \A m \in S : rank[m] \in Nat
  <2>1. rank \in [S -> 0..Cardinality(S) - 1]
    BY <1>3 DEF Injection
  <2> HIDE DEF rank
  <2> QED
    BY <1>3, <2>1, SMT
<1>6. \A m, k \in S : rank[m] = rank[k] => m = k
  BY <1>3 DEF Injection, IsInjective
<1> HIDE DEF T, rank
<1>7. f \in Injection(T, 0..n - 1)
  <2>1. \A m \in T : f[m] \in 0..n - 1
    BY <1>1, <1>4, <1>5
  <2> QED
    BY <1>1, <1>6, <2>1 DEF Injection, IsInjective
<1>8. IsFiniteSet(0..n - 1) /\ Cardinality(0..n - 1) = n
  BY FS_Interval, SMT
<1>9. Cardinality(T) <= n
  BY <1>7, <1>8, FS_Injection
<1> QED
  BY <1>1, <1>2, <1>9 DEF T

(* When a message is not among the n newest, n of these are newer.         *)
LEMMA NewestFull ==
    ASSUME NEW S, IsFiniteSet(S), S \subseteq Int, NEW n \in Nat, NEW m \in S \ Newest(S, n)
    PROVE  /\ \A k \in Newest(S, n) : k > m
           /\ Cardinality(Newest(S, n)) >= n
<1> DEFINE T == Newest(S, n)
           rank == [x \in S |-> Cardinality({y \in S : y > x})]
           f == [i \in 0..n - 1 |-> CHOOSE x \in S : rank[x] = i]
<1>1. /\ T \subseteq S /\ IsFiniteSet(T)
      /\ T = {x \in S : rank[x] < n}
  BY NewestBounded DEF Newest
<1>2. rank \in Injection(S, 0..Cardinality(S) - 1) /\ Cardinality(S) \in Nat
  BY RankOf
<1>3. \A x \in S : rank[x] \in 0..Cardinality(S) - 1
  <2>1. rank \in [S -> 0..Cardinality(S) - 1]
    BY <1>2 DEF Injection
  <2> HIDE DEF rank
  <2> QED
    BY <2>1
<1>4. rank[m] >= n /\ m \in S
  BY <1>1, <1>2, <1>3
<1>5. \A x \in S : m < x => rank[x] < rank[m]
  BY <1>4, NewerRanksBelow
<1>6. \A x \in S : x < m => rank[m] < rank[x]
  BY <1>4, NewerRanksBelow
<1>7. rank \in Surjection(S, 0..Cardinality(S) - 1)
  <2>1. /\ IsFiniteSet(0..Cardinality(S) - 1)
        /\ Cardinality(0..Cardinality(S) - 1) = Cardinality(S)
    BY <1>2, FS_Interval, SMT
  <2> QED
    BY <1>2, <2>1, FS_Injection
<1> HIDE DEF T, rank
<1>8. \A i \in 0..n - 1 : \E x \in S : rank[x] = i
  <2>1. \A i \in 0..n - 1 : i \in 0..Cardinality(S) - 1
    BY <1>2, <1>3, <1>4
  <2> QED
    BY <1>7, <2>1 DEF Surjection
<1>9. \A i \in 0..n - 1 : f[i] \in T /\ rank[f[i]] = i
  BY <1>1, <1>8
<1> HIDE DEF f
<1>10. f \in Injection(0..n - 1, T)
  <2>1. f \in [0..n - 1 -> T]
    BY <1>9 DEF f
  <2> QED
    BY <1>9, <2>1 DEF Injection, IsInjective
<1>11. Cardinality(0..n - 1) = n
  BY FS_Interval, SMT
<1>12. n <= Cardinality(T)
  BY <1>1, <1>10, <1>11, FS_Injection
<1>13. Cardinality(T) \in Nat
  BY <1>1, FS_CardinalityType
<1>14. \A k \in T : k > m
  <2> SUFFICES ASSUME NEW k \in T
               PROVE  k > m
    OBVIOUS
  <2>1. k \in S /\ rank[k] < n /\ rank[k] \in Int /\ rank[m] \in Int /\ k \in Int /\ m \in Int
    BY <1>1, <1>3, <1>4, <1>2
  <2> QED
    BY <2>1, <1>4, <1>6, SMT
<1> QED
  BY <1>12, <1>13, <1>14 DEF T

(* A set with a message has a newest one.                                  *)
LEMMA NewestNonempty ==
    ASSUME NEW S, IsFiniteSet(S), S \subseteq Int, S # {}, NEW n \in Nat \ {0}
    PROVE  Newest(S, n) # {}
<1> SUFFICES ASSUME Newest(S, n) = {}
             PROVE  FALSE
  OBVIOUS
<1>1. PICK m \in S \ Newest(S, n) : TRUE
  OBVIOUS
<1>2. Cardinality(Newest(S, n)) >= n
  BY <1>1, NewestFull
<1> QED
  BY <1>2, FS_EmptySet

(* To keep the newest of what was kept and of more is to keep the newest   *)
(* of all: what was dropped before is not missed.                          *)
LEMMA NewestOfKept ==
    ASSUME NEW K, IsFiniteSet(K), K \subseteq Int,
           NEW N, IsFiniteSet(N), N \subseteq Int, NEW n \in Nat
    PROVE  Newest(N \cup Newest(K, n), n) = Newest(N \cup K, n)
<1> DEFINE L == N \cup Newest(K, n)
           R == N \cup K
           rank(S, m) == Cardinality({x \in S : x > m})
<1>1. /\ Newest(K, n) \subseteq K /\ L \subseteq R /\ L \subseteq Int /\ R \subseteq Int
      /\ IsFiniteSet(R) /\ IsFiniteSet(L)
  BY FS_Union, FS_Subset, NewestBounded
<1>2. \A S, T, m : T \subseteq S /\ S \subseteq R
                       => /\ rank(S, m) \in Nat /\ rank(T, m) \in Nat
                          /\ rank(T, m) <= rank(S, m)
  <2> SUFFICES ASSUME NEW S, NEW T, NEW m, T \subseteq S, S \subseteq R
               PROVE  rank(S, m) \in Nat /\ rank(T, m) \in Nat /\ rank(T, m) <= rank(S, m)
    OBVIOUS
  <2>1. {x \in S : x > m} \subseteq R /\ {x \in T : x > m} \subseteq {x \in S : x > m}
    OBVIOUS
  <2>2. IsFiniteSet({x \in S : x > m})
    BY <1>1, <2>1, FS_Subset
  <2> QED
    BY <2>1, <2>2, FS_Subset, FS_CardinalityType
<1>3. ASSUME NEW m \in Newest(R, n)
      PROVE  m \in Newest(L, n)
  <2>1. m \in R /\ rank(R, m) < n
    BY DEF Newest
  <2>2. /\ rank(R, m) \in Nat
        /\ rank(L, m) \in Nat /\ rank(L, m) <= rank(R, m)
        /\ rank(K, m) \in Nat /\ rank(K, m) <= rank(R, m)
    BY <1>1, <1>2
  <2>3. rank(L, m) < n /\ (m \in K => rank(K, m) < n)
    BY <2>1, <2>2
  <2> QED
    BY <2>1, <2>3 DEF Newest
<1>4. ASSUME NEW m \in Newest(L, n)
      PROVE  m \in Newest(R, n)
  <2>1. m \in L /\ rank(L, m) < n
    BY DEF Newest
  <2>2. CASE \E k \in K \ Newest(K, n) : k > m
    <3>1. PICK k \in K \ Newest(K, n) : k > m
      BY <2>2
    <3>2. (\A x \in Newest(K, n) : x > k) /\ Cardinality(Newest(K, n)) >= n
      BY NewestFull
    <3>3. Newest(K, n) \subseteq {x \in L : x > m}
      BY <1>1, <2>1, <3>1, <3>2
    <3>4. IsFiniteSet({x \in L : x > m})
      BY <1>1, FS_Subset
    <3>5. Cardinality(Newest(K, n)) <= rank(L, m)
      BY <3>3, <3>4, FS_Subset
    <3>6. Cardinality(Newest(K, n)) \in Nat /\ rank(L, m) \in Nat
      BY <3>3, <3>4, FS_Subset, FS_CardinalityType
    <3> QED
      BY <2>1, <3>2, <3>5, <3>6
  <2>3. CASE \A k \in K \ Newest(K, n) : ~ k > m
    <3>1. {x \in R : x > m} = {x \in L : x > m}
      BY <1>1, <2>3
    <3> QED
      BY <1>1, <2>1, <3>1 DEF Newest
  <2> QED
    BY <2>2, <2>3
<1> QED
  BY <1>3, <1>4

(* What was trimmed once stays as it is.                                   *)
LEMMA NewestTwice ==
    ASSUME NEW S, IsFiniteSet(S), S \subseteq Int, NEW n \in Nat
    PROVE  Newest(Newest(S, n), n) = Newest(S, n)
<1>1. Newest({} \cup Newest(S, n), n) = Newest({} \cup S, n)
  BY NewestOfKept, FS_EmptySet
<1> QED
  BY <1>1
-----------------------------------------------------------------------------
(* Types: what a step makes of the copies and of the jobs.                 *)

LEMMA Assumed ==
    /\ Keep \in Nat \ {0} /\ PageSize \in Nat \ {0}
    /\ Messages \subseteq Int /\ Configured \subseteq Channels
    /\ None \notin Contents
    /\ Home \in [Messages -> Channels]
    /\ MaxFaults \in Nat /\ MaxBatches \in Nat
  BY TelegramAssumption DEF Contents

(* No copy reads as a copy without messages.                               *)
LEMMA EmptyIsTrim == Trim(Prior(None))
<1>1. Prior(None) = [c \in Channels |-> {}]
  BY DEF Prior
<1>2. Newest({}, Keep) = {}
  BY DEF Newest
<1> QED
  BY <1>1, <1>2 DEF Trim, Contents

LEMMA PriorIsTrim ==
    ASSUME NEW s, s # None => Trim(s)
    PROVE  Trim(Prior(s))
  BY EmptyIsTrim DEF Prior

LEMMA ShownIsTrim ==
    ASSUME TypeInv
    PROVE  Trim(Shown(local, kv))
<1>1. (local # None => Trim(local)) /\ (kv # None => Trim(kv))
  BY DEF TypeInv
<1> QED
  BY <1>1, PriorIsTrim DEF Shown

(* What a channel has in a copy is a finite set of numbers.                *)
LEMMA TrimIsFinite ==
    ASSUME TypeInv, NEW s, Trim(s), NEW c \in Channels
    PROVE  IsFiniteSet(s[c]) /\ s[c] \subseteq Int
<1>1. s[c] \subseteq posted /\ IsFiniteSet(posted) /\ posted \subseteq Int
  BY Assumed DEF TypeInv, Trim
<1> QED
  BY <1>1, FS_Subset

(* So is what a set of posted messages has of it.                          *)
LEMMA NewsIsFinite ==
    ASSUME TypeInv, NEW N, N \subseteq posted, NEW c
    PROVE  IsFiniteSet(N \cap In(c)) /\ N \cap In(c) \subseteq Int
<1>1. N \cap In(c) \subseteq posted /\ IsFiniteSet(posted) /\ posted \subseteq Int
  BY Assumed DEF TypeInv
<1> QED
  BY <1>1, FS_Subset

(* The state a job saves is trimmed.                                       *)
LEMMA MergedIsTrim ==
    ASSUME TypeInv, NEW r, Shape(r), NEW v, v # None => Trim(v)
    PROVE  Trim(Merged(r, v))
<1> DEFINE seed == Prior(IF v # None THEN v ELSE r.prev)
           kept == Prior(r.prev)
<1>1. Trim(kept) /\ Trim(seed) /\ r.news \subseteq posted
  BY PriorIsTrim DEF Shape
<1>2. ASSUME NEW c \in Channels
      PROVE  /\ Newest((r.news \cap In(c)) \cup kept[c], Keep) \subseteq posted \cap In(c)
             /\ Newest(Newest((r.news \cap In(c)) \cup kept[c], Keep), Keep)
                   = Newest((r.news \cap In(c)) \cup kept[c], Keep)
  <2>1. /\ IsFiniteSet((r.news \cap In(c)) \cup kept[c])
        /\ (r.news \cap In(c)) \cup kept[c] \subseteq Int
        /\ (r.news \cap In(c)) \cup kept[c] \subseteq posted \cap In(c)
    <3>1. /\ IsFiniteSet(r.news \cap In(c)) /\ r.news \cap In(c) \subseteq Int
          /\ IsFiniteSet(kept[c]) /\ kept[c] \subseteq Int
      BY <1>1, NewsIsFinite, TrimIsFinite
    <3>2. kept[c] \subseteq posted \cap In(c)
      BY <1>1 DEF Trim
    <3> QED
      BY <1>1, <3>1, <3>2, FS_Union
  <2> QED
    BY <2>1, NewestBounded, NewestTwice, Assumed
<1> HIDE DEF seed, kept
<1>3. Merged(r, v) = [c \in Channels |->
         IF c \in r.scope THEN Newest((r.news \cap In(c)) \cup kept[c], Keep) ELSE seed[c]]
  BY DEF Merged, seed, kept
<1>4. \A c \in Channels :
         /\ Merged(r, v)[c] \subseteq posted \cap In(c)
         /\ Newest(Merged(r, v)[c], Keep) = Merged(r, v)[c]
  BY <1>1, <1>2, <1>3 DEF Trim
<1>5. Merged(r, v) \in Contents
  <2>1. \A c \in Channels : Merged(r, v)[c] \in SUBSET Messages
    BY <1>4 DEF TypeInv
  <2> QED
    BY <1>3, <2>1 DEF Contents
<1> QED
  BY <1>4, <1>5 DEF Trim

LEMMA IdleHasShape == Shape(Idle)
  BY DEF Shape, Idle, Places

(* A job that goes on with a state it was given has its shape.             *)
LEMMA LoadedHasShape ==
    ASSUME TypeInv, NEW r, Shape(r), r.pc \in {"first", "last"},
           NEW v, v \in Contents \cup {None}, v # None => Trim(v)
    PROVE  /\ Shape(Loaded(r, v))
           /\ Loaded(r, v).kind = "scrape" <=> r.kind = "scrape"
<1>1. CASE r.kind = "look"
  <2>1. r.pc = "first"
    BY <1>1 DEF Shape
  <2>2. Loaded(r, v) = Idle
    BY <1>1, <2>1 DEF Loaded
  <2> QED
    BY <1>1, <2>2, IdleHasShape DEF Idle
<1>2. CASE r.kind = "scrape" /\ r.pc = "first"
  <2>1. Loaded(r, v) = [r EXCEPT !.prev = v, !.pc = "select"]
    BY <1>2 DEF Loaded
  <2> QED
    BY <1>2, <2>1 DEF Shape, Places
<1>3. CASE r.kind = "apply" /\ r.pc = "first"
  <2>1. Loaded(r, v) = [r EXCEPT !.prev = v, !.pc = "record"]
    BY <1>3 DEF Loaded
  <2> QED
    BY <1>3, <2>1 DEF Shape, Places
<1>4. CASE r.pc = "last"
  <2>1. r.kind \in {"scrape", "apply"}
    BY <1>4 DEF Shape
  <2>2. Loaded(r, v) = [r EXCEPT !.prev = None, !.out = Merged(r, v), !.pc = "save"]
    BY <1>4, <2>1 DEF Loaded
  <2>3. Trim(Merged(r, v)) /\ Merged(r, v) # None /\ Merged(r, v) \in Contents
    BY MergedIsTrim, Assumed DEF Trim
  <2> HIDE DEF Merged
  <2> QED
    BY <1>4, <2>1, <2>2, <2>3 DEF Shape, Places
<1> QED
  BY <1>1, <1>2, <1>3, <1>4 DEF Shape

(* A load turns the job to one of the right shape, and it stays a scrape,  *)
(* or none.                                                                *)
LEMMA LoadTurns ==
    ASSUME TypeInv, NEW j \in Jobs, NEW r, Shape(r), r.pc \in {"first", "last"}, Load(j, r)
    PROVE  /\ faults' \in 0..MaxFaults
           /\ \E s : /\ Shape(s) /\ Turn(j, s)
                     /\ s.kind = "scrape" <=> r.kind = "scrape"
<1> DEFINE fresh == [r EXCEPT !.missed = IF r.pc = "first" THEN {} ELSE r.missed, !.late = {}]
           all == IF r.pc = "first" THEN Channels ELSE r.missed
           blind == [r EXCEPT !.missed = all, !.late = all]
<1>1. /\ faults \in 0..MaxFaults
      /\ local # None => Trim(local)
      /\ kv # None => Trim(kv)
  BY DEF TypeInv
<1>2. Shape(fresh) /\ fresh.pc = r.pc /\ fresh.kind = r.kind
  <2>1. r.missed \subseteq Channels /\ r.pc # "idle"
    BY DEF Shape
  <2> QED
    BY <2>1 DEF Shape
<1>3. Shape(blind) /\ blind.pc = r.pc /\ blind.kind = r.kind
  <2>1. all \subseteq Channels /\ r.pc # "idle"
    BY DEF Shape
  <2> HIDE DEF all
  <2> QED
    BY <2>1 DEF Shape
<1> HIDE DEF fresh, blind
<1>4. \/ /\ local # None
         /\ Turn(j, Loaded(fresh, local))
         /\ UNCHANGED faults
      \/ /\ local = None
         /\ Turn(j, IF r.pc = "first" THEN [fresh EXCEPT !.prev = kv] ELSE [fresh EXCEPT !.out = kv])
         /\ UNCHANGED faults
      \/ /\ local = None
         /\ Fault
         /\ Turn(j, Loaded(blind, None))
  BY DEF Load, fresh, blind
<1>5. faults' \in 0..MaxFaults
  BY <1>1, <1>4, Assumed DEF Fault
<1>6. CASE local # None /\ Turn(j, Loaded(fresh, local))
  <2>1. /\ Shape(Loaded(fresh, local))
        /\ Loaded(fresh, local).kind = "scrape" <=> r.kind = "scrape"
    BY <1>1, <1>2, <1>6, LoadedHasShape DEF Trim
  <2> QED
    BY <1>5, <1>6, <2>1
<1>7. CASE Turn(j, IF r.pc = "first" THEN [fresh EXCEPT !.prev = kv] ELSE [fresh EXCEPT !.out = kv])
  <2> DEFINE s == IF r.pc = "first" THEN [fresh EXCEPT !.prev = kv] ELSE [fresh EXCEPT !.out = kv]
  <2>1. Shape(s) /\ s.kind = r.kind
    <3>1. kv \in Contents \cup {None}
      BY <1>1 DEF Trim
    <3> QED
      BY <1>1, <1>2, <3>1 DEF Shape
  <2> QED
    BY <1>5, <1>7, <2>1
<1>8. CASE Turn(j, Loaded(blind, None))
  <2>1. /\ Shape(Loaded(blind, None))
        /\ Loaded(blind, None).kind = "scrape" <=> r.kind = "scrape"
    BY <1>3, LoadedHasShape
  <2> QED
    BY <1>5, <1>8, <2>1
<1> QED
  BY <1>4, <1>6, <1>7, <1>8

(* One job's turn leaves all jobs in shape.                                *)
LEMMA TurnShapes ==
    ASSUME TypeInv, NEW j \in Jobs, NEW s, Shape(s), Turn(j, s), UNCHANGED posted
    PROVE  DOMAIN job' = Jobs /\ \A k \in Jobs : Shape(job[k])'
<1>1. job' = [job EXCEPT ![j] = s] /\ DOMAIN job = Jobs /\ \A k \in Jobs : Shape(job[k])
  BY DEF Turn, TypeInv
<1>2. DOMAIN job' = Jobs /\ \A k \in Jobs : job'[k] = s \/ job'[k] = job[k]
  BY <1>1
<1>3. \A k \in Jobs : Shape(job'[k])
  BY <1>1, <1>2
<1> QED
  BY <1>2, <1>3 DEF Shape, Trim

(* So does a save, of which the others take note.                          *)
LEMMA SavingShapes ==
    ASSUME TypeInv, NEW j \in Jobs, NEW s, Shape(s), Saving(j, s), UNCHANGED posted
    PROVE  DOMAIN job' = Jobs /\ \A k \in Jobs : Shape(job[k])'
<1>1. /\ job' = [k \in Jobs |->
              IF k = j THEN s
              ELSE IF Active(k) THEN [job[k] EXCEPT !.missed = @ \cup Moved, !.late = @ \cup Moved]
              ELSE Idle]
      /\ \A k \in Jobs : Shape(job[k])
  BY DEF Saving, TypeInv
<1>2. Moved \subseteq Channels
  BY DEF Moved
<1> HIDE DEF Moved
<1>3. \A k \in Jobs : Active(k) => Shape([job[k] EXCEPT !.missed = @ \cup Moved, !.late = @ \cup Moved])
  BY <1>1, <1>2 DEF Shape, Active
<1>4. \A k \in Jobs : Shape(job'[k])
  BY <1>1, <1>3, IdleHasShape
<1>5. DOMAIN job' = Jobs
  BY <1>1
<1>6. \A k \in Jobs : Shape(job[k])'
  BY <1>4 DEF Shape, Trim
<1> QED
  BY <1>5, <1>6
-----------------------------------------------------------------------------
(* Every action but a post and a restart turns one job.                    *)

Acts(j) ==
    \/ ApplyStart(j) \/ ScrapeStart(j) \/ Look(j) \/ KvAnswers(j)
    \/ Select(j) \/ Fetch(j) \/ Record(j) \/ RecordFails(j)
    \/ SaveLocal(j) \/ Mirror(j) \/ SaveFails(j)

(* What a step of job j to s does to the flag: nothing, and s is a scrape  *)
(* if the job was; it is set for a new scrape; or it is cleared at the end *)
(* of one.                                                                 *)
Flag(j, s) ==
    \/ (s.kind = "scrape" <=> Scrapes(j)) /\ UNCHANGED isRunning
    \/ ~ isRunning /\ isRunning' = TRUE /\ s.kind = "scrape" /\ ~ Active(j)
    \/ s.kind # "scrape" /\ Released(j)

(* The jobs of the three ways to start.                                    *)
LEMMA StartsHaveShape ==
    ASSUME TypeInv
    PROVE  /\ Shape([Idle EXCEPT !.kind = "scrape", !.pc = "first"])
           /\ Shape([Idle EXCEPT !.kind = "look", !.pc = "first"])
           /\ \A batch \in SUBSET {m \in posted : Home[m] \in Configured} :
                 Shape([Idle EXCEPT !.kind = "apply", !.pc = "first", !.news = batch,
                                    !.scope = {Home[m] : m \in batch}])
<1>1. /\ Shape([Idle EXCEPT !.kind = "scrape", !.pc = "first"])
      /\ Shape([Idle EXCEPT !.kind = "look", !.pc = "first"])
  BY DEF Shape, Idle, Places
<1>2. ASSUME NEW batch \in SUBSET {m \in posted : Home[m] \in Configured}
      PROVE  Shape([Idle EXCEPT !.kind = "apply", !.pc = "first", !.news = batch,
                                !.scope = {Home[m] : m \in batch}])
  <2>1. /\ {Home[m] : m \in batch} \subseteq Configured
        /\ {Home[m] : m \in batch} \subseteq Channels
        /\ \A m \in batch : Home[m] \in {Home[n] : n \in batch}
        /\ batch \subseteq posted
    BY Assumed
  <2> DEFINE scope == {Home[m] : m \in batch}
  <2> HIDE DEF scope
  <2>2. Shape([Idle EXCEPT !.kind = "apply", !.pc = "first", !.news = batch, !.scope = scope])
    BY <2>1 DEF Shape, Idle, Places, scope
  <2> QED
    BY <2>2 DEF scope
<1> QED
  BY <1>1, <1>2

LEMMA ActsTurn ==
    ASSUME TypeInv, NEW j \in Jobs, Acts(j)
    PROVE  /\ UNCHANGED posted
           /\ faults' \in 0..MaxFaults
           /\ \E s : Shape(s) /\ Flag(j, s) /\ (Turn(j, s) \/ Saving(j, s))
<1>0. Shape(job[j]) /\ faults \in 0..MaxFaults
  BY DEF TypeInv
<1>f. Fault => faults' \in 0..MaxFaults
  BY <1>0, Assumed DEF Fault
<1>1. CASE ApplyStart(j)
  <2>1. PICK batch \in SUBSET {m \in posted : Home[m] \in Configured} \ {{}} :
              Load(j, [Idle EXCEPT !.kind = "apply", !.pc = "first", !.news = batch,
                                   !.scope = {Home[m] : m \in batch}])
    BY <1>1 DEF ApplyStart
  <2> DEFINE r == [Idle EXCEPT !.kind = "apply", !.pc = "first", !.news = batch,
                               !.scope = {Home[m] : m \in batch}]
  <2>2. Shape(r) /\ r.pc = "first" /\ r.kind = "apply"
    BY StartsHaveShape DEF Idle
  <2>3. job[j].kind = "none"
    BY <1>0, <1>1 DEF ApplyStart, Active, Shape, Idle
  <2> HIDE DEF r
  <2>4. /\ faults' \in 0..MaxFaults
        /\ \E s : Shape(s) /\ Turn(j, s) /\ (s.kind = "scrape" <=> r.kind = "scrape")
    BY <2>1, <2>2, LoadTurns DEF r
  <2> QED
    BY <1>1, <2>2, <2>3, <2>4 DEF ApplyStart, Flag, Scrapes
<1>2. CASE ScrapeStart(j)
  <2> DEFINE r == [Idle EXCEPT !.kind = "scrape", !.pc = "first"]
  <2>1. Shape(r) /\ r.pc = "first" /\ r.kind = "scrape"
    BY StartsHaveShape DEF Idle
  <2>2. Load(j, r)
    BY <1>2 DEF ScrapeStart
  <2> HIDE DEF r
  <2>3. /\ faults' \in 0..MaxFaults
        /\ \E s : Shape(s) /\ Turn(j, s) /\ (s.kind = "scrape" <=> r.kind = "scrape")
    BY <2>1, <2>2, LoadTurns
  <2> QED
    BY <1>2, <2>1, <2>3 DEF ScrapeStart, Flag
<1>3. CASE Look(j)
  <2> DEFINE r == [Idle EXCEPT !.kind = "look", !.pc = "first"]
  <2>1. Shape(r) /\ r.pc = "first" /\ r.kind = "look"
    BY StartsHaveShape DEF Idle
  <2>2. Load(j, r) /\ job[j].kind = "none"
    BY <1>0, <1>3 DEF Look, Active, Shape, Idle
  <2> HIDE DEF r
  <2>3. /\ faults' \in 0..MaxFaults
        /\ \E s : Shape(s) /\ Turn(j, s) /\ (s.kind = "scrape" <=> r.kind = "scrape")
    BY <2>1, <2>2, LoadTurns
  <2> QED
    BY <1>3, <2>1, <2>2, <2>3 DEF Look, Flag, Scrapes
<1>4. CASE KvAnswers(j)
  <2> DEFINE v == IF At(j, {"first"}) THEN job[j].prev ELSE job[j].out
  <2>1. /\ job[j].pc \in {"first", "last"}
        /\ Saving(j, Loaded(job[j], v))
        /\ UNCHANGED <<posted, isRunning, faults>>
    BY <1>4 DEF KvAnswers, At
  <2>2. v \in Contents \cup {None} /\ (v # None => Trim(v))
    BY <1>0 DEF Shape
  <2> HIDE DEF v
  <2>3. /\ Shape(Loaded(job[j], v))
        /\ Loaded(job[j], v).kind = "scrape" <=> job[j].kind = "scrape"
    BY <1>0, <2>1, <2>2, LoadedHasShape
  <2> QED
    BY <1>0, <2>1, <2>3 DEF Flag, Scrapes
<1>5. CASE Select(j)
  <2>1. PICK cycle \in SUBSET Channels :
              /\ Turn(j, [job[j] EXCEPT !.scope = cycle, !.pc = "fetch"])
              /\ Fault \/ UNCHANGED faults
    BY <1>5 DEF Select
  <2>2. job[j].pc = "select" /\ job[j].kind = "scrape" /\ cycle \subseteq Channels
    BY <1>0, <1>5, <2>1 DEF Select, At, Shape
  <2> DEFINE s == [job[j] EXCEPT !.scope = cycle, !.pc = "fetch"]
  <2>3. job[j].news = {}
    BY <1>0, <2>2 DEF Shape
  <2>4. Shape(s) /\ s.kind = "scrape"
    BY <1>0, <2>2, <2>3 DEF Shape, Places
  <2> QED
    BY <1>0, <1>f, <1>5, <2>1, <2>2, <2>4 DEF Flag, Select, Scrapes
<1>6. CASE Fetch(j)
  <2> DEFINE news(fetched) == UNION {Page(c) \ Prior(job[j].prev)[c] : c \in fetched} \ seen
             s(fetched) == [job[j] EXCEPT !.pc = "record", !.news = news(fetched)]
  <2>1. PICK fetched \in SUBSET job[j].scope : Turn(j, s(fetched)) /\ (Fault \/ UNCHANGED faults)
    BY <1>6 DEF Fetch
  <2>2. job[j].pc = "fetch" /\ job[j].kind = "scrape"
    BY <1>0, <1>6 DEF Fetch, At, Shape
  <2>3. news(fetched) \subseteq posted /\ \A m \in news(fetched) : Home[m] \in job[j].scope
    BY DEF Page, Newest, In
  <2> HIDE DEF news
  <2>4. Shape(s(fetched)) /\ s(fetched).kind = "scrape"
    BY <1>0, <2>2, <2>3 DEF Shape, Places
  <2> HIDE DEF s
  <2> QED
    BY <1>0, <1>f, <1>6, <2>1, <2>2, <2>4 DEF Flag, Fetch, Scrapes
<1>7. CASE Record(j)
  <2> DEFINE r == [job[j] EXCEPT !.pc = "last"]
  <2>1. job[j].pc = "record" /\ Load(j, r)
    BY <1>7 DEF Record, At
  <2>2. Shape(r) /\ r.pc = "last" /\ r.kind = job[j].kind
    BY <1>0, <2>1 DEF Shape, Places
  <2> HIDE DEF r
  <2>3. /\ faults' \in 0..MaxFaults
        /\ \E s : Shape(s) /\ Turn(j, s) /\ (s.kind = "scrape" <=> r.kind = "scrape")
    BY <2>1, <2>2, LoadTurns
  <2> QED
    BY <1>7, <2>2, <2>3 DEF Record, Flag, Scrapes
<1>8. CASE RecordFails(j)
  <2>1. job[j].pc = "record" /\ Fault /\ UNCHANGED <<posted, isRunning>>
    BY <1>8 DEF RecordFails, At
  <2> DEFINE rest == [job[j] EXCEPT !.news = {}, !.scope = @ \ {Home[m] : m \in job[j].news}]
             s == IF job[j].kind = "apply" THEN Idle ELSE rest
  <2>2. Turn(j, s)
    BY <1>8 DEF RecordFails
  <2>3. Shape(s) /\ (s.kind = "scrape" <=> job[j].kind = "scrape")
    <3>1. Shape(rest) /\ rest.kind = job[j].kind
      BY <1>0, <2>1 DEF Shape
    <3> HIDE DEF rest
    <3> QED
      BY <3>1, IdleHasShape DEF Idle
  <2> HIDE DEF s
  <2> QED
    BY <1>f, <2>1, <2>2, <2>3 DEF Flag, Scrapes
<1>9. CASE SaveLocal(j)
  <2> DEFINE s == [job[j] EXCEPT !.pc = "mirror"]
  <2>1. job[j].pc = "save" /\ Saving(j, s) /\ UNCHANGED <<posted, isRunning, faults>>
    BY <1>9 DEF SaveLocal, At
  <2>2. Shape(s) /\ s.kind = job[j].kind
    BY <1>0, <2>1 DEF Shape, Places
  <2> QED
    BY <1>0, <2>1, <2>2 DEF Flag, Scrapes
<1>10. CASE Mirror(j)
  <2>1. Saving(j, Idle) /\ Released(j) /\ UNCHANGED <<posted, faults>> /\ Idle.kind = "none"
    BY <1>10 DEF Mirror, Idle
  <2> QED
    BY <1>0, <2>1, IdleHasShape DEF Flag
<1>11. CASE SaveFails(j)
  <2>1. Turn(j, Idle) /\ Released(j) /\ Fault /\ UNCHANGED posted /\ Idle.kind = "none"
    BY <1>11 DEF SaveFails, Idle
  <2> QED
    BY <1>f, <2>1, IdleHasShape DEF Flag
<1> QED
  BY <1>1, <1>2, <1>3, <1>4, <1>5, <1>6, <1>7, <1>8, <1>9, <1>10, <1>11 DEF Acts

LEMMA NextActs ==
    ASSUME Next
    PROVE  \/ \E m \in Messages : Post(m)
           \/ \E j \in Jobs : Acts(j)
           \/ Restart
  BY DEF Next, Acts
-----------------------------------------------------------------------------
(* The copies, the table and the counters.                                 *)

(* What each action leaves of them.                                        *)
LEMMA ActsKeepTypes ==
    ASSUME TypeInv, NEW j \in Jobs, Acts(j)
    PROVE  /\ local' # None => Trim(local')
           /\ kv' # None => Trim(kv')
           /\ seen' \subseteq known' /\ known' \subseteq posted
           /\ mtproto' \subseteq Configured
           /\ lossy' \in BOOLEAN /\ batches' \in 0..MaxBatches
<1>1. /\ Shape(job[j])
      /\ local # None => Trim(local)
      /\ kv # None => Trim(kv)
      /\ seen \subseteq known /\ known \subseteq posted
      /\ mtproto \subseteq Configured
      /\ lossy \in BOOLEAN /\ batches \in 0..MaxBatches
  BY DEF TypeInv
<1>2. CASE ApplyStart(j)
  <2>1. /\ batches < MaxBatches /\ batches' = batches + 1
        /\ UNCHANGED <<local, kv, seen, mtproto, known, lossy>>
    BY <1>2 DEF ApplyStart
  <2> QED
    BY <1>1, <2>1, Assumed
<1>3. CASE ScrapeStart(j) \/ Look(j) \/ Select(j) \/ Fetch(j) \/ SaveFails(j)
  <2>1. /\ UNCHANGED <<local, kv, seen, mtproto, known, batches>>
        /\ lossy' \in BOOLEAN
    BY <1>1, <1>3 DEF ScrapeStart, Look, Select, Fetch, SaveFails
  <2> QED
    BY <1>1, <2>1
<1>4. CASE KvAnswers(j)
  <2> DEFINE v == IF At(j, {"first"}) THEN job[j].prev ELSE job[j].out
  <2>1. /\ local' = IF v # None /\ Fits(v) THEN v ELSE local
        /\ UNCHANGED <<kv, seen, mtproto, known, batches>>
        /\ lossy' \in BOOLEAN
    BY <1>4 DEF KvAnswers
  <2>2. v # None => Trim(v)
    BY <1>1 DEF Shape
  <2> HIDE DEF v
  <2> QED
    BY <1>1, <2>1, <2>2
<1>5. CASE Record(j)
  <2>1. /\ seen' = seen \cup job[j].news /\ known' = known \cup job[j].news
        /\ UNCHANGED <<local, kv, batches, lossy>>
        /\ mtproto' = IF job[j].kind = "apply" THEN mtproto \cup job[j].scope ELSE mtproto
    BY <1>5 DEF Record
  <2>2. /\ job[j].news \subseteq posted
        /\ job[j].kind = "apply" => job[j].scope \subseteq Configured
    BY <1>1 DEF Shape
  <2> QED
    BY <1>1, <2>1, <2>2
<1>6. CASE RecordFails(j)
  <2>1. PICK part \in SUBSET job[j].news :
              /\ seen' = seen \cup part /\ known' = known \cup part
              /\ lossy' \in BOOLEAN
    BY <1>6 DEF RecordFails
  <2>2. job[j].news \subseteq posted /\ UNCHANGED <<local, kv, mtproto, batches>>
    BY <1>1, <1>6 DEF Shape, RecordFails
  <2> QED
    BY <1>1, <2>1, <2>2
<1>7. CASE SaveLocal(j)
  <2>1. /\ local' = job[j].out \/ local' = None
        /\ UNCHANGED <<kv, seen, mtproto, known, batches>>
        /\ lossy' \in BOOLEAN
    BY <1>7 DEF SaveLocal
  <2> QED
    BY <1>1, <2>1 DEF Shape
<1>8. CASE Mirror(j)
  <2>1. /\ kv' = job[j].out /\ seen' \subseteq seen
        /\ UNCHANGED <<local, mtproto, known, batches>>
        /\ lossy' \in BOOLEAN
    BY <1>8 DEF Mirror
  <2> QED
    BY <1>1, <2>1 DEF Shape
<1> QED
  BY <1>2, <1>3, <1>4, <1>5, <1>6, <1>7, <1>8 DEF Acts

LEMMA TypeHolds == Init => TypeInv
<1>1. ASSUME Init PROVE TypeInv
  <2>1. /\ posted = {} /\ local = None /\ kv = None /\ seen = {} /\ mtproto = {}
        /\ isRunning = FALSE /\ job = [j \in Jobs |-> Idle] /\ batches = 0
        /\ faults = 0 /\ known = {} /\ lossy = FALSE
    BY <1>1 DEF Init
  <2>2. IsFiniteSet(posted)
    BY <2>1, FS_EmptySet
  <2>3. \A j \in Jobs : Shape(job[j])
    BY <2>1, IdleHasShape
  <2>4. batches \in 0..MaxBatches /\ faults \in 0..MaxFaults /\ DOMAIN job = Jobs
    BY <2>1, Assumed
  <2>5. isRunning \in BOOLEAN /\ lossy \in BOOLEAN
    BY <2>1
  <2>6. (local # None => Trim(local)) /\ (kv # None => Trim(kv))
    BY <2>1
  <2>7. /\ posted \subseteq Messages /\ seen \subseteq known /\ known \subseteq posted
        /\ mtproto \subseteq Configured
    BY <2>1
  <2> QED
    BY <2>2, <2>3, <2>4, <2>5, <2>6, <2>7 DEF TypeInv
<1> QED
  BY <1>1

LEMMA TypeStep == TypeInv /\ [Next]_vars => TypeInv'
<1> SUFFICES ASSUME TypeInv, [Next]_vars
             PROVE  TypeInv'
  OBVIOUS
<1>1. ASSUME NEW m \in Messages, Post(m)
      PROVE  TypeInv'
  <2>1. /\ posted' = posted \cup {m}
        /\ UNCHANGED <<local, kv, seen, mtproto, isRunning, job, batches, faults, known, lossy>>
    BY <1>1 DEF Post
  <2>2. /\ posted \subseteq Messages /\ IsFiniteSet(posted)
        /\ local # None => Trim(local)
        /\ kv # None => Trim(kv)
        /\ seen \subseteq known /\ known \subseteq posted
        /\ DOMAIN job = Jobs /\ \A j \in Jobs : Shape(job[j])
    BY DEF TypeInv
  <2>3. posted' \subseteq Messages /\ IsFiniteSet(posted') /\ posted \subseteq posted'
    BY <2>1, <2>2, FS_AddElement
  <2>4. \A s : Trim(s) => /\ s \in Contents
                          /\ \A c \in Channels : /\ s[c] \subseteq posted' \cap In(c)
                                                 /\ Newest(s[c], Keep) = s[c]
    BY <2>3 DEF Trim
  <2>5. local' # None => Trim(local)'
    BY <2>1, <2>2, <2>4 DEF Trim, In, Newest, Contents
  <2>6. kv' # None => Trim(kv)'
    BY <2>1, <2>2, <2>4 DEF Trim, In, Newest, Contents
  <2>7. ASSUME NEW j \in Jobs
        PROVE  Shape(job[j])'
    <3>1. Shape(job[j]) /\ job'[j] = job[j]
      BY <2>1, <2>2
    <3>a. /\ job[j].prev # None => Trim(job[j].prev)
          /\ job[j].out # None => Trim(job[j].out)
      BY <3>1 DEF Shape
    <3>2. \A s \in {job'[j].prev, job'[j].out} :
             s # None => /\ s \in Contents
                         /\ \A c \in Channels : /\ s[c] \subseteq posted' \cap In(c)
                                                /\ Newest(s[c], Keep) = s[c]
      BY <2>4, <3>1, <3>a
    <3>3. /\ (job[j].prev # None => Trim(job[j].prev))'
          /\ (job[j].out # None => Trim(job[j].out))'
      BY <3>2 DEF Trim, In, Newest, Contents
    <3> QED
      BY <2>3, <3>1, <3>3 DEF Shape
  <2> QED
    BY <2>1, <2>2, <2>3, <2>5, <2>6, <2>7 DEF TypeInv
<1>2. ASSUME NEW j \in Jobs, Acts(j)
      PROVE  TypeInv'
  <2>1. PICK s : Shape(s) /\ Flag(j, s) /\ (Turn(j, s) \/ Saving(j, s))
    BY <1>2, ActsTurn
  <2>2. UNCHANGED posted /\ faults' \in 0..MaxFaults
    BY <1>2, ActsTurn
  <2>3. DOMAIN job' = Jobs /\ \A k \in Jobs : Shape(job[k])'
    BY <2>1, <2>2, TurnShapes, SavingShapes
  <2>4. isRunning' \in BOOLEAN
    BY <2>1 DEF Flag, Released, TypeInv
  <2>5. /\ local' # None => Trim(local')
        /\ kv' # None => Trim(kv')
        /\ seen' \subseteq known' /\ known' \subseteq posted
        /\ mtproto' \subseteq Configured
        /\ lossy' \in BOOLEAN /\ batches' \in 0..MaxBatches
    BY <1>2, ActsKeepTypes
  <2>6. (local' # None => Trim(local)') /\ (kv' # None => Trim(kv)')
    BY <2>2, <2>5 DEF Trim, In, Newest, Contents
  <2> QED
    BY <2>2, <2>3, <2>4, <2>5, <2>6 DEF TypeInv
<1>3. CASE Restart
  <2>1. /\ job' = [j \in Jobs |-> Idle] /\ isRunning' = FALSE /\ Fault
        /\ lossy' \in BOOLEAN
        /\ UNCHANGED <<posted, local, kv, seen, mtproto, batches, known>>
    BY <1>3 DEF Restart
  <2>2. \A j \in Jobs : Shape(job'[j])
    BY <2>1, IdleHasShape
  <2>3. \A j \in Jobs : Shape(job[j])'
    BY <2>1, <2>2 DEF Shape, Trim
  <2>4. faults' \in 0..MaxFaults
    BY <2>1, Assumed DEF Fault, TypeInv
  <2>5. (local' # None => Trim(local)') /\ (kv' # None => Trim(kv)')
    BY <2>1 DEF Trim, TypeInv
  <2> QED
    BY <2>1, <2>3, <2>4, <2>5 DEF TypeInv
<1>4. CASE UNCHANGED vars
  <2>1. UNCHANGED <<posted, local, kv, seen, mtproto, isRunning, job, batches, faults, known, lossy>>
    BY <1>4 DEF vars
  <2>2. /\ (local # None => Trim(local))' /\ (kv # None => Trim(kv))'
    BY <2>1 DEF TypeInv, Trim
  <2>3. ASSUME NEW j \in Jobs
        PROVE  Shape(job[j])'
    <3>1. Shape(job'[j])
      BY <2>1 DEF TypeInv
    <3> QED
      BY <2>1, <3>1 DEF Shape, Trim
  <2> QED
    BY <2>1, <2>2, <2>3 DEF TypeInv
<1> QED
  BY <1>1, <1>2, <1>3, <1>4, NextActs

LEMMA TypeAlways == Spec => []TypeInv
  BY TypeHolds, TypeStep, PTL DEF Spec

-----------------------------------------------------------------------------
(* One scrape.                                                             *)

LEMMA ScrapeHolds == Init => ScrapeInv
  BY DEF Init, ScrapeInv, Scrapes, Idle

LEMMA ScrapeStep == TypeInv /\ ScrapeInv /\ [Next]_vars => ScrapeInv'
<1> SUFFICES ASSUME TypeInv, ScrapeInv, [Next]_vars
             PROVE  ScrapeInv'
  OBVIOUS
<1>1. ASSUME NEW m \in Messages, Post(m)
      PROVE  ScrapeInv'
  BY <1>1 DEF Post, ScrapeInv, Scrapes
<1>2. ASSUME NEW j \in Jobs, Acts(j)
      PROVE  ScrapeInv'
  <2>1. PICK s : Shape(s) /\ Flag(j, s) /\ (Turn(j, s) \/ Saving(j, s))
    BY <1>2, ActsTurn
  <2>2. DOMAIN job = Jobs /\ \A k \in Jobs : Shape(job[k])
    BY DEF TypeInv
  <2>3. job'[j] = s /\ \A k \in Jobs \ {j} : job'[k].kind = job[k].kind
    <3>1. CASE Turn(j, s)
      BY <2>2, <3>1 DEF Turn
    <3>2. CASE Saving(j, s)
      <4>1. job'[j] = s
        BY <3>2 DEF Saving
      <4>2. ASSUME NEW k \in Jobs \ {j}
            PROVE  job'[k].kind = job[k].kind
        <5>1. Shape(job[k])
          BY <2>2
        <5>2. CASE Active(k)
          <6> DEFINE r == [job[k] EXCEPT !.missed = @ \cup Moved, !.late = @ \cup Moved]
          <6>1. job'[k] = r
            BY <3>2, <5>2 DEF Saving
          <6>2. r.kind = job[k].kind
            BY <5>1 DEF Shape
          <6> QED
            BY <6>1, <6>2
        <5>3. CASE ~ Active(k)
          <6>1. job'[k] = Idle
            BY <3>2, <5>3 DEF Saving
          <6>2. job[k] = Idle
            BY <5>1, <5>3 DEF Shape, Active
          <6> QED
            BY <6>1, <6>2
        <5> QED
          BY <5>2, <5>3
      <4> QED
        BY <4>1, <4>2
    <3> QED
      BY <2>1, <3>1, <3>2
  <2>4. \A k \in Jobs : Scrapes(k)' <=> IF k = j THEN s.kind = "scrape" ELSE Scrapes(k)
    BY <2>3 DEF Scrapes
  <2>5. /\ \A k, l \in Jobs : Scrapes(k) /\ Scrapes(l) => k = l
        /\ isRunning <=> \E k \in Jobs : Scrapes(k)
    BY DEF ScrapeInv
  <2>6. /\ isRunning' <=> \E k \in Jobs : Scrapes(k)'
        /\ \A k, l \in Jobs : Scrapes(k)' /\ Scrapes(l)' => k = l
    <3>1. CASE (s.kind = "scrape" <=> Scrapes(j)) /\ UNCHANGED isRunning
      BY <2>4, <2>5, <3>1
    <3>2. CASE ~ isRunning /\ isRunning' = TRUE /\ s.kind = "scrape"
      BY <2>4, <2>5, <3>2
    <3>3. CASE s.kind # "scrape" /\ Released(j)
      <4>1. isRunning' <=> isRunning /\ ~ Scrapes(j)
        BY <3>3 DEF Released, Scrapes, TypeInv
      <4> QED
        BY <2>4, <2>5, <3>3, <4>1
    <3> QED
      BY <2>1, <3>1, <3>2, <3>3 DEF Flag
  <2> QED
    BY <2>6 DEF ScrapeInv
<1>3. CASE Restart
  BY <1>3 DEF Restart, ScrapeInv, Scrapes, Idle
<1>4. CASE UNCHANGED vars
  BY <1>4 DEF vars, ScrapeInv, Scrapes
<1> QED
  BY <1>1, <1>2, <1>3, <1>4, NextActs

(* The flag counts the scrapes: none while it is clear, one while it is    *)
(* set.                                                                    *)
LEMMA ScrapeInvMeans == ScrapeInv => OneScrape
<1> SUFFICES ASSUME ScrapeInv
             PROVE  OneScrape
  OBVIOUS
<1> DEFINE scraping == {j \in Jobs : Scrapes(j)}
<1>1. CASE isRunning
  <2>1. PICK j \in Jobs : Scrapes(j)
    BY <1>1 DEF ScrapeInv
  <2>2. scraping = {j}
    BY <2>1 DEF ScrapeInv
  <2>3. Cardinality(scraping) = 1
    BY <2>2, FS_Singleton
  <2> QED
    BY <1>1, <2>3 DEF OneScrape, Scrapes
<1>2. CASE ~ isRunning
  <2>1. scraping = {}
    BY <1>2 DEF ScrapeInv
  <2>2. Cardinality(scraping) = 0
    BY <2>1, FS_EmptySet
  <2> QED
    BY <1>2, <2>2 DEF OneScrape, Scrapes
<1> QED
  BY <1>1, <1>2
-----------------------------------------------------------------------------
(* What the current copies are.                                            *)

LEMMA CurrentAlone ==
    ASSUME ~ \E j \in Jobs : Between(j)
    PROVE  Current = {Shown(local, kv)}
  BY DEF Current

LEMMA CurrentBetween ==
    ASSUME Honest, NEW j \in Jobs, Between(j)
    PROVE  Current = {job[j].out}
<1>1. \A k \in Jobs : Between(k) <=> k = j
  BY DEF Honest
<1> QED
  BY <1>1 DEF Current

LEMMA CurrentIsTrim ==
    ASSUME TypeInv, NEW s \in Current
    PROVE  Trim(s)
<1>1. \A j \in Jobs : Between(j) => Trim(job[j].out)
  BY DEF Between, At, TypeInv, Shape
<1>2. Trim(Shown(local, kv))
  BY ShownIsTrim
<1> QED
  BY <1>1, <1>2 DEF Current

(* A set of posted messages of a channel is finite, whatever makes it up.  *)
LEMMA PostedIsFinite ==
    ASSUME TypeInv, NEW S, S \subseteq posted
    PROVE  IsFiniteSet(S) /\ S \subseteq Int
<1>1. IsFiniteSet(posted) /\ posted \subseteq Int
  BY Assumed DEF TypeInv
<1> QED
  BY <1>1, FS_Subset

LEMMA UnsavedIsPosted ==
    ASSUME TypeInv, NEW c
    PROVE  Unsaved(c) \subseteq posted
<1>1. \A j \in Jobs : Pending(job[j]) \subseteq posted
  BY DEF TypeInv, Shape, Pending
<1> QED
  BY <1>1 DEF Unsaved

-----------------------------------------------------------------------------
(* A turn that saves nothing.                                              *)

(* What a job may turn to when nothing else changes.                       *)
Ready(s) ==
    /\ s.pc # "mirror"
    /\ Behind(s, Shown(local, kv), Current)
    /\ s.pc \in Early => Lasts(s.prev, Current)

(* What is recorded with a turn to s is what s has yet to save.            *)
Keeps(j, s) ==
    \/ Pending(s) = Pending(job[j]) /\ UNCHANGED known
    \/ Pending(job[j]) = {} /\ known' = known \cup Pending(s)

(* Only job j has changed, and is s now.                                   *)
Turns(j, s) == job'[j] = s /\ \A k \in Jobs \ {j} : job'[k] = job[k]

LEMMA TurnTurns ==
    ASSUME TypeInv, NEW j \in Jobs, NEW s, Turn(j, s)
    PROVE  Turns(j, s)
  BY DEF TypeInv, Turn, Turns

LEMMA KeepsCurrent ==
    ASSUME TypeInv, Honest, NEW j \in Jobs, NEW s, Shape(s), Turns(j, s), Keeps(j, s),
           NEW x \in Current, NEW c \in Channels
    PROVE  Newest(known' \cap In(c), Keep) = Newest(x[c] \cup Unsaved(c)', Keep)
<1>1. /\ job'[j] = s /\ \A k \in Jobs \ {j} : job'[k] = job[k]
      /\ Newest(known \cap In(c), Keep) = Newest(x[c] \cup Unsaved(c), Keep)
  BY DEF Turns, Honest
<1>2. Unsaved(c)' = {m \in In(c) : \E k \in Jobs : m \in Pending(job'[k])}
  BY DEF Unsaved, In, Pending
<1>3. CASE Pending(s) = Pending(job[j]) /\ UNCHANGED known
  <2>1. \A k \in Jobs : Pending(job'[k]) = Pending(job[k])
    BY <1>1, <1>3
  <2>2. Unsaved(c)' = Unsaved(c)
    BY <1>2, <2>1 DEF Unsaved
  <2> QED
    BY <1>1, <1>3, <2>2
<1>4. CASE Pending(job[j]) = {} /\ known' = known \cup Pending(s)
  <2> DEFINE P == Pending(s) \cap In(c)
  <2>1. job'[j] = s /\ \A k \in Jobs \ {j} : job'[k] = job[k]
    BY <1>1
  <2>2. Unsaved(c)' = P \cup Unsaved(c)
    <3>1. ASSUME NEW m \in In(c)
          PROVE  (\E k \in Jobs : m \in Pending(job'[k]))
                    <=> m \in Pending(s) \/ \E k \in Jobs : m \in Pending(job[k])
      BY <1>4, <2>1
    <3> QED
      BY <1>2, <3>1 DEF Unsaved
  <2>3. known' \cap In(c) = P \cup (known \cap In(c))
    BY <1>4
  <2>4. P \subseteq posted /\ known \cap In(c) \subseteq posted /\ x[c] \cup Unsaved(c) \subseteq posted
    BY UnsavedIsPosted, CurrentIsTrim DEF TypeInv, Shape, Trim, Pending
  <2> DEFINE Q == x[c] \cup Unsaved(c)
  <2>8. IsFiniteSet(Q) /\ Q \subseteq Int /\ IsFiniteSet(P) /\ P \subseteq Int
    BY <2>4, PostedIsFinite
  <2> HIDE DEF P, Q
  <2>5. Newest(P \cup (known \cap In(c)), Keep) = Newest(P \cup Newest(known \cap In(c), Keep), Keep)
    BY <2>4, PostedIsFinite, NewestOfKept, Assumed
  <2>6. Newest(P \cup Q, Keep) = Newest(P \cup Newest(Q, Keep), Keep)
    BY <2>8, NewestOfKept, Assumed
  <2>7. P \cup Q = x[c] \cup Unsaved(c)' /\ Newest(Q, Keep) = Newest(known \cap In(c), Keep)
    BY <1>1, <2>2 DEF Q
  <2> QED
    BY <2>3, <2>5, <2>6, <2>7
<1> QED
  BY <1>3, <1>4 DEF Keeps

LEMMA QuietTurn ==
    ASSUME TypeInv, Honest, NEW j \in Jobs, NEW s, Shape(s), Turns(j, s),
           ~ Between(j), Ready(s), Keeps(j, s), Lasts(kv', Current),
           Shown(local', kv') = Shown(local, kv),
           local' = local \/ ~ \E k \in Jobs : Between(k)
    PROVE  Honest'
<1>2. job'[j] = s /\ \A k \in Jobs \ {j} : job'[k] = job[k]
  BY DEF Turns
<1>3. \A k \in Jobs : Between(k)' <=> Between(k)
  <2>1. \A k \in Jobs : Between(k)' <=> job'[k].pc = "mirror" /\ ~ Fits(job'[k].out)
    BY DEF Between, At, Fits
  <2>2. s.pc # "mirror"
    BY DEF Ready
  <2> QED
    BY <1>2, <2>1, <2>2 DEF Between, At
<1>4. \A k \in Jobs : Between(k) => job'[k] = job[k]
  BY <1>2
<1>5. Shown(local, kv)' = Shown(local, kv)
  BY DEF Shown, Prior
<1>6. Current' = Current
  <2>1. CASE \E k \in Jobs : Between(k)
    <3>1. Current' = {job'[k].out : k \in {l \in Jobs : Between(l)'}}
      BY <1>3, <2>1 DEF Current
    <3>2. Current = {job[k].out : k \in {l \in Jobs : Between(l)}}
      BY <2>1 DEF Current
    <3> QED
      BY <1>3, <1>4, <3>1, <3>2
  <2>2. CASE ~ \E k \in Jobs : Between(k)
    BY <1>3, <1>5, <2>2 DEF Current
  <2> QED
    BY <2>1, <2>2
<1>7. \A k, l \in Jobs : Between(k)' /\ Between(l)' => k = l
  BY <1>3 DEF Honest
<1>8. \A k \in Jobs : Between(k)' => local' = None
  BY <1>3 DEF Honest
<1>9. \A k \in Jobs : Behind(job'[k], Shown(local, kv), Current)
  BY <1>2 DEF Honest, Ready
<1>10. \A k \in Jobs : Behind(job[k], Shown(local, kv), Current)'
  <2>1. \A k \in Jobs : Behind(job'[k], Shown(local, kv)', Current')
    BY <1>5, <1>6, <1>9
  <2> QED
    BY <2>1 DEF Behind, Prior, Newest, In, Fits, Early
<1>11. \A x \in Current' : \A c \in Channels :
           Newest(known' \cap In(c), Keep) = Newest(x[c] \cup Unsaved(c)', Keep)
  BY <1>6, KeepsCurrent
<1>12. Lasts(kv, Current)'
  BY <1>6 DEF Honest, Lasts, Prior
<1>13. \A k \in Jobs : job'[k].pc \in Early => Lasts(job'[k].prev, Current)
  BY <1>2 DEF Honest, Ready
<1>14. \A k \in Jobs : (job[k].pc \in Early => Lasts(job[k].prev, Current))'
  BY <1>6, <1>13 DEF Lasts, Prior, Early
<1>15. \A x \in Current' : \A c \in Channels :
           (Newest(known \cap In(c), Keep))' = Newest(x[c] \cup Unsaved(c)', Keep)
  BY <1>11 DEF Newest, In
<1> QED
  BY <1>7, <1>8, <1>10, <1>12, <1>14, <1>15 DEF Honest, Newest, In
-----------------------------------------------------------------------------
(* Loads.                                                                  *)

(* What a job knows that has made its first load.                          *)
Knows(r) ==
    /\ \A c \in Channels \ r.missed : Prior(r.prev)[c] = Shown(local, kv)[c]
    /\ Lasts(r.prev, Current)

(* A first load of a state that is shown but for what r has missed.        *)
LEMMA FirstIsReady ==
    ASSUME TypeInv, NEW r, Shape(r), r.pc = "first", NEW v, Lasts(v, Current),
           \A c \in Channels \ r.missed : Prior(v)[c] = Shown(local, kv)[c]
    PROVE  Ready(Loaded(r, v)) /\ Pending(Loaded(r, v)) = {}
<1> DEFINE s == Loaded(r, v)
<1>1. r.kind \in {"look", "scrape", "apply"}
  BY DEF Shape
<1>2. CASE r.kind = "look"
  <2>1. s = Idle
    BY <1>2 DEF Loaded
  <2>2. Idle.pc = "idle"
    BY DEF Idle
  <2> HIDE DEF s
  <2> QED
    BY <2>1, <2>2 DEF Ready, Behind, Early, Pending, s
<1>3. CASE r.kind # "look"
  <2>1. s = IF r.kind = "scrape" THEN [r EXCEPT !.prev = v, !.pc = "select"]
            ELSE [r EXCEPT !.prev = v, !.pc = "record"]
    BY <1>1, <1>3 DEF Loaded
  <2>2. s.prev = v /\ s.pc \in {"select", "record"} /\ s.missed = r.missed
    BY <2>1 DEF Shape
  <2> HIDE DEF s
  <2> QED
    BY <2>2 DEF Ready, Behind, Early, Pending, s
<1> QED
  BY <1>2, <1>3

(* The last load, of a state that is shown but for what r has missed since *)
(* then; when it finds none, r falls back on its first.                    *)
LEMMA LastIsReady ==
    ASSUME TypeInv, NEW r, Shape(r), r.pc = "last", Knows(r), NEW v, v # None => Trim(v),
           \/ \A c \in Channels \ r.late : Prior(v)[c] = Shown(local, kv)[c]
           \/ v = None /\ r.late = r.missed
    PROVE  Ready(Loaded(r, v)) /\ Pending(Loaded(r, v)) = r.news
<1> DEFINE s == Loaded(r, v)
           shown == Shown(local, kv)
           seed == Prior(IF v # None THEN v ELSE r.prev)
<1>1. r.kind \in {"scrape", "apply"}
  BY DEF Shape
<1>2. s = [r EXCEPT !.prev = None, !.out = Merged(r, v), !.pc = "save"]
  BY <1>1 DEF Loaded
<1>3. /\ s.out = Merged(r, v) /\ s.pc = "save" /\ s.news = r.news
      /\ s.scope = r.scope /\ s.missed = r.missed /\ s.late = r.late
  BY <1>2 DEF Shape
<1> HIDE DEF s
<1>4. \A c \in Channels :
         Merged(r, v)[c] =
            IF c \in r.scope THEN Newest((r.news \cap In(c)) \cup Prior(r.prev)[c], Keep)
                             ELSE seed[c]
  BY DEF Merged
<1>5. \A c \in s.scope \ s.missed : c \in Channels =>
         s.out[c] = Newest((s.news \cap In(c)) \cup shown[c], Keep)
  BY <1>3, <1>4 DEF Knows
<1>6. ASSUME NEW c \in Channels \ (s.scope \cup s.late)
      PROVE  \/ s.out[c] = shown[c]
             \/ shown[c] = {} /\ \A t \in Current : t[c] # {}
  <2>1. s.out[c] = seed[c] /\ c \notin r.late
    BY <1>3, <1>4, <1>6
  <2>2. CASE v # None
    <3>1. seed = Prior(v)
      BY <2>2
    <3> QED
      BY <2>1, <2>2, <3>1
  <2>3. CASE v = None
    <3>1. seed = Prior(r.prev)
      BY <2>3
    <3>2. CASE r.late = r.missed
      BY <2>1, <3>1, <3>2 DEF Knows
    <3>3. CASE Prior(v)[c] = shown[c]
      <4>1. shown[c] = {}
        BY <2>3, <3>3 DEF Prior
      <4>2. Prior(r.prev)[c] # {} => \A t \in Current : t[c] # {}
        BY DEF Knows, Lasts
      <4> QED
        BY <2>1, <3>1, <4>1, <4>2
    <3> QED
      BY <2>1, <3>2, <3>3
  <2> QED
    BY <2>2, <2>3
<1>7. r.scope \subseteq Channels
  BY DEF Shape
<1>8. Behind(s, shown, Current)
  BY <1>3, <1>5, <1>6, <1>7 DEF Behind, Early
<1> QED
  BY <1>3, <1>8 DEF Ready, Early, Pending, s

(* A copy that is read while it is shown.                                  *)
LEMMA LocalIsShown ==
    ASSUME Honest, local # None
    PROVE  Prior(local) = Shown(local, kv) /\ Lasts(local, Current)
<1>1. Prior(local) = Shown(local, kv)
  BY DEF Shown
<1>2. Current = {Shown(local, kv)}
  BY CurrentAlone DEF Honest
<1> QED
  BY <1>1, <1>2 DEF Lasts

LEMMA NoneLasts == Lasts(None, Current)
  BY DEF Lasts, Prior

LEMMA LoadIsReady ==
    ASSUME TypeInv, Honest, NEW j \in Jobs, NEW r, Shape(r), r.pc \in {"first", "last"},
           r.pc = "last" => Knows(r), Load(j, r)
    PROVE  \E s : /\ Shape(s) /\ Turn(j, s) /\ Ready(s)
                  /\ Pending(s) = IF r.pc = "first" THEN {} ELSE r.news
<1> DEFINE missed == IF r.pc = "first" THEN {} ELSE r.missed
           all == IF r.pc = "first" THEN Channels ELSE r.missed
           fresh == [r EXCEPT !.missed = missed, !.late = {}]
           blind == [r EXCEPT !.missed = all, !.late = all]
           asked == IF r.pc = "first" THEN [fresh EXCEPT !.prev = kv] ELSE [fresh EXCEPT !.out = kv]
<1>0. missed \subseteq Channels /\ all \subseteq Channels /\ r.pc # "idle"
  BY DEF Shape
<1>1. /\ (local # None => Trim(local)) /\ (kv # None => Trim(kv))
      /\ local \in Contents \cup {None} /\ kv \in Contents \cup {None}
  BY DEF TypeInv, Trim
<1> HIDE DEF missed, all
<1>2. /\ Shape(fresh) /\ fresh.pc = r.pc /\ fresh.prev = r.prev /\ fresh.news = r.news
      /\ fresh.missed = missed /\ fresh.late = {} /\ fresh.scope = r.scope
  BY <1>0 DEF Shape
<1>3. /\ Shape(blind) /\ blind.pc = r.pc /\ blind.prev = r.prev /\ blind.news = r.news
      /\ blind.missed = all /\ blind.late = all /\ blind.scope = r.scope
  BY <1>0 DEF Shape
<1>4. /\ Shape(asked) /\ asked.pc = r.pc /\ asked.news = r.news
      /\ asked.missed = missed /\ asked.late = {}
      /\ r.pc = "first" => asked.prev = kv
      /\ r.pc = "last" => asked.prev = r.prev /\ asked.out = kv
  <2>1. fresh.kind = r.kind
    BY DEF Shape
  <2> HIDE DEF fresh
  <2> QED
    BY <1>1, <1>2 DEF Shape
<1>5. r.pc = "last" => Knows(fresh) /\ Knows(blind)
  BY <1>2, <1>3 DEF Knows, missed, all
<1>6. \/ local # None /\ Turn(j, Loaded(fresh, local))
      \/ local = None /\ Turn(j, asked)
      \/ local = None /\ Turn(j, Loaded(blind, None))
  BY DEF Load, missed, all
<1> HIDE DEF fresh, blind, asked
<1>7. CASE local # None /\ Turn(j, Loaded(fresh, local))
  <2>1. Shape(Loaded(fresh, local))
    BY <1>1, <1>2, <1>7, LoadedHasShape
  <2>2. /\ Lasts(local, Current)
        /\ \A c \in Channels : Prior(local)[c] = Shown(local, kv)[c]
    BY <1>7, LocalIsShown
  <2>3. CASE r.pc = "first"
    BY <1>2, <1>7, <2>1, <2>2, <2>3, FirstIsReady
  <2>4. CASE r.pc = "last"
    BY <1>1, <1>2, <1>5, <1>7, <2>1, <2>2, <2>4, LastIsReady
  <2> QED
    BY <2>3, <2>4
<1>8. CASE local = None /\ Turn(j, asked)
  <2>1. Prior(kv) = Shown(local, kv) /\ Lasts(kv, Current)
    BY <1>8 DEF Shown, Honest
  <2>2. CASE r.pc = "first"
    <3>1. asked.pc = "first" /\ asked.prev = kv
      BY <1>4, <2>2
    <3>2. Ready(asked)
      BY <2>1, <3>1 DEF Ready, Behind, Early
    <3>3. Pending(asked) = {}
      BY <3>1 DEF Pending
    <3> QED
      BY <1>4, <1>8, <2>2, <3>2, <3>3
  <2>3. CASE r.pc = "last"
    <3>1. /\ asked.pc = "last" /\ asked.prev = r.prev /\ asked.out = kv
          /\ asked.missed = r.missed
      BY <1>4, <2>3 DEF missed
    <3>2. Ready(asked)
      BY <2>1, <2>3, <3>1 DEF Ready, Behind, Early, Knows
    <3>3. Pending(asked) = r.news
      BY <1>4, <3>1 DEF Pending
    <3> QED
      BY <1>4, <1>8, <2>3, <3>2, <3>3
  <2> QED
    BY <2>2, <2>3
<1>9. CASE local = None /\ Turn(j, Loaded(blind, None))
  <2>1. Shape(Loaded(blind, None))
    BY <1>3, LoadedHasShape
  <2>2. CASE r.pc = "first"
    <3>1. Channels \ blind.missed = {}
      BY <1>3, <2>2 DEF all
    <3> QED
      BY <1>3, <1>9, <2>1, <2>2, <3>1, FirstIsReady, NoneLasts
  <2>3. CASE r.pc = "last"
    BY <1>3, <1>5, <1>9, <2>1, <2>3, LastIsReady
  <2> QED
    BY <2>2, <2>3
<1> QED
  BY <1>6, <1>7, <1>8, <1>9
-----------------------------------------------------------------------------
(* Each action, when it writes over nothing.                               *)

(* What is the case for the job of a step.                                 *)
LEMMA OfJob ==
    ASSUME TypeInv, Honest, NEW j \in Jobs
    PROVE  /\ Shape(job[j])
           /\ Behind(job[j], Shown(local, kv), Current)
           /\ job[j].pc \in Early => Lasts(job[j].prev, Current)
           /\ job[j].pc \in Early => Knows(job[j])
           /\ ~ Active(j) => job[j] = Idle
           /\ job[j].pc # "mirror" => ~ Between(j)
<1>1. Shape(job[j])
  BY DEF TypeInv
<1>2. /\ Behind(job[j], Shown(local, kv), Current)
      /\ job[j].pc \in Early => Lasts(job[j].prev, Current)
  BY DEF Honest
<1>3. job[j].pc \in Early => Knows(job[j])
  BY <1>2 DEF Behind, Knows
<1>4. ~ Active(j) => job[j] = Idle
  BY <1>1 DEF Active, Shape
<1>5. job[j].pc # "mirror" => ~ Between(j)
  BY DEF Between, At
<1> QED
  BY <1>1, <1>2, <1>3, <1>4, <1>5

LEMMA ShownStays ==
    ASSUME UNCHANGED <<local, kv>>
    PROVE  Shown(local', kv') = Shown(local, kv)
  OBVIOUS

(* A turn that changes nothing but the job and what is recorded.           *)
LEMMA PlainTurn ==
    ASSUME TypeInv, Honest, NEW j \in Jobs, NEW s, Shape(s), Turn(j, s),
           ~ Between(j), Ready(s), Keeps(j, s), UNCHANGED <<local, kv>>
    PROVE  Honest'
<1>1. Turns(j, s) /\ Shown(local', kv') = Shown(local, kv) /\ Lasts(kv', Current)
  BY TurnTurns, ShownStays DEF Honest
<1> QED
  BY <1>1, QuietTurn

LEMMA StartStays ==
    ASSUME TypeInv, Honest, NEW j \in Jobs, ApplyStart(j) \/ ScrapeStart(j) \/ Look(j)
    PROVE  Honest'
<1>1. ASSUME NEW r, Shape(r), r.pc = "first", Load(j, r), ~ Active(j),
             UNCHANGED <<local, kv, known>>
      PROVE  Honest'
  <2>1. job[j].pc = "idle"
    BY <1>1 DEF Active
  <2>2. PICK s : Shape(s) /\ Turn(j, s) /\ Ready(s) /\ Pending(s) = {}
    BY <1>1, LoadIsReady
  <2>3. Keeps(j, s) /\ ~ Between(j)
    BY <1>1, <2>1, <2>2, OfJob DEF Keeps, Pending
  <2> QED
    BY <1>1, <2>2, <2>3, PlainTurn
<1>2. CASE ApplyStart(j)
  <2>1. PICK batch \in SUBSET {m \in posted : Home[m] \in Configured} \ {{}} :
              Load(j, [Idle EXCEPT !.kind = "apply", !.pc = "first", !.news = batch,
                                   !.scope = {Home[m] : m \in batch}])
    BY <1>2 DEF ApplyStart
  <2> DEFINE r == [Idle EXCEPT !.kind = "apply", !.pc = "first", !.news = batch,
                               !.scope = {Home[m] : m \in batch}]
  <2>2. Shape(r) /\ r.pc = "first"
    BY StartsHaveShape DEF Idle
  <2>3. ~ Active(j) /\ UNCHANGED <<local, kv, known>>
    BY <1>2 DEF ApplyStart
  <2> HIDE DEF r
  <2>4. Load(j, r)
    BY <2>1 DEF r
  <2> QED
    BY <1>1, <2>2, <2>3, <2>4
<1>3. CASE ScrapeStart(j)
  <2> DEFINE r == [Idle EXCEPT !.kind = "scrape", !.pc = "first"]
  <2>1. Shape(r) /\ r.pc = "first"
    BY StartsHaveShape DEF Idle
  <2>2. Load(j, r) /\ ~ Active(j) /\ UNCHANGED <<local, kv, known>>
    BY <1>3 DEF ScrapeStart
  <2> HIDE DEF r
  <2> QED
    BY <1>1, <2>1, <2>2
<1>4. CASE Look(j)
  <2> DEFINE r == [Idle EXCEPT !.kind = "look", !.pc = "first"]
  <2>1. Shape(r) /\ r.pc = "first"
    BY StartsHaveShape DEF Idle
  <2>2. Load(j, r) /\ ~ Active(j) /\ UNCHANGED <<local, kv, known>>
    BY <1>4 DEF Look
  <2> HIDE DEF r
  <2> QED
    BY <1>1, <2>1, <2>2
<1> QED
  BY <1>2, <1>3, <1>4

LEMMA SelectStays ==
    ASSUME TypeInv, Honest, NEW j \in Jobs, Select(j) \/ Fetch(j)
    PROVE  Honest'
<1>1. ASSUME NEW s, Shape(s), Turn(j, s), job[j].pc \in {"select", "fetch"},
             s.pc \in {"fetch", "record"}, s.prev = job[j].prev, s.missed = job[j].missed,
             UNCHANGED <<local, kv, known>>
      PROVE  Honest'
  <2>1. ~ Between(j) /\ Knows(job[j])
    BY <1>1, OfJob DEF Early
  <2>2. Ready(s) /\ Keeps(j, s)
    BY <1>1, <2>1 DEF Ready, Behind, Knows, Early, Keeps, Pending
  <2> QED
    BY <1>1, <2>1, <2>2, PlainTurn
<1>2. Shape(job[j])
  BY DEF TypeInv
<1>3. CASE Select(j)
  <2>1. PICK cycle \in SUBSET Channels : Turn(j, [job[j] EXCEPT !.scope = cycle, !.pc = "fetch"])
    BY <1>3 DEF Select
  <2> DEFINE s == [job[j] EXCEPT !.scope = cycle, !.pc = "fetch"]
  <2>2. job[j].pc = "select" /\ UNCHANGED <<local, kv, known>>
    BY <1>3 DEF Select, At
  <2>3. job[j].kind = "scrape" /\ job[j].news = {}
    BY <1>2, <2>2 DEF Shape
  <2>4. Shape(s) /\ s.pc = "fetch" /\ s.prev = job[j].prev /\ s.missed = job[j].missed
    BY <1>2, <2>2, <2>3 DEF Shape, Places
  <2> HIDE DEF s
  <2>5. Turn(j, s)
    BY <2>1 DEF s
  <2> QED
    BY <1>1, <2>2, <2>4, <2>5
<1>4. CASE Fetch(j)
  <2> DEFINE news(fetched) == UNION {Page(c) \ Prior(job[j].prev)[c] : c \in fetched} \ seen
             s(fetched) == [job[j] EXCEPT !.pc = "record", !.news = news(fetched)]
  <2>1. PICK fetched \in SUBSET job[j].scope : Turn(j, s(fetched))
    BY <1>4 DEF Fetch
  <2>2. job[j].pc = "fetch" /\ UNCHANGED <<local, kv, known>>
    BY <1>4 DEF Fetch, At
  <2>3. news(fetched) \subseteq posted /\ \A m \in news(fetched) : Home[m] \in job[j].scope
    BY DEF Page, Newest, In
  <2> HIDE DEF news
  <2>4. /\ Shape(s(fetched)) /\ s(fetched).pc = "record"
        /\ s(fetched).prev = job[j].prev /\ s(fetched).missed = job[j].missed
    BY <1>2, <2>2, <2>3 DEF Shape, Places
  <2> HIDE DEF s
  <2> QED
    BY <1>1, <2>1, <2>2, <2>4
<1> QED
  BY <1>3, <1>4

LEMMA RecordStays ==
    ASSUME TypeInv, Honest, NEW j \in Jobs, Record(j)
    PROVE  Honest'
<1> DEFINE r == [job[j] EXCEPT !.pc = "last"]
<1>1. /\ job[j].pc = "record" /\ Load(j, r) /\ known' = known \cup job[j].news
      /\ UNCHANGED <<local, kv>>
  BY DEF Record, At
<1>2. Shape(job[j]) /\ Knows(job[j]) /\ ~ Between(j)
  BY <1>1, OfJob DEF Early
<1>3. /\ Shape(r) /\ r.pc = "last" /\ r.news = job[j].news
      /\ r.prev = job[j].prev /\ r.missed = job[j].missed
  BY <1>1, <1>2 DEF Shape, Places
<1> HIDE DEF r
<1>4. Knows(r)
  BY <1>2, <1>3 DEF Knows
<1>5. PICK s : Shape(s) /\ Turn(j, s) /\ Ready(s) /\ Pending(s) = job[j].news
  BY <1>1, <1>3, <1>4, LoadIsReady
<1>6. Keeps(j, s)
  BY <1>1, <1>5 DEF Keeps, Pending
<1> QED
  BY <1>1, <1>2, <1>5, <1>6, PlainTurn

LEMMA IdleIsReady == Ready(Idle) /\ Pending(Idle) = {}
<1>1. Idle.pc = "idle"
  BY DEF Idle
<1> QED
  BY <1>1 DEF Ready, Behind, Early, Pending

LEMMA RecordFailsStays ==
    ASSUME TypeInv, Honest, NEW j \in Jobs, RecordFails(j), ~ lossy'
    PROVE  Honest'
<1> DEFINE rest == [job[j] EXCEPT !.news = {}, !.scope = @ \ {Home[m] : m \in job[j].news}]
           s == IF job[j].kind = "apply" THEN Idle ELSE rest
<1>1. job[j].pc = "record" /\ Turn(j, s) /\ UNCHANGED <<local, kv, known>>
  BY DEF RecordFails, At
<1>2. Shape(job[j]) /\ Knows(job[j]) /\ ~ Between(j)
  BY <1>1, OfJob DEF Early
<1>3. /\ Shape(rest) /\ rest.pc = "record" /\ rest.prev = job[j].prev
      /\ rest.missed = job[j].missed
  BY <1>1, <1>2 DEF Shape
<1> HIDE DEF rest
<1>4. Ready(rest) /\ Pending(rest) = {}
  BY <1>2, <1>3 DEF Ready, Behind, Knows, Early, Pending
<1>5. Shape(s) /\ Ready(s) /\ Pending(s) = {}
  BY <1>3, <1>4, IdleHasShape, IdleIsReady
<1> HIDE DEF s
<1>6. Keeps(j, s)
  BY <1>1, <1>5 DEF Keeps, Pending
<1> QED
  BY <1>1, <1>2, <1>5, <1>6, PlainTurn

LEMMA SaveFailsStays ==
    ASSUME TypeInv, Honest, NEW j \in Jobs, SaveFails(j), ~ lossy'
    PROVE  Honest'
<1>1. Turn(j, Idle) /\ ~ LosesWork(j) /\ UNCHANGED <<local, kv, known>>
  BY DEF SaveFails
<1>2. job[j].pc \in {"save", "mirror"}
  BY DEF SaveFails, At
<1>3. ~ Between(j) /\ Pending(job[j]) = {}
  BY <1>1, <1>2 DEF LosesWork, At, Pending
<1>4. Keeps(j, Idle)
  BY <1>1, <1>3, IdleIsReady DEF Keeps
<1> QED
  BY <1>1, <1>3, <1>4, IdleIsReady, IdleHasShape, PlainTurn

(* A step that moves no channel leaves what is shown.                      *)
LEMMA ShownIsFunction ==
    ASSUME NEW l, NEW k, l \in Contents \cup {None}, k \in Contents \cup {None}
    PROVE  Shown(l, k) \in Contents
  BY DEF Shown, Prior, Contents

LEMMA NothingMoved ==
    ASSUME TypeInv, TypeInv', Moved = {}
    PROVE  Shown(local', kv') = Shown(local, kv)
<1>1. /\ local \in Contents \cup {None} /\ kv \in Contents \cup {None}
      /\ local' \in Contents \cup {None} /\ kv' \in Contents \cup {None}
  BY DEF TypeInv, Trim, Contents
<1>2. Shown(local', kv') \in Contents /\ Shown(local, kv) \in Contents
  BY <1>1, ShownIsFunction
<1>3. \A c \in Channels : Shown(local', kv')[c] = Shown(local, kv)[c]
  BY DEF Moved
<1> QED
  BY <1>2, <1>3 DEF Contents

(* A save that moves no channel is a turn.                                 *)
LEMMA SavingTurns ==
    ASSUME TypeInv, NEW j \in Jobs, NEW s, Saving(j, s), Moved = {}
    PROVE  Turns(j, s)
<1>1. /\ \A k \in Jobs : Shape(job[k])
      /\ job' = [k \in Jobs |->
              IF k = j THEN s
              ELSE IF Active(k) THEN [job[k] EXCEPT !.missed = @ \cup Moved, !.late = @ \cup Moved]
              ELSE Idle]
  BY DEF TypeInv, Saving
<1>2. \A k \in Jobs : [job[k] EXCEPT !.missed = @ \cup Moved, !.late = @ \cup Moved] = job[k]
  BY <1>1 DEF Shape
<1>3. \A k \in Jobs : ~ Active(k) => job[k] = Idle
  BY <1>1 DEF Active, Shape
<1> QED
  BY <1>1, <1>2, <1>3 DEF Turns

LEMMA KvAnswersStays ==
    ASSUME TypeInv, TypeInv', Honest, NEW j \in Jobs, KvAnswers(j), ~ lossy'
    PROVE  Honest'
<1> DEFINE v == IF At(j, {"first"}) THEN job[j].prev ELSE job[j].out
           s == Loaded(job[j], v)
<1>1. /\ job[j].pc \in {"first", "last"} /\ Saving(j, s) /\ Moved = {} /\ ~ Hides(j)
      /\ UNCHANGED <<kv, known>>
  BY DEF KvAnswers, At
<1>2. /\ Shape(job[j]) /\ Behind(job[j], Shown(local, kv), Current)
      /\ Lasts(job[j].prev, Current) /\ Knows(job[j]) /\ ~ Between(j)
  BY <1>1, OfJob DEF Early
<1>3. ~ \E k \in Jobs : Between(k)
  BY <1>1, <1>2 DEF Hides
<1>4. Turns(j, s) /\ Shown(local', kv') = Shown(local, kv)
  BY <1>1, SavingTurns, NothingMoved
<1>5. v \in Contents \cup {None} /\ (v # None => Trim(v))
  BY <1>2 DEF Shape
<1>6. Shape(s)
  BY <1>1, <1>2, <1>5, LoadedHasShape
<1>7. Ready(s) /\ Pending(s) = Pending(job[j])
  <2>1. CASE job[j].pc = "first"
    <3>1. v = job[j].prev
      BY <2>1 DEF At
    <3>2. \A c \in Channels \ job[j].missed : Prior(v)[c] = Shown(local, kv)[c]
      BY <1>2, <3>1 DEF Knows
    <3> HIDE DEF v
    <3>3. Ready(Loaded(job[j], v)) /\ Pending(Loaded(job[j], v)) = {}
      BY <1>2, <2>1, <3>1, <3>2, FirstIsReady
    <3> QED
      BY <2>1, <3>3 DEF Pending
  <2>2. CASE job[j].pc = "last"
    <3>1. v = job[j].out
      BY <2>2 DEF At
    <3>2. \A c \in Channels \ job[j].late : Prior(v)[c] = Shown(local, kv)[c]
      BY <1>2, <2>2, <3>1 DEF Behind
    <3> HIDE DEF v
    <3>3. Ready(Loaded(job[j], v)) /\ Pending(Loaded(job[j], v)) = job[j].news
      BY <1>2, <1>5, <2>2, <3>2, LastIsReady
    <3> QED
      BY <2>2, <3>3 DEF Pending
  <2> QED
    BY <1>1, <2>1, <2>2
<1> HIDE DEF s, v
<1>8. Keeps(j, s) /\ Lasts(kv', Current)
  BY <1>1, <1>7 DEF Keeps, Honest
<1> QED
  BY <1>2, <1>3, <1>4, <1>6, <1>7, <1>8, QuietTurn

-----------------------------------------------------------------------------
(* The two saves.                                                          *)

(* The other jobs take note of a save and are else as they were.           *)
LEMMA OthersNote ==
    ASSUME TypeInv, NEW j \in Jobs, NEW s, Saving(j, s), NEW k \in Jobs \ {j}
    PROVE  /\ job'[k].pc = job[k].pc /\ job'[k].scope = job[k].scope
           /\ job'[k].news = job[k].news
           /\ job'[k].prev = job[k].prev /\ job'[k].out = job[k].out
           /\ job[k].pc # "idle" => /\ job'[k].missed = job[k].missed \cup Moved
                                    /\ job'[k].late = job[k].late \cup Moved
<1>1. Shape(job[k])
  BY DEF TypeInv
<1>2. CASE Active(k)
  <2>1. job'[k] = [job[k] EXCEPT !.missed = @ \cup Moved, !.late = @ \cup Moved]
    BY <1>2 DEF Saving
  <2> QED
    BY <1>1, <2>1 DEF Shape
<1>3. CASE ~ Active(k)
  <2>1. job'[k] = Idle /\ job[k] = Idle
    BY <1>1, <1>3 DEF Saving, Active, Shape
  <2> QED
    BY <1>3, <2>1 DEF Active
<1> QED
  BY <1>2, <1>3

(* They stay behind what is shown by no more than they know.               *)
LEMMA OthersBehind ==
    ASSUME TypeInv, Honest, NEW j \in Jobs, NEW s, Saving(j, s), NEW k \in Jobs \ {j},
           NEW current,
           \A c \in Channels : Shown(local, kv)[c] = {} /\ (\A t \in Current : t[c] # {})
              => c \in Moved \/ \A t \in current : t[c] # {}
    PROVE  Behind(job'[k], Shown(local', kv'), current)
<1> DEFINE r == job[k]
           q == job'[k]
           shown == Shown(local, kv)
           next == Shown(local', kv')
<1>1. /\ q.pc = r.pc /\ q.scope = r.scope /\ q.news = r.news
      /\ q.prev = r.prev /\ q.out = r.out
      /\ r.pc # "idle" => q.missed = r.missed \cup Moved /\ q.late = r.late \cup Moved
  BY OthersNote
<1>2. Behind(r, shown, Current)
  BY DEF Honest
<1>3. \A c \in Channels \ Moved : next[c] = shown[c]
  BY DEF Moved
<1>4. r.scope \subseteq Channels
  BY DEF TypeInv, Shape
<1> HIDE DEF r, q, shown, next
<1>5. q.pc \in Early => \A c \in Channels \ q.missed : Prior(q.prev)[c] = next[c]
  BY <1>1, <1>2, <1>3 DEF Behind, Early
<1>6. q.pc = "last" => \A c \in Channels \ q.late : Prior(q.out)[c] = next[c]
  BY <1>1, <1>2, <1>3 DEF Behind
<1>7. q.pc = "save" => \A c \in q.scope \ q.missed :
                          q.out[c] = Newest((q.news \cap In(c)) \cup next[c], Keep)
  BY <1>1, <1>2, <1>3, <1>4 DEF Behind
<1>8. q.pc = "save" => \A c \in Channels \ (q.scope \cup q.late) :
                          \/ q.out[c] = next[c]
                          \/ next[c] = {} /\ \A t \in current : t[c] # {}
  BY <1>1, <1>2, <1>3 DEF Behind, shown
<1>9. q.pc = "mirror" /\ Fits(q.out) => \A c \in Channels \ q.late : q.out[c] = next[c]
  BY <1>1, <1>2, <1>3 DEF Behind
<1>10. Behind(q, next, current)
  BY <1>5, <1>6, <1>7, <1>8, <1>9 DEF Behind
<1> QED
  BY <1>10 DEF q, next

(* What must hold after a save, put together.                              *)
LEMMA HonestAfter ==
    ASSUME NEW current, NEW shown, current = Current', shown = Shown(local', kv'),
           \A j, k \in Jobs : Between(j)' /\ Between(k)' => j = k,
           \A j \in Jobs : Between(j)' => local' = None,
           \A j \in Jobs : Behind(job'[j], shown, current),
           \A s \in current : \A c \in Channels :
              Newest(known' \cap In(c), Keep) = Newest(s[c] \cup Unsaved(c)', Keep),
           Lasts(kv', current),
           \A j \in Jobs : job'[j].pc \in Early => Lasts(job'[j].prev, current)
    PROVE  Honest'
<1>1. Shown(local, kv)' = shown
  BY DEF Shown, Prior
<1>2. \A j \in Jobs : Behind(job[j], Shown(local, kv), Current)'
  <2>1. \A j \in Jobs : Behind(job'[j], Shown(local, kv)', Current')
    BY <1>1
  <2> QED
    BY <2>1 DEF Behind, Prior, Newest, In, Fits, Early
<1>3. \A x \in Current' : \A c \in Channels :
           (Newest(known \cap In(c), Keep))' = Newest(x[c] \cup Unsaved(c)', Keep)
  BY DEF Newest, In
<1>4. Lasts(kv, Current)'
  BY DEF Lasts, Prior
<1>5. \A j \in Jobs : (job[j].pc \in Early => Lasts(job[j].prev, Current))'
  BY DEF Lasts, Prior, Early
<1> QED
  BY <1>2, <1>3, <1>4, <1>5 DEF Honest, Newest, In

(* The state a job puts into the object's storage is made of what is shown *)
(* then, if the job has missed nothing of it.                              *)
LEMMA SavedOverShown ==
    ASSUME TypeInv, Honest, NEW j \in Jobs, job[j].pc = "save", ~ Overwrites(j),
           Current = {Shown(local, kv)}, NEW c \in Channels
    PROVE  job[j].out[c] =
              IF c \in job[j].scope THEN Newest((job[j].news \cap In(c)) \cup Shown(local, kv)[c], Keep)
              ELSE Shown(local, kv)[c]
<1>1. job[j].missed \cap job[j].scope = {} /\ job[j].late = {}
  BY DEF Overwrites
<1>2. Behind(job[j], Shown(local, kv), Current)
  BY DEF Honest
<1> DEFINE shown == Shown(local, kv)
<1>3. Current = {shown}
  OBVIOUS
<1> HIDE DEF shown
<1>4. CASE c \in job[j].scope
  BY <1>1, <1>2, <1>4 DEF Behind, shown
<1>5. CASE c \notin job[j].scope
  <2>1. \/ job[j].out[c] = shown[c]
        \/ shown[c] = {} /\ \A s \in Current : s[c] # {}
    BY <1>1, <1>2, <1>5 DEF Behind, shown
  <2> QED
    BY <1>3, <1>5, <2>1 DEF shown
<1> QED
  BY <1>4, <1>5

LEMMA SaveLocalStays ==
    ASSUME TypeInv, TypeInv', Honest, NEW j \in Jobs, SaveLocal(j), ~ lossy'
    PROVE  Honest'
<1> DEFINE shown == Shown(local, kv)
           out == job[j].out
           P(c) == job[j].news \cap In(c)
           s == [job[j] EXCEPT !.pc = "mirror"]
<1>1. /\ job[j].pc = "save" /\ Saving(j, s) /\ ~ Overwrites(j) /\ ~ Hides(j)
      /\ local' = (IF Fits(out) THEN out ELSE None) /\ UNCHANGED <<kv, known>>
  BY DEF SaveLocal, At
<1>2. /\ Shape(job[j]) /\ ~ Between(j) /\ Trim(out) /\ out # None /\ Trim(shown)
  BY <1>1, OfJob, ShownIsTrim DEF Shape
<1>3. /\ ~ \E k \in Jobs : Between(k)
      /\ Current = {shown}
  <2>1. ~ \E k \in Jobs : Between(k)
    BY <1>1, <1>2 DEF Hides
  <2> QED
    BY <2>1, CurrentAlone
<1>4. \A c \in Channels :
         out[c] = IF c \in job[j].scope THEN Newest(P(c) \cup shown[c], Keep) ELSE shown[c]
  BY <1>1, <1>3, SavedOverShown
<1>5. /\ job'[j] = s /\ s.pc = "mirror" /\ s.out = out /\ s.late = {}
      /\ \A k \in Jobs \ {j} : job'[k].pc = job[k].pc /\ job'[k].out = job[k].out
                               /\ job'[k].prev = job[k].prev /\ job'[k].news = job[k].news
  BY <1>1, <1>2, OthersNote DEF Saving, Shape, Overwrites
<1> HIDE DEF shown, out, s
<1>6. \A k \in Jobs : Between(k)' <=> k = j /\ ~ Fits(out)
  <2>1. \A k \in Jobs : Between(k)' <=> job'[k].pc = "mirror" /\ ~ Fits(job'[k].out)
    BY DEF Between, At, Fits
  <2>2. \A k \in Jobs : job[k].pc = "mirror" => Fits(job[k].out)
    BY <1>3 DEF Between, At
  <2> QED
    BY <1>5, <2>1, <2>2
<1>7. Current' = {out} /\ (Fits(out) => Shown(local', kv') = out)
  <2>1. Fits(out) => Shown(local', kv') = out
    BY <1>1, <1>2 DEF Shown, Prior
  <2>2. CASE Fits(out)
    <3>1. Current' = {Shown(local, kv)'}
      BY <1>6, <2>2 DEF Current
    <3>2. Shown(local, kv)' = Shown(local', kv')
      BY DEF Shown, Prior
    <3> QED
      BY <2>1, <2>2, <3>1, <3>2
  <2>3. CASE ~ Fits(out)
    <3>1. Current' = {job'[k].out : k \in {l \in Jobs : Between(l)'}}
      BY <1>6, <2>3 DEF Current
    <3>2. {l \in Jobs : Between(l)'} = {j}
      BY <1>6, <2>3
    <3> QED
      BY <1>5, <2>1, <3>1, <3>2
  <2> QED
    BY <2>2, <2>3, <2>1
<1>8. \A c \in Channels : shown[c] # {} => out[c] # {}
  <2> SUFFICES ASSUME NEW c \in Channels, shown[c] # {}
               PROVE  out[c] # {}
    OBVIOUS
  <2> DEFINE S == P(c) \cup shown[c]
  <2>1. IsFiniteSet(S) /\ S \subseteq Int /\ S # {}
    <3>1. S \subseteq posted
      BY <1>2 DEF Shape, Trim
    <3> QED
      BY <3>1, PostedIsFinite
  <2> HIDE DEF S
  <2>2. Newest(S, Keep) # {}
    BY <2>1, NewestNonempty, Assumed
  <2> QED
    BY <1>4, <2>2 DEF S
<1>9. \A x : Lasts(x, Current) => Lasts(x, Current')
  BY <1>3, <1>7, <1>8 DEF Lasts
<1>10. \A k \in Jobs : Behind(job'[k], Shown(local', kv'), Current')
  <2>1. Behind(job'[j], Shown(local', kv'), Current')
    BY <1>5, <1>7 DEF Behind, Early
  <2>2. ASSUME NEW k \in Jobs \ {j}
        PROVE  Behind(job'[k], Shown(local', kv'), Current')
    <3>1. \A c \in Channels : ~ (Shown(local, kv)[c] = {} /\ \A t \in Current : t[c] # {})
      BY <1>3 DEF shown
    <3> DEFINE current == Current'
    <3> HIDE DEF current
    <3>2. Behind(job'[k], Shown(local', kv'), current)
      BY <1>1, <3>1, OthersBehind
    <3> QED
      BY <3>2 DEF current
  <2> QED
    BY <2>1, <2>2
<1>11. \A c \in Channels : Newest(known' \cap In(c), Keep) = Newest(out[c] \cup Unsaved(c)', Keep)
  <2> SUFFICES ASSUME NEW c \in Channels
               PROVE  Newest(known' \cap In(c), Keep) = Newest(out[c] \cup Unsaved(c)', Keep)
    OBVIOUS
  <2> DEFINE U == Unsaved(c)'
  <2>1. Newest(known \cap In(c), Keep) = Newest(shown[c] \cup Unsaved(c), Keep)
    BY <1>3 DEF Honest
  <2>2. Pending(job'[j]) = {} /\ Pending(job[j]) = job[j].news
    BY <1>1, <1>5 DEF Pending
  <2>3. \A k \in Jobs \ {j} : Pending(job'[k]) = Pending(job[k])
    BY <1>5 DEF Pending
  <2>4. U = {m \in In(c) : \E k \in Jobs : m \in Pending(job'[k])}
    BY DEF Unsaved, In, Pending
  <2>5. Unsaved(c) = P(c) \cup U
    <3>1. ASSUME NEW m \in In(c)
          PROVE  (\E k \in Jobs : m \in Pending(job[k]))
                    <=> m \in job[j].news \/ \E k \in Jobs : m \in Pending(job'[k])
      BY <2>2, <2>3
    <3> QED
      BY <2>4, <3>1 DEF Unsaved
  <2>6. P(c) \subseteq posted /\ U \subseteq posted /\ shown[c] \subseteq posted
    BY <1>2, <2>5, UnsavedIsPosted DEF Shape, Trim
  <2> HIDE DEF U
  <2>7. CASE c \in job[j].scope
    <3> DEFINE K == P(c) \cup shown[c]
    <3>1. /\ IsFiniteSet(K) /\ K \subseteq Int /\ IsFiniteSet(U) /\ U \subseteq Int
      <4>1. K \subseteq posted
        BY <2>6
      <4> QED
        BY <2>6, <4>1, PostedIsFinite
    <3> HIDE DEF K
    <3>2. Newest(U \cup Newest(K, Keep), Keep) = Newest(U \cup K, Keep)
      BY <3>1, NewestOfKept, Assumed
    <3>3. out[c] = Newest(K, Keep)
      BY <1>4, <2>7 DEF K
    <3>4. U \cup K = shown[c] \cup Unsaved(c)
      BY <2>5 DEF K
    <3>5. out[c] \cup U = U \cup Newest(K, Keep)
      BY <3>3
    <3> QED
      BY <1>1, <2>1, <3>2, <3>4, <3>5 DEF U
  <2>8. CASE c \notin job[j].scope
    <3>1. P(c) = {}
      BY <1>2, <2>8 DEF Shape, In
    <3>2. out[c] = shown[c] /\ Unsaved(c) = U
      BY <1>4, <2>5, <2>8, <3>1
    <3> QED
      BY <1>1, <2>1, <3>2 DEF U
  <2> QED
    BY <2>7, <2>8
<1>12. Lasts(kv', Current')
  BY <1>1, <1>9 DEF Honest
<1>13. \A k \in Jobs : job'[k].pc \in Early => Lasts(job'[k].prev, Current')
  <2>1. \A k \in Jobs \ {j} : job[k].pc \in Early => Lasts(job[k].prev, Current')
    BY <1>9 DEF Honest
  <2> QED
    BY <1>5, <2>1 DEF Early
<1>14. \A k \in Jobs : Between(k)' => local' = None
  BY <1>1, <1>6
<1>15. \A x \in Current' : \A c \in Channels :
          Newest(known' \cap In(c), Keep) = Newest(x[c] \cup Unsaved(c)', Keep)
  BY <1>7, <1>11
<1> QED
  BY <1>6, <1>10, <1>12, <1>13, <1>14, <1>15, HonestAfter

LEMMA MirrorStays ==
    ASSUME TypeInv, TypeInv', Honest, NEW j \in Jobs, Mirror(j), ~ lossy'
    PROVE  Honest'
<1> DEFINE out == job[j].out
           shown == Shown(local, kv)
<1>1. /\ job[j].pc = "mirror" /\ Saving(j, Idle) /\ ~ Overwrites(j)
      /\ kv' = out /\ UNCHANGED <<local, known>>
  BY DEF Mirror, At
<1>2. /\ Shape(job[j]) /\ Trim(out) /\ out # None /\ Trim(shown)
      /\ Behind(job[j], shown, Current) /\ job[j].late = {}
  BY <1>1, OfJob, ShownIsTrim DEF Shape, Overwrites
<1>3. Pending(job[j]) = {} /\ Prior(out) = out
  BY <1>1, <1>2 DEF Pending, Prior
<1>4. CASE ~ Between(j)
  <2>1. \A c \in Channels : out[c] = shown[c]
    BY <1>1, <1>2, <1>4 DEF Between, At, Behind
  <2>2. out = shown
    BY <1>2, <2>1 DEF Trim, Contents
  <2>3. Shown(local', kv') = Shown(local, kv)
    BY <1>1, <1>3, <2>2 DEF Shown
  <2>4. Moved = {}
    BY <2>3 DEF Moved
  <2>5. Turns(j, Idle)
    BY <1>1, <2>4, SavingTurns
  <2>6. Lasts(kv', Current)
    <3>1. CASE local # None
      BY <1>1, <1>3, <2>2, <3>1, LocalIsShown DEF Lasts
    <3>2. CASE local = None
      <4>1. Prior(kv) = shown
        BY <3>2 DEF Shown
      <4>2. Lasts(kv, Current)
        BY DEF Honest
      <4> QED
        BY <1>1, <1>3, <2>2, <4>1, <4>2 DEF Lasts
    <3> QED
      BY <3>1, <3>2
  <2>7. Keeps(j, Idle)
    BY <1>1, <1>3, IdleIsReady DEF Keeps
  <2> QED
    BY <1>1, <1>4, <2>3, <2>5, <2>6, <2>7, IdleIsReady, IdleHasShape, QuietTurn
<1>5. CASE Between(j)
  <2>1. local = None /\ Current = {out} /\ \A k \in Jobs \ {j} : ~ Between(k)
    BY <1>5, CurrentBetween DEF Honest
  <2>2. Shown(local', kv') = out
    BY <1>1, <1>3, <2>1 DEF Shown
  <2>3. /\ job'[j] = Idle /\ Idle.pc = "idle"
        /\ \A k \in Jobs \ {j} : job'[k].pc = job[k].pc /\ job'[k].out = job[k].out
                                 /\ job'[k].prev = job[k].prev /\ job'[k].news = job[k].news
    BY <1>1, OthersNote DEF Saving, Idle
  <2> HIDE DEF out, shown
  <2>4. \A k \in Jobs : ~ Between(k)'
    <3>1. \A k \in Jobs : Between(k)' <=> job'[k].pc = "mirror" /\ ~ Fits(job'[k].out)
      BY DEF Between, At, Fits
    <3>2. \A k \in Jobs \ {j} : job[k].pc = "mirror" => Fits(job[k].out)
      BY <2>1 DEF Between, At
    <3> QED
      BY <2>3, <3>1, <3>2
  <2>5. Current' = Current
    <3>1. Current' = {Shown(local, kv)'}
      BY <2>4 DEF Current
    <3>2. Shown(local, kv)' = Shown(local', kv')
      BY DEF Shown, Prior
    <3> QED
      BY <2>1, <2>2, <3>1, <3>2
  <2>6. \A k \in Jobs : Pending(job'[k]) = Pending(job[k])
    BY <1>3, <2>3, IdleIsReady DEF Pending
  <2>7. \A c \in Channels : Unsaved(c)' = Unsaved(c)
    <3>1. \A c \in Channels : Unsaved(c)' = {m \in In(c) : \E k \in Jobs : m \in Pending(job'[k])}
      BY DEF Unsaved, In, Pending
    <3> QED
      BY <2>6, <3>1 DEF Unsaved
  <2>8. \A k \in Jobs : Behind(job'[k], Shown(local', kv'), Current')
    <3>1. Behind(job'[j], Shown(local', kv'), Current')
      BY <2>3 DEF Behind, Early
    <3>2. \A c \in Channels : Shown(local, kv)[c] = {} /\ (\A t \in Current : t[c] # {}) => c \in Moved
      BY <2>1, <2>2 DEF Moved
    <3>3. \A k \in Jobs \ {j} : Behind(job'[k], Shown(local', kv'), Current)
      BY <1>1, <3>2, OthersBehind
    <3> QED
      BY <2>5, <3>1, <3>3
  <2>9. \A x \in Current' : \A c \in Channels :
           Newest(known' \cap In(c), Keep) = Newest(x[c] \cup Unsaved(c)', Keep)
    BY <1>1, <2>5, <2>7 DEF Honest
  <2>10. Lasts(kv', Current')
    BY <1>1, <1>3, <2>1, <2>5 DEF Lasts
  <2>11. \A k \in Jobs : job'[k].pc \in Early => Lasts(job'[k].prev, Current')
    <3>1. \A k \in Jobs \ {j} : job[k].pc \in Early => Lasts(job[k].prev, Current)
      BY DEF Honest
    <3> QED
      BY <2>3, <2>5, <3>1 DEF Early
  <2> QED
    BY <2>4, <2>8, <2>9, <2>10, <2>11, HonestAfter
<1> QED
  BY <1>4, <1>5

LEMMA RestartStays ==
    ASSUME TypeInv, Honest, Restart, ~ lossy'
    PROVE  Honest'
<1>1. /\ job' = [j \in Jobs |-> Idle] /\ \A j \in Jobs : ~ LosesWork(j)
      /\ UNCHANGED <<local, kv, known>>
  BY DEF Restart
<1>2. \A j \in Jobs : ~ Between(j) /\ Pending(job[j]) = {}
  BY <1>1 DEF LosesWork, At, Pending
<1>3. \A j \in Jobs : job'[j] = Idle /\ job'[j].pc = "idle" /\ Pending(job'[j]) = {}
  BY <1>1, IdleIsReady DEF Idle
<1>4. \A j \in Jobs : ~ Between(j)'
  BY <1>3 DEF Between, At
<1>5. Current' = Current
  <2>1. Current = {Shown(local, kv)}
    BY <1>2, CurrentAlone
  <2>2. Current' = {Shown(local, kv)'}
    BY <1>4 DEF Current
  <2>3. Shown(local, kv)' = Shown(local, kv)
    BY <1>1 DEF Shown, Prior
  <2> QED
    BY <2>1, <2>2, <2>3
<1>6. \A c \in Channels : Unsaved(c)' = Unsaved(c)
  <2>1. \A c \in Channels : Unsaved(c)' = {m \in In(c) : \E k \in Jobs : m \in Pending(job'[k])}
    BY DEF Unsaved, In, Pending
  <2> QED
    BY <1>2, <1>3, <2>1 DEF Unsaved
<1>7. \A j \in Jobs : Behind(job'[j], Shown(local', kv'), Current')
  BY <1>3 DEF Behind, Early
<1>8. \A x \in Current' : \A c \in Channels :
         Newest(known' \cap In(c), Keep) = Newest(x[c] \cup Unsaved(c)', Keep)
  BY <1>1, <1>5, <1>6 DEF Honest
<1>9. Lasts(kv', Current')
  BY <1>1, <1>5 DEF Honest
<1>10. \A j \in Jobs : job'[j].pc \in Early => Lasts(job'[j].prev, Current')
  BY <1>3 DEF Early
<1> QED
  BY <1>4, <1>7, <1>8, <1>9, <1>10, HonestAfter

(* Nothing of it is about what Telegram has or the flag.                   *)
LEMMA StillHonest ==
    ASSUME Honest, UNCHANGED <<local, kv, job, known>>
    PROVE  Honest'
<1>1. \A j \in Jobs : Between(j)' <=> Between(j)
  BY DEF Between, At, Fits
<1>2. Current' = Current
  <2>1. Shown(local, kv)' = Shown(local, kv)
    BY DEF Shown, Prior
  <2> QED
    BY <1>1, <2>1 DEF Current
<1>3. \A c \in Channels : Unsaved(c)' = Unsaved(c)
  <2>1. \A c \in Channels : Unsaved(c)' = {m \in In(c) : \E k \in Jobs : m \in Pending(job'[k])}
    BY DEF Unsaved, In, Pending
  <2> QED
    BY <2>1 DEF Unsaved
<1>4. /\ \A j, k \in Jobs : Between(j)' /\ Between(k)' => j = k
      /\ \A j \in Jobs : Between(j)' => local' = None
      /\ \A j \in Jobs : Behind(job'[j], Shown(local', kv'), Current')
      /\ \A x \in Current' : \A c \in Channels :
            Newest(known' \cap In(c), Keep) = Newest(x[c] \cup Unsaved(c)', Keep)
      /\ Lasts(kv', Current')
      /\ \A j \in Jobs : job'[j].pc \in Early => Lasts(job'[j].prev, Current')
  BY <1>1, <1>2, <1>3 DEF Honest
<1> QED
  BY <1>4, HonestAfter

LEMMA ActsStayHonest ==
    ASSUME TypeInv, TypeInv', Honest, NEW j \in Jobs, Acts(j), ~ lossy'
    PROVE  Honest'
<1>1. CASE ApplyStart(j) \/ ScrapeStart(j) \/ Look(j)
  BY <1>1, StartStays
<1>2. CASE Select(j) \/ Fetch(j)
  BY <1>2, SelectStays
<1>3. CASE KvAnswers(j)
  BY <1>3, KvAnswersStays
<1>4. CASE Record(j)
  BY <1>4, RecordStays
<1>5. CASE RecordFails(j)
  BY <1>5, RecordFailsStays
<1>6. CASE SaveLocal(j)
  BY <1>6, SaveLocalStays
<1>7. CASE Mirror(j)
  BY <1>7, MirrorStays
<1>8. CASE SaveFails(j)
  BY <1>8, SaveFailsStays
<1> QED
  BY <1>1, <1>2, <1>3, <1>4, <1>5, <1>6, <1>7, <1>8 DEF Acts

(* What was once written over stays so.                                    *)
LEMMA LossyStays ==
    ASSUME [Next]_vars, lossy
    PROVE  lossy'
<1>1. ASSUME NEW j \in Jobs, Acts(j)
      PROVE  lossy'
  BY <1>1 DEF Acts, ApplyStart, ScrapeStart, Look, KvAnswers, Select, Fetch, Record,
              RecordFails, SaveLocal, Mirror, SaveFails
<1> QED
  BY <1>1, NextActs DEF Post, Restart, vars

LEMMA HonestHolds == Init => HonestInv
<1> SUFFICES ASSUME Init
             PROVE  Honest
  BY DEF HonestInv
<1>1. /\ local = None /\ kv = None /\ known = {} /\ job = [j \in Jobs |-> Idle]
      /\ Idle.pc = "idle"
  BY DEF Init, Idle
<1>2. \A j \in Jobs : job[j] = Idle /\ job[j].pc = "idle" /\ Pending(job[j]) = {}
  BY <1>1, IdleIsReady
<1>3. \A j \in Jobs : ~ Between(j)
  BY <1>2 DEF Between, At
<1>4. Current = {[c \in Channels |-> {}]}
  BY <1>1, <1>3, CurrentAlone DEF Shown, Prior
<1>5. \A c \in Channels : Unsaved(c) = {}
  BY <1>2 DEF Unsaved
<1>6. \A s \in Current : \A c \in Channels :
         Newest(known \cap In(c), Keep) = Newest(s[c] \cup Unsaved(c), Keep)
  BY <1>1, <1>4, <1>5
<1>7. \A j \in Jobs : Behind(job[j], Shown(local, kv), Current)
  BY <1>2 DEF Behind, Early
<1>8. Lasts(kv, Current)
  BY <1>1, NoneLasts
<1>9. \A j \in Jobs : job[j].pc \in Early => Lasts(job[j].prev, Current)
  BY <1>2 DEF Early
<1> QED
  BY <1>3, <1>6, <1>7, <1>8, <1>9 DEF Honest

LEMMA HonestStep == TypeInv /\ TypeInv' /\ HonestInv /\ [Next]_vars => HonestInv'
<1> SUFFICES ASSUME TypeInv, TypeInv', HonestInv, [Next]_vars, ~ lossy'
             PROVE  Honest'
  BY DEF HonestInv
<1>1. Honest
  BY LossyStays DEF HonestInv
<1>2. CASE \E m \in Messages : Post(m)
  <2>1. UNCHANGED <<local, kv, job, known>>
    BY <1>2 DEF Post
  <2> QED
    BY <1>1, <2>1, StillHonest
<1>3. CASE UNCHANGED vars
  <2>1. UNCHANGED <<local, kv, job, known>>
    BY <1>3 DEF vars
  <2> QED
    BY <1>1, <2>1, StillHonest
<1>4. CASE \E j \in Jobs : Acts(j)
  BY <1>1, <1>4, ActsStayHonest
<1>5. CASE Restart
  BY <1>1, <1>5, RestartStays
<1> QED
  BY <1>2, <1>3, <1>4, <1>5, NextActs

(* Between the jobs nothing is yet to be saved: what is shown is all there *)
(* is.                                                                     *)
LEMMA HonestMeans == TypeInv /\ HonestInv => ShowsNewest
<1> SUFFICES ASSUME TypeInv, Honest, ~ \E j \in Jobs : At(j, {"mirror"}),
                    NEW c \in Channels, \A j \in Jobs : c \notin job[j].scope
             PROVE  Shown(local, kv)[c] = Newest(known \cap In(c), Keep)
  BY DEF ShowsNewest, HonestInv
<1>1. Current = {Shown(local, kv)}
  BY CurrentAlone DEF Between
<1>2. Unsaved(c) = {}
  <2>1. ASSUME NEW j \in Jobs, NEW m \in Pending(job[j]), m \in In(c)
        PROVE  FALSE
    <3>1. m \in job[j].news /\ Home[m] = c
      BY <2>1 DEF Pending, In
    <3>2. Home[m] \in job[j].scope
      BY <3>1 DEF TypeInv, Shape
    <3> QED
      BY <3>1, <3>2
  <2> QED
    BY <2>1 DEF Unsaved
<1>3. Newest(known \cap In(c), Keep) = Newest(Shown(local, kv)[c] \cup Unsaved(c), Keep)
  BY <1>1 DEF Honest
<1>4. Newest(Shown(local, kv)[c], Keep) = Shown(local, kv)[c]
  BY ShownIsTrim DEF Trim
<1> QED
  BY <1>2, <1>3, <1>4

LEMMA TypeInvMeans == TypeInv => TypeOK
<1> SUFFICES ASSUME TypeInv
             PROVE  TypeOK
  OBVIOUS
<1>1. \A c \in Channels : Cardinality(Shown(local, kv)[c]) <= Keep
  <2> SUFFICES ASSUME NEW c \in Channels
               PROVE  Cardinality(Shown(local, kv)[c]) <= Keep
    OBVIOUS
  <2> DEFINE S == Shown(local, kv)[c]
  <2>1. Newest(S, Keep) = S
    BY ShownIsTrim DEF Trim
  <2>2. IsFiniteSet(S) /\ S \subseteq Int
    BY ShownIsTrim, TrimIsFinite
  <2> HIDE DEF S
  <2>3. Cardinality(Newest(S, Keep)) <= Keep
    BY <2>2, NewestBounded, Assumed
  <2> QED
    BY <2>1, <2>3 DEF S
<1>2. local \in Contents \cup {None} /\ kv \in Contents \cup {None}
  BY DEF TypeInv, Trim
<1>3. /\ posted \subseteq Messages /\ seen \subseteq known /\ known \subseteq posted
      /\ mtproto \subseteq Configured /\ isRunning \in BOOLEAN /\ lossy \in BOOLEAN
      /\ batches \in 0..MaxBatches /\ faults \in 0..MaxFaults
  BY DEF TypeInv
<1>4. \A j \in Jobs : /\ job[j].news \subseteq posted /\ job[j].scope \subseteq Channels
                      /\ {job[j].prev, job[j].out} \subseteq Contents \cup {None}
  BY DEF TypeInv, Shape
<1> QED
  BY <1>1, <1>2, <1>3, <1>4 DEF TypeOK

LEMMA InvariantAlways == Spec => [](TypeInv /\ ScrapeInv /\ HonestInv)
<1>1. Init => TypeInv /\ ScrapeInv /\ HonestInv
  BY TypeHolds, ScrapeHolds, HonestHolds
<1>2. TypeInv /\ ScrapeInv /\ HonestInv /\ [Next]_vars
          => (TypeInv /\ ScrapeInv /\ HonestInv)'
  BY TypeStep, ScrapeStep, HonestStep
<1> QED
  BY <1>1, <1>2, PTL DEF Spec

-----------------------------------------------------------------------------
(* Theorems.                                                               *)

(* Every variable keeps its shape, and no channel shows more messages than *)
(* are kept, however the loads and saves of all jobs fall.                 *)
THEOREM TypeCorrect == Spec => []TypeOK
  BY InvariantAlways, TypeInvMeans, PTL

(* Two scrapes never run at a time, and isRunning is set only while one    *)
(* does, so that nothing ends all scraping: for any number of jobs,        *)
(* failures and restarts.                                                  *)
THEOREM ScrapesExclude == Spec => []OneScrape
  BY InvariantAlways, ScrapeInvMeans, PTL

(* Unless a job wrote over another's work or was cut off, a channel nobody *)
(* works on shows exactly the newest of all messages ever recorded for it: *)
(* for any channels, jobs, messages and sizes, small or too large for the  *)
(* object's own copy.                                                      *)
THEOREM NewestAreShown == Spec => []ShowsNewest
  BY InvariantAlways, HonestMeans, PTL
=============================================================================
