----------------------------- MODULE UsageStore -----------------------------
(***************************************************************************)
(* Usage data in KV: seeding it, directly or through the seed queue, and   *)
(* answering RPC requests from it through the edge cache, which the        *)
(* schedule warms too.  A request and what it leaves to waitUntil end      *)
(* within Deadline.                                                        *)
(***************************************************************************)
EXTENDS Integers, FiniteSets, Sequences

CONSTANTS
    Keys,           \* KV keys a request can ask for: method, session, range
    Windows,        \* those the schedule warms
    Foreign,        \* a key without the prefix, or with too large a value
    Limits,         \* maxPoints and limit of requests
    Readers,
    Async,          \* USAGE_SEED_ASYNC
    CacheTtl,       \* USAGE_CACHE_TTL_SECONDS; 0 is no cache
    MaxRetries,     \* USAGE_BACKEND_MAX_RETRIES
    Remote,         \* USAGE_STORAGE_MODE is not kv
    BatchSize,      \* USAGE_SEED_ASYNC_BATCH_SIZE
    QueueRetries,   \* max_retries of the queue
    Deadline, MaxSeeds, MaxEntries, MaxTime, MaxFaults,     \* bounds
    None

VARIABLES
    now, faults, seeds,
    kv,         \* the value of each key: the seed it is from, 0 if there is none
    queue,      \* the messages in the seed queue
    seeder,     \* the seed request in work
    edge,       \* the edge cache
    reader,     \* the RPC requests
    accepted,   \* history: the entries of the seeds that were accepted
    written,    \* history: the entries put into KV
    lastHad,    \* history: when each key last had each value
    outdated,   \* history: an answer was too old, or another request's
    attempts    \* the queue's count of each message's failed deliveries

vars == <<now, faults, seeds, kv, queue, seeder, edge, reader, accepted, written, lastHad, outdated, attempts>>

Idle == [at |-> "idle"]

(* The nth entry of a seed, with the key it is for.                        *)
Messages == [key : Keys \cup {Foreign}, seed : 1..MaxSeeds, nth : 1..MaxEntries]

-----------------------------------------------------------------------------
(* seedKvStorage.                                                          *)

(* validateSeedEntry                                                       *)
Valid(entry) == entry.key # Foreign

Seed ==
    /\ seeder = Idle /\ seeds < MaxSeeds
    /\ seeds' = seeds + 1
    /\ \E n \in 1..MaxEntries : \E keys \in [1..n -> Keys \cup {Foreign}] :
          LET entries == [i \in 1..n |-> [key |-> keys[i], seed |-> seeds + 1, nth |-> i]]
              refused == Async /\ \E i \in 1..n : ~ Valid(entries[i])
          IN  seeder' = IF refused THEN Idle ELSE [at |-> "sending", all |-> entries, rest |-> entries]
    /\ UNCHANGED <<now, faults, kv, queue, edge, reader, accepted, written, lastHad, outdated, attempts>>

Entries(list) == {list[i] : i \in DOMAIN list}

Had(key) == [lastHad EXCEPT ![key][kv[key]] = now]

Puts(entry) ==
    /\ kv' = [kv EXCEPT ![entry.key] = entry.seed]
    /\ written' = written \cup {entry}
    /\ lastHad' = Had(entry.key)

Sends(n) ==
    /\ queue' = queue \cup Entries(SubSeq(seeder.rest, 1, n))
    /\ seeder' = [seeder EXCEPT !.rest = SubSeq(@, n + 1, Len(@))]

(* queue.sendBatch, batch by batch (splitSeedEntries).                     *)
SendBatch ==
    /\ seeder.at = "sending" /\ Async /\ seeder.rest # <<>>
    /\ Sends(IF Len(seeder.rest) < BatchSize THEN Len(seeder.rest) ELSE BatchSize)
    /\ UNCHANGED <<now, faults, seeds, kv, edge, reader, accepted, written, lastHad, outdated, attempts>>

(* kv.put, entry by entry, up to one that is refused.                      *)
PutEntry ==
    /\ seeder.at = "sending" /\ ~ Async /\ seeder.rest # <<>>
    /\ IF Valid(Head(seeder.rest))
       THEN Puts(Head(seeder.rest)) /\ seeder' = [seeder EXCEPT !.rest = Tail(@)]
       ELSE seeder' = Idle /\ UNCHANGED <<kv, written, lastHad>>
    /\ UNCHANGED <<now, faults, seeds, queue, edge, reader, accepted, outdated, attempts>>

SeedAccepted ==
    /\ seeder.at = "sending" /\ seeder.rest = <<>>
    /\ accepted' = accepted \cup Entries(seeder.all)
    /\ seeder' = Idle
    /\ UNCHANGED <<now, faults, seeds, kv, queue, edge, reader, written, lastHad, outdated, attempts>>

Fault == faults < MaxFaults /\ faults' = faults + 1

(* A put or a send throws, and took effect or not.                         *)
SeedFails ==
    /\ seeder.at = "sending" /\ Fault
    /\ IF Async /\ seeder.rest # <<>>
       THEN queue' \in {queue, queue \cup {Head(seeder.rest)}}
       ELSE UNCHANGED queue
    /\ \/ UNCHANGED <<kv, written, lastHad>>
       \/ ~ Async /\ seeder.rest # <<>> /\ Valid(Head(seeder.rest)) /\ Puts(Head(seeder.rest))
    /\ seeder' = Idle
    /\ UNCHANGED <<now, seeds, edge, reader, accepted, outdated, attempts>>

-----------------------------------------------------------------------------
(* queue: messages come in any order, and again until they are             *)
(* acknowledged or their retries are used up.                              *)

(* Mutant of AfterPutFailed: the message is acknowledged anyway.           *)
AfterPutFailedAcked(entry) == queue \ {entry}

(* message.retry(), up to max_retries times; then the message goes to the  *)
(* dead-letter queue, which has no consumer.                               *)
AfterPutFailed(entry) == IF attempts[entry] < QueueRetries THEN queue ELSE queue \ {entry}

Consume(entry) ==
    /\ entry \in queue
    /\ IF Valid(entry) THEN Puts(entry) ELSE UNCHANGED <<kv, written, lastHad>>
    /\ queue' = queue \ {entry}
    /\ UNCHANGED <<now, faults, seeds, seeder, edge, reader, accepted, outdated, attempts>>

(* The put, or the acknowledgement of the message after it, fails.         *)
ConsumeFails(entry) ==
    /\ entry \in queue /\ Fault
    /\ Puts(entry) \/ UNCHANGED <<kv, written, lastHad>>
    /\ queue' = AfterPutFailed(entry)
    /\ attempts' = [attempts EXCEPT ![entry] = @ + 1]
    /\ UNCHANGED <<now, seeds, seeder, edge, reader, accepted, outdated>>

-----------------------------------------------------------------------------
(* The RPC requests.                                                       *)

(* normalizeKvValue: no more than the request's limit; normalizeKvFallback *)
(* when there is no value.                                                 *)
Response(key, limit) == [value |-> kv[key], length |-> IF kv[key] = 0 THEN 0 ELSE limit]

(* Mutant of CacheKey: the limit is not part of the key.                   *)
CacheKeyOfSession(key, limit) == <<key, CHOOSE l \in Limits : TRUE>>

(* cacheRequestKey                                                         *)
CacheKey(key, limit) == <<key, limit>>

Answered(q, response) ==
    outdated' = (outdated \/ response.length > q.limit
                          \/ ( /\ kv[q.key] # response.value
                               /\ lastHad[q.key][response.value] < now - CacheTtl - Deadline ))

Ask(r, key, limit) ==
    LET q == [at |-> "reading", key |-> key, limit |-> limit, since |-> now, tries |-> 0, response |-> None]
        c == edge[CacheKey(key, limit)]
        hit == ~ Remote /\ CacheTtl > 0 /\ c # None /\ c.until > now
    IN
    /\ reader[r] = Idle
    /\ IF hit
       THEN Answered(q, c.response) /\ UNCHANGED reader
       ELSE reader' = [reader EXCEPT ![r] = q] /\ UNCHANGED outdated
    /\ UNCHANGED <<now, faults, seeds, kv, queue, seeder, edge, accepted, written, lastHad, attempts>>

(* callKvStorage, and the answer.                                          *)
ReadKv(r) ==
    LET q == reader[r]
        response == Response(q.key, q.limit)
    IN
    /\ q.at = "reading" /\ ~ Remote
    /\ Answered(q, response)
    /\ reader' = [reader EXCEPT ![r] = IF CacheTtl > 0 THEN [q EXCEPT !.at = "caching", !.response = response]
                                       ELSE Idle]
    /\ UNCHANGED <<now, faults, seeds, kv, queue, seeder, edge, accepted, written, lastHad, attempts>>

(* ctx.waitUntil(edgeCache.put)                                            *)
CacheAnswer(r) ==
    LET q == reader[r] IN
    /\ q.at = "caching"
    /\ edge' = [edge EXCEPT ![CacheKey(q.key, q.limit)] = [response |-> q.response, until |-> now + CacheTtl]]
    /\ reader' = [reader EXCEPT ![r] = Idle]
    /\ UNCHANGED <<now, faults, seeds, kv, queue, seeder, accepted, written, lastHad, outdated, attempts>>

(* callUsageBackend; the backend behind it has the same data.              *)
ReadRemote(r) ==
    /\ reader[r].at = "reading" /\ Remote
    /\ Answered(reader[r], Response(reader[r].key, reader[r].limit))
    /\ reader' = [reader EXCEPT ![r] = Idle]
    /\ UNCHANGED <<now, faults, seeds, kv, queue, seeder, edge, accepted, written, lastHad, attempts>>

RemoteFails(r) ==
    LET q == reader[r] IN
    /\ q.at = "reading" /\ Remote /\ Fault
    /\ reader' = [reader EXCEPT ![r] = IF q.tries < MaxRetries THEN [q EXCEPT !.tries = @ + 1] ELSE Idle]
    /\ UNCHANGED <<now, seeds, kv, queue, seeder, edge, accepted, written, lastHad, outdated, attempts>>

(* A read of KV throws, or a put into the cache does.                      *)
ReadFails(r) ==
    /\ reader[r] # Idle /\ ~ Remote /\ Fault
    /\ reader' = [reader EXCEPT ![r] = Idle]
    /\ UNCHANGED <<now, seeds, kv, queue, seeder, edge, accepted, written, lastHad, outdated, attempts>>

(* scheduled, warmCacheFromKv: the windows that end now.                   *)
Warm(key, limit) ==
    /\ key \in Windows /\ ~ Remote /\ CacheTtl > 0
    /\ edge' = [edge EXCEPT ![CacheKey(key, limit)] = [response |-> Response(key, limit), until |-> now + CacheTtl]]
    /\ UNCHANGED <<now, faults, seeds, kv, queue, seeder, reader, accepted, written, lastHad, outdated, attempts>>

Tick ==
    /\ now < MaxTime
    /\ \A r \in Readers : reader[r] # Idle => now < reader[r].since + Deadline
    /\ now' = now + 1
    /\ UNCHANGED <<faults, seeds, kv, queue, seeder, edge, reader, accepted, written, lastHad, outdated, attempts>>

Init ==
    /\ now = 0 /\ faults = 0 /\ seeds = 0
    /\ kv = [key \in Keys |-> 0]
    /\ queue = {}
    /\ seeder = Idle
    /\ edge = [c \in Keys \X Limits |-> None]
    /\ reader = [r \in Readers |-> Idle]
    /\ accepted = {} /\ written = {}
    /\ lastHad = [key \in Keys |-> [v \in 0..MaxSeeds |-> 0]]
    /\ outdated = FALSE
    /\ attempts = [entry \in Messages |-> 0]

Next ==
    \/ Seed \/ SendBatch \/ PutEntry \/ SeedAccepted \/ SeedFails
    \/ \E entry \in queue : Consume(entry) \/ ConsumeFails(entry)
    \/ \E r \in Readers :
          \/ ReadKv(r) \/ CacheAnswer(r) \/ ReadRemote(r) \/ RemoteFails(r) \/ ReadFails(r)
          \/ \E key \in Keys, limit \in Limits : Ask(r, key, limit)
    \/ \E key \in Keys, limit \in Limits : Warm(key, limit)
    \/ Tick

Spec == Init /\ [][Next]_vars

-----------------------------------------------------------------------------
TypeOK ==
    /\ now \in 0..MaxTime /\ faults \in 0..MaxFaults /\ seeds \in 0..MaxSeeds
    /\ kv \in [Keys -> 0..MaxSeeds]
    /\ attempts \in [Messages -> 0..QueueRetries + 1]

(* What a seed was accepted with is in KV, or was until another entry for  *)
(* the key came, or waits in the queue, unless its delivery failed more    *)
(* often than the queue retries.                                           *)
AcceptedKept ==
    \A entry \in accepted :
        entry \in written \/ entry \in queue \/ attempts[entry] > QueueRetries

(* An answer is one the request could have had, and not older than the     *)
(* time it is cached and a request may take.                               *)
FreshEnough == ~ outdated
=============================================================================
