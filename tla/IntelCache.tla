----------------------------- MODULE IntelCache -----------------------------
(***************************************************************************)
(* The Durable Object that caches the backend's feeds: a memory cache over *)
(* chunked storage, one fetch in flight per endpoint, stale answers with a *)
(* refresh behind them, an alarm that refreshes, and a cache bust.         *)
(*                                                                         *)
(* The object delivers no event while a storage call is under way, so what *)
(* lies between two calls to the backend is one step.  The backend's data  *)
(* is its version, world; floor is the version at the last bust.           *)
(***************************************************************************)
EXTENDS Naturals, FiniteSets, FiniteSetsExt

CONSTANTS
    Standard,   \* ENDPOINTS
    Proactive,  \* those of them with an entry in ENDPOINT_PROACTIVE_REFRESH_MS
    Chat,       \* variants of /api/chat-history
    DefaultChat,\* the one of them that the constructor loads
    Whales,     \* /api/whales
    Readers, Fetches,           \* bound: requests and fetches at a time
    MaxWorld, MaxTime, MaxFaults, MaxBusts,   \* bounds
    MaxAge, StaleWindow, Cooldown,              \* in units of the clock
    Parallel,   \* CACHE_BUST_MAX_PARALLEL_REFRESHES
    None

Endpoint == Standard \cup Chat \cup Whales

VARIABLES
    world, floor, now, faults,
    cache,      \* the entry of each endpoint in memory
    stored,     \* the keys of each endpoint in storage
    inFlight,   \* the fetch under way for each endpoint
    cooldown,   \* backgroundRefreshAfter
    gen,        \* cacheGeneration
    fetch,      \* what each fetch is doing
    reader,     \* the requests waiting for a fetch
    rewarm,     \* what a bust has left to refresh, and the fetches it waits for
    alarm,      \* an alarm is set
    refreshing, \* the alarm's handler: the fetches it waits for
    unsaved,    \* history: storage has refused a save
    servedOld   \* history: a request was answered with data from before the
                \* last bust that preceded it

memory == <<cache, inFlight, cooldown, gen>>
env == <<world, floor, now, faults, unsaved>>
vars == <<env, memory, stored, fetch, reader, rewarm, alarm, refreshing, servedOld>>

Entry == [version : 0..MaxWorld, at : 0..MaxTime]

(* The number of chunks of a value: two, none as it is small, three, ...   *)
Chunks(v) == IF v % 3 = 1 THEN 0 ELSE 2 + (v % 3) \div 2

NoKeys == [whole |-> None, meta |-> None, chunks |-> 0, part |-> [i \in 1..3 |-> None]]

Idle == [at |-> "idle"]

-----------------------------------------------------------------------------
(* Storage: saveChunked, loadChunked, deleteChunked.                       *)

(* Mutant of Saved: a small value leaves the count of chunks behind.       *)
SavedKeepsCount(keys, x) ==
    LET n == Chunks(x.version)
    IN  IF n = 0
        THEN [keys EXCEPT !.whole = x, !.meta = x.at]
        ELSE [whole |-> None, meta |-> x.at, chunks |-> n,
              part |-> [i \in 1..3 |-> IF i <= n THEN x.version ELSE None]]

(* buildChunkedCacheWritePlan, applied in a transaction.                   *)
Saved(keys, x) ==
    LET n == Chunks(x.version)
        stale(i) == i > n /\ i <= keys.chunks
    IN  [whole |-> IF n = 0 THEN x ELSE None,
         meta |-> x.at,
         chunks |-> n,
         part |-> [i \in 1..3 |-> CASE i <= n -> x.version
                                    [] stale(i) -> None
                                    [] OTHER -> keys.part[i]]]

(* The entry of the whales is put as one value.                            *)
SavedWhales(keys, x) == [keys EXCEPT !.whole = x]

(* What loadChunked finds: None, or the versions it puts together.         *)
Loaded(keys) ==
    IF keys.meta = None
    THEN IF keys.whole = None THEN None ELSE [versions |-> {keys.whole.version}, at |-> keys.whole.at]
    ELSE IF keys.chunks > 0
         THEN IF \E i \in 1..keys.chunks : keys.part[i] = None THEN None
              ELSE [versions |-> {keys.part[i] : i \in 1..keys.chunks}, at |-> keys.meta]
         ELSE IF keys.whole = None THEN None
              ELSE [versions |-> {keys.whole.version}, at |-> keys.meta]

AsEntry(x) == IF x = None THEN None ELSE [version |-> Max(x.versions), at |-> x.at]

Deleted(keys) ==
    [whole |-> None, meta |-> None, chunks |-> 0,
     part |-> [i \in 1..3 |-> IF i <= keys.chunks THEN None ELSE keys.part[i]]]

-----------------------------------------------------------------------------
(* fetchEndpointDedup and fetchWhalesDedup: join the fetches in flight for *)
(* the endpoints of E, or start one for each.                              *)

Retries(e) == IF e \in Standard THEN 1 ELSE 0

Starting(E) == {e \in E : inFlight[e] = None}

FreeFetches == {f \in Fetches : fetch[f] = Idle}

(* A new fetch for each; which free id it gets makes no difference.        *)
Pick(E) ==
    CHOOSE pick \in [Starting(E) -> FreeFetches] :
        \A d, e \in Starting(E) : pick[d] = pick[e] => d = e

(* tries is how often each new fetch asks again.                           *)
Launch(E, tries) ==
    /\ Cardinality(Starting(E)) <= Cardinality(FreeFetches)
    /\ inFlight' = [e \in Endpoint |-> IF e \in Starting(E) THEN Pick(E)[e] ELSE inFlight[e]]
    /\ fetch' = [f \in Fetches |->
                   IF \E e \in Starting(E) : Pick(E)[e] = f
                   THEN [at |-> "asking", endpoint |-> CHOOSE e \in Starting(E) : Pick(E)[e] = f,
                         gen |-> gen, left |-> tries]
                   ELSE fetch[f]]

(* The fetches the caller goes on to wait for, after Launch.               *)
Joined(E) == {inFlight'[e] : e \in E}

-----------------------------------------------------------------------------
(* Requests.                                                               *)

Serve(x, since) == servedOld' = (servedOld \/ (x # None /\ x.version < since))

(* The entry a request finds: a chat history that is not in memory is      *)
(* looked for in storage.                                                  *)
Found(e) ==
    IF e \in Chat /\ cache[e] = None THEN AsEntry(Loaded(stored[e])) ELSE cache[e]

Age(x) == now - x.at

ReadHit(e) ==
    /\ Found(e) # None
    /\ Age(Found(e)) < MaxAge
    /\ cache' = [cache EXCEPT ![e] = Found(e)]
    /\ Serve(Found(e), floor)
    /\ UNCHANGED <<env, stored, inFlight, cooldown, gen, fetch, reader, rewarm, alarm, refreshing>>

(* scheduleBackgroundRefresh                                               *)
RefreshBehind(e) ==
    IF now < cooldown[e]
    THEN UNCHANGED <<inFlight, cooldown, fetch>>
    ELSE cooldown' = [cooldown EXCEPT ![e] = now + Cooldown] /\ Launch({e}, Retries(e))

(* A stale answer, with a refresh behind it unless one was begun lately.   *)
ReadStale(e) ==
    /\ Found(e) # None
    /\ Age(Found(e)) \in MaxAge..StaleWindow-1
    /\ cache' = [cache EXCEPT ![e] = Found(e)]
    /\ Serve(Found(e), floor)
    /\ RefreshBehind(e)
    /\ UNCHANGED <<env, stored, gen, reader, rewarm, alarm, refreshing>>

(* Nothing, or nothing recent: the request waits for the fetch.            *)
ReadWaits(r, e) ==
    /\ reader[r] = Idle
    /\ Found(e) # None => Age(Found(e)) >= StaleWindow
    /\ cache' = [cache EXCEPT ![e] = Found(e)]
    /\ Launch({e}, Retries(e))
    /\ reader' = [reader EXCEPT ![r] =
                    [at |-> "waiting", fetch |-> inFlight'[e], cached |-> Found(e),
                     floor |-> floor]]
    /\ UNCHANGED <<env, stored, cooldown, gen, rewarm, alarm, refreshing, servedOld>>

-----------------------------------------------------------------------------
(* fetchEndpoint and fetchWhales.                                          *)

(* The backend reads its data, at some time before the answer arrives.     *)
Answer(f) ==
    /\ fetch[f].at = "asking"
    /\ fetch' = [fetch EXCEPT ![f] = [at |-> "answered", endpoint |-> fetch[f].endpoint,
                                      gen |-> fetch[f].gen, left |-> fetch[f].left,
                                      version |-> world]]
    /\ UNCHANGED <<env, memory, stored, reader, rewarm, alarm, refreshing, servedOld>>

(* Mutant of Settled: it clears the endpoint whoever holds it.             *)
SettledForAll(f) == [inFlight EXCEPT ![fetch[f].endpoint] = None]

Settled(f) == [e \in Endpoint |-> IF inFlight[e] = f THEN None ELSE inFlight[e]]

(* The promise of f settles: it leaves inFlight if it is still there, and  *)
(* everybody who waits for it goes on.                                     *)
Settle(f, x) ==
    /\ fetch' = [fetch EXCEPT ![f] = Idle]
    /\ inFlight' = Settled(f)
    /\ LET waiting == {r \in Readers : reader[r] # Idle /\ reader[r].fetch = f}
           answer(r) == IF x # None THEN x ELSE reader[r].cached
       IN  /\ reader' = [r \in Readers |-> IF r \in waiting THEN Idle ELSE reader[r]]
           /\ servedOld' = (servedOld \/ \E r \in waiting :
                                answer(r) # None /\ answer(r).version < reader[r].floor)
    /\ rewarm' = [rewarm EXCEPT !.wait = @ \ {f}]
    /\ refreshing' = [refreshing EXCEPT !.wait = @ \ {f}]

(* Mutant of Current: the answer is taken whatever happened meanwhile.     *)
AlwaysCurrent(f) == TRUE

(* isCurrentCacheGeneration                                                *)
Current(f) == fetch[f].gen = gen

Receive(f) ==
    /\ fetch[f].at = "answered"
    /\ Current(f)
    /\ LET e == fetch[f].endpoint
           x == [version |-> fetch[f].version, at |-> now]
       IN  /\ cache' = [cache EXCEPT ![e] = x]
           /\ stored' = [stored EXCEPT ![e] = IF e \in Whales
                                              THEN SavedWhales(@, x)
                                              ELSE Saved(@, x)]
           /\ Settle(f, x)
    /\ UNCHANGED <<env, cooldown, gen, alarm>>

(* An answer to a question from before a bust is dropped.                  *)
ReceiveOld(f) ==
    /\ fetch[f].at = "answered"
    /\ ~ Current(f)
    /\ Settle(f, None)
    /\ UNCHANGED <<env, cache, cooldown, gen, stored, alarm>>

Fault == faults < MaxFaults /\ faults' = faults + 1 /\ UNCHANGED <<world, floor, now>>

(* The answer is an error, or storage refuses the save: the entry stays in *)
(* memory then; the question is put again or the fetch gives up.           *)
FetchFails(f) ==
    /\ fetch[f] # Idle
    /\ Fault
    /\ \/ UNCHANGED <<cache, unsaved>>
       \/ /\ fetch[f].at = "answered" /\ Current(f)
          /\ unsaved' = TRUE
          /\ cache' = [cache EXCEPT ![fetch[f].endpoint] =
                          [version |-> fetch[f].version, at |-> now]]
    /\ IF fetch[f].left > 0
       THEN /\ fetch' = [fetch EXCEPT ![f] = [at |-> "asking", endpoint |-> @.endpoint,
                                              gen |-> @.gen, left |-> @.left - 1]]
            /\ UNCHANGED <<inFlight, reader, rewarm, refreshing, servedOld>>
       ELSE Settle(f, None)
    /\ UNCHANGED <<cooldown, gen, stored, alarm>>

-----------------------------------------------------------------------------
(* The cache bust and the refreshes after it.                              *)

(* clearChatHistoryCacheVariants                                           *)
ChatVariants == {e \in Chat : cache[e] # None \/ stored[e] # NoKeys}

RewarmTargets == Standard \cup Whales \cup ChatVariants

(* Mutant of Bust: storage keeps the chat histories that are not in memory.*)
BustInMemory ==
    /\ gen < MaxBusts
    /\ gen' = gen + 1
    /\ floor' = world
    /\ cache' = [e \in Endpoint |-> None]
    /\ inFlight' = [e \in Endpoint |-> None]
    /\ cooldown' = [e \in Endpoint |-> 0]
    /\ stored' = [e \in Endpoint |-> IF e \in Chat /\ cache[e] = None THEN stored[e]
                                     ELSE Deleted(stored[e])]
    /\ rewarm' = [rewarm EXCEPT !.todo = @ \cup RewarmTargets]
    /\ UNCHANGED <<world, now, faults, unsaved, fetch, reader, alarm, refreshing, servedOld>>

(* Everything goes, under blockConcurrencyWhile; a chat history is         *)
(* refreshed if it was in memory or in storage.  What an earlier bust has  *)
(* still to refresh is refreshed with the rest.                            *)
Bust ==
    /\ gen < MaxBusts
    /\ gen' = gen + 1
    /\ floor' = world
    /\ cache' = [e \in Endpoint |-> None]
    /\ inFlight' = [e \in Endpoint |-> None]
    /\ cooldown' = [e \in Endpoint |-> 0]
    /\ stored' = [e \in Endpoint |-> Deleted(stored[e])]
    /\ rewarm' = [rewarm EXCEPT !.todo = @ \cup RewarmTargets]
    /\ UNCHANGED <<world, now, faults, unsaved, fetch, reader, alarm, refreshing, servedOld>>

(* rewarmCacheBustTargets: a batch of fetches at a time.                   *)
RewarmBatch ==
    /\ rewarm.todo # {} /\ rewarm.wait = {}
    /\ \E batch \in SUBSET rewarm.todo :
          /\ Cardinality(batch) = IF Cardinality(rewarm.todo) < Parallel
                                  THEN Cardinality(rewarm.todo) ELSE Parallel
          /\ Launch(batch, 0)
          /\ rewarm' = [todo |-> rewarm.todo \ batch, wait |-> Joined(batch)]
    /\ UNCHANGED <<env, cache, cooldown, gen, stored, reader, alarm, refreshing, servedOld>>

-----------------------------------------------------------------------------
(* The alarm, the health route, restarts, and the world.                   *)

Due == {e \in Proactive : cache[e] # None => Age(cache[e]) >= MaxAge}

AlarmFires ==
    /\ alarm /\ ~ refreshing.on
    /\ alarm' = FALSE
    /\ Launch(Due, 1)
    /\ refreshing' = [on |-> TRUE, wait |-> Joined(Due)]
    /\ UNCHANGED <<env, cache, cooldown, gen, stored, reader, rewarm, servedOld>>

AlarmEnds ==
    /\ refreshing.on /\ refreshing.wait = {}
    /\ refreshing' = [on |-> FALSE, wait |-> {}]
    /\ alarm' = TRUE
    /\ UNCHANGED <<env, memory, stored, fetch, reader, rewarm, servedOld>>

Health ==
    /\ ~ alarm
    /\ alarm' = TRUE
    /\ UNCHANGED <<env, memory, stored, fetch, reader, rewarm, refreshing, servedOld>>

(* The object is evicted or restarted: the constructor loads what is in    *)
(* storage, and sets an alarm if there is none.                            *)
Restart ==
    /\ Fault
    /\ cache' = [e \in Endpoint |-> IF e \in Chat \ DefaultChat THEN None
                                  ELSE AsEntry(Loaded(stored[e]))]
    /\ inFlight' = [e \in Endpoint |-> None]
    /\ cooldown' = [e \in Endpoint |-> 0]
    /\ gen' = 0
    /\ fetch' = [f \in Fetches |-> Idle]
    /\ reader' = [r \in Readers |-> Idle]
    /\ rewarm' = [todo |-> {}, wait |-> {}]
    /\ refreshing' = [on |-> FALSE, wait |-> {}]
    /\ alarm' = TRUE
    /\ UNCHANGED <<unsaved, stored, servedOld>>

Publish ==
    /\ world < MaxWorld
    /\ world' = world + 1
    /\ UNCHANGED <<floor, now, faults, unsaved, memory, stored, fetch, reader, rewarm, alarm,
                   refreshing, servedOld>>

Tick ==
    /\ now < MaxTime
    /\ now' = now + 1
    /\ UNCHANGED <<world, floor, faults, unsaved, memory, stored, fetch, reader, rewarm, alarm,
                   refreshing, servedOld>>

Init ==
    /\ world = 0 /\ floor = 0 /\ now = 0 /\ faults = 0
    /\ cache = [e \in Endpoint |-> None]
    /\ stored = [e \in Endpoint |-> NoKeys]
    /\ inFlight = [e \in Endpoint |-> None]
    /\ cooldown = [e \in Endpoint |-> 0]
    /\ gen = 0
    /\ fetch = [f \in Fetches |-> Idle]
    /\ reader = [r \in Readers |-> Idle]
    /\ rewarm = [todo |-> {}, wait |-> {}]
    /\ alarm = TRUE
    /\ refreshing = [on |-> FALSE, wait |-> {}]
    /\ unsaved = FALSE /\ servedOld = FALSE

Next ==
    \/ \E e \in Endpoint : ReadHit(e) \/ ReadStale(e)
    \/ \E e \in Endpoint, r \in Readers : ReadWaits(r, e)
    \/ \E f \in Fetches : Answer(f) \/ Receive(f) \/ ReceiveOld(f) \/ FetchFails(f)
    \/ Bust \/ RewarmBatch
    \/ AlarmFires \/ AlarmEnds \/ Health \/ Restart
    \/ Publish \/ Tick

Spec == Init /\ [][Next]_vars

-----------------------------------------------------------------------------
(* Properties.                                                             *)

(* Every variable has the shape the code gives it.                         *)
TypeOK ==
    /\ world \in 0..MaxWorld /\ floor \in 0..world /\ now \in 0..MaxTime
    /\ cache \in [Endpoint -> Entry \cup {None}]
    /\ inFlight \in [Endpoint -> Fetches \cup {None}]
    /\ gen \in 0..MaxBusts
    /\ alarm \in BOOLEAN

(* After a bust, neither memory nor storage holds data the backend read    *)
(* before it, and no request made after it is answered with such data,     *)
(* whatever fetches were under way.                                        *)
NothingFromBeforeBust ==
    /\ \A e \in Endpoint :
          /\ cache[e] # None => cache[e].version >= floor
          /\ Loaded(stored[e]) # None => \A v \in Loaded(stored[e]).versions : v >= floor
    /\ ~ servedOld

(* What a restart finds in storage is what memory held: no value put       *)
(* together from the chunks of two, unless storage refused a save.         *)
RestartKeeps ==
    ~ unsaved => \A e \in Endpoint : cache[e] # None => AsEntry(Loaded(stored[e])) = cache[e]

(* The backend is asked for an endpoint once at a time, but for what a     *)
(* bust has left behind.                                                   *)
OneFetch ==
    \A f, g \in Fetches :
        /\ fetch[f] # Idle /\ fetch[g] # Idle
        /\ fetch[f].endpoint = fetch[g].endpoint
        /\ fetch[f].gen = fetch[g].gen
        => f = g
=============================================================================
