# Intel Dashboard: a TLA+ model and its proofs

This directory models the stateful parts of Intel Dashboard in TLA+, checks them with TLC on small
instances, and proves with TLAPS, for every value of the constants, what those checks show of safety in the
webhook lease and the billing handler on top of it, the AI batches, the Telegram state, the collector's
buffer, link and control object, the intel cache with its guards, the briefings, the page, and most of the
other components (listed under Proofs). Paths below are relative to the repository's root; `backend` is `apps/backend/src/index.ts`, `edge` is
`apps/edge/src`, `collector` is `apps/telegram-collector/src`, `web` is `apps/web/src`.

## The system and its parts

Three Cloudflare Workers, a few kinds of storage, and one container. The **edge** worker serves the web
interface, sessions and feeds, and calls the **backend** worker, which owns billing, news, AI jobs,
notifications and the CRM. The **collector** worker fronts a Node container that listens to Telegram and
forwards batches of messages to the edge. State is kept in Workers KV (get and put of whole values, no
compare-and-set), in Durable Objects (one object is one thread, but gives way at every await that is not
of its own storage or under `blockConcurrencyWhile`), in D1, in R2, in queues, in the memory of isolates,
and in the collector's. Most of what can go wrong has the same form: something is read, an await follows,
and what was read is used after it.

| part | state | operations | what makes it correct | modules |
| --- | --- | --- | --- | --- |
| Webhook dedupe coordinator (backend, `NewsIngestCoordinator`) | one lease per event | reserve, complete, release | one handler per event; a completed event stays completed | WebhookLease, WebhookLeaseProofs |
| Stripe billing (backend) | one account per user in KV | webhook, trial start, admin switch, owner's cancellation | one trial per user; no subscriber Stripe or the owner did not make; no older event over a newer; every event acknowledged | StripeBilling, StripeBillingProofs |
| CRM (backend) | summary, logs and snapshots in KV | summary, customer view, refund, cancellation, figures | derived data are of the accounts there are; an owner acts on what is known; every subscription counts once | CrmSummary, CrmStripe, StripeSummary |
| AI batches and jobs (backend) | batch state, meta, pending and idempotency keys in KV; queue | post, run, poll, stale sweep; lanes and escalation | a batch ends; its result is kept; it is paid for once; every job has its own result | AiBatch, AiBatchProofs, AiJobs |
| RSS ingest (backend) | validators and health in KV | scheduled run | what is skipped as unchanged was published | RssIngest |
| News feed (backend) | stored lists in KV, hot list and lock in the coordinator, memory caches | publish, fallback, read, merge | a published item is not lost; who does not pay waits | NewsFeed |
| Outbound notifications (backend) | marks in KV | deliver | a channel hears of a story once | Outbound |
| Briefings (backend) | briefing and pending mark in KV; queue | answer, queue, refresh | a briefing becomes that of the news there is | Briefings |
| Air and sea (backend) | snapshot in KV | fetch, rank | what is shown is no older than allowed; emergencies come first | AirSea |
| Rate limits, usage data (backend) | counters and entries in KV; queue; edge cache | count, seed, read, warm | a limit holds unless requests overlap; what was accepted is stored | RateLimit, UsageStore |
| Routes (backend and edge) | configuration, sessions | every route's checks and answers | only what the session or token allows, and once | Routes, BackendRoutes |
| Feed entitlement (edge) | tier cache of the isolate | tier, delay, caps | who was not given access waits | FeedGate |
| X profiles (edge) | D1, KV, profile cache; an alert record | refresh of a session's person, alert of failures | a session has one person's name; alerts keep their distance | XProfile, ProfileAlerts |
| Subscriber alerts (edge) | rows in D1 | materialise, list, mark | what matches is told once | SubscriberAlerts |
| Intel cache object (edge) | memory cache, chunked storage, generation | read, background refresh, bust, alarm | nothing from before a bust is served after it; a restart finds what was saved | IntelCache |
| Intel cache guards (edge) | nonce and rate logs, day buckets | admin guard, webhook dedupe | a nonce counts once; an event counts once across midnight | AdminGuard |
| Telegram scraper object (edge) | channel states in D1 and KV, seen table, authority marks | scrape, collector's batches, readers' loads | no message lost between being seen and being saved; one scrape at a time | TelegramState, TelegramStateProofs |
| Telegram texts and media (edge) | translations, pauses, R2, message rows | translate, retry, copy media | what failed is tried again, with growing pauses; rows agree with the state | TelegramTexts |
| Telegram events (edge) | events, channels' performance, feedback | cluster, merge, split | every report is in one event; the counts are of whole events | TelegramEvents |
| Collector worker and control object (collector) | control state, nonce log | status, state update, guard | a nonce counts once; an older state replaces a newer only when two writers overlap | CollectorControl |
| Collector buffer (container) | buffer, flush timer | receive, flush, forward | nothing received is dropped; the order is kept; the buffer drains | CollectorBuffer |
| Collector link (container) | flags, client, three timers | connect, refresh, join, error handlers | the collector never stops trying; ends up in every channel | CollectorLink |
| Telegram page (web) | shown state, timer, socket, session snapshot | poll, stream, visit, leave | a page never goes back, never stops asking, and shows what is stored | TelegramPage |

`ProgressProofs` is about the buffer, the link, the briefings and the page; `ComponentProofs` about
AdminGuard, CollectorControl, IntelCache, RateLimit, TelegramTexts, UsageStore, CrmSummary, StripeSummary,
AirSea, Outbound, RssIngest, XProfile and Routes; `ServicesProofs` and `NewsProofs` carry the latter's results
to the instances that TLC checks.

What is not modelled, and why, is at the end. `PROJECT.json` says of every part whether it is modelled
whole or partly.

The parts interact as follows. The edge forwards a Stripe webhook to the backend and gives up after 30 s;
the backend reserves the event with the coordinator, rewrites the account in KV, and completes or releases
the lease. Whoever writes an account deletes the CRM's summary and figures. The collector's buffer is filled
by the event handler the link attaches, and emptied by forwards to the edge's scraper object, which stores
the batch and applies it in the background; scrapes and applies make texts, events and rows of what they
found, tell the pages of it and save it. RSS runs and publishers hand items to the news feed, whose publish
goes through a coordinator per shard and falls back to KV when the object fails, and tells channels; the
edge's intel cache keeps what the backend answers, and the feed gate holds it back from who is not entitled.
The queues' handlers and the schedule rewrite the same records of AI batches, briefings and usage data.

The hard behaviours, each listed with its line in `PROJECT.json` under `hazards`: read-await-write races on
KV; leases that expire under a running handler; calls that take effect and lose their answer; retries that
arrive while the first attempt runs; events delivered in another order than they were created; overlapping
flushes; timers that must be set again after every kind of error; caches filled after what they hold was
replaced; marks and validators written before or after what they stand for; signed requests presented twice;
states that are told of before they are saved. One hazard there has no property: a second client in the
container, which buffers every message twice (CollectorBuffer takes each message once, CollectorLink has one
client at a time). Two have no place in the list: the loss of the collector's buffer with its container (the
model would say no more than that memory is lost), and the refund
(backend, line 6319), which carries no idempotency key, so an owner who repeats one whose answer was lost asks
Stripe twice; Stripe refuses to refund more than was charged.

## Modules

**WebhookLease** is the abstract specification of the dedupe protocol: `lease` is the coordinator's storage,
`job` what each handler invocation is doing, `now` the clock. `Reserve`, `Complete` and `Release` are the
calls of `handleWebhookDedupe` with the handler's side of them; `ReserveUnheard` and `CompleteUnheard` are
calls that took effect but whose answer was lost; `Fail` is an exception in the handler, `Abandon` a
cancelled invocation or a failed release. The object runs each call under `blockConcurrencyWhile`, so a call
is one step. **WebhookLeaseProofs** holds the proofs about it (below).

**StripeBilling** models the accounts. `acct` is the KV value per user; `op` the invocations in flight, each
between the read and the write of an account, with the account it is going to write in `next`; `stripe` is
what Stripe knows about each event (`pending`: to be delivered again, `sent`: waiting for the answer,
`acked`). The four writers are `WebhookLoad`/`WebhookSave`, `TrialLoad`, `SubscribeLoad`, `CancelLoad` with
`AccountSave`. `WebhookAccount`, `TrialAccount`, `SubscribeAccount` and `CancelAccount` are what they write
over what they read, and say which fields survive. Failures: a call that throws without effect
(`WebhookThrows`), a put followed by a cache deletion that throws (`WebhookSaveThrows`), lost answers,
`WebhookAbandon`, `StripeTimesOut`, `AccountDrop`. Variables under "history" only serve the properties.
`ImplementsLease` instantiates WebhookLease with a refinement mapping of `op` to `job`: the webhook handler,
with everything around it, is one of the behaviours the lease protocol allows, so what is proved of the
protocol holds of the handler.

**CrmSummary** has the writers of accounts and activity logs, each a read and a write, the deletion of the
summary after them, and the builder that lists, reads and stores. `overlapped` and `lost` name what the code
admits: a builder that stores what it read before somebody's write, and two writers of one log. **CrmStripe** is the
owner's view of one customer: the snapshot, and the refund and cancellation that choose what to act on from
account, snapshot or Stripe. The account has several writers, webhooks (`Takes`), trial starts and the admin
switch (`Starts`) and the cancellation itself (`Saves`), each a read, a write of the whole account and a
deletion of the snapshot; a trial start and the switch write no time of the last event, after which an older
one is taken. `crossed` names the two ways an account goes back: a write over what its writer had not read,
and an event older than a forgotten one. No two charges are of the same second. **StripeSummary** is the paging through all
subscriptions, while subscriptions are made, with the page limit and the cached result.

**AiBatch** models the asynchronous AI jobs. `job` is an invocation: what it loaded, and in `todo` the steps
still ahead of it, a status standing for a save with that status. `RunPlan`, `PollPlan` and `SweepPlan` are
`processAiBatchRun`, `processAiBatchPoll` and `recoverStaleAiBatches` as such lists; `Save`, `Enqueue`,
`Submit`, `Ask`, `Direct`, `Rollback` and `Rescue` are the awaits in them. `PostStart`, `Take` and
`SweepStart` begin one. The queue is a set of messages, delivered in any order, again after a failure
(`Retried`), and possibly twice. `Throw`, `SaveThrows` (some of the parallel puts take effect),
`EnqueueUnheard`, `SubmitUnheard`, `Crash`, `QueueUnbound` and an `Age` under an invocation are the failures.
The puts of one save that succeeds are one step, and the submissions of one batch are not told apart. A post
takes its id from the caller: a second one with the id of a stored batch (`resent`) overwrites it, whatever
has become of it, and runs it again. Left out are the meta key, which requests are answered from, and which
idempotency keys were used: another key, or none, lets the same post through. Groq may end a submission
without an output file (`outputless`); each poll of it throws before it counts the attempt (`MustThrow`).
**AiJobs** is what happens inside one such run or direct request: workers that take jobs in turn, the lane
of each, the second question for a dedupe key, and the reading of a batch's output by its ids.

**RssIngest** has the choice of sources (the fast lane, and a rotation balanced over regions), the conditional
fetches, the validators stored as the fetches end, and the publish after all of them. **NewsFeed** has the
stored lists, their memory caches per isolate, the coordinator's lock and hot list, the fallback around it,
and readers of every tier: KV calls take effect and return in two steps. `place` is the isolate of each coordinator;
`stale` names a list written from an older one than the stored. **Outbound** tells targets of items, a few
at a time, with fingerprints made by the AI or by hash, and marks in KV. **Briefings** has the public route
and the schedule (callers), the pending mark, the queue and its consumers.

**RateLimit**, **UsageStore** and **AirSea** are KV entries with a clock: a counter per minute and tier;
seeds directly or through the queue, which gives a message up after `max_retries` (eight; the dead-letter queue
of `apps/backend/wrangler.jsonc` has no consumer), reads through the edge cache, and the schedule that warms it; a
snapshot that is fetched again when old and served while stale, and the ranking of its tracks.

**BackendRoutes** is the backend's router as a function from request and environment to an answer, with
one operator per kind of check, and has no state; **Routes** puts the edge in front of it: sessions, owners,
the edge's calls with its own token, requests passed on as they are, and deployments of either worker
between two steps. **FeedGate** is what a session's user may see: the two questions to the backend (by id
and by login), the isolate's cache, and delay and caps applied to the feeds. **XProfile** is the refresh of
a session's person, with D1, KV and the fallbacks (whose guard in the code also asks for the session's
provider, which no code sets), **ProfileAlerts** the record and alert of its failures,
**SubscriberAlerts** the alerts of one subscriber.

**IntelCache** is the edge's cache object: memory over chunked storage, one fetch in flight per endpoint,
stale answers with a refresh behind them, alarm, bust and re-warming, restart. What lies between two calls
to the backend is one step, because the object delivers no event while it waits for its own storage; a
value is saved whole or in chunks, in one transaction that has to remove the chunks of the value before. **AdminGuard** has its two guards, which may be stopped
between two writes, with the edge's check before them.

**TelegramState** models the object that keeps the Telegram state. `job` is what each invocation is doing
between its awaits: a scrape (`ScrapeStart`, `Select`, `Fetch`, `Record`), an apply of a collector's batch
(`ApplyStart`, `Record`), or a reader's load (`Look`). `Load` and `KvAnswers` are `loadPreviousState` with its
two copies, `Merged` is `mergeLatestChannelStates`, `SaveLocal` and `Mirror` the two writes. Loading from the
object's own storage is one step, since the runtime delivers nothing else meanwhile; a read of KV is two.
`RecordFails`, `SaveFails`, the failing reads in `Load`, `Select` and `Fetch`, and `Restart` are the failures.
The history variable `lossy` is set by the steps that the code cannot survive without losing messages: a job
that saves a channel others have saved since it loaded it, one cut off between recording its messages as
seen and saving them, and a small state put over a large one that is on its way to KV.
**TelegramTexts** follows the messages of such a scrape: translation with its cache, the doubling pauses
after failures, photos copied into R2, and the rows in D1. A cycle chooses old texts of all channels but saves
only its own: a text translated elsewhere is in English in its row alone (`apart`), and tried again each cycle. **TelegramEvents** makes events of the reports
kept, newest first, with the owner's feedback and the channels' performance counts.
**TelegramPage** is the reader's side: `refresh` is the request `refreshTelegram` has under way, `timer` the
timer of `useLiveRefresh`, `socket` and `wire` the stream, `snapshot` sessionStorage, `left` the request of a
page that was left. A state is known by its timestamp: the scrape tells of its state before it saves it
(`ScrapeTells`, `ScrapeSaves`), and a batch is as old as the collector says (`Collects`, `Applies`).

**CollectorControl** is the control object in front of the container: states pushed by the container, late
or twice, the guard of signed requests, the status route that stores what it asked for, and deployments.
**CollectorBuffer** models the container's buffer: `Receive` is the `NewMessage` handler, `TimerFires` and
`FlushRequest` the two ways into `flushBuffer`, and `ForwardSucceeds` and `ForwardFails` what happens after
its await, with the `splice` as `Removed`. `batch` is what each waiting flush has sent.
**CollectorLink** models the connection: `timers` holds the timers that are set, and a task is a call that
waits for Telegram, with the steps still ahead of it, so that the connect sequence, refreshes and joins
overlap as they do in Node. `WithReconnect`, `WithJoin` and `WithAvailability` are the schedulers with their
early returns.

Operators whose comment begins with "Mutant of" are plausible wrong versions of a definition, each named in
`PROJECT.json` with the property that tells it from the code. They are used by nothing else.

**Composition.** Where one component's promise is another's assumption the modules are put together
(StripeBilling over WebhookLease, Routes over BackendRoutes; TelegramState has collector batches and scrapes
as callers of one store). The others share no state, so nothing is gained by interleaving
them, and they are checked side by side: `MCServices`, `MCNews` and `MCProgress` hold one variable `part` that Init
chooses and no step changes, with an instance of a component per value of `part`. In `MCServices` and
`MCNews` the variables `x1`, `x2`, ... are the state of the chosen component, in the order of its `vars`, and
unused ones are `None`; in `MCProgress` every component has its own variables, because fairness is stated
over them. A property of such a run is a conjunction of one property per component that answers the same
question; its comment names the modules, where each conjunct is defined and explained. The numbers of
states add up and are not multiplied.

## Runs

| run | question | result |
| --- | --- | --- |
| `services` | WebhookLease (two events, three invocations, lost calls, cancellations and expiry) and fourteen other components whose state is their own; properties below | holds |
| `news` | the way of the news, by component; properties below | holds |
| `progress` | what must go on: buffer, link, briefing and page; properties below | holds |
| `billing_serial` | one operation at a time per user, all four writers, three events in every order, a fault: is there a second trial, or an older event applied other than after a trial or the admin switch? | holds |
| `billing_concurrent` | two operations at a time on one account with a fault: `ActiveWasGranted` (no stale write makes up a subscriber), `AckedIsDecided` (an acknowledged event was handled unless its handler or its answer was lost), `AppliedOncePerReopening`, `ImplementsLease`, and `EveryEventAcked` | holds |
| `billing_trial_twice` | the same race with a trial: is a second trial granted? | violated: a webhook that read the account before the trial was written erases it |
| `billing_older_after_trial` | is an older event never applied over a newer? | violated: a trial start drops the time the check compares with |
| `buffer_loses` | is nothing lost from the collector's buffer at all? | violated: two overlapping flushes remove more than was sent |
| `link_stops` | does the link have a next step also when a dial fails? | violated: the catch block asks for a reconnect while `connecting` is still true, and is refused |
| `telegram` | two jobs of any kind, three messages in two channels, batches delivered again, a failure or restart: does one scrape run at a time, and does every channel show the newest of all that was accepted for it, unless `lossy`? | holds |
| `telegram_emptied` | does a channel that has messages keep some, as the comments of the scrape say? | violated: after a failed read of KV the scrape takes itself for the first run and saves its channels empty |
| `ai_batch` | one batch, two invocations, a failure at any step: is it submitted to Groq once unless its id was posted again or its run message sent or delivered again, is it put back only by a sweep, by a second post or by an invocation others have left behind, and does it end unless its keys were saved in part or Groq ended it without an output? | holds |

The five violated runs are disagreements between code and documentation, recorded under `findings` with the
line that causes each and the sentence it contradicts.

The properties of the three joined runs, besides the shape of the states:

| property | what it says, by module |
| --- | --- |
| `Exclusive`, `CompletedSticks` | WebhookLease: one invocation per event; the record of a completed event stays (proved, with the inductive invariant `LeaseInv` checked as part of `TypesOK`) |
| `WithinLimit` | RateLimit: unless two requests overlapped, a minute lets through no more than the highest limit that applied in it. TelegramTexts: what failed is tried again after a pause, which doubles |
| `SavedKept` | UsageStore: an accepted entry is stored, or still to be, unless its delivery failed more often than the queue retries. IntelCache: a restart finds what was saved last. CrmSummary: a log has its newest events, unless two appends to it overlapped |
| `FreshEnough` | UsageStore: an answer is of the request, and no older than the caches allow. AirSea, StripeSummary: no older than the snapshot may be, and the calls it took |
| `DerivedCurrent` | CrmSummary: the summary is of the accounts there are, unless it was built while another request deleted it, or that deletion was lost. CrmStripe: what is refunded or cancelled is no older than what was known, unless the snapshot was taken across a deletion, or the account was written over or forgot its last event. TelegramEvents: a channel's counts are of whole events. TelegramTexts: a message's row has what the state has, but for the English of texts outside the cycle's channels |
| `EachOnce` | AiJobs: every job is done once and has its own result. StripeSummary: every subscription counts once. AirSea: emergencies come first. SubscriberAlerts: what matches has one alert, which is read once. ProfileAlerts: alerts are a cooldown apart. TelegramEvents: every report is in one event |
| `NothingFromBeforeBust` | IntelCache: no answer with data from before a bust that preceded it |
| `SignedOnce` | CollectorControl, AdminGuard: a signed request takes effect at most once |
| `RegressesOnlyByOverlap` | CollectorControl: the state goes back only when two writers overlapped |
| `TakenAgainLate` | AdminGuard: an event is let through again only after its time, less the length of a bucket |
| `StoredKept` | NewsFeed: an item leaves the stored list only for newer news, or because a list was written that was not made from the stored one (the fallback, or the memory cache) |
| `FreeWaits` | NewsFeed: a reader without a plan is shown the newest of the delayed items. FeedGate: who is told to be without a plan waits, and who is not was given it by the backend |
| `ToldOnce` | Outbound: a request tells a channel of a story at most once, and no job does that comes after one that counted its delivery, until the mark's time is over |
| `SkippedIsPublished` | RssIngest: what is left unread was published, or lost with a run that failed |
| `OnlyAllowed` | Routes: what the workers do for a request is the session's or the token's own, and done once. XProfile: a session has one person's name |
| `NoneLostAlone`, `EventuallyDelivered` | CollectorBuffer: the buffer is a gapless tail of what arrived, nothing is lost while no two flushes overlap, and all is delivered then |
| `WorkPending`, `EventuallyInAllChannels` | a flush, a dial, a join, a look at the channels and the next poll of a page are always to come while there is need of one, as long as no dial failed; every channel is joined in the end |
| `NeverOlder` | Briefings: what counts as made from the window's items was made from them or from later ones, unless a consumer read an older feed. TelegramPage: a page shows the newest state it was given |
| `EventuallyCurrent` | Briefings: the briefing is in the end that of the news there is, again after it expires. TelegramPage: a page that is looked at shows, again and again, nothing older than what is stored |

Many of these say "unless": the code has known holes where two requests cross (KV has no compare-and-set),
and the property says that there are no others. The histories that name the holes are set by the step that
opens one (`overlapped`, `crossed`, `lost`, `stale`, `lossy`, `behind`), and by nothing else.

**Bounds.** Two or three of everything: a race of this code needs two invocations and a third party to
notice, a reordering needs two events, a lost update two writers. Every instance's comment says what its
sizes are for. `UserInFlight` is 1 or 2, because the
properties differ exactly in whether two operations of one user overlap. `MaxFaults`, `MaxFails`,
`MaxDialFails` and `MaxErrors` are spent on any step, and the counterexamples above need at most one.
In `telegram`, `Keep` is less than `PageSize` so that a message already dropped is still on the page, and
`LocalMax` lets one message fit the own copy and two not, so that every switch between the two copies happens;
in `telegram_emptied` it is 0, as the real state with its 250 channels is larger than the copy may be.
In `ai_batch` one retry and one poll are enough for each counter to run out, and one failure for the sweep to be
needed. In `progress` the
page has four of states, visits and faults together (`MaxEvents`): three states and a
visit, so that a batch can put back an older time, two states and two visits, so that a request left behind
can overwrite the next visit's snapshot, or two states, a visit and a fault; more is too many states for its
liveness.
`MaxTime` lets a reservation (TTL 2) expire under a handler and be taken again; `CompletedTtl` is longer
than the clock, as seven days are longer than Stripe's retries of an event. Elsewhere `MaxTime` reaches past
the end of every entry the instance keeps, and a run's caches and pauses are ordered as the code's are
(Stale over Ttl, Longest over Base). `CHECK_DEADLOCK FALSE`: with
bounded messages, clock and faults every instance comes to rest; that it does not rest too early is what the
liveness properties say.

Sizes: `services` 2.1 million distinct states, `news` 2.0 million, `progress` 0.2 million, the others
between thousands and half a million.

**Fairness.** In StripeBilling an invocation that is neither cancelled nor failed runs to its end (weak
fairness: the runtime schedules it), and Stripe retries an unacknowledged event again and again (strong
fairness, since the event becomes deliverable intermittently). Faults, requests and the clock are not fair.
In CollectorBuffer timers fire and the edge answers or fails. In CollectorLink a call to Telegram returns or
fails and a flood wait ends; timers get strong fairness, because the bound on `Tasks` can hold a timer up
again and again, which in the code it never does.
In Briefings the schedule (caller 1) asks again and again and its steps go on, time passes, and the queue hands
a message to some consumer and the consumer runs on; the other callers owe nothing.
In TelegramPage the browser fires a timer that is due, and a request is answered, by the object or, when that
fails, by KV or with an error, or is ended by its own time limit; nobody has to come back to the page, and the
socket owes nothing: the polling alone brings the page up to date.
In AiBatch invocations run on, Groq ends what was submitted, time passes, and the cron and the queue get their
turn (strong fairness for both kinds of messages and for the sweep, because both invocations of the bound may
be busy again and again). `EveryBatchEnds` needs the sweep: when a run dies after it has saved `running`, its
own retry leaves the batch alone.

**Assumption on time.** `HandlerDeadline < ProcessingTtl`: an invocation is gone before its reservation
(10 minutes) expires. The edge aborts the forwarded request after 30 s, and an invocation does not outlive
its request by minutes. Without the assumption `Exclusive` would be false: the coordinator's release and
complete do not check who holds the lease.

## What the models showed about the code

Besides the findings, the models follow the code in these points a reader might not expect:

- `REQUIRE_SIGNED_USER_ID` turned on breaks the edge's question for a user's tier: that call never signs.
- A checkout does not look whether the account has a subscription already (backend, line 10849).
- After an outage of X, a session may be served the placeholder of its sign-in as the user's name, and the
  only one it has (edge, `index.ts:1526`).
- An entry of FeedGate's cache that came from a login's entry renews that entry (`index.ts:2166`): a tier by
  login can be remembered for longer than its time.
- A Latin text the translator returns unchanged counts as English when shown, and is asked for again by every
  scrape, with no pause (`telegram-scraper-do.ts:846`); a photo whose reading failed gets a text that says
  so and is never read again (about line 2456).
- Canonical events reach D1 only in cycles that have new messages (line 3463).
- A scrape tells the pages of its state before it saves it (line 2620), and an applied batch gives its state the time of
  the batch (line 2987), which may be older than the one before: pages then refuse the newer state until one
  with a later time is made. `TelegramPage!EventuallyCurrent` says no more than that.
- A Stripe event may be applied to an account over a newer one after a trial start or the admin switch; what an
  owner then cancels is the account's subscription, not the newest.
- A batch that Groq completes without an output file never ends (backend, line 9399).
- A text of a channel that a cycle does not scrape is translated again in every cycle (line 2349).
- A page left before its answer still writes it to the session snapshot, over a newer one.
- In `useLiveRefresh` a refetch that rejects would end the polling (the timer awaits it before it is set
  again); `refreshTelegram` catches everything, which is what keeps `PollPending` true.

## Proofs

A theorem holds for every value of the constants that the module's named assumptions allow, a run for one.
Every proof is by an inductive invariant: the property, its types, and what the property alone does not say.
An invariant was checked by TLC on the run's instance before it was proved.

| module | theorems | what they say of any instance |
| --- | --- | --- |
| WebhookLeaseProofs | `LeaseInvariant`, `MutualExclusion`, `CompletionIsFinal` | one invocation per event; a completed event's record stays until it expires |
| StripeBillingProofs | `TypesKept`, `TypeCorrect`, `HandlerImplementsLease`, `NothingAckedForNothing`, `NoSubscriberInvented`, `AppliedOnce`, `OneTrialEach`, `OlderOnlyAfterForgetting` | the handler implements WebhookLease; what the four billing runs check of accounts and events |
| AiBatchProofs | `TypeCorrect`, `PaidOnce`, `Forward` | a batch nobody posted or sent again is submitted once; a state is put back only by a sweep, a second post or an invocation others left behind |
| TelegramStateProofs | `TypeCorrect`, `ScrapesExclude`, `NewestAreShown` | one scrape at a time; a channel shows the newest of all that was accepted for it |
| ProgressProofs | `ProgressInvariant`, `TypesKept`, `BufferKeeps`, `SomethingPending`, `NothingOlder` | all of the `progress` run but its liveness |
| ComponentProofs | `GuardAcceptsOnce`, `GuardTakesLate`, `ControlAppliesOnce`, `ControlRegresses`, `CacheForgets`, `CacheRestarts`, `RatesWithinLimit`, `TextsPause`, `TextsRows`, `UsageAcceptedKept`, `UsageFreshEnough`, `CrmLogKept`, `CrmSummaryCurrent`, `OutToldOnce`, `RssSkippedIsPublished`, `XpNamedOnce`, `RtOnlyAllowed`, `AirFreshEnough`, `FigFreshEnough` | the properties of AdminGuard, CollectorControl, IntelCache, RateLimit, TelegramTexts, UsageStore, CrmSummary, Outbound, RssIngest, XProfile, Routes, AirSea and StripeSummary, each for every instance of its module |
| ServicesProofs | `ServicesSignOnce`, `ServicesForget`, `ServicesWithinLimit`, `ServicesRegress`, `ServicesTakeLate`, `ServicesSavedKept`, `ServicesFreshEnough` | the same of the instances in the `services` run, as its properties state them |
| NewsProofs | `NewsToldOnce`, `NewsSkippedIsPublished`, `NewsOnlyAllowed` | the same of those in the `news` run |

**The lease.** `Exclusive` alone is not inductive: nothing in it prevents a reservation from expiring under a
handler, or a handler from completing a lease that is not its own. `LeaseInv` is the conjunction of `TypeOK`,
`WithinDeadline` (every invocation is younger than the deadline), `Exclusive`, `OwnsLease` (a working
invocation's event has exactly the reservation that it made, unexpired) and `FailedHoldsLease` (the event of a
failed handler still has a record that lasts at least as long as its reservation). The inductive step is one
lemma per group of actions; `Tick` is where the assumption on time is used, `Reserve` where exclusion comes
from, `Release` where it matters that only a processing record is removed.

**Billing.** `TypeInv` says what an invocation carries at each place of its handler (which event, which
account, that a save is of the event's own user); every other argument reads it. The refinement is then
proved step by step: each of the handler's actions is an action of WebhookLease under the mapping of `op` to
`job`, or changes nothing there. So the lemmas of WebhookLeaseProofs are used again, instantiated with that
mapping (`HandlersExclusive`): one handler per event, and a reservation held until its handler failed.
`Settled` follows an acknowledged event, `WritesGranted` extends `ActiveWasGranted` to what the invocations
are about to write, `AppliedInv` counts an event's writes against the failures after them, and `MemoryInv`
says what an account remembers when one operation at a time writes it. Two theorems have an assumption of
their own: `AppliedOnce` that the clock does not outrun `CompletedTtl` (seven days, longer than Stripe
retries; afterwards the code does apply an event again), and `OneTrialEach` and `OlderOnlyAfterForgetting`
that one operation of a user is in flight at a time (`Serial`); `billing_trial_twice` shows why.

**AI batches.** A run, a poll and a sweep are lists of steps ahead, and `TypeInv` says which lists there are.
`OnceInv` is the argument for the single submission: there is one right to run a batch, and its first post, one
run message or one run holds it. `ForwardInv` bounds what a batch has reached by what the invocations that are up
to date are yet to save. Every step has one form (`Moves`: one invocation acts on one batch, the others at
most fall behind), so what a step leaves alone is argued once.

**Telegram state.** `ShowsNewest` is about states in which no job runs. `Honest` says what holds while jobs
run: what is shown, or about to be shown by a job between its two saves, and what jobs have recorded and not
yet saved, together make the newest of all messages recorded; and a job has loaded what is shown, but for
channels it has missed. It rests on `NewestOfKept`: the newest of what was kept and of more are the newest of
all, which is why a copy cut to `Keep` messages loses nothing.

**Buffer, link, briefings, page.** `ProgressInv` is one invariant per component. For the buffer: it is a
gapless tail of the arrivals, and while no two flushes overlap the batch sent is still its front. For the
link: as long as no dial failed, whoever may need a next step has a timer or a task for it. For the
briefings: no mark says more than the feed its maker read. For the page: a poll is always to come, and nothing
on its way is older than what is shown unless `behind` says so.

**AdminGuard and CollectorControl.** A nonce may be forgotten only when its timestamp is refused anyway:
`SignedInv` and `EffectInv` say of a request that took effect that it is remembered or too old. This takes a
nonce's time to live of at least twice the skew (`GuardAssumption`, `ControlAssumption`; the code has ten
minutes and five). `TookInv` places an event in the bucket that is looked up for as long as the bucket lives,
with the arithmetic of days and buckets as lemmas (`Quotient`, `SameRemainder`, `StillActive`). `FleetInv` and
`AloneInv` say what containers and the one writer under way know of the stored state.

**IntelCache.** `CacheInv` relates the generation and the last bust to every copy of a value there is: in
memory, in storage in one or more chunks, in fetches on their way, with readers that wait, and in what the
alarm is to fetch; and says that memory and storage agree unless a save was refused (`unsaved`).

**RateLimit.** `RateInv` says that the count of this minute is no less than what it let through, lasts as
long as the minute (`Minute <= KeptFor`; 60 seconds and 120), and that a request about to write has counted
one more than was let through, as long as no two overlapped.

**TelegramTexts.** `ApartByPause` compares with a history the cleaning of pauses does not touch. `PauseInv`
relates the two: a pause that was cleaned up is over, since what failed is remembered for longer than the
longest pause (`Longest <= RetryTtl`; a day and a week). That pauses grow is a fact about the recursive
function `Doubled`, proved by induction from the least number of a set (`LeastNumber`, `Everyone`). `RowsInv`
says for each place of a cycle which rows and which records the state about to be saved agrees with, and that
a row that is ahead of its message is ahead by its English only.

**UsageStore.** `SeedInv` follows an entry from its seed to KV: written, in the queue, given up by the queue, or
yet to be sent. `AnswersInv` dates every answer and cache entry by the last time its key had that value.

**The other components.** Each has an invariant of the same kind in ComponentProofs, stated and explained there:
what a log, a mark, a validator, a copied profile or a cached figure may say, for each place of the operation that
makes it.

**From components to the run.** ServicesProofs instantiates ComponentProofs once for each instance that
MCServices has, shows that Init, Next and vars of the two are the same (`Same...`), and carries the
invariants over (`...Kept`). `NoneAssumption` says of the model value `None` that it is no number and none of
the records that may stand in its place, which TLC ensures by making it a model value.

Model-checked only: liveness (`EveryBatchEnds`, `EveryEventAcked`, `EventuallyDelivered`,
`EventuallyInAllChannels`, `EventuallyCurrent`), which with fairness and ENABLED is out of the prover's reach
here; in `services` `TypesOK`, `EachOnce`, and of `DerivedCurrent` the parts of CrmStripe and TelegramEvents; in
`news` `TypeOK`, `StoredKept` and `FreeWaits`.

## What is abstracted

Prices, names, e-mail addresses, counters reported by `/status`, wording and logging are
left out. An account keeps its status, trial times, whether a Stripe customer is known, and the creation time
of the last event. Time is a small natural number. KV is taken to be linearizable: a get sees the last put. The
real KV may serve an older value for up to a minute, which adds behaviours of the kind the concurrent runs
already contain (a read before somebody else's write); where the code keeps a second copy or a memory cache
of its own, that copy is modelled with its age. Texts, prompts, items and answers of outside services are
model values or versions. In CollectorLink a refresh reads the account's
channels at the moment its answer is applied. A container restart is not modelled: memory is lost with it.

## Plan

Done: every part of the table above. What could still be added, by what it adds:

1. Proofs of `FreeWaits` and `StoredKept` (NewsFeed, FeedGate) and of `EachOnce` and the rest of `DerivedCurrent`.
2. Several batches, with the keys that lead from one post to another's batch, and the sweep over them, in AiBatch.
3. In TelegramState, the rotation of `resolveTelegramScrapePlan` as a function of time, and that every message
   on a scraped page is found in the end.

## Not modelled

- Sign-in (better-auth; during an outage of X it may also give the only named identity to whoever signs in,
  `edge/auth.ts`, line 337), Turnstile, the media proxy, D1 schemas: libraries, or calls passed on.
- HTML and RSS parsing, the tables of sources, the collector's normalisation of one message, reading text from images:
  functions of one input, with unit tests; the models take what they return.
- Signal grading, source profiles and leaderboards, the ranking of a subscriber's feed: scoring without state, of what
  TelegramEvents and SubscriberAlerts keep.
- The archive in R2, event rows in D1 and the queries over them, AI telemetry: written once and read for reports.
- Most of the web interface: pages render what the edge answers and poll with the same `useLiveRefresh`.
- The platform's rate limit binding, which decides by itself.
- Shared types, scripts, benchmarks and end-to-end tests.
