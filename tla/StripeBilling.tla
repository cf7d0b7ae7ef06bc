--------------------------- MODULE StripeBilling ----------------------------
(***************************************************************************)
(* Billing accounts in KV and the four handlers that rewrite them: the     *)
(* Stripe webhook, the trial start, the admin subscribe switch and the     *)
(* owner's cancellation.  KV offers get and put only, so every handler is  *)
(* a read, an await and a write of the whole account; the webhook handler  *)
(* is also bracketed by the lease of WebhookLease.                         *)
(*                                                                         *)
(* Stripe delivers an event until it gets a 2xx answer.  A delivery may be *)
(* answered late, its handler may be cancelled, and any call to the lease  *)
(* object or to KV may fail before or after it took effect.                *)
(***************************************************************************)
EXTENDS Integers, FiniteSets

CONSTANTS
    Users, Events, Workers,
    NoUser, NoEvent,
    Payload,         \* what each event says
    Operations,      \* which of the other handlers are called
    UserInFlight,    \* bound: operations in flight for one user
    MaxFaults,       \* bound: failures of calls, late answers, cancellations
    TrialLength, ProcessingTtl, CompletedTtl, HandlerDeadline,
    MaxTime          \* bound of the clock

StripeStatus == {"active", "trialing", "canceled", "past_due", "unpaid",
                 "incomplete_expired", "incomplete"}

EventType == {"checkout.session.completed", "customer.subscription.updated",
              "customer.subscription.deleted", "other"}

ASSUME BillingAssumption ==
    /\ NoUser \notin Users /\ NoEvent \notin Events
    /\ Payload \in [Events -> [user : Users \cup {NoUser}, type : EventType,
                               status : StripeStatus, created : Nat,
                               trialEnd : Nat, customer : BOOLEAN]]
    /\ Operations \subseteq {"trial", "subscribe", "cancel"}
    /\ UserInFlight \in Nat /\ MaxFaults \in Nat /\ TrialLength \in Nat
    /\ ProcessingTtl \in Nat /\ CompletedTtl \in Nat /\ HandlerDeadline \in Nat
    /\ MaxTime \in Nat
    /\ HandlerDeadline < ProcessingTtl
    /\ ProcessingTtl <= CompletedTtl

VARIABLES
    now,        \* the clock of every isolate
    lease,      \* the coordinator's records
    acct,       \* KV: the account of each user
    op,         \* what each invocation is doing
    stripe,     \* Stripe's view of each event
    faults,     \* failures so far
    applied,    \* history: how often each event was written to an account
    reopened,   \* history: how often its handler failed after that write
    newest,     \* history: creation time of the newest event applied
    tried,      \* history: users whose trial account was written
    switched,   \* history: users the admin switch was used on
    granted,    \* history: reasons a user may be active
    decided,    \* history: events some handler took to its last call
    orphaned    \* history: events whose handler or answer was lost

history == <<applied, reopened, newest, tried, switched, granted, decided,
             orphaned>>
vars == <<now, lease, acct, op, stripe, faults, history>>

-----------------------------------------------------------------------------
(* Accounts.  A time of 0 stands for a field that is absent.               *)

Status == {"absent", "none", "trialing", "active", "expired", "canceled"}

Account == [status : Status, trialStartedAt : Nat, trialEndsAt : Nat,
            customer : BOOLEAN, lastStripeEventCreated : Nat]

NoAccount == [status |-> "absent", trialStartedAt |-> 0, trialEndsAt |-> 0,
              customer |-> FALSE, lastStripeEventCreated |-> 0]

(* Mutants: the status Stripe sent is stored as it is; a payment that is   *)
(* past due still counts as active.                                        *)
RawStripeStatus(s) == s

LenientStripeStatus(s) == IF s \in {"active", "past_due"} THEN "active" ELSE "none"

MapStripeSubscriptionStatus(s) ==
    CASE s \in {"active", "trialing", "canceled"} -> s
      [] s \in {"past_due", "unpaid", "incomplete_expired"} -> "expired"
      [] OTHER -> "none"

Entitled(a) == a.status = "active"

(* The account the webhook handler writes for event p over what it read.   *)
WebhookStatus(p) ==
    CASE p.type = "checkout.session.completed" -> "active"
      [] p.type = "customer.subscription.updated" ->
            MapStripeSubscriptionStatus(p.status)
      [] OTHER -> "canceled"

WebhookAccount(prev, p) ==
    [prev EXCEPT !.status = WebhookStatus(p),
                 !.trialEndsAt = IF p.type = "customer.subscription.updated"
                                    /\ p.trialEnd # 0
                                 THEN p.trialEnd ELSE @,
                 !.customer = @ \/ p.customer,
                 !.lastStripeEventCreated = p.created]

(* The trial account keeps the Stripe ids and nothing else.                *)
TrialAccount(prev, t) ==
    [status |-> "trialing", trialStartedAt |-> t, trialEndsAt |-> t + TrialLength,
     customer |-> prev.customer, lastStripeEventCreated |-> 0]

(* Mutant of SubscribeAccount: the trial is forgotten.                     *)
SubscribeForgetsTrial(prev, active) ==
    [prev EXCEPT !.status = IF active THEN "active" ELSE "canceled",
                 !.trialStartedAt = 0, !.lastStripeEventCreated = 0]

SubscribeAccount(prev, active) ==
    [prev EXCEPT !.status = IF active THEN "active" ELSE "canceled",
                 !.lastStripeEventCreated = 0]

(* The owner cancels at the end of the period, or at once: Stripe's answer *)
(* to the deletion has the status canceled then.                           *)
CancelAccount(prev, atPeriodEnd) ==
    [prev EXCEPT !.status = IF atPeriodEnd THEN @ ELSE "canceled"]

(* A trial is granted to a user who never had one and is not active.       *)
TrialAllowed(prev, t) ==
    /\ prev.trialStartedAt = 0
    /\ prev.status # "active"
    /\ ~ (prev.status = "trialing" /\ prev.trialEndsAt > t)

-----------------------------------------------------------------------------
(* Invocations.                                                            *)

Kind == {"none", "webhook", "trial", "subscribe", "cancel"}

Idle == [kind |-> "none", pc |-> "idle", user |-> NoUser, event |-> NoEvent,
         next |-> NoAccount, since |-> 0]

Op == [kind : Kind, pc : {"idle", "load", "save", "complete", "release"},
       user : Users \cup {NoUser}, event : Events \cup {NoEvent},
       next : Account, since : Nat]

Begin(w, record) == op' = [op EXCEPT ![w] = record]

End(w) == op' = [op EXCEPT ![w] = Idle]

InFlight(u) == Cardinality({w \in Workers : op[w].user = u})

MayStart(w, u) == op[w] = Idle /\ (u = NoUser \/ InFlight(u) < UserInFlight)

Fault == faults < MaxFaults /\ faults' = faults + 1

(* Mutant of Held: only a handler at work makes a duplicate.               *)
HeldIfProcessing(l) == l.state = "processing" /\ l.expiresAt > now

Held(l) == l.state # "none" /\ l.expiresAt > now

Reserved(t) == [state |-> "processing", expiresAt |-> t + ProcessingTtl]

Completed(t) == [state |-> "completed", expiresAt |-> t + CompletedTtl]

NoLease == [state |-> "none", expiresAt |-> 0]

(* Mutants of Released: the record stays; the record goes in any state.    *)
ReleasedNever(l) == l

ReleasedAlways(l) == NoLease

Released(l) == IF l.state = "processing" THEN NoLease ELSE l

(* Stripe only hears an answer it still waits for.                         *)
Answer(e, outcome) ==
    stripe' = [stripe EXCEPT ![e] = IF @ = "sent" THEN outcome ELSE @]

Unsettle(e) == orphaned' = orphaned \cup {e}

-----------------------------------------------------------------------------
Init ==
    /\ now = 1
    /\ lease = [e \in Events |-> NoLease]
    /\ acct = [u \in Users |-> NoAccount]
    /\ op = [w \in Workers |-> Idle]
    /\ stripe = [e \in Events |-> "pending"]
    /\ faults = 0
    /\ applied = [e \in Events |-> 0]
    /\ reopened = [e \in Events |-> 0]
    /\ newest = [u \in Users |-> 0]
    /\ tried = {}
    /\ switched = {}
    /\ granted = [u \in Users |-> FALSE]
    /\ decided = {}
    /\ orphaned = {}

(* The webhook handler: reserve.                                           *)
Deliver(w, e) ==
    /\ stripe[e] = "pending"
    /\ MayStart(w, Payload[e].user)
    /\ ~ Held(lease[e])
    /\ lease' = [lease EXCEPT ![e] = Reserved(now)]
    /\ Begin(w, [Idle EXCEPT !.kind = "webhook", !.pc = "load",
                             !.user = Payload[e].user, !.event = e, !.since = now])
    /\ stripe' = [stripe EXCEPT ![e] = "sent"]
    /\ UNCHANGED <<now, acct, faults, history>>

(* Mutant of DuplicateAnswer: the coordinator's 409 is passed on to Stripe. *)
DuplicateConflict == "pending"

DuplicateAnswer == "acked"

DeliverDuplicate(e) ==
    /\ stripe[e] = "pending"
    /\ Held(lease[e])
    /\ stripe' = [stripe EXCEPT ![e] = DuplicateAnswer]
    /\ UNCHANGED <<now, lease, acct, op, faults, history>>

(* The reservation is stored and its answer lost: 503, nothing released.   *)
DeliverUnheard(e) ==
    /\ stripe[e] = "pending"
    /\ ~ Held(lease[e])
    /\ Fault
    /\ lease' = [lease EXCEPT ![e] = Reserved(now)]
    /\ Unsettle(e)
    /\ UNCHANGED <<now, acct, op, stripe, applied, reopened, newest, tried, switched,
                   granted, decided>>

(* Mutant of Outdated: no comparison of creation times.                    *)
NeverOutdated(prev, p) == FALSE

Outdated(prev, p) == prev.lastStripeEventCreated > p.created

(* Load the account; an older event and an event of no interest go         *)
(* straight to the completion.                                             *)
WebhookLoad(w) ==
    LET e == op[w].event
        p == Payload[e]
        prev == IF p.user = NoUser THEN NoAccount ELSE acct[p.user]
        writes == p.user # NoUser /\ p.type # "other" /\ ~ Outdated(prev, p)
    IN  /\ op[w].kind = "webhook" /\ op[w].pc = "load"
        /\ Begin(w, IF writes
                    THEN [op[w] EXCEPT !.pc = "save", !.next = WebhookAccount(prev, p)]
                    ELSE [op[w] EXCEPT !.pc = "complete"])
        /\ decided' = IF writes THEN decided ELSE decided \cup {e}
        /\ UNCHANGED <<now, lease, acct, stripe, faults, applied, reopened, newest,
                       tried, switched, granted, orphaned>>

(* History: an event that by its own words makes its user a subscriber.    *)
SaysActive(p) ==
    \/ p.type = "checkout.session.completed"
    \/ p.type = "customer.subscription.updated" /\ p.status = "active"

NewestOf(m, n) == IF m > n THEN m ELSE n

Put(w) == acct' = [acct EXCEPT ![op[w].user] = op[w].next]

WebhookPut(w) ==
    LET e == op[w].event u == op[w].user
    IN  /\ op[w].kind = "webhook" /\ op[w].pc = "save"
        /\ Put(w)
        /\ applied' = [applied EXCEPT ![e] = @ + 1]
        /\ newest' = [newest EXCEPT ![u] = NewestOf(@, Payload[e].created)]
        /\ granted' = [granted EXCEPT ![u] = @ \/ SaysActive(Payload[e])]
        /\ UNCHANGED <<now, lease, stripe, tried, switched, orphaned>>

WebhookSave(w) ==
    /\ WebhookPut(w)
    /\ Begin(w, [op[w] EXCEPT !.pc = "complete"])
    /\ decided' = decided \cup {op[w].event}
    /\ UNCHANGED <<faults, reopened>>

(* History: a handler that has written its account stops short of          *)
(* completing the lease.                                                   *)
Reopen(w) ==
    reopened' = IF op[w].pc = "complete" /\ op[w].next # NoAccount
                THEN [reopened EXCEPT ![op[w].event] = @ + 1] ELSE reopened

(* The account is written, one of the three cache deletions after it throws. *)
WebhookSaveThrows(w) ==
    /\ WebhookPut(w)
    /\ Fault
    /\ Begin(w, [op[w] EXCEPT !.pc = "release"])
    /\ reopened' = [reopened EXCEPT ![op[w].event] = @ + 1]
    /\ UNCHANGED decided

(* A call throws without effect: the read, the write or the completion.    *)
WebhookThrows(w) ==
    /\ op[w].kind = "webhook" /\ op[w].pc \in {"load", "save", "complete"}
    /\ Fault
    /\ Begin(w, [op[w] EXCEPT !.pc = "release"])
    /\ Reopen(w)
    /\ UNCHANGED <<now, lease, acct, stripe, applied, newest, tried, switched,
                   granted, decided, orphaned>>

WebhookComplete(w) ==
    /\ op[w].kind = "webhook" /\ op[w].pc = "complete"
    /\ lease' = [lease EXCEPT ![op[w].event] = Completed(now)]
    /\ Answer(op[w].event, "acked")
    /\ End(w)
    /\ UNCHANGED <<now, acct, faults, history>>

WebhookCompleteUnheard(w) ==
    /\ op[w].kind = "webhook" /\ op[w].pc = "complete"
    /\ Fault
    /\ lease' = [lease EXCEPT ![op[w].event] = Completed(now)]
    /\ Begin(w, [op[w] EXCEPT !.pc = "release"])
    /\ UNCHANGED <<now, acct, stripe, history>>

(* The catch block: release, then answer with the error.                   *)
WebhookRelease(w) ==
    LET e == op[w].event
    IN  /\ op[w].kind = "webhook" /\ op[w].pc = "release"
        /\ lease' = [lease EXCEPT ![e] = Released(@)]
        /\ Answer(e, "pending")
        /\ End(w)
        /\ UNCHANGED <<now, acct, faults, history>>

(* The invocation ends with its lease unsettled: the release failed, which *)
(* the handler swallows, or the edge gave up and the invocation was        *)
(* cancelled.  Stripe hears an error.                                      *)
WebhookAbandon(w) ==
    /\ op[w].kind = "webhook"
    /\ Fault
    /\ Answer(op[w].event, "pending")
    /\ Unsettle(op[w].event)
    /\ Reopen(w)
    /\ End(w)
    /\ UNCHANGED <<now, lease, acct, applied, newest, tried, switched, granted,
                   decided>>

(* Stripe stops waiting while the handler goes on.                         *)
StripeTimesOut(e) ==
    /\ stripe[e] = "sent"
    /\ Fault
    /\ stripe' = [stripe EXCEPT ![e] = "pending"]
    /\ Unsettle(e)
    /\ UNCHANGED <<now, lease, acct, op, applied, reopened, newest, tried, switched,
                   granted, decided>>

-----------------------------------------------------------------------------
(* The other writers: read and decide, then write.                         *)

TrialLoad(w, u) ==
    /\ "trial" \in Operations
    /\ MayStart(w, u)
    /\ TrialAllowed(acct[u], now)
    /\ Begin(w, [Idle EXCEPT !.kind = "trial", !.pc = "save", !.user = u,
                             !.next = TrialAccount(acct[u], now)])
    /\ UNCHANGED <<now, lease, acct, stripe, faults, history>>

SubscribeLoad(w, u, active) ==
    /\ "subscribe" \in Operations
    /\ MayStart(w, u)
    /\ Begin(w, [Idle EXCEPT !.kind = "subscribe", !.pc = "save", !.user = u,
                             !.next = SubscribeAccount(acct[u], active)])
    /\ UNCHANGED <<now, lease, acct, stripe, faults, history>>

(* Needs an account with a Stripe customer; the call to Stripe lies        *)
(* between the read and the write.                                         *)
CancelLoad(w, u, atPeriodEnd) ==
    /\ "cancel" \in Operations
    /\ MayStart(w, u)
    /\ acct[u].status # "absent" /\ acct[u].customer
    /\ Begin(w, [Idle EXCEPT !.kind = "cancel", !.pc = "save", !.user = u,
                             !.next = CancelAccount(acct[u], atPeriodEnd)])
    /\ UNCHANGED <<now, lease, acct, stripe, faults, history>>

AccountSave(w) ==
    LET u == op[w].user
    IN  /\ op[w].kind \in {"trial", "subscribe", "cancel"} /\ op[w].pc = "save"
        /\ Put(w)
        /\ tried' = IF op[w].kind = "trial" THEN tried \cup {u} ELSE tried
        /\ switched' = IF op[w].kind = "subscribe" THEN switched \cup {u} ELSE switched
        /\ granted' = IF op[w].kind = "subscribe"
                      THEN [granted EXCEPT ![u] = @ \/ Entitled(op[w].next)]
                      ELSE granted
        /\ End(w)
        /\ UNCHANGED <<now, lease, stripe, faults, applied, reopened, newest, decided,
                       orphaned>>

(* The rate limit, Stripe or KV ends the operation before it wrote.        *)
AccountDrop(w) ==
    /\ op[w].kind \in {"trial", "subscribe", "cancel"}
    /\ Fault
    /\ End(w)
    /\ UNCHANGED <<now, lease, acct, stripe, history>>

Tick ==
    /\ now < MaxTime
    /\ \A w \in Workers : op[w].kind = "webhook" => now < op[w].since + HandlerDeadline
    /\ now' = now + 1
    /\ UNCHANGED <<lease, acct, op, stripe, faults, history>>

WebhookStep(w) ==
    \/ WebhookLoad(w) \/ WebhookSave(w) \/ WebhookComplete(w) \/ WebhookRelease(w)

WebhookFault(w) ==
    \/ WebhookSaveThrows(w) \/ WebhookThrows(w) \/ WebhookCompleteUnheard(w)
    \/ WebhookAbandon(w)

Request(w, u) ==
    \/ TrialLoad(w, u)
    \/ \E flag \in BOOLEAN : SubscribeLoad(w, u, flag) \/ CancelLoad(w, u, flag)

Delivery(e) == DeliverDuplicate(e) \/ \E w \in Workers : Deliver(w, e)

Next ==
    \/ \E e \in Events : Delivery(e) \/ DeliverUnheard(e) \/ StripeTimesOut(e)
    \/ \E w \in Workers : WebhookStep(w) \/ WebhookFault(w)
    \/ \E w \in Workers : AccountSave(w) \/ AccountDrop(w)
    \/ \E w \in Workers, u \in Users : Request(w, u)
    \/ Tick

Spec == Init /\ [][Next]_vars

(* Stripe keeps retrying an unacknowledged event, and an invocation that   *)
(* is neither cancelled nor failed runs to its end.                        *)
Fairness ==
    /\ \A e \in Events : SF_vars(Delivery(e))
    /\ \A w \in Workers : WF_vars(WebhookStep(w)) /\ WF_vars(AccountSave(w))

FairSpec == Spec /\ Fairness

-----------------------------------------------------------------------------
(* Properties.                                                             *)

TypeOK ==
    /\ now \in Nat
    /\ lease \in [Events -> [state : {"none", "processing", "completed"},
                             expiresAt : Nat]]
    /\ acct \in [Users -> Account]
    /\ op \in [Workers -> Op]
    /\ stripe \in [Events -> {"pending", "sent", "acked"}]
    /\ faults \in 0..MaxFaults
    /\ applied \in [Events -> Nat] /\ reopened \in [Events -> Nat]
    /\ newest \in [Users -> Nat]
    /\ tried \subseteq Users /\ switched \subseteq Users
    /\ granted \in [Users -> BOOLEAN]
    /\ decided \subseteq Events /\ orphaned \subseteq Events

(* An event Stripe was told is delivered has been decided, unless a        *)
(* reservation of it was left behind or its answer came too late: losing   *)
(* an event takes more than a handler that fails and releases.             *)
AckedIsDecided ==
    \A e \in Events :
        stripe[e] = "acked" => e \in decided \/ e \in orphaned

(* An event is applied again only after a handler of it failed between its *)
(* write and its completion; late answers, retries, cancellations before   *)
(* the write and lost completions never apply it twice.                    *)
AppliedOncePerReopening ==
    \A e \in Events : applied[e] <= 1 + reopened[e]

(* Nobody is a subscriber unless Stripe or the admin switch said so: no    *)
(* interleaving of stale writes makes up an active account.                *)
ActiveWasGranted ==
    \A u \in Users : Entitled(acct[u]) => granted[u]

(* BILLING_ALLOW_RETRIAL is off: nobody whose trial account was written is *)
(* let into a second trial later.                                          *)
TrialNotRegranted ==
    [][\A w \in Workers :
          op[w].kind # "trial" /\ op'[w].kind = "trial"
          => op'[w].user \notin tried]_vars

(* An event older than one already applied to the account is not applied.  *)
NoOlderEventApplied ==
    [][\A e \in Events :
          applied'[e] > applied[e] =>
              Payload[e].created >= newest[Payload[e].user]]_vars

(* With one operation at a time only a trial or the admin switch, which    *)
(* drop the creation time of the account, let an older event in.           *)
OlderOnlyIfForgotten ==
    [][\A e \in Events :
          applied'[e] > applied[e] =>
              \/ Payload[e].created >= newest[Payload[e].user]
              \/ Payload[e].user \in tried \cup switched]_vars

(* Stripe's retries end: every event is eventually acknowledged.           *)
EveryEventAcked == \A e \in Events : <>(stripe[e] = "acked")

(* The webhook handler keeps to the protocol of the lease.                 *)
LeaseJob(o) ==
    IF o.kind # "webhook"
    THEN [phase |-> "idle", event |-> NoEvent, since |-> 0]
    ELSE [phase |-> IF o.pc = "release" THEN "failed" ELSE "working",
          event |-> o.event, since |-> o.since]

LeaseProtocol == INSTANCE WebhookLease WITH job <- [w \in Workers |-> LeaseJob(op[w])]

ImplementsLease == LeaseProtocol!Spec

=============================================================================
