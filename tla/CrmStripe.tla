------------------------------ MODULE CrmStripe -------------------------------
(***************************************************************************)
(* The owner's requests about one customer in Stripe: the view, the refund *)
(* and the cancellation.  Which charge is refunded and which subscription  *)
(* is cancelled, when the owner names none, comes from the account, from a *)
(* snapshot of Stripe that the view keeps in KV, or from Stripe itself.    *)
(* Whoever writes the account deletes the snapshot: Stripe's webhooks, a   *)
(* trial's start or the admin's switch, and the cancellation; each reads   *)
(* the account first and writes it whole, so that one of them may write    *)
(* over another.                                                           *)
(* Charges and subscriptions are numbered as Stripe makes them, no two in  *)
(* the same second.                                                        *)
(***************************************************************************)
EXTENDS Integers, FiniteSetsExt

CONSTANTS
    Owners,
    Hooks, Switches,            \* writers of the account: Stripe's events, and trial
                                \* starts and the admin's switch
    MaxCharges, MaxFaults,      \* bounds
    None

VARIABLES
    faults,
    stripe,     \* Stripe: the newest charge and subscription
    events,     \* Stripe: the events not yet taken
    account,    \* KV: the account's subscription, 0 if none, and the last event it is of
    snapshot,   \* KV: what the view found, or None
    request, writer,
    known,      \* history: the newest of what the events handled were about
    forgotten,  \* history: the newest event whose time an account has lost
    crossed,    \* history: an account was written over one its writer had not read,
                \* or with an event older than the forgotten
    acted       \* history: the last unnamed refund or cancellation, and what was known before it

vars == <<faults, stripe, events, account, snapshot, request, writer, known, forgotten, crossed, acted>>

Writers == Hooks \cup Switches

Idle == [at |-> "idle"]

Newest(a, b) == [charge |-> Max({a.charge, b.charge}), sub |-> Max({a.sub, b.sub})]

Fault == faults < MaxFaults /\ faults' = faults + 1

-----------------------------------------------------------------------------
(* Stripe: a checkout begins a subscription with its first charge, and a   *)
(* renewal adds one.                                                       *)
Charges ==
    /\ stripe.charge < MaxCharges
    /\ \E renewal \in {r \in BOOLEAN : r => stripe.sub > 0} :
          stripe' = [charge |-> stripe.charge + 1,
                     sub |-> IF renewal THEN stripe.sub ELSE stripe.sub + 1]
    /\ events' = events \cup {stripe'}
    /\ UNCHANGED <<faults, account, snapshot, request, writer, known, forgotten, crossed, acted>>

(* deleteCachedCrmCustomerStripeSnapshot, which a view in progress does    *)
(* not notice.                                                             *)
Deleted(q) ==
    /\ snapshot' = None
    /\ request' = [o \in Owners |->
          IF q[o].at = "keeping" THEN [q[o] EXCEPT !.crossed = TRUE] ELSE q[o]]

(* What q writes: a cancellation has the account it read with the          *)
(* subscription it cancelled; a webhook its event's; a trial's start and   *)
(* the switch forget the time of the last event.                           *)
Account(q) ==
    CASE q.kind = "cancel" -> [q.read EXCEPT !.sub = q.sub]
      [] q.kind = "event" -> [sub |-> q.event.sub, last |-> q.event.charge]
      [] q.kind = "other" -> [q.read EXCEPT !.last = 0]

(* saveBillingAccount                                                      *)
Writes(q) ==
    /\ account' = Account(q)
    /\ forgotten' = IF q.kind = "other" THEN Max({forgotten, account.last}) ELSE forgotten
    /\ crossed' = \/ crossed \/ account # q.read
                  \/ q.kind = "event" /\ q.read.last = 0 /\ q.event.charge < forgotten

(* An event older than the last one changes nothing.                       *)
Ignored(e) == account.last > e.charge

(* A webhook reads the account.                                            *)
Takes(w, e) ==
    /\ e \in events /\ writer[w] = Idle
    /\ writer' = IF Ignored(e) THEN writer
                 ELSE [writer EXCEPT ![w] = [kind |-> "event", at |-> "saving", event |-> e, read |-> account]]
    /\ events' = events \ {e}
    /\ UNCHANGED <<faults, stripe, account, snapshot, request, known, forgotten, crossed, acted>>

(* handleBillingStartTrial, handleBillingSubscribe                         *)
Starts(w) ==
    /\ writer[w] = Idle
    /\ writer' = [writer EXCEPT ![w] = [kind |-> "other", at |-> "saving", read |-> account]]
    /\ UNCHANGED <<faults, stripe, events, account, snapshot, request, known, forgotten, crossed, acted>>

WriterSaves(w) ==
    /\ writer[w].at = "saving"
    /\ Writes(writer[w])
    /\ writer' = [writer EXCEPT ![w].at = "clearing"]
    /\ UNCHANGED <<faults, stripe, events, snapshot, request, known, acted>>

Clears(w) ==
    /\ writer[w].at = "clearing"
    /\ Deleted(request)
    /\ known' = IF writer[w].kind = "event" THEN Newest(known, writer[w].event) ELSE known
    /\ writer' = [writer EXCEPT ![w] = Idle]
    /\ UNCHANGED <<faults, stripe, events, account, forgotten, crossed, acted>>

(* A call fails, or its answer is lost: the answer to Stripe is an error,  *)
(* and it sends the event again.                                           *)
WriterFails(w) ==
    LET q == writer[w] IN
    /\ q # Idle /\ Fault
    /\ \/ UNCHANGED <<account, forgotten, crossed, snapshot, request>>
       \/ q.at = "saving" /\ Writes(q) /\ UNCHANGED <<snapshot, request>>
       \/ q.at = "clearing" /\ Deleted(request) /\ UNCHANGED <<account, forgotten, crossed>>
    /\ events' = IF q.kind = "event" THEN events \cup {q.event} ELSE events
    /\ writer' = [writer EXCEPT ![w] = Idle]
    /\ UNCHANGED <<stripe, known, acted>>

-----------------------------------------------------------------------------
(* What a request may not fall behind.                                     *)
Told(kind) ==
    CASE kind = "refund" -> known.charge
      [] kind = "cancel" -> known.sub
      [] kind = "view" -> 0

(* resolveOwnerActionBillingContext.  Only a cancellation needs all of the *)
(* account later.                                                          *)
Asks(o, kind) ==
    /\ request[o] = Idle
    /\ request' = [request EXCEPT ![o] =
          [kind |-> kind, at |-> "cache", sub |-> account.sub, charge |-> 0,
           read |-> IF kind = "cancel" THEN account ELSE None,
           known |-> Told(kind), crossed |-> FALSE]]
    /\ acted' = None
    /\ UNCHANGED <<faults, stripe, events, account, snapshot, writer, known, forgotten, crossed>>

Proceeds(o, q) == request' = [request EXCEPT ![o] = q]

(* The newest charge of the snapshot, and the subscription of the account  *)
(* or else of the snapshot.                                                *)
Cached(q, s) ==
    [q EXCEPT !.charge = IF s = None THEN 0 ELSE s.charge,
              !.sub = IF @ = 0 /\ s # None THEN s.sub ELSE @,
              !.crossed = s # None /\ s.crossed]

(* loadCachedCrmCustomerStripeSnapshot                                     *)
LooksUp(o) ==
    LET q == Cached(request[o], snapshot) IN
    /\ request[o].at = "cache"
    /\ Proceeds(o, [q EXCEPT !.at =
          CASE q.kind = "refund" -> IF q.charge = 0 THEN "list" ELSE "post"
            [] q.kind = "cancel" -> IF q.sub = 0 THEN "list" ELSE "post"
            [] OTHER -> IF q.sub = 0 THEN "list" ELSE "fetch"])
    /\ UNCHANGED <<faults, stripe, events, account, snapshot, writer, known, forgotten, crossed, acted>>

(* Stripe is asked for the newest.  There is nothing to act on if it has   *)
(* none.                                                                   *)
Lists(o) ==
    LET q == request[o] IN
    /\ q.at = "list"
    /\ Proceeds(o,
          CASE q.kind = "view" -> [q EXCEPT !.sub = stripe.sub, !.at = "fetch"]
            [] stripe.charge = 0 -> Idle
            [] q.kind = "refund" -> [q EXCEPT !.charge = stripe.charge, !.at = "post"]
            [] OTHER -> [q EXCEPT !.sub = stripe.sub, !.at = "post"])
    /\ UNCHANGED <<faults, stripe, events, account, snapshot, writer, known, forgotten, crossed, acted>>

(* handleAdminCrmCustomer                                                  *)
Fetches(o) ==
    /\ request[o].at = "fetch"
    /\ Proceeds(o, [kind |-> "view", at |-> "keeping",
                    charge |-> stripe.charge, sub |-> request[o].sub, crossed |-> FALSE])
    /\ UNCHANGED <<faults, stripe, events, account, snapshot, writer, known, forgotten, crossed, acted>>

Keeps(o) ==
    LET q == request[o] IN
    /\ q.at = "keeping"
    /\ snapshot' = [charge |-> q.charge, sub |-> q.sub, crossed |-> q.crossed]
    /\ Proceeds(o, Idle)
    /\ UNCHANGED <<faults, stripe, events, account, writer, known, forgotten, crossed, acted>>

(* Stripe refunds or cancels.                                              *)
Acts(q) == acted' = [kind |-> q.kind, charge |-> q.charge, sub |-> q.sub,
                     known |-> q.known, crossed |-> IF q.kind = "cancel" THEN crossed ELSE q.crossed]

Posts(o) ==
    LET q == request[o] IN
    /\ q.at = "post"
    /\ Acts(q)
    /\ Proceeds(o, IF q.kind = "cancel" THEN [kind |-> "cancel", at |-> "saving", sub |-> q.sub, read |-> q.read]
                   ELSE [kind |-> "refund", at |-> "clearing"])
    /\ UNCHANGED <<faults, stripe, events, account, snapshot, writer, known, forgotten, crossed>>

(* The cancellation writes the account it had read, and whichever          *)
(* subscription it cancelled.                                              *)
Saves(o) ==
    LET q == request[o] IN
    /\ q.at = "saving"
    /\ Writes(q)
    /\ Deleted([request EXCEPT ![o] = [kind |-> "cancel", at |-> "clearing"]])
    /\ acted' = None
    /\ UNCHANGED <<faults, stripe, events, writer, known>>

Finishes(o) ==
    /\ request[o].at = "clearing"
    /\ Deleted([request EXCEPT ![o] = Idle])
    /\ acted' = None
    /\ UNCHANGED <<faults, stripe, events, account, writer, known, forgotten, crossed>>

(* A call fails, or its answer is lost: Stripe may have acted, and the     *)
(* account may have been written.  A view that could not find the          *)
(* subscription goes on without one.                                       *)
RequestFails(o) ==
    LET q == request[o] IN
    /\ q # Idle /\ Fault
    /\ \/ UNCHANGED <<account, forgotten, crossed, acted>>
       \/ q.at = "post" /\ Acts(q) /\ UNCHANGED <<account, forgotten, crossed>>
       \/ q.at = "saving" /\ Writes(q) /\ UNCHANGED acted
    /\ Proceeds(o, IF q.kind = "view" /\ q.at = "list" THEN [q EXCEPT !.at = "fetch"] ELSE Idle)
    /\ UNCHANGED <<stripe, events, snapshot, writer, known>>

(* expirationTtl                                                           *)
Expires ==
    /\ snapshot # None
    /\ snapshot' = None
    /\ UNCHANGED <<faults, stripe, events, account, request, writer, known, forgotten, crossed, acted>>

Init ==
    /\ faults = 0
    /\ stripe = [charge |-> 0, sub |-> 0]
    /\ events = {}
    /\ account = [sub |-> 0, last |-> 0]
    /\ snapshot = None
    /\ request = [o \in Owners |-> Idle]
    /\ writer = [w \in Writers |-> Idle]
    /\ forgotten = 0
    /\ known = [charge |-> 0, sub |-> 0]
    /\ crossed = FALSE
    /\ acted = None

Next ==
    \/ Charges \/ Expires
    \/ \E w \in Writers : WriterSaves(w) \/ Clears(w) \/ WriterFails(w)
    \/ \E w \in Hooks, e \in events : Takes(w, e)
    \/ \E w \in Switches : Starts(w)
    \/ \E o \in Owners :
          \/ LooksUp(o) \/ Lists(o) \/ Fetches(o) \/ Keeps(o)
          \/ Posts(o) \/ Saves(o) \/ Finishes(o) \/ RequestFails(o)
          \/ \E kind \in {"view", "refund", "cancel"} : Asks(o, kind)

Spec == Init /\ [][Next]_vars

-----------------------------------------------------------------------------
TypeOK ==
    /\ stripe \in [charge : 0..MaxCharges, sub : 0..MaxCharges]
    /\ known \in [charge : 0..stripe.charge, sub : 0..stripe.sub]
    /\ account \in [sub : 0..stripe.sub, last : 0..stripe.charge]
    /\ snapshot # None => snapshot.charge <= stripe.charge /\ snapshot.sub <= stripe.sub
    /\ faults \in 0..MaxFaults /\ forgotten \in 0..stripe.charge

(* What is refunded is no older than the newest charge the backend had     *)
(* been told of before the request, unless the snapshot was taken across a *)
(* deletion; and so is the subscription that is cancelled, unless a writer *)
(* of the account wrote over another's, or an older event was taken since  *)
(* a trial's start or the switch had forgotten the last one's time.        *)
ActsOnKnown ==
    acted # None /\ ~ acted.crossed =>
        /\ acted.kind = "refund" => acted.charge >= acted.known
        /\ acted.kind = "cancel" => acted.sub >= acted.known
=============================================================================
