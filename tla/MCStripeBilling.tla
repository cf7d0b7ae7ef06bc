-------------------------- MODULE MCStripeBilling ---------------------------
(* Event histories for StripeBilling.  Created times order the events of a *)
(* user; Stripe may deliver them in any order.                             *)
EXTENDS StripeBilling, TLC

CONSTANTS u1, e1, e2, e3

Event(user, type, status, created, trialEnd) ==
    [user |-> user, type |-> type, status |-> status, created |-> created,
     trialEnd |-> trialEnd, customer |-> TRUE]

Checkout == Event(u1, "checkout.session.completed", "active", 1, 0)
StripeTrial == Event(u1, "customer.subscription.updated", "trialing", 3, 3)
PastDue == Event(u1, "customer.subscription.updated", "past_due", 2, 0)

(* A subscription bought, then unpaid, then on a trial of Stripe's own.    *)
StripeTrialLast == e1 :> Checkout @@ e2 :> PastDue @@ e3 :> StripeTrial

(* A subscription bought, then unpaid.                                     *)
BoughtThenPastDue == e1 :> Checkout @@ e2 :> PastDue

WorkerSymmetry == Permutations(Workers)
=============================================================================
