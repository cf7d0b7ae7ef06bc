------------------------ MODULE StripeBillingProofs -------------------------
(***************************************************************************)
(* Proofs about the billing handlers, for every set of users, events and   *)
(* workers, every payload and every bound.                                 *)
(*                                                                         *)
(* TypeInv adds to the type invariant what an invocation carries at each   *)
(* place of its handler; every later argument reads it.  The webhook       *)
(* handler is then shown to take only steps of WebhookLease, so that what  *)
(* WebhookLeaseProofs proves of the lease, one handler at a time and a     *)
(* reservation held until it fails, is a fact about this handler as well   *)
(* (HandlersExclusive).  The invariants of the properties are Settled      *)
(* (acknowledged events), WritesGranted (who is active), AppliedInv (how   *)
(* often an event is written) and MemoryInv (what an account written by    *)
(* one operation at a time remembers).                                     *)
(***************************************************************************)
EXTENDS StripeBilling, FiniteSetTheorems, TLAPS

-----------------------------------------------------------------------------
(* What an invocation carries, by its kind.                                *)

WebhookOp(o) ==
    /\ o.kind = "webhook" /\ o.event \in Events /\ o.user = Payload[o.event].user
    /\ o.pc \in {"load", "save", "complete", "release"}
    /\ o.pc = "load" => o.next = NoAccount
    /\ o.pc = "save" =>
          /\ o.user \in Users
          /\ o.next.status = WebhookStatus(Payload[o.event])
          /\ o.next.lastStripeEventCreated = Payload[o.event].created

AccountOp(o) ==
    /\ o.kind \in {"trial", "subscribe", "cancel"} /\ o.pc = "save"
    /\ o.user \in Users /\ o.event = NoEvent

Shape(o) == o = Idle \/ WebhookOp(o) \/ AccountOp(o)

TypeInv ==
    /\ TypeOK
    /\ now >= 1
    /\ \A w \in Workers : Shape(op[w])

(* A completed event is decided, and so is one whose handler is about to   *)
(* complete it; a reservation Stripe no longer waits for was left behind.  *)
Settled ==
    /\ \A e \in Events :
          /\ lease[e].state = "completed" => e \in decided
          /\ lease[e].state = "processing" /\ stripe[e] # "sent" => e \in orphaned
    /\ \A w \in Workers :
          op[w].kind = "webhook" /\ op[w].pc = "complete" => op[w].event \in decided

(* What is about to be written makes nobody a subscriber who is not one    *)
(* already or whom the event itself makes one.                             *)
WritesGranted ==
    \A w \in Workers :
        (op[w].kind = "trial" => ~ Entitled(op[w].next))
        /\ (op[w].kind = "cancel" /\ Entitled(op[w].next) => granted[op[w].user])

(* The handler of the event has written its account and not completed.     *)
Written(o, e) ==
    o.kind = "webhook" /\ o.event = e /\ o.pc = "complete" /\ o.next # NoAccount

Unwritten(e) == lease[e].state # "completed" /\ \A w \in Workers : ~ Written(op[w], e)

(* An event that is neither completed nor written by its present handler   *)
(* was only written by handlers that failed.                               *)
AppliedInv ==
    \A e \in Events :
        /\ applied[e] <= 1 + reopened[e]
        /\ Unwritten(e) => applied[e] <= reopened[e]

(* No completed record expires.                                            *)
CompletedHeld ==
    /\ now <= CompletedTtl
    /\ \A e \in Events : lease[e].state = "completed" => lease[e].expiresAt > CompletedTtl

(* One operation at a time for each user.                                  *)
OneAtATime ==
    \A v, w \in Workers : op[v].user # NoUser /\ op[v].user = op[w].user => v = w

-----------------------------------------------------------------------------
(* The shapes of accounts and invocations.                                 *)

LEMMA Constants ==
    /\ NoUser \notin Users /\ NoEvent \notin Events
    /\ MaxFaults \in Nat /\ TrialLength \in Nat /\ UserInFlight \in Nat
    /\ ProcessingTtl \in Nat /\ CompletedTtl \in Nat /\ HandlerDeadline \in Nat /\ MaxTime \in Nat
    /\ HandlerDeadline < ProcessingTtl /\ ProcessingTtl <= CompletedTtl
    /\ \A e \in Events :
          /\ Payload[e].user \in Users \cup {NoUser} /\ Payload[e].type \in EventType
          /\ Payload[e].status \in StripeStatus
          /\ Payload[e].created \in Nat /\ Payload[e].trialEnd \in Nat
          /\ Payload[e].customer \in BOOLEAN
BY BillingAssumption DEF BillingAssumption

LEMMA WebhookAccountFacts ==
    ASSUME NEW prev \in Account, NEW e \in Events
    PROVE  /\ WebhookAccount(prev, Payload[e]) \in Account
           /\ WebhookAccount(prev, Payload[e]).status = WebhookStatus(Payload[e])
           /\ WebhookAccount(prev, Payload[e]).trialStartedAt = prev.trialStartedAt
           /\ WebhookAccount(prev, Payload[e]).lastStripeEventCreated = Payload[e].created
           /\ WebhookStatus(Payload[e]) \in {"none", "trialing", "active", "expired", "canceled"}
<1>1. WebhookStatus(Payload[e]) \in {"none", "trialing", "active", "expired", "canceled"}
  BY Constants DEF WebhookStatus, MapStripeSubscriptionStatus
<1> QED BY <1>1, Constants DEF WebhookAccount, Account, Status

LEMMA OtherAccountFacts ==
    ASSUME NEW prev \in Account, NEW t \in Nat, NEW flag \in BOOLEAN
    PROVE  /\ NoAccount \in Account /\ TrialAccount(prev, t) \in Account
           /\ SubscribeAccount(prev, flag) \in Account /\ CancelAccount(prev, flag) \in Account
<1>1. NoAccount \in Account
  BY DEF NoAccount, Account, Status
<1>2. TrialAccount(prev, t) \in Account
  BY Constants DEF TrialAccount, Account, Status
<1>3. SubscribeAccount(prev, flag) \in Account
  BY DEF SubscribeAccount, Account, Status
<1>4. CancelAccount(prev, flag) \in Account
  BY DEF CancelAccount, Account, Status
<1> QED BY <1>1, <1>2, <1>3, <1>4

LEMMA IdleFacts == Idle \in Op /\ Shape(Idle) /\ Idle.kind = "none" /\ Idle.user = NoUser /\ Idle.pc = "idle"
<1>1. NoAccount \in Account
  BY DEF NoAccount, Account, Status
<1> QED BY <1>1 DEF Idle, Op, Kind, Shape

(* A step of one invocation leaves the others as they are.                 *)
LEMMA OpChanged ==
    ASSUME TypeInv, NEW w \in Workers, NEW r \in Op, Shape(r), op' = [op EXCEPT ![w] = r]
    PROVE  /\ op' \in [Workers -> Op]
           /\ \A v \in Workers : Shape(op'[v])
           /\ op'[w] = r /\ \A v \in Workers : v # w => op'[v] = op[v]
BY DEF TypeInv, TypeOK

LEMMA OpFacts ==
    ASSUME TypeInv, NEW w \in Workers
    PROVE  /\ op[w] \in Op
           /\ op[w].kind = "webhook" => WebhookOp(op[w])
           /\ op[w].kind \in {"trial", "subscribe", "cancel"} => AccountOp(op[w])
           /\ op[w].kind = "none" => op[w] = Idle
BY IdleFacts DEF TypeInv, TypeOK, Shape, WebhookOp, AccountOp

LEMMA InitTypes == Init => TypeInv
<1> SUFFICES ASSUME Init PROVE TypeInv
  OBVIOUS
<1>1. NoAccount \in Account
  BY DEF NoAccount, Account, Status
<1>2. TypeOK
  BY <1>1, IdleFacts, Constants DEF Init, TypeOK, NoLease
<1> QED BY <1>2, IdleFacts DEF Init, TypeInv

LEMMA DeliverTypes ==
    ASSUME TypeInv, NEW w \in Workers, NEW e \in Events, Deliver(w, e)
    PROVE  TypeInv'
<1> DEFINE r == [Idle EXCEPT !.kind = "webhook", !.pc = "load",
                             !.user = Payload[e].user, !.event = e, !.since = now]
<1>1. now \in Nat /\ r \in Op /\ Shape(r)
  BY IdleFacts, Constants DEF TypeInv, TypeOK, Op, Kind, Idle, Shape, WebhookOp
<1>2. op' = [op EXCEPT ![w] = r]
  BY DEF Deliver, Begin
<1> HIDE DEF r
<1>3. op' \in [Workers -> Op] /\ \A v \in Workers : Shape(op'[v])
  BY <1>1, <1>2, OpChanged
<1>4. Reserved(now) \in [state : {"none", "processing", "completed"}, expiresAt : Nat]
  BY <1>1, Constants DEF Reserved
<1>5. TypeOK'
  BY <1>3, <1>4 DEF TypeInv, TypeOK, Deliver, history
<1> QED BY <1>3, <1>5 DEF TypeInv, Deliver

(* Steps that move no invocation.                                          *)
LEMMA EventTypes ==
    ASSUME TypeInv, NEW e \in Events,
           DeliverDuplicate(e) \/ DeliverUnheard(e) \/ StripeTimesOut(e)
    PROVE  TypeInv'
<1>1. Reserved(now) \in [state : {"none", "processing", "completed"}, expiresAt : Nat]
  BY Constants DEF Reserved, TypeInv, TypeOK
<1>2. faults' \in 0..MaxFaults
  BY Constants DEF TypeInv, TypeOK, DeliverDuplicate, DeliverUnheard, StripeTimesOut, Fault
<1>3. UNCHANGED <<now, acct, op, applied, reopened, newest, tried, switched, granted, decided>>
  BY DEF DeliverDuplicate, DeliverUnheard, StripeTimesOut, history
<1>4. /\ stripe' \in [Events -> {"pending", "sent", "acked"}] /\ orphaned' \subseteq Events
      /\ lease' \in [Events -> [state : {"none", "processing", "completed"}, expiresAt : Nat]]
  BY <1>1 DEF TypeInv, TypeOK, DeliverDuplicate, DeliverUnheard, StripeTimesOut, history, Unsettle,
              DuplicateAnswer
<1>5. TypeOK'
  BY <1>2, <1>3, <1>4 DEF TypeInv, TypeOK
<1> QED BY <1>3, <1>5 DEF TypeInv

LEMMA TickTypes ==
    ASSUME TypeInv, Tick \/ UNCHANGED vars
    PROVE  TypeInv'
BY DEF TypeInv, TypeOK, Tick, vars, history

(* What a load decides: to write, or to complete at once.                  *)
LEMMA LoadFacts ==
    ASSUME TypeInv, NEW w \in Workers, WebhookLoad(w)
    PROVE  LET e == op[w].event IN
           /\ WebhookOp(op[w]) /\ op[w].pc = "load"
           /\ \/ /\ op[w].user \in Users
                 /\ ~ Outdated(acct[op[w].user], Payload[e])
                 /\ op' = [op EXCEPT ![w] =
                              [op[w] EXCEPT !.pc = "save",
                                            !.next = WebhookAccount(acct[op[w].user], Payload[e])]]
                 /\ decided' = decided
              \/ /\ op' = [op EXCEPT ![w] = [op[w] EXCEPT !.pc = "complete"]]
                 /\ decided' = decided \cup {e}
           /\ UNCHANGED <<now, lease, acct, stripe, faults, applied, reopened, newest, tried, switched,
                          granted, orphaned>>
<1>1. WebhookOp(op[w]) /\ op[w].pc = "load"
  BY OpFacts DEF WebhookLoad
<1>2. op[w].user \in Users \cup {NoUser} /\ op[w].user = Payload[op[w].event].user
  BY <1>1, Constants DEF WebhookOp
<1> QED BY <1>1, <1>2, Constants DEF WebhookLoad, Begin

LEMMA LoadMoves ==
    ASSUME TypeInv, NEW w \in Workers, WebhookLoad(w)
    PROVE  /\ op'[w].kind = "webhook" /\ op'[w].event = op[w].event /\ op'[w].user = op[w].user
           /\ \/ /\ op'[w].pc = "save" /\ op[w].user \in Users
                 /\ ~ Outdated(acct[op[w].user], Payload[op[w].event])
                 /\ op'[w].next = WebhookAccount(acct[op[w].user], Payload[op[w].event])
              \/ /\ op'[w].pc = "complete" /\ op'[w].next = NoAccount
                 /\ decided' = decided \cup {op[w].event}
           /\ \A v \in Workers : v # w => op'[v] = op[v]
<1> DEFINE next == WebhookAccount(acct[op[w].user], Payload[op[w].event])
           saves == [op[w] EXCEPT !.pc = "save", !.next = next]
           completes == [op[w] EXCEPT !.pc = "complete"]
<1>1. op[w] \in Op /\ op \in [Workers -> Op] /\ WebhookOp(op[w]) /\ op[w].pc = "load"
  BY OpFacts, LoadFacts DEF TypeInv, TypeOK
<1> HIDE DEF next
<1>2. /\ saves.kind = "webhook" /\ saves.event = op[w].event /\ saves.user = op[w].user
      /\ saves.pc = "save" /\ saves.next = next
      /\ completes.kind = "webhook" /\ completes.event = op[w].event /\ completes.user = op[w].user
      /\ completes.pc = "complete" /\ completes.next = NoAccount
  BY <1>1 DEF Op, WebhookOp
<1>3. \/ /\ op' = [op EXCEPT ![w] = saves] /\ op[w].user \in Users
         /\ ~ Outdated(acct[op[w].user], Payload[op[w].event])
      \/ op' = [op EXCEPT ![w] = completes] /\ decided' = decided \cup {op[w].event}
  BY LoadFacts DEF next
<1> HIDE DEF saves, completes
<1>4. CASE op' = [op EXCEPT ![w] = saves] /\ op[w].user \in Users
           /\ ~ Outdated(acct[op[w].user], Payload[op[w].event])
  BY <1>1, <1>2, <1>4 DEF next
<1>5. CASE op' = [op EXCEPT ![w] = completes] /\ decided' = decided \cup {op[w].event}
  BY <1>1, <1>2, <1>5
<1> QED BY <1>3, <1>4, <1>5

LEMMA LoadTypes ==
    ASSUME TypeInv, NEW w \in Workers, WebhookLoad(w)
    PROVE  TypeInv'
<1> DEFINE e == op[w].event
           saves == [op[w] EXCEPT !.pc = "save",
                                  !.next = WebhookAccount(acct[op[w].user], Payload[e])]
           completes == [op[w] EXCEPT !.pc = "complete"]
<1>1. op[w] \in Op /\ WebhookOp(op[w]) /\ e \in Events /\ completes \in Op /\ Shape(completes)
  BY OpFacts, LoadFacts DEF Op, WebhookOp, Shape
<1>2. ASSUME op[w].user \in Users PROVE saves \in Op /\ Shape(saves)
  <2>1. acct[op[w].user] \in Account
    BY <1>2 DEF TypeInv, TypeOK
  <2> QED BY <1>1, <1>2, <2>1, WebhookAccountFacts DEF Op, WebhookOp, Shape
<1>3. op' \in [Workers -> Op] /\ \A v \in Workers : Shape(op'[v])
  BY <1>1, <1>2, LoadFacts, OpChanged
<1>4. /\ decided' \in {decided, decided \cup {e}}
      /\ UNCHANGED <<now, lease, acct, stripe, faults, applied, reopened, newest, tried, switched,
                     granted, orphaned>>
  BY LoadFacts
<1> HIDE DEF e
<1>5. TypeOK'
  BY <1>1, <1>3, <1>4 DEF TypeInv, TypeOK
<1> QED BY <1>3, <1>4, <1>5 DEF TypeInv

(* Writing an account.                                                     *)
LEMMA PutFacts ==
    ASSUME TypeInv, NEW w \in Workers, WebhookPut(w)
    PROVE  LET e == op[w].event u == op[w].user IN
           /\ WebhookOp(op[w]) /\ op[w].pc = "save"
           /\ e \in Events /\ u \in Users /\ op[w].next \in Account
           /\ acct' = [acct EXCEPT ![u] = op[w].next]
           /\ applied' = [applied EXCEPT ![e] = @ + 1]
           /\ newest' = [newest EXCEPT ![u] = NewestOf(@, Payload[e].created)]
           /\ granted' = [granted EXCEPT ![u] = @ \/ SaysActive(Payload[e])]
           /\ UNCHANGED <<now, lease, stripe, tried, switched, orphaned>>
           /\ acct' \in [Users -> Account] /\ applied' \in [Events -> Nat]
           /\ newest' \in [Users -> Nat] /\ granted' \in [Users -> BOOLEAN]
<1>1. WebhookOp(op[w]) /\ op[w].pc = "save" /\ op[w] \in Op
  BY OpFacts DEF WebhookPut
<1>2. op[w].event \in Events /\ op[w].user \in Users /\ op[w].next \in Account
  BY <1>1 DEF WebhookOp, Op
<1>3. Payload[op[w].event].created \in Nat
  BY <1>2, Constants
<1>4. SaysActive(Payload[op[w].event]) \in BOOLEAN
  BY DEF SaysActive
<1> QED BY <1>1, <1>2, <1>3, <1>4 DEF WebhookPut, Put, TypeInv, TypeOK, NewestOf

LEMMA SaveTypes ==
    ASSUME TypeInv, NEW w \in Workers, WebhookSave(w) \/ WebhookSaveThrows(w)
    PROVE  TypeInv'
<1>1. WebhookPut(w)
  BY DEF WebhookSave, WebhookSaveThrows
<1>2. PICK pc \in {"complete", "release"} :
         op' = [op EXCEPT ![w] = [op[w] EXCEPT !.pc = pc]]
  BY DEF WebhookSave, WebhookSaveThrows, Begin
<1>3. [op[w] EXCEPT !.pc = pc] \in Op /\ Shape([op[w] EXCEPT !.pc = pc])
  BY <1>1, OpFacts, PutFacts DEF Op, Shape, WebhookOp
<1>4. op' \in [Workers -> Op] /\ \A v \in Workers : Shape(op'[v])
  BY <1>2, <1>3, OpChanged
<1>5. faults' \in 0..MaxFaults
  BY Constants DEF TypeInv, TypeOK, WebhookSave, WebhookSaveThrows, Fault
<1>6. reopened' \in [Events -> Nat] /\ decided' \subseteq Events
  BY <1>1, PutFacts DEF TypeInv, TypeOK, WebhookSave, WebhookSaveThrows
<1>7. TypeOK'
  BY <1>1, <1>4, <1>5, <1>6, PutFacts DEF TypeInv, TypeOK
<1> QED BY <1>1, <1>4, <1>7, PutFacts DEF TypeInv

(* A handler ends, or goes on to its release.                              *)
LEMMA EndTypes ==
    ASSUME TypeInv, NEW w \in Workers,
           \/ WebhookThrows(w) \/ WebhookComplete(w) \/ WebhookCompleteUnheard(w)
           \/ WebhookRelease(w) \/ WebhookAbandon(w)
    PROVE  TypeInv'
<1>1. WebhookOp(op[w]) /\ op[w] \in Op /\ op[w].event \in Events
  BY OpFacts DEF WebhookThrows, WebhookComplete, WebhookCompleteUnheard, WebhookRelease,
                 WebhookAbandon, WebhookOp
<1>2. PICK r \in {Idle, [op[w] EXCEPT !.pc = "release"]} : op' = [op EXCEPT ![w] = r]
  BY DEF WebhookThrows, WebhookComplete, WebhookCompleteUnheard, WebhookRelease, WebhookAbandon,
         Begin, End
<1>3. r \in Op /\ Shape(r)
  <2>1. [op[w] EXCEPT !.pc = "release"] \in Op /\ Shape([op[w] EXCEPT !.pc = "release"])
    BY <1>1 DEF Op, Shape, WebhookOp
  <2> QED BY <2>1, IdleFacts
<1>4. op' \in [Workers -> Op] /\ \A v \in Workers : Shape(op'[v])
  BY <1>2, <1>3, OpChanged
<1>5. faults' \in 0..MaxFaults
  BY Constants DEF TypeInv, TypeOK, WebhookThrows, WebhookComplete, WebhookCompleteUnheard,
                   WebhookRelease, WebhookAbandon, Fault
<1>6. lease' \in [Events -> [state : {"none", "processing", "completed"}, expiresAt : Nat]]
  <2> DEFINE L == [state : {"none", "processing", "completed"}, expiresAt : Nat]
  <2>1. Completed(now) \in L
    BY Constants DEF Completed, TypeInv, TypeOK
  <2>2. lease \in [Events -> L] /\ Released(lease[op[w].event]) \in L
    BY <1>1 DEF Released, NoLease, TypeInv, TypeOK
  <2>3. lease' = lease \/ lease' = [lease EXCEPT ![op[w].event] = Completed(now)]
        \/ lease' = [lease EXCEPT ![op[w].event] = Released(lease[op[w].event])]
    BY <2>2 DEF WebhookThrows, WebhookComplete, WebhookCompleteUnheard, WebhookRelease, WebhookAbandon
  <2> QED BY <2>1, <2>2, <2>3
<1>7. stripe' \in [Events -> {"pending", "sent", "acked"}]
  BY DEF TypeInv, TypeOK, WebhookThrows, WebhookComplete, WebhookCompleteUnheard,
         WebhookRelease, WebhookAbandon, Answer
<1>8. reopened' \in [Events -> Nat]
  BY DEF TypeInv, TypeOK, WebhookThrows, WebhookComplete, WebhookCompleteUnheard,
         WebhookRelease, WebhookAbandon, Reopen, history
<1>9. orphaned' \subseteq Events
  BY <1>1 DEF TypeInv, TypeOK, WebhookThrows, WebhookComplete, WebhookCompleteUnheard,
         WebhookRelease, WebhookAbandon, Unsettle, history
<1>10. UNCHANGED <<now, acct, applied, newest, tried, switched, granted, decided>>
  BY DEF WebhookThrows, WebhookComplete, WebhookCompleteUnheard, WebhookRelease, WebhookAbandon, history
<1>11. TypeOK'
  BY <1>4, <1>5, <1>6, <1>7, <1>8, <1>9, <1>10 DEF TypeInv, TypeOK
<1> QED BY <1>4, <1>10, <1>11 DEF TypeInv

(* The other writers: what they are about to write, and writing it.        *)
Writer(u, kind, next) == [Idle EXCEPT !.kind = kind, !.pc = "save", !.user = u, !.next = next]

MayWrite(u, kind, next) ==
    \/ kind = "trial" /\ TrialAllowed(acct[u], now) /\ next = TrialAccount(acct[u], now)
    \/ kind = "subscribe" /\ \E flag \in BOOLEAN : next = SubscribeAccount(acct[u], flag)
    \/ kind = "cancel" /\ \E flag \in BOOLEAN : next = CancelAccount(acct[u], flag)

LEMMA RequestFacts ==
    ASSUME TypeInv, NEW w \in Workers, NEW u \in Users, Request(w, u)
    PROVE  /\ op[w] = Idle /\ InFlight(u) < UserInFlight
           /\ \E kind \in {"trial", "subscribe", "cancel"}, next \in Account :
                 op' = [op EXCEPT ![w] = Writer(u, kind, next)] /\ MayWrite(u, kind, next)
           /\ UNCHANGED <<now, lease, acct, stripe, faults, history>>
<1>1. acct[u] \in Account /\ now \in Nat /\ u # NoUser
  BY Constants DEF TypeInv, TypeOK
<1>2. CASE TrialLoad(w, u)
  <2>1. /\ TrialAccount(acct[u], now) \in Account
        /\ op' = [op EXCEPT ![w] = Writer(u, "trial", TrialAccount(acct[u], now))]
        /\ MayWrite(u, "trial", TrialAccount(acct[u], now))
    BY <1>1, <1>2, OtherAccountFacts DEF TrialLoad, Begin, Writer, MayWrite
  <2>2. /\ op[w] = Idle /\ InFlight(u) < UserInFlight
        /\ UNCHANGED <<now, lease, acct, stripe, faults, history>>
    BY <1>1, <1>2 DEF TrialLoad, MayStart
  <2> QED BY <2>1, <2>2
<1>3. CASE \E flag \in BOOLEAN : SubscribeLoad(w, u, flag)
  <2>0. PICK flag \in BOOLEAN : SubscribeLoad(w, u, flag)
    BY <1>3
  <2>1. /\ SubscribeAccount(acct[u], flag) \in Account
        /\ op' = [op EXCEPT ![w] = Writer(u, "subscribe", SubscribeAccount(acct[u], flag))]
        /\ MayWrite(u, "subscribe", SubscribeAccount(acct[u], flag))
    BY <1>1, <2>0, OtherAccountFacts DEF SubscribeLoad, Begin, Writer, MayWrite
  <2>2. /\ op[w] = Idle /\ InFlight(u) < UserInFlight
        /\ UNCHANGED <<now, lease, acct, stripe, faults, history>>
    BY <1>1, <2>0 DEF SubscribeLoad, MayStart
  <2> QED BY <2>1, <2>2
<1>4. CASE \E flag \in BOOLEAN : CancelLoad(w, u, flag)
  <2>0. PICK flag \in BOOLEAN : CancelLoad(w, u, flag)
    BY <1>4
  <2>1. /\ CancelAccount(acct[u], flag) \in Account
        /\ op' = [op EXCEPT ![w] = Writer(u, "cancel", CancelAccount(acct[u], flag))]
        /\ MayWrite(u, "cancel", CancelAccount(acct[u], flag))
    BY <1>1, <2>0, OtherAccountFacts DEF CancelLoad, Begin, Writer, MayWrite
  <2>2. /\ op[w] = Idle /\ InFlight(u) < UserInFlight
        /\ UNCHANGED <<now, lease, acct, stripe, faults, history>>
    BY <1>1, <2>0 DEF CancelLoad, MayStart
  <2> QED BY <2>1, <2>2
<1> QED BY <1>2, <1>3, <1>4 DEF Request

LEMMA RequestTypes ==
    ASSUME TypeInv, NEW w \in Workers, NEW u \in Users, Request(w, u)
    PROVE  TypeInv'
<1>1. PICK kind \in {"trial", "subscribe", "cancel"}, next \in Account :
         op' = [op EXCEPT ![w] = Writer(u, kind, next)] /\ MayWrite(u, kind, next)
  BY RequestFacts
<1>2. Writer(u, kind, next) \in Op /\ Shape(Writer(u, kind, next))
  BY DEF Writer, Idle, Op, Kind, Shape, AccountOp
<1>3. op' \in [Workers -> Op] /\ \A v \in Workers : Shape(op'[v])
  BY <1>1, <1>2, OpChanged
<1>4. TypeOK'
  BY <1>3, RequestFacts DEF TypeInv, TypeOK, history
<1> QED BY <1>3, <1>4, RequestFacts DEF TypeInv

LEMMA AccountSaveFacts ==
    ASSUME TypeInv, NEW w \in Workers, AccountSave(w)
    PROVE  LET u == op[w].user IN
           /\ AccountOp(op[w]) /\ u \in Users /\ op[w].next \in Account
           /\ acct' = [acct EXCEPT ![u] = op[w].next] /\ acct' \in [Users -> Account]
           /\ op' = [op EXCEPT ![w] = Idle]
           /\ granted' \in [Users -> BOOLEAN]
           /\ UNCHANGED <<now, lease, stripe, faults, applied, reopened, newest, decided, orphaned>>
<1>1. AccountOp(op[w]) /\ op[w] \in Op
  BY OpFacts DEF AccountSave
<1>2. op[w].user \in Users /\ op[w].next \in Account
  BY <1>1 DEF AccountOp, Op
<1>3. Entitled(op[w].next) \in BOOLEAN
  BY DEF Entitled
<1> QED BY <1>1, <1>2, <1>3 DEF AccountSave, Put, End, TypeInv, TypeOK

LEMMA AccountTypes ==
    ASSUME TypeInv, NEW w \in Workers, AccountSave(w) \/ AccountDrop(w)
    PROVE  TypeInv'
<1>1. op' = [op EXCEPT ![w] = Idle]
  BY DEF AccountSave, AccountDrop, End
<1>2. op' \in [Workers -> Op] /\ \A v \in Workers : Shape(op'[v])
  BY <1>1, IdleFacts, OpChanged
<1>3. CASE AccountSave(w)
  <2>1. tried' \subseteq Users /\ switched' \subseteq Users
    <3>1. op[w].user \in Users
      BY <1>3, AccountSaveFacts
    <3> QED BY <1>3, <3>1 DEF AccountSave, TypeInv, TypeOK
  <2>2. TypeOK'
    BY <1>2, <1>3, <2>1, AccountSaveFacts DEF TypeInv, TypeOK
  <2> QED BY <1>2, <1>3, <2>2, AccountSaveFacts DEF TypeInv
<1>4. CASE AccountDrop(w)
  <2>1. TypeOK'
    BY <1>2, <1>4, Constants DEF TypeInv, TypeOK, AccountDrop, Fault, history
  <2> QED BY <1>2, <1>4, <2>1 DEF TypeInv, AccountDrop
<1> QED BY <1>3, <1>4

LEMMA NextTypes == TypeInv /\ [Next]_vars => TypeInv'
BY DeliverTypes, EventTypes, TickTypes, LoadTypes, SaveTypes, EndTypes, RequestTypes, AccountTypes
   DEF Next, Delivery, WebhookStep, WebhookFault

-----------------------------------------------------------------------------
(* The webhook handler implements the lease.                               *)

LEMMA LeaseJobs ==
    ASSUME NEW o, NEW p, Shape(o), p = [o EXCEPT !.pc = "release"]
    PROVE  /\ o = Idle \/ AccountOp(o) => LeaseJob(o) = LeaseProtocol!Idle
           /\ WebhookOp(o) =>
                 /\ LeaseJob(o).event = o.event /\ LeaseJob(o).since = o.since
                 /\ LeaseJob(o).phase = IF o.pc = "release" THEN "failed" ELSE "working"
                 /\ o \in Op => LeaseJob(p) = [LeaseJob(o) EXCEPT !.phase = "failed"]
BY DEF LeaseJob, Idle, AccountOp, WebhookOp, LeaseProtocol!Idle, Op

(* A step that leaves the lease and what handlers mean to it as they are.  *)
LEMMA LeaseStutters ==
    ASSUME UNCHANGED <<now, lease>>, \A w \in Workers : LeaseJob(op'[w]) = LeaseJob(op[w])
    PROVE  UNCHANGED LeaseProtocol!vars
BY DEF LeaseProtocol!vars

(* A step of one invocation changes one job.                               *)
LEMMA JobChanged ==
    ASSUME TypeInv, NEW w \in Workers, NEW r, op' = [op EXCEPT ![w] = r]
    PROVE  [v \in Workers |-> LeaseJob(op'[v])] =
           [[v \in Workers |-> LeaseJob(op[v])] EXCEPT ![w] = LeaseJob(r)]
BY DEF TypeInv, TypeOK

LEMMA DeliverRefines ==
    ASSUME TypeInv, NEW w \in Workers, NEW e \in Events, Deliver(w, e)
    PROVE  LeaseProtocol!Reserve(w, e)
<1> DEFINE r == [Idle EXCEPT !.kind = "webhook", !.pc = "load",
                             !.user = Payload[e].user, !.event = e, !.since = now]
<1>1. op[w] = Idle /\ op' = [op EXCEPT ![w] = r] /\ now' = now /\ ~ Held(lease[e])
      /\ lease' = [lease EXCEPT ![e] = Reserved(now)]
  BY DEF Deliver, MayStart, Begin
<1>2. LeaseJob(r) = [phase |-> "working", event |-> e, since |-> now]
  BY DEF LeaseJob, Idle
<1>3. LeaseJob(op[w]) = LeaseProtocol!Idle
  BY <1>1 DEF LeaseJob, Idle, LeaseProtocol!Idle
<1> HIDE DEF r
<1> QED BY <1>1, <1>2, <1>3, JobChanged
        DEF LeaseProtocol!Reserve, LeaseProtocol!Held, LeaseProtocol!Reserved, Held, Reserved

LEMMA UnheardRefines ==
    ASSUME NEW e \in Events, DeliverUnheard(e)
    PROVE  LeaseProtocol!ReserveUnheard(e)
BY DEF DeliverUnheard, LeaseProtocol!ReserveUnheard, LeaseProtocol!Held, LeaseProtocol!Reserved,
       Held, Reserved

LEMMA EndRefines ==
    ASSUME TypeInv, NEW w \in Workers,
           \/ WebhookThrows(w) \/ WebhookComplete(w) \/ WebhookCompleteUnheard(w)
           \/ WebhookRelease(w) \/ WebhookAbandon(w) \/ WebhookSaveThrows(w)
    PROVE  \/ LeaseProtocol!Complete(w) \/ LeaseProtocol!CompleteUnheard(w)
           \/ LeaseProtocol!Fail(w) \/ LeaseProtocol!Release(w) \/ LeaseProtocol!Abandon(w)
<1> DEFINE failed == [op[w] EXCEPT !.pc = "release"]
<1>1. WebhookOp(op[w]) /\ op[w] \in Op
  BY OpFacts, PutFacts DEF WebhookThrows, WebhookComplete, WebhookCompleteUnheard, WebhookRelease,
                 WebhookAbandon, WebhookSaveThrows
<1>2. /\ LeaseJob(op[w]).event = op[w].event
      /\ LeaseJob(op[w]).phase = IF op[w].pc = "release" THEN "failed" ELSE "working"
      /\ LeaseJob(failed) = [LeaseJob(op[w]) EXCEPT !.phase = "failed"]
      /\ LeaseJob(Idle) = LeaseProtocol!Idle
  BY <1>1, LeaseJobs, IdleFacts DEF Shape
<1>3. op' = [op EXCEPT ![w] = Idle] \/ op' = [op EXCEPT ![w] = failed]
  BY DEF WebhookThrows, WebhookComplete, WebhookCompleteUnheard, WebhookRelease, WebhookAbandon,
         WebhookSaveThrows, Begin, End
<1>4. now' = now
  BY DEF WebhookThrows, WebhookComplete, WebhookCompleteUnheard, WebhookRelease, WebhookAbandon,
         WebhookSaveThrows, WebhookPut
<1> HIDE DEF failed
<1> DEFINE job == [v \in Workers |-> LeaseJob(op[v])]
           jobNext == [v \in Workers |-> LeaseJob(op'[v])]
<1>10. op' = [op EXCEPT ![w] = failed] => jobNext = [job EXCEPT ![w].phase = "failed"]
  <2>1. job[w] = LeaseJob(op[w])
    OBVIOUS
  <2>2. LeaseJob(failed) = [job[w] EXCEPT !.phase = "failed"]
    BY <1>2, <2>1
  <2>3. ASSUME op' = [op EXCEPT ![w] = failed]
        PROVE  jobNext = [job EXCEPT ![w] = LeaseJob(failed)]
    BY <2>3, JobChanged
  <2> HIDE DEF job, jobNext
  <2> QED BY <2>2, <2>3
<1>5. CASE WebhookThrows(w) \/ WebhookSaveThrows(w)
  <2>1. op' = [op EXCEPT ![w] = failed] /\ lease' = lease /\ op[w].pc # "release"
    BY <1>5 DEF WebhookThrows, WebhookSaveThrows, WebhookPut, Begin, failed
  <2>2. LeaseProtocol!Fail(w)
    BY <1>2, <1>4, <1>10, <2>1 DEF LeaseProtocol!Fail
  <2> QED BY <2>2
<1>6. CASE WebhookComplete(w)
  <2>1. /\ op' = [op EXCEPT ![w] = Idle] /\ op[w].pc # "release"
        /\ lease' = [lease EXCEPT ![op[w].event] = Completed(now)]
    BY <1>6 DEF WebhookComplete, End
  <2>2. LeaseProtocol!Complete(w)
    BY <1>2, <1>4, <2>1, JobChanged DEF LeaseProtocol!Complete, LeaseProtocol!Completed, Completed
  <2> QED BY <2>2
<1>7. CASE WebhookCompleteUnheard(w)
  <2>1. /\ op' = [op EXCEPT ![w] = failed] /\ op[w].pc # "release"
        /\ lease' = [lease EXCEPT ![op[w].event] = Completed(now)]
    BY <1>7 DEF WebhookCompleteUnheard, Begin, failed
  <2>2. LeaseProtocol!CompleteUnheard(w)
    BY <1>2, <1>4, <1>10, <2>1
       DEF LeaseProtocol!CompleteUnheard, LeaseProtocol!Completed, Completed
  <2> QED BY <2>2
<1>8. CASE WebhookRelease(w)
  <2>1. /\ op' = [op EXCEPT ![w] = Idle] /\ op[w].pc = "release"
        /\ lease' = [lease EXCEPT ![op[w].event] = Released(@)]
    BY <1>8 DEF WebhookRelease, End
  <2>2. LeaseProtocol!Release(w)
    BY <1>2, <1>4, <2>1, JobChanged
       DEF LeaseProtocol!Release, LeaseProtocol!Released, LeaseProtocol!NoLease, Released, NoLease
  <2> QED BY <2>2
<1>9. CASE WebhookAbandon(w)
  <2>1. op' = [op EXCEPT ![w] = Idle] /\ lease' = lease
    BY <1>9 DEF WebhookAbandon, End
  <2>2. LeaseProtocol!Abandon(w)
    BY <1>2, <1>4, <2>1, JobChanged DEF LeaseProtocol!Abandon
  <2> QED BY <2>2
<1> QED BY <1>5, <1>6, <1>7, <1>8, <1>9

(* Reading and writing accounts is nothing to the lease.                   *)
LEMMA WorkRefines ==
    ASSUME TypeInv, NEW w \in Workers,
           \/ WebhookLoad(w) \/ WebhookSave(w) \/ AccountSave(w) \/ AccountDrop(w)
           \/ \E u \in Users : Request(w, u)
    PROVE  UNCHANGED LeaseProtocol!vars
<1>1. CASE WebhookLoad(w) \/ WebhookSave(w)
  <2>1. PICK r : op' = [op EXCEPT ![w] = r] /\ LeaseJob(r) = LeaseJob(op[w])
    <3>1. op[w] \in Op /\ WebhookOp(op[w]) /\ op[w].pc \in {"load", "save"}
      BY <1>1, OpFacts DEF WebhookLoad, WebhookSave, WebhookPut
    <3>2. ASSUME NEW next
          PROVE  /\ LeaseJob([op[w] EXCEPT !.pc = "save", !.next = next]) = LeaseJob(op[w])
                 /\ LeaseJob([op[w] EXCEPT !.pc = "complete"]) = LeaseJob(op[w])
      BY <3>1 DEF LeaseJob, Op
    <3> QED BY <1>1, <3>2, LoadFacts DEF WebhookSave, Begin
  <2>2. UNCHANGED <<now, lease>>
    BY <1>1 DEF WebhookLoad, WebhookSave, WebhookPut
  <2>3. \A v \in Workers : LeaseJob(op'[v]) = LeaseJob(op[v])
    BY <2>1 DEF TypeInv, TypeOK
  <2> QED BY <2>2, <2>3, LeaseStutters
<1>2. CASE AccountSave(w) \/ AccountDrop(w)
  <2>1. op' = [op EXCEPT ![w] = Idle] /\ AccountOp(op[w]) /\ UNCHANGED <<now, lease>>
    BY <1>2, OpFacts DEF AccountSave, AccountDrop, End
  <2>2. LeaseJob(op[w]) = LeaseJob(Idle)
    BY <2>1 DEF LeaseJob, AccountOp, Idle
  <2>3. \A v \in Workers : LeaseJob(op'[v]) = LeaseJob(op[v])
    BY <2>1, <2>2 DEF TypeInv, TypeOK
  <2> QED BY <2>1, <2>3, LeaseStutters
<1>3. ASSUME NEW u \in Users, Request(w, u)
      PROVE  UNCHANGED LeaseProtocol!vars
  <2>1. PICK kind \in {"trial", "subscribe", "cancel"}, next \in Account :
           op' = [op EXCEPT ![w] = Writer(u, kind, next)] /\ MayWrite(u, kind, next)
    BY <1>3, RequestFacts
  <2>2. op[w] = Idle /\ UNCHANGED <<now, lease>>
    BY <1>3, RequestFacts
  <2>3. LeaseJob(Writer(u, kind, next)) = LeaseJob(Idle)
    BY DEF LeaseJob, Writer, Idle
  <2>4. \A v \in Workers : LeaseJob(op'[v]) = LeaseJob(op[v])
    BY <2>1, <2>2, <2>3 DEF TypeInv, TypeOK
  <2> QED BY <2>2, <2>4, LeaseStutters
<1> QED BY <1>1, <1>2, <1>3

LEMMA TickRefines ==
    ASSUME TypeInv, Tick
    PROVE  LeaseProtocol!Tick
<1>1. \A w \in Workers :
         LeaseJob(op[w]).phase # "idle" => op[w].kind = "webhook" /\ LeaseJob(op[w]).since = op[w].since
  BY DEF LeaseJob
<1>2. [w \in Workers |-> LeaseJob(op'[w])] = [w \in Workers |-> LeaseJob(op[w])]
  BY DEF Tick
<1> QED BY <1>1, <1>2 DEF Tick, LeaseProtocol!Tick

LEMMA EventStutters ==
    ASSUME NEW e \in Events, DeliverDuplicate(e) \/ StripeTimesOut(e) \/ UNCHANGED vars
    PROVE  UNCHANGED LeaseProtocol!vars
<1>1. UNCHANGED <<now, lease, op>>
  BY DEF DeliverDuplicate, StripeTimesOut, vars
<1> QED BY <1>1, LeaseStutters

LEMMA StepRefines ==
    ASSUME TypeInv, [Next]_vars
    PROVE  [LeaseProtocol!Next]_(LeaseProtocol!vars)
<1>1. ASSUME NEW e \in Events, Delivery(e) \/ DeliverUnheard(e) \/ StripeTimesOut(e)
      PROVE  LeaseProtocol!Next \/ UNCHANGED LeaseProtocol!vars
  BY <1>1, DeliverRefines, UnheardRefines, EventStutters DEF Delivery, LeaseProtocol!Next
<1>2. ASSUME NEW w \in Workers, WebhookStep(w) \/ WebhookFault(w) \/ AccountSave(w) \/ AccountDrop(w)
                                \/ \E u \in Users : Request(w, u)
      PROVE  LeaseProtocol!Next \/ UNCHANGED LeaseProtocol!vars
  BY <1>2, EndRefines, WorkRefines DEF WebhookStep, WebhookFault, LeaseProtocol!Next
<1>3. CASE Tick
  BY <1>3, TickRefines DEF LeaseProtocol!Next
<1>4. CASE UNCHANGED vars
  <2>1. UNCHANGED <<now, lease, op>>
    BY <1>4 DEF vars
  <2> QED BY <2>1, LeaseStutters
<1> QED BY <1>1, <1>2, <1>3, <1>4 DEF Next

LEMMA InitRefines == Init => LeaseProtocol!Init
BY DEF Init, LeaseProtocol!Init, LeaseJob, Idle, LeaseProtocol!Idle, NoLease, LeaseProtocol!NoLease

(* Every reachable state has the shape the code gives it, and every        *)
(* invocation carries what its kind and its place in the handler say.      *)
THEOREM TypesKept == Spec => []TypeInv
BY InitTypes, NextTypes, PTL DEF Spec

THEOREM TypeCorrect == Spec => []TypeOK
<1>1. TypeInv => TypeOK
  BY DEF TypeInv
<1> QED BY <1>1, TypesKept, PTL

(* The webhook handler, with whatever accounts, requests, faults and late  *)
(* answers go with it, takes only steps of the lease protocol.             *)
THEOREM HandlerImplementsLease == Spec => ImplementsLease
<1>1. TypeInv /\ [Next]_vars => [LeaseProtocol!Next]_(LeaseProtocol!vars)
  BY StepRefines
<1> QED BY <1>1, InitRefines, TypesKept, PTL DEF Spec, ImplementsLease, LeaseProtocol!Spec

(* What is proved of the lease holds of the handler.                       *)
Lease == INSTANCE WebhookLeaseProofs WITH job <- [w \in Workers |-> LeaseJob(op[w])]

LEMMA LeaseConstants == Lease!LeaseAssumption
BY Constants DEF Lease!LeaseAssumption

LEMMA SameProtocol ==
    /\ LeaseProtocol!Init <=> Lease!Init
    /\ LeaseProtocol!vars = Lease!vars
    /\ LeaseProtocol!Next <=> Lease!Next
<1> USE DEF LeaseProtocol!Held, LeaseProtocol!Reserved, LeaseProtocol!Completed, LeaseProtocol!Released,
            LeaseProtocol!NoLease, LeaseProtocol!Idle, Lease!Held, Lease!Reserved, Lease!Completed,
            Lease!Released, Lease!NoLease, Lease!Idle
<1>1. LeaseProtocol!Init <=> Lease!Init
  BY DEF LeaseProtocol!Init, Lease!Init
<1>2. LeaseProtocol!vars = Lease!vars
  BY DEF LeaseProtocol!vars, Lease!vars
<1>3. ASSUME NEW e \in Events
      PROVE  /\ LeaseProtocol!ReserveUnheard(e) <=> Lease!ReserveUnheard(e)
             /\ \A w \in Workers : LeaseProtocol!Reserve(w, e) <=> Lease!Reserve(w, e)
  BY DEF LeaseProtocol!ReserveUnheard, Lease!ReserveUnheard, LeaseProtocol!Reserve, Lease!Reserve
<1>4. ASSUME NEW w \in Workers
      PROVE  /\ LeaseProtocol!Complete(w) <=> Lease!Complete(w)
             /\ LeaseProtocol!CompleteUnheard(w) <=> Lease!CompleteUnheard(w)
             /\ LeaseProtocol!Fail(w) <=> Lease!Fail(w)
             /\ LeaseProtocol!Release(w) <=> Lease!Release(w)
             /\ LeaseProtocol!Abandon(w) <=> Lease!Abandon(w)
  BY DEF LeaseProtocol!Complete, Lease!Complete, LeaseProtocol!CompleteUnheard, Lease!CompleteUnheard,
         LeaseProtocol!Fail, Lease!Fail, LeaseProtocol!Release, Lease!Release,
         LeaseProtocol!Abandon, Lease!Abandon
<1>5. LeaseProtocol!Tick <=> Lease!Tick
  BY DEF LeaseProtocol!Tick, Lease!Tick
<1> QED BY <1>1, <1>2, <1>3, <1>4, <1>5 DEF LeaseProtocol!Next, Lease!Next

(* One handler at most is at work on an event; it holds the reservation    *)
(* until it fails; and none is at work on an event whose record is free.   *)
HandlerInv ==
    /\ \A v, w \in Workers :
          op[v].kind = "webhook" /\ op[w].kind = "webhook" /\ op[v].event = op[w].event => v = w
    /\ \A w \in Workers :
          op[w].kind = "webhook" /\ op[w].pc # "release" => lease[op[w].event].state = "processing"
    /\ \A e \in Events, w \in Workers :
          ~ Held(lease[e]) /\ op[w].kind = "webhook" => op[w].event # e

LEMMA LeaseGivesHandler ==
    ASSUME TypeInv, Lease!LeaseInv
    PROVE  HandlerInv
<1> DEFINE job == [w \in Workers |-> LeaseJob(op[w])]
<1>1. ASSUME NEW w \in Workers, op[w].kind = "webhook"
      PROVE  /\ job[w].event = op[w].event /\ job[w].phase # "idle"
             /\ op[w].pc # "release" => job[w].phase = "working"
  BY <1>1 DEF LeaseJob
<1>2. Lease!Exclusive /\ Lease!OwnsLease
  BY DEF Lease!LeaseInv
<1>3. ASSUME NEW v \in Workers, NEW w \in Workers,
             op[v].kind = "webhook", op[w].kind = "webhook", op[v].event = op[w].event
      PROVE  v = w
  BY <1>1, <1>2, <1>3 DEF Lease!Exclusive
<1>4. ASSUME NEW w \in Workers, op[w].kind = "webhook", op[w].pc # "release"
      PROVE  lease[op[w].event].state = "processing"
  <2>1. job[w].phase = "working"
    BY <1>1, <1>4
  <2>2. lease[job[w].event] = Lease!Reserved(job[w].since)
    BY <1>2, <2>1 DEF Lease!OwnsLease
  <2>3. lease[op[w].event] = Lease!Reserved(job[w].since)
    BY <1>1, <1>4, <2>2
  <2> HIDE DEF job
  <2> QED BY <2>3 DEF Lease!Reserved
<1>5. ASSUME NEW e \in Events, NEW w \in Workers, ~ Held(lease[e]), op[w].kind = "webhook"
      PROVE  op[w].event # e
  <2>1. ~ Lease!Held(lease[e], now)
    BY <1>5 DEF Held, Lease!Held
  <2>2. job[w].phase # "idle"
    BY <1>1, <1>5
  <2>3. job[w].event # e
    BY <2>1, <2>2, LeaseConstants, Lease!NoJobOnFreeEvent
  <2> QED BY <1>1, <1>5, <2>3
<1> QED BY <1>3, <1>4, <1>5 DEF HandlerInv

LEMMA HandlersExclusive == Spec => []HandlerInv
<1>1. LeaseProtocol!Init => Lease!Init
  BY SameProtocol
<1>2. [LeaseProtocol!Next]_(LeaseProtocol!vars) => [Lease!Next]_(Lease!vars)
  BY SameProtocol DEF LeaseProtocol!vars, Lease!vars
<1>3. LeaseProtocol!Spec => Lease!Spec
  BY <1>1, <1>2, PTL DEF LeaseProtocol!Spec, Lease!Spec
<1>4. Lease!Spec => []Lease!LeaseInv
  BY LeaseConstants, Lease!LeaseInvariant
<1>5. TypeInv /\ Lease!LeaseInv => HandlerInv
  BY LeaseGivesHandler
<1> QED BY <1>3, <1>4, <1>5, TypesKept, HandlerImplementsLease, PTL DEF ImplementsLease

-----------------------------------------------------------------------------
(* What is acknowledged is decided.                                        *)

(* Steps that leave leases and answers alone.                              *)
LEMMA WorkSettled ==
    ASSUME TypeInv, Settled, NEW w \in Workers,
           \/ WebhookLoad(w) \/ WebhookSave(w) \/ WebhookSaveThrows(w) \/ WebhookThrows(w)
           \/ AccountSave(w) \/ AccountDrop(w)
    PROVE  Settled'
<1>1. UNCHANGED <<lease, stripe, orphaned>> /\ decided \subseteq decided'
  BY DEF WebhookLoad, WebhookSave, WebhookSaveThrows, WebhookPut, WebhookThrows, AccountSave,
         AccountDrop, history
<1>2. \A v \in Workers : v # w => op'[v] = op[v]
  BY DEF WebhookLoad, WebhookSave, WebhookSaveThrows, WebhookThrows, AccountSave, AccountDrop,
         Begin, End, TypeInv, TypeOK
<1>3. op'[w].kind = "webhook" /\ op'[w].pc = "complete" => op'[w].event \in decided'
  <2>1. op[w] \in Op
    BY OpFacts
  <2>2. CASE WebhookLoad(w)
    BY <2>2, LoadMoves
  <2>3. CASE WebhookSave(w)
    BY <2>1, <2>3 DEF WebhookSave, Begin, TypeInv, TypeOK, Op
  <2>4. CASE WebhookSaveThrows(w) \/ WebhookThrows(w)
    BY <2>1, <2>4 DEF WebhookSaveThrows, WebhookThrows, Begin, TypeInv, TypeOK, Op
  <2>5. CASE AccountSave(w) \/ AccountDrop(w)
    BY <2>5, IdleFacts DEF AccountSave, AccountDrop, End, TypeInv, TypeOK
  <2> QED BY <2>2, <2>3, <2>4, <2>5
<1> QED BY <1>1, <1>2, <1>3 DEF Settled

LEMMA EndSettled ==
    ASSUME TypeInv, Settled, NEW w \in Workers,
           \/ WebhookComplete(w) \/ WebhookCompleteUnheard(w) \/ WebhookRelease(w) \/ WebhookAbandon(w)
    PROVE  Settled'
<1> DEFINE e == op[w].event
<1>1. e \in Events /\ op[w] \in Op /\ lease[e].state \in {"none", "processing", "completed"}
  BY OpFacts DEF WebhookComplete, WebhookCompleteUnheard, WebhookRelease, WebhookAbandon, WebhookOp,
                 TypeInv, TypeOK
<1>2. /\ decided' = decided /\ orphaned \subseteq orphaned'
      /\ \A f \in Events : f # e => lease'[f] = lease[f] /\ stripe'[f] = stripe[f]
  BY <1>1 DEF WebhookComplete, WebhookCompleteUnheard, WebhookRelease, WebhookAbandon, TypeInv, TypeOK,
              Answer, Unsettle, history
<1>3. /\ lease'[e].state = "completed" => e \in decided
      /\ lease'[e].state = "processing" /\ stripe'[e] # "sent" => e \in orphaned'
  <2>1. CASE WebhookComplete(w) \/ WebhookCompleteUnheard(w)
    BY <1>1, <2>1 DEF WebhookComplete, WebhookCompleteUnheard, Completed, Settled, TypeInv, TypeOK
  <2>2. CASE WebhookRelease(w)
    BY <1>1, <2>2 DEF WebhookRelease, Released, NoLease, Settled, TypeInv, TypeOK
  <2>3. CASE WebhookAbandon(w)
    BY <1>1, <2>3 DEF WebhookAbandon, Unsettle, Settled
  <2> QED BY <2>1, <2>2, <2>3
<1>4. \A v \in Workers :
         /\ v # w => op'[v] = op[v]
         /\ op'[w].pc # "complete"
  BY <1>1, IdleFacts DEF WebhookComplete, WebhookCompleteUnheard, WebhookRelease, WebhookAbandon,
                         Begin, End, TypeInv, TypeOK, Op
<1> HIDE DEF e
<1> QED BY <1>2, <1>3, <1>4 DEF Settled

LEMMA EventSettled ==
    ASSUME TypeInv, Settled, NEW e \in Events,
           DeliverDuplicate(e) \/ DeliverUnheard(e) \/ StripeTimesOut(e) \/ UNCHANGED vars
    PROVE  Settled'
<1>1. /\ op' = op /\ decided' = decided /\ orphaned \subseteq orphaned'
      /\ \A f \in Events : f # e => lease'[f] = lease[f] /\ stripe'[f] = stripe[f]
  BY DEF DeliverDuplicate, DeliverUnheard, StripeTimesOut, Unsettle, vars, history, TypeInv, TypeOK
<1>2. /\ lease'[e].state = "completed" => e \in decided
      /\ lease'[e].state = "processing" /\ stripe'[e] # "sent" => e \in orphaned'
  BY DEF DeliverDuplicate, DeliverUnheard, StripeTimesOut, Unsettle, vars, history, TypeInv, TypeOK,
         Settled, Reserved
<1> QED BY <1>1, <1>2 DEF Settled

LEMMA NextSettled == TypeInv /\ Settled /\ [Next]_vars => Settled'
<1> SUFFICES ASSUME TypeInv, Settled, [Next]_vars PROVE Settled'
  OBVIOUS
<1>1. ASSUME NEW w \in Workers, NEW e \in Events, Deliver(w, e)
      PROVE  Settled'
  <2>1. /\ op' \in [Workers -> Op] /\ op'[w].pc = "load" /\ \A v \in Workers : v # w => op'[v] = op[v]
    BY <1>1, NextTypes DEF Deliver, Begin, Idle, TypeInv, TypeOK, Next, Delivery
  <2>2. /\ decided' = decided /\ orphaned' = orphaned
        /\ lease' = [lease EXCEPT ![e] = Reserved(now)] /\ stripe' = [stripe EXCEPT ![e] = "sent"]
    BY <1>1 DEF Deliver, history
  <2> QED BY <2>1, <2>2 DEF Settled, TypeInv, TypeOK, Reserved
<1>2. ASSUME NEW w \in Workers, NEW u \in Users, Request(w, u)
      PROVE  Settled'
  <2>1. UNCHANGED <<lease, stripe, decided, orphaned>>
    BY <1>2, RequestFacts DEF history
  <2>2. PICK kind \in {"trial", "subscribe", "cancel"}, next \in Account :
           op' = [op EXCEPT ![w] = Writer(u, kind, next)] /\ MayWrite(u, kind, next)
    BY <1>2, RequestFacts
  <2>3. op'[w].pc = "save" /\ \A v \in Workers : v # w => op'[v] = op[v]
    BY <2>2 DEF TypeInv, TypeOK, Writer, Idle
  <2> QED BY <2>1, <2>3 DEF Settled
<1>3. CASE Tick
  BY <1>3 DEF Tick, Settled, history
<1>4. CASE UNCHANGED vars
  BY <1>4 DEF vars, Settled, history
<1> QED BY <1>1, <1>2, <1>3, <1>4, WorkSettled, EndSettled, EventSettled
        DEF Next, Delivery, WebhookStep, WebhookFault

LEMMA AckedNext == TypeInv /\ Settled /\ AckedIsDecided /\ [Next]_vars => AckedIsDecided'
<1> SUFFICES ASSUME TypeInv, Settled, AckedIsDecided, [Next]_vars, NEW e \in Events,
                    stripe'[e] = "acked"
             PROVE  e \in decided' \/ e \in orphaned'
  BY DEF AckedIsDecided
<1>1. decided \subseteq decided' /\ orphaned \subseteq orphaned'
  BY LoadFacts
     DEF Next, Delivery, WebhookStep, WebhookFault, Request, Deliver, DeliverDuplicate, DeliverUnheard,
         StripeTimesOut, WebhookLoad, WebhookSave, WebhookPut, WebhookComplete, WebhookRelease,
         WebhookSaveThrows, WebhookThrows, WebhookCompleteUnheard, WebhookAbandon, TrialLoad,
         SubscribeLoad, CancelLoad, AccountSave, AccountDrop, Tick, Unsettle, vars, history
<1>2. ASSUME stripe[e] # "acked" PROVE e \in decided \/ e \in orphaned
  <2>1. stripe[e] \in {"pending", "sent"} /\ lease[e].state \in {"none", "processing", "completed"}
    BY <1>2 DEF TypeInv, TypeOK
  <2>2. \/ DeliverDuplicate(e)
        \/ \E w \in Workers : WebhookComplete(w) /\ op[w].event = e
    <3>1. stripe' # stripe /\ stripe \in [Events -> {"pending", "sent", "acked"}]
      BY <1>2 DEF TypeInv, TypeOK
    <3>2. \/ \E f \in Events : DeliverDuplicate(f) \/ StripeTimesOut(f) \/ \E w \in Workers : Deliver(w, f)
          \/ \E w \in Workers : WebhookComplete(w) \/ WebhookRelease(w) \/ WebhookAbandon(w)
      BY <3>1
         DEF Next, Delivery, WebhookStep, WebhookFault, Request, DeliverUnheard,
             WebhookLoad, WebhookSave, WebhookPut, WebhookSaveThrows, WebhookThrows,
             WebhookCompleteUnheard, TrialLoad, SubscribeLoad, CancelLoad, AccountSave, AccountDrop,
             Tick, vars
    <3>3. ASSUME NEW f \in Events,
                 DeliverDuplicate(f) \/ StripeTimesOut(f) \/ \E w \in Workers : Deliver(w, f)
          PROVE  DeliverDuplicate(e)
      BY <1>2, <3>1, <3>3 DEF DeliverDuplicate, StripeTimesOut, Deliver
    <3>4. ASSUME NEW w \in Workers, WebhookRelease(w) \/ WebhookAbandon(w)
          PROVE  FALSE
      BY <1>2, <3>1, <3>4 DEF WebhookRelease, WebhookAbandon, Answer
    <3>5. ASSUME NEW w \in Workers, WebhookComplete(w)
          PROVE  op[w].event = e
      BY <1>2, <3>1, <3>5 DEF WebhookComplete, Answer
    <3> QED BY <3>2, <3>3, <3>4, <3>5
  <2> QED BY <2>1, <2>2 DEF DeliverDuplicate, Held, WebhookComplete, Settled
<1> QED BY <1>1, <1>2 DEF AckedIsDecided

(* An event Stripe was told is delivered has been decided by a handler, or *)
(* it is one of those whose reservation was left behind or whose answer    *)
(* came too late.                                                          *)
THEOREM NothingAckedForNothing == Spec => []AckedIsDecided
<1>1. Init => Settled /\ AckedIsDecided
  BY IdleFacts DEF Init, Settled, AckedIsDecided, NoLease
<1> QED BY <1>1, NextSettled, AckedNext, TypesKept, PTL DEF Spec

-----------------------------------------------------------------------------
(* Nobody is made a subscriber but by Stripe or the admin switch.          *)

(* The invocation has just begun one of the other writers' operations.     *)
Began(w, u, kind, next) ==
    /\ op[w] = Idle /\ InFlight(u) < UserInFlight
    /\ op' = [op EXCEPT ![w] = Writer(u, kind, next)] /\ MayWrite(u, kind, next)
    /\ UNCHANGED <<now, lease, acct, stripe, faults, history>>

LEMMA RequestBegins ==
    ASSUME TypeInv, NEW w \in Workers, NEW u \in Users, Request(w, u)
    PROVE  \E kind \in {"trial", "subscribe", "cancel"}, next \in Account : Began(w, u, kind, next)
<1>1. PICK kind \in {"trial", "subscribe", "cancel"}, next \in Account :
         op' = [op EXCEPT ![w] = Writer(u, kind, next)] /\ MayWrite(u, kind, next)
  BY RequestFacts
<1>2. Began(w, u, kind, next)
  BY <1>1, RequestFacts DEF Began
<1> QED BY <1>2

(* No step but a request's puts an operation of another kind in place.     *)
LEMMA WebhookOps ==
    ASSUME TypeInv, NEW w \in Workers,
           \/ WebhookStep(w) \/ WebhookFault(w) \/ AccountSave(w) \/ AccountDrop(w)
    PROVE  /\ \A v \in Workers : v # w => op'[v] = op[v]
           /\ op'[w].kind \in {"none", "webhook"}
<1>1. op[w] \in Op /\ op \in [Workers -> Op]
  BY OpFacts DEF TypeInv, TypeOK
<1>2. CASE WebhookLoad(w)
  BY <1>2, LoadMoves
<1>3. CASE WebhookSave(w) \/ WebhookSaveThrows(w) \/ WebhookThrows(w) \/ WebhookCompleteUnheard(w)
  <2>1. op[w].kind = "webhook"
    BY <1>3 DEF WebhookSave, WebhookSaveThrows, WebhookPut, WebhookThrows, WebhookCompleteUnheard
  <2>2. PICK pc \in {"complete", "release"} : op' = [op EXCEPT ![w] = [op[w] EXCEPT !.pc = pc]]
    BY <1>3 DEF WebhookSave, WebhookSaveThrows, WebhookThrows, WebhookCompleteUnheard, Begin
  <2> QED BY <1>1, <2>1, <2>2 DEF Op
<1>4. CASE WebhookComplete(w) \/ WebhookRelease(w) \/ WebhookAbandon(w) \/ AccountSave(w) \/ AccountDrop(w)
  <2>1. op' = [op EXCEPT ![w] = Idle]
    BY <1>4 DEF WebhookComplete, WebhookRelease, WebhookAbandon, AccountSave, AccountDrop, End
  <2> QED BY <1>1, <2>1, IdleFacts
<1> QED BY <1>2, <1>3, <1>4 DEF WebhookStep, WebhookFault

LEMMA EventOps ==
    ASSUME TypeInv, NEW e \in Events, Delivery(e) \/ DeliverUnheard(e) \/ StripeTimesOut(e)
    PROVE  /\ UNCHANGED <<now, acct, history>> \/ UNCHANGED <<now, acct, applied, reopened, newest, tried,
                                                              switched, granted, decided>>
           /\ \A w \in Workers :
                 op'[w] # op[w] =>
                    /\ op[w] = Idle /\ op'[w].kind = "webhook" /\ op'[w].pc = "load"
                    /\ op'[w].user = Payload[e].user
                    /\ Payload[e].user = NoUser \/ InFlight(Payload[e].user) < UserInFlight
                    /\ \A v \in Workers : v # w => op'[v] = op[v]
<1>1. CASE DeliverDuplicate(e) \/ DeliverUnheard(e) \/ StripeTimesOut(e)
  BY <1>1 DEF DeliverDuplicate, DeliverUnheard, StripeTimesOut
<1>2. ASSUME NEW x \in Workers, Deliver(x, e)
      PROVE  /\ UNCHANGED <<now, acct, history>>
             /\ \A w \in Workers :
                 op'[w] # op[w] =>
                    /\ op[w] = Idle /\ op'[w].kind = "webhook" /\ op'[w].pc = "load"
                    /\ op'[w].user = Payload[e].user
                    /\ Payload[e].user = NoUser \/ InFlight(Payload[e].user) < UserInFlight
                    /\ \A v \in Workers : v # w => op'[v] = op[v]
  BY <1>2 DEF Deliver, MayStart, Begin, Idle, TypeInv, TypeOK
<1> QED BY <1>1, <1>2 DEF Delivery

LEMMA ActiveStatus ==
    ASSUME NEW p, WebhookStatus(p) = "active"
    PROVE  SaysActive(p)
BY DEF WebhookStatus, MapStripeSubscriptionStatus, SaysActive

LEMMA NextGranted ==
    TypeInv /\ WritesGranted /\ ActiveWasGranted /\ [Next]_vars => (WritesGranted /\ ActiveWasGranted)'
<1> SUFFICES ASSUME TypeInv, WritesGranted, ActiveWasGranted, [Next]_vars
             PROVE  WritesGranted' /\ ActiveWasGranted'
  OBVIOUS
<1>1. ASSUME NEW e \in Events, Delivery(e) \/ DeliverUnheard(e) \/ StripeTimesOut(e)
      PROVE  WritesGranted' /\ ActiveWasGranted'
  <2>1. UNCHANGED <<acct, granted>>
    BY <1>1, EventOps DEF history
  <2>2. \A w \in Workers : op'[w] = op[w] \/ op'[w].kind = "webhook"
    BY <1>1, EventOps
  <2> QED BY <2>1, <2>2 DEF WritesGranted, ActiveWasGranted
<1>2. ASSUME NEW w \in Workers, NEW u \in Users, Request(w, u)
      PROVE  WritesGranted' /\ ActiveWasGranted'
  <2>1. PICK kind \in {"trial", "subscribe", "cancel"}, next \in Account : Began(w, u, kind, next)
    BY <1>2, RequestBegins
  <2>2. UNCHANGED <<acct, granted>>
    BY <2>1 DEF Began, history
  <2>3. /\ op'[w].kind = kind /\ op'[w].user = u /\ op'[w].next = next
        /\ \A v \in Workers : v # w => op'[v] = op[v]
    BY <2>1 DEF Began, Writer, Idle, TypeInv, TypeOK
  <2>4. /\ kind = "trial" => ~ Entitled(next)
        /\ kind = "cancel" /\ Entitled(next) => granted[u]
    <3>1. acct[u] \in Account /\ (Entitled(acct[u]) => granted[u])
      BY DEF TypeInv, TypeOK, ActiveWasGranted
    <3> QED BY <2>1, <3>1 DEF Began, MayWrite, TrialAccount, CancelAccount, Entitled, Account
  <2> QED BY <2>2, <2>3, <2>4 DEF WritesGranted, ActiveWasGranted
<1>3. ASSUME NEW w \in Workers, WebhookStep(w) \/ WebhookFault(w) \/ AccountSave(w) \/ AccountDrop(w)
      PROVE  WritesGranted' /\ ActiveWasGranted'
  <2>1. /\ \A v \in Workers : v # w => op'[v] = op[v]
        /\ op'[w].kind \in {"none", "webhook"}
    BY <1>3, WebhookOps
  <2>2. CASE WebhookPut(w)
    <3>1. /\ op[w].user \in Users /\ op[w].event \in Events
          /\ acct' = [acct EXCEPT ![op[w].user] = op[w].next]
          /\ granted' = [granted EXCEPT ![op[w].user] = @ \/ SaysActive(Payload[op[w].event])]
          /\ op[w].next.status = WebhookStatus(Payload[op[w].event])
      BY <2>2, PutFacts DEF WebhookOp
    <3>2. /\ \A x \in Users : granted[x] => granted'[x]
          /\ Entitled(op[w].next) => granted'[op[w].user]
          /\ acct'[op[w].user] = op[w].next
          /\ \A x \in Users : x # op[w].user => acct'[x] = acct[x]
      BY <3>1, ActiveStatus DEF TypeInv, TypeOK, Entitled
    <3>3. \A v \in Workers : op[v].kind = "cancel" => op[v].user \in Users
      BY OpFacts DEF AccountOp
    <3> QED BY <2>1, <3>2, <3>3 DEF WritesGranted, ActiveWasGranted
  <2>3. CASE AccountSave(w)
    <3>1. /\ op[w].user \in Users
          /\ acct' = [acct EXCEPT ![op[w].user] = op[w].next]
          /\ op[w].kind \in {"trial", "subscribe", "cancel"}
      BY <2>3, AccountSaveFacts DEF AccountOp
    <3>2. \/ granted' = granted /\ op[w].kind # "subscribe"
          \/ granted' = [granted EXCEPT ![op[w].user] = @ \/ Entitled(op[w].next)]
      BY <2>3 DEF AccountSave
    <3>3. /\ \A x \in Users : granted[x] => granted'[x]
          /\ Entitled(op[w].next) => granted'[op[w].user]
          /\ acct'[op[w].user] = op[w].next
          /\ \A x \in Users : x # op[w].user => acct'[x] = acct[x]
      BY <3>1, <3>2 DEF TypeInv, TypeOK, WritesGranted
    <3>4. \A v \in Workers : op[v].kind = "cancel" => op[v].user \in Users
      BY OpFacts DEF AccountOp
    <3> QED BY <2>1, <3>3, <3>4 DEF WritesGranted, ActiveWasGranted
  <2>4. CASE ~ WebhookPut(w) /\ ~ AccountSave(w)
    <3>1. UNCHANGED <<acct, granted>>
      BY <1>3, <2>4
         DEF WebhookStep, WebhookFault, WebhookLoad, WebhookSave, WebhookComplete, WebhookRelease,
             WebhookSaveThrows, WebhookThrows, WebhookCompleteUnheard, WebhookAbandon, AccountDrop,
             history
    <3> QED BY <2>1, <3>1 DEF WritesGranted, ActiveWasGranted
  <2> QED BY <2>2, <2>3, <2>4
<1>4. CASE Tick \/ UNCHANGED vars
  BY <1>4 DEF Tick, vars, history, WritesGranted, ActiveWasGranted
<1> QED BY <1>1, <1>2, <1>3, <1>4 DEF Next

(* Nobody is a subscriber unless an event of Stripe's or the admin switch  *)
(* said so, however many operations on an account overlap.                 *)
THEOREM NoSubscriberInvented == Spec => []ActiveWasGranted
<1>1. Init => WritesGranted /\ ActiveWasGranted
  BY IdleFacts DEF Init, WritesGranted, ActiveWasGranted, NoAccount, Entitled
<1> QED BY <1>1, NextGranted, TypesKept, PTL DEF Spec

-----------------------------------------------------------------------------
(* An event is written again only after a handler of it failed.            *)

(* Every completed record was there before or is completed by this step.   *)
LEMMA LeaseMoves ==
    ASSUME TypeInv, [Next]_vars, NEW e \in Events, lease'[e].state = "completed"
    PROVE  lease'[e] = lease[e] \/ lease'[e] = Completed(now)
<1>1. CASE UNCHANGED lease
  BY <1>1
<1>2. ASSUME NEW f \in Events, DeliverUnheard(f) \/ \E w \in Workers : Deliver(w, f)
      PROVE  lease'[e] = lease[e]
  BY <1>2 DEF DeliverUnheard, Deliver, Reserved, TypeInv, TypeOK
<1>3. ASSUME NEW w \in Workers, WebhookComplete(w) \/ WebhookCompleteUnheard(w) \/ WebhookRelease(w)
      PROVE  lease'[e] = lease[e] \/ lease'[e] = Completed(now)
  BY <1>3 DEF WebhookComplete, WebhookCompleteUnheard, WebhookRelease, Released, NoLease, TypeInv, TypeOK
<1>4. \/ UNCHANGED lease
      \/ \E f \in Events : DeliverUnheard(f) \/ \E w \in Workers : Deliver(w, f)
      \/ \E w \in Workers : WebhookComplete(w) \/ WebhookCompleteUnheard(w) \/ WebhookRelease(w)
  BY DEF Next, Delivery, WebhookStep, WebhookFault, Request, DeliverDuplicate, StripeTimesOut,
         WebhookLoad, WebhookSave, WebhookPut, WebhookSaveThrows, WebhookThrows, WebhookAbandon,
         TrialLoad, SubscribeLoad, CancelLoad, AccountSave, AccountDrop, Tick, vars
<1> QED BY <1>1, <1>2, <1>3, <1>4

LEMMA CompletedNext ==
    ASSUME MaxTime <= CompletedTtl, TypeInv, CompletedHeld, [Next]_vars
    PROVE  CompletedHeld'
<1>1. now \in Nat /\ now >= 1 /\ now <= CompletedTtl /\ CompletedTtl \in Nat /\ MaxTime \in Nat
  BY Constants DEF TypeInv, TypeOK, CompletedHeld
<1>2. now' <= CompletedTtl
  <2>1. now' = now \/ (now < MaxTime /\ now' = now + 1)
    BY LoadFacts
       DEF Next, Delivery, WebhookStep, WebhookFault, Request, Deliver, DeliverDuplicate,
           DeliverUnheard, StripeTimesOut, WebhookLoad, WebhookSave, WebhookPut, WebhookComplete,
           WebhookRelease, WebhookSaveThrows, WebhookThrows, WebhookCompleteUnheard, WebhookAbandon,
           TrialLoad, SubscribeLoad, CancelLoad, AccountSave, AccountDrop, Tick, vars
  <2> QED BY <1>1, <2>1
<1>3. ASSUME NEW e \in Events, lease'[e].state = "completed"
      PROVE  lease'[e].expiresAt > CompletedTtl
  <2>1. CASE lease'[e] = lease[e]
    BY <1>3, <2>1 DEF CompletedHeld
  <2>2. CASE lease'[e] = Completed(now)
    BY <1>1, <2>2 DEF Completed
  <2> QED BY <1>3, <2>1, <2>2, LeaseMoves
<1> QED BY <1>2, <1>3 DEF CompletedHeld

(* A free record belongs to an event that nobody has written for good.     *)
LEMMA FreeIsUnwritten ==
    ASSUME TypeInv, HandlerInv, CompletedHeld, NEW e \in Events, ~ Held(lease[e])
    PROVE  Unwritten(e)
<1>1. lease[e].state # "completed"
  <2> SUFFICES ASSUME lease[e].state = "completed" PROVE FALSE
    OBVIOUS
  <2>1. lease[e].expiresAt > CompletedTtl /\ now <= CompletedTtl /\ now \in Nat
        /\ lease[e].expiresAt \in Nat
    BY DEF CompletedHeld, TypeInv, TypeOK
  <2>2. lease[e].expiresAt > now
    BY <2>1, Constants
  <2> QED BY <2>2 DEF Held
<1>2. \A w \in Workers : ~ Written(op[w], e)
  BY DEF HandlerInv, Written
<1> QED BY <1>1, <1>2 DEF Unwritten

(* An event whose counts stay and which does not become unwritten.         *)
Untouched(e) ==
    /\ applied'[e] = applied[e] /\ reopened'[e] = reopened[e]
    /\ Unwritten(e)' => Unwritten(e)

AppliedAt(e) ==
    /\ applied[e] <= 1 + reopened[e]
    /\ Unwritten(e) => applied[e] <= reopened[e]

LEMMA UntouchedKept ==
    ASSUME NEW e \in Events, AppliedAt(e), Untouched(e)
    PROVE  AppliedAt(e)'
BY DEF AppliedAt, Untouched

(* Steps of other operations and of the clock.                             *)
LEMMA OthersApplied ==
    ASSUME TypeInv, HandlerInv, NEW e \in Events,
           \/ Tick \/ UNCHANGED vars
           \/ \E f \in Events : DeliverDuplicate(f) \/ StripeTimesOut(f)
           \/ \E w \in Workers : WebhookLoad(w) \/ AccountSave(w) \/ AccountDrop(w)
           \/ \E w \in Workers, u \in Users : Request(w, u)
    PROVE  Untouched(e)
<1>1. ASSUME UNCHANGED <<lease, applied, reopened>>,
             \A w \in Workers : Written(op[w], e) => op'[w] = op[w]
      PROVE  Untouched(e)
  BY <1>1 DEF Untouched, Unwritten
<1>2. CASE Tick \/ UNCHANGED vars \/ \E f \in Events : DeliverDuplicate(f) \/ StripeTimesOut(f)
  BY <1>1, <1>2 DEF Tick, vars, history, DeliverDuplicate, StripeTimesOut
<1>3. ASSUME NEW w \in Workers, WebhookLoad(w) \/ AccountSave(w) \/ AccountDrop(w)
      PROVE  Untouched(e)
  <2>1. UNCHANGED <<lease, applied, reopened>>
    BY <1>3 DEF WebhookLoad, AccountSave, AccountDrop, history
  <2>2. ~ Written(op[w], e)
    BY <1>3 DEF WebhookLoad, AccountSave, AccountDrop, Written
  <2>3. \A v \in Workers : v # w => op'[v] = op[v]
    BY <1>3, WebhookOps DEF WebhookStep
  <2> QED BY <1>1, <2>1, <2>2, <2>3
<1>4. ASSUME NEW w \in Workers, NEW u \in Users, Request(w, u)
      PROVE  Untouched(e)
  <2>1. PICK kind \in {"trial", "subscribe", "cancel"}, next \in Account : Began(w, u, kind, next)
    BY <1>4, RequestBegins
  <2>2. UNCHANGED <<lease, applied, reopened>> /\ op[w] = Idle
    BY <2>1 DEF Began, history
  <2>3. ~ Written(op[w], e)
    BY <2>2, IdleFacts DEF Written
  <2>4. \A v \in Workers : v # w => op'[v] = op[v]
    BY <2>1 DEF Began, TypeInv, TypeOK
  <2> QED BY <1>1, <2>2, <2>3, <2>4
<1> QED BY <1>2, <1>3, <1>4

LEMMA DeliverApplied ==
    ASSUME TypeInv, HandlerInv, CompletedHeld, AppliedInv, NEW e \in Events, NEW f \in Events,
           DeliverUnheard(f) \/ \E w \in Workers : Deliver(w, f)
    PROVE  AppliedAt(e)'
<1>1. AppliedAt(e)
  BY DEF AppliedInv, AppliedAt
<1>2. UNCHANGED <<applied, reopened>> /\ ~ Held(lease[f])
  BY DEF DeliverUnheard, Deliver, history
<1>3. CASE e = f
  <2>1. applied[e] <= reopened[e]
    BY <1>1, <1>2, <1>3, FreeIsUnwritten DEF AppliedAt
  <2> QED BY <1>1, <1>2, <2>1 DEF AppliedAt
<1>4. CASE e # f
  <2>1. lease'[e] = lease[e]
    BY <1>4 DEF DeliverUnheard, Deliver, TypeInv, TypeOK
  <2>2. \A w \in Workers : Written(op[w], e) => op'[w] = op[w]
    BY IdleFacts DEF DeliverUnheard, Deliver, MayStart, Begin, Written, TypeInv, TypeOK
  <2>3. Untouched(e)
    BY <1>2, <2>1, <2>2 DEF Untouched, Unwritten
  <2> QED BY <1>1, <2>3, UntouchedKept
<1> QED BY <1>3, <1>4

(* The handler's own steps.                                                *)
LEMMA HandlerApplied ==
    ASSUME TypeInv, HandlerInv, AppliedInv, NEW e \in Events, NEW w \in Workers,
           \/ WebhookSave(w) \/ WebhookSaveThrows(w) \/ WebhookThrows(w) \/ WebhookComplete(w)
           \/ WebhookCompleteUnheard(w) \/ WebhookRelease(w) \/ WebhookAbandon(w)
    PROVE  AppliedAt(e)'
<1> DEFINE f == op[w].event
<1>1. AppliedAt(e) /\ applied[e] \in Nat /\ reopened[e] \in Nat
  BY DEF AppliedInv, AppliedAt, TypeInv, TypeOK
<1>2. /\ op[w] \in Op /\ WebhookOp(op[w]) /\ op[w].kind = "webhook" /\ f \in Events
      /\ op \in [Workers -> Op] /\ applied \in [Events -> Nat] /\ reopened \in [Events -> Nat]
  BY OpFacts, PutFacts
     DEF WebhookSave, WebhookSaveThrows, WebhookThrows, WebhookComplete, WebhookCompleteUnheard,
         WebhookRelease, WebhookAbandon, WebhookOp, TypeInv, TypeOK
<1>3. \A v \in Workers : v # w => op'[v] = op[v]
  BY WebhookOps DEF WebhookStep, WebhookFault
<1>4. \A v \in Workers : Written(op[v], f) => v = w
  BY <1>2 DEF HandlerInv, Written
<1>5. CASE e # f
  <2>1. lease'[e] = lease[e] /\ applied'[e] = applied[e] /\ reopened'[e] = reopened[e]
    BY <1>2, <1>5
       DEF WebhookSave, WebhookSaveThrows, WebhookPut, WebhookThrows, WebhookComplete,
           WebhookCompleteUnheard, WebhookRelease, WebhookAbandon, Reopen, history, TypeInv, TypeOK
  <2>2. ~ Written(op[w], e)
    BY <1>5 DEF Written
  <2>3. Untouched(e)
    BY <1>3, <2>1, <2>2 DEF Untouched, Unwritten
  <2> QED BY <1>1, <2>3, UntouchedKept
<1>6. CASE e = f /\ (WebhookSave(w) \/ WebhookSaveThrows(w))
  <2>1. op[w].pc = "save" /\ lease[e].state = "processing" /\ applied'[e] = applied[e] + 1
    BY <1>2, <1>6, PutFacts DEF WebhookSave, WebhookSaveThrows, HandlerInv
  <2>2. applied[e] <= reopened[e]
    BY <1>1, <1>4, <1>6, <2>1 DEF AppliedAt, Unwritten, Written
  <2>3. CASE WebhookSaveThrows(w)
    BY <1>1, <1>2, <1>6, <2>1, <2>2, <2>3 DEF WebhookSaveThrows, AppliedAt
  <2>4. CASE WebhookSave(w)
    <3>1. op'[w] = [op[w] EXCEPT !.pc = "complete"] /\ reopened' = reopened
      BY <1>2, <2>4 DEF WebhookSave, Begin
    <3>2. op[w].next # NoAccount
      <4>1. op[w].next.status = WebhookStatus(Payload[e]) /\ NoAccount \in Account
        BY <1>2, <1>6, <2>1, OtherAccountFacts DEF WebhookOp, NoAccount, Account, Status
      <4>2. WebhookStatus(Payload[e]) # "absent"
        BY Constants DEF WebhookStatus, MapStripeSubscriptionStatus
      <4> QED BY <4>1, <4>2 DEF NoAccount
    <3>3. Written(op'[w], e)
      BY <1>2, <1>6, <3>1, <3>2 DEF Written, Op
    <3>4. ~ Unwritten(e)'
      BY <3>3 DEF Unwritten
    <3> QED BY <1>1, <2>1, <2>2, <3>1, <3>4 DEF AppliedAt
  <2> QED BY <1>6, <2>3, <2>4
<1>7. CASE e = f /\ (WebhookThrows(w) \/ WebhookAbandon(w))
  <2>1. UNCHANGED <<lease, applied>> /\ Reopen(w)
    BY <1>7 DEF WebhookThrows, WebhookAbandon
  <2>2. CASE Written(op[w], e)
    <3>1. reopened'[e] = reopened[e] + 1
      BY <1>2, <1>7, <2>1, <2>2 DEF Reopen, Written
    <3> QED BY <1>1, <2>1, <3>1 DEF AppliedAt
  <2>3. CASE ~ Written(op[w], e)
    <3>1. reopened' = reopened
      BY <1>2, <1>7, <2>1, <2>3 DEF Reopen, Written
    <3>2. Untouched(e)
      BY <1>3, <2>1, <2>3, <3>1 DEF Untouched, Unwritten
    <3> QED BY <1>1, <3>2, UntouchedKept
  <2> QED BY <2>2, <2>3
<1>8. CASE e = f /\ (WebhookComplete(w) \/ WebhookCompleteUnheard(w))
  <2>1. lease'[e].state = "completed" /\ UNCHANGED <<applied, reopened>>
    BY <1>2, <1>8 DEF WebhookComplete, WebhookCompleteUnheard, Completed, history, TypeInv, TypeOK
  <2> QED BY <1>1, <2>1 DEF AppliedAt, Unwritten
<1>9. CASE e = f /\ WebhookRelease(w)
  <2>1. /\ UNCHANGED <<applied, reopened>> /\ ~ Written(op[w], e)
        /\ lease[e].state = "completed" => lease'[e].state = "completed"
    BY <1>2, <1>9 DEF WebhookRelease, Released, history, Written, TypeInv, TypeOK
  <2>2. Untouched(e)
    BY <1>3, <2>1 DEF Untouched, Unwritten
  <2> QED BY <1>1, <2>2, UntouchedKept
<1> QED BY <1>5, <1>6, <1>7, <1>8, <1>9

LEMMA NextApplied == TypeInv /\ HandlerInv /\ CompletedHeld /\ AppliedInv /\ [Next]_vars => AppliedInv'
<1> SUFFICES ASSUME TypeInv, HandlerInv, CompletedHeld, AppliedInv, [Next]_vars, NEW e \in Events
             PROVE  AppliedAt(e)'
  BY DEF AppliedInv, AppliedAt
<1>1. AppliedAt(e)
  BY DEF AppliedInv, AppliedAt
<1> QED BY <1>1, OthersApplied, UntouchedKept, DeliverApplied, HandlerApplied
        DEF Next, Delivery, WebhookStep, WebhookFault

(* While no completed record expires, which is as long as Stripe retries,  *)
(* an event is written once and then once more for each handler of it that *)
(* failed between its write and its completion: no interleaving of late    *)
(* answers, retries and cancellations writes it again.                     *)
THEOREM AppliedOnce ==
    ASSUME MaxTime <= CompletedTtl
    PROVE  Spec => []AppliedOncePerReopening
<1>1. Init => CompletedHeld /\ AppliedInv
  BY Constants, IdleFacts DEF Init, CompletedHeld, AppliedInv, NoLease
<1>2. TypeInv /\ CompletedHeld /\ [Next]_vars => CompletedHeld'
  BY CompletedNext
<1>3. AppliedInv => AppliedOncePerReopening
  BY DEF AppliedInv, AppliedOncePerReopening
<1> QED BY <1>1, <1>2, <1>3, NextApplied, HandlersExclusive, TypesKept, PTL DEF Spec

-----------------------------------------------------------------------------
(* One operation at a time on an account.                                  *)

(* What the properties about one operation at a time are stated under.     *)
Serial == UserInFlight = 1 /\ IsFiniteSet(Workers)

LEMMA NobodyElse ==
    ASSUME Serial, NEW u, InFlight(u) < UserInFlight
    PROVE  \A w \in Workers : op[w].user # u
<1> DEFINE S == {w \in Workers : op[w].user = u}
<1>1. IsFiniteSet(S)
  BY FS_Subset DEF Serial
<1>2. Cardinality(S) \in Nat /\ Cardinality(S) < 1
  BY <1>1, FS_CardinalityType DEF InFlight, Serial
<1>3. S = {}
  BY <1>1, <1>2, FS_EmptySet
<1> QED BY <1>3

LEMMA UsersMove ==
    ASSUME TypeInv, NEW w \in Workers,
           WebhookStep(w) \/ WebhookFault(w) \/ AccountSave(w) \/ AccountDrop(w)
    PROVE  op'[w].user \in {op[w].user, NoUser} /\ \A v \in Workers : v # w => op'[v] = op[v]
<1>1. op[w] \in Op /\ op \in [Workers -> Op]
  BY OpFacts DEF TypeInv, TypeOK
<1>2. CASE WebhookLoad(w)
  BY <1>2, LoadMoves
<1>3. CASE WebhookSave(w) \/ WebhookSaveThrows(w) \/ WebhookThrows(w) \/ WebhookCompleteUnheard(w)
  <2>1. PICK pc \in {"complete", "release"} : op' = [op EXCEPT ![w] = [op[w] EXCEPT !.pc = pc]]
    BY <1>3 DEF WebhookSave, WebhookSaveThrows, WebhookThrows, WebhookCompleteUnheard, Begin
  <2> QED BY <1>1, <2>1 DEF Op
<1>4. CASE WebhookComplete(w) \/ WebhookRelease(w) \/ WebhookAbandon(w) \/ AccountSave(w) \/ AccountDrop(w)
  <2>1. op' = [op EXCEPT ![w] = Idle]
    BY <1>4 DEF WebhookComplete, WebhookRelease, WebhookAbandon, AccountSave, AccountDrop, End
  <2> QED BY <1>1, <2>1, IdleFacts
<1> QED BY <1>2, <1>3, <1>4 DEF WebhookStep, WebhookFault

LEMMA NextAlone ==
    ASSUME Serial, TypeInv, OneAtATime, [Next]_vars
    PROVE  OneAtATime'
<1>1. ASSUME NEW e \in Events, Delivery(e) \/ DeliverUnheard(e) \/ StripeTimesOut(e)
      PROVE  OneAtATime'
  <2>1. CASE op' = op
    BY <2>1 DEF OneAtATime
  <2>2. ASSUME NEW w \in Workers, op'[w] # op[w]
        PROVE  OneAtATime'
    <3>1. /\ op'[w].user = NoUser \/ \A v \in Workers : op[v].user # op'[w].user
          /\ \A v \in Workers : v # w => op'[v] = op[v]
      BY <1>1, <2>2, EventOps, NobodyElse
    <3> QED BY <3>1 DEF OneAtATime
  <2>3. op' = op \/ \E w \in Workers : op'[w] # op[w]
    BY <1>1, DeliverTypes, EventTypes DEF Delivery, TypeInv, TypeOK
  <2> QED BY <2>1, <2>2, <2>3
<1>2. ASSUME NEW w \in Workers, NEW u \in Users, Request(w, u)
      PROVE  OneAtATime'
  <2>1. PICK kind \in {"trial", "subscribe", "cancel"}, next \in Account : Began(w, u, kind, next)
    BY <1>2, RequestBegins
  <2>2. op'[w].user = u /\ \A v \in Workers : v # w => op'[v] = op[v]
    BY <2>1 DEF Began, Writer, Idle, TypeInv, TypeOK
  <2>3. \A v \in Workers : op[v].user # u
    BY <2>1, NobodyElse DEF Began
  <2> QED BY <2>2, <2>3 DEF OneAtATime
<1>3. ASSUME NEW w \in Workers, WebhookStep(w) \/ WebhookFault(w) \/ AccountSave(w) \/ AccountDrop(w)
      PROVE  OneAtATime'
  BY <1>3, UsersMove DEF OneAtATime
<1>4. CASE Tick \/ UNCHANGED vars
  BY <1>4 DEF Tick, vars, OneAtATime
<1> QED BY <1>1, <1>2, <1>3, <1>4 DEF Next

-----------------------------------------------------------------------------
(* What a user's account remembers.                                        *)

Forgotten(u) == u \in tried \cup switched

(* The account of a user and what its worker is about to write over it.    *)
Remembers(a, u) ==
    /\ u \in tried => a.trialStartedAt # 0
    /\ Forgotten(u) \/ a.lastStripeEventCreated >= newest[u]

RemembersAsWritten(o) ==
    /\ o.user \in tried \/ o.kind = "trial" => o.next.trialStartedAt # 0
    /\ o.kind \in {"webhook", "cancel"} /\ ~ Forgotten(o.user) =>
          o.next.lastStripeEventCreated >= newest[o.user]

MemoryInv ==
    /\ OneAtATime
    /\ \A u \in Users : Remembers(acct[u], u)
    /\ \A w \in Workers : op[w].pc = "save" => RemembersAsWritten(op[w])

(* What is written over an account remembers as much as it did.            *)
LEMMA WritesRemember ==
    ASSUME TypeInv, MemoryInv, NEW u \in Users, NEW kind, NEW next, MayWrite(u, kind, next)
    PROVE  RemembersAsWritten(Writer(u, kind, next))
<1>1. acct[u] \in Account /\ now \in Nat /\ now >= 1 /\ Remembers(acct[u], u)
  BY DEF TypeInv, TypeOK, MemoryInv
<1>2. Writer(u, kind, next).kind = kind /\ Writer(u, kind, next).user = u
      /\ Writer(u, kind, next).next = next
  BY DEF Writer, Idle
<1>3. CASE kind = "trial"
  <2>1. next.trialStartedAt = now
    BY <1>3 DEF MayWrite, TrialAccount
  <2> QED BY <1>1, <1>2, <1>3, <2>1 DEF RemembersAsWritten
<1>4. CASE kind = "subscribe"
  <2>1. next.trialStartedAt = acct[u].trialStartedAt
    BY <1>1, <1>4 DEF MayWrite, SubscribeAccount, Account
  <2> QED BY <1>1, <1>2, <1>4, <2>1 DEF RemembersAsWritten, Remembers
<1>5. CASE kind = "cancel"
  <2>1. /\ next.trialStartedAt = acct[u].trialStartedAt
        /\ next.lastStripeEventCreated = acct[u].lastStripeEventCreated
    BY <1>1, <1>5 DEF MayWrite, CancelAccount, Account
  <2> QED BY <1>1, <1>2, <1>5, <2>1 DEF RemembersAsWritten, Remembers
<1> QED BY <1>3, <1>4, <1>5 DEF MayWrite

LEMMA LoadRemembers ==
    ASSUME TypeInv, MemoryInv, NEW w \in Workers, WebhookLoad(w), op'[w].pc = "save"
    PROVE  RemembersAsWritten(op[w])'
<1> DEFINE u == op[w].user p == Payload[op[w].event]
<1>1. /\ u \in Users /\ ~ Outdated(acct[u], p) /\ op'[w].kind = "webhook" /\ op'[w].user = u
      /\ op'[w].next = WebhookAccount(acct[u], p) /\ op[w].event \in Events
  BY LoadMoves, OpFacts DEF WebhookLoad, WebhookOp
<1>2. acct[u] \in Account /\ Remembers(acct[u], u) /\ newest[u] \in Nat /\ p.created \in Nat
  BY <1>1, Constants DEF TypeInv, TypeOK, MemoryInv
<1>3. /\ op'[w].next.trialStartedAt = acct[u].trialStartedAt
      /\ op'[w].next.lastStripeEventCreated = p.created
  BY <1>1, <1>2, WebhookAccountFacts
<1>4. p.created >= acct[u].lastStripeEventCreated /\ acct[u].lastStripeEventCreated \in Nat
  BY <1>1, <1>2 DEF Outdated, Account
<1>5. UNCHANGED <<tried, switched, newest>>
  BY DEF WebhookLoad
<1> HIDE DEF u, p
<1> QED BY <1>1, <1>2, <1>3, <1>4, <1>5 DEF RemembersAsWritten, Remembers, Forgotten

(* A step that writes no account.                                          *)
LEMMA QuietRemembers ==
    ASSUME MemoryInv, OneAtATime', UNCHANGED <<acct, tried, switched, newest>>,
           \A w \in Workers : op'[w].pc = "save" => op'[w] = op[w] \/ RemembersAsWritten(op[w])'
    PROVE  MemoryInv'
BY DEF MemoryInv, Remembers, RemembersAsWritten, Forgotten

LEMMA PutRemembers ==
    ASSUME TypeInv, MemoryInv, OneAtATime', NEW w \in Workers, WebhookSave(w) \/ WebhookSaveThrows(w)
    PROVE  MemoryInv'
<1>0. PICK u, p : u = op[w].user /\ p = Payload[op[w].event]
  OBVIOUS
<1>1. WebhookPut(w)
  BY DEF WebhookSave, WebhookSaveThrows
<1>2. /\ u \in Users /\ acct' = [acct EXCEPT ![u] = op[w].next] /\ UNCHANGED <<tried, switched>>
      /\ newest' = [newest EXCEPT ![u] = NewestOf(@, p.created)]
      /\ op[w].pc = "save" /\ op[w].kind = "webhook"
      /\ op[w].next.lastStripeEventCreated = p.created /\ p.created \in Nat
  BY <1>0, <1>1, PutFacts, Constants DEF WebhookOp
<1>3. RemembersAsWritten(op[w]) /\ newest[u] \in Nat
  BY <1>2 DEF MemoryInv, TypeInv, TypeOK
<1>4. \A v \in Workers : v # w => op'[v] = op[v] /\ op[v].user # u
  BY <1>0, <1>2, UsersMove, Constants DEF WebhookStep, WebhookFault, MemoryInv, OneAtATime
<1>5. op'[w].pc # "save"
  BY OpFacts DEF WebhookSave, WebhookSaveThrows, Begin, TypeInv, TypeOK, Op
<1>6. Remembers(acct[u], u)'
  <2>1. acct'[u] = op[w].next /\ newest'[u] = NewestOf(newest[u], p.created)
    BY <1>2 DEF TypeInv, TypeOK
  <2> QED BY <1>0, <1>2, <1>3, <2>1 DEF Remembers, RemembersAsWritten, Forgotten, NewestOf
<1>7. \A x \in Users : x # u => Remembers(acct[x], x)'
  BY <1>2 DEF MemoryInv, Remembers, Forgotten, TypeInv, TypeOK
<1>8. ASSUME NEW v \in Workers, op'[v].pc = "save"
      PROVE  RemembersAsWritten(op[v])'
  <2>1. v # w /\ op'[v] = op[v] /\ op[v].user # u /\ RemembersAsWritten(op[v])
    BY <1>4, <1>5, <1>8 DEF MemoryInv
  <2>2. newest'[op[v].user] = newest[op[v].user]
    BY <1>2, <2>1 DEF TypeInv, TypeOK
  <2> QED BY <1>2, <2>1, <2>2 DEF RemembersAsWritten, Forgotten
<1> QED BY <1>6, <1>7, <1>8 DEF MemoryInv

LEMMA SaveRemembers ==
    ASSUME TypeInv, MemoryInv, OneAtATime', NEW w \in Workers, AccountSave(w)
    PROVE  MemoryInv'
<1>0. PICK u : u = op[w].user
  OBVIOUS
<1>1. /\ u \in Users /\ acct' = [acct EXCEPT ![u] = op[w].next] /\ newest' = newest
      /\ op[w].pc = "save" /\ op[w].kind \in {"trial", "subscribe", "cancel"}
      /\ tried \subseteq tried' /\ switched \subseteq switched'
      /\ tried' \subseteq tried \cup {u} /\ switched' \subseteq switched \cup {u}
      /\ u \in tried' => u \in tried \/ op[w].kind = "trial"
      /\ op[w].kind = "trial" => u \in tried'
      /\ op[w].kind = "subscribe" => u \in switched'
  BY <1>0, AccountSaveFacts DEF AccountSave, AccountOp
<1>2. RemembersAsWritten(op[w]) /\ newest[u] \in Nat
  BY <1>1 DEF MemoryInv, TypeInv, TypeOK
<1>3. \A v \in Workers : v # w => op'[v] = op[v] /\ op[v].user # u
  BY <1>0, <1>1, UsersMove, Constants DEF MemoryInv, OneAtATime
<1>4. op'[w].pc # "save"
  BY AccountSaveFacts, IdleFacts DEF TypeInv, TypeOK
<1>5. Remembers(acct[u], u)'
  <2>1. acct'[u] = op[w].next
    BY <1>1 DEF TypeInv, TypeOK
  <2> QED BY <1>0, <1>1, <1>2, <2>1 DEF Remembers, RemembersAsWritten, Forgotten
<1>6. \A x \in Users : x # u => Remembers(acct[x], x)'
  BY <1>1 DEF MemoryInv, Remembers, Forgotten, TypeInv, TypeOK
<1>7. ASSUME NEW v \in Workers, op'[v].pc = "save"
      PROVE  RemembersAsWritten(op[v])'
  <2>1. v # w /\ op'[v] = op[v] /\ op[v].user # u /\ RemembersAsWritten(op[v])
    BY <1>3, <1>4, <1>7 DEF MemoryInv
  <2> QED BY <1>1, <2>1 DEF RemembersAsWritten, Forgotten
<1> QED BY <1>5, <1>6, <1>7 DEF MemoryInv

LEMMA NextRemembers ==
    ASSUME Serial, TypeInv, MemoryInv, [Next]_vars
    PROVE  MemoryInv'
<1>1. OneAtATime'
  BY NextAlone DEF MemoryInv
<1>2. ASSUME NEW e \in Events, Delivery(e) \/ DeliverUnheard(e) \/ StripeTimesOut(e)
      PROVE  MemoryInv'
  <2>1. UNCHANGED <<acct, tried, switched, newest>>
    BY <1>2, EventOps DEF history
  <2>2. \A w \in Workers : op'[w] = op[w] \/ op'[w].pc # "save"
    BY <1>2, EventOps
  <2> QED BY <1>1, <2>1, <2>2, QuietRemembers
<1>3. ASSUME NEW w \in Workers, NEW u \in Users, Request(w, u)
      PROVE  MemoryInv'
  <2>1. PICK kind \in {"trial", "subscribe", "cancel"}, next \in Account : Began(w, u, kind, next)
    BY <1>3, RequestBegins
  <2>2. UNCHANGED <<acct, tried, switched, newest>>
    BY <2>1 DEF Began, history
  <2>3. op'[w] = Writer(u, kind, next) /\ \A v \in Workers : v # w => op'[v] = op[v]
    BY <2>1 DEF Began, TypeInv, TypeOK
  <2>4. RemembersAsWritten(Writer(u, kind, next))
    BY <2>1, WritesRemember DEF Began
  <2>5. RemembersAsWritten(op[w])'
    BY <2>2, <2>3, <2>4 DEF RemembersAsWritten, Forgotten
  <2> QED BY <1>1, <2>2, <2>3, <2>5, QuietRemembers
<1>4. ASSUME NEW w \in Workers, WebhookLoad(w)
      PROVE  MemoryInv'
  <2>1. UNCHANGED <<acct, tried, switched, newest>>
    BY <1>4 DEF WebhookLoad
  <2> QED BY <1>1, <1>4, <2>1, LoadRemembers, LoadMoves, QuietRemembers
<1>5. ASSUME NEW w \in Workers,
             \/ WebhookThrows(w) \/ WebhookCompleteUnheard(w) \/ WebhookComplete(w) \/ WebhookRelease(w)
             \/ WebhookAbandon(w) \/ AccountDrop(w)
      PROVE  MemoryInv'
  <2>1. UNCHANGED <<acct, tried, switched, newest>>
    BY <1>5 DEF WebhookThrows, WebhookCompleteUnheard, WebhookComplete, WebhookRelease, WebhookAbandon,
                AccountDrop, history
  <2>2. op'[w].pc # "save"
    BY <1>5, OpFacts, IdleFacts
       DEF WebhookThrows, WebhookCompleteUnheard, WebhookComplete, WebhookRelease, WebhookAbandon,
           AccountDrop, Begin, End, TypeInv, TypeOK, Op
  <2>3. \A v \in Workers : v # w => op'[v] = op[v]
    BY <1>5, UsersMove DEF WebhookStep, WebhookFault
  <2> QED BY <1>1, <2>1, <2>2, <2>3, QuietRemembers
<1>6. CASE Tick \/ UNCHANGED vars
  <2>1. UNCHANGED <<acct, tried, switched, newest, op>>
    BY <1>6 DEF Tick, vars, history
  <2> QED BY <1>1, <2>1, QuietRemembers
<1> QED BY <1>1, <1>2, <1>3, <1>4, <1>5, <1>6, PutRemembers, SaveRemembers
        DEF Next, WebhookStep, WebhookFault

LEMMA MemoryKept ==
    ASSUME Serial
    PROVE  Spec => []MemoryInv
<1>1. Init => MemoryInv
  BY IdleFacts DEF Init, MemoryInv, OneAtATime, Remembers, NoAccount
<1>2. TypeInv /\ MemoryInv /\ [Next]_vars => MemoryInv'
  BY NextRemembers
<1> QED BY <1>1, <1>2, TypesKept, PTL DEF Spec

(* With one operation at a time on an account nobody whose trial account   *)
(* was written is let into a second trial: every other write carries the   *)
(* start of the trial over.                                                *)
THEOREM OneTrialEach ==
    ASSUME Serial
    PROVE  Spec => TrialNotRegranted
<1>1. ASSUME TypeInv, MemoryInv, [Next]_vars, NEW w \in Workers,
             op[w].kind # "trial", op'[w].kind = "trial"
      PROVE  op'[w].user \notin tried
  <2>1. PICK v \in Workers, u \in Users : Request(v, u)
    BY <1>1, WebhookOps, EventOps DEF Next, Tick, vars
  <2>2. PICK kind \in {"trial", "subscribe", "cancel"}, next \in Account : Began(v, u, kind, next)
    BY <1>1, <2>1, RequestBegins
  <2>3. v = w /\ op'[w] = Writer(u, kind, next)
    BY <1>1, <2>2 DEF Began, TypeInv, TypeOK
  <2>4. kind = "trial" /\ op'[w].user = u
    BY <1>1, <2>3 DEF Writer, Idle
  <2>5. acct[u].trialStartedAt = 0
    BY <2>2, <2>4 DEF Began, MayWrite, TrialAllowed
  <2> QED BY <1>1, <2>2, <2>4, <2>5 DEF Began, MemoryInv, Remembers
<1>2. TypeInv /\ MemoryInv /\ [Next]_vars =>
      [\A w \in Workers : op[w].kind # "trial" /\ op'[w].kind = "trial" => op'[w].user \notin tried]_vars
  BY <1>1
<1> QED BY <1>2, MemoryKept, TypesKept, PTL DEF Spec, TrialNotRegranted

(* With one operation at a time on an account an event older than one      *)
(* already applied gets in only where a trial or the admin switch made the *)
(* account forget what was applied.                                        *)
THEOREM OlderOnlyAfterForgetting ==
    ASSUME Serial
    PROVE  Spec => OlderOnlyIfForgotten
<1>1. ASSUME TypeInv, MemoryInv, [Next]_vars, NEW e \in Events, applied'[e] > applied[e]
      PROVE  \/ Payload[e].created >= newest[Payload[e].user]
             \/ Payload[e].user \in tried \cup switched
  <2>1. applied[e] \in Nat
    BY <1>1 DEF TypeInv, TypeOK
  <2>2. PICK w \in Workers : WebhookPut(w)
    <3>1. applied' # applied
      BY <1>1, <2>1
    <3> QED BY <1>1, <3>1
            DEF Next, Delivery, WebhookStep, WebhookFault, Request, Deliver, DeliverDuplicate,
                DeliverUnheard, StripeTimesOut, WebhookLoad, WebhookSave, WebhookComplete,
                WebhookRelease, WebhookSaveThrows, WebhookThrows, WebhookCompleteUnheard,
                WebhookAbandon, TrialLoad, SubscribeLoad, CancelLoad, AccountSave, AccountDrop, Tick,
                vars, history
  <2>3. /\ op[w].event = e /\ op[w].user = Payload[e].user /\ op[w].pc = "save"
        /\ op[w].kind = "webhook" /\ op[w].next.lastStripeEventCreated = Payload[e].created
    BY <1>1, <2>1, <2>2, PutFacts DEF WebhookOp, TypeInv, TypeOK
  <2> QED BY <1>1, <2>3 DEF MemoryInv, RemembersAsWritten, Forgotten
<1>2. TypeInv /\ MemoryInv /\ [Next]_vars =>
      [\A e \in Events : applied'[e] > applied[e] =>
          \/ Payload[e].created >= newest[Payload[e].user]
          \/ Payload[e].user \in tried \cup switched]_vars
  BY <1>1
<1> QED BY <1>2, MemoryKept, TypesKept, PTL DEF Spec, OlderOnlyIfForgotten

=============================================================================
