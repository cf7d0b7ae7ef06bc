----------------------------- MODULE CrmSummary -----------------------------
(***************************************************************************)
(* The owner's summary of all accounts and of their activity: kept in KV,  *)
(* built anew by a request that finds none and by every run of the         *)
(* schedule, and deleted by whoever writes an account or an activity log.  *)
(* Accounts and logs are known by the number of the request that wrote     *)
(* them; the requests' times (atMs) grow with the numbers.                 *)
(***************************************************************************)
EXTENDS Integers, FiniteSets

CONSTANTS
    Users, Writers, Builders,
    LogLimit,                   \* BILLING_ACTIVITY_HISTORY_LIMIT
    MaxWrites, MaxFaults,       \* bounds
    None

VARIABLES
    writes, faults,
    account,    \* KV: what each user's account was written by, 0 if there is none
    log,        \* KV: the activity of each user
    summary,    \* KV: the summary, or None
    writer, builder,
    lost,       \* history: a call failed between a write and its deletion of the summary
    logged,     \* history: what was appended to each log
    overlapped  \* history: users for whom an append began while another was to be written

vars == <<writes, faults, account, log, summary, writer, builder, lost, logged, overlapped>>

Idle == [at |-> "idle"]

-----------------------------------------------------------------------------
(* The billing handlers.                                                   *)

Working(first, u) == [at |-> first, user |-> u, n |-> writes + 1, base |-> {}]

Starts(w, u, first) ==
    /\ writer[w] = Idle /\ writes < MaxWrites
    /\ writes' = writes + 1
    /\ writer' = [writer EXCEPT ![w] = Working(first, u)]
    /\ UNCHANGED <<faults, account, log, summary, builder, lost, logged, overlapped>>

(* One that writes the account and appends to the log.                     *)
Changes(w, u) == Starts(w, u, "saving")

(* One that only appends to the log: a checkout or the portal.             *)
Opens(w, u) == Starts(w, u, "loading")

(* saveBillingAccount                                                      *)
Saves(w) ==
    /\ writer[w].at = "saving"
    /\ account' = [account EXCEPT ![writer[w].user] = writer[w].n]
    /\ writer' = [writer EXCEPT ![w].at = "refreshing"]
    /\ UNCHANGED <<writes, faults, log, summary, builder, lost, logged, overlapped>>

(* Mutant of Deleted: the summary stays until it expires.                  *)
Outlived == UNCHANGED <<summary, builder>>

(* deleteCachedCrmSummary, after the account and after the log.  A summary *)
(* that is being built does not know of it.                                *)
Deleted ==
    /\ summary' = None
    /\ builder' = [b \in Builders |-> IF builder[b] = Idle THEN Idle ELSE [builder[b] EXCEPT !.crossed = TRUE]]

Refreshes(w) ==
    /\ writer[w].at = "refreshing"
    /\ Deleted
    /\ writer' = [writer EXCEPT ![w].at = "loading"]
    /\ UNCHANGED <<writes, faults, account, log, lost, logged, overlapped>>

(* appendBillingActivityEvent                                              *)
Loads(w) ==
    LET u == writer[w].user IN
    /\ writer[w].at = "loading"
    /\ writer' = [writer EXCEPT ![w].at = "logging", ![w].base = log[u]]
    /\ overlapped' = IF \E v \in Writers : writer[v].at = "logging" /\ writer[v].user = u
                     THEN overlapped \cup {u} ELSE overlapped
    /\ UNCHANGED <<writes, faults, account, log, summary, builder, lost, logged>>

(* Mutant of Newest: the oldest stay.                                      *)
Oldest(S) == {n \in S : Cardinality({k \in S : k < n}) < LogLimit}

Newest(S) == {n \in S : Cardinality({k \in S : k > n}) < LogLimit}

Logged(w) ==
    LET q == writer[w] IN
    /\ log' = [log EXCEPT ![q.user] = Newest(q.base \cup {q.n})]
    /\ logged' = [logged EXCEPT ![q.user] = @ \cup {q.n}]

Logs(w) ==
    /\ writer[w].at = "logging"
    /\ Logged(w)
    /\ writer' = [writer EXCEPT ![w].at = "clearing"]
    /\ UNCHANGED <<writes, faults, account, summary, builder, lost, overlapped>>

Clears(w) ==
    /\ writer[w].at = "clearing"
    /\ Deleted
    /\ writer' = [writer EXCEPT ![w] = Idle]
    /\ UNCHANGED <<writes, faults, account, log, lost, logged, overlapped>>

Fault == faults < MaxFaults /\ faults' = faults + 1

(* A call of KV fails, and a put has taken effect or not: the handler      *)
(* throws or, past the account, goes on without the log.                   *)
WriterFails(w) ==
    LET q == writer[w] IN
    /\ q # Idle /\ Fault
    /\ \/ UNCHANGED <<account, log, logged>> /\ lost' = (lost \/ q.at \in {"refreshing", "clearing"})
       \/ /\ q.at = "saving"
          /\ account' = [account EXCEPT ![q.user] = q.n]
          /\ lost' = TRUE /\ UNCHANGED <<log, logged>>
       \/ /\ q.at = "logging"
          /\ Logged(w)
          /\ lost' = TRUE /\ UNCHANGED account
    /\ writer' = [writer EXCEPT ![w] = Idle]
    /\ UNCHANGED <<writes, summary, builder, overlapped>>

-----------------------------------------------------------------------------
(* resolveCrmSummarySnapshot, and the schedule, which does not look for a  *)
(* summary first.  All the accounts are read, and then all the logs.       *)

Builds(b) ==
    /\ builder[b] = Idle
    /\ builder' = [builder EXCEPT ![b] =
          [at |-> "accounts", left |-> Users, crossed |-> FALSE,
           account |-> [u \in Users |-> 0], log |-> [u \in Users |-> {}]]]
    /\ UNCHANGED <<writes, faults, account, log, summary, writer, lost, logged, overlapped>>

ReadsAccount(b, u) ==
    LET q == builder[b] IN
    /\ q.at = "accounts" /\ u \in q.left
    /\ builder' = [builder EXCEPT ![b] =
          [q EXCEPT !.account[u] = account[u],
                    !.left = IF q.left = {u} THEN Users ELSE q.left \ {u},
                    !.at = IF q.left = {u} THEN "logs" ELSE "accounts"]]
    /\ UNCHANGED <<writes, faults, account, log, summary, writer, lost, logged, overlapped>>

ReadsLog(b, u) ==
    LET q == builder[b] IN
    /\ q.at = "logs" /\ u \in q.left
    /\ builder' = [builder EXCEPT ![b] =
          [q EXCEPT !.log[u] = log[u], !.left = q.left \ {u},
                    !.at = IF q.left = {u} THEN "saving" ELSE "logs"]]
    /\ UNCHANGED <<writes, faults, account, log, summary, writer, lost, logged, overlapped>>

(* saveCachedCrmSummary                                                    *)
Keeps(b) ==
    LET q == builder[b] IN
    /\ q.at = "saving"
    /\ summary' = [account |-> q.account, log |-> q.log, crossed |-> q.crossed]
    /\ builder' = [builder EXCEPT ![b] = Idle]
    /\ UNCHANGED <<writes, faults, account, log, writer, lost, logged, overlapped>>

BuilderFails(b) ==
    /\ builder[b] # Idle /\ Fault
    /\ builder' = [builder EXCEPT ![b] = Idle]
    /\ UNCHANGED <<writes, account, log, summary, writer, lost, logged, overlapped>>

(* expirationTtl                                                           *)
Expires ==
    /\ summary # None
    /\ summary' = None
    /\ UNCHANGED <<writes, faults, account, log, writer, builder, lost, logged, overlapped>>

Init ==
    /\ writes = 0 /\ faults = 0
    /\ account = [u \in Users |-> 0]
    /\ log = [u \in Users |-> {}]
    /\ summary = None
    /\ writer = [w \in Writers |-> Idle]
    /\ builder = [b \in Builders |-> Idle]
    /\ lost = FALSE
    /\ logged = [u \in Users |-> {}]
    /\ overlapped = {}

Next ==
    \/ \E w \in Writers :
          \/ Saves(w) \/ Refreshes(w) \/ Loads(w) \/ Logs(w) \/ Clears(w) \/ WriterFails(w)
          \/ \E u \in Users : Changes(w, u) \/ Opens(w, u)
    \/ \E b \in Builders :
          \/ Builds(b) \/ Keeps(b) \/ BuilderFails(b)
          \/ \E u \in Users : ReadsAccount(b, u) \/ ReadsLog(b, u)
    \/ Expires

Spec == Init /\ [][Next]_vars

-----------------------------------------------------------------------------
TypeOK ==
    /\ account \in [Users -> 0..MaxWrites]
    /\ \A u \in Users : log[u] \subseteq 1..MaxWrites /\ Cardinality(log[u]) <= LogLimit
    /\ writes \in 0..MaxWrites /\ faults \in 0..MaxFaults

Pending(u, stage) == \E w \in Writers : writer[w].at = stage /\ writer[w].user = u

(* The summary in KV is of the accounts and logs there are, up to a        *)
(* deletion that is on its way or was lost; unless it was built while      *)
(* another request deleted it.                                             *)
SummaryCurrent ==
    summary # None /\ ~ summary.crossed /\ ~ lost =>
        \A u \in Users :
            /\ summary.account[u] = account[u] \/ Pending(u, "refreshing")
            /\ summary.log[u] = log[u] \/ Pending(u, "clearing")

(* What was appended to a log is in it, or as many newer events are, where *)
(* no two appends to it overlapped.                                        *)
LogKept ==
    \A u \in Users \ overlapped : \A n \in logged[u] :
        n \in log[u] \/ Cardinality({k \in log[u] : k > n}) = LogLimit
=============================================================================
