--------------------------- MODULE CollectorLink ----------------------------
(***************************************************************************)
(* The collector container's connection to Telegram: connectClient, the    *)
(* reconnect timer, the refresh of the channels' availability and the      *)
(* joining of missing channels, each behind a timer of its own, and the    *)
(* process-wide handlers of errors nobody caught.                          *)
(*                                                                         *)
(* A task is a call that waits for Telegram; the thread is free while it   *)
(* waits, so tasks overlap.  A task keeps the steps still ahead of it.     *)
(***************************************************************************)
EXTENDS Integers, Sequences, SequencesExt

CONSTANTS
    Channels,     \* the configured channels
    Tasks,        \* bound: calls that can wait for Telegram at a time
    MaxDialFails, \* bound: connection attempts that fail
    MaxErrors     \* bound: failures, flood waits, uncaught errors, operator requests

LinkAssumption == MaxDialFails \in Nat /\ MaxErrors \in Nat

VARIABLES
    connected, connecting,
    clients,      \* connected clients whose event handler is still attached
    timers,       \* which of the timers are set
    joined,       \* Telegram: the channels the account is in
    missing,      \* state.missingChannels
    blocked,      \* state.joinBlockedUntil lies ahead
    task,         \* what each task still has to do; empty when it is idle
    dialFails, errors

vars == <<connected, connecting, clients, timers, joined, missing, blocked,
          task, dialFails, errors>>

Timer == {"connect", "reconnect", "join", "availability"}

Step == {"dial", "refresh", "join", "joinMore", "joinAll", "endJoin", "endConnect"}

Init ==
    /\ connected = FALSE
    /\ connecting = FALSE
    /\ clients = 0
    /\ timers = {"connect"}
    /\ joined = {}
    /\ missing = {}
    /\ blocked = FALSE
    /\ task = [t \in Tasks |-> <<>>]
    /\ dialFails = 0
    /\ errors = 0

-----------------------------------------------------------------------------
(* The schedulers, as the sets of timers they leave behind.                *)

WithReconnect(set, isConnected, isConnecting) ==
    IF isConnected \/ isConnecting THEN set ELSE set \cup {"reconnect"}

WithJoin(set, isMissing) ==
    IF connected /\ isMissing # {} THEN set \cup {"join"} ELSE set

WithAvailability(set) ==
    IF connected THEN set \cup {"availability"} ELSE set

Idle(t) == task[t] = <<>>

Running(step) == \E t \in Tasks : step \in {task[t][i] : i \in 1..Len(task[t])}

Start(t, steps) == Idle(t) /\ task' = [task EXCEPT ![t] = steps]

At(t, step) == task[t] # <<>> /\ Head(task[t]) = step

Proceed(t) == task' = [task EXCEPT ![t] = Tail(@)]

Mishap == errors < MaxErrors /\ errors' = errors + 1

-----------------------------------------------------------------------------
(* connectClient                                                           *)

Connect(t) ==
    \E name \in {"connect", "reconnect"} \cap timers :
        /\ timers' = timers \ {name}
        /\ IF connected \/ connecting
           THEN UNCHANGED <<connecting, task>>
           ELSE /\ connecting' = TRUE
                /\ Start(t, <<"dial">>)
        /\ UNCHANGED <<connected, clients, joined, missing, blocked, dialFails, errors>>

DialSucceeds(t) ==
    /\ At(t, "dial")
    /\ clients' = clients + 1
    /\ connected' = TRUE
    /\ task' = [task EXCEPT ![t] = <<"refresh", "join", "endConnect">>]
    /\ UNCHANGED <<connecting, timers, joined, missing, blocked, dialFails, errors>>

(* The catch block asks for a reconnect before the finally block clears    *)
(* connecting, so the request finds an attempt in progress.                *)
DialFails(t) ==
    /\ At(t, "dial")
    /\ dialFails < MaxDialFails
    /\ dialFails' = dialFails + 1
    /\ connected' = FALSE
    /\ timers' = WithReconnect(timers, FALSE, connecting)
    /\ connecting' = FALSE
    /\ Proceed(t)
    /\ UNCHANGED <<clients, joined, missing, blocked, errors>>

EndConnect(t) ==
    /\ At(t, "endConnect")
    /\ connecting' = FALSE
    /\ timers' = WithAvailability(WithJoin(timers, missing))
    /\ Proceed(t)
    /\ UNCHANGED <<connected, clients, joined, missing, blocked, dialFails, errors>>

-----------------------------------------------------------------------------
(* refreshChannelAvailability                                              *)

AvailabilityFires(t) ==
    /\ "availability" \in timers
    /\ timers' = timers \ {"availability"}
    /\ Start(t, IF clients = 0 THEN <<>> ELSE <<"refresh">>)
    /\ UNCHANGED <<connected, connecting, clients, joined, missing, blocked,
                   dialFails, errors>>

RefreshSucceeds(t) ==
    /\ At(t, "refresh")
    /\ missing' = Channels \ joined
    /\ timers' = WithAvailability(WithJoin(timers, Channels \ joined))
    /\ Proceed(t)
    /\ UNCHANGED <<connected, connecting, clients, joined, blocked, dialFails, errors>>

(* Mutant of RefreshFails: only a refresh that works schedules the next.   *)
RefreshFailsQuietly(t) ==
    /\ At(t, "refresh")
    /\ Mishap
    /\ Proceed(t)
    /\ UNCHANGED <<connected, connecting, clients, timers, joined, missing, blocked,
                   dialFails>>

RefreshFails(t) ==
    /\ At(t, "refresh")
    /\ Mishap
    /\ timers' = WithAvailability(timers)
    /\ Proceed(t)
    /\ UNCHANGED <<connected, connecting, clients, joined, missing, blocked, dialFails>>

-----------------------------------------------------------------------------
(* joinMissingChannels                                                     *)

JoinFires(t) ==
    /\ "join" \in timers
    /\ timers' = timers \ {"join"}
    /\ Start(t, <<"join">>)
    /\ UNCHANGED <<connected, connecting, clients, joined, missing, blocked,
                   dialFails, errors>>

(* Mutant of JoinSkips: a call that finds the wait not over just returns.  *)
JoinSkipsQuietly(t) ==
    /\ At(t, "join")
    /\ missing = {} \/ blocked
    /\ Proceed(t)
    /\ UNCHANGED <<connected, connecting, clients, timers, joined, missing, blocked,
                   dialFails, errors>>

(* Nothing is missing, or Telegram's wait is not over; else the wait is    *)
(* forgotten and the channels are tried.                                   *)
JoinSkips(t) ==
    /\ At(t, "join")
    /\ missing = {} \/ blocked
    /\ timers' = IF missing = {} THEN timers ELSE WithJoin(timers, missing)
    /\ Proceed(t)
    /\ UNCHANGED <<connected, connecting, clients, joined, missing, blocked,
                   dialFails, errors>>

JoinStarts(t) ==
    /\ At(t, "join")
    /\ missing # {} /\ ~ blocked
    /\ task' = [task EXCEPT ![t] = <<"joinMore">> \o Tail(@)]
    /\ UNCHANGED <<connected, connecting, clients, timers, joined, missing, blocked,
                   dialFails, errors>>

(* The loop over the channels: all are joined, or some are refused.        *)
JoinLoop(t) ==
    /\ At(t, "joinMore")
    /\ \/ joined' = joined \cup missing /\ UNCHANGED errors
       \/ Mishap /\ \E some \in SUBSET missing : joined' = joined \cup some
    /\ task' = [task EXCEPT ![t] = <<"refresh", "endJoin">> \o Tail(@)]
    /\ UNCHANGED <<connected, connecting, clients, timers, missing, blocked, dialFails>>

(* Telegram asks to wait: the rest of the channels is not tried.           *)
JoinFloods(t) ==
    /\ At(t, "joinMore")
    /\ Mishap
    /\ \E some \in SUBSET missing : some # missing /\ joined' = joined \cup some
    /\ blocked' = TRUE
    /\ task' = [task EXCEPT ![t] = <<"refresh", "endJoin">> \o Tail(@)]
    /\ UNCHANGED <<connected, connecting, clients, timers, missing, dialFails>>

EndJoin(t) ==
    /\ At(t, "endJoin")
    /\ timers' = WithJoin(timers, missing)
    /\ Proceed(t)
    /\ UNCHANGED <<connected, connecting, clients, joined, missing, blocked,
                   dialFails, errors>>

(* The operator's request to join every channel minds no wait and sets no  *)
(* join timer of its own.                                                  *)
JoinRequest(t) ==
    /\ clients # 0
    /\ Mishap
    /\ Start(t, <<"joinAll", "refresh">>)
    /\ UNCHANGED <<connected, connecting, clients, timers, joined, missing, blocked,
                   dialFails>>

(* Some channels may be refused, and Telegram may ask to wait.             *)
JoinAll(t) ==
    /\ At(t, "joinAll")
    /\ \E some \in SUBSET Channels : joined' = joined \cup some
    /\ blocked' \in {blocked, TRUE}
    /\ Proceed(t)
    /\ UNCHANGED <<connected, connecting, clients, timers, missing, dialFails, errors>>

WaitOver ==
    /\ blocked
    /\ blocked' = FALSE
    /\ UNCHANGED <<connected, connecting, clients, timers, joined, missing, task,
                   dialFails, errors>>

-----------------------------------------------------------------------------
(* unhandledRejection and uncaughtException: the flags and two timers are  *)
(* cleared and a reconnect is scheduled; clients and tasks go on.          *)

(* Mutants of Uncaught: a client is dropped without asking whether there   *)
(* is one; connecting stays as it is.                                      *)
UncaughtDropsClient ==
    /\ Mishap
    /\ clients' = clients - 1
    /\ connected' = FALSE
    /\ connecting' = FALSE
    /\ timers' = WithReconnect(timers \ {"join", "availability"}, FALSE, FALSE)
    /\ UNCHANGED <<joined, missing, blocked, task, dialFails>>

UncaughtKeepsConnecting ==
    /\ Mishap
    /\ connected' = FALSE
    /\ timers' = WithReconnect(timers \ {"join", "availability"}, FALSE, connecting)
    /\ UNCHANGED <<connecting, clients, joined, missing, blocked, task, dialFails>>

Uncaught ==
    /\ Mishap
    /\ connected' = FALSE
    /\ connecting' = FALSE
    /\ timers' = WithReconnect(timers \ {"join", "availability"}, FALSE, FALSE)
    /\ UNCHANGED <<clients, joined, missing, blocked, task, dialFails>>

TaskStep(t) ==
    \/ DialSucceeds(t) \/ EndConnect(t)
    \/ RefreshSucceeds(t)
    \/ JoinSkips(t) \/ JoinStarts(t) \/ JoinLoop(t) \/ JoinAll(t) \/ EndJoin(t)

TaskFault(t) == DialFails(t) \/ RefreshFails(t) \/ JoinFloods(t)

TimerStep(t) == Connect(t) \/ AvailabilityFires(t) \/ JoinFires(t) \/ JoinRequest(t)

Next ==
    \/ \E t \in Tasks : TaskStep(t) \/ TaskFault(t) \/ TimerStep(t)
    \/ WaitOver
    \/ Uncaught

Spec == Init /\ [][Next]_vars

(* Timers fire, Telegram answers, a wait ends.  A timer's fairness is      *)
(* strong because the bound on Tasks can hold it up, the code never does.  *)
Fairness ==
    /\ SF_vars(\E t \in Tasks : Connect(t))
    /\ SF_vars(\E t \in Tasks : AvailabilityFires(t))
    /\ SF_vars(\E t \in Tasks : JoinFires(t))
    /\ \A t \in Tasks : WF_vars(TaskStep(t) \/ TaskFault(t))
    /\ WF_vars(WaitOver)

FairSpec == Spec /\ Fairness

-----------------------------------------------------------------------------
(* Properties.                                                             *)

(* Every variable has the shape the code gives it.                         *)
TypeOK ==
    /\ connected \in BOOLEAN /\ connecting \in BOOLEAN
    /\ clients \in Nat
    /\ timers \subseteq Timer
    /\ joined \subseteq Channels /\ missing \subseteq Channels
    /\ blocked \in BOOLEAN
    /\ task \in [Tasks -> Seq(Step)]
    /\ dialFails \in 0..MaxDialFails /\ errors \in 0..MaxErrors

(* The collector is never left with neither a connection, an attempt, nor  *)
(* a timer that starts one.                                                *)
ReconnectPending ==
    connected \/ Running("dial") \/ timers \cap {"connect", "reconnect"} # {}

(* Errors other than a failed dial never bring it there.                   *)
ReconnectPendingIfDialled == dialFails = 0 => ReconnectPending

(* While connected there is always a next step: the availability of the    *)
(* channels will be looked at again, also after an error, and a channel    *)
(* known to be missing will be tried again.                                *)
RefreshPending ==
    connected => "availability" \in timers \/ Running("refresh") \/ Running("endConnect")

JoinPending ==
    connected /\ missing # {} =>
        "join" \in timers \/ \E step \in {"refresh", "join", "joinMore", "endJoin",
                                          "endConnect"} : Running(step)

WorkPending == RefreshPending /\ JoinPending

(* Whatever other errors occur, the collector ends up connected and in     *)
(* every channel.                                                          *)
EventuallyInAllChannels ==
    <>[](connected /\ missing = {} /\ joined = Channels) \/ <>(dialFails > 0)

=============================================================================
