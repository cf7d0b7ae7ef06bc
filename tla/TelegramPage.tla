----------------------------- MODULE TelegramPage -----------------------------
(***************************************************************************)
(* The Telegram feed in a reader's browser.  An open page asks for the     *)
(* state again and again: by a timer, when it comes into view, and when    *)
(* the socket says that there is another state.  One request is made at a  *)
(* time, and whoever asks meanwhile is sent away.  What is shown is kept   *)
(* for the next visit, also by a page that was left before its answer.     *)
(*                                                                         *)
(* A state is known by its timestamp: a scrape gives its state the time of *)
(* its last phases, and tells of it before it saves it; the collector's    *)
(* batch has the time when it was sent, and is applied later.              *)
(***************************************************************************)
EXTENDS Integers, Sequences

CONSTANTS
    MaxEvents,  \* bound: states made, visits and faults together
    None

VARIABLES
    faults, visits,
    clock,      \* the last timestamp given
    stored,     \* the state that is stored
    before,     \* the one before, which KV may still have
    scrape,     \* the state a scrape has told of and not saved yet, or None
    batch,      \* the collector's batch: its time, and whether it is saved
    socket,     \* none without a page
    asked,      \* the page has asked the object for the state's timestamp
    wire,       \* timestamps on their way to the page
    hidden,
    timer,      \* the timer of useLiveRefresh is set
    refresh,    \* the request of the page: who asked, and the answer; or None
    shown,      \* Nothing before there is a state
    snapshot,   \* sessionStorage
    left,       \* what a page showed that was left with a request, and the answer
    newest      \* history: the newest the page has been given

States == 0..MaxEvents
Batches == [at : States, saved : BOOLEAN]
Requests == [by : {"timer", "event", "page"}, answer : States \cup {None}]
Leftovers == [shown : States, answer : States \cup {None}]

PageAssumption ==
    /\ MaxEvents \in Nat \ {0}
    /\ None \notin States \cup Batches \cup Requests \cup Leftovers

server == <<clock, stored, before, scrape, batch>>
stream == <<socket, asked, wire>>
page == <<hidden, timer, refresh, shown, snapshot, left, newest>>
vars == <<faults, visits, server, stream, page>>

Mounted == socket # "none"

(* The answer that is none.                                                *)
Nothing == 0

(* The bound is not spent.                                                 *)
Spare == clock + visits + faults < MaxEvents

Fault == Spare /\ faults' = faults + 1

-----------------------------------------------------------------------------
(* The object.                                                             *)

Time == Spare /\ clock' = clock + 1

(* broadcastStateInvalidation                                              *)
Told(at) == wire' = IF socket = "open" THEN Append(wire, at) ELSE wire

Stored(at) == stored' = at /\ before' = stored

ScrapeTells ==
    /\ scrape = None
    /\ Time
    /\ scrape' = clock'
    /\ Told(clock')
    /\ UNCHANGED <<faults, visits, stored, before, batch, socket, asked, page>>

ScrapeSaves ==
    /\ scrape # None
    /\ Stored(scrape)
    /\ scrape' = None
    /\ UNCHANGED <<faults, visits, clock, batch, stream, page>>

ScrapeFails ==
    /\ scrape # None
    /\ Fault
    /\ scrape' = None
    /\ UNCHANGED <<visits, clock, stored, before, batch, stream, page>>

Collects ==
    /\ batch = None
    /\ Time
    /\ batch' = [at |-> clock', saved |-> FALSE]
    /\ UNCHANGED <<faults, visits, stored, before, scrape, stream, page>>

Applies ==
    /\ batch # None /\ ~ batch.saved
    /\ Stored(batch.at)
    /\ batch' = [batch EXCEPT !.saved = TRUE]
    /\ UNCHANGED <<faults, visits, clock, scrape, stream, page>>

ApplyTells ==
    /\ batch # None /\ batch.saved
    /\ Told(batch.at)
    /\ batch' = None
    /\ UNCHANGED <<faults, visits, clock, stored, before, scrape, socket, asked, page>>

(* The message "state".                                                    *)
RepliesState ==
    /\ asked
    /\ asked' = FALSE
    /\ wire' = Append(wire, stored)
    /\ UNCHANGED <<faults, visits, server, socket, page>>

-----------------------------------------------------------------------------
(* refreshTelegram: who asks while another request is under way is sent    *)
(* away at once.                                                           *)
Asks(by) == refresh' = IF refresh = None THEN [by |-> by, answer |-> None] ELSE refresh

(* /api/telegram: the object's state, or KV's when the object does not     *)
(* answer, or none.                                                        *)
Answers ==
    /\ refresh # None /\ refresh.answer = None
    /\ \/ refresh' = [refresh EXCEPT !.answer = stored] /\ UNCHANGED faults
       \/ Fault /\ \E state \in {before, Nothing} : refresh' = [refresh EXCEPT !.answer = state]
    /\ UNCHANGED <<visits, server, stream, hidden, timer, shown, snapshot, left, newest>>

(* Mutant of Taken: any state that came is.                                *)
TakenAny(state, has) == state # Nothing /\ state # has

(* An answer is taken that is newer than what the page has.                *)
Taken(state, has) == state # Nothing /\ state > has

(* What useLiveRefresh began in its timer ends with the next timer.        *)
Receives ==
    /\ refresh # None /\ refresh.answer # None
    /\ LET taken == Taken(refresh.answer, shown) IN
          /\ shown' = IF taken THEN refresh.answer ELSE shown
          /\ snapshot' = IF taken THEN refresh.answer ELSE snapshot
    /\ newest' = IF refresh.answer > newest THEN refresh.answer ELSE newest
    /\ timer' = (timer \/ refresh.by = "timer")
    /\ refresh' = None
    /\ UNCHANGED <<faults, visits, server, stream, hidden, left>>

-----------------------------------------------------------------------------
(* useLiveRefresh.  A timer that finds the page hidden or a request under  *)
(* way is set again, and nothing else happens.                             *)

TimerFires ==
    /\ timer /\ ~ hidden /\ refresh = None
    /\ Asks("timer")
    /\ timer' = FALSE
    /\ UNCHANGED <<faults, visits, server, stream, hidden, shown, snapshot, left, newest>>

Hides ==
    /\ Mounted /\ ~ hidden
    /\ hidden' = TRUE
    /\ UNCHANGED <<faults, visits, server, stream, timer, refresh, shown, snapshot, left, newest>>

(* onVisibility                                                            *)
Shows ==
    /\ hidden
    /\ hidden' = FALSE
    /\ Asks("event")
    /\ UNCHANGED <<faults, visits, server, stream, timer, shown, snapshot, left, newest>>

(* onFocus; and applyDedupeFeedback, when it is done.                      *)
ReaderAsks ==
    /\ Mounted /\ ~ hidden /\ refresh = None
    /\ Asks("event")
    /\ UNCHANGED <<faults, visits, server, stream, hidden, timer, shown, snapshot, left, newest>>

-----------------------------------------------------------------------------
(* The socket.                                                             *)

(* The object accepts it and greets with the timestamp of its state; the   *)
(* page asks for it once more.                                             *)
Connects ==
    /\ socket = "connecting"
    /\ socket' = "open" /\ asked' = TRUE /\ wire' = <<stored>>
    /\ UNCHANGED <<faults, visits, server, page>>

Closes ==
    /\ socket \in {"connecting", "open"}
    /\ Fault
    /\ socket' = "waiting" /\ asked' = FALSE /\ wire' = <<>>
    /\ UNCHANGED <<visits, server, page>>

(* The timer of scheduleReconnect.                                         *)
Reconnects ==
    /\ socket = "waiting"
    /\ socket' = "connecting"
    /\ UNCHANGED <<faults, visits, server, asked, wire, page>>

Hears ==
    /\ wire # <<>>
    /\ wire' = Tail(wire)
    /\ IF Head(wire) # shown THEN Asks("page") ELSE UNCHANGED refresh
    /\ UNCHANGED <<faults, visits, server, socket, asked, hidden, timer, shown, snapshot, left, newest>>

-----------------------------------------------------------------------------
(* Visits.                                                                 *)

(* onMount: the snapshot of the last visit, if it is not too old.          *)
Visits ==
    /\ ~ Mounted
    /\ Spare /\ visits' = visits + 1
    /\ shown' = snapshot /\ newest' = snapshot
    /\ timer' = TRUE
    /\ Asks("page")
    /\ socket' = "connecting"
    /\ UNCHANGED <<faults, server, asked, wire, hidden, snapshot, left>>

(* Nobody calls the request back that is under way.                        *)
Leaves ==
    /\ Mounted
    /\ Spare
    /\ left = None \/ refresh = None    \* bound: one request left behind
    /\ left' = IF refresh # None THEN [shown |-> shown, answer |-> refresh.answer] ELSE left
    /\ hidden' = FALSE /\ timer' = FALSE /\ refresh' = None /\ shown' = Nothing /\ newest' = Nothing
    /\ socket' = "none" /\ asked' = FALSE /\ wire' = <<>>
    /\ UNCHANGED <<faults, visits, server, snapshot>>

LeftAnswered ==
    /\ left # None /\ left.answer = None
    /\ left' = [left EXCEPT !.answer = stored]
    /\ UNCHANGED <<faults, visits, server, stream, hidden, timer, refresh, shown, snapshot, newest>>

LeftReceives ==
    /\ left # None /\ left.answer # None
    /\ snapshot' = IF Taken(left.answer, left.shown) THEN left.answer ELSE snapshot
    /\ left' = None
    /\ UNCHANGED <<faults, visits, server, stream, hidden, timer, refresh, shown, newest>>

(* loadSessionSnapshot takes none that is older than two minutes.          *)
Expires ==
    /\ snapshot # Nothing
    /\ Spare                            \* bound: the last visit's is not read any more
    /\ snapshot' = Nothing
    /\ UNCHANGED <<faults, visits, server, stream, hidden, timer, refresh, shown, left, newest>>

-----------------------------------------------------------------------------
Init ==
    /\ faults = 0 /\ visits = 0
    /\ clock = 1 /\ stored = 1 /\ before = 1 /\ scrape = None /\ batch = None
    /\ socket = "none" /\ asked = FALSE /\ wire = <<>>
    /\ hidden = FALSE /\ timer = FALSE /\ refresh = None /\ left = None
    /\ shown = Nothing /\ snapshot = Nothing /\ newest = Nothing

Next ==
    \/ ScrapeTells \/ ScrapeSaves \/ ScrapeFails \/ Collects \/ Applies \/ ApplyTells \/ RepliesState
    \/ Answers \/ Receives
    \/ TimerFires \/ Hides \/ Shows \/ ReaderAsks
    \/ Connects \/ Closes \/ Reconnects \/ Hears
    \/ Visits \/ Leaves \/ LeftAnswered \/ LeftReceives \/ Expires

Spec == Init /\ [][Next]_vars

(* Timers fire and requests are answered or time out.                      *)
Fairness == WF_vars(TimerFires) /\ WF_vars(Answers) /\ WF_vars(Receives)

-----------------------------------------------------------------------------
TypeOK ==
    /\ faults \in Nat /\ visits \in Nat /\ clock + visits + faults <= MaxEvents
    /\ {clock, stored, before, shown, snapshot, newest} \subseteq States
    /\ scrape \in States \cup {None}
    /\ batch \in Batches \cup {None}
    /\ socket \in {"none", "connecting", "open", "waiting"}
    /\ asked \in BOOLEAN /\ hidden \in BOOLEAN /\ timer \in BOOLEAN
    /\ wire \in Seq(States)
    /\ refresh \in Requests \cup {None}
    /\ left \in Leftovers \cup {None}

(* An open page always has its timer, or a request that sets it again.     *)
PollPending == Mounted => timer \/ (refresh # None /\ refresh.by = "timer")

(* Whoever asked, and in whatever order states were saved and snapshots    *)
(* kept, a page shows the newest state it has been given.                  *)
NewestShown == Mounted => shown = newest

(* A page that is looked at shows what is stored, again and again, unless  *)
(* a batch has put the state's own time back (stored < shown).             *)
EventuallyCurrent == []<>(Mounted /\ ~ hidden) => []<>(stored <= shown)
=============================================================================
