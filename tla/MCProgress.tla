----------------------------- MODULE MCProgress -----------------------------
(***************************************************************************)
(* The components that promise to get something done in the end: the       *)
(* collector's buffer and its Telegram link, the briefings, and the page   *)
(* that shows the Telegram feed.  They share no state: each behaviour is   *)
(* one of one of them (part).                                              *)
(***************************************************************************)
EXTENDS Integers

CONSTANTS
    Messages, Flushes, MaxFails,                    \* the buffer's
    Channels, Tasks, MaxDialFails, MaxErrors,       \* the link's
    Callers, Consumers, Interval, CacheTtl, Grace,  \* the briefings'
    FeedMemo, MaxVersion, MaxFaults,
    MaxEvents,                                      \* the page's
    None

VARIABLES part,
          arrived, buffer, timer, batch, delivered, fails, overlapped,
          connected, connecting, clients, timers, joined, missing, blocked, task,
          dialFails, errors,
          version, faults, cached, pending, queue, caller, consumer, behind,
          pageFaults, visits, clock, stored, before, scrape, applying, socket, asked, wire,
          hidden, polling, refresh, shown, snapshot, left, newest

Buffer == INSTANCE CollectorBuffer

Link == INSTANCE CollectorLink

Window == INSTANCE Briefings

Page == INSTANCE TelegramPage WITH
    faults <- pageFaults, batch <- applying, timer <- polling

ASSUME ProgressAssumption ==
    /\ Buffer!BufferAssumption /\ Link!LinkAssumption
    /\ Window!BriefingsAssumption /\ Page!PageAssumption

bufferVars == <<arrived, buffer, timer, batch, delivered, fails, overlapped>>
linkVars == <<connected, connecting, clients, timers, joined, missing, blocked, task, dialFails, errors>>
briefVars == <<version, faults, cached, pending, queue, caller, consumer, behind>>
pageVars == <<pageFaults, visits, clock, stored, before, scrape, applying, socket, asked, wire,
              hidden, polling, refresh, shown, snapshot, left, newest>>
vars == <<part, bufferVars, linkVars, briefVars, pageVars>>

Init ==
    /\ part \in {"buffer", "link", "window", "page"}
    /\ Buffer!Init /\ Link!Init /\ Window!Init /\ Page!Init

Next ==
    \/ part = "buffer" /\ Buffer!Next /\ UNCHANGED <<part, linkVars, briefVars, pageVars>>
    \/ part = "link" /\ Link!Next /\ UNCHANGED <<part, bufferVars, briefVars, pageVars>>
    \/ part = "window" /\ Window!Next /\ UNCHANGED <<part, bufferVars, linkVars, pageVars>>
    \/ part = "page" /\ Page!Next /\ UNCHANGED <<part, bufferVars, linkVars, briefVars>>

(* What timers, event loop, schedule and queue promise: each part's        *)
(* Fairness, for the steps of the part that runs.  The buffer of another   *)
(* part's behaviours is empty and needs no step.                           *)
LinkFairness ==
    /\ SF_linkVars(part = "link" /\ \E t \in Tasks : Link!Connect(t))
    /\ SF_linkVars(part = "link" /\ \E t \in Tasks : Link!AvailabilityFires(t))
    /\ SF_linkVars(part = "link" /\ \E t \in Tasks : Link!JoinFires(t))
    /\ \A t \in Tasks : WF_linkVars(part = "link" /\ (Link!TaskStep(t) \/ Link!TaskFault(t)))
    /\ WF_linkVars(part = "link" /\ Link!WaitOver)

WindowFairness ==
    /\ \A c \in Callers :
          /\ WF_briefVars(part = "window" /\ Window!Asks(c))
          /\ WF_briefVars(part = "window" /\ Window!Looks(c))
          /\ WF_briefVars(part = "window" /\ Window!Queues(c))
          /\ WF_briefVars(part = "window" /\ Window!Marks(c))
    /\ \A p \in Consumers :
          /\ WF_briefVars(part = "window" /\ Window!Saves(p))
          /\ WF_briefVars(part = "window" /\ Window!Clears(p))
    /\ \A hash \in 1..MaxVersion :
          WF_briefVars(part = "window" /\ \E p \in Consumers : Window!Takes(p, hash))
    /\ WF_briefVars(part = "window" /\ Window!Tick)

PageFairness ==
    /\ WF_pageVars(part = "page" /\ Page!TimerFires)
    /\ WF_pageVars(part = "page" /\ Page!Answers)
    /\ WF_pageVars(part = "page" /\ Page!Receives)

FairSpec == Init /\ [][Next]_vars /\ Buffer!Fairness /\ LinkFairness /\ WindowFairness /\ PageFairness

-----------------------------------------------------------------------------
(* Each component's state has its shape.                                   *)
TypeOK == Buffer!TypeOK /\ Link!TypeOK /\ Window!TypeOK /\ Page!TypeOK

(* CollectorBuffer, CollectorLink, TelegramPage: what is left to do has a  *)
(* timer or an operation that will see to it: a message in the buffer; a   *)
(* client, a join and a look at the channels, as long as no dial failed;   *)
(* the next look of an open page.                                          *)
WorkPending ==
    /\ Buffer!NeverStranded
    /\ Link!ReconnectPendingIfDialled
    /\ Link!WorkPending
    /\ Page!PollPending

(* CollectorBuffer: the buffer is what arrived last, and nothing before it *)
(* is undelivered, unless two flushes overlapped.                          *)
NoneLostAlone == Buffer!BufferIsTail /\ Buffer!NoneLostAlone

(* CollectorBuffer: every message is delivered, unless two flushes         *)
(* overlapped.                                                             *)
EventuallyDelivered == part = "buffer" => Buffer!EventuallyDelivered

(* CollectorLink: the account is in the end in every channel.              *)
EventuallyInAllChannels == part = "link" => Link!EventuallyInAllChannels

(* Briefings, TelegramPage: what counts as made from the window's items    *)
(* was made from them or from later ones, unless a consumer read an older  *)
(* feed than the one that queued its refresh; and a page, whoever asked    *)
(* and in whatever order states were saved, shows the newest it was given. *)
NeverOlder == Window!NotOlderThanHash /\ Page!NewestShown

(* Briefings, TelegramPage: when no more news comes, the briefing is in    *)
(* the end that of the news there is, again and again after it expires;    *)
(* and a page that is looked at shows, again and again, no older state     *)
(* than the stored one.                                                    *)
EventuallyCurrent ==
    /\ part = "window" => Window!EventuallyCurrent
    /\ part = "page" => Page!EventuallyCurrent
=============================================================================
