---------------------------- MODULE DesktopPages ----------------------------
(***************************************************************************)
(* The desktops used in the browser (internal/web/desktop_viewer.go,       *)
(* desktop_lifecycle.go).  Opening one puts a hold on it, so that the      *)
(* keepalive stays away, and makes a session, which a window of the        *)
(* browser loads.  The window sends heartbeats, which extend the hold, and *)
(* a message when it closes; a reload or a second window takes the session *)
(* over.  A sweeper ends the sessions that are over and lifts the hold of  *)
(* a desktop whose last session has ended; a hold also lapses by itself.   *)
(*                                                                         *)
(* Messages of the windows arrive late, in any order or not at all.  What  *)
(* the keepalive and the power batch make of a hold is in Keepalive and    *)
(* PowerBatch; the relay of pages and requests changes nothing here.       *)
(***************************************************************************)
EXTENDS Naturals, FiniteSets

CONSTANTS
  Desktop,
  Session,        \* ids of sessions; one that nobody knows is used again
  Window,         \* loads of the page, likewise
  NoWindow,
  MaxViewers,     \* sessions at a time (16)
  CloseGrace,     \* durations, in ticks: 15 s
  HeartbeatGrace, \* 150 s
  RenewHold,      \* 150 s
  OpenHold,       \* 3 min
  SessionTime,    \* 1 h
  MaxMessages,    \* messages under way: bounds the model
  MaxUpsets       \* power batches, updates and stops: bounds the model

ASSUME PagesAssumption ==
  /\ Desktop # {} /\ Session # {} /\ NoWindow \notin Window
  /\ CloseGrace \in Nat /\ HeartbeatGrace \in Nat \ {0}
  /\ RenewHold \in Nat /\ OpenHold \in Nat /\ SessionTime \in Nat
  /\ HeartbeatGrace <= RenewHold /\ RenewHold <= OpenHold
  /\ MaxViewers \in Nat /\ MaxMessages \in Nat /\ MaxUpsets \in Nat

VARIABLES
  viewers, \* [Session -> Viewer or NoViewer]: s.viewers
  resumes, \* s.viewerResumes: desktops whose hold is to be lifted
  op,      \* who has s.viewerOpMu, and how far it is
  hold,    \* [Desktop -> Hold]: desktop_holds
  busy,    \* a power batch or an update is under way
  window,  \* [Window -> [at, session]]: the browsers
  net,     \* messages under way
  freed,   \* history: desktops whose hold the user or the power batch took
  loose,   \* history: desktops whose hold was left without a session
  upsets   \* power batches, updates and stops of the program so far

server == <<viewers, resumes, op>>
around == <<hold, busy, upsets>>
history == <<freed, loose>>
browser == <<window, net>>
vars == <<server, around, history, browser>>
-----------------------------------------------------------------------------
AnyDesktop == CHOOSE d \in Desktop : TRUE
AnySession == CHOOSE s \in Session : TRUE

(* seen and closed are the ages of LastSeen and ClosedAt; fed, a history,  *)
(* is that of the last heartbeat whose renewal went through, until it has  *)
(* been late once.                                                         *)
NotClosed == CloseGrace + 1
Viewer == [desktop : Desktop, left : 0..SessionTime, seen : 0..HeartbeatGrace,
           closed : 0..NotClosed, window : Window \cup {NoWindow},
           fed : 0..HeartbeatGrace]
NoViewer == [desktop |-> AnyDesktop, left |-> 0, seen |-> 0, closed |-> 0,
             window |-> NoWindow, fed |-> 0]
NewViewer(d) == [desktop |-> d, left |-> SessionTime, seen |-> 0,
                 closed |-> NotClosed, window |-> NoWindow, fed |-> 0]

(* "over" is what a power request has put in the place of the hold of a    *)
(* page, and may take back.                                                *)
Hold == [by : {"none", "page", "power", "over"}, left : 0..OpenHold]
NoHold == [by |-> "none", left |-> 0]

(* A window shows the page of a session: it is "kept" if nobody has taken  *)
(* the session over and its heartbeats have been in time.                  *)
Page == [at : {"kept", "other", "gone"}, session : Session]
NoPage == [at |-> "gone", session |-> AnySession]
Message == [kind : {"beat", "close"}, window : Window, session : Session]

Op == [at : {"free", "login", "create", "renew", "sweep"}, desktop : Desktop,
       session : Session, todo : SUBSET Desktop]
Free == [at |-> "free", desktop |-> AnyDesktop, session |-> AnySession,
         todo |-> {}]

Init ==
  /\ viewers = [s \in Session |-> NoViewer] /\ resumes = {} /\ op = Free
  /\ hold = [d \in Desktop |-> NoHold]
  /\ busy = "no" /\ upsets = 0
  /\ window = [w \in Window |-> NoPage]
  /\ net = {} /\ freed = {} /\ loose = {}

Open == {s \in Session : viewers[s] # NoViewer}
DesktopsOf(ids) == {viewers[s].desktop : s \in ids}
Without(ids) == [s \in Session |-> IF s \in ids THEN NoViewer ELSE viewers[s]]
Expired(s) == viewers[s].left = 0
OpFree == op.at = "free"

(* Nobody has the id any more.                                             *)
Forgotten(s) ==
  /\ s \notin Open /\ \A m \in net : m.session # s
  /\ \A w \in Window : window[w].at # "gone" => window[w].session # s
-----------------------------------------------------------------------------
(* Opening a desktop: DesktopBrowserLogin asks the platform, then sets the *)
(* hold; createDesktopViewer may find no room.                             *)

OpenBegin(d) ==
  /\ OpFree /\ busy = "no"
  /\ Cardinality(Open) < MaxViewers => \E s \in Session : Forgotten(s)
  /\ op' = [Free EXCEPT !.at = "login", !.desktop = d]
  /\ UNCHANGED <<viewers, resumes, around, history, browser>>

OpenFails ==
  /\ op.at = "login" /\ op' = Free
  /\ UNCHANGED <<viewers, resumes, around, history, browser>>

SetHold ==
  /\ op.at = "login" /\ op' = [op EXCEPT !.at = "create"]
  /\ hold' = [hold EXCEPT ![op.desktop] = [by |-> "page", left |-> OpenHold]]
  /\ freed' = freed \ {op.desktop}
  /\ UNCHANGED <<viewers, resumes, busy, upsets, loose, browser>>

Create ==
  /\ op.at = "create" /\ op' = Free
  /\ LET over == {s \in Open : Expired(s)}
         room == Cardinality(Open \ over) < MaxViewers IN
     /\ resumes' = resumes \cup DesktopsOf(over)
     /\ \/ /\ room /\ loose' = loose \ {op.desktop}
           /\ \E s \in Session :
                /\ Forgotten(s)
                /\ viewers' = [Without(over) EXCEPT ![s] = NewViewer(op.desktop)]
        \/ /\ ~room /\ loose' = loose \cup {op.desktop}
           /\ viewers' = Without(over)
  /\ UNCHANGED <<around, freed, browser>>
-----------------------------------------------------------------------------
(* Windows                                                                 *)

Heard(s) == [viewers EXCEPT ![s].seen = 0, ![s].closed = NotClosed]
RenewOf(s) == [Free EXCEPT !.at = "renew", !.session = s]

(* desktopViewerPage: the new window has the session.                      *)
Load(w, s) ==
  /\ OpFree /\ s \in Open /\ ~Expired(s)
  /\ window[w].at = "gone" /\ \A m \in net : m.window # w
  /\ \A r \in Session : viewers[r].window # w
  /\ viewers' = [Heard(s) EXCEPT ![s].window = w]
  /\ window' = [x \in Window |->
       IF x = w
       THEN [at |-> IF viewers[s].fed < HeartbeatGrace THEN "kept" ELSE "other",
             session |-> s]
       ELSE IF window[x] = [at |-> "kept", session |-> s]
       THEN [window[x] EXCEPT !.at = "other"] ELSE window[x]]
  /\ op' = RenewOf(s)
  /\ UNCHANGED <<resumes, around, history, net>>

Send(w, kind) ==
  /\ Cardinality(net) < MaxMessages
  /\ net' = net \cup {[kind |-> kind, window |-> w,
                       session |-> window[w].session]}
Beat(w) ==
  /\ window[w].at # "gone" /\ Send(w, "beat")
  /\ UNCHANGED <<server, around, history, window>>

(* Closed, left or reloaded; a browser that stops, or a page that cannot   *)
(* be shown, sends nothing.                                                *)
Close(w) ==
  /\ window[w].at # "gone" /\ window' = [window EXCEPT ![w] = NoPage]
  /\ Send(w, "close") \/ UNCHANGED net
  /\ UNCHANGED <<server, around, history>>

(* desktopViewerPulse.  A heartbeat that is refused ends its window.       *)
Latest(m) == viewers[m.session].window = m.window
Valid(m) == m.session \in Open /\ ~Expired(m.session)
Pulse(m) ==
  LET s == m.session IN
  /\ OpFree /\ m \in net /\ net' = net \ {m}
  /\ \/ /\ m.kind = "close" /\ Valid(m) /\ Latest(m)
        /\ viewers' = [viewers EXCEPT ![s].closed = 0]
        /\ UNCHANGED <<op, window>>
     \/ /\ m.kind = "beat" /\ Valid(m) /\ Latest(m)
        /\ viewers[s].closed = NotClosed
        /\ viewers' = Heard(s) /\ op' = RenewOf(s) /\ UNCHANGED window
     \/ /\ m.kind = "beat" /\ Valid(m) /\ Latest(m)
        /\ viewers[s].closed # NotClosed
        /\ UNCHANGED <<viewers, op, window>>
     \/ /\ ~Valid(m) \/ ~Latest(m)
        /\ window' = IF m.kind = "beat" THEN [window EXCEPT ![m.window] = NoPage]
                     ELSE window
        /\ UNCHANGED <<viewers, op>>
  /\ UNCHANGED <<resumes, around, history>>

(* RenewDesktopBrowser extends the hold of a page, and no other; it may    *)
(* have to wait, or fail.                                                  *)
RenewedAtMost(h) == [h EXCEPT !.left = IF @ > RenewHold THEN RenewHold ELSE @]
Renewed(h) == [h EXCEPT !.left = IF @ < RenewHold THEN RenewHold ELSE @]
Renew ==
  /\ op.at = "renew" /\ op' = Free
  /\ LET s == op.session
         d == viewers[s].desktop IN
     \/ /\ hold' = IF hold[d].by = "page"
                   THEN [hold EXCEPT ![d] = Renewed(@)] ELSE hold
        /\ viewers' = [viewers EXCEPT ![s].fed =
                         IF @ < HeartbeatGrace THEN viewers[s].seen
                         ELSE @]
     \/ UNCHANGED <<hold, viewers>>
  /\ UNCHANGED <<resumes, busy, upsets, history, browser>>
-----------------------------------------------------------------------------
(* The sweeper                                                             *)

Over(s) ==
  \/ Expired(s) \/ viewers[s].closed = CloseGrace
  \/ viewers[s].seen = HeartbeatGrace

(* collectViewerResumes                                                    *)
WithoutSession(queue, ids) == queue \ DesktopsOf(ids)
SweepBegin ==
  /\ OpFree
  /\ LET over == {s \in Open : Over(s)} IN
     /\ over # {} \/ resumes # {}
     /\ viewers' = Without(over)
     /\ resumes' = resumes \cup DesktopsOf(over)
     /\ op' = [Free EXCEPT !.at = "sweep",
                           !.todo = WithoutSession(resumes', Open \ over)]
  /\ UNCHANGED <<around, history, browser>>

(* ResumeDesktopBrowser lifts the hold of a page; refused, it is tried     *)
(* again by the next sweep.                                                *)
DropsRefused(d) == resumes \ {d}
KeepsRefused(d) == resumes
Lift(d) ==
  /\ op.at = "sweep" /\ d \in op.todo
  /\ op' = [op EXCEPT !.todo = @ \ {d}]
  /\ \/ /\ busy = "no"
        /\ hold' = IF hold[d].by = "page" THEN [hold EXCEPT ![d] = NoHold]
                   ELSE hold
        /\ resumes' = resumes \ {d}
     \/ busy # "no" /\ resumes' = KeepsRefused(d) /\ UNCHANGED hold
  /\ UNCHANGED <<viewers, busy, upsets, history, browser>>

SweepEnd ==
  /\ op.at = "sweep" /\ op.todo = {} /\ op' = Free
  /\ UNCHANGED <<viewers, resumes, around, history, browser>>
-----------------------------------------------------------------------------
(* The others                                                              *)

(* ExpireDesktopHolds, every 15 s.                                         *)
LapsedOfPower(h) == h.by = "power" /\ h.left = 0
Lapsed(h) == h.by = "page" /\ h.left = 0
Expire ==
  /\ busy = "no" /\ \E d \in Desktop : Lapsed(hold[d])
  /\ hold' = [d \in Desktop |-> IF Lapsed(hold[d]) THEN NoHold ELSE hold[d]]
  /\ UNCHANGED <<server, busy, upsets, history, browser>>

(* ResumeDesktop: a user takes the hold away, whoever uses the desktop.    *)
Resume(d) ==
  /\ busy = "no" /\ op.at # "login" /\ hold[d] # NoHold
  /\ hold' = [hold EXCEPT ![d] = NoHold] /\ freed' = freed \cup {d}
  /\ UNCHANGED <<server, busy, upsets, loose, browser>>

(* A power batch waits for desktopControlMu, an update does not.           *)
BusyBegin ==
  /\ busy = "no" /\ upsets < MaxUpsets /\ upsets' = upsets + 1
  /\ \/ busy' = "power" /\ op.at # "login"
     \/ busy' = "update"
  /\ UNCHANGED <<server, hold, history, browser>>

PowerHolds(d) ==
  /\ busy = "power" /\ hold[d].by \in {"none", "page"}
  /\ hold' = [hold EXCEPT ![d].by = IF @ = "page" THEN "over" ELSE "power"]
  /\ freed' = freed \cup {d}
  /\ UNCHANGED <<server, busy, upsets, loose, browser>>

PowerRestores(d) ==
  /\ busy = "power" /\ hold[d].by = "over"
  /\ hold' = [hold EXCEPT ![d].by = "page"]
  /\ UNCHANGED <<server, busy, upsets, history, browser>>

BusyEnd ==
  /\ busy # "no" /\ busy' = "no"
  /\ hold' = [d \in Desktop |-> IF hold[d].by = "over"
                                THEN [hold[d] EXCEPT !.by = "power"]
                                ELSE hold[d]]
  /\ UNCHANGED <<server, upsets, history, browser>>

(* Sessions are in memory, holds in the database.  The windows that are    *)
(* left learn it from their next heartbeat.                                *)
Crash ==
  /\ upsets < MaxUpsets /\ upsets' = upsets + 1
  /\ viewers' = Without(Session) /\ resumes' = {} /\ op' = Free
  /\ window' = [w \in Window |-> IF window[w].at = "kept"
                                 THEN [window[w] EXCEPT !.at = "other"]
                                 ELSE window[w]]
  /\ loose' = Desktop
  /\ UNCHANGED <<hold, busy, net, freed>>

(* Time passes, but not between the hold and the session it is for.        *)
Later(n, most) == IF n < most THEN n + 1 ELSE n
Sooner(n) == IF n > 0 THEN n - 1 ELSE 0
Tick ==
  /\ op.at # "create"
  /\ viewers' = [s \in Session |->
       IF s \in Open
       THEN [viewers[s] EXCEPT !.left = Sooner(@),
               !.seen = Later(@, HeartbeatGrace), !.closed = Later(@, CloseGrace),
               !.fed = Later(@, HeartbeatGrace)]
       ELSE NoViewer]
  /\ hold' = [d \in Desktop |-> [hold[d] EXCEPT !.left = Sooner(@)]]
  /\ window' = [w \in Window |->
       IF /\ window[w].at = "kept"
          /\ LET v == viewers'[window[w].session] IN
             v.left = 0 \/ v.fed = HeartbeatGrace
       THEN [window[w] EXCEPT !.at = "other"] ELSE window[w]]
  /\ UNCHANGED <<resumes, op, busy, upsets, history, net>>

Server ==
  OpenFails \/ SetHold \/ Create \/ Renew \/ SweepBegin \/ SweepEnd
    \/ \E d \in Desktop : Lift(d)
Users ==
  \/ \E d \in Desktop : OpenBegin(d) \/ Resume(d)
  \/ \E w \in Window : Beat(w) \/ Close(w) \/ \E s \in Session : Load(w, s)
Power == BusyBegin \/ \E d \in Desktop : PowerHolds(d) \/ PowerRestores(d)

Next ==
  \/ Server \/ Users \/ Power \/ Expire \/ BusyEnd \/ Crash \/ Tick
  \/ \E m \in net : Pulse(m)

Spec == Init /\ [][Next]_vars
FairSpec ==
  /\ Spec /\ WF_vars(Server) /\ WF_vars(Expire) /\ WF_vars(BusyEnd)
  /\ WF_vars(Tick)
-----------------------------------------------------------------------------
TypeOK ==
  /\ viewers \in [Session -> Viewer]
  /\ resumes \subseteq Desktop /\ op \in Op
  /\ hold \in [Desktop -> Hold]
  /\ busy \in {"no", "power", "update"}
  /\ window \in [Window -> Page] /\ net \subseteq Message
  /\ freed \subseteq Desktop /\ loose \subseteq Desktop
  /\ upsets \in 0..MaxUpsets

(* A window that nobody has taken over keeps its session and the hold of   *)
(* its desktop, as long as a heartbeat gets through within each grace and  *)
(* its hour is not up: neither a message of the window it replaced, nor    *)
(* the end of another session of the desktop, nor a lapse ends them.  Only *)
(* the user and the power batch take the hold away.                        *)
WindowsKeepTheirHold ==
  \A w \in Window : window[w].at = "kept" =>
    LET v == viewers[window[w].session]
        h == hold[v.desktop] IN
    /\ v.window = w /\ v.closed = NotClosed
    /\ v.desktop \in freed \/ (h.by = "page" /\ h.left > 0)

(* A hold that was set for a page is lifted with its last session: there   *)
(* is a session, or the lifting is still to come, unless there was no room *)
(* for the session or the program stopped; those lapse.                    *)
HoldsHaveSessions ==
  \A d \in Desktop : hold[d].by = "page" =>
    \/ d \in DesktopsOf(Open) \cup resumes \cup loose
    \/ op.at = "create" /\ op.desktop = d

(* "网页桌面使用中，关闭页面后自动恢复" (internal/service/desktop.go:174): the  *)
(* hold of a desktop that is no longer used in a page goes, also when no   *)
(* window says that it closed, the program stops or the lifting is refused.*)
Unused(d) ==
  /\ op.at \in {"login", "create"} => op.desktop # d
  /\ \A w \in Window :
       window[w].at = "kept" => viewers[window[w].session].desktop # d
HoldsAreLifted ==
  \A d \in Desktop : <>[]Unused(d) => <>[](hold[d].by # "page")
=============================================================================
