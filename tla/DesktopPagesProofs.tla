------------------------- MODULE DesktopPagesProofs -------------------------
(***************************************************************************)
(* Theorems about DesktopPages for every number of desktops, sessions,     *)
(* windows and messages, and for all graces that are ordered as in the     *)
(* code.                                                                   *)
(*                                                                         *)
(* WindowsKeepTheirHold is not inductive.  That the hold of a window has   *)
(* not lapsed follows from the age of its last renewal (Renewals): the hold*)
(* lasts RenewHold from then, the window at most HeartbeatGrace.  That no  *)
(* other window ends its session follows from where close messages come    *)
(* from (ClosesOfGone).  And a hold is lifted only for a desktop without   *)
(* sessions (Lifting), which no one can open meanwhile.                    *)
(***************************************************************************)
EXTENDS DesktopPages, TLAPS

(* A renewal is for a session that is open.                                *)
RenewsOpen == op.at = "renew" => viewers[op.session].closed = NotClosed

Lifting == op.at = "sweep" => \A s \in Open : viewers[s].desktop \notin op.todo

(* What the power batch has taken it may give back.                        *)
Accounted(d) ==
  \/ \E s \in Open : viewers[s].desktop = d
  \/ d \in resumes \cup loose
  \/ op.at = "create" /\ op.desktop = d
HoldsAccounted == \A d \in Desktop : hold[d].by \in {"page", "over"} => Accounted(d)
TakenByPower ==
  \A d \in Desktop : hold[d].by = "over" => busy = "power" /\ d \in freed

ClosesOfGone == \A m \in net : m.kind = "close" => window[m.window].at = "gone"

(* The hold outlives the last renewal by RenewHold.                        *)
HeldSince(d, age) ==
  d \in freed \/ (hold[d].by = "page" /\ hold[d].left + age >= RenewHold)
Renewals ==
  /\ op.at = "create" => HeldSince(op.desktop, 0)
  /\ \A s \in Open :
       /\ viewers[s].seen <= viewers[s].fed
       /\ viewers[s].fed < HeartbeatGrace =>
            HeldSince(viewers[s].desktop, viewers[s].fed)

KeptPages ==
  \A w \in Window : window[w].at = "kept" =>
    LET v == viewers[window[w].session] IN
    /\ v.window = w /\ v.closed = NotClosed
    /\ v.left > 0 /\ v.fed < HeartbeatGrace

IInv ==
  /\ TypeOK /\ RenewsOpen /\ Lifting /\ HoldsAccounted /\ TakenByPower
  /\ ClosesOfGone /\ Renewals /\ KeptPages
-----------------------------------------------------------------------------
(* Types                                                                   *)

LEMMA Graces ==
  /\ CloseGrace \in Nat /\ HeartbeatGrace \in Nat \ {0} /\ RenewHold \in Nat
  /\ OpenHold \in Nat /\ SessionTime \in Nat
  /\ HeartbeatGrace <= RenewHold /\ RenewHold <= OpenHold
  /\ NotClosed \in Nat \ {0} /\ NotClosed # CloseGrace /\ NotClosed >= CloseGrace
  /\ AnyDesktop \in Desktop /\ AnySession \in Session
  <1>1. AnyDesktop \in Desktop /\ AnySession \in Session
    BY PagesAssumption DEF AnyDesktop, AnySession
  <1>2. QED
    BY <1>1, PagesAssumption DEF NotClosed

LEMMA HeartbeatIsPositive == HeartbeatGrace \in Nat /\ HeartbeatGrace > 0
  BY PagesAssumption

LEMMA Constants ==
  /\ NoViewer \in Viewer /\ NoHold \in Hold /\ NoPage \in Page /\ Free \in Op
  /\ \A d \in Desktop : NewViewer(d) \in Viewer
  <1>1. NoViewer \in Viewer
    BY Graces DEF NoViewer, Viewer
  <1>2. NoHold \in Hold
    BY Graces DEF NoHold, Hold
  <1>3. NoPage \in Page /\ Free \in Op
    BY Graces DEF NoPage, Page, Free, Op
  <1>4. \A d \in Desktop : NewViewer(d) \in Viewer
    BY Graces DEF NewViewer, Viewer
  <1>5. QED
    BY <1>1, <1>2, <1>3, <1>4

LEMMA InitTypes == Init => TypeOK
  <1> SUFFICES ASSUME Init PROVE TypeOK
    OBVIOUS
  <1>1. viewers \in [Session -> Viewer] /\ op \in Op
    BY Constants DEF Init
  <1>2. hold \in [Desktop -> Hold] /\ window \in [Window -> Page]
    BY Constants DEF Init
  <1>3. /\ resumes = {} /\ busy = "no" /\ net = {} /\ freed = {} /\ loose = {}
        /\ upsets = 0
    BY DEF Init
  <1>4. upsets \in 0..MaxUpsets
    BY <1>3, PagesAssumption
  <1>5. QED
    BY <1>1, <1>2, <1>3, <1>4 DEF TypeOK

LEMMA OpTypes ==
  ASSUME TypeOK
  PROVE  /\ op.at \in {"free", "login", "create", "renew", "sweep"}
         /\ op.desktop \in Desktop /\ op.session \in Session
         /\ op.todo \subseteq Desktop
  BY DEF TypeOK, Op

LEMMA ViewerTypes ==
  ASSUME TypeOK, NEW s \in Session
  PROVE  /\ viewers[s] \in Viewer
         /\ viewers[s].desktop \in Desktop /\ viewers[s].left \in Nat
         /\ viewers[s].seen \in 0..HeartbeatGrace
         /\ viewers[s].closed \in 0..NotClosed
         /\ viewers[s].window \in Window \cup {NoWindow}
         /\ viewers[s].fed \in 0..HeartbeatGrace
  <1>1. viewers[s] \in Viewer
    BY DEF TypeOK
  <1>2. 0..SessionTime \subseteq Nat
    OBVIOUS
  <1>3. QED
    BY <1>1, <1>2 DEF Viewer

LEMMA HoldTypes ==
  ASSUME TypeOK, NEW d \in Desktop
  PROVE  /\ hold[d] \in Hold
         /\ hold[d].by \in {"none", "page", "power", "over"}
         /\ hold[d].left \in 0..OpenHold
  BY DEF TypeOK, Hold

(* A session that was heard of, or has a window, is not the empty one.     *)
LEMMA SomeViewer ==
  ASSUME NEW v, v.closed # 0 \/ v.seen # 0 \/ v.window # NoWindow
  PROVE  v # NoViewer
  BY DEF NoViewer

LEMMA SessionOfViewer ==
  ASSUME NEW s \in Session,
         \/ viewers[s].closed # 0 \/ viewers[s].seen # 0
         \/ viewers[s].window # NoWindow
  PROVE  s \in Open
  BY SomeViewer DEF Open

LEMMA HeardIs ==
  ASSUME TypeOK, NEW s \in Session
  PROVE  /\ Heard(s) \in [Session -> Viewer]
         /\ \A r \in Session : r # s => Heard(s)[r] = viewers[r]
         /\ Heard(s)[s].desktop = viewers[s].desktop
         /\ Heard(s)[s].left = viewers[s].left /\ Heard(s)[s].seen = 0
         /\ Heard(s)[s].closed = NotClosed /\ Heard(s)[s].fed = viewers[s].fed
         /\ Heard(s)[s].window = viewers[s].window
  <1>1. viewers \in [Session -> Viewer] /\ viewers[s] \in Viewer
    BY DEF TypeOK
  <1>2. 0 \in 0..HeartbeatGrace /\ NotClosed \in 0..NotClosed
    BY Graces
  <1>3. Heard(s) = [viewers EXCEPT ![s] = [viewers[s] EXCEPT !.seen = 0,
                                                             !.closed = NotClosed]]
    BY <1>1 DEF Heard
  <1>4. [viewers[s] EXCEPT !.seen = 0, !.closed = NotClosed] \in Viewer
    BY <1>1, <1>2 DEF Viewer
  <1>5. QED
    BY <1>1, <1>3, <1>4 DEF Viewer

(* What the steps of a window do to the sessions: one is heard of, closed, *)
(* or has another window.                                                  *)
LEMMA LoadIs ==
  ASSUME TypeOK, NEW w \in Window, NEW s \in Session, Load(w, s)
  PROVE  /\ viewers' \in [Session -> Viewer]
         /\ \A r \in Session : r # s => viewers'[r] = viewers[r]
         /\ viewers'[s].desktop = viewers[s].desktop
         /\ viewers'[s].left = viewers[s].left /\ viewers'[s].seen = 0
         /\ viewers'[s].closed = NotClosed /\ viewers'[s].fed = viewers[s].fed
         /\ viewers'[s].window = w
  <1>1. viewers' = [Heard(s) EXCEPT ![s].window = w]
    BY DEF Load
  <1>2. Heard(s) \in [Session -> Viewer]
    BY HeardIs
  <1>3. viewers' = [Heard(s) EXCEPT ![s] = [Heard(s)[s] EXCEPT !.window = w]]
    BY <1>1, <1>2
  <1>4. [Heard(s)[s] EXCEPT !.window = w] \in Viewer
    BY <1>2 DEF Viewer
  <1>5. /\ viewers' \in [Session -> Viewer]
        /\ \A r \in Session : r # s => viewers'[r] = Heard(s)[r]
        /\ viewers'[s] = [Heard(s)[s] EXCEPT !.window = w]
    BY <1>2, <1>3, <1>4
  <1>6. Heard(s)[s] \in Viewer
    BY <1>2
  <1>7. /\ viewers'[s].desktop = Heard(s)[s].desktop
        /\ viewers'[s].left = Heard(s)[s].left /\ viewers'[s].seen = Heard(s)[s].seen
        /\ viewers'[s].closed = Heard(s)[s].closed /\ viewers'[s].fed = Heard(s)[s].fed
        /\ viewers'[s].window = w
    BY <1>5, <1>6 DEF Viewer
  <1>8. QED
    BY <1>5, <1>7, HeardIs

LEMMA PulseIs ==
  ASSUME TypeOK, NEW m \in net, Pulse(m)
  PROVE  /\ m.session \in Session /\ m.window \in Window
         /\ \/ /\ m.kind = "close" /\ m.session \in Open /\ Latest(m)
               /\ viewers' = [viewers EXCEPT ![m.session].closed = 0]
               /\ UNCHANGED <<op, window>>
            \/ /\ m.session \in Open /\ Latest(m)
               /\ viewers[m.session].closed = NotClosed
               /\ viewers' = Heard(m.session) /\ op' = RenewOf(m.session)
               /\ UNCHANGED window
            \/ /\ UNCHANGED <<viewers, op>>
               /\ \/ UNCHANGED window
                  \/ window' = [window EXCEPT ![m.window] = NoPage]
         /\ OpFree /\ net' = net \ {m} /\ UNCHANGED <<resumes, around, history>>
  <1>1. m \in Message
    BY DEF TypeOK
  <1>2. m.session \in Session /\ m.window \in Window
    BY <1>1 DEF Message
  <1>3. QED
    BY <1>2 DEF Pulse, Valid

LEMMA ClosedIs ==
  ASSUME TypeOK, NEW s \in Session, viewers' = [viewers EXCEPT ![s].closed = 0]
  PROVE  /\ viewers' \in [Session -> Viewer]
         /\ \A r \in Session : r # s => viewers'[r] = viewers[r]
         /\ viewers'[s].desktop = viewers[s].desktop
         /\ viewers'[s].left = viewers[s].left /\ viewers'[s].seen = viewers[s].seen
         /\ viewers'[s].fed = viewers[s].fed
         /\ viewers'[s].window = viewers[s].window
  <1>1. viewers \in [Session -> Viewer] /\ viewers[s] \in Viewer
    BY DEF TypeOK
  <1>2. viewers' = [viewers EXCEPT ![s] = [viewers[s] EXCEPT !.closed = 0]]
    BY <1>1
  <1>3. [viewers[s] EXCEPT !.closed = 0] \in Viewer
    BY <1>1, Graces DEF Viewer
  <1>4. /\ viewers' \in [Session -> Viewer]
        /\ \A r \in Session : r # s => viewers'[r] = viewers[r]
        /\ viewers'[s] = [viewers[s] EXCEPT !.closed = 0]
    BY <1>1, <1>2, <1>3
  <1>5. QED
    BY <1>1, <1>4 DEF Viewer

LEMMA RenewIs ==
  ASSUME TypeOK, Renew
  PROVE  /\ viewers' \in [Session -> Viewer]
         /\ \A r \in Session : r # op.session => viewers'[r] = viewers[r]
         /\ \A r \in Session :
              /\ viewers'[r].desktop = viewers[r].desktop
              /\ viewers'[r].left = viewers[r].left
              /\ viewers'[r].seen = viewers[r].seen
              /\ viewers'[r].closed = viewers[r].closed
              /\ viewers'[r].window = viewers[r].window
         /\ \/ viewers'[op.session].fed = viewers[op.session].fed
            \/ /\ viewers[op.session].fed < HeartbeatGrace
               /\ viewers'[op.session].fed = viewers[op.session].seen
  <1> DEFINE s == op.session
             v == [viewers[s] EXCEPT !.fed = IF @ < HeartbeatGrace
                                             THEN viewers[s].seen ELSE @]
  <1>1. viewers \in [Session -> Viewer] /\ s \in Session /\ viewers[s] \in Viewer
    BY OpTypes DEF TypeOK
  <1>2. viewers' = viewers \/ viewers' = [viewers EXCEPT ![s] = v]
    BY <1>1 DEF Renew
  <1>3. CASE viewers' = viewers
    BY <1>1, <1>3
  <1>4. CASE viewers' = [viewers EXCEPT ![s] = v]
    <2>1. /\ v \in Viewer /\ v.desktop = viewers[s].desktop
          /\ v.left = viewers[s].left /\ v.seen = viewers[s].seen
          /\ v.closed = viewers[s].closed /\ v.window = viewers[s].window
          /\ v.fed = IF viewers[s].fed < HeartbeatGrace THEN viewers[s].seen
                     ELSE viewers[s].fed
      BY <1>1 DEF Viewer
    <2> HIDE DEF v
    <2>2. /\ viewers' \in [Session -> Viewer] /\ viewers'[s] = v
          /\ \A r \in Session : r # s => viewers'[r] = viewers[r]
      BY <1>1, <1>4, <2>1
    <2>3. QED
      BY <1>1, <2>1, <2>2
  <1>5. QED
    BY <1>2, <1>3, <1>4

LEMMA Counting ==
  ASSUME NEW n \in Nat, NEW most \in Nat
  PROVE  /\ Later(n, most) \in Nat /\ Later(n, most) <= n + 1 /\ n <= Later(n, most)
         /\ n <= most => Later(n, most) <= most
         /\ n > most => Later(n, most) = n
         /\ most > 0 => Later(n, most) > 0
         /\ Later(n, most) < most => Later(n, most) = n + 1
         /\ Sooner(n) \in Nat /\ Sooner(n) <= n /\ n <= Sooner(n) + 1
  BY DEF Later, Sooner

LEMMA TickIs ==
  ASSUME TypeOK, Tick
  PROVE  /\ viewers' \in [Session -> Viewer]
         /\ \A s \in Session :
              /\ s \notin Open => viewers'[s] = NoViewer
              /\ s \in Open =>
                   /\ viewers'[s].desktop = viewers[s].desktop
                   /\ viewers'[s].window = viewers[s].window
                   /\ viewers'[s].left = Sooner(viewers[s].left)
                   /\ viewers'[s].seen = Later(viewers[s].seen, HeartbeatGrace)
                   /\ viewers'[s].closed = Later(viewers[s].closed, CloseGrace)
                   /\ viewers'[s].fed = Later(viewers[s].fed, HeartbeatGrace)
  <1>1. viewers \in [Session -> Viewer]
    BY DEF TypeOK
  <1> DEFINE aged(s) == [viewers[s] EXCEPT !.left = Sooner(viewers[s].left),
                           !.seen = Later(viewers[s].seen, HeartbeatGrace),
                           !.closed = Later(viewers[s].closed, CloseGrace),
                           !.fed = Later(viewers[s].fed, HeartbeatGrace)]
  <1>2. \A s \in Session : viewers[s] \in Viewer
    BY <1>1
  <1>3. viewers' = [s \in Session |-> IF s \in Open THEN aged(s) ELSE NoViewer]
    <2>1. \A s \in Session :
            [viewers[s] EXCEPT !.left = Sooner(@), !.seen = Later(@, HeartbeatGrace),
               !.closed = Later(@, CloseGrace), !.fed = Later(@, HeartbeatGrace)]
            = aged(s)
      BY <1>2 DEF Viewer
    <2>2. QED
      BY <2>1 DEF Tick
  <1>4. ASSUME NEW s \in Session
        PROVE  /\ aged(s) \in Viewer
               /\ aged(s).desktop = viewers[s].desktop
               /\ aged(s).window = viewers[s].window
               /\ aged(s).left = Sooner(viewers[s].left)
               /\ aged(s).seen = Later(viewers[s].seen, HeartbeatGrace)
               /\ aged(s).closed = Later(viewers[s].closed, CloseGrace)
               /\ aged(s).fed = Later(viewers[s].fed, HeartbeatGrace)
    <2>1. Sooner(viewers[s].left) \in 0..SessionTime
      <3>1. viewers[s].left \in 0..SessionTime /\ SessionTime \in Nat
        BY <1>2, Graces DEF Viewer
      <3>2. QED
        BY <3>1, Counting
    <2>2. /\ Later(viewers[s].seen, HeartbeatGrace) \in 0..HeartbeatGrace
          /\ Later(viewers[s].fed, HeartbeatGrace) \in 0..HeartbeatGrace
      <3>1. viewers[s].seen \in 0..HeartbeatGrace /\ viewers[s].fed \in 0..HeartbeatGrace
        BY <1>2 DEF Viewer
      <3>2. HeartbeatGrace \in Nat
        BY Graces
      <3>3. \A n \in 0..HeartbeatGrace : Later(n, HeartbeatGrace) \in 0..HeartbeatGrace
        BY <3>2 DEF Later
      <3>4. QED
        BY <3>1, <3>3
    <2>3. Later(viewers[s].closed, CloseGrace) \in 0..NotClosed
      <3>1. viewers[s].closed \in 0..NotClosed
        BY <1>2 DEF Viewer
      <3>2. CloseGrace \in Nat /\ NotClosed = CloseGrace + 1
        BY Graces DEF NotClosed
      <3>3. \A n \in 0..NotClosed : Later(n, CloseGrace) \in 0..NotClosed
        BY <3>2 DEF Later
      <3>4. QED
        BY <3>1, <3>3
    <2>4. QED
      BY <1>2, <2>1, <2>2, <2>3 DEF Viewer
  <1> HIDE DEF aged
  <1>5. QED
    BY <1>3, <1>4, Constants

LEMMA WithoutIs ==
  ASSUME TypeOK, NEW ids
  PROVE  /\ Without(ids) \in [Session -> Viewer]
         /\ \A s \in Session :
              Without(ids)[s] = IF s \in ids THEN NoViewer ELSE viewers[s]
  BY Constants DEF Without, TypeOK

LEMMA CreateIs ==
  ASSUME TypeOK, Create
  PROVE  LET over == {s \in Open : Expired(s)} IN
         \/ /\ loose' = loose \ {op.desktop}
            /\ \E s \in Session :
                 /\ Forgotten(s) /\ viewers'[s] = NewViewer(op.desktop)
                 /\ viewers' \in [Session -> Viewer]
                 /\ \A r \in Session : r # s =>
                      viewers'[r] = IF r \in over THEN NoViewer ELSE viewers[r]
         \/ /\ loose' = loose \cup {op.desktop}
            /\ viewers' \in [Session -> Viewer]
            /\ \A r \in Session :
                 viewers'[r] = IF r \in over THEN NoViewer ELSE viewers[r]
  <1> DEFINE over == {s \in Open : Expired(s)}
  <1>1. /\ Without(over) \in [Session -> Viewer]
        /\ \A s \in Session :
             Without(over)[s] = IF s \in over THEN NoViewer ELSE viewers[s]
    BY WithoutIs
  <1>2. NewViewer(op.desktop) \in Viewer
    BY OpTypes, Constants
  <1>3. \/ /\ loose' = loose \ {op.desktop}
           /\ \E s \in Session :
                /\ Forgotten(s)
                /\ viewers' = [Without(over) EXCEPT ![s] = NewViewer(op.desktop)]
        \/ loose' = loose \cup {op.desktop} /\ viewers' = Without(over)
    BY DEF Create
  <1> HIDE DEF over
  <1>4. CASE loose' = loose \cup {op.desktop} /\ viewers' = Without(over)
    BY <1>1, <1>4 DEF over
  <1>5. ASSUME NEW s \in Session, Forgotten(s), loose' = loose \ {op.desktop},
               viewers' = [Without(over) EXCEPT ![s] = NewViewer(op.desktop)]
        PROVE  /\ viewers'[s] = NewViewer(op.desktop)
               /\ viewers' \in [Session -> Viewer]
               /\ \A r \in Session : r # s =>
                    viewers'[r] = IF r \in over THEN NoViewer ELSE viewers[r]
    BY <1>1, <1>2, <1>5
  <1>6. QED
    BY <1>3, <1>4, <1>5 DEF over

(* Steps that neither open nor end a session.                              *)
Continues ==
  /\ Open' = Open
  /\ \A s \in Session : viewers'[s].desktop = viewers[s].desktop

LEMMA OneSession ==
  ASSUME NEW s \in Open, viewers'[s] # NoViewer,
         \A r \in Session : r # s => viewers'[r] = viewers[r],
         viewers'[s].desktop = viewers[s].desktop
  PROVE  Continues
  BY DEF Continues, Open

LEMMA WindowsContinue ==
  ASSUME TypeOK, RenewsOpen,
         \/ \E w \in Window, s \in Session : Load(w, s)
         \/ \E m \in net : Pulse(m)
         \/ Renew \/ Tick
  PROVE  Continues
  <1>1. ASSUME NEW w \in Window, NEW s \in Session, Load(w, s)
        PROVE  Continues
    <2>1. s \in Open
      BY <1>1 DEF Load
    <2>2. viewers'[s] # NoViewer
      BY <1>1, LoadIs, Graces, SomeViewer
    <2>3. QED
      BY <1>1, <2>1, <2>2, LoadIs, OneSession
  <1>2. ASSUME NEW m \in net, Pulse(m)
        PROVE  Continues
    <2>1. CASE UNCHANGED viewers
      BY <2>1 DEF Continues, Open
    <2>2. CASE m.session \in Open /\ viewers' = Heard(m.session)
      <3>1. /\ m.session \in Session /\ viewers'[m.session].closed # 0
            /\ viewers'[m.session].desktop = viewers[m.session].desktop
            /\ \A r \in Session : r # m.session => viewers'[r] = viewers[r]
        BY <1>2, <2>2, PulseIs, HeardIs, Graces
      <3>2. QED
        BY <2>2, <3>1, SomeViewer, OneSession
    <2>3. CASE /\ m.session \in Open /\ Latest(m)
               /\ viewers' = [viewers EXCEPT ![m.session].closed = 0]
      <3>1. /\ m.session \in Session /\ m.window \in Window
        BY <1>2, PulseIs
      <3>2. /\ viewers'[m.session].window # NoWindow
            /\ viewers'[m.session].desktop = viewers[m.session].desktop
            /\ \A r \in Session : r # m.session => viewers'[r] = viewers[r]
        BY <2>3, <3>1, ClosedIs, PagesAssumption DEF Latest
      <3>3. QED
        BY <2>3, <3>2, SomeViewer, OneSession
    <2>4. QED
      BY <1>2, <2>1, <2>2, <2>3, PulseIs
  <1>3. CASE Renew
    <2>1. op.session \in Session /\ viewers[op.session].closed # 0
      BY <1>3, OpTypes, Graces DEF RenewsOpen, Renew
    <2>2. op.session \in Open
      BY <2>1, SessionOfViewer
    <2>3. viewers'[op.session] # NoViewer
      BY <1>3, <2>1, RenewIs, SomeViewer
    <2>4. QED
      BY <1>3, <2>1, <2>2, <2>3, RenewIs, OneSession
  <1>4. CASE Tick
    <2>1. \A s \in Open : viewers'[s].seen # 0 /\ viewers'[s].desktop = viewers[s].desktop
      <3>1. SUFFICES ASSUME NEW s \in Open
                     PROVE  viewers'[s].seen # 0
                            /\ viewers'[s].desktop = viewers[s].desktop
        OBVIOUS
      <3>2. s \in Session /\ viewers[s].seen \in Nat
        <4>1. s \in Session
          BY DEF Open
        <4>2. viewers[s].seen \in 0..HeartbeatGrace
          BY <4>1, ViewerTypes
        <4>3. QED
          BY <4>1, <4>2
      <3>3. Later(viewers[s].seen, HeartbeatGrace) > 0
        BY <3>2, HeartbeatIsPositive DEF Later
      <3>4. QED
        BY <1>4, <3>2, <3>3, TickIs
    <2>2. \A s \in Open : viewers'[s] # NoViewer
      BY <2>1, SomeViewer
    <2>3. \A s \in Session : s \notin Open => viewers'[s] = NoViewer /\ viewers[s] = NoViewer
      BY <1>4, TickIs DEF Open
    <2>4. QED
      BY <2>1, <2>2, <2>3 DEF Continues, Open
  <1>5. QED
    BY <1>1, <1>2, <1>3, <1>4

LEMMA NextIs ==
  ASSUME Next
  PROVE  \/ OpenFails \/ SetHold \/ Create \/ Renew \/ SweepBegin \/ SweepEnd
         \/ \E d \in Desktop : Lift(d) \/ OpenBegin(d) \/ Resume(d)
                                 \/ PowerHolds(d) \/ PowerRestores(d)
         \/ \E w \in Window : Beat(w) \/ Close(w)
         \/ \E w \in Window, s \in Session : Load(w, s)
         \/ BusyBegin \/ Expire \/ BusyEnd \/ Crash \/ Tick
         \/ \E m \in net : Pulse(m)
  BY DEF Next, Server, Users, Power

LEMMA ViewersTypes ==
  ASSUME TypeOK, Next
  PROVE  viewers' \in [Session -> Viewer]
  <1>1. viewers \in [Session -> Viewer]
    BY DEF TypeOK
  <1>2. CASE OpenFails \/ SetHold \/ SweepEnd \/ BusyBegin \/ Expire \/ BusyEnd
    BY <1>1, <1>2 DEF OpenFails, SetHold, SweepEnd, BusyBegin, Expire, BusyEnd, server
  <1>3. ASSUME NEW d \in Desktop,
               Lift(d) \/ OpenBegin(d) \/ Resume(d) \/ PowerHolds(d) \/ PowerRestores(d)
        PROVE  viewers' = viewers
    BY <1>3 DEF Lift, OpenBegin, Resume, PowerHolds, PowerRestores, server
  <1>4. ASSUME NEW w \in Window, Beat(w) \/ Close(w)
        PROVE  viewers' = viewers
    BY <1>4 DEF Beat, Close, server
  <1>5. CASE Create
    BY <1>5, CreateIs
  <1>6. CASE SweepBegin \/ Crash
    BY <1>6, WithoutIs DEF SweepBegin, Crash
  <1>7. ASSUME NEW m \in net, Pulse(m)
        PROVE  viewers' \in [Session -> Viewer]
    BY <1>1, <1>7, PulseIs, HeardIs, ClosedIs
  <1>8. CASE Renew
    BY <1>8, RenewIs
  <1>9. CASE Tick
    BY <1>9, TickIs
  <1>10. QED
    BY <1>1, <1>2, <1>3, <1>4, <1>5, <1>6, <1>7, <1>8, <1>9, LoadIs, NextIs

LEMMA OpTypesStep ==
  ASSUME TypeOK, Next
  PROVE  op' \in Op /\ resumes' \subseteq Desktop
  <1>1. op \in Op /\ resumes \subseteq Desktop /\ Free \in Op
    BY Constants DEF TypeOK
  <1>2. \A ids \in SUBSET Open : DesktopsOf(ids) \subseteq Desktop
    BY ViewerTypes DEF DesktopsOf, Open
  <1>3. \A s \in Session : RenewOf(s) \in Op
    BY <1>1 DEF RenewOf, Op
  <1>4. CASE OpenFails \/ Renew \/ SweepEnd
    BY <1>1, <1>4 DEF OpenFails, Renew, SweepEnd
  <1>5. CASE SetHold
    BY <1>1, <1>5 DEF SetHold, Op
  <1>6. CASE Create
    BY <1>1, <1>2, <1>6 DEF Create
  <1>7. CASE SweepBegin
    <2>1. resumes' \subseteq Desktop
      BY <1>1, <1>2, <1>7 DEF SweepBegin
    <2>2. QED
      BY <1>1, <1>7, <2>1 DEF SweepBegin, WithoutSession, Op
  <1>8. ASSUME NEW d \in Desktop,
               Lift(d) \/ OpenBegin(d) \/ Resume(d) \/ PowerHolds(d) \/ PowerRestores(d)
        PROVE  op' \in Op /\ resumes' \subseteq Desktop
    <2>1. CASE Lift(d)
      BY <1>1, <2>1 DEF Lift, KeepsRefused, Op
    <2>2. CASE OpenBegin(d)
      BY <1>1, <2>2 DEF OpenBegin, Op
    <2>3. CASE Resume(d) \/ PowerHolds(d) \/ PowerRestores(d)
      BY <1>1, <2>3 DEF Resume, PowerHolds, PowerRestores, server
    <2>4. QED
      BY <1>8, <2>1, <2>2, <2>3
  <1>9. ASSUME NEW w \in Window, Beat(w) \/ Close(w)
        PROVE  UNCHANGED <<op, resumes>>
    BY <1>9 DEF Beat, Close, server
  <1>10. ASSUME NEW w \in Window, NEW s \in Session, Load(w, s)
         PROVE  op' \in Op /\ resumes' \subseteq Desktop
    BY <1>1, <1>3, <1>10 DEF Load
  <1>11. ASSUME NEW m \in net, Pulse(m)
         PROVE  op' \in Op /\ resumes' \subseteq Desktop
    BY <1>1, <1>3, <1>11, PulseIs
  <1>12. CASE BusyBegin \/ Expire \/ BusyEnd
    BY <1>1, <1>12 DEF BusyBegin, Expire, BusyEnd, server
  <1>13. CASE Crash \/ Tick
    BY <1>1, <1>13 DEF Crash, Tick
  <1>14. QED
    BY <1>4, <1>5, <1>6, <1>7, <1>8, <1>9, <1>1, <1>10, <1>11, <1>12, <1>13, NextIs

LEMMA HoldTypesStep ==
  ASSUME TypeOK, Next
  PROVE  hold' \in [Desktop -> Hold]
  <1>1. hold \in [Desktop -> Hold] /\ NoHold \in Hold
    BY Constants DEF TypeOK
  <1>2. \A d \in Desktop, by \in {"none", "page", "power", "over"},
          left \in 0..OpenHold : [by |-> by, left |-> left] \in Hold
    BY DEF Hold
  <1>3. OpenHold \in 0..OpenHold /\ RenewHold \in 0..OpenHold
    BY Graces
  <1>4. CASE OpenFails \/ Create \/ SweepBegin \/ SweepEnd \/ BusyBegin \/ Crash
    BY <1>1, <1>4 DEF OpenFails, Create, SweepBegin, SweepEnd, BusyBegin, Crash, around
  <1>5. CASE SetHold
    BY <1>1, <1>2, <1>3, <1>5 DEF SetHold
  <1>6. CASE Renew
    <2>1. \A d \in Desktop : Renewed(hold[d]) \in Hold
      BY <1>1, <1>3 DEF Renewed, Hold
    <2>2. QED
      BY <1>1, <1>6, <2>1 DEF Renew
  <1>7. ASSUME NEW d \in Desktop,
               Lift(d) \/ OpenBegin(d) \/ Resume(d) \/ PowerHolds(d) \/ PowerRestores(d)
        PROVE  hold' \in [Desktop -> Hold]
    <2>1. CASE Lift(d) \/ Resume(d)
      BY <1>1, <2>1 DEF Lift, Resume
    <2>2. CASE OpenBegin(d)
      BY <1>1, <2>2 DEF OpenBegin, around
    <2>3. CASE PowerHolds(d) \/ PowerRestores(d)
      <3>1. \/ hold' = [hold EXCEPT ![d] = [hold[d] EXCEPT !.by = "over"]]
            \/ hold' = [hold EXCEPT ![d] = [hold[d] EXCEPT !.by = "power"]]
            \/ hold' = [hold EXCEPT ![d] = [hold[d] EXCEPT !.by = "page"]]
        BY <1>1, <2>3 DEF PowerHolds, PowerRestores
      <3>2. /\ [hold[d] EXCEPT !.by = "over"] \in Hold
            /\ [hold[d] EXCEPT !.by = "power"] \in Hold
            /\ [hold[d] EXCEPT !.by = "page"] \in Hold
        BY <1>1 DEF Hold
      <3>3. QED
        BY <1>1, <3>1, <3>2
    <2>4. QED
      BY <1>7, <2>1, <2>2, <2>3
  <1>8. ASSUME NEW w \in Window, Beat(w) \/ Close(w)
        PROVE  hold' = hold
    BY <1>8 DEF Beat, Close, around
  <1>9. ASSUME NEW w \in Window, NEW s \in Session, Load(w, s)
        PROVE  hold' = hold
    BY <1>9 DEF Load, around
  <1>10. ASSUME NEW m \in net, Pulse(m)
         PROVE  hold' = hold
    BY <1>10 DEF Pulse, around
  <1>11. CASE Expire
    BY <1>1, <1>11 DEF Expire
  <1>12. CASE BusyEnd
    <2>1. \A d \in Desktop : [hold[d] EXCEPT !.by = "power"] \in Hold
      BY <1>1 DEF Hold
    <2>2. QED
      BY <1>1, <1>12, <2>1 DEF BusyEnd
  <1>13. CASE Tick
    <2>1. ASSUME NEW d \in Desktop
          PROVE  [hold[d] EXCEPT !.left = Sooner(@)] \in Hold
      <3>1. hold[d] \in Hold /\ hold[d].left \in 0..OpenHold /\ OpenHold \in Nat
        BY HoldTypes, Graces
      <3>2. Sooner(hold[d].left) \in 0..OpenHold
        BY <3>1 DEF Sooner
      <3>3. QED
        BY <3>1, <3>2 DEF Hold
    <2>2. QED
      BY <1>13, <2>1 DEF Tick
  <1>14. QED
    BY <1>4, <1>5, <1>6, <1>7, <1>8, <1>9, <1>1, <1>10, <1>11, <1>12, <1>13, NextIs

LEMMA WindowTypesStep ==
  ASSUME TypeOK, Next
  PROVE  window' \in [Window -> Page] /\ net' \subseteq Message
  <1>1. window \in [Window -> Page] /\ net \subseteq Message /\ NoPage \in Page
    BY Constants DEF TypeOK
  <1>2. CASE \/ OpenFails \/ SetHold \/ Create \/ Renew \/ SweepBegin \/ SweepEnd
             \/ BusyBegin \/ Expire \/ BusyEnd
    BY <1>1, <1>2 DEF OpenFails, SetHold, Create, Renew, SweepBegin, SweepEnd,
       BusyBegin, Expire, BusyEnd, browser
  <1>3. ASSUME NEW d \in Desktop,
               Lift(d) \/ OpenBegin(d) \/ Resume(d) \/ PowerHolds(d) \/ PowerRestores(d)
        PROVE  UNCHANGED <<window, net>>
    BY <1>3 DEF Lift, OpenBegin, Resume, PowerHolds, PowerRestores, browser
  <1>4. ASSUME NEW w \in Window, Beat(w) \/ Close(w)
        PROVE  window' \in [Window -> Page] /\ net' \subseteq Message
    <2>1. window' = window \/ window' = [window EXCEPT ![w] = NoPage]
      BY <1>4 DEF Beat, Close
    <2>2. window[w].session \in Session
      BY <1>1 DEF Page
    <2>3. net' = net \/ \E kind \in {"beat", "close"} : Send(w, kind)
      BY <1>4 DEF Beat, Close
    <2>4. net' \subseteq Message
      BY <1>1, <2>2, <2>3 DEF Send, Message
    <2>5. QED
      BY <1>1, <2>1, <2>4
  <1>5. ASSUME NEW w \in Window, NEW s \in Session, Load(w, s)
        PROVE  window' \in [Window -> Page] /\ net' \subseteq Message
    <2>1. \A x \in Window : [window[x] EXCEPT !.at = "other"] \in Page
      BY <1>1 DEF Page
    <2>2. \A at \in {"kept", "other"} : [at |-> at, session |-> s] \in Page
      BY DEF Page
    <2>3. QED
      BY <1>1, <1>5, <2>1, <2>2 DEF Load
  <1>6. ASSUME NEW m \in net, Pulse(m)
        PROVE  window' \in [Window -> Page] /\ net' \subseteq Message
    BY <1>1, <1>6, PulseIs
  <1>7. CASE Crash \/ Tick
    <2>1. \A x \in Window : [window[x] EXCEPT !.at = "other"] \in Page
      BY <1>1 DEF Page
    <2>2. QED
      BY <1>1, <1>7, <2>1 DEF Crash, Tick
  <1>8. QED
    BY <1>1, <1>2, <1>3, <1>4, <1>5, <1>6, <1>7, NextIs

LEMMA OtherTypesStep ==
  ASSUME TypeOK, Next
  PROVE  /\ busy' \in {"no", "power", "update"} /\ upsets' \in 0..MaxUpsets
         /\ freed' \subseteq Desktop /\ loose' \subseteq Desktop
  <1>1. /\ busy \in {"no", "power", "update"} /\ upsets \in 0..MaxUpsets
        /\ freed \subseteq Desktop /\ loose \subseteq Desktop
        /\ op.desktop \in Desktop /\ MaxUpsets \in Nat
    BY OpTypes, PagesAssumption DEF TypeOK
  <1>2. CASE OpenFails \/ SetHold \/ Create \/ Renew \/ SweepBegin \/ SweepEnd
    BY <1>1, <1>2 DEF OpenFails, SetHold, Create, Renew, SweepBegin, SweepEnd,
       around, history
  <1>3. ASSUME NEW d \in Desktop,
               Lift(d) \/ OpenBegin(d) \/ Resume(d) \/ PowerHolds(d) \/ PowerRestores(d)
        PROVE  UNCHANGED <<busy, upsets, loose>> /\ freed' \subseteq Desktop
    BY <1>1, <1>3 DEF Lift, OpenBegin, Resume, PowerHolds, PowerRestores, around, history
  <1>4. ASSUME NEW w \in Window, Beat(w) \/ Close(w)
        PROVE  UNCHANGED <<busy, upsets, freed, loose>>
    BY <1>4 DEF Beat, Close, around, history
  <1>5. ASSUME NEW w \in Window, NEW s \in Session, Load(w, s)
        PROVE  UNCHANGED <<busy, upsets, freed, loose>>
    BY <1>5 DEF Load, around, history
  <1>6. ASSUME NEW m \in net, Pulse(m)
        PROVE  UNCHANGED <<busy, upsets, freed, loose>>
    BY <1>6 DEF Pulse, around, history
  <1>7. CASE Expire \/ BusyEnd \/ Tick
    BY <1>1, <1>7 DEF Expire, BusyEnd, Tick, history
  <1>8. CASE BusyBegin \/ Crash
    BY <1>1, <1>8 DEF BusyBegin, Crash, history
  <1>9. QED
    BY <1>1, <1>2, <1>3, <1>4, <1>5, <1>6, <1>7, <1>8, NextIs

LEMMA TypesStep ==
  ASSUME TypeOK, Next
  PROVE  TypeOK'
  BY ViewersTypes, OpTypesStep, HoldTypesStep, WindowTypesStep, OtherTypesStep
  DEF TypeOK
-----------------------------------------------------------------------------
(* Sessions, and the steps under s.viewerOpMu                              *)

(* What does not touch the sessions nor the mutex.                         *)
LEMMA Elsewhere ==
  ASSUME Next,
         \/ \E d \in Desktop : Resume(d) \/ PowerHolds(d) \/ PowerRestores(d)
         \/ \E w \in Window : Beat(w) \/ Close(w)
         \/ BusyBegin \/ Expire \/ BusyEnd
  PROVE  UNCHANGED <<viewers, resumes, op>>
  BY DEF Resume, PowerHolds, PowerRestores, Beat, Close, BusyBegin, Expire, BusyEnd,
     server

LEMMA RenewsOpenStep ==
  ASSUME TypeOK, RenewsOpen, Next
  PROVE  RenewsOpen'
  <1>1. CASE \/ OpenFails \/ SetHold \/ Create \/ Renew \/ SweepBegin \/ SweepEnd
             \/ Crash \/ \E d \in Desktop : Lift(d) \/ OpenBegin(d)
    <2>1. op'.at # "renew"
      <3>1. op \in Op
        BY DEF TypeOK
      <3>2. CASE OpenFails \/ Create \/ Renew \/ SweepEnd \/ Crash
        BY <3>2 DEF OpenFails, Create, Renew, SweepEnd, Crash, Free
      <3>3. CASE SetHold
        BY <3>1, <3>3 DEF SetHold, Op
      <3>4. CASE SweepBegin
        BY <3>4 DEF SweepBegin, Free
      <3>5. ASSUME NEW d \in Desktop, Lift(d) \/ OpenBegin(d)
            PROVE  op'.at # "renew"
        BY <3>1, <3>5 DEF Lift, OpenBegin, Free, Op
      <3>6. QED
        BY <1>1, <3>2, <3>3, <3>4, <3>5
    <2>2. QED
      BY <2>1 DEF RenewsOpen
  <1>2. CASE \/ \E d \in Desktop : Resume(d) \/ PowerHolds(d) \/ PowerRestores(d)
             \/ \E w \in Window : Beat(w) \/ Close(w)
             \/ BusyBegin \/ Expire \/ BusyEnd
    <2>1. UNCHANGED <<viewers, op>>
      BY <1>2, Elsewhere
    <2>2. QED
      BY <2>1 DEF RenewsOpen
  <1>3. ASSUME NEW w \in Window, NEW s \in Session, Load(w, s)
        PROVE  RenewsOpen'
    <2>1. op'.session = s
      BY <1>3 DEF Load, RenewOf, Free
    <2>2. QED
      BY <1>3, <2>1, LoadIs DEF RenewsOpen
  <1>4. ASSUME NEW m \in net, Pulse(m)
        PROVE  RenewsOpen'
    <2>1. CASE op' = op
      BY <1>4, <2>1, PulseIs DEF OpFree, RenewsOpen
    <2>2. CASE viewers' = Heard(m.session) /\ op' = RenewOf(m.session)
      <3>1. m.session \in Session /\ op'.session = m.session
        BY <1>4, <2>2, PulseIs DEF RenewOf, Free
      <3>2. QED
        BY <2>2, <3>1, HeardIs DEF RenewsOpen
    <2>3. QED
      BY <1>4, <2>1, <2>2, PulseIs
  <1>5. CASE Tick
    <2>1. SUFFICES ASSUME op'.at = "renew"
                   PROVE  viewers'[op'.session].closed = NotClosed
      BY DEF RenewsOpen
    <2>2. op' = op /\ op.session \in Session /\ viewers[op.session].closed = NotClosed
      BY <1>5, <2>1, OpTypes DEF Tick, RenewsOpen
    <2>3. op.session \in Open
      BY <2>2, SessionOfViewer, Graces
    <2>4. Later(NotClosed, CloseGrace) = NotClosed
      BY PagesAssumption DEF NotClosed, Later
    <2>5. QED
      BY <1>5, <2>2, <2>3, <2>4, TickIs
  <1>6. QED
    BY <1>1, <1>2, <1>3, <1>4, <1>5, NextIs

LEMMA OpenOf ==
  \A s \in Session : s \in Open <=> viewers[s] # NoViewer
  BY DEF Open

(* The sessions that are open after a step were open before it, on the same*)
(* desktop, or there is a new one for the desktop being opened.            *)
LEMMA OpenAfter ==
  ASSUME TypeOK, RenewsOpen, Next
  PROVE  \A s \in Open' :
           \/ s \in Open /\ viewers'[s].desktop = viewers[s].desktop
           \/ /\ Create /\ s \notin Open
              /\ viewers'[s] = NewViewer(op.desktop)
  <1>1. CASE Continues
    BY <1>1 DEF Continues, Open
  <1>2. CASE UNCHANGED viewers
    BY <1>2 DEF Open
  <1>3. CASE Create
    <2>1. SUFFICES ASSUME NEW s \in Open'
                   PROVE  \/ s \in Open /\ viewers'[s] = viewers[s]
                          \/ s \notin Open /\ viewers'[s] = NewViewer(op.desktop)
      BY <1>3
    <2>2. s \in Session /\ viewers'[s] # NoViewer
      BY DEF Open
    <2>3. \/ viewers'[s] = viewers[s]
          \/ Forgotten(s) /\ viewers'[s] = NewViewer(op.desktop)
      BY <1>3, <2>2, CreateIs
    <2>4. QED
      BY <2>2, <2>3 DEF Open, Forgotten
  <1>4. CASE SweepBegin \/ Crash
    <2>1. PICK ids : viewers' = Without(ids)
      BY <1>4 DEF SweepBegin, Crash
    <2>2. QED
      BY <2>1, WithoutIs DEF Open
  <1>5. CASE OpenFails \/ SetHold \/ SweepEnd \/ \E d \in Desktop : Lift(d) \/ OpenBegin(d)
    BY <1>2, <1>5 DEF OpenFails, SetHold, SweepEnd, Lift, OpenBegin
  <1>6. QED
    BY <1>1, <1>2, <1>3, <1>4, <1>5, Elsewhere, WindowsContinue, NextIs

LEMMA LiftingStep ==
  ASSUME TypeOK, RenewsOpen, Lifting, Next
  PROVE  Lifting'
  <1>1. SUFFICES ASSUME op'.at = "sweep", NEW s \in Open'
                 PROVE  viewers'[s].desktop \notin op'.todo
    BY DEF Lifting
  <1>2. op \in Op
    BY DEF TypeOK
  <1>3. CASE SweepBegin
    <2>1. PICK over : /\ over = {r \in Open : Over(r)} /\ viewers' = Without(over)
                      /\ op' = [Free EXCEPT !.at = "sweep",
                                  !.todo = WithoutSession(resumes', Open \ over)]
      BY <1>3 DEF SweepBegin
    <2>2. s \in Session /\ viewers'[s] # NoViewer
      BY DEF Open
    <2>3. s \in Open \ over /\ viewers'[s] = viewers[s]
      BY <2>1, <2>2, WithoutIs DEF Open
    <2>4. op'.todo = resumes' \ DesktopsOf(Open \ over)
      BY <2>1 DEF WithoutSession, Free
    <2>5. QED
      BY <2>3, <2>4 DEF DesktopsOf
  <1>4. CASE \/ OpenFails \/ SetHold \/ Create \/ Renew \/ SweepEnd \/ Crash
    <2>1. op'.at # "sweep"
      BY <1>2, <1>4 DEF OpenFails, SetHold, Create, Renew, SweepEnd, Crash, Free, Op
    <2>2. QED
      BY <1>1, <2>1
  <1>5. ASSUME NEW d \in Desktop, Lift(d) \/ OpenBegin(d)
        PROVE  viewers'[s].desktop \notin op'.todo
    <2>1. CASE OpenBegin(d)
      BY <1>1, <2>1 DEF OpenBegin, Free
    <2>2. CASE Lift(d)
      <3>1. op.at = "sweep" /\ op'.todo \subseteq op.todo /\ UNCHANGED viewers
        BY <1>2, <2>2 DEF Lift, Op
      <3>2. s \in Open
        BY <3>1 DEF Open
      <3>3. QED
        BY <3>1, <3>2 DEF Lifting
    <2>3. QED
      BY <1>5, <2>1, <2>2
  <1>6. ASSUME NEW w \in Window, NEW r \in Session, Load(w, r)
        PROVE  FALSE
    BY <1>1, <1>6 DEF Load, RenewOf, Free
  <1>7. ASSUME NEW m \in net, Pulse(m)
        PROVE  FALSE
    BY <1>1, <1>7, PulseIs DEF OpFree, RenewOf, Free
  <1>8. CASE Tick
    <2>1. op' = op /\ s \in Open /\ viewers'[s].desktop = viewers[s].desktop
      BY <1>8, WindowsContinue DEF Tick, Continues, Open
    <2>2. QED
      BY <1>1, <2>1 DEF Lifting
  <1>9. CASE UNCHANGED <<viewers, op>>
    <2>1. s \in Open
      BY <1>9 DEF Open
    <2>2. QED
      BY <1>1, <1>9, <2>1 DEF Lifting
  <1>10. QED
    BY <1>3, <1>4, <1>5, <1>6, <1>7, <1>8, <1>9, Elsewhere, NextIs
-----------------------------------------------------------------------------
(* Holds                                                                   *)

LEMMA HoldIs ==
  ASSUME TypeOK, Next, NEW d \in Desktop
  PROVE  \/ hold'[d].by = hold[d].by
         \/ /\ SetHold /\ d = op.desktop
            /\ hold'[d] = [by |-> "page", left |-> OpenHold]
         \/ hold'[d] = NoHold
         \/ /\ PowerHolds(d)
            /\ hold'[d].by = IF hold[d].by = "page" THEN "over" ELSE "power"
         \/ /\ PowerRestores(d) /\ hold[d].by = "over" /\ hold'[d].by = "page"
         \/ BusyEnd /\ hold'[d].by # "over" /\ hold[d].by = "over" /\ hold'[d].by = "power"
  <1>1. hold \in [Desktop -> Hold] /\ hold[d] \in Hold /\ op.desktop \in Desktop
    BY HoldTypes, OpTypes DEF TypeOK
  <1>2. CASE OpenFails \/ Create \/ SweepBegin \/ SweepEnd \/ BusyBegin \/ Crash
    BY <1>2 DEF OpenFails, Create, SweepBegin, SweepEnd, BusyBegin, Crash, around
  <1>3. CASE SetHold
    BY <1>1, <1>3 DEF SetHold
  <1>4. CASE Renew
    <2>1. \A h \in Hold : Renewed(h).by = h.by
      BY DEF Renewed, Hold
    <2>2. QED
      BY <1>1, <1>4, <2>1 DEF Renew
  <1>5. ASSUME NEW e \in Desktop, Lift(e) \/ OpenBegin(e) \/ Resume(e)
        PROVE  hold'[d] = hold[d] \/ hold'[d] = NoHold
    BY <1>1, <1>5 DEF Lift, OpenBegin, Resume, around
  <1>6. ASSUME NEW e \in Desktop, PowerHolds(e)
        PROVE  \/ hold'[d] = hold[d]
               \/ /\ PowerHolds(d)
                  /\ hold'[d].by = IF hold[d].by = "page" THEN "over" ELSE "power"
    <2>1. hold' = [hold EXCEPT ![e] = [hold[e] EXCEPT !.by =
                     IF hold[e].by = "page" THEN "over" ELSE "power"]]
      BY <1>1, <1>6 DEF PowerHolds
    <2>2. CASE d = e
      BY <1>1, <1>6, <2>1, <2>2 DEF Hold
    <2>3. CASE d # e
      BY <1>1, <2>1, <2>3
    <2>4. QED
      BY <2>2, <2>3
  <1>7. ASSUME NEW e \in Desktop, PowerRestores(e)
        PROVE  \/ hold'[d] = hold[d]
               \/ PowerRestores(d) /\ hold[d].by = "over" /\ hold'[d].by = "page"
    <2>1. hold' = [hold EXCEPT ![e] = [hold[e] EXCEPT !.by = "page"]]
      BY <1>1, <1>7 DEF PowerRestores
    <2>2. CASE d = e
      BY <1>1, <1>7, <2>1, <2>2 DEF Hold, PowerRestores
    <2>3. CASE d # e
      BY <1>1, <2>1, <2>3
    <2>4. QED
      BY <2>2, <2>3
  <1>8. ASSUME NEW w \in Window, Beat(w) \/ Close(w)
        PROVE  hold' = hold
    BY <1>8 DEF Beat, Close, around
  <1>9. ASSUME NEW w \in Window, NEW s \in Session, Load(w, s)
        PROVE  hold' = hold
    BY <1>9 DEF Load, around
  <1>10. ASSUME NEW m \in net, Pulse(m)
         PROVE  hold' = hold
    BY <1>10 DEF Pulse, around
  <1>11. CASE Expire
    BY <1>1, <1>11 DEF Expire
  <1>12. CASE BusyEnd
    BY <1>1, <1>12 DEF BusyEnd, Hold
  <1>13. CASE Tick
    BY <1>1, <1>13 DEF Tick, Hold
  <1>14. QED
    BY <1>2, <1>3, <1>4, <1>5, <1>6, <1>7, <1>8, <1>9, <1>10, <1>11, <1>12, <1>13,
       NextIs

LEMMA TakenByPowerStep ==
  ASSUME TypeOK, TakenByPower, Next
  PROVE  TakenByPower'
  <1>1. SUFFICES ASSUME NEW d \in Desktop, hold'[d].by = "over"
                 PROVE  busy' = "power" /\ d \in freed'
    BY DEF TakenByPower
  <1>2. CASE PowerHolds(d)
    BY <1>2 DEF PowerHolds
  <1>3. CASE hold[d].by = "over"
    <2>1. busy = "power" /\ d \in freed
      BY <1>3 DEF TakenByPower
    <2>2. CASE BusyEnd
      <3>1. hold'[d].by # "over"
        BY <1>3, <2>2, HoldTypes DEF BusyEnd, Hold
      <3>2. QED
        BY <1>1, <3>1
    <2>3. CASE SetHold
      <3>1. d # op.desktop
        BY <1>1, <2>3 DEF SetHold, TypeOK
      <3>2. QED
        BY <2>1, <2>3, <3>1 DEF SetHold
    <2>4. CASE ~BusyEnd /\ ~SetHold
      <3>1. busy' = busy \/ busy = "no"
        BY <2>4 DEF Next, Server, Users, Power, OpenFails, Create, Renew, SweepBegin,
           SweepEnd, Lift, OpenBegin, Resume, Beat, Close, Load, BusyBegin, PowerHolds,
           PowerRestores, Expire, Crash, Tick, Pulse, around
      <3>2. freed \subseteq freed'
        BY <2>4 DEF Next, Server, Users, Power, OpenFails, Create, Renew, SweepBegin,
           SweepEnd, Lift, OpenBegin, Resume, Beat, Close, Load, BusyBegin, PowerHolds,
           PowerRestores, Expire, Crash, Tick, Pulse, history
      <3>3. QED
        BY <2>1, <3>1, <3>2
    <2>5. QED
      BY <2>2, <2>3, <2>4
  <1>4. QED
    BY <1>1, <1>2, <1>3, HoldIs DEF NoHold

(* A desktop with a session stays accounted for until its hold is lifted.  *)
LEMMA AccountedStays ==
  ASSUME TypeOK, RenewsOpen, Next, NEW d \in Desktop, Accounted(d),
         ~(Lift(d) /\ busy = "no")
  PROVE  Accounted(d)'
  <1>1. CASE Crash
    BY <1>1 DEF Crash, Accounted
  <1>2. CASE Create
    <2>1. PICK over : /\ over = {s \in Open : Expired(s)}
                      /\ resumes' = resumes \cup DesktopsOf(over)
      BY <1>2 DEF Create
    <2>2. CASE d = op.desktop
      <3>1. CASE op.desktop \in loose'
        BY <2>2, <3>1 DEF Accounted
      <3>2. CASE op.desktop \notin loose'
        <4>1. PICK s \in Session : viewers'[s] = NewViewer(op.desktop)
          BY <1>2, <3>2, CreateIs
        <4>2. viewers'[s].closed # 0 /\ viewers'[s].desktop = d
          BY <2>2, <4>1, Graces DEF NewViewer
        <4>3. s \in Open'
          BY <4>2, SomeViewer DEF Open
        <4>4. QED
          BY <4>2, <4>3 DEF Accounted
      <3>3. QED
        BY <3>1, <3>2
    <2>3. CASE d # op.desktop
      <3>1. CASE d \in resumes \cup loose
        <4>1. d \in resumes' \cup loose'
          BY <1>2, <2>1, <2>3, <3>1, CreateIs
        <4>2. QED
          BY <4>1 DEF Accounted
      <3>2. ASSUME NEW s \in Open, viewers[s].desktop = d
            PROVE  Accounted(d)'
        <4>1. CASE s \in over
          BY <2>1, <3>2, <4>1 DEF DesktopsOf, Accounted
        <4>2. CASE s \notin over
          <5>1. s \in Session /\ viewers'[s] = viewers[s]
            BY <1>2, <2>1, <4>2, CreateIs DEF Open, Forgotten
          <5>2. s \in Open'
            BY <5>1 DEF Open
          <5>3. QED
            BY <3>2, <5>1, <5>2 DEF Accounted
        <4>3. QED
          BY <4>1, <4>2
      <3>3. QED
        BY <2>3, <3>1, <3>2 DEF Accounted
    <2>4. QED
      BY <2>2, <2>3
  <1>3. CASE SweepBegin
    <2>1. PICK over : /\ over = {s \in Open : Over(s)} /\ viewers' = Without(over)
                      /\ resumes' = resumes \cup DesktopsOf(over)
      BY <1>3 DEF SweepBegin
    <2>2. op.at # "create" /\ loose' = loose
      BY <1>3 DEF SweepBegin, OpFree, history
    <2>3. ASSUME NEW s \in Open, viewers[s].desktop = d
          PROVE  Accounted(d)'
      <3>1. CASE s \in over
        BY <2>1, <2>3, <3>1 DEF DesktopsOf, Accounted
      <3>2. CASE s \notin over
        <4>1. s \in Session /\ viewers'[s] = viewers[s]
          BY <2>1, <3>2, WithoutIs DEF Open
        <4>2. QED
          BY <2>3, <4>1 DEF Accounted, Open
      <3>3. QED
        BY <3>1, <3>2
    <2>4. QED
      BY <2>1, <2>2, <2>3 DEF Accounted
  <1>4. CASE /\ Continues /\ resumes' = resumes /\ loose' = loose
             /\ op.at = "create" => op' = op
    <2>1. ASSUME NEW s \in Open, viewers[s].desktop = d
          PROVE  s \in Open' /\ viewers'[s].desktop = d
      BY <1>4, <2>1 DEF Continues, Open
    <2>2. QED
      BY <1>4, <2>1 DEF Accounted
  <1>5. CASE Renew \/ Tick
    <2>1. Continues
      BY <1>5, WindowsContinue
    <2>2. resumes' = resumes /\ loose' = loose /\ (op.at = "create" => op' = op)
      BY <1>5 DEF Renew, Tick, history
    <2>3. QED
      BY <1>4, <2>1, <2>2
  <1>6. ASSUME NEW w \in Window, NEW s \in Session, Load(w, s)
        PROVE  Accounted(d)'
    <2>1. Continues
      BY <1>6, WindowsContinue
    <2>2. resumes' = resumes /\ loose' = loose /\ op.at # "create"
      BY <1>6 DEF Load, history, OpFree
    <2>3. QED
      BY <1>4, <2>1, <2>2
  <1>7. ASSUME NEW m \in net, Pulse(m)
        PROVE  Accounted(d)'
    <2>1. Continues
      BY <1>7, WindowsContinue
    <2>2. resumes' = resumes /\ loose' = loose /\ op.at # "create"
      BY <1>7 DEF Pulse, history, OpFree
    <2>3. QED
      BY <1>4, <2>1, <2>2
  <1>8. CASE /\ UNCHANGED <<viewers, loose>> /\ (d \in resumes => d \in resumes')
             /\ (op.at = "create" => op' = op)
    BY <1>8 DEF Accounted, Open
  <1>9. CASE OpenFails \/ SetHold \/ SweepEnd
    <2>1. UNCHANGED <<viewers, loose, resumes>> /\ op.at # "create"
      BY <1>9 DEF OpenFails, SetHold, SweepEnd, history
    <2>2. QED
      BY <1>8, <2>1
  <1>10. ASSUME NEW e \in Desktop, Lift(e) \/ OpenBegin(e)
         PROVE  Accounted(d)'
    <2>1. UNCHANGED <<viewers, loose>> /\ op.at # "create"
      BY <1>10 DEF Lift, OpenBegin, history, OpFree
    <2>2. d \in resumes => d \in resumes'
      BY <1>10 DEF Lift, OpenBegin, KeepsRefused
    <2>3. QED
      BY <1>8, <2>1, <2>2
  <1>11. CASE \/ \E e \in Desktop : Resume(e) \/ PowerHolds(e) \/ PowerRestores(e)
              \/ \E w \in Window : Beat(w) \/ Close(w)
              \/ BusyBegin \/ Expire \/ BusyEnd
    <2>1. UNCHANGED <<viewers, resumes, op>>
      BY <1>11, Elsewhere
    <2>2. loose' = loose
      BY <1>11 DEF Resume, PowerHolds, PowerRestores, Beat, Close, BusyBegin, Expire,
         BusyEnd, history
    <2>3. QED
      BY <1>8, <2>1, <2>2
  <1>12. QED
    BY <1>1, <1>2, <1>3, <1>5, <1>6, <1>7, <1>9, <1>10, <1>11, NextIs

LEMMA HoldsAccountedStep ==
  ASSUME TypeOK, RenewsOpen, HoldsAccounted, TakenByPower, Next
  PROVE  HoldsAccounted'
  <1>1. SUFFICES ASSUME NEW d \in Desktop, hold'[d].by \in {"page", "over"}
                 PROVE  Accounted(d)'
    BY DEF HoldsAccounted
  <1>2. CASE SetHold /\ d = op.desktop
    <2>1. op'.at = "create" /\ op'.desktop = d
      BY <1>2 DEF SetHold, TypeOK, Op
    <2>2. QED
      BY <2>1 DEF Accounted
  <1>3. CASE hold[d].by \in {"page", "over"}
    <2>1. Accounted(d)
      BY <1>3 DEF HoldsAccounted
    <2>2. CASE Lift(d) /\ busy = "no"
      <3>1. hold[d].by = "page"
        BY <1>3, <2>2 DEF TakenByPower
      <3>2. hold' = [hold EXCEPT ![d] = NoHold]
        BY <2>2, <3>1 DEF Lift
      <3>3. hold'[d].by = "none"
        BY <3>2 DEF TypeOK, NoHold
      <3>4. QED
        BY <1>1, <3>3
    <2>3. QED
      BY <2>1, <2>2, AccountedStays
  <1>4. QED
    BY <1>1, <1>2, <1>3, HoldIs, HoldTypes DEF NoHold, PowerHolds
-----------------------------------------------------------------------------
(* Messages                                                                *)

LEMMA ClosesOfGoneStep ==
  ASSUME TypeOK, ClosesOfGone, Next
  PROVE  ClosesOfGone'
  <1>1. SUFFICES ASSUME NEW m \in net', m.kind = "close"
                 PROVE  window'[m.window].at = "gone"
    BY DEF ClosesOfGone
  <1>2. window \in [Window -> Page] /\ NoPage.at = "gone"
    BY DEF TypeOK, NoPage
  <1>3. m \in net => window[m.window].at = "gone" /\ m.window \in Window
    BY <1>1 DEF ClosesOfGone, TypeOK, Message
  <1>4. CASE UNCHANGED <<window, net>>
    BY <1>3, <1>4
  <1>5. ASSUME NEW w \in Window, Beat(w)
        PROVE  window'[m.window].at = "gone"
    <2>1. window' = window /\ net' = net \cup {[kind |-> "beat", window |-> w,
                                                session |-> window[w].session]}
      BY <1>5 DEF Beat, Send
    <2>2. QED
      BY <1>1, <1>3, <2>1
  <1>6. ASSUME NEW w \in Window, Close(w)
        PROVE  window'[m.window].at = "gone"
    <2>1. /\ window' = [window EXCEPT ![w] = NoPage]
          /\ m \in net \/ m.window = w
      BY <1>6 DEF Close, Send
    <2>2. QED
      BY <1>2, <1>3, <2>1
  <1>7. ASSUME NEW w \in Window, NEW s \in Session, Load(w, s)
        PROVE  window'[m.window].at = "gone"
    <2>1. m \in net /\ m.window # w
      BY <1>7 DEF Load
    <2>2. window'[m.window] = window[m.window]
      BY <1>3, <1>7, <2>1 DEF Load
    <2>3. QED
      BY <1>3, <2>1, <2>2
  <1>8. ASSUME NEW n \in net, Pulse(n)
        PROVE  window'[m.window].at = "gone"
    <2>1. /\ m \in net
          /\ window' = window \/ window' = [window EXCEPT ![n.window] = NoPage]
      BY <1>8, PulseIs
    <2>2. QED
      BY <1>2, <1>3, <2>1
  <1>9. CASE Crash \/ Tick
    <2>1. net' = net /\ m.window \in Window
      BY <1>3, <1>9 DEF Crash, Tick
    <2>2. window'[m.window] = window[m.window]
      BY <1>3, <1>9, <2>1 DEF Crash, Tick
    <2>3. QED
      BY <1>3, <2>1, <2>2
  <1>10. CASE \/ OpenFails \/ SetHold \/ Create \/ Renew \/ SweepBegin \/ SweepEnd
              \/ BusyBegin \/ Expire \/ BusyEnd
              \/ \E d \in Desktop : Lift(d) \/ OpenBegin(d) \/ Resume(d)
                                      \/ PowerHolds(d) \/ PowerRestores(d)
    BY <1>4, <1>10 DEF OpenFails, SetHold, Create, Renew, SweepBegin, SweepEnd,
       BusyBegin, Expire, BusyEnd, Lift, OpenBegin, Resume, PowerHolds, PowerRestores,
       browser
  <1>11. QED
    BY <1>5, <1>6, <1>7, <1>8, <1>9, <1>10, NextIs
-----------------------------------------------------------------------------
(* Renewals                                                                *)

(* Nothing but time, the user and the power batch shortens a hold that is  *)
(* not being lifted.                                                       *)
LEMMA HeldSinceStays ==
  ASSUME TypeOK, TakenByPower, Next, ~Tick, NEW d \in Desktop, ~Lift(d),
         NEW age \in Nat, age < RenewHold, HeldSince(d, age)
  PROVE  HeldSince(d, age)'
  <1>1. /\ hold \in [Desktop -> Hold] /\ hold[d] \in Hold /\ hold[d].left \in Nat
        /\ RenewHold \in Nat /\ OpenHold \in Nat /\ RenewHold <= OpenHold
    <2>1. hold[d].left \in 0..OpenHold
      BY HoldTypes
    <2>2. QED
      BY <2>1, HoldTypes, Graces DEF TypeOK
  <1>2. CASE SetHold
    <2>1. CASE d = op.desktop
      <3>1. hold'[d].by = "page" /\ hold'[d].left = OpenHold
        BY <1>1, <1>2, <2>1 DEF SetHold
      <3>2. QED
        BY <1>1, <3>1 DEF HeldSince
    <2>2. CASE d # op.desktop
      BY <1>1, <1>2, <2>2 DEF SetHold, HeldSince
    <2>3. QED
      BY <2>1, <2>2
  <1>3. CASE ~SetHold /\ d \in freed
    <2>1. freed \subseteq freed'
      BY <1>3 DEF Next, Server, Users, Power, OpenFails, Create, Renew, SweepBegin,
         SweepEnd, Lift, OpenBegin, Resume, Beat, Close, Load, BusyBegin, PowerHolds,
         PowerRestores, Expire, BusyEnd, Crash, Tick, Pulse, history
    <2>2. QED
      BY <1>3, <2>1 DEF HeldSince
  <1>4. CASE ~SetHold /\ d \notin freed
    <2>1. hold[d].by = "page" /\ hold[d].left + age >= RenewHold
      BY <1>4 DEF HeldSince
    <2>2. CASE hold'[d] = hold[d]
      BY <2>1, <2>2 DEF HeldSince
    <2>3. CASE d \in freed'
      BY <2>3 DEF HeldSince
    <2>4. CASE Renew
      <3>1. hold'[d] = hold[d] \/ hold'[d] = Renewed(hold[d])
        BY <1>1, <2>4 DEF Renew
      <3>2. /\ Renewed(hold[d]).by = "page"
            /\ Renewed(hold[d]).left = IF hold[d].left < RenewHold THEN RenewHold
                                       ELSE hold[d].left
        BY <1>1, <2>1 DEF Renewed, Hold
      <3>3. CASE hold'[d] = Renewed(hold[d])
        BY <1>1, <2>1, <3>2, <3>3 DEF HeldSince
      <3>4. QED
        BY <2>2, <3>1, <3>3
    <2>5. CASE OpenFails \/ Create \/ SweepBegin \/ SweepEnd \/ BusyBegin \/ Crash
      BY <2>2, <2>5 DEF OpenFails, Create, SweepBegin, SweepEnd, BusyBegin, Crash, around
    <2>6. ASSUME NEW e \in Desktop,
                 Lift(e) \/ OpenBegin(e) \/ Resume(e) \/ PowerHolds(e) \/ PowerRestores(e)
          PROVE  hold'[d] = hold[d] \/ d \in freed'
      <3>1. CASE Lift(e) \/ OpenBegin(e)
        BY <1>1, <3>1 DEF Lift, OpenBegin, around
      <3>2. CASE Resume(e) \/ PowerHolds(e)
        BY <1>1, <3>2 DEF Resume, PowerHolds
      <3>3. CASE PowerRestores(e)
        <4>1. hold[e].by = "over"
          BY <3>3 DEF PowerRestores
        <4>2. e # d
          BY <2>1, <4>1
        <4>3. QED
          BY <1>1, <3>3, <4>2 DEF PowerRestores
      <3>4. QED
        BY <2>6, <3>1, <3>2, <3>3
    <2>7. CASE \/ \E w \in Window : Beat(w) \/ Close(w)
               \/ \E w \in Window, s \in Session : Load(w, s)
               \/ \E m \in net : Pulse(m)
      BY <2>2, <2>7 DEF Beat, Close, Load, Pulse, around
    <2>8. CASE Expire \/ BusyEnd
      <3>1. hold[d].left > 0
        BY <1>1, <2>1
      <3>2. ~Lapsed(hold[d]) /\ hold[d].by # "over"
        BY <2>1, <3>1 DEF Lapsed
      <3>3. hold'[d] = hold[d]
        BY <1>1, <2>8, <3>2 DEF Expire, BusyEnd
      <3>4. QED
        BY <2>2, <3>3
    <2>9. QED
      BY <1>4, <2>2, <2>3, <2>4, <2>5, <2>6, <2>7, <2>8, NextIs
  <1>5. QED
    BY <1>2, <1>3, <1>4

(* A session is heard of, and nothing else of it changes that a renewal    *)
(* depends on.                                                             *)
LEMMA HeardOrNot ==
  ASSUME TypeOK, RenewsOpen, Next, ~Create, ~Tick, NEW s \in Open'
  PROVE  /\ s \in Open /\ viewers'[s].desktop = viewers[s].desktop
         /\ viewers'[s].left = viewers[s].left
         /\ viewers'[s].seen = viewers[s].seen \/ viewers'[s].seen = 0
         /\ \/ viewers'[s].fed = viewers[s].fed
            \/ /\ Renew /\ s = op.session /\ viewers[s].fed < HeartbeatGrace
               /\ viewers'[s].fed = viewers[s].seen
               /\ viewers'[s].seen = viewers[s].seen
  <1>1. /\ s \in Open /\ viewers'[s].desktop = viewers[s].desktop
        /\ s \in Session /\ viewers'[s] # NoViewer
    BY OpenAfter DEF Open
  <1>2. ASSUME NEW w \in Window, NEW r \in Session, Load(w, r)
        PROVE  /\ viewers'[s].left = viewers[s].left
               /\ viewers'[s].seen = viewers[s].seen \/ viewers'[s].seen = 0
               /\ viewers'[s].fed = viewers[s].fed
    BY <1>1, <1>2, LoadIs
  <1>3. ASSUME NEW m \in net, Pulse(m)
        PROVE  /\ viewers'[s].left = viewers[s].left
               /\ viewers'[s].seen = viewers[s].seen \/ viewers'[s].seen = 0
               /\ viewers'[s].fed = viewers[s].fed
    <2>1. \/ viewers' = viewers \/ viewers' = Heard(m.session)
          \/ viewers' = [viewers EXCEPT ![m.session].closed = 0]
      BY <1>3, PulseIs
    <2>2. m.session \in Session
      BY <1>3, PulseIs
    <2>3. QED
      BY <1>1, <2>1, <2>2, HeardIs, ClosedIs
  <1>4. CASE Renew
    BY <1>1, <1>4, RenewIs
  <1>5. CASE SweepBegin \/ Crash
    <2>1. PICK ids : viewers' = Without(ids)
      BY <1>5 DEF SweepBegin, Crash
    <2>2. viewers'[s] = viewers[s]
      BY <1>1, <2>1, WithoutIs
    <2>3. QED
      BY <1>1, <2>2
  <1>6. CASE OpenFails \/ SetHold \/ SweepEnd \/ \E d \in Desktop : Lift(d) \/ OpenBegin(d)
    <2>1. viewers' = viewers
      BY <1>6 DEF OpenFails, SetHold, SweepEnd, Lift, OpenBegin
    <2>2. QED
      BY <1>1, <2>1
  <1>7. CASE viewers' = viewers
    BY <1>1, <1>7
  <1>8. QED
    BY <1>1, <1>2, <1>3, <1>4, <1>5, <1>6, <1>7, Elsewhere, NextIs

LEMMA RenewalsStep ==
  ASSUME TypeOK, RenewsOpen, Lifting, TakenByPower, Renewals, Next
  PROVE  Renewals'
  <1>1. /\ RenewHold \in Nat /\ 0 < RenewHold /\ OpenHold >= RenewHold
        /\ HeartbeatGrace \in Nat /\ HeartbeatGrace > 0
        /\ HeartbeatGrace <= RenewHold /\ OpenHold \in Nat
    BY PagesAssumption
  <1>2. op \in Op /\ op.desktop \in Desktop
    BY OpTypes DEF TypeOK
  <1>3. ASSUME op'.at = "create"
        PROVE  HeldSince(op.desktop, 0)' /\ op'.desktop = op.desktop
    <2>1. CASE SetHold
      <3>1. /\ hold'[op.desktop].by = "page" /\ hold'[op.desktop].left = OpenHold
            /\ op'.desktop = op.desktop
        BY <1>2, <2>1 DEF SetHold, TypeOK, Op
      <3>2. QED
        BY <1>1, <3>1 DEF HeldSince
    <2>2. CASE ~SetHold
      <3>1. op' = op /\ ~Tick /\ ~Lift(op.desktop)
        <4>1. ASSUME NEW d \in Desktop, Lift(d) PROVE FALSE
          BY <1>2, <1>3, <4>1 DEF Lift, Op
        <4>2. ASSUME NEW d \in Desktop, OpenBegin(d) PROVE FALSE
          BY <1>3, <4>2 DEF OpenBegin, Free
        <4>3. ASSUME NEW w \in Window, NEW s \in Session, Load(w, s) PROVE FALSE
          BY <1>3, <4>3 DEF Load, RenewOf, Free
        <4>4. ASSUME NEW m \in net, Pulse(m) PROVE FALSE
          BY <1>3, <4>4, PulseIs DEF OpFree, RenewOf, Free
        <4>5. ASSUME OpenFails \/ Create \/ Renew \/ SweepBegin \/ SweepEnd \/ Crash
              PROVE  FALSE
          <5>1. op' = Free \/ \E todo : op' = [Free EXCEPT !.at = "sweep", !.todo = todo]
            BY <4>5 DEF OpenFails, Create, Renew, SweepBegin, SweepEnd, Crash
          <5>2. op'.at = "free" \/ op'.at = "sweep"
            BY <5>1, Constants DEF Free, Op
          <5>3. QED
            BY <1>3, <5>2
        <4>6. CASE Tick
          BY <1>3, <4>6 DEF Tick
        <4>7. ~Tick /\ op' = op
          BY <2>2, <4>1, <4>2, <4>3, <4>4, <4>5, <4>6, Elsewhere, NextIs
        <4>8. QED
          BY <1>2, <4>1, <4>7
      <3>2. HeldSince(op.desktop, 0)
        BY <1>3, <3>1 DEF Renewals
      <3>3. PICK d \in Desktop : d = op.desktop
        BY <1>2
      <3>4. HeldSince(d, 0)'
        BY <1>1, <3>1, <3>2, <3>3, HeldSinceStays
      <3>5. QED
        BY <3>1, <3>3, <3>4
    <2>3. QED
      BY <2>1, <2>2
  <1>4. ASSUME NEW s \in Open'
        PROVE  /\ viewers'[s].seen <= viewers'[s].fed
               /\ viewers'[s].fed < HeartbeatGrace =>
                    HeldSince(viewers[s].desktop, viewers[s].fed)'
    <2>1. s \in Session
      BY DEF Open
    <2>2. CASE Create /\ s \notin Open
      <3>1. viewers'[s] = NewViewer(op.desktop)
        BY <2>2, OpenAfter
      <3>2. /\ viewers'[s].seen = 0 /\ viewers'[s].fed = 0
            /\ viewers'[s].desktop = op.desktop
        BY <3>1 DEF NewViewer
      <3>3. HeldSince(op.desktop, 0) /\ UNCHANGED <<freed, hold>>
        BY <2>2 DEF Create, Renewals, around
      <3>4. QED
        BY <3>2, <3>3 DEF HeldSince
    <2>3. CASE s \in Open
      <3>1. /\ viewers[s].seen <= viewers[s].fed
            /\ viewers[s].fed < HeartbeatGrace =>
                 HeldSince(viewers[s].desktop, viewers[s].fed)
        BY <2>3 DEF Renewals
      <3>2. /\ viewers[s].seen \in Nat /\ viewers[s].fed \in Nat
            /\ viewers[s].desktop \in Desktop
        <4>1. /\ viewers[s].seen \in 0..HeartbeatGrace
              /\ viewers[s].fed \in 0..HeartbeatGrace
          BY <2>1, ViewerTypes
        <4>2. QED
          BY <2>1, <4>1, ViewerTypes
      <3>3. CASE Create
        <4>1. viewers'[s] = viewers[s] /\ UNCHANGED <<freed, hold>>
          <5>1. UNCHANGED <<freed, hold>>
            BY <3>3 DEF Create, around
          <5>2. viewers'[s] # NoViewer
            BY DEF Open
          <5>3. QED
            BY <2>1, <2>3, <3>3, <5>1, <5>2, CreateIs DEF Forgotten
        <4>2. QED
          BY <3>1, <4>1 DEF HeldSince
      <3>4. CASE Tick
        <4>1. /\ viewers'[s].desktop = viewers[s].desktop
              /\ viewers'[s].seen = Later(viewers[s].seen, HeartbeatGrace)
              /\ viewers'[s].fed = Later(viewers[s].fed, HeartbeatGrace)
          BY <2>1, <2>3, <3>4, TickIs
        <4>2. viewers'[s].seen <= viewers'[s].fed
          BY <1>1, <3>1, <3>2, <4>1 DEF Later
        <4>3. ASSUME viewers'[s].fed < HeartbeatGrace
              PROVE  HeldSince(viewers[s].desktop, viewers[s].fed)'
          <5> DEFINE d == viewers[s].desktop
          <5>1. viewers[s].fed < HeartbeatGrace /\ viewers'[s].fed = viewers[s].fed + 1
            BY <1>1, <3>2, <4>1, <4>3 DEF Later
          <5>2. HeldSince(d, viewers[s].fed)
            BY <3>1, <5>1
          <5>3. /\ hold'[d] = [hold[d] EXCEPT !.left = Sooner(@)]
                /\ freed' = freed
            BY <3>2, <3>4 DEF Tick, history
          <5>4. hold[d] \in Hold /\ hold[d].left \in Nat
            <6>1. hold[d].left \in 0..OpenHold
              BY <3>2, HoldTypes
            <6>2. QED
              BY <3>2, <6>1, HoldTypes
          <5>5. /\ hold'[d].by = hold[d].by
                /\ hold'[d].left = Sooner(hold[d].left)
            BY <5>3, <5>4 DEF Hold
          <5>6. hold'[d].left \in Nat /\ hold[d].left <= hold'[d].left + 1
            BY <5>4, <5>5 DEF Sooner
          <5>7. hold[d].left + viewers[s].fed >= RenewHold =>
                  hold'[d].left + viewers'[s].fed >= RenewHold
            BY <1>1, <3>2, <5>1, <5>4, <5>6
          <5>8. QED
            BY <4>1, <5>2, <5>3, <5>5, <5>7 DEF HeldSince
        <4>4. QED
          BY <4>2, <4>3
      <3>5. CASE ~Create /\ ~Tick
        <4>1. /\ viewers'[s].desktop = viewers[s].desktop
              /\ viewers'[s].seen = viewers[s].seen \/ viewers'[s].seen = 0
              /\ \/ viewers'[s].fed = viewers[s].fed
                 \/ /\ Renew /\ s = op.session /\ viewers[s].fed < HeartbeatGrace
                    /\ viewers'[s].fed = viewers[s].seen
                    /\ viewers'[s].seen = viewers[s].seen
          BY <3>5, HeardOrNot
        <4>2. viewers'[s].seen <= viewers'[s].fed
          BY <3>1, <3>2, <4>1
        <4>3. ~Lift(viewers[s].desktop)
          BY <2>3 DEF Lift, Lifting
        <4>4. CASE viewers'[s].fed = viewers[s].fed
          <5>1. ASSUME viewers[s].fed < HeartbeatGrace
                PROVE  HeldSince(viewers[s].desktop, viewers[s].fed)'
            <6>1. PICK d \in Desktop, age \in Nat :
                    d = viewers[s].desktop /\ age = viewers[s].fed
              BY <3>2
            <6>2. age < RenewHold
              BY <1>1, <5>1, <6>1
            <6>3. HeldSince(d, age)'
              BY <3>1, <3>5, <4>3, <5>1, <6>1, <6>2, HeldSinceStays
            <6>4. QED
              BY <4>1, <4>4, <6>1, <6>3 DEF HeldSince
          <5>2. QED
            BY <4>2, <4>4, <5>1
        <4>5. CASE /\ Renew /\ s = op.session /\ viewers[s].fed < HeartbeatGrace
                   /\ viewers'[s].fed = viewers[s].seen
                   /\ viewers'[s].fed # viewers[s].fed
          <5> DEFINE d == viewers[s].desktop
          <5>1. HeldSince(d, viewers[s].fed) /\ hold[d] \in Hold /\ freed' = freed
            BY <3>1, <3>2, <4>5, HoldTypes DEF Renew, history
          <5>2. hold' = IF hold[d].by = "page"
                        THEN [hold EXCEPT ![d] = Renewed(hold[d])] ELSE hold
            BY <4>5 DEF Renew
          <5>3. CASE hold[d].by = "page"
            <6>1. hold'[d] = Renewed(hold[d])
              BY <3>2, <5>2, <5>3 DEF TypeOK
            <6>2. hold'[d].by = "page" /\ hold'[d].left \in Nat
                  /\ hold'[d].left >= RenewHold
              <7>1. /\ Renewed(hold[d]).by = "page"
                    /\ Renewed(hold[d]).left = IF hold[d].left < RenewHold
                                               THEN RenewHold ELSE hold[d].left
                BY <5>1, <5>3 DEF Renewed, Hold
              <7>2. hold[d].left \in 0..OpenHold
                BY <3>2, HoldTypes
              <7>3. QED
                BY <1>1, <6>1, <7>1, <7>2
            <6>3. QED
              BY <1>1, <3>2, <4>1, <4>2, <4>5, <6>2 DEF HeldSince
          <5>4. CASE hold[d].by # "page"
            BY <4>1, <4>2, <5>1, <5>4 DEF HeldSince
          <5>5. QED
            BY <5>3, <5>4
        <4>6. QED
          BY <4>1, <4>4, <4>5
      <3>6. QED
        BY <3>3, <3>4, <3>5
    <2>4. QED
      BY <2>2, <2>3, OpenAfter
  <1>5. QED
    BY <1>3, <1>4 DEF Renewals, HeldSince
-----------------------------------------------------------------------------
(* Windows                                                                 *)

LEMMA KeptPagesStep ==
  ASSUME TypeOK, RenewsOpen, ClosesOfGone, Renewals, KeptPages, Next
  PROVE  KeptPages'
  <1>1. /\ HeartbeatGrace \in Nat /\ HeartbeatGrace > 0 /\ NotClosed # 0
        /\ NotClosed # CloseGrace /\ NotClosed > CloseGrace /\ CloseGrace \in Nat
        /\ NotClosed \in Nat /\ NoWindow \notin Window
    BY PagesAssumption DEF NotClosed
  <1>2. SUFFICES ASSUME NEW w \in Window, window'[w].at = "kept"
                 PROVE  /\ viewers'[window'[w].session].window = w
                        /\ viewers'[window'[w].session].closed = NotClosed
                        /\ viewers'[window'[w].session].left > 0
                        /\ viewers'[window'[w].session].fed < HeartbeatGrace
    BY DEF KeptPages
  <1> DEFINE s == window[w].session
             v == viewers[s]
  <1>3. window \in [Window -> Page] /\ s \in Session
    BY DEF TypeOK, Page
  <1>4. window[w].at = "kept" =>
          /\ s \in Open /\ v.window = w /\ v.closed = NotClosed
          /\ v.left > 0 /\ v.fed < HeartbeatGrace
    BY <1>1, <1>3, SessionOfViewer DEF KeptPages
  <1>5. ASSUME window[w].at = "kept", window'[w] = window[w],
               viewers'[s] = v
        PROVE  /\ viewers'[window'[w].session].window = w
               /\ viewers'[window'[w].session].closed = NotClosed
               /\ viewers'[window'[w].session].left > 0
               /\ viewers'[window'[w].session].fed < HeartbeatGrace
    BY <1>4, <1>5
  <1>6. ASSUME NEW x \in Window, NEW r \in Session, Load(x, r)
        PROVE  /\ viewers'[window'[w].session].window = w
               /\ viewers'[window'[w].session].closed = NotClosed
               /\ viewers'[window'[w].session].left > 0
               /\ viewers'[window'[w].session].fed < HeartbeatGrace
    <2>1. CASE w = x
      <3>1. /\ window'[w] = [at |-> IF viewers[r].fed < HeartbeatGrace THEN "kept"
                                    ELSE "other", session |-> r]
            /\ ~Expired(r)
        BY <1>6, <2>1 DEF Load
      <3>2. viewers[r].fed < HeartbeatGrace /\ window'[w].session = r
        BY <1>2, <3>1
      <3>3. viewers[r].left \in Nat /\ viewers[r].left > 0
        BY <3>1, ViewerTypes DEF Expired
      <3>4. QED
        BY <1>6, <2>1, <3>2, <3>3, LoadIs
    <2>2. CASE w # x
      <3>1. window'[w] = IF window[w] = [at |-> "kept", session |-> r]
                         THEN [window[w] EXCEPT !.at = "other"] ELSE window[w]
        BY <1>6, <2>2 DEF Load
      <3>2. window[w] \in Page
        BY <1>3
      <3>3. window'[w] = window[w] /\ window[w].at = "kept" /\ s # r
        BY <1>2, <3>1, <3>2 DEF Page
      <3>4. viewers'[s] = v
        BY <1>3, <1>6, <3>3, LoadIs
      <3>5. QED
        BY <1>5, <3>3, <3>4
    <2>3. QED
      BY <2>1, <2>2
  <1>7. ASSUME NEW m \in net, Pulse(m)
        PROVE  /\ viewers'[window'[w].session].window = w
               /\ viewers'[window'[w].session].closed = NotClosed
               /\ viewers'[window'[w].session].left > 0
               /\ viewers'[window'[w].session].fed < HeartbeatGrace
    <2>1. m.session \in Session /\ m.window \in Window
      BY <1>7, PulseIs
    <2>2. window'[w] = window[w] /\ window[w].at = "kept"
      <3>1. window' = window \/ window' = [window EXCEPT ![m.window] = NoPage]
        BY <1>7, PulseIs
      <3>2. NoPage.at = "gone"
        BY DEF NoPage
      <3>3. QED
        BY <1>2, <1>3, <2>1, <3>1, <3>2
    <2>3. CASE viewers' = viewers
      BY <1>5, <2>2, <2>3
    <2>4. CASE m.kind = "close" /\ Latest(m) /\ viewers' = [viewers EXCEPT ![m.session].closed = 0]
      <3>1. window[m.window].at = "gone" /\ viewers[m.session].window = m.window
        BY <2>4 DEF ClosesOfGone, Latest
      <3>2. m.session # s
        BY <1>4, <2>2, <3>1
      <3>3. viewers'[s] = v
        BY <1>3, <2>1, <2>4, <3>2, ClosedIs
      <3>4. QED
        BY <1>5, <2>2, <3>3
    <2>5. CASE viewers' = Heard(m.session)
      <3>1. CASE s = m.session
        BY <1>4, <2>1, <2>2, <2>5, <3>1, HeardIs
      <3>2. CASE s # m.session
        BY <1>3, <1>5, <2>1, <2>2, <2>5, <3>2, HeardIs
      <3>3. QED
        BY <3>1, <3>2
    <2>6. QED
      BY <1>7, <2>3, <2>4, <2>5, PulseIs
  <1>8. CASE Renew
    <2>1. window'[w] = window[w] /\ window[w].at = "kept"
      BY <1>2, <1>8 DEF Renew, browser
    <2>2. v.seen <= v.fed /\ v.fed < HeartbeatGrace
      BY <1>4, <2>1 DEF Renewals
    <2>3. v.seen \in 0..HeartbeatGrace /\ v.fed \in 0..HeartbeatGrace
      BY <1>3, ViewerTypes
    <2>4. viewers'[s].fed < HeartbeatGrace
      <3>1. viewers'[s].fed = v.fed \/ viewers'[s].fed = v.seen
        BY <1>3, <1>8, RenewIs
      <3>2. QED
        BY <1>1, <2>2, <2>3, <3>1
    <2>5. QED
      BY <1>3, <1>4, <1>8, <2>1, <2>4, RenewIs
  <1>9. CASE Tick
    <2>1. /\ window'[w] = window[w] /\ window[w].at = "kept"
          /\ ~(viewers'[s].left = 0 \/ viewers'[s].fed = HeartbeatGrace)
      <3>1. window'[w] = IF /\ window[w].at = "kept"
                            /\ viewers'[s].left = 0 \/ viewers'[s].fed = HeartbeatGrace
                         THEN [window[w] EXCEPT !.at = "other"] ELSE window[w]
        BY <1>9 DEF Tick
      <3>2. window[w] \in Page
        BY <1>3
      <3>3. QED
        BY <1>2, <3>1, <3>2 DEF Page
    <2>2. viewers'[s].left \in Nat /\ viewers'[s].fed \in 0..HeartbeatGrace
      <3>1. viewers'[s] \in Viewer
        BY <1>3, <1>9, TickIs
      <3>2. QED
        BY <3>1 DEF Viewer
    <2>3. viewers'[s].left > 0 /\ viewers'[s].fed < HeartbeatGrace
      BY <1>1, <2>1, <2>2
    <2>4. Later(NotClosed, CloseGrace) = NotClosed
      BY <1>1 DEF Later
    <2>5. viewers'[s].window = w /\ viewers'[s].closed = NotClosed
      BY <1>3, <1>4, <1>9, <2>1, <2>4, TickIs
    <2>6. QED
      BY <2>1, <2>3, <2>5
  <1>10. CASE Crash
    <2>1. window'[w] = IF window[w].at = "kept"
                       THEN [window[w] EXCEPT !.at = "other"] ELSE window[w]
      BY <1>10 DEF Crash
    <2>2. window[w] \in Page
      BY <1>3
    <2>3. window'[w].at # "kept"
      BY <2>1, <2>2 DEF Page
    <2>4. QED
      BY <1>2, <2>3
  <1>11. CASE Create
    <2>1. window'[w] = window[w] /\ window[w].at = "kept"
      BY <1>2, <1>11 DEF Create, browser
    <2>2. s \notin {r \in Open : Expired(r)}
      BY <1>4, <2>1 DEF Expired
    <2>3. ~Forgotten(s)
      BY <1>4, <2>1 DEF Forgotten
    <2>4. viewers'[s] = v
      BY <1>3, <1>11, <2>2, <2>3, CreateIs
    <2>5. QED
      BY <1>5, <2>1, <2>4
  <1>12. CASE SweepBegin
    <2>1. window'[w] = window[w] /\ window[w].at = "kept"
      BY <1>2, <1>12 DEF SweepBegin, browser
    <2>2. ~Over(s)
      <3>1. v.seen <= v.fed
        BY <1>4, <2>1 DEF Renewals
      <3>2. v.seen \in 0..HeartbeatGrace /\ v.fed \in 0..HeartbeatGrace
        BY <1>3, ViewerTypes
      <3>3. v.seen # HeartbeatGrace
        BY <1>1, <1>4, <2>1, <3>1, <3>2
      <3>4. QED
        BY <1>1, <1>4, <2>1, <3>3 DEF Over, Expired
    <2>3. viewers' = Without({r \in Open : Over(r)})
      BY <1>12 DEF SweepBegin
    <2>4. viewers'[s] = v
      BY <1>3, <2>2, <2>3, WithoutIs
    <2>5. QED
      BY <1>5, <2>1, <2>4
  <1>13. ASSUME NEW x \in Window, Beat(x) \/ Close(x)
         PROVE  /\ viewers' = viewers
                /\ window'[w] = window[w] \/ window'[w] = NoPage
    BY <1>3, <1>13 DEF Beat, Close, server
  <1>14. CASE \/ OpenFails \/ SetHold \/ SweepEnd \/ BusyBegin \/ Expire \/ BusyEnd
              \/ \E d \in Desktop : Lift(d) \/ OpenBegin(d) \/ Resume(d)
                                      \/ PowerHolds(d) \/ PowerRestores(d)
    <2>1. UNCHANGED <<viewers, window>>
      BY <1>14 DEF OpenFails, SetHold, SweepEnd, BusyBegin, Expire, BusyEnd, Lift,
         OpenBegin, Resume, PowerHolds, PowerRestores, server, browser
    <2>2. QED
      BY <1>2, <1>5, <2>1
  <1>15. CASE \E x \in Window : Beat(x) \/ Close(x)
    <2>1. viewers' = viewers /\ window'[w] = window[w]
      BY <1>2, <1>13, <1>15 DEF NoPage
    <2>2. QED
      BY <1>2, <1>5, <2>1
  <1>16. QED
    BY <1>6, <1>7, <1>8, <1>9, <1>10, <1>11, <1>12, <1>14, <1>15, NextIs
-----------------------------------------------------------------------------
(* Theorems                                                                *)

LEMMA Initially == Init => IInv
  <1> SUFFICES ASSUME Init PROVE IInv
    OBVIOUS
  <1>1. TypeOK
    BY InitTypes
  <1>2. Open = {} /\ op.at = "free" /\ net = {}
    BY DEF Init, Open, Free
  <1>3. \A d \in Desktop : hold[d].by = "none"
    BY DEF Init, NoHold
  <1>4. \A w \in Window : window[w].at = "gone"
    BY DEF Init, NoPage
  <1>5. QED
    BY <1>1, <1>2, <1>3, <1>4 DEF IInv, RenewsOpen, Lifting, HoldsAccounted,
       TakenByPower, ClosesOfGone, Renewals, KeptPages

LEMMA Preserved == IInv /\ [Next]_vars => IInv'
  <1>1. ASSUME IInv, Next PROVE IInv'
    BY <1>1, TypesStep, RenewsOpenStep, LiftingStep, HoldsAccountedStep,
       TakenByPowerStep, ClosesOfGoneStep, RenewalsStep, KeptPagesStep DEF IInv
  <1>2. ASSUME IInv, UNCHANGED vars PROVE IInv'
    <2>1. UNCHANGED <<viewers, resumes, op, hold, busy, upsets, freed, loose, window,
                      net>>
      BY <1>2 DEF vars, server, around, history, browser
    <2>2. TypeOK' /\ RenewsOpen' /\ Lifting'
      BY <1>2, <2>1 DEF IInv, TypeOK, RenewsOpen, Lifting, Open
    <2>3. HoldsAccounted' /\ TakenByPower' /\ ClosesOfGone'
      BY <1>2, <2>1 DEF IInv, HoldsAccounted, Accounted, Open, TakenByPower, ClosesOfGone
    <2>4. Renewals' /\ KeptPages'
      BY <1>2, <2>1 DEF IInv, Renewals, HeldSince, Open, KeptPages
    <2>5. QED
      BY <2>2, <2>3, <2>4 DEF IInv
  <1>3. QED
    BY <1>1, <1>2

(* The invariant holds in every state of every behaviour.                  *)
THEOREM Invariance == Spec => []IInv
  BY Initially, Preserved, PTL DEF Spec

(* Every variable keeps its type; ages stay within their graces.           *)
THEOREM TypeCorrect == Spec => []TypeOK
  BY Invariance, PTL DEF IInv

(* While its heartbeats get through, a window keeps its session and the    *)
(* hold of its desktop (desktop_viewer.go, desktop_lifecycle.go).          *)
THEOREM HoldOutlivesHeartbeats == Spec => []WindowsKeepTheirHold
  <1>1. IInv => WindowsKeepTheirHold
    <2>1. SUFFICES ASSUME IInv, NEW w \in Window, window[w].at = "kept"
                   PROVE  LET v == viewers[window[w].session]
                              h == hold[v.desktop] IN
                          /\ v.window = w /\ v.closed = NotClosed
                          /\ v.desktop \in freed \/ (h.by = "page" /\ h.left > 0)
      BY DEF WindowsKeepTheirHold
    <2> DEFINE s == window[w].session
               d == viewers[s].desktop
    <2>2. TypeOK /\ s \in Session
      BY <2>1 DEF IInv, TypeOK, Page
    <2>3. /\ viewers[s].window = w /\ viewers[s].closed = NotClosed
          /\ viewers[s].fed < HeartbeatGrace
      BY <2>1 DEF IInv, KeptPages
    <2>4. s \in Open
      BY <2>2, <2>3, Graces, SessionOfViewer
    <2>5. HeldSince(d, viewers[s].fed)
      BY <2>1, <2>3, <2>4 DEF IInv, Renewals
    <2>6. /\ viewers[s].fed \in Nat /\ hold[d].left \in Nat
          /\ RenewHold \in Nat /\ HeartbeatGrace \in Nat /\ HeartbeatGrace <= RenewHold
      <3>1. viewers[s].fed \in 0..HeartbeatGrace /\ d \in Desktop
        BY <2>2, ViewerTypes
      <3>2. hold[d].left \in 0..OpenHold
        BY <2>2, <3>1, HoldTypes
      <3>3. QED
        BY <3>1, <3>2, PagesAssumption
    <2>7. hold[d].left + viewers[s].fed >= RenewHold => hold[d].left > 0
      BY <2>3, <2>6
    <2>8. QED
      BY <2>3, <2>5, <2>7 DEF HeldSince
  <1>2. QED
    BY <1>1, Invariance, PTL

(* The hold of a page has a session, or is about to be lifted, or is one of*)
(* those that lapse (desktop_lifecycle.go).                                *)
THEOREM NoHoldIsForgotten == Spec => []HoldsHaveSessions
  <1>1. IInv => HoldsHaveSessions
    BY DEF IInv, HoldsAccounted, Accounted, HoldsHaveSessions, DesktopsOf
  <1>2. QED
    BY <1>1, Invariance, PTL
=============================================================================
