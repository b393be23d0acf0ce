---------------------------- MODULE RedeemProofs ----------------------------
(***************************************************************************)
(* Theorems about Redeem for every number of orders, days and starters.    *)
(*                                                                         *)
(* The inductive invariant IInv adds to the properties how far the run has *)
(* got: between its check of the ledger and its own mark nobody else marks *)
(* an order (Cleared), an order on its way is pending or resolved          *)
(* (Sending), what the run is about to say is what the platform answered   *)
(* (Said), and the ledger carries the date of the latest order, which is   *)
(* the largest so far (LedgerDate, Dates, NotTomorrow).                    *)
(***************************************************************************)
EXTENDS Redeem, TLAPS

Early == {"idle", "delay", "config", "ledger"}
InFlight == {"send", "answer", "disable", "save"}

Cleared ==
  run.at \in {"checks", "mark"} /\ exists =>
    /\ ledger.status # "pending"
    /\ ledger.date <= run.date
    /\ run.auto => ledger.date # run.date

Flying == run.at \in InFlight => placed > 0

Sending ==
  run.at = "send" /\ exists =>
    \/ ledger.status = "pending"
    \/ order[placed].word # "none" /\ ledger.status = order[placed].word

Said ==
  run.at \in {"disable", "save"} =>
    /\ run.said # "none"
    /\ run.said = "success" =>
         order[placed].known /\ order[placed].fate = "accepted"
    /\ run.said = "failed" =>
         order[placed].known /\ order[placed].fate = "refused"

LedgerDate ==
  exists => IF placed = 0 THEN ledger.status = "none" /\ ledger.date = 0
            ELSE ledger.date = order[placed].date

Dates == \A o \in 1..placed : order[o].date <= order[placed].date

NotTomorrow == ledger.date <= today /\ run.date <= today

Progress == Cleared /\ Flying /\ Sending /\ Said
Calendar == LedgerDate /\ Dates /\ NotTomorrow
Promises == OpenOrderBlocks /\ OneAutomaticOrderADay /\ LedgerIsTrue
IInv == TypeOK /\ Progress /\ Calendar /\ Promises

-----------------------------------------------------------------------------
(* Types                                                                   *)

LEMMA RunTypes ==
  ASSUME run \in Run
  PROVE  /\ IdleRun \in Run
         /\ \A at \in {"idle", "delay", "config", "ledger", "checks", "mark",
                       "send", "answer", "disable", "save"} :
              [run EXCEPT !.at = at] \in Run
  <1>1. IdleRun \in Run
    BY RedeemAssumption DEF IdleRun, Run
  <1>2. \A at \in {"idle", "delay", "config", "ledger", "checks", "mark",
                   "send", "answer", "disable", "save"} :
          [run EXCEPT !.at = at] \in Run
    BY DEF Run
  <1> QED BY <1>1, <1>2

LEMMA OrderTypes ==
  ASSUME order \in [Order -> OrderRecord], NEW o
  PROVE  /\ \A f \in Fate :
              [order EXCEPT ![o].fate = f] \in [Order -> OrderRecord]
         /\ [order EXCEPT ![o].known = TRUE] \in [Order -> OrderRecord]
         /\ \A w \in {"none", "success", "failed"} :
              [order EXCEPT ![o].word = w] \in [Order -> OrderRecord]
  BY DEF OrderRecord

LEMMA LatestTypes ==
  ASSUME order \in [Order -> OrderRecord]
  PROVE  /\ [order EXCEPT ![placed].fate = "sent"] \in [Order -> OrderRecord]
         /\ [order EXCEPT ![placed].known = TRUE] \in [Order -> OrderRecord]
         /\ \A w \in {"none", "success", "failed"} :
              [order EXCEPT ![placed].word = w] \in [Order -> OrderRecord]
  BY OrderTypes DEF Fate

LEMMA LedgerTypes ==
  ASSUME ledger \in Ledger, run \in Run
  PROVE  NoLedger \in Ledger /\ Marked \in Ledger /\ SavedStatus \in Ledger
<1>1. NoLedger \in Ledger
  BY RedeemAssumption DEF Ledger, NoLedger
<1>2. Marked \in Ledger
  BY DEF Ledger, Run, Marked
<1>3. SavedStatus \in Ledger
  BY DEF Ledger, Run, SavedStatus
<1> QED
  BY <1>1, <1>2, <1>3

LEMMA AdmitType ==
  ASSUME run \in Run, NEW auto \in BOOLEAN, Admit(auto) \/ UNCHANGED run
  PROVE  run' \in Run
<1>1. CASE UNCHANGED run
  BY <1>1
<1>2. CASE Admit(auto)
  <2>0. IdleRun \in Run
    BY RunTypes
  <2>1. [IdleRun EXCEPT !.at = "delay", !.auto = auto] \in Run
    BY <2>0 DEF Run
  <2>2. [IdleRun EXCEPT !.at = "config", !.auto = auto] \in Run
    BY <2>0 DEF Run
  <2> QED
    BY <1>2, <2>1, <2>2 DEF Admit
<1> QED
  BY <1>1, <1>2

LEMMA ConfigTypes ==
  /\ NoConfig \in Config
  /\ config \in Config => [config EXCEPT !.enabled = FALSE] \in Config
  BY DEF Config, NoConfig

LEMMA InitType == Init => TypeOK
  BY RedeemAssumption DEF Init, TypeOK, NoConfig, NoLedger, NoOrder, IdleForm,
    IdleRun, Config, Ledger, Run, OrderRecord, Fate, Order

LEMMA StartersType ==
  ASSUME TypeOK, NEW s \in Starter, FindDue(s) \/ StartAutomatic(s)
  PROVE  TypeOK'
<1>1. CASE FindDue(s)
  BY <1>1 DEF TypeOK, FindDue
<1>2. CASE StartAutomatic(s)
  <2>1. run' \in Run
    BY <1>2, AdmitType DEF TypeOK, StartAutomatic
  <2> QED
    BY <1>2, <2>1 DEF TypeOK, StartAutomatic
<1> QED
  BY <1>1, <1>2

FormTypes == [at : {"idle", "valid", "start"}, config : Config,
              immediate : BOOLEAN]

LEMMA FormsType ==
  ASSUME TypeOK, SubmitForm \/ SaveForm \/ StartManual
  PROVE  TypeOK'
<1>0. IdleForm \in FormTypes /\ [IdleForm EXCEPT !.at = "start"] \in FormTypes
  BY ConfigTypes DEF FormTypes, IdleForm
<1>1. CASE SubmitForm
  <2>1. form' \in FormTypes
    BY <1>1 DEF SubmitForm, FormTypes
  <2> QED
    BY <1>1, <2>1 DEF TypeOK, SubmitForm, FormOnly, FormTypes
<1>2. CASE SaveForm
  <2>1. config' \in Config
    BY <1>2 DEF TypeOK, SaveForm
  <2>2. form' \in FormTypes
    BY <1>0, <1>2 DEF SaveForm
  <2> QED
    BY <1>2, <2>1, <2>2 DEF TypeOK, SaveForm, FormOnly, FormTypes
<1>3. CASE StartManual
  <2>1. run' \in Run
    BY <1>3, AdmitType DEF TypeOK, StartManual
  <2> QED
    BY <1>0, <1>3, <2>1 DEF TypeOK, StartManual, FormOnly, FormTypes
<1> QED
  BY <1>1, <1>2, <1>3

LEMMA RunsType ==
  ASSUME TypeOK, RunNext
  PROVE  TypeOK'
<1>0. /\ run \in Run /\ ledger \in Ledger /\ config \in Config
      /\ order \in [Order -> OrderRecord] /\ placed \in 0..MaxOrder
      /\ today \in 1..MaxDay
  BY DEF TypeOK
<1>1. /\ run' \in Run /\ ledger' \in Ledger /\ config' \in Config
      /\ order' \in [Order -> OrderRecord] /\ placed' \in 0..MaxOrder
  <2>1. CASE Wake \/ ReadConfig \/ Check
    BY <1>0, <2>1, RunTypes DEF Wake, ReadConfig, Check, Goes, Stops
  <2>2. CASE ReadLedger
    <3>0. today \in 0..MaxDay
      BY <1>0, RedeemAssumption
    <3>1. [run EXCEPT !.at = "checks", !.date = today] \in Run
      BY <1>0, <3>0 DEF Run
    <3> QED
      BY <1>0, <2>2, <3>1, RunTypes DEF ReadLedger, Stops
  <2>3. CASE Mark
    <3>1. CASE Stops("mark") /\ UNCHANGED <<ledger, placed, order>>
      BY <1>0, <2>3, <3>1, RunTypes DEF Mark, Stops
    <3>2. CASE /\ exists /\ placed < MaxOrder
               /\ Goes("mark", "send")
               /\ ledger' = Marked
               /\ placed' = placed + 1
               /\ order' = [order EXCEPT ![placed + 1] =
                    [NoOrder EXCEPT !.fate = "marked", !.date = run.date,
                                    !.auto = run.auto]]
      <4>1. [NoOrder EXCEPT !.fate = "marked", !.date = run.date,
                            !.auto = run.auto] \in OrderRecord
        BY <1>0, RedeemAssumption DEF NoOrder, OrderRecord, Fate, Run
      <4>2. order' \in [Order -> OrderRecord]
        BY <1>0, <3>2, <4>1
      <4>3. placed' \in 0..MaxOrder
        BY <1>0, <3>2, RedeemAssumption
      <4> QED
        BY <1>0, <2>3, <3>2, <4>2, <4>3, RunTypes, LedgerTypes DEF Mark, Goes
    <3> QED
      BY <2>3, <3>1, <3>2 DEF Mark
  <2>4. CASE Send
    <3>1. [run EXCEPT !.at = "save", !.said = "pending"] \in Run
      BY <1>0 DEF Run
    <3>2. "sent" \in Fate
      BY DEF Fate
    <3> QED
      BY <1>0, <2>4, <3>1, <3>2, RunTypes, LatestTypes DEF Send, Goes
  <2>5. CASE Answer
    <3>1. \A at \in {"save", "disable"}, w \in {"success", "failed", "pending"} :
            [run EXCEPT !.at = at, !.said = w] \in Run
      BY <1>0 DEF Run
    <3>2. run' \in Run
      BY <2>5, <3>1 DEF Answer, SaidOfLost
    <3>3. order' \in [Order -> OrderRecord]
      BY <1>0, <2>5, LatestTypes DEF Answer
    <3> QED
      BY <1>0, <2>5, <3>2, <3>3 DEF Answer
  <2>6. CASE Disable
    BY <1>0, <2>6, RunTypes, ConfigTypes DEF Disable, Goes
  <2>7. CASE Save
    BY <1>0, <2>7, RunTypes, LedgerTypes, LatestTypes DEF Save, Stops
  <2> QED
    BY <2>1, <2>2, <2>3, <2>4, <2>5, <2>6, <2>7 DEF RunNext
<1>2. UNCHANGED <<exists, today, due, form>>
  BY DEF RunNext, RunOnly, Wake, ReadConfig, ReadLedger, Check, Mark, Send,
    Answer, Disable, Save
<1> QED
  BY <1>1, <1>2 DEF TypeOK

LEMMA OthersType ==
  ASSUME TypeOK,
         \/ \E o \in Order : Platform(o)
         \/ \E word \in {"success", "failed"} : Resolve(word)
         \/ Delete \/ NewDay \/ Crash \/ UNCHANGED vars
  PROVE  TypeOK'
<1>0. order \in [Order -> OrderRecord] /\ ledger \in Ledger /\ run \in Run
  BY DEF TypeOK
<1>1. CASE \E o \in Order : Platform(o)
  <2>0. PICK o \in Order : Platform(o)
    BY <1>1
  <2>1. order' \in [Order -> OrderRecord]
    <3>1. "accepted" \in Fate /\ "refused" \in Fate
      BY DEF Fate
    <3> HIDE DEF Fate
    <3>2. \A f \in Fate : [order EXCEPT ![o].fate = f] \in [Order -> OrderRecord]
      BY <1>0, OrderTypes
    <3> QED
      BY <2>0, <3>1, <3>2 DEF Platform
  <2> QED
    BY <2>0, <2>1 DEF TypeOK, Platform
<1>2. CASE \E word \in {"success", "failed"} : Resolve(word)
  <2>1. order' \in [Order -> OrderRecord]
    BY <1>0, <1>2, LatestTypes DEF Resolve
  <2>2. ledger' \in Ledger
    BY <1>0, <1>2 DEF Resolve, Ledger
  <2> QED
    BY <1>2, <2>1, <2>2 DEF TypeOK, Resolve
<1>3. CASE Delete
  BY <1>0, <1>3, LedgerTypes, ConfigTypes DEF TypeOK, Delete
<1>4. CASE NewDay
  BY <1>4, RedeemAssumption DEF TypeOK, NewDay
<1>5. CASE Crash
  <2>1. IdleForm \in FormTypes
    BY ConfigTypes DEF FormTypes, IdleForm
  <2> QED
    BY <1>0, <1>5, <2>1, RunTypes DEF TypeOK, Crash, FormTypes
<1>6. CASE UNCHANGED vars
  BY <1>6 DEF TypeOK, vars
<1> QED
  BY <1>1, <1>2, <1>3, <1>4, <1>5, <1>6

LEMMA TypeStep == TypeOK /\ [Next]_vars => TypeOK'
  BY StartersType, FormsType, RunsType, OthersType DEF Next

(* Every variable keeps its type, whatever the bounds.                     *)
THEOREM TypeCorrect == Spec => []TypeOK
  BY InitType, TypeStep, PTL DEF Spec
-----------------------------------------------------------------------------
(* The inductive invariant                                                 *)

Inv == Progress /\ Calendar /\ Promises
Book == <<exists, ledger, placed, order>>

LEMMA Numbers ==
  ASSUME TypeOK
  PROVE  /\ ledger.date \in Nat /\ run.date \in Nat /\ today \in Nat
         /\ placed \in Nat /\ placed <= MaxOrder /\ MaxOrder \in Nat
         /\ \A o \in 1..placed : o \in Order /\ order[o].date \in Nat
<1>1. /\ MaxOrder \in Nat /\ placed \in 0..MaxOrder /\ today \in 1..MaxDay
      /\ ledger \in Ledger /\ run \in Run /\ order \in [Order -> OrderRecord]
  BY RedeemAssumption DEF TypeOK
<1>2. ledger.date \in Nat /\ run.date \in Nat
  BY <1>1 DEF Ledger, Run
<1>3. \A o \in 1..placed : o \in Order
  BY <1>1 DEF Order
<1>4. \A o \in Order : order[o].date \in Nat
  BY <1>1 DEF OrderRecord
<1> QED
  BY <1>1, <1>2, <1>3, <1>4, RedeemAssumption

LEMMA InitInv == Init => Inv
<1> SUFFICES ASSUME Init PROVE Inv
  OBVIOUS
<1>1. placed = 0 /\ run.at = "idle" /\ run.date = 0 /\ today = 1
      /\ ledger.status = "none" /\ ledger.date = 0 /\ 1..placed = {}
  BY DEF Init, IdleRun, NoLedger
<1> QED
  BY <1>1 DEF Inv, Progress, Calendar, Promises, Cleared, Flying, InFlight,
    Sending, Said, LedgerDate, Dates, NotTomorrow, OpenOrderBlocks, Open,
    OneAutomaticOrderADay, LedgerIsTrue

(* Steps that leave the ledger and the orders alone and let the run be, or *)
(* bring it to a place before its check of the ledger.                     *)
LEMMA QuietStep ==
  ASSUME TypeOK, TypeOK', Inv, UNCHANGED Book, today <= today',
         \/ UNCHANGED run
         \/ run'.at \in Early /\ run'.date <= today'
  PROVE  Inv'
<1>1. Promises'
  BY DEF Book, Inv, Promises, OpenOrderBlocks, Open, OneAutomaticOrderADay,
    LedgerIsTrue
<1>2. Calendar'
  <2>1. LedgerDate' /\ Dates'
    BY DEF Book, Inv, Calendar, LedgerDate, Dates
  <2>2. NotTomorrow'
    <3>1. ledger.date \in Nat /\ run.date \in Nat /\ today \in Nat
          /\ today' \in Nat
      BY Numbers DEF TypeOK
    <3> QED
      BY <3>1 DEF Book, Inv, Calendar, NotTomorrow
  <2> QED
    BY <2>1, <2>2 DEF Calendar
<1>3. Progress'
  BY DEF Book, Inv, Progress, Cleared, Flying, InFlight, Sending, Said, Early
<1> QED
  BY <1>1, <1>2, <1>3 DEF Inv

LEMMA IdleIsQuiet ==
  ASSUME TypeOK', run' = IdleRun
  PROVE  run'.at \in Early /\ run'.date <= today'
<1>1. today' \in Nat /\ IdleRun.date = 0 /\ IdleRun.at = "idle"
  BY RedeemAssumption DEF TypeOK, IdleRun
<1> QED
  BY <1>1 DEF Early

LEMMA StoppedRun ==
  ASSUME TypeOK, TypeOK', Inv, UNCHANGED Book, UNCHANGED today,
         run' = IdleRun
  PROVE  Inv'
<1>1. today <= today'
  BY Numbers
<1> QED
  BY <1>1, IdleIsQuiet, QuietStep

LEMMA AdmitStep ==
  ASSUME TypeOK, TypeOK', Inv, UNCHANGED Book, UNCHANGED today,
         NEW auto \in BOOLEAN, Admit(auto) \/ UNCHANGED run
  PROVE  Inv'
<1>1. today \in Nat /\ today <= today'
  BY Numbers
<1>2. CASE UNCHANGED run
  BY <1>1, <1>2, QuietStep
<1>3. CASE Admit(auto)
  <2>1. run'.at \in Early /\ run'.date = 0
    BY <1>3 DEF Admit, IdleRun, Early
  <2> QED
    BY <1>1, <2>1, QuietStep
<1> QED
  BY <1>2, <1>3

LEMMA OutsideStep ==
  ASSUME TypeOK, TypeOK', Inv,
         \/ \E s \in Starter : FindDue(s) \/ StartAutomatic(s)
         \/ SubmitForm \/ SaveForm \/ StartManual
         \/ NewDay \/ Crash \/ UNCHANGED vars
  PROVE  Inv'
<1>0. today \in Nat
  BY Numbers
<1>1. CASE \/ \E s \in Starter : FindDue(s)
           \/ SubmitForm \/ SaveForm \/ UNCHANGED vars
  <2>1. UNCHANGED Book /\ UNCHANGED run /\ today <= today'
    BY <1>0, <1>1 DEF FindDue, SubmitForm, SaveForm, FormOnly, vars, Book
  <2> QED
    BY <2>1, QuietStep
<1>2. CASE \E s \in Starter : StartAutomatic(s)
  BY <1>2, AdmitStep DEF StartAutomatic, Book
<1>3. CASE StartManual
  BY <1>3, AdmitStep DEF StartManual, FormOnly, Book
<1>4. CASE NewDay
  <2>1. UNCHANGED Book /\ UNCHANGED run /\ today <= today'
    BY <1>0, <1>4 DEF NewDay, Book
  <2> QED
    BY <2>1, QuietStep
<1>5. CASE Crash
  BY <1>5, StoppedRun DEF Crash, Book
<1> QED
  BY <1>1, <1>2, <1>3, <1>4, <1>5

(* The run before its mark: it checks the ledger on the way.               *)
LEMMA CheckingStep ==
  ASSUME TypeOK, TypeOK', Inv, Wake \/ ReadConfig \/ ReadLedger \/ Check
  PROVE  Inv'
<1>0. /\ run \in Run /\ UNCHANGED Book /\ UNCHANGED today
      /\ ledger.date \in Nat /\ run.date \in Nat /\ today \in Nat
  BY Numbers DEF TypeOK, Wake, ReadConfig, ReadLedger, Check, RunOnly, Book
<1>1. CASE Stops("delay") \/ Stops("config") \/ Stops("ledger") \/ Stops("checks")
  BY <1>0, <1>1, StoppedRun DEF Stops
<1>2. CASE Goes("delay", "config") \/ Goes("config", "ledger")
  <2>1. run'.at \in Early /\ run'.date = run.date
    BY <1>0, <1>2 DEF Goes, Early, Run
  <2>2. run'.date <= today' /\ today <= today'
    BY <1>0, <2>1 DEF Inv, Calendar, NotTomorrow
  <2> QED
    BY <1>0, <2>1, <2>2, QuietStep
<1>3. CASE MayOrder /\ run' = [run EXCEPT !.at = "checks", !.date = today]
  <2>1. run'.at = "checks" /\ run'.date = today /\ run'.auto = run.auto
    BY <1>0, <1>3 DEF Run
  <2>2. Cleared'
    BY <1>0, <1>3, <2>1 DEF Cleared, MayOrder, Inv, Calendar, NotTomorrow, Book
  <2>3. Progress'
    BY <2>1, <2>2 DEF Progress, Flying, InFlight, Sending, Said
  <2>4. Calendar'
    BY <1>0, <2>1 DEF Inv, Calendar, LedgerDate, Dates, NotTomorrow, Book
  <2>5. Promises'
    BY <1>0 DEF Book, Inv, Promises, OpenOrderBlocks, Open,
      OneAutomaticOrderADay, LedgerIsTrue
  <2> QED
    BY <2>3, <2>4, <2>5 DEF Inv
<1>4. CASE Goes("checks", "mark")
  <2>1. /\ run.at = "checks" /\ run'.at = "mark"
        /\ run'.date = run.date /\ run'.auto = run.auto
    BY <1>0, <1>4 DEF Goes, Run
  <2>2. Progress'
    BY <1>0, <2>1 DEF Inv, Progress, Cleared, Flying, InFlight, Sending, Said,
      Book
  <2>3. Calendar'
    BY <1>0, <2>1 DEF Inv, Calendar, LedgerDate, Dates, NotTomorrow, Book
  <2>4. Promises'
    BY <1>0 DEF Book, Inv, Promises, OpenOrderBlocks, Open,
      OneAutomaticOrderADay, LedgerIsTrue
  <2> QED
    BY <2>2, <2>3, <2>4 DEF Inv
<1> QED
  BY <1>1, <1>2, <1>3, <1>4 DEF Wake, ReadConfig, ReadLedger, Check

(* The mark: the new order is the latest, its date at least as late as any *)
(* before it, and later if the run is automatic.                           *)
LEMMA MarkStep ==
  ASSUME TypeOK, TypeOK', Inv, Mark
  PROVE  Inv'
<1>0. /\ run \in Run /\ ledger \in Ledger /\ order \in [Order -> OrderRecord]
      /\ ledger.date \in Nat /\ run.date \in Nat /\ today \in Nat
      /\ placed \in Nat /\ MaxOrder \in Nat
      /\ \A o \in 1..placed : o \in Order /\ order[o].date \in Nat
  BY Numbers DEF TypeOK
<1>1. UNCHANGED <<exists, today>>
  BY DEF Mark, RunOnly
<1>2. CASE Stops("mark") /\ UNCHANGED <<ledger, placed, order>>
  BY <1>1, <1>2, StoppedRun DEF Stops, Book
<1>3. CASE /\ exists /\ placed < MaxOrder
           /\ Goes("mark", "send")
           /\ ledger' = Marked
           /\ placed' = placed + 1
           /\ order' = [order EXCEPT ![placed + 1] =
                [NoOrder EXCEPT !.fate = "marked", !.date = run.date,
                                !.auto = run.auto]]
  <2>1. placed + 1 \in Order /\ 1..placed' = 1..placed \cup {placed + 1}
        /\ \A o \in 1..placed : o # placed + 1 /\ o < placed + 1
    BY <1>0, <1>3 DEF Order
  <2>2. /\ order'[placed + 1].date = run.date
        /\ order'[placed + 1].auto = run.auto
        /\ order'[placed + 1].word = "none"
        /\ order'[placed + 1].known = FALSE
    BY <1>0, <1>3, <2>1 DEF NoOrder
  <2>3. \A o \in 1..placed : order'[o] = order[o]
    BY <1>0, <1>3, <2>1
  <2>4. ledger'.status = "pending" /\ ledger'.date = run.date
    BY <1>0, <1>3 DEF Marked, Ledger
  <2>5. /\ run.at = "mark" /\ run'.at = "send" /\ run'.date = run.date
    BY <1>0, <1>3 DEF Goes, Run
  <2>6. /\ exists /\ ledger.status # "pending" /\ ledger.date <= run.date
        /\ run.auto => ledger.date # run.date
    BY <1>3, <2>5 DEF Inv, Progress, Cleared
  <2>7. \A o \in 1..placed : order[o].date <= ledger.date
    BY <1>0, <2>6 DEF Inv, Calendar, LedgerDate, Dates
  <2>8. \A o \in 1..placed :
          /\ order[o].date <= run.date
          /\ run.auto => order[o].date # run.date
    BY <1>0, <2>6, <2>7
  <2>9. Progress'
    BY <1>0, <1>3, <2>4, <2>5 DEF Progress, Cleared, Flying, InFlight, Sending, Said
  <2>10. Calendar'
    <3>1. LedgerDate'
      BY <1>0, <1>3, <2>2, <2>4 DEF LedgerDate
    <3>2. Dates'
      BY <1>0, <1>3, <2>1, <2>2, <2>3, <2>8 DEF Dates
    <3>3. NotTomorrow'
      BY <1>0, <1>1, <2>4, <2>5 DEF Inv, Calendar, NotTomorrow
    <3> QED
      BY <3>1, <3>2, <3>3 DEF Calendar
  <2>11. OpenOrderBlocks'
    <3>1. \A o \in 1..placed : order[o].known \/ order[o].word # "none"
      BY <2>6 DEF Inv, Promises, OpenOrderBlocks, Open
    <3> QED
      BY <1>3, <2>1, <2>3, <2>4, <3>1 DEF OpenOrderBlocks, Open
  <2>12. OneAutomaticOrderADay'
    <3> SUFFICES ASSUME NEW p \in 1..placed', order'[p].auto,
                        NEW o \in 1..placed', o < p
                 PROVE  order'[o].date # order'[p].date
      BY DEF OneAutomaticOrderADay
    <3>1. o \in 1..placed
      BY <1>0, <1>3
    <3>2. CASE p = placed + 1
      BY <2>2, <2>3, <2>8, <3>1, <3>2
    <3>3. CASE p \in 1..placed
      BY <2>3, <3>1, <3>3 DEF Inv, Promises, OneAutomaticOrderADay
    <3> QED
      BY <2>1, <3>2, <3>3
  <2>13. LedgerIsTrue'
    BY <2>4 DEF LedgerIsTrue
  <2> QED
    BY <2>9, <2>10, <2>11, <2>12, <2>13 DEF Inv, Promises
<1> QED
  BY <1>2, <1>3 DEF Mark

(* What an update of one field of an order leaves alone.                   *)
LEMMA FieldUpdates ==
  ASSUME order \in [Order -> OrderRecord], NEW o \in Order
  PROVE  /\ \A f : LET n == [order EXCEPT ![o].fate = f] IN
              /\ n[o].fate = f
              /\ \A p \in Order : p # o => n[p] = order[p]
              /\ \A p \in Order : /\ n[p].date = order[p].date
                                  /\ n[p].auto = order[p].auto
                                  /\ n[p].known = order[p].known
                                  /\ n[p].word = order[p].word
         /\ \A w : LET n == [order EXCEPT ![o].word = w] IN
              /\ n[o].word = w
              /\ \A p \in Order : p # o => n[p] = order[p]
              /\ \A p \in Order : /\ n[p].date = order[p].date
                                  /\ n[p].auto = order[p].auto
                                  /\ n[p].known = order[p].known
                                  /\ n[p].fate = order[p].fate
         /\ LET n == [order EXCEPT ![o].known = TRUE] IN
              /\ n[o].known = TRUE
              /\ \A p \in Order : p # o => n[p] = order[p]
              /\ \A p \in Order : /\ n[p].date = order[p].date
                                  /\ n[p].auto = order[p].auto
                                  /\ n[p].word = order[p].word
                                  /\ n[p].fate = order[p].fate
  BY DEF OrderRecord

(* Dates and kinds of the orders and the date of the ledger stay.          *)
LEMMA SameDates ==
  ASSUME TypeOK, TypeOK', Inv, UNCHANGED <<exists, today, placed>>,
         \A p \in Order : order'[p].date = order[p].date
                          /\ order'[p].auto = order[p].auto,
         ledger'.date = ledger.date,
         exists /\ placed = 0 => ledger'.status = ledger.status,
         run'.date <= today
  PROVE  Calendar' /\ OneAutomaticOrderADay'
<1>0. /\ placed \in Nat /\ \A o \in 1..placed : o \in Order
  BY Numbers
<1>1. Calendar'
  <2>1. LedgerDate'
    <3>1. CASE placed = 0
      BY <3>1 DEF Inv, Calendar, LedgerDate
    <3>2. CASE placed # 0
      <4>1. placed \in Order
        BY <1>0, <3>2
      <4> QED
        BY <3>2, <4>1 DEF Inv, Calendar, LedgerDate
    <3> QED
      BY <3>1, <3>2
  <2>2. Dates'
    <3> SUFFICES ASSUME NEW o \in 1..placed PROVE order'[o].date <= order'[placed].date
      BY DEF Dates
    <3>1. placed \in Order /\ o \in Order
      BY <1>0
    <3> QED
      BY <3>1 DEF Inv, Calendar, Dates
  <2>3. NotTomorrow'
    BY DEF Inv, Calendar, NotTomorrow
  <2> QED
    BY <2>1, <2>2, <2>3 DEF Calendar
<1>2. OneAutomaticOrderADay'
  BY <1>0 DEF Inv, Promises, OneAutomaticOrderADay
<1> QED
  BY <1>1, <1>2

LEMMA Latest ==
  ASSUME TypeOK, placed > 0
  PROVE  /\ placed \in Order /\ placed \in 1..placed
         /\ 1..placed \subseteq Order
  BY Numbers

LEMMA SendStep ==
  ASSUME TypeOK, TypeOK', Inv, Send
  PROVE  Inv'
<1>0. /\ run \in Run /\ order \in [Order -> OrderRecord]
      /\ run.at = "send" /\ placed > 0
      /\ UNCHANGED <<exists, today, placed, ledger>>
  BY DEF TypeOK, Send, Goes, RunOnly, Inv, Progress, Flying, InFlight
<1>1. CASE run' = [run EXCEPT !.at = "save", !.said = "pending"] /\ UNCHANGED order
  <2>1. run'.at = "save" /\ run'.said = "pending" /\ run'.date = run.date
    BY <1>0, <1>1 DEF Run
  <2>2. Progress'
    BY <1>0, <2>1 DEF Progress, Cleared, Flying, InFlight, Sending, Said
  <2>3. Calendar'
    BY <1>0, <1>1, <2>1 DEF Inv, Calendar, LedgerDate, Dates, NotTomorrow
  <2>4. Promises'
    BY <1>0, <1>1 DEF Inv, Promises, OpenOrderBlocks, Open,
      OneAutomaticOrderADay, LedgerIsTrue
  <2> QED
    BY <2>2, <2>3, <2>4 DEF Inv
<1>2. CASE /\ Goes("send", "answer")
           /\ order' = [order EXCEPT ![placed].fate = "sent"]
  <2>1. run'.at = "answer" /\ run'.date = run.date
    BY <1>0, <1>2 DEF Goes, Run
  <2>2. \A o \in Order : /\ order'[o].date = order[o].date
                         /\ order'[o].auto = order[o].auto
                         /\ order'[o].known = order[o].known
                         /\ order'[o].word = order[o].word
    BY <1>0, <1>2, FieldUpdates, Latest
  <2>3. Progress'
    BY <1>0, <2>1 DEF Progress, Cleared, Flying, InFlight, Sending, Said
  <2>4. Calendar' /\ OneAutomaticOrderADay'
    BY <1>0, <2>1, <2>2, SameDates DEF Inv, Calendar, NotTomorrow
  <2>5. OpenOrderBlocks'
    BY <1>0, <2>2, Latest DEF Inv, Promises, OpenOrderBlocks, Open
  <2>6. LedgerIsTrue'
    BY <1>0, <2>2, Latest DEF Inv, Progress, Sending, LedgerIsTrue
  <2> QED
    BY <2>3, <2>4, <2>5, <2>6 DEF Inv, Promises
<1> QED
  BY <1>1, <1>2 DEF Send

LEMMA AnswerStep ==
  ASSUME TypeOK, TypeOK', Inv, Answer
  PROVE  Inv'
<1>0. /\ run \in Run /\ order \in [Order -> OrderRecord]
      /\ run.at = "answer" /\ placed > 0
      /\ UNCHANGED <<exists, today, placed, ledger>>
  BY DEF TypeOK, Answer, RunOnly, Inv, Progress, Flying, InFlight
<1>1. CASE run' = [run EXCEPT !.at = "save", !.said = SaidOfLost] /\ UNCHANGED order
  <2>1. run'.at = "save" /\ run'.said = "pending" /\ run'.date = run.date
    BY <1>0, <1>1 DEF Run, SaidOfLost
  <2>2. Progress'
    BY <1>0, <2>1 DEF Progress, Cleared, Flying, InFlight, Sending, Said
  <2>3. Calendar'
    BY <1>0, <1>1, <2>1 DEF Inv, Calendar, LedgerDate, Dates, NotTomorrow
  <2>4. Promises'
    BY <1>0, <1>1 DEF Inv, Promises, OpenOrderBlocks, Open,
      OneAutomaticOrderADay, LedgerIsTrue
  <2> QED
    BY <2>2, <2>3, <2>4 DEF Inv
<1>2. ASSUME order' = [order EXCEPT ![placed].known = TRUE],
             NEW at \in {"save", "disable"}, NEW w \in {"success", "failed"},
             run' = [run EXCEPT !.at = at, !.said = w],
             order[placed].fate = IF w = "success" THEN "accepted" ELSE "refused"
      PROVE  Inv'
  <2>1. run'.at = at /\ run'.said = w /\ run'.date = run.date
    BY <1>0, <1>2 DEF Run
  <2>2. /\ order'[placed].known = TRUE
        /\ \A o \in Order : o # placed => order'[o] = order[o]
        /\ \A o \in Order : /\ order'[o].date = order[o].date
                            /\ order'[o].auto = order[o].auto
                            /\ order'[o].word = order[o].word
                            /\ order'[o].fate = order[o].fate
    BY <1>0, <1>2, FieldUpdates, Latest
  <2>3. Progress'
    <3>1. order'[placed].fate = order[placed].fate
      BY <1>0, <2>2, Latest
    <3> QED
      BY <1>0, <1>2, <2>1, <2>2, <3>1
      DEF Progress, Cleared, Flying, InFlight, Sending, Said
  <2>4. Calendar' /\ OneAutomaticOrderADay'
    BY <1>0, <2>1, <2>2, SameDates DEF Inv, Calendar, NotTomorrow
  <2>5. OpenOrderBlocks'
    BY <1>0, <2>2, Latest DEF Inv, Promises, OpenOrderBlocks, Open
  <2>6. LedgerIsTrue'
    BY <1>0, <2>2, Latest DEF Inv, Promises, LedgerIsTrue
  <2> QED
    BY <2>3, <2>4, <2>5, <2>6 DEF Inv, Promises
<1> QED
  BY <1>1, <1>2 DEF Answer

LEMMA DisableStep ==
  ASSUME TypeOK, TypeOK', Inv, Disable
  PROVE  Inv'
<1>0. run \in Run /\ UNCHANGED <<exists, today, placed, ledger, order>>
  BY DEF TypeOK, Disable, RunOnly
<1>1. /\ run.at = "disable" /\ run'.at = "save"
      /\ run'.said = run.said /\ run'.date = run.date
  BY <1>0 DEF Disable, Goes, Run
<1>2. Progress'
  BY <1>0, <1>1 DEF Inv, Progress, Cleared, Flying, InFlight, Sending, Said
<1>3. Calendar'
  BY <1>0, <1>1 DEF Inv, Calendar, LedgerDate, Dates, NotTomorrow
<1>4. Promises'
  BY <1>0 DEF Inv, Promises, OpenOrderBlocks, Open, OneAutomaticOrderADay,
    LedgerIsTrue
<1> QED
  BY <1>2, <1>3, <1>4 DEF Inv

LEMMA SaveStep ==
  ASSUME TypeOK, TypeOK', Inv, Save
  PROVE  Inv'
<1>0. /\ run \in Run /\ ledger \in Ledger /\ order \in [Order -> OrderRecord]
      /\ run.at = "save" /\ run' = IdleRun /\ placed > 0
      /\ UNCHANGED <<exists, today, placed>>
  BY DEF TypeOK, Save, Stops, RunOnly, Inv, Progress, Flying, InFlight
<1>1. CASE UNCHANGED <<ledger, order>>
  BY <1>0, <1>1, StoppedRun DEF Book
<1>2. CASE /\ exists /\ ledger' = SavedStatus
           /\ order' = [order EXCEPT ![placed].word = "none"]
  <2>1. /\ run'.at = "idle" /\ run'.date = 0
        /\ ledger'.status = run.said /\ ledger'.date = ledger.date
    BY <1>0, <1>2 DEF IdleRun, SavedStatus, Ledger
  <2>2. /\ order'[placed].word = "none"
        /\ \A o \in Order : o # placed => order'[o] = order[o]
        /\ \A o \in Order : /\ order'[o].date = order[o].date
                            /\ order'[o].auto = order[o].auto
                            /\ order'[o].known = order[o].known
                            /\ order'[o].fate = order[o].fate
    BY <1>0, <1>2, FieldUpdates, Latest
  <2>3. /\ run.said \in {"success", "failed", "pending"}
        /\ run.said = "success" =>
             order[placed].known /\ order[placed].fate = "accepted"
        /\ run.said = "failed" =>
             order[placed].known /\ order[placed].fate = "refused"
    BY <1>0 DEF Inv, Progress, Said, Run
  <2>4. Progress'
    BY <2>1 DEF Progress, Cleared, Flying, InFlight, Sending, Said
  <2>5. Calendar' /\ OneAutomaticOrderADay'
    <3>1. run'.date <= today
      BY <2>1, Numbers
    <3> QED
      BY <1>0, <2>1, <2>2, <3>1, SameDates
  <2>6. OpenOrderBlocks'
    BY <1>0, <2>1, <2>2, <2>3, Latest DEF Inv, Promises, OpenOrderBlocks, Open
  <2>7. LedgerIsTrue'
    BY <1>0, <2>1, <2>2, <2>3, Latest DEF LedgerIsTrue
  <2> QED
    BY <2>4, <2>5, <2>6, <2>7 DEF Inv, Promises
<1> QED
  BY <1>1, <1>2 DEF Save

LEMMA ResolveStep ==
  ASSUME TypeOK, TypeOK', Inv, NEW word \in {"success", "failed"}, Resolve(word)
  PROVE  Inv'
<1>0. /\ run \in Run /\ ledger \in Ledger /\ order \in [Order -> OrderRecord]
      /\ ledger.status = "pending" /\ placed \in Nat
      /\ UNCHANGED <<exists, today, placed, run>>
      /\ ledger' = [ledger EXCEPT !.status = word]
      /\ order' = [order EXCEPT ![placed].word = word]
  BY Numbers DEF TypeOK, Resolve
<1>1. ledger'.status = word /\ ledger'.date = ledger.date
  BY <1>0 DEF Ledger
<1>2. CASE ~exists
  <2>1. \A o \in Order : /\ order'[o].date = order[o].date
                         /\ order'[o].auto = order[o].auto
                         /\ order'[o].known = order[o].known
                         /\ order'[o].fate = order[o].fate
    BY <1>0 DEF OrderRecord
  <2>2. Progress'
    <3>1. placed > 0 => placed \in Order
      BY Latest
    <3> QED
      BY <1>0, <1>2, <2>1, <3>1 DEF Inv, Progress, Cleared, Flying, InFlight,
        Sending, Said
  <2>3. Calendar' /\ OneAutomaticOrderADay'
    BY <1>0, <1>1, <1>2, <2>1, SameDates DEF Inv, Calendar, NotTomorrow
  <2>4. OpenOrderBlocks' /\ LedgerIsTrue'
    BY <1>0, <1>2 DEF OpenOrderBlocks, LedgerIsTrue
  <2> QED
    BY <2>2, <2>3, <2>4 DEF Inv, Promises
<1>3. CASE exists
  <2>0. placed > 0
    BY <1>0, <1>3 DEF Inv, Calendar, LedgerDate
  <2>1. /\ order'[placed].word = word
        /\ \A o \in Order : o # placed => order'[o] = order[o]
        /\ \A o \in Order : /\ order'[o].date = order[o].date
                            /\ order'[o].auto = order[o].auto
                            /\ order'[o].known = order[o].known
                            /\ order'[o].fate = order[o].fate
    BY <1>0, <2>0, FieldUpdates, Latest
  <2>2. Progress'
    BY <1>0, <1>1, <2>0, <2>1, Latest DEF Inv, Progress, Cleared, Flying,
      InFlight, Sending, Said
  <2>3. Calendar' /\ OneAutomaticOrderADay'
    BY <1>0, <1>1, <2>0, <2>1, SameDates DEF Inv, Calendar, NotTomorrow
  <2>4. OpenOrderBlocks'
    BY <1>0, <2>0, <2>1, Latest DEF Inv, Promises, OpenOrderBlocks, Open
  <2>5. LedgerIsTrue'
    BY <1>0, <1>1, <2>1 DEF LedgerIsTrue
  <2> QED
    BY <2>2, <2>3, <2>4, <2>5 DEF Inv, Promises
<1> QED
  BY <1>2, <1>3

LEMMA PlatformStep ==
  ASSUME TypeOK, TypeOK', Inv, NEW o \in Order, Platform(o)
  PROVE  Inv'
<1>0. /\ order \in [Order -> OrderRecord] /\ order[o].fate = "sent"
      /\ UNCHANGED <<exists, today, placed, run, ledger>>
      /\ placed \in Nat /\ \A p \in 1..placed : p \in Order
  BY Numbers DEF TypeOK, Platform
<1>1. PICK f \in {"accepted", "refused"} : order' = [order EXCEPT ![o].fate = f]
  BY DEF Platform
<1>2. /\ \A p \in Order : p # o => order'[p] = order[p]
      /\ \A p \in Order : /\ order'[p].date = order[p].date
                          /\ order'[p].auto = order[p].auto
                          /\ order'[p].known = order[p].known
                          /\ order'[p].word = order[p].word
  BY <1>0, <1>1, FieldUpdates
<1>3. placed > 0 => placed \in Order
  BY Latest
<1>4. Progress'
  BY <1>0, <1>2, <1>3 DEF Inv, Progress, Cleared, Flying, InFlight, Sending, Said
<1>5. Calendar' /\ OneAutomaticOrderADay'
  BY <1>0, <1>2, SameDates DEF Inv, Calendar, NotTomorrow
<1>6. OpenOrderBlocks'
  BY <1>0, <1>2 DEF Inv, Promises, OpenOrderBlocks, Open
<1>7. LedgerIsTrue'
  BY <1>0, <1>2, <1>3 DEF Inv, Promises, LedgerIsTrue
<1> QED
  BY <1>4, <1>5, <1>6, <1>7 DEF Inv, Promises

LEMMA DeleteStep ==
  ASSUME TypeOK, TypeOK', Inv, Delete
  PROVE  Inv'
<1>0. /\ exists' = FALSE /\ ledger'.date = 0 /\ today \in Nat
      /\ UNCHANGED <<today, run, placed, order>>
  BY Numbers DEF Delete, NoLedger
<1> QED
  BY <1>0 DEF Inv, Progress, Calendar, Promises, Cleared, Flying, InFlight,
    Sending, Said, LedgerDate, Dates, NotTomorrow, OpenOrderBlocks, Open,
    OneAutomaticOrderADay, LedgerIsTrue

LEMMA InvStep == TypeOK /\ Inv /\ [Next]_vars => Inv'
<1> SUFFICES ASSUME TypeOK, Inv, [Next]_vars PROVE Inv'
  OBVIOUS
<1>0. TypeOK'
  BY TypeStep
<1> QED
  BY <1>0, OutsideStep, CheckingStep, MarkStep, SendStep, AnswerStep,
    DisableStep, SaveStep, ResolveStep, PlatformStep, DeleteStep
  DEF Next, RunNext

LEMMA InvHolds == Spec => []Inv
  BY InitType, TypeStep, InitInv, InvStep, PTL DEF Spec

(* No redemption while the outcome of one is unknown: the ledger of an     *)
(* existing account says so, whatever crashes, fails or is resolved.       *)
THEOREM OpenOrdersBlock == Spec => []OpenOrderBlocks
<1>1. Inv => OpenOrderBlocks
  BY DEF Inv, Promises
<1> QED
  BY <1>1, InvHolds, PTL

(* Never a second automatic order of a date.                               *)
THEOREM AutomaticOnceADay == Spec => []OneAutomaticOrderADay
<1>1. Inv => OneAutomaticOrderADay
  BY DEF Inv, Promises
<1> QED
  BY <1>1, InvHolds, PTL

(* A settled ledger agrees with the platform or with the user's last word. *)
THEOREM LedgerTellsTheTruth == Spec => []LedgerIsTrue
<1>1. Inv => LedgerIsTrue
  BY DEF Inv, Promises
<1> QED
  BY <1>1, InvHolds, PTL
=============================================================================
