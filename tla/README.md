# A TLA+ verification of CtYun-Keeper

CtYun-Keeper keeps ctyun cloud desktops alive, runs the daily tasks of several
accounts on a schedule, exchanges points for rewards, powers desktops on and off,
relays a desktop into the browser, and updates itself in place. It is one Go
process around one SQLite file, with a launcher (Linux images) or an updater
(Windows) that replaces its binary. This directory holds TLA+ modules translated
from that code, configurations under which TLC checks them on small instances,
and theorems that TLAPS proves for every value of their constants.

    tlc -config TaskRunner_runs.cfg MCTaskRunner.tla
    tlapm TaskRunnerProofs.tla

Paths in this file are relative to the repository.


## The system and its parts

One process (`cmd/ctyun-keeper`) holds a `service.Manager`, a `web.Server` and a
`storage.Store`. Everything that happens is a goroutine of that process: the web
handlers (one per request), the scheduler (a tick every 20 s), one goroutine per
task run, per keepalive session and per desktop connection, one power worker, one
sweeper of holds, one sweeper of desktop pages, one update goroutine. They meet in

- `m.mu`: the maps and flags of `Manager` (`starting`, `active`, `clients`,
  `powerActive`, `powerAccounts`, `maintenance`, `closing`);
- the SQLite file, through one connection, so that a statement is atomic and a
  sequence of statements is not;
- contexts: a run, a session and the manager can be cancelled, which the goroutine
  notices at its next wait;
- files under the data directory, the only thing the program shares with the
  launcher (Linux images) or the updater (Windows).

| part | state | operations | what is hard |
|---|---|---|---|
| Task runner (`manager.go`, `web/server.go`) | `m.starting`, `m.active`, `task_runs`, switches of `accounts` | StartTask, run with retries and random delays, stop buttons, toggles, Close | two critical sections with the store in between; cancellation racing a step; update, power batch and shutdown racing starts |
| Keepalive sessions (`manager.go`, `clink.go`) | `m.clients`, contexts, desktop connections | startAccount, setState, RestartKeepalive, reconcileKeepalive, stop | accounts read before a lock and acted upon after it; a cancelled session that still writes; other parts cancelling sessions |
| Power batch and holds (`service/desktop.go`, `storage/desktop.go`) | `power_jobs`, `power_items`, `desktop_holds`, `m.powerActive` | StartPowerBatch, the worker, the hold sweeper, resume, restart | a request that may have been executed; a hold read, replaced and restored; a crash between a mark and a request |
| Redemption of points (`manager.go`) | `redeem_configs`, `redeem_states` | redeem, settings form, ResolveRedeem | an order costs points and cannot be repeated; its answer may be lost |
| Scheduler (`manager.go`, `storage/store.go`) | `scheduler_claims`, cron expressions | one claim per account, task and minute; redeemDue | a claim taken before the start is known to succeed |
| Update in a container (`internal/update`, launcher) | files: link, journal, request, lock, backups, database, results | PrepareForUpdate, installation, switch, health check, commit, rollback | a stop between any two writes; versions that migrate the database |
| Windows update (`cmd/ctyun-keeper-updater`) | files, a transaction, a service | apply, restore, recover | the same, with files replaced one by one |
| Packages and checks (`internal/update`) | cached check, staging directories | check, download, verify, extract, prune | mostly input and output |
| Desktop pages (`web/desktop_viewer.go`, `desktop_lifecycle.go`) | `s.viewers`, `s.viewerResumes` | create, open, heartbeat, close, sweep | reloads and second windows against the sweeper |
| Web interface (`web/server.go`) | sessions, CSRF tokens | login, forms, listings | what the handlers call |
| Platform client, clink, chat client (`internal/ctyun`, `internal/eai`) | connections | login, orders, power, desktop stream, chat | lost and unknown answers |
| Store, security, logs, release tool | tables, keys | statements, encryption, pruning, signing | |

Who acts on whom: the scheduler and the web handlers start runs and reconcile
sessions; a usage run connects by itself or counts on a session; a usage run chains
a redeem run; the power batch cancels desktop runs and sessions of its accounts;
PrepareForUpdate refuses while a usage run or an open order exists, waits for short
runs, then stops sessions; Close cancels everything and waits.

What makes each part correct, and where it is stated:

- **Task runner**: one run per account and type; every row reaches a final status,
  once; a switch turned off stops what it governs; an update begins only in quiet.
- **Keepalive**: the sessions follow the settings; a session can be cancelled; a
  usage task has a connection.
- **Power batch**: a request leaves once; the history says what happened; a hold
  keeps the keepalive away as long as it should and no longer; a batch ends.
- **Redemption**: no order after one whose outcome is unknown; one automatic order a
  day; the ledger is true.
- **Update**: a database is never opened by a version older than the one that
  migrated it; a rollback loses nothing; what is reported is what happened.
- **Windows update**: what runs is one version on its own database; a rollback restores;
  a success is one that passed; a transaction does not stay open.
- **Scheduler**: a task once per due minute and none passed over; a redemption on the
  days of its plan; the keepalive in the minutes of its window.
- **Desktop pages**: the hold of a desktop stays while a page of it is open and goes
  soon after the last one.

Modules:

    RunLedger <- TaskRunner <- TaskRunnerProofs        MCTaskRunner
    PowerLedger <- PowerBatch <- PowerBatchProofs      MCPowerBatch
    Redeem <- RedeemProofs                             MCRedeem
    UpdateTrial <- Update <- UpdateProofs              MCUpdate
    UpdateTrial <- WindowsUpdate <- WindowsUpdateProofs  MCWindowsUpdate
    Keepalive <- KeepaliveProofs                       MCKeepalive
    DesktopPages <- DesktopPagesProofs                 MCDesktopPages
    Schedules <- Scheduler <- SchedulerProofs          MCScheduler

The modules are joined by what one promises and another assumes. Redeem has one redeem
run at a time because of `TaskRunner!SlotExclusive`; Update begins with a stopped
program because of `TaskRunner!PreparedQuiescent`; PowerBatch has the starts, late
writes and stops of sessions as far as they meet holds and batches, and Keepalive has
who wants a session and when, without the holds; DesktopPages has the holds of pages as PowerBatch finds and replaces
them; Scheduler starts a task that TaskRunner runs, and a redemption that Redeem decides
about again. RunLedger, PowerLedger and UpdateTrial are abstract: what the
history of the runs, that of the power requests and an update promise whoever reads
or starts them, without the goroutines, locks and files that keep it. The MC modules only define constants and symmetry sets.

## TaskRunner: StartTask, run, and what interferes with them

Code: `internal/service/manager.go` (StartTask, run, stop functions,
PrepareForUpdate, Close), the switch handlers of `internal/web/server.go`, the
task side of `internal/service/desktop.go` and the `task_runs` statements of
`internal/storage/store.go`.

| variable | in the code |
|---|---|
| `starting`, `active`, `maintenance` | the fields of `Manager` under `m.mu` |
| `row`, `job` | `task_runs`: its status; its account, type and trigger |
| `lost` | no variable of the code: the rows whose closing UPDATE failed, which the code does not notice |
| `at`, `result`, `tried` | the program counter and the locals of `run` |
| `cancelled` | runs whose own context has been cancelled; `Cancelled` adds `m.ctx` |
| `start` | the locals of `StartTask`, one per caller, and one per run for the redeem task it chains |
| `exists`, `switch`, `pending` | `accounts` and its enabled columns, `redeem_states` at `pending` |
| `admin` | a toggle handler between its write and its cancellations |
| `update`, `short` | the update goroutine in `PrepareForUpdate`, its `shortRunning` |
| `power` | `m.powerActive`, `m.powerAccounts`, and the accounts whose runs the batch has cancelled |
| `phase` | up, closing (`m.cancel` called), gated (`m.closing` set), exited, down |

One action is one critical section of `m.mu`, one SQL statement (the store opens
one connection, so statements are atomic), or one stretch of local work between
two waits. StartTask is therefore five steps (`Reserve`, `ReadAccount`, `AddRun`,
`Register`, `Launch`, plus the refusals `GiveUp` and `MarkRefused`), which is where
its hazards are: two critical sections with the store in between. `run` is
`Begin`, `Check`, `Delay`, `Execute`/`Retry` or the redeem steps, `ChainRedeem`,
`Succeed`, `Save`, `Remove`. What happens inside one execution (logins, the two
hour usage session, the chat) is abstracted to its outcomes: success, an error, a
cancellation noticed late or not at all.

The constant `Actors` chooses who interferes; each run takes the actors its
question is about, so that it stays small. The constant changes nothing else, and
the theorems hold for every value of it.

Every statement may fail. A read or an INSERT that fails makes StartTask give up, and
run fail. An UPDATE of `task_runs` that fails is ignored (manager.go:939, 949, 1058):
`UpdateRun` then leaves the row alone, and if it was to close the row, `lost` keeps
that it never will be, for nothing writes it a second time before the next start. What
the properties say of rows excepts exactly these; what they say of runs and slots does
not depend on them.

| run | asks | bounds |
|---|---|---|
| `runs` | may two goroutines work on one slot; does a prepared update stay quiescent; does a stopped desktop task stay stopped while the desktop is powered; are rows honest through a crash; is this the ledger? | 1 account, usage and redeem tasks, 2 runs, 2 attempts, 1 caller besides the redeem task a usage run chains; update, power batch, crash |
| `finish` | does a toggle stop what it governs; does Close return with nothing alive; does every queued run end, and a preparation decide? | 1 account, login, 1 run, 1 attempt; close, crash, buttons, update, toggles, forms |

Runs of different accounts share nothing but `maintenance`, `phase` and the power
batch, so one account and two runs reach every conflict of a pair; `Run` bounds how
many runs are ever started, not how many are active. `finish` asks about the end of a run,
which does not depend on a second one: a run waits for nobody but itself, the caller
that registers it and the handlers that cancel it. The proofs need none of these
bounds.

**Fairness** (`FairSpec`): a goroutine that can move moves (the Go scheduler; each
execution, delay and query is bounded by a timer or a context), a shutdown that has
begun goes on, and the service manager or container restarts the process. Nothing is
assumed of users or of the outcome of an execution.

**RunLedger** is what the runner promises of its history, in eight actions: one final
status per run, written before the run leaves the working set, or missed once and then
closed by the next start only. The run
`runs` checks, and `RunnerImplementsLedger` proves, that TaskRunner implements
it with `working` = `m.active`, `slot` = the account and type of the run and
`missed` = `lost`.

**Proofs** (`TaskRunnerProofs`). They end with what RunLedger itself implies
(`LedgerExclusive`: two active runs never share a slot; `LedgerFinal`: a final status
stays), and so TaskRunner with it (`FinalStatusesStay`). The induction is on `SlotInv`: what
StartTask's locals hold at each step (`StartLocals`), that no two StartTasks hold a
run (`RunsHeldOnce`), that a slot is claimed once, by a StartTask or by an active run
(`ClaimsDistinct`), and what the step of a goroutine says of its row, of `m.active`
and of `lost` (`RunLocals`: a row is lost only when its run is at its end, so that no
later write could still have closed it). SlotExclusive alone is not inductive: whether Register may
add a run depends on who else holds the slot in `m.starting`. On top of it
`UpdateInv`, `PowerInv` and `ToggleInv` say what each interfering actor has
established and keeps: e.g. that a run that goes on under a toggled-off switch is in
the hands of a handler that will cancel it. The liveness properties are only
model-checked. The only assumption is `ConstantsAssumption`.


## PowerBatch: batches of power requests and the holds of desktops

Code: `internal/service/desktop.go`, `internal/storage/desktop.go`, the desktop
routes of `internal/web/desktop.go` and `desktop_viewer.go` as far as they take,
renew or return a hold.

| variable | in the code |
|---|---|
| `job`, `item` | `power_jobs`, `power_items.status` |
| `hold` | `desktop_holds`: `until_unix` 0, ahead of or behind the clock, and the reason |
| `active`, `accounts` | `m.powerActive`, `m.powerAccounts` |
| `worker` | the program counter and the locals of `runPowerBatch` |
| `owed` | goroutines of `resetDesktopSessions` that an ended batch has launched |
| `expiry` | the goroutine of `desktopHoldScheduler`, between its statements |
| `session` | of each account: the starts decided and not registered yet (`starts`), the session in `m.clients` with the desktops it looks at and connects to (`entry`), whether a cancelled one has its status still to write (`stale`), and a live one whose entry such a write has replaced (`lost`) |
| `sent` | history: requests that went out |
| `phase`, `faults` | life of the process; failing statements, bounded |

`StartPowerBatch` inserts a job; the worker takes one item at a time through
`NextItem`, `Verdict` (the details of the desktop), `Snapshot` (the hold it will
restore), `PlaceHold`, `StopSessions`, `Submit` (the mark `submitting`), `Operate`,
`Answer`, `Record`, `Wait`, and ends with `Finish`, `CloseJob`, `Release`. The answer
of the platform is any of accepted, refused, unknown; a refusal restores the hold, or
fails to (`unrestored`). `HoldLapses` is the clock; it may pass at any step. The store
may fail at every statement whose error the code looks at or drops.

The keepalive is modelled as far as it meets a batch. `reconcileAccountKeepalive` looks at
`m.powerAccounts` and then launches `startAccount` (`Launch`), which registers its session
in a goroutine of its own and does not look again (`Register`, manager.go:496-505): a
start decided before a batch may register in it, after the batch has stopped the account.
A session then walks its desktops, leaves out those that are held and starts and connects
to the others (`Visit`), one decision for one reading of a hold. `setState` looks at its
context outside the lock (manager.go:736), so that a session that a `Reset` has cancelled
may still write itself over its successor (`StaleWrite`), which goes on out of the reach of
`m.clients` and may itself write later (`LostWrite`). Each session carries as history the
batch its start saw (`seen`) and whether it has ever been out of `m.clients` (`strayed`).

| run | asks | bounds |
|---|---|---|
| `power` | is the history true, is a refused hold restored, does somebody have every open item, does a shutdown's hold stay, is this the ledger, does the batch end? | 1 batch (power-on or shutdown), 2 desktops of 1 account, one failing statement, any number of stops and crashes; no sessions, which none of these properties reads and no other variable depends on |
| `power_sessions` | which session meets a request, and the hold it leaves? | 2 batches (power-on or reboot), 1 desktop, late starts, lost sessions; no failing statement and no stop, which ends every session |

In `power` a second desktop is what makes a batch leave an item while another is in flight;
the batch, the sweeper and the pages meet in the holds, not in the number of batches. In
`power_sessions` a second batch is what meets the sessions that the first has left, before
or after its resets. Two of the three actions are in each run: a reboot places a hold like
that of a shutdown, which may lapse besides. Two starts of an account that saw the same
batch count as one in every model (they do the same, and the second to register finds the
entry of the first), and an account has one lost session at a time.
Fairness is given to the worker, the sweeper, the reset goroutines, the steps of a
shutdown that has begun and the restart by the service manager; none to users, the clock,
the keepalive, or a failure.

`PowerComesFirst` is the heart. When a request is out, the desktop carries the hold of
that request; and no session is connected to the desktop, neither then nor as long as a
hold of the power batch lasts, though the hold was placed, the sessions stopped and the
request sent in steps between which pages, the sweeper and the keepalive act. It excepts
what the code leaves open, and nothing else:

- a session that has been lost from `m.clients`: no reset reaches it;
- a start decided before the batch that registers in it, under a power-on: the hold of a
  shutdown or a reboot keeps a late start away, but a power-on lifts the hold, so that the
  start may connect to the desktop while the request is out. Until the last reset of that
  batch (`worker.changed`, then `owed`) it stays connected even under the pause of an
  uncertain answer;
- the accounts an ended batch has still to reset, and those of the item whose hold has been
  placed and whose sessions are to be stopped next.

`RefusalRestoresHold` says what is left when the platform refuses, although the hold to
restore was read long before; `OpenItemsAreTracked` that an item which is neither sent nor
closed has somebody who will close it, as long as no statement has failed: a failed one may
leave an item for the next restart (desktop.go:363); `ShutdownStays` that no automatic step
lifts the hold of a shutdown.

**PowerLedger** is what a history of power requests promises: a job's items are listed
before anything is sent, one is out at a time and marked before its request, a request
leaves once, an item gets one outcome, and what a restart finds open it closes as not
sent or unknown. The run `power` checks, and `BatchImplementsLedger` proves, that
PowerBatch implements it.

That a request leaves once (`SubmittedOnce`) and that an outcome is never rewritten
(`OutcomesAreFinal`) are two of these promises, proved for themselves too.

**Proofs** (`PowerBatchProofs`): every invariant of the runs, ShutdownStays and the
refinement, for every number of batches, desktops, accounts, starts, faults and crashes.
HistoryIsTrue is not inductive: that an open item was not sent depends on the step the
worker is at, which the invariant adds (what the worker holds at each step, and that the
items of other jobs are closed or untouched while it runs). PowerComesFirst needs two
layers: what the keepalive has seen (`SInv`: a start or a session has seen no batch or one
that was really started, none of an account the running batch works on has seen that batch,
and only a session out of `m.clients` writes late), and
what holds and sessions there are at each step (`HInv`: what a hold of the power batch keeps
away, which hold the worker has placed, and which sessions a held desktop may still have).
RefusalRestoresHold needs which hold the worker has read and who can have changed it since;
OpenItemsAreTracked which items the worker still has to do. The refinement adds whose turn
it is (`Turn`): an item the worker has not reached is as it was listed, one it has left has
its outcome. BatchesEnd is only model-checked.

Not modelled: a request of a session that was under way when its context was cancelled and
reaches the platform all the same.

## Redeem: orders that cost points

Code: `redeem`, `ValidateRedeemConfig`, `validateRedeemTarget`, `ResolveRedeem`,
`redeemDue` and the chained start in `internal/service/manager.go`; the form and the
buttons in `internal/web/server.go`; `SaveRedeem`, `DeleteAccount` in the store; the
statuses of an answer in `internal/ctyun/native.go`.

| variable | in the code |
|---|---|
| `exists`, `config` | the account and its row of `redeem_configs` |
| `ledger` | its row of `redeem_states`: last status and date |
| `today` | the calendar day, which passes at any step |
| `due` | automatic starters that have found the redemption due and not started it yet |
| `form` | the request that saves the settings, between its validation and its save |
| `run` | the redeem run: its step, the date it read, what the platform said |
| `placed`, `order` | history: the orders, what the platform did, what is known here |

A run waits (`delay`), reads the configuration and the ledger again, checks the
catalogue, marks the ledger `pending`, sends, and records. The order exists for the
platform when it arrives, whether or not its answer does; the process may crash at
every step, a statement may fail, a user may resolve the order while it is in flight.
What an interval, a list of days or a quantity does to being due is left open: a
starter may find the redemption due at any time, which is more than the code allows.

The run `redeem` has two orders over two days with two starters (the scheduler and a
chained usage run): two orders are what "again" needs, two days let a delay pass
midnight. `OpenOrderBlocks`: an order whose outcome is unknown keeps the ledger
pending, and nothing is sent. `OneAutomaticOrderADay`: the second check of the ledger
after the delay is what holds it. `LedgerIsTrue`: a settled ledger says of the last
order what the platform or the user said.

**Proofs** (`RedeemProofs`): all four, for every number of orders, days and starters.
The invariant ties the step of the run to the ledger and to the order it has placed:
between `mark` and `save` the ledger is pending or a user has resolved it.

## Update: a new version in a container

Code: `cmd/ctyun-keeper-launcher/main.go`, `internal/update` (request, lock, backup,
result, `RestoreDatabaseFile`), `runUpdateInstall` in `internal/web/server.go`, start
and stop in `cmd/ctyun-keeper/main.go`.

The variables on disk (`link`, `db`, `backup`, `lock`, `request`, `journal`,
`result`, and `image`, which an administrator replaces) survive; those in memory (the
launcher's step and its copy of the journal, the program, the installation in it) do
not. `Stop` ends the container between any two writes. A database is the newest
version that has migrated it and a count of writes: enough to say which program may
open it and whether something was lost. `Needs[v]` is the launcher a version asks for:
an image too old for it must go to its own program.

The installation in the program is a request file, a lock, a copy of the database and
an exit; the launcher then copies the database of the stopped program again, writes
the journal, moves the link, starts the version, watches its health, and either
reports or goes back. The same journal serves a start with a newer image and one with
an image too old. Packages, signatures and paths are not in the model: a request is
for a newer version whose files are there, or there is none.

`update` has three versions and two writes of data: two updates in a row, an image
between two versions, and a write lost or kept. Restarts are not bounded. Deadlock is
not checked: a launcher whose journal is refused stops for good.

- `NoDowngrade`: no program opens a database a newer one has migrated.
- `RollbackRestores`: after a rollback the database is what it was when the program
  stopped, not when the copy of the request was made.
- `UnprovenCanBeUndone`: a version that has not passed a health check runs only with a
  journal, and wherever the launcher is cut short the next start accepts that journal and
  its lock. Two exceptions are the code's: between the journal and the passing of the
  lock, and the first installation of a data directory (`FirstInstallation`), whose
  journal names another previous version than its request, so that a start refuses it.
- `ResultIsTrue`: what the results page reports is what the link points at.
- `ImplementsTrial`: all of it is a trial that `UpdateTrial` allows (below).

`update_data` shows a disagreement: a container that stops inside `RestoreDatabaseFile`
during a rollback leaves no database, and the next start runs the new version on an empty
one. The property is stated for a stop there; everything else is checked and proved with
that step as it is. No fairness is assumed and no liveness stated: nothing obliges anyone
to start the container again.

**UpdateTrial** is what an update promises, in a container and on Windows alike, in the ten
actions of a trial: a new version is tried while nothing runs; until it or the one before
has passed a health check either may be started, any number of times, but the one before
on nothing less than what the trial found, and none on a database that a newer one has
migrated; the version that passed is kept, and without a test a trial ends only as it
began. Here the trial is open while there is a journal, `installed` is the version the
journal comes from, or the link's, `found` the database at the stop of the program, and
`tested` what the launcher is about to report.

**Proofs** (`UpdateProofs`): the four properties, the refinement and the types, for every number of
versions, whatever launcher each needs, and any number of stops. One invariant carries
them: where the launcher is and what it and the disk know (`Control`), what a journal may
look like (`Shape`), what it promises of the copy it names (`Restorable`), which version
may open the database and its copies (`Readable`), which version has been tested
(`Tested`) and what was reported (`Reported`). For the refinement, `Restores` says that a
rollback and the record of a new journal work on the database of the stop. NoDowngrade alone is not inductive: that the
older version may open what a rollback restores depends on the copy, which depends on
when it was taken. The invariant was checked by TLC with four versions as well (8.7 million
states) before it was proved.

## WindowsUpdate: a new version on Windows

Code: `cmd/ctyun-keeper-updater/main.go`, `internal/update/windows_transaction.go`,
`recovery_windows.go`, `supervisor_windows.go`, the lock, the request and the results of
`internal/update`, and the program around them: `runUpdateInstall` and the results page of
`internal/web/server.go`, the start and the two-second tick of `cmd/ctyun-keeper/main.go`.

| variable | in the code |
|---|---|
| `files`, `app` | the executable, the static files and the updater of the installation; the copies of them |
| `db`, `saved` | the database with its update history; the copies of it |
| `tx`, `lock`, `request`, `result` | the files under `updates` |
| `prog`, `helper` | the program and the update helper: process, step and locals |
| `service`, `patient` | the program is a service; nobody else starts it while the helper works |
| `stopped`, `passed` | history: the database at the stop of the program, the updates that passed |

The helper takes the lock over, waits for the program or stops its service, copies the
database again, checks the package, copies the installation, writes the transaction,
replaces three files by two moves each, starts the new program and watches it; then it
marks the transaction and publishes the result, or restores the files in their order,
the database, and the old program. A program that starts, or looks every two seconds, and
finds a transaction nobody works on starts the helper again to go back, and exits.
One action is one write; the program, the helper or both may stop between any two, and a
step may fail wherever the code looks at an error. Two actions of the program merge
several: `BootOpens` (`main.go:60-70`: the database is opened and migrated, a decided
transaction published and cleared, the results taken into the history, open rows closed)
and `Tick` (`main.go:119-128`, the same without opening). A stop inside them is not
modelled: what it leaves (a published result beside its transaction, which the helper's
own `Publish` and `Clear` leave too, or a row beside the result it was taken from) the next
start writes again with the same content.

The run `windows` has two updates of two versions, one write, one failing step and one
stop, in a service or not, with or without a user who starts the program at any time.
One stop is enough to leave each mixture of files there is; the failing step is what
turns the helper back with the transaction on disk.

- `ProgramIsWhole`: what runs has the files of one version and a database of that version.
- `RollbackRestores`: an old program starts again on its own files and on the database
  of its stop.
- `ResultIsTrue`: a success, whoever wrote it, is of a version that passed.
- `ImplementsTrial`: all of it is a trial that `UpdateTrial` allows. The trial is open while
  the transaction is undecided and lost when the lock of the update is gone: a helper that
  gives up releases it, an installation begun just after a crash of the helper takes it.
  UpdateTrial says nothing of what runs after that but that no version starts on a
  database a newer one has migrated.
- `TransactionsClose` (liveness, the processes that run go on and the program is started
  again): a transaction does not stay open, unless the lock has lost its token or a stop
  fell between the two moves of the executable or the updater.

ProgramIsWhole, RollbackRestores and the refinement are stated for `patient` installations
only: the code has no guard against a program that somebody starts while files are replaced
(`recovery_windows.go:17`), and TLC refutes the two invariants without it. A second helper or
program beside the first is left out.

The refinement and the invariants were checked with three versions as well (8.4 million
states): a lost trial with another after it needs three.

**Proofs** (`WindowsUpdateProofs`): the types, the three invariants and the refinement, for
every number of versions, updates, writes, failures and stops. One invariant carries them
(`IInv`). Four parts hold whoever starts what: who may have the lock at each step (`Locks`),
that a request and a transaction are for an update the history lists (`Asked`), what a mark
on the transaction says (`Marked`), and that a published success has passed (`Truth`), which
needs the mark to be written by a helper that has seen the health check. The others hold for
`patient`: where the helper and the program can be together (`Where`), what a running program
runs on (`Fits`), what is copied before the transaction is written (`Prepares`, `Distinct`),
which files are of which version at each move of a replacement or a restore, forth and back
(`Replaces`), that what a recovery would take up can be put back as it was (`Restorable`), and
what starts before the decision (`Returns`). ProgramIsWhole is not inductive: that a program
which starts under an open transaction does not open the database depends on the lock, and
that a recovery finds what it needs on which copies were made before the transaction was.
The lemmas named `...Effect` say once what an action changes in terms the later parts use.
TransactionsClose is only model-checked.

## Keepalive: sessions that follow the settings

Code: `startAccount`, `setState`, `RestartKeepalive`, `reconcileKeepalive`,
`reconcileAccountKeepalive`, `stopAccountKeepalive`, the connection choice of
`runUsage`, `PrepareForUpdate` and the power batch where they cancel sessions
(`internal/service`), the handlers that save an account, and `runClink`.

| variable | in the code |
|---|---|
| `exists`, `wanted`, `pending` | the rows of `accounts`; what the row and the clock say (`KeepaliveActiveAt`); `device_status` |
| `client` | `m.clients`: the context registered for an account, and its worker count |
| `live` | contexts that are not cancelled |
| `start` | where each `startAccount` is, setState's look and write apart |
| `link` | sessions whose `RunClink` runs |
| `sweep` | a comparison under way in the scheduler or a request: what it read, what it has decided |
| `usage` | the usage run: it has the desktop connected by itself or counts on the session |
| `maintenance`, `power` | who has suspended the comparisons |
| `lost` | history: live sessions a late setState has overwritten |

An action is one critical section, one statement or one stretch between waits. A
comparison reads the accounts, then looks at one after another under the lock, and a
stop takes the lock again. Ids of sessions are used again once nothing refers to them,
so the number of starts is not bounded; the run `keepalive` lets two of them exist at
once, beside one request thread and the scheduler, with one change from outside (a
setting, the window, a deletion, a code that is needed or given, an update, a batch) from either initial setting.
`MaxLost` bounds by one how often setState may overwrite a live session.

`WantedStarts` and `UnwantedStops` are liveness: once the settings stand still and
nobody suspends the comparisons, the sessions follow them, whatever the older readings
in flight decide. Fairness is given to goroutines and the ticker. They speak of a
session registered and not cancelled: a start that failed keeps its context and is not
retried by the code. `SessionsAreRegistered` excepts the sessions in `lost`: the
overwriting is real (setState looks at the context outside the lock), and the property
says it is the only way to lose one. `usage` shows what README.md:106 promises and a
settings request breaks.

**Proofs** (`KeepaliveProofs`): the types and SessionsAreRegistered for every number of
accounts, sessions and requests. With the types and the count of a session's connections
it is inductive: who cancels a context takes it out of `m.clients` in the same critical
section, and setState, which looks outside the lock, leaves a mark in `lost`. The
liveness is only model-checked.

UnwantedStops excepts a deleted account: a session that an older reading of it starts
after the deletion is compared with nothing any more, and goes on until a request
restarts them all. The frames of the desktop protocol are not modelled.

## DesktopPages: desktops in the browser

Code: `internal/web/desktop_viewer.go`, `desktop_lifecycle.go`, the routes of
`internal/web/desktop.go`, and the browser holds of `internal/service/desktop.go`.

| variable | in the code |
|---|---|
| `viewers`, `resumes` | `s.viewers`, `s.viewerResumes` |
| `op` | who has `s.viewerOpMu`, and its locals |
| `hold`, `busy` | `desktop_holds`; a power batch (`m.powerActive`) or an update (`m.maintenance`) is under way |
| `window`, `net` | the windows of browsers and their messages under way |
| `freed`, `loose` | history: holds the user or the power batch took; holds left without a session |

Ages stand for times: a session counts the ticks since it was seen, since it was closed
and until its hour is up, a hold those it has left. Messages arrive in any order, late or
never; a session id and a window are used again when nothing remembers them, so so neither
is bounded by the model.

The run `pages` has one desktop with two sessions, one at a time, and two windows, which is
what a reload, a second window and the messages and the unfinished lifting of an earlier
session need; one power batch, update or stop, and two messages under way. The graces of a
session and of a renewal are two ticks, a hold is set for three and an hour is three: a
window in use outlives the hold it opened with by its renewals only, and heartbeats,
renewals that wait or fail, lapses and late closes meet it at every age (the mutant of the
run is a renewal that does not extend the hold). With two sessions at a time the state
space is too large for the liveness check; both invariants hold there too (4.7 million
states, a hold set for two ticks), and the theorems cover any number.

- `WindowsKeepTheirHold`: a window that nobody has taken over and whose heartbeats get
  through keeps its session and the hold of its desktop. "Get through" is an assumption on
  the platform and the network (`fed`): the code renews the hold for exactly the grace it
  gives a heartbeat, so a heartbeat that is late by less than the grace, and a renewal
  that waits, may together lose a hold.
- `HoldsHaveSessions`: a hold set for a page has a session, or its lifting is still to come.
- `HoldsAreLifted` (liveness): the hold of a desktop that is no longer used in a page
  goes, whatever message is lost. Fairness is given to the server, its timers and the
  clock, and to the end of a power batch or update.

**Proofs** (`DesktopPagesProofs`): both invariants and the types for every number of
desktops, sessions and windows and for every HeartbeatGrace <= RenewHold <= OpenHold.
The invariant adds the age of the last renewal to what the hold has left (`Renewals`),
where close messages come from (`ClosesOfGone`), and that a hold is lifted only for a
desktop without sessions, which nobody can open meanwhile (`Lifting`).

## Schedules and Scheduler: what is due, and who starts it

Code: `scheduler`, `startScheduledTask`, `redeemDue` in
`internal/service/manager.go`; `Claim`, `ReleaseClaim`, `KeepaliveActiveAt` in
`internal/storage/store.go`.

`Schedules` has the rules without state: the window of the keepalive, the minute of a
Cron plan as a tick looks for it, and the plan of the redemption. `Covered` is the
reference definition of a window: it opens on the chosen days and stays open for so many
minutes. `Scheduler` is the loop of one account: a tick every 20 seconds, a claim in the
store under the minute, a goroutine that asks the platform whether the day is credited and
then starts the task, and the redemption that the loop starts itself. The Cron library is
modelled by what the code asks of it, the first moment of the plan after another.

A tick may be lost; the service may stop between any two steps and start again with
another ticker; a switch, an update, a start that is refused are upsets. `calm` remembers
since when nothing has kept a tick from its work. The task, the redemption and the
keepalive share nothing but the clock and the loop, so a behaviour follows one of them.

`scheduler` has minutes of four seconds with a tick every two, days of three minutes,
weeks and months of two days, and runs three days: every position of the ticks, the turn
of the day, the week and the month, a plan with adjoining minutes over midnight, all
windows, all plans, and one upset.

- `OneStartPerClaim`, `MinutesAreTaken`: a claim starts at most one task, and no minute of
  the plan is passed over while nothing keeps a tick from its work.
- `StartsFollowTheCron`: a task starts in the minutes of its plan. The look back of 61
  seconds finds a minute once more from a tick on the first second of the next, under that
  one's claim: the property excepts it, and the run reaches it.
- `RedemptionsFollowThePlan`: one redemption a day, on the days of the plan, an interval
  counted from every success, also that of an order the user placed.
- `WindowIsKept`: the keepalive runs in exactly the minutes of its windows.

**Proofs** (`SchedulerProofs`): all five, for every length of a minute, a day, a week and
a month, every period of the ticks up to a minute and every plan; and `WindowRule`, the
agreement of the code's window with the reference. The properties do not depend on each
other, and each has an invariant of its own: what a claim implies (`Taken`), which minutes
are behind the latest tick (`NotBehind`), where a claim comes from (`FromThePlan`), what
the latest comparison found (`Compared`), and how the ledger and the claim of the day
bound the redemptions (`LedgerDates`, `Redeemed`).

## What is proved, what is checked, what is assumed

| property | TLC | TLAPS |
|---|---|---|
| TaskRunner: SlotExclusive, PreparedQuiescent, PowerExclusive, ToggleStopsRuns, RowsAreTracked, CleanExit, ImplementsLedger | yes | yes |
| TaskRunner: OpenRowsClose, PreparationDecides (liveness) | yes | |
| RunLedger: exclusive, final (stated and proved in TaskRunnerProofs) | through TaskRunner | yes |
| PowerBatch: HistoryIsTrue, PowerComesFirst, RefusalRestoresHold, OpenItemsAreTracked, ShutdownStays, ImplementsLedger | yes | yes |
| PowerBatch: SubmittedOnce, OutcomesAreFinal | through ImplementsLedger | yes |
| PowerBatch: BatchesEnd (liveness) | yes | |
| Redeem: OpenOrderBlocks, OneAutomaticOrderADay, LedgerIsTrue | yes | yes |
| Update: NoDowngrade, RollbackRestores, UnprovenCanBeUndone, ResultIsTrue, ImplementsTrial | yes | yes |
| WindowsUpdate: ProgramIsWhole, RollbackRestores, ResultIsTrue, ImplementsTrial | yes | yes |
| WindowsUpdate: TransactionsClose (liveness) | yes | |
| Keepalive: SessionsAreRegistered | yes | yes |
| Keepalive: WantedStarts, UnwantedStops (liveness) | yes | |
| DesktopPages: WindowsKeepTheirHold, HoldsHaveSessions | yes | yes |
| DesktopPages: HoldsAreLifted (liveness) | yes | |
| Scheduler: OneStartPerClaim, MinutesAreTaken, StartsFollowTheCron, RedemptionsFollowThePlan, WindowIsKept | yes | yes |

Every module whose properties are proved has its TypeOK proved too. The theorems assume
only the named assumptions on the constants; liveness is out of the prover's reach and
stays with TLC. Each run carries the bounds of its configuration, the theorems carry none.

Where code and documentation disagree (`findings` of PROJECT.json), each shown by a run
that TLC must find violated: `update_data` (a stop inside `RestoreDatabaseFile` loses the
database) and `usage` (a settings request disconnects a usage task).

Seen while modelling, and not promised anywhere, so that no run states it.

Tasks, sessions and power:

- the account form disables an account without stopping its tasks (`web/server.go:703`;
  the toggles do stop them);
- a session that an older reading starts after its account was deleted goes on until
  something restarts the sessions (`web/server.go:786`, `manager.go:443`);
- a run whose closing UPDATE fails stays queued or running in the history until the next
  start, though nothing works on it any more (`manager.go:939`, `1058`);
- a keepalive start decided just before a power-on batch registers in it and may start and
  connect to the desktop while its power request is out (`manager.go:443`, `504`);
- setState can overwrite a live session (`manager.go:736`), which then only Close
  cancels;
- a keepalive start that fails is not retried until something restarts the sessions
  (`manager.go:517`), and one launched just before PrepareForUpdate connects during the
  update (`manager.go:1439`);
- a crash between the permanent hold of a shutdown and its mark leaves the desktop
  held until a user resumes it, though the operation is called cancelled
  (`service/desktop.go:372`, `storage/desktop.go:80`);
- the hold sweeper selects and deletes by two readings of the clock, and an account
  whose hold lapses in between is not rebuilt (`storage/desktop.go:117-135`);
- the heartbeat grace of a page and the renewal of its hold are both 150 s
  (`service/desktop.go:179`): a late heartbeat and a slow renewal may lose the hold;
- the target of a redemption can be replaced while an order is pending, which
  `validateRedeemTarget` means to refuse (`manager.go:1580`, `1639`), and deleting an
  account erases the ledger of its pending order.

Scheduler:

- a task refused after its minute, or whose claim a stop kept, is not started later: with
  one Cron minute a day, that day is skipped (`manager.go:1907`);
- a tick on the first second of a minute takes the minute before once more, under the
  claim of the next (`manager.go:1905`); only the query of the platform, or the run that
  is still active, keeps the task from starting twice.

Updates:

- the journal of the first installation from an image is refused by the next start
  (`launcher/main.go:463`, `624`), as is a journal towards an image that has been
  replaced meanwhile;
- a stop between the journal and the passing of the lock leaves a lock with the token of
  the launcher, and the next start is refused (`launcher/main.go:747-766`, `82-92`);
- on Windows, a helper that gives up after its transaction is written releases the lock
  the recovery needs (`updater/main.go:195`); an installation begun just after a helper
  has crashed removes it too (`update/lock.go:53`);
- a stop between the two moves that replace the executable or the updater leaves neither,
  and nothing starts any more (`updater/main.go:160`);
- a service stays in maintenance after its helper has crashed before the transaction.

## Not modelled

- The frames, timers and reconnection of a desktop connection (`ctyun/clink.go`): one
  goroutine with two timers; to the rest it is a link that is there or lost.
- The platform client (`ctyun/client.go`, `native.go`, `desktop.go`) beyond the outcomes
  of orders and power requests: signing, login, binding, decoding.
- The chat client, encryption, passwords, tokens, login and CSRF of the web interface,
  pages, listings, logs: they decide nothing that the modelled parts depend on.
- Checking for, downloading, verifying and extracting a package, the comparison of
  versions and the rules of a manifest: input and output and pure functions, an aborted
  installation when they fail.
- Schema migration, status snapshots and drafts of the store.
- On Windows: a second helper, a second program and the search for the service.
- The release tool, which runs at build time.

Contents (pages, packages, signatures, frames, messages, secrets) are left out
throughout; times are orders of events, or ticks where an order depends on durations.

## What could follow

Every property but the liveness ones is proved. An abstract order book that Redeem
implements (points leave once per order, an unknown order blocks) would do for the
redemptions what PowerLedger does for power requests. A second program or helper on Windows
would need a lock of the service manager in the model, which the code leaves to Windows.
