# TLA+ development for MenüQR Bridge

MenüQR Bridge is a desktop application that takes kitchen orders from a cloud
service and prints each of them as a bon on a local printer. It has to survive
printers that fail half way, a service that cannot be reached, crashes, pauses
and revocations, without losing an order and without printing it twice more
often than it must. This directory holds TLA+ modules of that logic, TLC runs on
small instances, and TLAPS proofs for instances of every size. Paths below are
relative to the repository, modules and configurations are in this directory.

## 1. The system

| Component | State it keeps | Operations | Correct when |
|---|---|---|---|
| Print executor, `src/core/print-executor.ts` | none of its own | `handoff`, `handleResult`, `acknowledge` | an order is acknowledged only with a bon on paper; duplicates only after a disturbance |
| Execution ledger, `src/core/execution-ledger.ts` | one JSON file, at most 200 entries | `assertPayload`, `record`, `prune`, `recent` | an entry that suppresses a print or an acknowledgement is true; a pending acknowledgement is not forgotten |
| Bridge runtime, `src/core/bridge-runtime.ts` | shown state, AbortController, pause and revocation flags, three loops, persisted file | `restore`, `start`, `setPaused`, `stop`, `shutdown`, heartbeat, poll and session watch | nothing runs while paused or revoked; a revocation is always noticed |
| Runtime store, `src/core/runtime-store.ts` | one file, a write queue | `read`, `write`, `flush` | the last state wins |
| Pairing, `src/main/pairing-service.ts`, `src/core/pairing-state-machine.ts`, credential stores | pairing state, credential file | `begin`, `poll`, `disconnect`, `clearRevokedCredential` | what is shown, stored and running is one credential |
| Adapter configurations, `src/integrations/adapter-config-store.ts` | one file of printer profiles | read, write, activate, remove | no change is lost, one active printer |
| Kitchen route service, `src/main/kitchen-route-service.ts` | health per printer, debounce counters, discovered candidates | `handoff`, `readiness`, health monitoring, discovery, configuration | a lost printer is told; what was tested is what is stored |
| Printer adapter, `src/integrations/printers/star-tsp1000-lan/` | a socket | `execute`, `test`, `healthCheck`, `discover` | settles once; a failure before the first byte is distinguishable |
| Windows spooler, `src/main/windows-printer-spooler.ts` | a child process | `printText`, status | settles once, leaves no process |
| Rendering and contracts, `src/integrations/kitchen-bon.ts`, `src/contracts/` | none | pure functions | everything is printed within the paper; sums are right |
| Diagnostics, `src/main/diagnostic-log.ts`, `diagnostics-service.ts` | log files, an append queue | `append`, `recent`, `export`, rotation | entries are kept in order and bounded |
| Update service, `src/main/update-service.ts` | a snapshot, a timer | `check`, `install`, updater events | nothing is installed unasked, and a bridge stopped for it does not stay stopped |
| Service client, `src/main/pairing-api.ts` | none | one request per operation | a request settles, with its lease token |
| Wiring and window, `src/main/index.ts`, `src/renderer/renderer.ts` | window, tray, flags | IPC handlers, start-up, quit; buttons | calls the right operation of the right component |

How they interact: `index.ts` reads the credential and calls `runtime.start`.
The poll loop asks the route service whether a printer is configured, asks the
service for a job and hands it to the route service, which builds an executor
over the shared ledger file. The executor renders the bon, prints it through the
adapter (a socket or the Windows spooler) and reports to the service. Heartbeat
and session watch may revoke the device, which stops all loops and calls back
into pairing to delete the credential. The window asks for pairing, printer
settings, discovery, diagnostics and updates by requests that do not wait for
one another. Everything is one event loop, so interleavings happen at each
`await` and nowhere else; but `stop()` waits for nobody, so loops of a stopped
generation overlap with those of the next one.

What is hard: an abort, a crash or a lost request at every await of a hand-off;
unlocked read-modify-write of the ledger and of the configuration file through
one temporary file each; state that is set after an await without another look
at the signal; start calls that wait for a file while a pause, a disconnect or a
revocation happens; answers that arrive after what they were asked about has
changed; promises that a timer, a signal and three socket events race to settle.
The list of hazards in `PROJECT.json` names each at its line, with the
properties that watch it.

## 2. The modules

One step of every module is the code from one `await` to the next. Names are
those of the source where TLA+ allows it. Observations, which record what
happened and are read by no guard, are marked in the declarations. A definition
whose comment begins with "Mutant" is a plausible bug, used to check that a
property can fail; no model refers to it.

### Delivery: PrintExecutor, DeliveryPromise

A loop `l` stands for one invocation of the poll loop, `pc[l]` for the await it
is at. Steps named `rec_x` are calls of `ledger.record`, steps named `fail_x`
calls of `completion.fail`:

| Code | Model |
|---|---|
| `assertPayload` and the early returns of `handoff` | `AssertPayload`, `Dispatch` |
| `record`: read, compare the hash, write the file | `RecordRead`, `RecordWrite`, with `snap[l]` holding the copy between them; `RecordUnread`, `RecordUnwritten` when a file operation fails |
| `adapter.execute` / `adapter.test` and its results | `PrintSucceeds`, `PrinterOffline`, `PrintPartial`, `PrinterRefuses`, `PrintCanceled` |
| `acknowledge` and its inner catch | `AckAccepted`, `AckRejected`, `AckUnavailable`, `ThrownAt` |
| the catch of `handoff` | `Catch`, `FailMismatch` |
| `completion.fail` | `FailAccepted`, `FailRejected` |
| a request with an aborted signal rejects before it is sent | `Requested` |
| leaving the hand-off into `while (!signal.aborted)` | `Return` |
| `start`, `stop` of the runtime | `StartLoop`, `Abort` |

The job service and the printer are environment, modelled from how the code uses
them: a job is leased to one loop, a report counts only while its lease is
current, an unreported lease expires, and the service may change a content or
offer an acknowledged job again. A rejected request may still have reached the
service. `acked`, `written`, `paper`, `faults` and `refused` observe the
behaviour. `written` counts writes the printer took in; that a socket accepted
the bytes is taken for a bon on paper, as the code takes it. Disturbances come
from a budget: `FaultKinds` says which are allowed and `MaxFaults` how many
happen, so one specification serves both "anything may go wrong three times" and
"only requests are lost".

`DeliveryPromise` has three variables and three actions: bons are printed, jobs
acknowledged, and acknowledged jobs remembered; nothing is acknowledged without
a bon, and a remembered job is never printed. `PrintExecutor` maps the ledger's
"succeeded" entries to the remembered jobs and is checked to implement it
(`KeepsPromise`).

### The ledger's file: ExecutionLedger, LedgerPromise

The file is a sequence of entries, absent, or `Torn` (anything that is not JSON,
which `read` takes for an empty ledger). `record` and `prune` read it, compute
what they will write (`WithRecord`, `Pruned`), and go through `writeOpen`,
`writeFill` and `writeRename`. An operation holds the file it opened: `fd[o]`
says under which name that file now is, so a rename of the shared temporary file
takes along whoever is still filling it. `Over` says what is left when a shorter
text is written over a longer one. `LedgerCrash` and `writeFails` may come at
every await. `LedgerPromise` is what the executor relies on: a record is taken
over in one step or not at all, a full ledger forgets the entry untouched
longest, pruning spares pending acknowledgements.

`read` takes every error for an empty ledger. `Finds` has both outcomes: what the
file holds, or nothing after a read that failed, in which case the operation is
`blind` and writes back no more than its own entry. `LedgerPromise` has this as an
action of its own (`Forgets`), so that the promise says exactly how much is lost
and when; `lost` observes whose entries went that way.

### Start, pause, revocation: BridgeRuntime

A generation is one call of `start()` that created an AbortController;
`controller` is the one whose signal is live, `NoGen` if none. Each generation
has its poll loop, heartbeat and session watch, at the await given by `poll`,
`beat` and `watch`. `starts` holds the pending calls of `maybeStartRuntime` with
what the credential file gave them, so a start may run after whatever else
happens. `transition` sets the shown state and queues a persist, `persist` writes
the file. A credential that is being deleted
(`clearing`) can still be read. `withdrawn` observes that the device was
disconnected or revoked and has not been paired since, `overtaken` that a start
with the old credential is nevertheless possible: it was pending at that time, it
read the file before the deletion, or the deletion failed or was cut short.
`ReadinessKnown` and `OutcomeRecorded` set the state without a look at
the signal, as the code does. The users' actions (`Pause`, `Resume`,
`Configure`, `Disconnect`, `CredentialSaved`, `ShutdownForUpdate`), changes of
what the service thinks of the device, crashes and storage errors share the
budget `MaxEvents`, filtered by `EventKinds`; those in `LoneKinds` take all of it.

Simplifications: restoring the stored state and the request for the first start
are one step; the readiness check reads the configuration in the step in which
it answers; a wait and the retry after an error are one await each; pairing is
only approved while no credential is stored; the lists of recent jobs are left
out; a hand-off is one await, its inside is `PrintExecutor`.

### Pairing

`Pairing` composes the pairing service with its credential file, the window that
asks (`Click`, `Ask`), the runtime that is started with what the file gave
(`maybeStartRuntime`, `StartRuns`) and stopped before a disconnect
(`disconnect`), and the revocation that deletes the file (`onRevoked`,
`clearRevokedCredential`). A code stands for one call of `begin()`: its device
code, its poll loop with its controller, and the credential an approval gives.
`step[c]` is the await that call is at. `begin()` aborts the loop before it, but
a token request carries no signal, so an answer may arrive after a disconnect or
under another code; `transition` of the state machine is asked on each answer,
as in the code. `crossed` observes that a save or a start crossed a deletion.
The service decides on a code, forgets it and removes a device as it likes.

### Printer settings: PrinterProfiles, PrinterSettings, SettingsPromise

`PrinterProfiles` holds the pure part of the configuration store: what an entry
of the file says (`ProfilesOf`, `ActiveOf`, `ReadOf`, older files included) and
what saving, activating and deleting make of it. `PrinterSettings` is the rest:
a request reads the file two or three times at separate awaits, computes an
entry and writes it through the shared temporary file, with the same semantics
of open files as in `ExecutionLedger`. `SettingsPromise` is a table of printers
with one active printer, changed by one request at a time, all or nothing.

### Health: PrinterHealth

A task is one call that ends in a health record: a heartbeat's check of one
printer, a direct check, test page or kitchen order whose result counts at once,
or a save or delete that forgets the printer's health. `recordHealth` is the
code from the result to the queued write, with the debounce (`Spared`,
`Counted`), the table in memory and the queue of snapshots of the health file
(`Written`, `NotWritten`); `Tell` is the listener that is called after the
write, `TellFails` the same call when the settings, which it reads first, cannot be
read. `untold` observes a loss nobody was told of, `hindered` that its call threw
or died. `stored[i]` counts the edits of a printer, so that a result of an older
configuration can be told from one of the present.

### Discovery: PrinterDiscovery

The search, the choice, the test page and the confirmation of the route service,
with the buttons of the window (`ClickDiscover`, `ClickSelect`, `ClickTest`,
`ClickConfirm`) and what the window believes meanwhile (`renderSetupSummary`,
`Answered`). Any number of
selections may wait for their answer, which the instance bounds by
`MaxUnanswered`. A candidate stands for its host; `Device` is what a configuration
prints on. `configurationFor` derives a candidate's configuration from the
active printer's, as the code does, once for the test and again for the
confirmation.

### The bon on its way: SocketPrint, SpoolerPrint, PrintPromise

`SocketPrint` is one print over the network: `execute`, the resolution of the
address, `connectSocket` and `finishSocket`, whose timer, socket listeners and
abort listener race to settle it (`onConnect`, `onError`, `onClose`, `onTimeout`
and the others); `out` counts the packets that have left. `SpoolerPrint` is any number of prints beside one
another through a PowerShell process each, every copy a print job of its own:
time limit, signal, exit, the catch that kills. `PrintPromise` is what
`PrintExecutor` takes for granted when it makes a print one step with five
outcomes: one outcome, printed only when everything went out and no signal came
before, "offline" only when nothing did. Both modules are shown to implement it,
by TLC and by proof.

### The search for printers: ScanTargets, PrinterScan

`ScanTargets` computes which hosts are asked (`discoverPrivateIpv4Hosts`, with
its cap). `PrinterScan` is `mapWithConcurrency` with `probePrinterPort`: workers
that share an index across their awaits, answers in any order, a signal, and the
second pass that asks for names.

### The bon itself: BonText, TextWrap, KitchenBon

A text is the sequence of the lengths of its words, a line its length and the
pieces of words on it, so that "nothing is lost" can be said of letters without
writing any. `BonText` is `wrapText` as a function, with `sanitizeText` and its cap
of 1,200 characters; `TextWrap` is the loop of `wrapText` as a process, for proofs
over any text. In `KitchenBon` a word says how many characters its first letters
take in print, since upper-casing and transliteration make a text longer (a sharp
s becomes two) between the caps of `buildBonDocument` and the one of `wrapText`.
It parses a job
(`parseKitchenPrintJob`: totals, unique IDs, ranges) and lays it out in the three
layouts with the markers of changes, cancellations and additional orders
(`buildBonDocument`, `documentLines`), wrapping every text by `BonText`, and then
applies the guards of lines and bytes.

### The log and updates: DiagnosticLog, LogPromise, UpdateService

`DiagnosticLog` has the append queue, the rotation that renames file by file,
writes that are cut off, crashes, and an export that waits for the queue and then
reads the files one by one while the queue goes on. `LogPromise` is a sequence
that grows at its end and is forgotten from its beginning. `UpdateService` is
`check` by the timer and the button, the library's events, the install handler of
`index.ts` that stops the runtime and starts it again if nothing was launched,
and the way the program quits.

### Lists: Selection

`Selected(list, Wanted)` is `Array.prototype.filter`, written with a set for the
test and a function for the recursion, so that it can be reasoned about. The
ledger, the printer profiles, the search and the log use it.

### Instances and proofs

| Module | Instance of |
|---|---|
| `MCPrintExecutor` | PrintExecutor |
| `MCDelivery` | PrintExecutor; ExecutionLedger |
| `MCBridgeRuntime`, `MCPairing` | BridgeRuntime; Pairing |
| `MCDevice` | BridgeRuntime; Pairing |
| `MCKitchenRoute` | PrinterSettings; PrinterHealth; PrinterDiscovery |
| `MCKitchenBon` | orders for KitchenBon: small ones of every kind, texts around the caps, and the largest |
| `MCBridgeParts` | KitchenBon, TextWrap, SocketPrint, SpoolerPrint, PrinterScan, DiagnosticLog, UpdateService |

An instance of several modules is their sum, not their product. The modules
share no variable: where one component matters to another, it is modelled in
both, as what the other can see of it. A behaviour of the sum takes steps of one
component while the others are in a fixed state of rest, which is one of their
initial states. Every state and every step of each component is therefore
reached exactly as in a run of its own (a mutant of a property of each is found
there), and a liveness property is not weakened, as no fair action is enabled at
rest. The theorems are in eight modules:

| Module | Theorems about |
|---|---|
| `PrintExecutorProofs` | PrintExecutor, with any number of loops and with one |
| `LedgerProofs` | ExecutionLedger; MCDelivery |
| `DeviceProofs` | BridgeRuntime; Pairing; MCDevice |
| `SettingsProofs` | PrinterProfiles, PrinterSettings |
| `RouteProofs` | PrinterDiscovery; PrinterHealth; MCKitchenRoute |
| `PartsProofs` | SocketPrint; SpoolerPrint; PrinterScan; DiagnosticLog; UpdateService |
| `BonProofs` | BonText, TextWrap; KitchenBon; MCBridgeParts |
| `SelectionProofs` | Selection: lists, and the least counterexample |

## 3. What the runs check

| Run | Instance | Shows |
|---|---|---|
| `print_one_loop` | 2 jobs, 2 contents, one corrupt, 1 loop, every fault, 3 of them | at most one extra bon per disturbance that touched the job (`BonsBounded`); a printed job is reported failed only after a disturbance or a refusal; the ledger says in_flight, with this content, whenever bytes go out (`WriteAhead`); every job is acknowledged or failed in the end (`EveryJobEnds`) |
| `print_two_loops` | 2 jobs, 2 loops, abort, crash, lease expiry, lost requests, 3 of them | `Soundness`, with `AckedWasWritten` and `LedgerNeverOverstates`: an acknowledged job is on paper and an entry that suppresses something is true, although overlapping hand-offs lose each other's ledger updates |
| `promises` | executor: 2 jobs, 2 contents, 1 loop, every fault but an unreadable ledger, 3 of them; ledger: 3 jobs, 2 entries, one operation at a time, 2 file errors (of reads as well) or crashes | one content per job; the executor implements `DeliveryPromise`, the ledger `LedgerPromise`; a pending acknowledgement is forgotten only behind a full ledger of younger jobs, or by an operation that could not read the file (`PendingKept`) |
| `device_safety` | runtime: 2 generations, any 2 events; pairing: 2 codes, 2 disconnects, or 1 with one fault of any kind | nothing runs while paused, disconnected or revoked, and no order is taken on then, unless a start with the old credential overtook its deletion (`PausedOrWithdrawnIsStopped`, `NoLateHandoff`); `AuthorizationAlwaysChecked`; what is shown, stored and running is one credential unless a save or a start crossed a deletion (`OneCredential`); the page that is opened is the checked one of the shown code |
| `runtime_liveness` | 2 generations, any two pauses, changes of the configuration or of the standing or storage errors; or one crash, disconnect, new credential or update | a revocation stops the bridge; loops of stopped generations end |
| `pairing_liveness` | 2 codes, 1 disconnect, 1 lost request or bad page | a shown code is polled for; every request for a code ends |
| `route_safety` | settings: 3 printers, 2 configurations, 2 requests, 1 fault; health: 2 printers, 2 tasks, 2 edits, 1 fault; discovery: 2 candidates, 2 searches, 2 tests, 1 confirmation, 1 change of settings | the settings implement `SettingsPromise` while requests do not overlap, and agree with themselves when they do; a lost printer is told unless the call fails, and its record is what a restart restores; what is stored was tested and was shown |
| `bridge_parts` | see below | the bon shows all texts within their caps on the paper, and orders of ordinary words are not refused; a print settles once, tells what went out and leaves nothing behind; a search asks every host once; the log keeps its order; checks and installations end and are never unasked |
| `print_ack_loss`, `print_retry_lost`, `runtime_unconfigured`, `runtime_revoked` | small ones | violated, see section 5 |

Properties of one component that belong together are one property with named
parts: `SettingsMakeSense` (`ActiveAgrees`, `NothingInvented`, `SavedKept`),
`BeliefIsKept` (`FileFollows`, `LossIsTold`), `StoredAsShownAndTested`
(`StoredWasShown`, `StoredWasTested`), `FindsAll` (`FoundOnce`,
`AnsweredIsFound`, `EveryHostAsked`), `LogFaithful` (`Retained`,
`ExportsInOrder`, `ExportComplete`), `UpdatesInOrder` (`ChecksDoNotOverlap`,
`InstalledOnRequest`), `WrapsFaithfully` (`LinesFit`, `NothingLost`),
`BonFaithful` (`EveryLineFits`, `EverythingPrinted`, `ItemsStandTogether`,
`PrintedAddsUp`), `UpdatesEnd` (`InstallEnds`,
`CheckEnds`), `CallsEnd` (`PrintEnds`, `PrintsEnd`, `ScanEnds`, `AppendsEnd`),
and the type invariants of an instance's modules. Each part is stated and
explained where it is defined.

Bounds of the delivery. Three disturbances reach every pair of faults in one
hand-off with a third in the retry, which is the longest story in the code: a
job has no memory but its ledger entry, its lease and the loop's locals. Two
loops suffice for the lost-update races: the ledger is shared by reads and writes
of whole files, and `stop()` leaves at most the aborted and the live hand-off at
work on one job. In the executor no entry is ever evicted; eviction is the
ledger's, where three jobs compete for two entries. The two are not composed:
what the executor makes of an entry that was evicted is what it makes of no
entry, which the fault of an unreadable ledger covers.

Bounds of the device. Two generations are the live one and one that is ending;
`StartGeneration` needs a quiet one, so a third start waits until the first has
ended, and the proofs cover the rest. Two codes are what an overlap of `begin()`
needs, with a disconnect, one more of them, and a start that was pending before;
a third code would meet the same states. For liveness, the rare events
(`LoneKinds`) come alone, one in a behaviour; `device_safety` has every pair.

Bounds of the route. `MCKitchenRoute` narrows two of its parts, as their product
is too large: two settings requests overlap only where there are two printers,
one of them keeps its configuration, and nothing fails; without an overlap all
three printers and both configurations are there, and with two of the printers a
fault or crash at every await. Only one printer at a time has been saved a second time, and a fault of
the health file comes with one printer. Lost updates need two requests, and
what a fault does to the file does not depend on how many printers are in it.
In the discovery, a change of the settings comes with a second search or a
second test, not with both, and at most two selections wait for their answers.

Bounds of the parts. The bon: all small orders of five lists of items, every
kind of ticket, three layouts, on 48 columns, with references of up to 80
characters; names, notes and order notes that reach a cap as they are typed, or
only in print by a sharp s or by ellipses; and orders of 50 items with names of 240,
variations of 160 and notes of 600 characters and an order note of 1,200 against the real guard of 2,200 lines, one in
ordinary words, which is printed, and one in words that leave most of each line
empty, which is refused. Wrapping: up to five words of up to
seven letters on three columns, so that words fit, fill the line and are cut
twice; the proofs cover every width. Socket: a bon of 90 packets, with every
event after each of them. Spooler: two prints beside one another of two copies each.
Search: a cap of four hosts, three workers, a cable and a wireless interface in
one network, a tunnel and a public address that must not be asked. Log: three files of two lines, six
events, two faults, an export of at most four entries. Updates: two checks, two
install handlers, two clicks, one failure.

Deadlock is checked in the executor's runs and in `promises`. It is off
elsewhere: an unpaired or paused bridge, a pairing window, a settings window and
a print that has settled have nothing to do until somebody acts, and users are
not obliged to; and the budgets of events end.

Fairness. `LoopStep(l)` is weakly fair because every await of a hand-off settles:
requests and sockets have timeouts, file operations return. The service answers
a poll while it has work and lets leases expire. `StartLoop` is not fair, so
`EveryJobEnds` assumes instead that loops keep coming back, which is what an
unpaused bridge does. In the runtime, loops take their steps, a session watch
that is answered sees a revocation, and a deletion of a file returns. In
`Pairing`, requests, file operations and timers are fair, and so is the lapse of
a code, which is a clock, and a runtime that runs with a removed credential
learns of it, by its session watch. In `SocketPrint` the program's own steps and its
timers are fair and the network is not: a print ends although nobody answers.
In `SpoolerPrint` the time limit and the catch are fair, and a killed process
closes; one that was not killed need not. In `PrinterScan` every probe has a
time limit. In `DiagnosticLog` file operations return, well or badly. In
`UpdateService` the library answers a check and the runtime's shutdown, which
has a limit of two seconds, returns. Users, crashes, printers and the service's
opinion of a device are never fair.

## 4. What is proved

The proofs assume nothing but the named assumptions on the constants of each
module (bounds are natural numbers, the sets of jobs and of candidates are
finite, and a value that stands for "none" is none of the others);
where a theorem has a hypothesis of its own it is said below. They
rest on inductive invariants, which were checked with TLC first; each has a
lemma that a step preserves it, with a case per action.

### Delivery: `PrintExecutorProofs`, `LedgerProofs`

`PrintExecutorProofs`, for any jobs, contents, loops, fault kinds and budgets:

* `TypeCorrect`: `TypeOK`, from `ConstantsAssumption`. The lemmas `ControlFlow`
  and `GotoTyped` say that the control-flow operators name steps and that `Goto`
  moves one loop.
* `Sound`: `TypeOK /\ Soundness`, and from it `AckedWasWrittenHolds` and
  `LedgerNeverOverstatesHolds`. That the ledger never overstates is not inductive
  by itself, because `record` writes back what it read before: an overlapping
  loop may have changed the file and the disk may have failed in between. The
  strengthening is `Soundness`: every copy that a loop holds is as sound as the
  file (`SnapsSound`), and a loop at `rec_printed`, `ack`, `rec_succeeded` or
  `rec_ack_pending` has its bon written, one at `rec_succeeded` its
  acknowledgement in (`LoopsSound`). `PrintOrder` is the fact about the code that
  carries it: these steps are reached only from one another or from a settled
  entry, and every error thrown elsewhere leads away from them. The rest is that
  bons and acknowledgements are never undone (`Grows`). TLC checks `Soundness` in
  `print_two_loops`.

Its second part is about one loop at a time (`Loops = {l}`). With two loops none
of it holds: an aborted hand-off writes back a ledger without what its successor
has recorded. That only one loop is alive is what the code means to do;
`print_two_loops` has the other case.

* `WriteAheadHolds`. `Intent` is inductive: at the print the file says in flight
  with the content in hand, and after it the entry has that content.
* `BonsBoundedHolds`. `Bounded` is the accounting: between hand-offs the bons of
  a job are at most its disturbances, and one more if its entry is settled
  (`Known`); inside a hand-off the step decides (`Free`: none before the print,
  one from `rec_printed` until the acknowledgement is in the ledger, none on a
  way that books the job as not printed). An abort is paid for when it comes and
  used later, where its record hides a bon (`Debt`); a copy of the ledger that a
  failed read left empty counts as the ledger it will become (`View`). `Calm`
  says that a loop between two hand-offs has a live signal.
* `FailedAfterWriteIsDisturbedHolds`, from `Bounded` and `Reported`: a job in
  hand before its print is not yet reported as failed, and a mismatch is only
  reported of content that was refused.
* `OneContentPerJobHolds` and `KeepsPromiseHolds` (`PrintExecutor` implements
  `DeliveryPromise`), for a ledger that can be read. `Readable`: a copy of the
  ledger is the file, paper and entry show one content, and no step that leads
  to a print or to a record works on a job the ledger has as succeeded. The
  refinement needs `Soundness` where the promise acknowledges and remembers.

`LedgerProofs`, for any jobs, entries, size of the ledger, crashes and file
errors. `LedgerTypeCorrect` holds for any number of operations at a time.
`PendingKeptHolds` and `LedgerKeepsPromise` (the file implements `LedgerPromise`)
have the hypothesis `Alone`, one operation at a time; with two they are false,
see section 6. The invariant `AloneInv`: the file is tidy (short enough, one entry for each job, in
the order of the times), the operation under way will write what the entries
then are to become (`WithRecord`, `Pruned`), or what nothing is to become if it
could not read (`Found`), its temporary file holds what it has filled in, and a
pending entry is in the file with nothing behind it but entries of jobs recorded
later (`PendingHeld`), or as many as the ledger holds were recorded after it, or an
operation that could not read has dropped it (`lost`). Without the last part the property is not inductive: it says
how many younger jobs there are, and eviction goes by place.

### The device: `DeviceProofs`

For any generations, events and number of them, `BridgeRuntime` has `TypeCorrect`
and `Controlled` (`TypeOK /\ Control`), from which
`PausedOrWithdrawnIsStoppedHolds`, `AuthorizationAlwaysCheckedHolds` and the
action property `NoLateHandoffHolds` follow. `Control` adds that a process that is
down has no controller and no pending start (otherwise booting into a stored pause
would break the first), that while a device is withdrawn and not overtaken no start
with a credential is pending and a credential that is still there is being deleted
(`WithdrawnIsOver`; otherwise a start could bring the loops back), and that the
states which end the authorization loops are only shown by a stopped bridge
(otherwise these loops could end under a live signal).

For any codes, disconnects and faults, `Pairing` has:

* `OneCredentialHolds`, from `CredentialInv`: as long as nothing was saved or
  started across a deletion or another start (`crossed`, section 6), the file decides; what runs or is about to start
  runs with what is stored, also between a save and the start it leads to, and a
  credential that is being deleted is used by nobody.
* `ShownPageIsCheckedHolds`, which is inductive by itself.
* `ShownCodeIsPolledHolds`, from `PollerHasBegun`: only the live loop is ever
  aborted, and a loop that has not begun is not the live one. It assumes that
  credential files can be deleted; section 6 has the exception.

### The route: `SettingsProofs`, `RouteProofs`

`SettingsProofs`, for any printers, configurations, requests and faults.
`ProperInv` holds however requests overlap: what they have computed and what the
two files hold is well-formed and made of what was asked for (`Sound` and
`Given`). `SerialInv` holds until two requests overlap: the request under way
writes what the settings then are to become, and what was saved is stored.
`SettingsMakeSenseHolds` follows from the two, and `SettingsKeepPromise`, the
refinement of `SettingsPromise`, from the second.

`RouteProofs`, for any candidates, searches, tests and confirmations, has
`DiscoveryTypeCorrect`, with at most one search and one test under way or waiting
with their answer, and `StoredAsShownAndTestedHolds`. `WindowInv` is about the window, which lags
behind the service by the answers that are coming: the last of them that chooses
says what is selected, at most one search and one test are answered at a time,
and what comes after the answer of a test has made it worthless. `PaperInv` is
about the device: as long as the settings do not change, every test page came
out, and every configuration to be stored prints, where the transport of the
active printer sends it. For any printers, edits, tasks and faults, it has

* `HealthFitsSettingsHolds`, from `FitInv`: a check that is not late measures
  what is stored, and a health file that is not read yet is what a crash left;
* `BeliefIsKeptHolds`, from `BeliefInv`: what is written last is what is
  believed, until a task that has changed it joins the queue, and a loss has its
  call until that tells, throws or dies (`hindered`);
* the action property `KeptThroughOneFailureHolds`: a heartbeat takes back
  readiness only after a second failure (`CountedFailed`).

### The parts: `PartsProofs`, `BonProofs`

* Bons of any size, any number of prints and of copies: a settled print leaves
  nothing behind (`NothingLeftHolds`, `NoProcessLeftHolds`), and `SocketPrint` and
  `SpoolerPrint` implement `PrintPromise` (`SocketKeepsPromise`,
  `SpoolerKeepsPromise`). The invariants say which outcome and which amount sent
  are possible at each stage; for the socket, that everything handed over has
  gone out before the end of the connection can be taken for success; for the
  spooler, that a process which ended well has printed all copies.
* Any hosts and workers: `FindsAllHolds`. `WorkInv` says that each host was taken
  by one worker at most, and that a host taken is waited for or has left one
  element in the result; `AnswersInResult` and `AnswersInList`, that what answered
  is what the result holds, and each of its elements is then named.
* Any numbers of files, lines, entries and faults: `LogFaithfulHolds` and
  `LogKeepsPromise` (the log implements `LogPromise`). `OrderInv` puts older
  files, newer ones and the queue in one order, and what a reader has seen before
  what it has still to read, although files are renamed under it. `ReadInv` says
  what an undisturbed reader has seen, `KeptInv` where each entry is as long as
  nothing fails. For the refinement, `HistoryIs` says that the stored entries
  increase, so a list of them is known by which they are (`IncreasingIsUnique`):
  each step leaves them, adds the newest or takes away all up to one of them. It
  also needs that a rotation has room behind the file it renames (`RoomBehind`),
  also when an earlier rotation failed half way.
* Any checks, install handlers and clicks: `UpdatesInOrderHolds`. There is a
  write to the log between the guard of `check()` and the call of the library;
  `UpdateInv` says that nothing passes the guard in between.
* Any width and text: `WrapsFaithfullyHolds` (no line is wider than the paper,
  and every letter of every word is on it, in order). The invariant describes the
  lines and the open line after each word: pieces that follow one another without
  a gap, the last one ending at the last letter taken. `WrapTextShows` carries it
  to `wrapText`, which takes all words at once.
* Any orders, layouts and paper: `EveryLineFitsHolds`, `EverythingPrintedHolds`,
  `ItemsStandTogetherHolds` and `PrintedAddsUpHolds`, together
  `BonFaithfulHolds`. `BonInv` says that the lines so far are `Ordered`: each
  fits, and their `Rank` (twice the item, and one more for its new version) never
  falls; that they `Cover` every text of the items already printed; and that an
  order which is past the parser is valid. Each step appends a block of which
  `LayoutIs`, `MarkerIs`, `HeaderIs`, `ItemIs` and `EndIs` say the same; blocks
  are joined (`OrderedJoin`, `CoversMore`) without looking into them again.

The assumptions about a bon are `BonAssumption`: paper of 48 characters or more, a
currency label of one or three, orders with the fields of the contract and numbers
below a thousand million (the contract has no bound, but `Digits` counts no further,
and no order comes near it). The theorems have no hypothesis. What they leave out is
in the properties: lines that refer to an order may be too long, and a text is only
promised where it stays within the caps, as it is typed and as it is printed
(`Legible`); section 6 has both. `CutAtIs` of `BonProofs` says that such a text comes
through `sanitizeText` unchanged.

### The instances

`DeviceTypeCorrect`, `RouteTypeCorrect`, `DeliveryTypeCorrect` and
`PartsTypeCorrect` carry the type invariants to the sums of modules that TLC
runs: a behaviour of `DeviceSpec`, `RouteSpec`, `BothSpec` or `PartsSpec` is one
of each of its modules (`DeviceRunsBoth`, `RouteRunsAll`, `DeliveryRunsBoth`,
`PartsRunAlone`), so every theorem above holds of it too.

### Lists

What a filter returns (`Selected`) and how lists are flattened is needed for
lists of any length. The library's induction theorems cannot be instantiated by
the provers at hand, so these facts are proved by the least counterexample
instead (`LeastElement` of `SelectionProofs`, from the well-foundedness of the
natural numbers): `SelectedPlaces`, `SelectedElements`, in `PartsProofs`
`AgreeAlways`, `JoiningExists` and `FlatRises`, in `BonProofs` `WrapTextShows`.

### Only model-checked

All liveness, which is out of the prover's reach, and `OrdinaryOrdersPrint`: it is
about the orders of the instance and false of others (section 6), and what it
counts are sums over all lines of a bon.

## 5. Disagreements found by the runs

* An acknowledgement lost after printing leads to a second bon
  (`print_ack_loss`): only the text `ACK_UNAVAILABLE` is recognised, and no error
  of the HTTP client has it. `docs/scenario-stress-test.md:50` promises otherwise.
* A retryable failure whose report is lost becomes terminal
  (`print_retry_lost`), against `docs/scenario-stress-test.md:52`.
* A bridge that waited for a printer is not restarted when the printer is
  configured, if a heartbeat failed meanwhile (`runtime_unconfigured`), against
  `tests/unit/bridge-runtime.spec.ts:216`.
* The revoked state is overwritten by an answer that was under way
  (`runtime_revoked`), against `tests/unit/bridge-runtime.spec.ts:123`.

## 6. Disagreements seen without a run

Met while modelling, and excepted by name in the property concerned; the
exception is part of the property or of the instance, so that the rest of it is
checked.

* Two ledger operations that overlap lose a pending acknowledgement. The prune at
  start-up (`src/main/index.ts:781`) is not awaited and shares the temporary file
  with the first `record` (`src/core/execution-ledger.ts:75`): it writes back
  what it read before the record, or empties the file the record then renames.
  `tests/unit/execution-ledger.spec.ts:20` keeps pending entries while pruning.
  `ExecutionLedger` has the overlap for disjoint `Recorders` and `Pruners`; the
  run takes one operation at a time.
* A ledger file that cannot be read, for whatever reason, counts as an empty one,
  and the next `record` or `prune` writes that back: every entry is forgotten, the
  pending acknowledgements among them (`src/core/execution-ledger.ts:106`), against
  the same test. `PendingKept` excepts the entries such an operation has dropped
  (`lost`), `LedgerPromise` has it as `Forgets`; what it costs in bons is counted by
  `BonsBounded`.
* A start whose credential was read before the credential was deleted is not
  stopped by the revocation or the disconnect that deletes it: `start` makes a new
  controller and resets `revocationHandled` (`src/core/bridge-runtime.ts:155`), and
  the loops take orders again until they learn of it from the service; nobody waits for a
  pending start before a disconnect (`src/main/index.ts:314`). The same happens after
  a deletion that failed, which is only logged (`src/core/bridge-runtime.ts:444`), or
  that a crash cut short. `docs/scenario-stress-test.md:95` promises "no later
  order may print". `PausedOrWithdrawnIsStopped` and `NoLateHandoff` except a
  withdrawn device whose credential was so `overtaken`; in `OneCredential` it is
  `crossed`, which also stands for an approval that is saved after the disconnect
  that should have ended it (`src/main/pairing-service.ts:202`).
* Two settings requests that overlap lose a saved printer or leave a file that
  cannot be read (`src/integrations/adapter-config-store.ts:98`); the unit test
  `tests/unit/kitchen-route-service.spec.ts:191` awaits each of them. `SavedKept`
  and `KeepsSettingsPromise` hold until two requests overlap.
* The loss of a printer is never told when the write of the health file fails, as
  the failure is in memory before it is written and told after
  (`src/main/kitchen-route-service.ts:581`), when the settings cannot be read right
  after that (`:584`), or when the process dies in between: no later check is a
  transition any more (test at `tests/unit/kitchen-route-service.spec.ts:150`).
  `LossIsTold` excepts these calls (`hindered`).
* A health result that was measured before the printer was saved again or deleted
  is recorded for the new configuration, or for a printer that is no longer there,
  until the next check (`src/main/kitchen-route-service.ts:560`).
  `HealthFitsSettings` excepts it (`crossed`).
* A discovered network printer is tested and stored as a Windows printer while
  the active printer goes through the spooler, as its configuration is spread
  under the candidate's host (`src/main/kitchen-route-service.ts:635`; test at
  `tests/unit/kitchen-route-service.spec.ts:251`). `StoredWasTested` compares
  what was printed on, which is then the same wrong printer.
* A line of the log that was cut off hides all later lines of its file from an
  export (`src/main/diagnostic-log.ts:72`), and a rotation during an export hides
  a file (`:67`), against "a user-triggered full diagnostic-log export"
  (`README.md:27`). `ExportComplete` excepts faults and renames.
* A second click on the install button passes the check of the state before the
  first one launches the installer, and then starts the bridge again beside it
  (`src/main/index.ts:532`). A shutdown that throws, or a failure the library
  reports by an event, leaves the bridge stopped in an open window, and so does a
  credential that cannot be read when the bridge is to be started again
  (`src/main/index.ts:751`); `InstallEnds` excepts these (`abandoned`).
* A disconnect ends the polling of a code that is on the screen before it deletes
  the credential (`src/main/pairing-service.ts:137`). If the deletion fails
  (`:148`), the request rejects and the code stays on the screen with nobody
  asking about it, until the user starts again. `ShownCodeIsPolled` is about
  credential files that can be deleted: `pairing_liveness` has no such fault, and
  the theorem has it as its hypothesis.
* The cap of 254 hosts is one /24 network: in two networks the second is never
  searched (`src/integrations/printers/star-tsp1000-lan/star-tsp1000-lan.ts:590`,
  against `tests/unit/star-tsp1000-lan.spec.ts:199`). `EveryHostAsked` is about
  the hosts within the cap.
* A valid order whose notes alternate one-letter words and words wider than the
  paper needs more than 2,200 lines and is refused with `BON_TOO_MANY_LINES`
  (`src/integrations/kitchen-bon.ts:54`), against
  `docs/scenario-stress-test.md:64`. `bridge_parts` has such an order and refuses it;
  `OrdinaryOrdersPrint` is about the others.
* A text is cut at 1,200 characters a second time after it was upper-cased and
  transliterated (`src/integrations/kitchen-bon.ts:470`): an order note of 1,200
  characters with one sharp s loses its last letter, and a longer run of characters
  that print as two or three loses more. `EverythingPrinted` is about texts that
  stay within both caps.
* A reference of 80 characters is not wrapped and runs over the paper
  (`src/integrations/kitchen-bon.ts:236`), against
  `tests/unit/kitchen-bon-scenario-matrix.spec.ts:61`. The orders of the instance
  have such references; `EveryLineFits` excepts the lines that refer to an order.
* A line of the log of which only the end of line is missing can still be read by
  `recent`, until the next entry is written behind it. `DiagnosticLog` takes it for
  cut off: what the properties promise is about lines with their end.

## 7. Not modelled

`PROJECT.json` lists every component with its status. Left out for good:
redaction and encoding of texts, the byte codes of styles, formats of requests
and the remaining contract parsers, encryption of the credential, durations of
back-offs, snapshots that only read (health and status queries of the spooler
and the adapter, diagnostics other than the log), tray, windows and presentation,
packaging, the virtual printer and the scripts: they keep no state that other
steps read, or are pure text. The one-profile write and reset of the
configuration store are called by no handler. One-shot helpers of
configuration have no interleavings. Of the runtime
store, the write queue is one atomic write of the current state in
`BridgeRuntime`.
