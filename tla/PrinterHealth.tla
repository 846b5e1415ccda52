--------------------------- MODULE PrinterHealth ---------------------------
(***************************************************************************)
(* What the bridge believes of its printers: healthByPrinterId and         *)
(* consecutiveHealthFailures of main/kitchen-route-service.ts, the queue   *)
(* that writes main/local-printer-health-store.ts, and the listener that   *)
(* tells the staff when the active printer is lost.                        *)
(*                                                                         *)
(* A task is one call that ends in a health record: a heartbeat's check of *)
(* one printer ("monitor"), a check, test page or kitchen order whose      *)
(* result counts at once ("direct"), or a save or delete of a printer,     *)
(* which forgets its health.  Tasks interleave at every await.             *)
(***************************************************************************)
EXTENDS Naturals, Sequences, SequencesExt

CONSTANTS Printers, Tasks,
          Failed,      \* the statuses other than "ready" that a check returns
          MaxEdits,    \* bound: how often a printer is saved
          MaxHealthFaults,   \* bound: crashes and failed file operations
          NoPrinter

Statuses == Failed \cup {"ready"}

(* A health record; edit, which the program does not keep, tells the       *)
(* configuration it was measured with.                                     *)
Health == [status : Statuses, edit : 1..MaxEdits]

ASSUME HealthAssumption ==
  /\ "ready" \notin Failed
  /\ MaxEdits \in Nat \ {0} /\ MaxHealthFaults \in Nat
  /\ NoPrinter \notin Printers \cup Health

VARIABLES
  stored,      \* stored[i]: 0 if i is not stored, or which configuration it has
  active,      \* the active printer
  health,      \* healthByPrinterId
  failures,    \* consecutiveHealthFailures
  loaded,      \* the health file has been read
  disk,        \* the health file
  queue,       \* healthWriteQueue: whose write, and what it writes
  doing, task,    \* the await a task is at, and what it is about
  healthFaultsLeft,
  lastFailed,  \* observation: lastFailed[i]: the last result for i was a failure
  crossed,     \* observation: crossed[i]: its health was measured while i was
               \*   saved or deleted, or the process died before the file followed
  untold,      \* observation: untold[i]: i was ready, is not, nobody was told
  hindered,    \* observation: hindered[i]: what was to tell that i was lost failed,
               \*   or the process died
  fileFailed   \* observation: a read or write of the health file failed

settings == <<stored, active>>
memory == <<health, failures, loaded>>
resultsSeen == <<lastFailed, crossed, untold, hindered, fileFailed>>
healthVars == <<stored, active, health, failures, loaded, disk, queue, doing, task,
                healthFaultsLeft, lastFailed, crossed, untold, hindered, fileFailed>>

NoTask == [kind |-> "none", id |-> NoPrinter, edit |-> 0, status |-> "ready",
           lost |-> FALSE, late |-> FALSE]

Unknown == [i \in Printers |-> NoPrinter]

HealthInit ==
  /\ stored = [i \in Printers |-> 0] /\ active = NoPrinter
  /\ health = Unknown /\ failures = [i \in Printers |-> 0] /\ loaded = FALSE
  /\ disk = Unknown /\ queue = <<>>
  /\ doing = [t \in Tasks |-> "idle"] /\ task = [t \in Tasks |-> NoTask]
  /\ healthFaultsLeft = MaxHealthFaults
  /\ lastFailed = [i \in Printers |-> FALSE]
  /\ crossed = [i \in Printers |-> FALSE]
  /\ untold = [i \in Printers |-> FALSE]
  /\ hindered = [i \in Printers |-> FALSE]
  /\ fileFailed = FALSE
-----------------------------------------------------------------------------
Goes(t, at) == doing' = [doing EXCEPT ![t] = at]

Ends(t) == Goes(t, "idle") /\ task' = [task EXCEPT ![t] = NoTask]

(* requirePrinter, monitorPrinterConnections and handoff take the          *)
(* configuration stored now.                                               *)
Check(t, i, kind) ==
  /\ doing[t] = "idle" /\ stored[i] # 0
  /\ kind = "monitor" \/ loaded
  /\ task' = [task EXCEPT ![t] = [NoTask EXCEPT !.kind = kind, !.id = i, !.edit = stored[i]]]
  /\ Goes(t, "measure")
  /\ UNCHANGED <<settings, memory, disk, queue, healthFaultsLeft, resultsSeen>>

(* The printer answers, or does not, some time later. *)
Measured(t, s) ==
  /\ doing[t] = "measure"
  /\ task' = [task EXCEPT ![t].status = s]
  /\ Goes(t, "record")
  /\ UNCHANGED <<settings, memory, disk, queue, healthFaultsLeft, resultsSeen>>

(* What goes wrong once less, in what may go wrong. *)
Fails == healthFaultsLeft > 0 /\ healthFaultsLeft' = healthFaultsLeft - 1

FileFails == Fails /\ fileFailed' = TRUE

loadHealth ==
  /\ ~loaded /\ loaded' = TRUE
  /\ \/ health' = disk /\ UNCHANGED <<healthFaultsLeft, fileFailed>>
     \/ UNCHANGED health /\ FileFails
  /\ UNCHANGED <<settings, failures, disk, queue, doing, task, lastFailed, crossed, untold,
                 hindered>>

IsReady(i) == health[i] # NoPrinter /\ health[i].status = "ready"

(* A known-good printer is given one failure in a heartbeat. *)
Spared(k) == k.kind = "monitor" /\ k.status # "ready" /\ IsReady(k.id) /\ failures[k.id] = 0

(* Mutant: only a heartbeat ends a series of failures. *)
CountedMonitor(k) ==
  IF k.kind # "monitor" THEN failures[k.id]
  ELSE IF k.status # "ready" /\ IsReady(k.id) THEN failures[k.id] + 1 ELSE 0

Counted(k) ==
  IF k.kind = "monitor" /\ k.status # "ready" /\ IsReady(k.id) THEN failures[k.id] + 1 ELSE 0

(* recordHealth, up to the write of the health file. *)
recordHealth(t) ==
  LET k == task[t] IN
  LET i == k.id IN
  LET lost == IsReady(i) /\ k.status # "ready" IN
  /\ doing[t] = "record" /\ loaded
  /\ failures' = [failures EXCEPT ![i] = Counted(k)]
  /\ lastFailed' = [lastFailed EXCEPT ![i] = k.status # "ready"]
  /\ IF Spared(k)
     THEN Ends(t) /\ UNCHANGED <<health, crossed, untold, hindered>>
     ELSE /\ health' = [health EXCEPT ![i] = [status |-> k.status, edit |-> k.edit]]
          /\ crossed' = [crossed EXCEPT ![i] = k.late]
          /\ untold' = [untold EXCEPT ![i] = (lost \/ @) /\ k.status # "ready"]
          /\ hindered' = [hindered EXCEPT ![i] = IF lost THEN FALSE ELSE @]
          /\ IF health[i] = NoPrinter \/ health[i].status # k.status
             THEN Goes(t, "persist") /\ task' = [task EXCEPT ![t].lost = lost]
             ELSE Ends(t)
  /\ UNCHANGED <<settings, loaded, disk, queue, healthFaultsLeft, fileFailed>>

(* Mutant: the health file is written at once, not in turn. *)
persistHealthAtOnce(t) ==
  /\ doing[t] = "persist" /\ loaded
  /\ queue' = <<[owner |-> t, printers |-> health]>> \o queue
  /\ Goes(t, "queued")
  /\ UNCHANGED <<settings, memory, disk, task, healthFaultsLeft, resultsSeen>>

persistHealth(t) ==
  /\ doing[t] = "persist" /\ loaded
  /\ queue' = Append(queue, [owner |-> t, printers |-> health])
  /\ Goes(t, "queued")
  /\ UNCHANGED <<settings, memory, disk, task, healthFaultsLeft, resultsSeen>>

(* The file is replaced in one step: no other write is under way. *)
Written ==
  /\ queue # <<>>
  /\ disk' = Head(queue).printers
  /\ queue' = Tail(queue)
  /\ LET t == Head(queue).owner IN
     IF task[t].kind \in {"monitor", "direct"} /\ task[t].lost
     THEN Goes(t, "tell") /\ UNCHANGED task
     ELSE Ends(t)
  /\ UNCHANGED <<settings, memory, healthFaultsLeft, resultsSeen>>

(* A call that throws tells nobody. *)
Hinders(t) == hindered' = [hindered EXCEPT ![task[t].id] = IF task[t].lost THEN TRUE ELSE @]

(* The write fails: its call throws, the next write goes on. *)
NotWritten ==
  /\ queue # <<>> /\ FileFails
  /\ queue' = Tail(queue)
  /\ Hinders(Head(queue).owner)
  /\ Ends(Head(queue).owner)
  /\ UNCHANGED <<settings, memory, disk, lastFailed, crossed, untold>>

(* The profiles are read; healthTransitionListener: a message if the       *)
(* printer is the active one.                                              *)
Tell(t) ==
  /\ doing[t] = "tell"
  /\ untold' = [untold EXCEPT ![task[t].id] = FALSE]
  /\ Ends(t)
  /\ UNCHANGED <<settings, memory, disk, queue, healthFaultsLeft, lastFailed, crossed,
                 hindered, fileFailed>>

(* The settings cannot be read: the call throws before the listener.       *)
TellFails(t) ==
  /\ doing[t] = "tell" /\ Fails
  /\ Hinders(t)
  /\ Ends(t)
  /\ UNCHANGED <<settings, memory, disk, queue, lastFailed, crossed, untold, fileFailed>>

(* The settings of i change: checks of i under way are late. *)
Edits(t, kind, i) ==
  /\ doing[t] = "idle" /\ loaded
  /\ task' = [u \in Tasks |->
       IF u = t THEN [NoTask EXCEPT !.kind = kind, !.id = i]
       ELSE IF task[u].id = i /\ doing[u] \in {"measure", "record"}
            THEN [task[u] EXCEPT !.late = TRUE]
       ELSE task[u]]
  /\ Goes(t, "forget")
  /\ UNCHANGED <<memory, disk, queue, healthFaultsLeft, resultsSeen>>

(* The random ID of a new printer was never in use. *)
Unused(i) ==
  /\ health[i] = NoPrinter /\ disk[i] = NoPrinter
  /\ \A t \in Tasks : task[t].id # i
  /\ \A n \in DOMAIN queue : queue[n].printers[i] = NoPrinter

(* saveConfiguration and confirmSelectedDiscoveredPrinter: the settings    *)
(* are written.  The window has shown the printers, so health is loaded.   *)
Save(t, i) ==
  /\ stored[i] < MaxEdits
  /\ stored[i] = 0 => Unused(i)
  /\ stored' = [stored EXCEPT ![i] = @ + 1]
  /\ active' = IF stored[i] = 0 THEN i ELSE active
  /\ Edits(t, "save", i)

Delete(t, i) ==
  /\ stored[i] # 0
  /\ stored' = [stored EXCEPT ![i] = 0]
  /\ LET others == {j \in Printers \ {i} : stored[j] # 0} IN
     IF active # i THEN UNCHANGED active
     ELSE IF others = {} THEN active' = NoPrinter
     ELSE active' \in others
  /\ Edits(t, "delete", i)

activatePrinter(i) ==
  /\ loaded /\ stored[i] # 0 /\ active # i
  /\ active' = i
  /\ UNCHANGED <<stored, memory, disk, queue, doing, task, healthFaultsLeft, resultsSeen>>

(* Mutant: the failures are forgotten, the health is not. *)
ForgetFailures(t) ==
  /\ doing[t] = "forget"
  /\ failures' = [failures EXCEPT ![task[t].id] = 0]
  /\ Goes(t, "persist")
  /\ UNCHANGED <<settings, health, loaded, disk, queue, task, healthFaultsLeft, resultsSeen>>

Forget(t) ==
  LET i == task[t].id IN
  /\ doing[t] = "forget"
  /\ health' = [health EXCEPT ![i] = NoPrinter]
  /\ failures' = [failures EXCEPT ![i] = 0]
  /\ lastFailed' = [lastFailed EXCEPT ![i] = FALSE]
  /\ crossed' = [crossed EXCEPT ![i] = FALSE]
  /\ untold' = [untold EXCEPT ![i] = FALSE]
  /\ Goes(t, "persist")
  /\ UNCHANGED <<settings, loaded, disk, queue, task, healthFaultsLeft, hindered, fileFailed>>

(* The process dies and starts again: settings and health file stay, and   *)
(* nobody will tell what was not told.                                     *)
HealthCrash ==
  /\ Fails
  /\ health' = Unknown /\ failures' = [i \in Printers |-> 0] /\ loaded' = FALSE
  /\ queue' = <<>>
  /\ doing' = [t \in Tasks |-> "idle"] /\ task' = [t \in Tasks |-> NoTask]
  /\ lastFailed' = [i \in Printers |-> FALSE]
  /\ crossed' = [i \in Printers |-> disk[i] # NoPrinter /\ disk[i].edit # stored[i]]
  /\ hindered' = untold
  /\ UNCHANGED <<settings, disk, untold, fileFailed>>

HealthNext ==
  \/ \E t \in Tasks :
       \/ \E i \in Printers, kind \in {"monitor", "direct"} : Check(t, i, kind)
       \/ \E s \in Statuses : Measured(t, s)
       \/ recordHealth(t)
       \/ persistHealth(t)
       \/ Tell(t)
       \/ TellFails(t)
       \/ \E i \in Printers : Save(t, i)
       \/ \E i \in Printers : Delete(t, i)
       \/ Forget(t)
  \/ \E i \in Printers : activatePrinter(i)
  \/ loadHealth
  \/ Written
  \/ NotWritten
  \/ HealthCrash

HealthSpec == HealthInit /\ [][HealthNext]_healthVars
-----------------------------------------------------------------------------
Table == [Printers -> Health \cup {NoPrinter}]

(* Every variable has its type, the active printer is a stored one, and a  *)
(* task waits in the queue exactly once if at all.                         *)
HealthTypeOK ==
  /\ stored \in [Printers -> 0..MaxEdits] /\ active \in Printers \cup {NoPrinter}
  /\ active = NoPrinter <=> \A i \in Printers : stored[i] = 0
  /\ active # NoPrinter => stored[active] # 0
  /\ health \in Table /\ disk \in Table
  /\ failures \in [Printers -> 0..2] /\ loaded \in BOOLEAN
  /\ queue \in Seq([owner : Tasks, printers : Table])
  /\ doing \in [Tasks -> {"idle", "measure", "record", "persist", "queued", "tell", "forget"}]
  /\ task \in [Tasks -> [kind : {"none", "monitor", "direct", "save", "delete"},
       id : Printers \cup {NoPrinter}, edit : 0..MaxEdits, status : Statuses,
       lost : BOOLEAN, late : BOOLEAN]]
  /\ healthFaultsLeft \in 0..MaxHealthFaults
  /\ \A o \in {lastFailed, crossed, untold, hindered} : o \in [Printers -> BOOLEAN]
  /\ fileFailed \in BOOLEAN
  /\ \A t \in Tasks :
       doing[t] = "queued" <=> \E n \in DOMAIN queue : queue[n].owner = t
  /\ \A m, n \in DOMAIN queue : queue[m].owner = queue[n].owner => m = n

(* What the heartbeat says of the active printer. *)
adapterHealth ==
  IF active = NoPrinter THEN "misconfigured"
  ELSE IF health[active] = NoPrinter THEN "degraded"
  ELSE health[active].status

(* A heartbeat takes back that the active printer is ready only after two  *)
(* failures in a row, by whichever checks; a single one is kept quiet.     *)
KeptThroughOneFailure ==
  [][\A t \in Tasks :
       recordHealth(t) /\ task[t].kind = "monitor" /\ task[t].id = active /\ adapterHealth = "ready"
         => adapterHealth' = "ready" \/ lastFailed[active]]_healthVars

(* The health of a printer was measured with the configuration it has, and *)
(* a printer that is not stored has none, unless it was saved or deleted   *)
(* while a check of it was under way or the process died right then.       *)
HealthFitsSettings ==
  \A i \in Printers :
    health[i] # NoPrinter /\ ~crossed[i] =>
      \/ health[i].edit = stored[i]
      \/ \E t \in Tasks : doing[t] = "forget" /\ task[t].id = i

Believed(table) ==
  [i \in Printers |-> IF table[i] = NoPrinter THEN NoPrinter ELSE table[i].status]

(* Once no health record is on its way to the file, the file says of every *)
(* printer whether it is ready as the memory does: what a restart restores *)
(* is what was believed last, as long as no read or write of it failed.    *)
FileFollows ==
  ~fileFailed /\ loaded /\ (\A t \in Tasks : doing[t] \notin {"persist", "queued"}) =>
    Believed(disk) = Believed(health)

(* When a printer is ready no more, the listener is told, or the call that *)
(* tells it is on its way, unless that very call failed to write the       *)
(* health file or to read the settings, or the process died before it told.*)
LossIsTold ==
  \A i \in Printers : untold[i] /\ ~hindered[i] =>
    \E t \in Tasks :
      task[t].id = i /\ task[t].lost /\ doing[t] \in {"persist", "queued", "tell"}

(* What is believed of a printer reaches the file and, when the printer is *)
(* lost, the listener, in whatever order checks, edits and writes come in. *)
BeliefIsKept == FileFollows /\ LossIsTold
=============================================================================
