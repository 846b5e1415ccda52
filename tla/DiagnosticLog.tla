--------------------------- MODULE DiagnosticLog ---------------------------
(***************************************************************************)
(* The diagnostic log: main/diagnostic-log.ts, and the export that reads   *)
(* it (main/diagnostics-service.ts).                                       *)
(*                                                                         *)
(* Appends are queued and written one after the other; file 0 is the       *)
(* current one, and a full one is renamed 1, 1 is renamed 2 and so on.     *)
(* Reading waits for the queue, but the queue does not wait for reading.   *)
(* An entry is its event's number; what redaction leaves of it, and its    *)
(* size in bytes, are not looked at: a file is full with LinesPerFile      *)
(* lines.                                                                  *)
(***************************************************************************)
EXTENDS Selection, Integers, SequencesExt, FiniteSets

CONSTANTS MaxFiles,     \* files, the current one included
          LinesPerFile, \* lines that maxBytes leaves room for
          Limit,        \* entries that a reading returns
          MaxEvents,    \* bound: events
          MaxFaults,    \* bound: failures of the disk, and crashes
          Torn          \* a line that is not JSON

ASSUME LogAssumption ==
  /\ {MaxFiles, LinesPerFile, Limit} \subseteq Nat \ {0} /\ MaxFiles > 1
  /\ {MaxEvents, MaxFaults} \subseteq Nat /\ Torn \notin Nat

VARIABLES
  files,    \* the lines of each file; none when there is no such file
  open,     \* the last line of the current file has no end of line
  queue,    \* the events to append, the first one being worked on
  step,     \* the await of appendNow: "idle", "rotate" or "write"
  rotating, \* of rotate()
  events,   \* events so far
  reader,   \* the await of recent(): "idle", "waits", "reads" or "done"
  until,    \* the event that the reader waits for
  fileAt,   \* the file the reader reads next
  seen,     \* what it has read
  renamed,  \* observation: a file was renamed while it was reading
  faults

logVars == <<files, open, queue, step, rotating, events, reader, until, fileAt, seen, renamed,
           faults>>
writer == <<files, open, queue, step, rotating>>
reading == <<reader, until, fileAt, seen>>
records == <<reading, renamed>>

Indices == 0..(MaxFiles - 1)
IsEvent(line) == line # Torn
Stored == (UNION {ToSet(files[i]) : i \in Indices}) \ {Torn}

LogInit ==
  /\ files = [i \in Indices |-> <<>>] /\ open = FALSE
  /\ queue = <<>> /\ step = "idle" /\ rotating = 0 /\ events = 0
  /\ reader = "idle" /\ until = 0 /\ fileAt = 0 /\ seen = <<>> /\ renamed = FALSE
  /\ faults = 0

Faulty == faults < MaxFaults /\ faults' = faults + 1
-----------------------------------------------------------------------------
append ==
  /\ events < MaxEvents /\ events' = events + 1
  /\ queue' = Append(queue, events')
  /\ UNCHANGED <<files, open, step, rotating, records, faults>>

Full == Len(files[0]) + 1 > LinesPerFile

Oldest == MaxFiles - 1

(* appendNow: a file that the entry does not fit into is rotated first. *)
appendNow ==
  /\ step = "idle" /\ queue # <<>>
  /\ IF Full THEN step' = "rotate" /\ rotating' = Oldest ELSE step' = "write" /\ rotating' = 0
  /\ UNCHANGED <<files, open, queue, events, records, faults>>

(* One rename of rotate(); a file that is not there is passed over. *)
rotate ==
  /\ step = "rotate"
  /\ files' = IF files[rotating - 1] = <<>> THEN files
              ELSE [files EXCEPT ![rotating] = files[rotating - 1], ![rotating - 1] = <<>>]
  /\ open' = (open /\ rotating # 1)
  /\ rotating' = rotating - 1
  /\ step' = IF rotating = 1 THEN "write" ELSE "rotate"
  /\ renamed' = (renamed \/ reader = "reads")
  /\ UNCHANGED <<queue, events, reading, faults>>

(* The file after `entry` is appended to it: an open line is continued. *)
Appended(entry) ==
  [files EXCEPT ![0] = IF open THEN [@ EXCEPT ![Len(@)] = Torn] ELSE Append(@, entry)]

(* Mutant: appends do not wait for one another. *)
writeAny ==
  /\ step = "write"
  /\ \E e \in ToSet(queue) : files' = Appended(e) /\ queue' = Remove(queue, e)
  /\ open' = FALSE
  /\ step' = "idle"
  /\ UNCHANGED <<rotating, events, records, faults>>

(* appendFile, and the next append of the queue *)
write ==
  /\ step = "write"
  /\ files' = Appended(Head(queue))
  /\ open' = FALSE
  /\ queue' = Tail(queue) /\ step' = "idle"
  /\ UNCHANGED <<rotating, events, records, faults>>

(* A rename or a write fails: the entry is given up, the next one is       *)
(* written all the same.  A write that fails half-way leaves its beginning *)
(* (also when only the end of the line is missing, which could be read     *)
(* until the line is continued).                                           *)
appendFails ==
  /\ step \in {"rotate", "write"} /\ Faulty
  /\ \/ UNCHANGED <<files, open>>
     \/ step = "write" /\ files' = Appended(Torn) /\ open' = TRUE
  /\ queue' = Tail(queue) /\ step' = "idle"
  /\ UNCHANGED <<rotating, events, records>>

(* The program ends: what is queued is lost, a write may be cut off. *)
Crash ==
  /\ Faulty
  /\ \/ UNCHANGED <<files, open>>
     \/ step = "write" /\ files' = Appended(Torn) /\ open' = TRUE
  /\ queue' = <<>> /\ step' = "idle" /\ rotating' = 0
  /\ reader' = "idle" /\ until' = 0 /\ fileAt' = 0 /\ seen' = <<>> /\ renamed' = FALSE
  /\ UNCHANGED events
-----------------------------------------------------------------------------
(* snapshot(), export(): recent() waits for the appends made so far. *)
recent ==
  /\ reader \in {"idle", "done"}
  /\ reader' = "waits" /\ until' = events
  /\ fileAt' = Oldest /\ seen' = <<>> /\ renamed' = FALSE
  /\ UNCHANGED <<writer, events, faults>>

waited ==
  /\ reader = "waits" /\ \A i \in DOMAIN queue : queue[i] > until
  /\ reader' = "reads"
  /\ UNCHANGED <<writer, events, until, fileAt, seen, renamed, faults>>

(* The entries of a file up to the first line that JSON.parse rejects. *)
Parsed(lines) ==
  LET bad == {i \in DOMAIN lines : lines[i] = Torn}
  IN IF bad = {} THEN lines
     ELSE SubSeq(lines, 1, (CHOOSE i \in bad : \A j \in bad : i <= j) - 1)

Newest(entries) ==
  IF Len(entries) <= Limit THEN entries
  ELSE SubSeq(entries, Len(entries) - Limit + 1, Len(entries))

(* Mutant: the files are read from the newest to the oldest. *)
readFileUp ==
  /\ reader = "reads"
  /\ seen' = seen \o Parsed(files[Oldest - fileAt])
  /\ fileAt' = fileAt - 1
  /\ reader' = IF fileAt = 0 THEN "done" ELSE "reads"
  /\ UNCHANGED <<writer, events, until, renamed, faults>>

(* One file, from the oldest to the current one; the newest entries are    *)
(* what is returned.                                                       *)
readFile ==
  /\ reader = "reads"
  /\ LET all == seen \o Parsed(files[fileAt]) IN seen' = IF fileAt = 0 THEN Newest(all) ELSE all
  /\ fileAt' = fileAt - 1
  /\ reader' = IF fileAt = 0 THEN "done" ELSE "reads"
  /\ UNCHANGED <<writer, events, until, renamed, faults>>

(* A file that cannot be read is passed over. *)
readFails ==
  /\ reader = "reads" /\ Faulty
  /\ seen' = IF fileAt = 0 THEN Newest(seen) ELSE seen
  /\ fileAt' = fileAt - 1
  /\ reader' = IF fileAt = 0 THEN "done" ELSE "reads"
  /\ UNCHANGED <<writer, events, until, renamed>>

Writer == appendNow \/ rotate \/ write \/ appendFails
Reader == waited \/ readFile \/ readFails

LogNext == append \/ Writer \/ Crash \/ recent \/ Reader

(* An operation of the disk ends, well or badly. *)
LogFairness == WF_logVars(Writer) /\ WF_logVars(Reader)

LogSpec == LogInit /\ [][LogNext]_logVars /\ LogFairness
-----------------------------------------------------------------------------
(* The entries that are stored, from the oldest to the newest. *)
StoredLines == FlattenSeq([i \in 1..MaxFiles |-> files[MaxFiles - i]])

History == Selected(StoredLines, 1..MaxEvents)

LogPromised == INSTANCE LogPromise WITH Events <- 1..MaxEvents, log <- History

(* Every variable has its type, and no file is larger than it may be,      *)
(* however rotations and writes fail.                                      *)
LogTypeOK ==
  /\ files \in [Indices -> Seq((1..MaxEvents) \cup {Torn})]
  /\ \A i \in Indices : Len(files[i]) <= LinesPerFile
  /\ open \in BOOLEAN
  /\ open => files[0] # <<>> /\ files[0][Len(files[0])] = Torn
  /\ queue \in Seq(1..MaxEvents) /\ events \in 0..MaxEvents
  /\ step \in {"idle", "rotate", "write"} /\ rotating \in Indices
  /\ reader \in {"idle", "waits", "reads", "done"} /\ fileAt \in -1..Oldest
  /\ seen \in Seq(1..MaxEvents) /\ renamed \in BOOLEAN
  /\ until \in 0..MaxEvents /\ faults \in 0..MaxFaults

(* A failed rename, a cut off write or a crash never changes the order of  *)
(* the entries, and makes the log forget from its beginning only.          *)
KeepsLogPromise == LogPromised!Spec

(* Without faults the newest entries are there: as many as all files but   *)
(* one hold.                                                               *)
Retained ==
  LET settled == (1..events) \ ToSet(queue)
  IN faults = 0 =>
       \A e \in settled :
         Cardinality({f \in settled : f > e}) < (MaxFiles - 1) * LinesPerFile => e \in Stored

(* An export lists its entries in order and each of them once, although    *)
(* files are renamed while it reads them.                                  *)
ExportsInOrder == \A i, j \in DOMAIN seen : i < j => seen[i] < seen[j]

(* Every append ends, whatever happens to the disk: nobody who waits for   *)
(* the log waits for ever.                                                 *)
AppendsEnd == \A e \in 1..MaxEvents : e \in ToSet(queue) ~> e \notin ToSet(queue)

(* An export that no file was renamed under holds what was logged before   *)
(* it was asked for and is still stored, as far as it is not too long.     *)
ExportComplete ==
  reader = "done" /\ faults = 0 /\ ~renamed /\ Len(seen) < Limit =>
    (1..until) \cap Stored \subseteq ToSet(seen)

(* Who reads the log or an export of it can trust it: the newest entries   *)
(* are there, in order, and what was logged before an export is in it.     *)
LogFaithful == Retained /\ ExportsInOrder /\ ExportComplete
=============================================================================
