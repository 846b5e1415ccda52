--------------------------- MODULE PrintExecutor ---------------------------
(***************************************************************************)
(* Delivery of leased print jobs: the hand-off of a job to the printer     *)
(* (core/print-executor.ts), the durable local ledger that deduplicates it *)
(* (core/execution-ledger.ts), the part of the route that precedes it      *)
(* (main/kitchen-route-service.ts), and, as environment, the job service   *)
(* that leases jobs and the printer that writes bons.                      *)
(*                                                                         *)
(* Every step runs from one `await` to the next, as the event loop of the  *)
(* program does.  A poll loop hands over one job at a time; a pause aborts *)
(* the loop without waiting for it, so an aborted loop may still be inside *)
(* its hand-off while its successor already serves another one.            *)
(***************************************************************************)
EXTENDS Naturals, FiniteSets

CONSTANTS Jobs,        \* identifiers of cloud jobs
          Payloads,    \* contents a job may carry (told apart by their hash)
          Corrupt,     \* contents the renderer throws on
          Loops,       \* poll loops that can be alive at the same time
          FaultKinds,  \* the disturbances a run allows, see AllFaultKinds
          MaxFaults,   \* bound: how many disturbances a behaviour has
          NoEntry, NoJob, NoLoop, NoSnapshot

(***************************************************************************)
(* What can go wrong outside the code: the process dies; the loop is       *)
(* aborted; a request fails without a usable answer; the service answers   *)
(* an acknowledgement with the text ACK_UNAVAILABLE; the printer is        *)
(* offline; it fails after bytes went out; it refuses for good; a lease    *)
(* expires under a live hand-off; the ledger file cannot be written or     *)
(* read; the service changes the content of a job, or leases a job again   *)
(* that it has seen acknowledged.                                          *)
(***************************************************************************)
AllFaultKinds == {"crash", "abort", "request", "unavailable", "offline", "partial",
                  "refusal", "expiry", "ledger_write", "ledger_read", "payload",
                  "replay"}

MaxEntries == 200

ASSUME ConstantsAssumption ==
  /\ Corrupt \subseteq Payloads
  /\ FaultKinds \subseteq AllFaultKinds
  /\ MaxFaults \in Nat
  /\ NoLoop \notin Loops
  /\ NoJob \notin Jobs \cup Payloads

(* The ledger keeps its newest 200 entries: with no more jobs than that    *)
(* none is ever evicted, and the file is a function from jobs to entries.  *)
ASSUME LedgerFits == IsFiniteSet(Jobs) /\ Cardinality(Jobs) \in 0..MaxEntries

LocalJobState == {"received", "in_flight", "printed", "ack_pending", "succeeded",
                  "terminal", "ambiguous"}

LocalJobRecord == [state : LocalJobState, payload : Payloads]

ASSUME NullsAssumption ==
  /\ NoEntry \notin LocalJobRecord
  /\ NoSnapshot \notin [Jobs -> LocalJobRecord \cup {NoEntry}]

Ledgers == [Jobs -> LocalJobRecord \cup {NoEntry}]

EmptyLedger == [j \in Jobs |-> NoEntry]

(***************************************************************************)
(* Where a loop can be.  A step named rec_X is a call of ledger.record,    *)
(* fail_X a call of completion.fail, named for the place of the call.      *)
(***************************************************************************)
RecordedState ==
  [rec_received    |-> "received",    \* before anything is printed
   rec_in_flight   |-> "in_flight",
   rec_printed     |-> "printed",     \* handleResult
   rec_retry       |-> "received",
   rec_refused     |-> "terminal",
   rec_succeeded   |-> "succeeded",   \* acknowledge
   rec_ack_pending |-> "ack_pending",
   rec_ambiguous   |-> "ambiguous",   \* the catch of handoff
   rec_terminal    |-> "terminal"]

RecordSteps == {"rec_received", "rec_in_flight", "rec_printed", "rec_retry", "rec_refused",
                "rec_succeeded", "rec_ack_pending", "rec_ambiguous", "rec_terminal"}

FailSteps == {"fail_unconfigured", "fail_retry", "fail_refused", "fail_mismatch",
              "fail_terminal"}

Steps == {"off", "poll", "route", "assert", "print", "ack"} \cup RecordSteps \cup FailSteps

Idle == {"off", "poll"}

Causes == {"none", "ack_unavailable", "mismatch", "other"}

QueueStates == {"queued", "leased", "acked", "failed"}

VARIABLES
  ledger,     \* the ledger file
  pc,         \* pc[l]: where loop l is
  job,        \* job[l]: the job in its hands
  payload,    \* payload[l]: the content that came with it
  aborted,    \* aborted[l]: its AbortSignal
  cause,      \* cause[l]: the error acknowledge rethrows after recording
  snap,       \* snap[l]: what record has read and not yet written back
  queue,      \* external: what the service thinks of each job
  lease,      \* external: lease[j]: the loop whose lease token is current
  content,    \* external: content[j]: the payload the service sends for j
  acked,      \* observation: acked[j]: the service has seen an acknowledgement
  written,    \* observation: written[j]: bons written for j
  paper,      \* observation: paper[j]: the contents written for j
  faults,     \* observation: faults[j]: disturbances that touched j
  refused,    \* observation: refused[j]: somebody found j unprintable for good
  faultsLeft  \* bound: disturbances still to come

local == <<pc, job, payload, aborted, cause, snap>>
cloud == <<queue, lease, content>>
bons == <<written, paper>>
observed == <<acked, written, paper, faults, refused>>
vars == <<ledger, pc, job, payload, aborted, cause, snap, queue, lease, content,
          acked, written, paper, faults, refused, faultsLeft>>

Init ==
  /\ ledger = EmptyLedger
  /\ pc = [l \in Loops |-> "off"]
  /\ job = [l \in Loops |-> NoJob]
  /\ payload = [l \in Loops |-> NoJob]
  /\ aborted = [l \in Loops |-> FALSE]
  /\ cause = [l \in Loops |-> "none"]
  /\ snap = [l \in Loops |-> NoSnapshot]
  /\ queue = [j \in Jobs |-> "queued"]
  /\ lease = [j \in Jobs |-> NoLoop]
  /\ content \in [Jobs -> Payloads]
  /\ acked = [j \in Jobs |-> FALSE]
  /\ written = [j \in Jobs |-> 0]
  /\ paper = [j \in Jobs |-> {}]
  /\ faults = [j \in Jobs |-> 0]
  /\ refused = [j \in Jobs |-> FALSE]
  /\ faultsLeft = MaxFaults
-----------------------------------------------------------------------------
(***************************************************************************)
(* Control flow of a hand-off: where a loop goes next.                     *)
(***************************************************************************)
(* Mutants of Settled: a bon in flight passes for printed; an entry whose   *)
(* acknowledgement is pending, or a succeeded one, does not count.          *)
SettledInFlight(entry) ==
  entry # NoEntry /\ entry.state \in {"in_flight", "printed", "ack_pending", "succeeded"}
SettledNotPending(entry) == entry # NoEntry /\ entry.state \in {"printed", "succeeded"}
SettledNotSucceeded(entry) == entry # NoEntry /\ entry.state \in {"printed", "ack_pending"}

Settled(entry) == entry # NoEntry /\ entry.state \in {"printed", "ack_pending", "succeeded"}

(* Mutant: the payload hash is not compared. *)
MismatchedNever(l, entry) == FALSE

Mismatched(l, entry) == entry # NoEntry /\ entry.payload # payload[l]

(* handoff returned, or threw into the poll loop: `while (!signal.aborted)` *)
Return(l) == IF aborted[l] THEN "off" ELSE "poll"

(* A request whose signal is already aborted rejects at once. *)
FailMismatch(l) == IF aborted[l] THEN Return(l) ELSE "fail_mismatch"

(* Mutant: a pending acknowledgement is treated like any other error. *)
CatchUnrecognised(l, c) ==
  IF c = "mismatch" THEN FailMismatch(l)
  ELSE IF aborted[l] THEN "rec_ambiguous" ELSE "rec_terminal"

(* The catch of handoff, for an error whose message is c. *)
Catch(l, c) ==
  CASE c = "ack_unavailable" -> Return(l)
    [] c = "mismatch" -> FailMismatch(l)
    [] OTHER -> IF aborted[l] THEN "rec_ambiguous" ELSE "rec_terminal"

(* Where an error of message c goes that is thrown at step s: the inner    *)
(* catch of acknowledge, out of handoff, or the catch of handoff.          *)
ThrownAt(l, s, c) ==
  CASE s \in {"ack", "rec_succeeded"} -> "rec_ack_pending"
    [] s \in {"rec_ambiguous", "rec_terminal", "fail_terminal", "fail_mismatch",
              "fail_unconfigured"} -> Return(l)
    [] OTHER -> Catch(l, c)

(* A request step is reached with a live signal, or throws on the spot. *)
Requested(l, s) == IF aborted[l] THEN ThrownAt(l, s, "other") ELSE s

AfterRecord(l) ==
  CASE pc[l] = "rec_received" -> "rec_in_flight"
    [] pc[l] = "rec_in_flight" ->
         IF payload[l] \in Corrupt THEN Catch(l, "other")
         ELSE IF aborted[l] THEN "rec_refused" ELSE "print"
    [] pc[l] = "rec_printed" -> Requested(l, "ack")
    [] pc[l] = "rec_succeeded" -> Return(l)
    [] pc[l] = "rec_ack_pending" -> Catch(l, cause[l])
    [] pc[l] = "rec_retry" -> Requested(l, "fail_retry")
    [] pc[l] = "rec_refused" -> Requested(l, "fail_refused")
    [] pc[l] = "rec_ambiguous" -> Return(l)
    [] OTHER -> Requested(l, "fail_terminal")

(* Loop l goes to step s; the locals of a finished hand-off disappear. *)
Goto(l, s, c) ==
  /\ pc' = [pc EXCEPT ![l] = s]
  /\ cause' = [cause EXCEPT ![l] = IF s = "rec_ack_pending" THEN c ELSE "none"]
  /\ job' = [job EXCEPT ![l] = IF s \in Idle THEN NoJob ELSE @]
  /\ payload' = [payload EXCEPT ![l] = IF s \in Idle THEN NoJob ELSE @]
  /\ aborted' = [aborted EXCEPT ![l] = @ /\ s # "off"]

Throw(l, c) == Goto(l, ThrownAt(l, pc[l], c), c)

(* One disturbance of an enabled kind is spent. *)
Disturb(kind) ==
  /\ kind \in FaultKinds
  /\ faultsLeft > 0
  /\ faultsLeft' = faultsLeft - 1

Touched(S) == faults' = [j \in Jobs |-> IF j \in S THEN faults[j] + 1 ELSE faults[j]]

Holds(l) == lease[job[l]] = l
-----------------------------------------------------------------------------
(***************************************************************************)
(* The life of a loop.                                                     *)
(***************************************************************************)
(* runtime.start: a new loop, when no loop with a live signal is running. *)
StartLoop(l) ==
  /\ pc[l] = "off"
  /\ \A k \in Loops : pc[k] = "off" \/ aborted[k]
  /\ Goto(l, "poll", "none")
  /\ UNCHANGED <<ledger, snap, cloud, observed, faultsLeft>>

(* runtime.stop: the signal is aborted; nobody waits for the loop.  A loop  *)
(* inside its long poll returns at once.                                    *)
Abort(l) ==
  /\ pc[l] # "off" /\ ~aborted[l]
  /\ Disturb("abort")
  /\ IF pc[l] = "poll"
     THEN Goto(l, "off", "none")
     ELSE /\ aborted' = [aborted EXCEPT ![l] = TRUE]
          /\ UNCHANGED <<pc, job, payload, cause>>
  /\ Touched({job[l]})
  /\ UNCHANGED <<ledger, snap, cloud, acked, bons, refused>>

(* The process dies: the ledger file is what is left. *)
Crash ==
  /\ \E l \in Loops : pc[l] # "off"
  /\ Disturb("crash")
  /\ pc' = [l \in Loops |-> "off"]
  /\ job' = [l \in Loops |-> NoJob]
  /\ payload' = [l \in Loops |-> NoJob]
  /\ aborted' = [l \in Loops |-> FALSE]
  /\ cause' = [l \in Loops |-> "none"]
  /\ snap' = [l \in Loops |-> NoSnapshot]
  /\ Touched({job[l] : l \in Loops})
  /\ UNCHANGED <<ledger, cloud, acked, bons, refused>>
-----------------------------------------------------------------------------
(***************************************************************************)
(* The hand-off.                                                           *)
(***************************************************************************)
(* The long poll is answered with a leased job. *)
NextJob(l, j) ==
  /\ pc[l] = "poll"
  /\ queue[j] = "queued"
  /\ queue' = [queue EXCEPT ![j] = "leased"]
  /\ lease' = [lease EXCEPT ![j] = l]
  /\ pc' = [pc EXCEPT ![l] = "route"]
  /\ job' = [job EXCEPT ![l] = j]
  /\ payload' = [payload EXCEPT ![l] = content[j]]
  /\ UNCHANGED <<ledger, aborted, cause, snap, content, observed, faultsLeft>>

(* No job is queued: the long poll times out and the loop polls again. *)
PollTimesOut(l) ==
  /\ pc[l] = "poll"
  /\ \A j \in Jobs : queue[j] # "queued"
  /\ UNCHANGED vars

(* KitchenRouteService.handoff: without a printer the job is handed back;  *)
(* a configuration that cannot be read throws into the poll loop.          *)
Route(l) ==
  /\ pc[l] = "route"
  /\ \/ Goto(l, "assert", "none") /\ UNCHANGED faultsLeft
     \/ Goto(l, Requested(l, "fail_unconfigured"), "none") /\ Disturb("offline")
     \/ Goto(l, Return(l), "none") /\ Disturb("offline")
  /\ UNCHANGED <<ledger, snap, cloud, observed>>

(* Mutant: a printed job is not acknowledged again. *)
DispatchNeverAcks(l, entry) ==
  IF Mismatched(l, entry) THEN FailMismatch(l)
  ELSE IF ~Settled(entry) THEN "rec_received" ELSE Return(l)

(* What assertPayload and the early returns of handoff decide. *)
Dispatch(l, entry) ==
  IF Mismatched(l, entry) THEN FailMismatch(l)
  ELSE IF ~Settled(entry) THEN "rec_received"
  ELSE IF entry.state = "succeeded" THEN Return(l)
  ELSE Requested(l, "ack")

AssertPayload(l) ==
  /\ pc[l] = "assert"
  /\ LET entry == ledger[job[l]] IN
     /\ Goto(l, Dispatch(l, entry), "other")
     /\ refused' = [refused EXCEPT ![job[l]] = @ \/ Mismatched(l, entry)]
  /\ UNCHANGED <<ledger, snap, cloud, acked, bons, faults, faultsLeft>>

(* A ledger file that cannot be read counts as an empty one. *)
AssertUnread(l) ==
  /\ pc[l] = "assert"
  /\ Disturb("ledger_read")
  /\ Goto(l, "rec_received", "none")
  /\ Touched(Jobs)
  /\ UNCHANGED <<ledger, snap, cloud, acked, bons, refused>>

(* record reads the file; an entry with another hash makes it throw. *)
RecordRead(l) ==
  /\ pc[l] \in RecordSteps /\ snap[l] = NoSnapshot
  /\ IF Mismatched(l, ledger[job[l]])
     THEN /\ Throw(l, "mismatch")
          /\ refused' = [refused EXCEPT ![job[l]] = TRUE]
          /\ UNCHANGED snap
     ELSE /\ snap' = [snap EXCEPT ![l] = ledger]
          /\ UNCHANGED <<pc, job, payload, aborted, cause, refused>>
  /\ UNCHANGED <<ledger, cloud, acked, bons, faults, faultsLeft>>

RecordUnread(l) ==
  /\ pc[l] \in RecordSteps /\ snap[l] = NoSnapshot
  /\ Disturb("ledger_read")
  /\ snap' = [snap EXCEPT ![l] = EmptyLedger]
  /\ Touched(Jobs)
  /\ UNCHANGED <<ledger, pc, job, payload, aborted, cause, cloud, acked, bons, refused>>

(* Mutant: no intent is recorded. *)
RecordedNoIntent(l) ==
  [snap[l] EXCEPT ![job[l]] =
     [state |-> IF pc[l] = "rec_in_flight" THEN "received" ELSE RecordedState[pc[l]],
      payload |-> payload[l]]]

(* The file record read, with the entry of this job replaced. *)
Recorded(l) ==
  [snap[l] EXCEPT ![job[l]] = [state |-> RecordedState[pc[l]], payload |-> payload[l]]]

(* record renames the new file over the old one; the caller goes on.  The  *)
(* caller of the in_flight record renders, which throws on a corrupt job.  *)
RecordWrite(l) ==
  /\ snap[l] # NoSnapshot
  /\ ledger' = Recorded(l)
  /\ snap' = [snap EXCEPT ![l] = NoSnapshot]
  /\ Goto(l, AfterRecord(l), "other")
  /\ refused' = [refused EXCEPT ![job[l]] =
                   @ \/ (pc[l] = "rec_in_flight" /\ payload[l] \in Corrupt)]
  /\ UNCHANGED <<cloud, acked, bons, faults, faultsLeft>>

(* record cannot write the file and throws. *)
RecordUnwritten(l) ==
  /\ snap[l] # NoSnapshot
  /\ Disturb("ledger_write")
  /\ snap' = [snap EXCEPT ![l] = NoSnapshot]
  /\ Throw(l, "other")
  /\ Touched({job[l]})
  /\ UNCHANGED <<ledger, cloud, acked, bons, refused>>
-----------------------------------------------------------------------------
(***************************************************************************)
(* The printer (external): adapter.execute and adapter.test.               *)
(***************************************************************************)
Write(l) ==
  /\ written' = [written EXCEPT ![job[l]] = @ + 1]
  /\ paper' = [paper EXCEPT ![job[l]] = @ \cup {payload[l]}]

PrintSucceeds(l) ==
  /\ pc[l] = "print" /\ ~aborted[l]
  /\ Write(l)
  /\ Goto(l, "rec_printed", "none")
  /\ UNCHANGED <<ledger, snap, cloud, acked, faults, refused, faultsLeft>>

(* Confirmed before the first byte: nothing is on paper. *)
PrinterOffline(l) ==
  /\ pc[l] = "print" /\ ~aborted[l]
  /\ Disturb("offline")
  /\ Goto(l, "rec_retry", "none")
  /\ UNCHANGED <<ledger, snap, cloud, observed>>

(* A timeout or a reset after the bytes went out is a retryable failure too. *)
PrintPartial(l) ==
  /\ pc[l] = "print" /\ ~aborted[l]
  /\ Disturb("partial")
  /\ Write(l)
  /\ Goto(l, "rec_retry", "none")
  /\ Touched({job[l]})
  /\ UNCHANGED <<ledger, snap, cloud, acked, refused>>

(* A terminal result, or an error thrown by adapter.test. *)
PrinterRefuses(l) ==
  /\ pc[l] = "print" /\ ~aborted[l]
  /\ Disturb("refusal")
  /\ \/ Goto(l, "rec_refused", "none")
     \/ Throw(l, "other")
  /\ refused' = [refused EXCEPT ![job[l]] = TRUE]
  /\ UNCHANGED <<ledger, snap, cloud, acked, bons, faults>>

(* The abort settles the write as CANCELED, with or without a bon on paper. *)
PrintCanceled(l) ==
  /\ pc[l] = "print" /\ aborted[l]
  /\ \/ Write(l)
     \/ UNCHANGED bons
  /\ Goto(l, "rec_refused", "none")
  /\ UNCHANGED <<ledger, snap, cloud, acked, faults, refused, faultsLeft>>
-----------------------------------------------------------------------------
(***************************************************************************)
(* The job service (external) and the requests to it.  An acknowledgement  *)
(* or a failure report carries the lease token of the hand-off and counts  *)
(* only while that lease is current.                                       *)
(***************************************************************************)
Close(l, verdict) ==
  /\ Holds(l)
  /\ queue' = [queue EXCEPT ![job[l]] = verdict]
  /\ lease' = [lease EXCEPT ![job[l]] = NoLoop]
  /\ acked' = [acked EXCEPT ![job[l]] = @ \/ verdict = "acked"]
  /\ UNCHANGED content

AckAccepted(l) ==
  /\ pc[l] = "ack" /\ ~aborted[l]
  /\ Close(l, "acked")
  /\ Goto(l, "rec_succeeded", "none")
  /\ UNCHANGED <<ledger, snap, bons, faults, refused, faultsLeft>>

(* What makes a request reject: an abort while it is under way, a lease    *)
(* that has expired, or a disturbance of the network or the service.       *)
RequestRejected(l) ==
  \/ (aborted[l] \/ ~Holds(l)) /\ UNCHANGED faultsLeft
  \/ ~aborted[l] /\ Disturb("request")

(* The rejected request may have reached the service all the same. *)
AckRejected(l) ==
  /\ pc[l] = "ack"
  /\ RequestRejected(l)
  /\ Close(l, "acked") \/ UNCHANGED <<cloud, acked>>
  /\ Throw(l, "other")
  /\ Touched(IF aborted[l] THEN {} ELSE {job[l]})
  /\ UNCHANGED <<ledger, snap, bons, refused>>

(* The one answer handoff recognises, see print-executor.ts line 80. *)
AckUnavailable(l) ==
  /\ pc[l] = "ack" /\ ~aborted[l]
  /\ Disturb("unavailable")
  /\ Throw(l, "ack_unavailable")
  /\ UNCHANGED <<ledger, snap, cloud, observed>>

Verdict(s) == IF s \in {"fail_unconfigured", "fail_retry"} THEN "queued" ELSE "failed"

FailAccepted(l) ==
  /\ pc[l] \in FailSteps /\ ~aborted[l]
  /\ Close(l, Verdict(pc[l]))
  /\ Goto(l, Return(l), "none")
  /\ UNCHANGED <<ledger, snap, bons, faults, refused, faultsLeft>>

FailRejected(l) ==
  /\ pc[l] \in FailSteps
  /\ RequestRejected(l)
  /\ Close(l, Verdict(pc[l])) \/ UNCHANGED <<cloud, acked>>
  /\ Throw(l, "other")
  /\ UNCHANGED <<ledger, snap, bons, faults, refused>>

(* A lease nobody reports on expires and the job is queued again; under a  *)
(* live hand-off that is a disturbance.                                    *)
LeaseExpires(j) ==
  /\ queue[j] = "leased"
  /\ IF \E l \in Loops : job[l] = j /\ Holds(l)
     THEN Disturb("expiry")
     ELSE UNCHANGED faultsLeft
  /\ queue' = [queue EXCEPT ![j] = "queued"]
  /\ lease' = [lease EXCEPT ![j] = NoLoop]
  /\ UNCHANGED <<ledger, local, content, observed>>

ContentChanges(j) ==
  /\ queue[j] = "queued"
  /\ Disturb("payload")
  /\ \E p \in Payloads \ {content[j]} : content' = [content EXCEPT ![j] = p]
  /\ UNCHANGED <<ledger, local, queue, lease, observed>>

(* The service offers an acknowledged job once more. *)
Replay(j) ==
  /\ queue[j] = "acked"
  /\ Disturb("replay")
  /\ queue' = [queue EXCEPT ![j] = "queued"]
  /\ UNCHANGED <<ledger, local, lease, content, observed>>
-----------------------------------------------------------------------------
(* What the program does by itself. *)
LoopStep(l) ==
  \/ Route(l)
  \/ AssertPayload(l)
  \/ AssertUnread(l)
  \/ RecordRead(l)
  \/ RecordUnread(l)
  \/ RecordWrite(l)
  \/ RecordUnwritten(l)
  \/ PrintSucceeds(l)
  \/ PrinterOffline(l)
  \/ PrintPartial(l)
  \/ PrinterRefuses(l)
  \/ PrintCanceled(l)
  \/ AckAccepted(l)
  \/ AckRejected(l)
  \/ AckUnavailable(l)
  \/ FailAccepted(l)
  \/ FailRejected(l)

Next ==
  \/ \E l \in Loops :
       \/ StartLoop(l)
       \/ Abort(l)
       \/ \E j \in Jobs : NextJob(l, j)
       \/ PollTimesOut(l)
       \/ LoopStep(l)
  \/ Crash
  \/ \E j \in Jobs : LeaseExpires(j) \/ ContentChanges(j) \/ Replay(j)

Spec == Init /\ [][Next]_vars

(***************************************************************************)
(* Every promise the program awaits settles: requests and sockets have     *)
(* timeouts.  The service answers a poll while it has work and lets leases *)
(* expire.  Nothing is assumed of the disturbances, nor of StartLoop: a    *)
(* paused or closed bridge may stay so.                                    *)
(***************************************************************************)
FairSpec ==
  /\ Spec
  /\ \A l \in Loops : WF_vars(LoopStep(l))
  /\ \A l \in Loops : WF_vars(\E j \in Jobs : NextJob(l, j))
  /\ \A j \in Jobs : WF_vars(LeaseExpires(j))
-----------------------------------------------------------------------------
(* Every variable has its type, and a loop that is not idle has a job. *)
TypeOK ==
  /\ ledger \in Ledgers
  /\ pc \in [Loops -> Steps]
  /\ job \in [Loops -> Jobs \cup {NoJob}]
  /\ payload \in [Loops -> Payloads \cup {NoJob}]
  /\ aborted \in [Loops -> BOOLEAN]
  /\ cause \in [Loops -> Causes]
  /\ snap \in [Loops -> Ledgers \cup {NoSnapshot}]
  /\ queue \in [Jobs -> QueueStates]
  /\ lease \in [Jobs -> Loops \cup {NoLoop}]
  /\ content \in [Jobs -> Payloads]
  /\ acked \in [Jobs -> BOOLEAN]
  /\ written \in [Jobs -> Nat]
  /\ paper \in [Jobs -> SUBSET Payloads]
  /\ faults \in [Jobs -> Nat]
  /\ refused \in [Jobs -> BOOLEAN]
  /\ faultsLeft \in Nat
  /\ \A l \in Loops : pc[l] \notin Idle => job[l] \in Jobs /\ payload[l] \in Payloads
  /\ \A l \in Loops : snap[l] # NoSnapshot => pc[l] \in RecordSteps

(* No order is reported delivered that never reached the printer: the      *)
(* service has an acknowledgement only of a job a bon was written for,     *)
(* whatever crashes, aborts, overlapping loops and ledger errors do.       *)
AckedWasWritten == \A j \in Jobs : acked[j] => written[j] > 0

(* What an entry of job j says has happened. *)
SoundEntry(entry, j) ==
  entry # NoEntry =>
    /\ entry.state \in {"printed", "ack_pending", "succeeded"} => written[j] > 0
    /\ entry.state = "succeeded" => acked[j]

(* The durable ledger never overstates: an entry that suppresses printing  *)
(* belongs to a job with a bon on paper, and an entry that suppresses the  *)
(* acknowledgement as well to a job the service has had acknowledged.      *)
LedgerNeverOverstates == \A j \in Jobs : SoundEntry(ledger[j], j)

(* A copy of the ledger that a loop has read and not yet written back,     *)
(* while an overlapping loop may change the file, does not overstate       *)
(* either; and a loop that is about to record or send that a job is done   *)
(* has a reason to: its bon is written, and, for "succeeded", its          *)
(* acknowledgement is in.  With the two properties above this is an        *)
(* inductive invariant.                                                    *)
SnapsSound ==
  \A l \in Loops : snap[l] # NoSnapshot => \A j \in Jobs : SoundEntry(snap[l][j], j)

AfterPrint == {"rec_printed", "ack", "rec_succeeded", "rec_ack_pending"}

LoopsSound ==
  \A l \in Loops :
    /\ pc[l] \in AfterPrint => written[job[l]] > 0
    /\ pc[l] = "rec_succeeded" => acked[job[l]]

Soundness == AckedWasWritten /\ LedgerNeverOverstates /\ SnapsSound /\ LoopsSound

(* Duplicate bons are bounded by the disturbances that touched the job: n  *)
(* of them (crash or abort during its hand-off, unrecognised ack error,    *)
(* write that failed half way, ledger error) cost at most n extra bons.    *)
(* This is for one loop at a time.                                         *)
BonsBounded == \A j \in Jobs : written[j] <= 1 + faults[j]

(* The service is told that an order failed although its bon was written   *)
(* only if a disturbance touched the job or its content was refused.       *)
FailedAfterWriteIsDisturbed ==
  \A j \in Jobs : queue[j] = "failed" /\ written[j] > 0 => faults[j] > 0 \/ refused[j]

(* Bons of one job all show the same content, across crashes and retries,  *)
(* unless the ledger could not be read: assertPayload and record refuse a  *)
(* changed payload under a known job ID.                                   *)
OneContentPerJob ==
  "ledger_read" \notin FaultKinds => \A j \in Jobs : Cardinality(paper[j]) <= 1

(* Write-ahead: when a bon is written, the ledger on disk already says     *)
(* that this content of this job is in flight, so a crash in the middle    *)
(* leaves a trace.  This is for one loop at a time.                        *)
WriteAhead ==
  [][\A j \in Jobs : written'[j] > written[j] =>
       /\ ledger[j] # NoEntry
       /\ ledger[j].state = "in_flight"
       /\ paper'[j] = paper[j] \cup {ledger[j].payload}]_vars

(* What the bridge promises to the service, see DeliveryPromise: a job is  *)
(* acknowledged only with a bon on paper, and once its acknowledgement is  *)
(* in the ledger no replay of it is printed.  This is for one loop at a    *)
(* time and a ledger that can be read.                                     *)
Promise ==
  INSTANCE DeliveryPromise WITH
    bonCount <- written,
    delivered <- {j \in Jobs : acked[j]},
    closed <- {j \in Jobs : ledger[j] # NoEntry /\ ledger[j].state = "succeeded"}

KeepsPromise == Promise!Spec

NothingReplayed == \A j \in Jobs : acked[j] => queue[j] = "acked"

(* With loops always coming back, and a service that does not offer again  *)
(* what it has seen acknowledged, every job is eventually acknowledged or  *)
(* failed at the service, through all the retries and redeliveries.        *)
EveryJobEnds ==
  ([]<>(\E l \in Loops : pc[l] # "off" /\ ~aborted[l])) /\ []NothingReplayed
    => \A j \in Jobs : <>(queue[j] \in {"acked", "failed"})

(* docs/scenario-stress-test.md: an acknowledgement lost after printing is *)
(* retried after restart without a second printer write.                   *)
AckLossNeverReprints == \A j \in Jobs : written[j] <= 1

(* docs/scenario-stress-test.md: a confirmed pre-write printer failure is  *)
(* retried and later acknowledged; so a job nobody refused never fails.    *)
ConfirmedFailureIsRetried == \A j \in Jobs : queue[j] = "failed" => refused[j]
=============================================================================
