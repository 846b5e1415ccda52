------------------------ MODULE PrintExecutorProofs ------------------------
(***************************************************************************)
(* Theorems about PrintExecutor for any sets of jobs, contents and loops,  *)
(* any fault kinds and any number of disturbances.                         *)
(***************************************************************************)
EXTENDS PrintExecutor, FiniteSetTheorems, TLAPS

(* The part of TypeOK that Goto changes. *)
LocalsTyped ==
  /\ pc \in [Loops -> Steps]
  /\ job \in [Loops -> Jobs \cup {NoJob}]
  /\ payload \in [Loops -> Payloads \cup {NoJob}]
  /\ aborted \in [Loops -> BOOLEAN]
  /\ cause \in [Loops -> Causes]
  /\ \A l \in Loops : pc[l] \notin Idle => job[l] \in Jobs /\ payload[l] \in Payloads

(* The control-flow operators of a hand-off only name steps. *)
LEMMA ControlFlow ==
  ASSUME TypeOK, NEW l \in Loops
  PROVE  /\ Return(l) \in Idle
         /\ FailMismatch(l) \in Steps
         /\ \A c \in Causes : Catch(l, c) \in Steps
         /\ \A s \in Steps, c \in Causes : ThrownAt(l, s, c) \in Steps
         /\ \A s \in Steps : Requested(l, s) \in Steps
         /\ pc[l] \in RecordSteps => AfterRecord(l) \in Steps
         /\ \A entry : Dispatch(l, entry) \in Steps
<1> USE DEF Steps, Idle, RecordSteps, FailSteps
<1>1. Return(l) \in Idle
  BY DEF Return
<1>2. FailMismatch(l) \in Steps
  BY <1>1 DEF FailMismatch
<1>3. \A c \in Causes : Catch(l, c) \in Steps
  BY <1>1, <1>2 DEF Catch, Causes
<1>4. \A s \in Steps, c \in Causes : ThrownAt(l, s, c) \in Steps
  BY <1>1, <1>3 DEF ThrownAt
<1>5. \A s \in Steps : Requested(l, s) \in Steps
  BY <1>4 DEF Requested, Causes
<1>6. pc[l] \in RecordSteps => AfterRecord(l) \in Steps
  <2>1. cause[l] \in Causes
    BY DEF TypeOK
  <2>2. QED
    BY <1>1, <1>3, <1>5, <2>1 DEF AfterRecord, Causes
<1>7. \A entry : Dispatch(l, entry) \in Steps
  BY <1>1, <1>2, <1>5 DEF Dispatch
<1>8. QED
  BY <1>1, <1>2, <1>3, <1>4, <1>5, <1>6, <1>7

(* Goto keeps the locals of every loop typed and moves only loop l. *)
LEMMA GotoTyped ==
  ASSUME TypeOK,
         NEW l \in Loops, NEW s \in Steps, NEW c \in Causes,
         pc[l] \notin Idle \/ s \in Idle,
         Goto(l, s, c)
  PROVE  /\ LocalsTyped'
         /\ pc'[l] = s
         /\ \A k \in Loops \ {l} : pc'[k] = pc[k]
<1>1. /\ pc' \in [Loops -> Steps]
      /\ pc'[l] = s
      /\ \A k \in Loops \ {l} : pc'[k] = pc[k]
  BY DEF TypeOK, Goto
<1>2. job' \in [Loops -> Jobs \cup {NoJob}]
  BY DEF TypeOK, Goto
<1>3. payload' \in [Loops -> Payloads \cup {NoJob}]
  BY DEF TypeOK, Goto
<1>4. aborted' \in [Loops -> BOOLEAN]
  BY DEF TypeOK, Goto
<1>5. cause' \in [Loops -> Causes]
  BY DEF TypeOK, Goto, Causes
<1>6. ASSUME NEW k \in Loops, pc'[k] \notin Idle
      PROVE  job'[k] \in Jobs /\ payload'[k] \in Payloads
  <2>1. CASE k = l
    BY <1>1, <1>6, <2>1 DEF TypeOK, Goto
  <2>2. CASE k # l
    BY <1>1, <1>6, <2>2 DEF TypeOK, Goto
  <2>3. QED
    BY <2>1, <2>2
<1>7. QED
  BY <1>1, <1>2, <1>3, <1>4, <1>5, <1>6 DEF LocalsTyped

(* The parts that several actions share keep the types of what they change. *)
LEMMA PartsTyped ==
  ASSUME TypeOK
  PROVE  /\ \A S : Touched(S) => faults' \in [Jobs -> Nat]
         /\ \A kind : Disturb(kind) => faultsLeft' \in Nat
         /\ \A l \in Loops : pc[l] \notin Idle /\ Write(l) =>
              written' \in [Jobs -> Nat] /\ paper' \in [Jobs -> SUBSET Payloads]
         /\ \A l \in Loops, verdict \in QueueStates : Close(l, verdict) =>
              /\ queue' \in [Jobs -> QueueStates]
              /\ lease' \in [Jobs -> Loops \cup {NoLoop}]
              /\ acked' \in [Jobs -> BOOLEAN]
              /\ content' \in [Jobs -> Payloads]
<1>1. \A S : Touched(S) => faults' \in [Jobs -> Nat]
  BY DEF TypeOK, Touched
<1>2. \A kind : Disturb(kind) => faultsLeft' \in Nat
  BY DEF TypeOK, Disturb
<1>3. ASSUME NEW l \in Loops, pc[l] \notin Idle, Write(l)
      PROVE  written' \in [Jobs -> Nat] /\ paper' \in [Jobs -> SUBSET Payloads]
  <2>1. job[l] \in Jobs /\ payload[l] \in Payloads
    BY <1>3 DEF TypeOK
  <2>2. written' \in [Jobs -> Nat]
    BY <1>3, <2>1 DEF TypeOK, Write
  <2>3. paper' \in [Jobs -> SUBSET Payloads]
    BY <1>3, <2>1 DEF TypeOK, Write
  <2>4. QED
    BY <2>2, <2>3
<1>4. ASSUME NEW l \in Loops, NEW verdict \in QueueStates, Close(l, verdict)
      PROVE  /\ queue' \in [Jobs -> QueueStates]
             /\ lease' \in [Jobs -> Loops \cup {NoLoop}]
             /\ acked' \in [Jobs -> BOOLEAN]
             /\ content' \in [Jobs -> Payloads]
  BY <1>4 DEF TypeOK, Close
<1>5. QED
  BY <1>1, <1>2, <1>3, <1>4

(* What record writes is a ledger file again. *)
LEMMA RecordedTyped ==
  ASSUME TypeOK, NEW l \in Loops, snap[l] # NoSnapshot
  PROVE  /\ Recorded(l) \in Ledgers
         /\ job[l] \in Jobs
         /\ snap[l] \in Ledgers
         /\ pc[l] \in RecordSteps
<1>1. pc[l] \in RecordSteps /\ snap[l] \in Ledgers
  BY DEF TypeOK
<1>2. job[l] \in Jobs /\ payload[l] \in Payloads
  BY <1>1 DEF TypeOK, RecordSteps, Idle
<1>3. RecordedState[pc[l]] \in LocalJobState
  BY <1>1 DEF RecordSteps, RecordedState, LocalJobState
<1>4. QED
  BY <1>1, <1>2, <1>3 DEF Recorded, Ledgers, LocalJobRecord

(* The initial states are typed. *)
LEMMA TypeInit == Init => TypeOK
BY ConstantsAssumption
   DEF Init, TypeOK, Ledgers, EmptyLedger, Steps, Idle, Causes, QueueStates

(* Every step keeps the types, one case per action. *)
LEMMA TypeStep == TypeOK /\ [Next]_vars => TypeOK'
<1> SUFFICES ASSUME TypeOK, [Next]_vars
             PROVE  TypeOK'
  OBVIOUS
<1> USE DEF Idle, RecordSteps, FailSteps
<1>1. ASSUME NEW l \in Loops, StartLoop(l)
      PROVE  TypeOK'
  <2>1. LocalsTyped' /\ (\A k \in Loops \ {l} : pc'[k] = pc[k])
    BY <1>1, GotoTyped DEF StartLoop, Steps, Causes
  <2>2. QED
    BY <1>1, <2>1 DEF StartLoop, TypeOK, LocalsTyped, cloud, observed
<1>2. ASSUME NEW l \in Loops, Abort(l)
      PROVE  TypeOK'
  <2>1. CASE pc[l] = "poll"
    <3>1. LocalsTyped' /\ (\A k \in Loops \ {l} : pc'[k] = pc[k])
      BY <1>2, <2>1, GotoTyped DEF Abort, Steps, Causes
    <3>2. QED
      BY <1>2, <2>1, <3>1, PartsTyped DEF Abort, TypeOK, LocalsTyped, cloud, bons
  <2>2. CASE pc[l] # "poll"
    <3>1. /\ aborted' \in [Loops -> BOOLEAN]
          /\ UNCHANGED <<pc, job, payload, cause>>
      BY <1>2, <2>2 DEF Abort, TypeOK
    <3>2. QED
      BY <1>2, <3>1, PartsTyped DEF Abort, TypeOK, cloud, bons
  <2>3. QED
    BY <2>1, <2>2
<1>3. ASSUME NEW l \in Loops, NEW j \in Jobs, NextJob(l, j)
      PROVE  TypeOK'
  BY <1>3 DEF NextJob, TypeOK, Steps, QueueStates, observed
<1>4. ASSUME NEW l \in Loops, PollTimesOut(l)
      PROVE  TypeOK'
  BY <1>4 DEF PollTimesOut, TypeOK, vars
<1>5. ASSUME Crash
      PROVE  TypeOK'
  <2>1. /\ pc' = [l \in Loops |-> "off"]
        /\ snap' = [l \in Loops |-> NoSnapshot]
        /\ LocalsTyped'
    BY <1>5 DEF Crash, LocalsTyped, Steps, Causes
  <2>2. faults' \in [Jobs -> Nat] /\ faultsLeft' \in Nat
    BY <1>5, PartsTyped DEF Crash
  <2>3. QED
    BY <1>5, <2>1, <2>2 DEF Crash, TypeOK, LocalsTyped, cloud, bons
<1>6. ASSUME NEW j \in Jobs, LeaseExpires(j) \/ ContentChanges(j) \/ Replay(j)
      PROVE  TypeOK'
  BY <1>6 DEF LeaseExpires, ContentChanges, Replay, TypeOK, QueueStates, Disturb, local,
              observed
<1>7. ASSUME NEW l \in Loops, Route(l)
      PROVE  TypeOK'
  <2>1. LocalsTyped' /\ (\A k \in Loops \ {l} : pc'[k] = pc[k])
    BY <1>7, ControlFlow, GotoTyped DEF Route, Disturb, Causes, Steps
  <2>2. QED
    BY <1>7, <2>1, PartsTyped DEF Route, cloud, observed, TypeOK, LocalsTyped
<1>8. ASSUME NEW l \in Loops, AssertPayload(l)
      PROVE  TypeOK'
  <2>1. LocalsTyped' /\ (\A k \in Loops \ {l} : pc'[k] = pc[k])
    BY <1>8, ControlFlow, GotoTyped DEF AssertPayload, Causes, Steps
  <2>2. QED
    BY <1>8, <2>1 DEF AssertPayload, cloud, bons, TypeOK, LocalsTyped
<1>9. ASSUME NEW l \in Loops, AssertUnread(l)
      PROVE  TypeOK'
  <2>1. LocalsTyped' /\ (\A k \in Loops \ {l} : pc'[k] = pc[k])
    BY <1>9, GotoTyped DEF AssertUnread, Causes, Steps
  <2>2. QED
    BY <1>9, <2>1, PartsTyped DEF AssertUnread, cloud, bons, TypeOK, LocalsTyped
<1>10. ASSUME NEW l \in Loops, PrintSucceeds(l)
      PROVE  TypeOK'
  <2>1. LocalsTyped' /\ (\A k \in Loops \ {l} : pc'[k] = pc[k])
    BY <1>10, GotoTyped DEF PrintSucceeds, Causes, Steps
  <2>2. QED
    BY <1>10, <2>1, PartsTyped DEF PrintSucceeds, cloud, TypeOK, LocalsTyped
<1>11. ASSUME NEW l \in Loops, PrinterOffline(l)
      PROVE  TypeOK'
  <2>1. LocalsTyped' /\ (\A k \in Loops \ {l} : pc'[k] = pc[k])
    BY <1>11, GotoTyped DEF PrinterOffline, Causes, Steps
  <2>2. QED
    BY <1>11, <2>1, PartsTyped DEF PrinterOffline, cloud, observed, TypeOK, LocalsTyped
<1>12. ASSUME NEW l \in Loops, PrintPartial(l)
      PROVE  TypeOK'
  <2>1. LocalsTyped' /\ (\A k \in Loops \ {l} : pc'[k] = pc[k])
    BY <1>12, GotoTyped DEF PrintPartial, Causes, Steps
  <2>2. QED
    BY <1>12, <2>1, PartsTyped DEF PrintPartial, cloud, TypeOK, LocalsTyped
<1>13. ASSUME NEW l \in Loops, PrinterRefuses(l)
      PROVE  TypeOK'
  <2>1. LocalsTyped' /\ (\A k \in Loops \ {l} : pc'[k] = pc[k])
    BY <1>13, ControlFlow, GotoTyped DEF PrinterRefuses, Throw, Causes, Steps
  <2>2. QED
    BY <1>13, <2>1, PartsTyped DEF PrinterRefuses, cloud, bons, TypeOK, LocalsTyped
<1>14. ASSUME NEW l \in Loops, PrintCanceled(l)
      PROVE  TypeOK'
  <2>1. LocalsTyped' /\ (\A k \in Loops \ {l} : pc'[k] = pc[k])
    BY <1>14, GotoTyped DEF PrintCanceled, Causes, Steps
  <2>2. QED
    BY <1>14, <2>1, PartsTyped DEF PrintCanceled, bons, cloud, TypeOK, LocalsTyped
<1>15. ASSUME NEW l \in Loops, AckAccepted(l)
      PROVE  TypeOK'
  <2>1. LocalsTyped' /\ (\A k \in Loops \ {l} : pc'[k] = pc[k])
    BY <1>15, GotoTyped DEF AckAccepted, Causes, Steps
  <2>2. QED
    BY <1>15, <2>1, PartsTyped DEF AckAccepted, QueueStates, bons, TypeOK, LocalsTyped
<1>16. ASSUME NEW l \in Loops, AckRejected(l)
      PROVE  TypeOK'
  <2>1. LocalsTyped' /\ (\A k \in Loops \ {l} : pc'[k] = pc[k])
    BY <1>16, ControlFlow, GotoTyped DEF AckRejected, Throw, Causes, Steps
  <2>2. QED
    BY <1>16, <2>1, PartsTyped
       DEF AckRejected, RequestRejected, QueueStates, cloud, bons, TypeOK, LocalsTyped
<1>17. ASSUME NEW l \in Loops, AckUnavailable(l)
      PROVE  TypeOK'
  <2>1. LocalsTyped' /\ (\A k \in Loops \ {l} : pc'[k] = pc[k])
    BY <1>17, ControlFlow, GotoTyped DEF AckUnavailable, Throw, Causes, Steps
  <2>2. QED
    BY <1>17, <2>1, PartsTyped DEF AckUnavailable, cloud, observed, TypeOK, LocalsTyped
<1>18. ASSUME NEW l \in Loops, FailAccepted(l)
      PROVE  TypeOK'
  <2>1. LocalsTyped' /\ (\A k \in Loops \ {l} : pc'[k] = pc[k])
    BY <1>18, ControlFlow, GotoTyped DEF FailAccepted, Causes, Steps
  <2>2. QED
    BY <1>18, <2>1, PartsTyped
       DEF FailAccepted, Verdict, QueueStates, bons, TypeOK, LocalsTyped
<1>19. ASSUME NEW l \in Loops, FailRejected(l)
      PROVE  TypeOK'
  <2>1. LocalsTyped' /\ (\A k \in Loops \ {l} : pc'[k] = pc[k])
    BY <1>19, ControlFlow, GotoTyped DEF FailRejected, Throw, Causes, Steps
  <2>2. QED
    BY <1>19, <2>1, PartsTyped
       DEF FailRejected, RequestRejected, Verdict, QueueStates, cloud, bons, TypeOK,
           LocalsTyped
<1>20. ASSUME NEW l \in Loops, RecordRead(l)
      PROVE  TypeOK'
  <2>1. CASE Mismatched(l, ledger[job[l]])
    <3>1. LocalsTyped' /\ (\A k \in Loops \ {l} : pc'[k] = pc[k])
      BY <1>20, <2>1, ControlFlow, GotoTyped DEF RecordRead, Throw, Causes, Steps
    <3>2. QED
      BY <1>20, <2>1, <3>1 DEF RecordRead, cloud, bons, TypeOK, LocalsTyped
  <2>2. CASE ~Mismatched(l, ledger[job[l]])
    BY <1>20, <2>2 DEF RecordRead, cloud, bons, TypeOK
  <2>3. QED
    BY <2>1, <2>2
<1>21. ASSUME NEW l \in Loops, RecordUnread(l)
      PROVE  TypeOK'
  <2>1. EmptyLedger \in Ledgers
    BY DEF EmptyLedger, Ledgers
  <2>2. QED
    BY <1>21, <2>1, PartsTyped DEF RecordUnread, cloud, bons, TypeOK
<1>22. ASSUME NEW l \in Loops, RecordWrite(l)
      PROVE  TypeOK'
  <2>1. LocalsTyped' /\ (\A k \in Loops \ {l} : pc'[k] = pc[k])
    BY <1>22, ControlFlow, RecordedTyped, GotoTyped DEF RecordWrite, Causes, Steps
  <2>2. ledger' \in Ledgers
    BY <1>22, RecordedTyped DEF RecordWrite
  <2>3. QED
    BY <1>22, <2>1, <2>2 DEF RecordWrite, cloud, bons, TypeOK, LocalsTyped
<1>23. ASSUME NEW l \in Loops, RecordUnwritten(l)
      PROVE  TypeOK'
  <2>1. LocalsTyped' /\ (\A k \in Loops \ {l} : pc'[k] = pc[k])
    BY <1>23, ControlFlow, RecordedTyped, GotoTyped DEF RecordUnwritten, Throw, Causes, Steps
  <2>2. QED
    BY <1>23, <2>1, PartsTyped DEF RecordUnwritten, cloud, bons, TypeOK, LocalsTyped
<1>24. ASSUME UNCHANGED vars
      PROVE  TypeOK'
  BY <1>24 DEF vars, TypeOK
<1>25. QED
  BY <1>1, <1>2, <1>3, <1>4, <1>5, <1>6, <1>7, <1>8, <1>9, <1>10, <1>11, <1>12, <1>13,
     <1>14, <1>15, <1>16, <1>17, <1>18, <1>19, <1>20, <1>21, <1>22, <1>23, <1>24
     DEF Next, LoopStep

(* Type correctness, and that a loop inside a hand-off has a job with a    *)
(* content and reads the ledger only at a record step.                     *)
THEOREM TypeCorrect == Spec => []TypeOK
<1>1. Init => TypeOK
  BY TypeInit
<1>2. TypeOK /\ [Next]_vars => TypeOK'
  BY TypeStep
<1>3. QED
  BY <1>1, <1>2, PTL DEF Spec
-----------------------------------------------------------------------------
(***************************************************************************)
(* Soundness: Soundness is inductive relative to TypeOK.  The ledger alone *)
(* is not: record writes back what it read some steps ago, so the copies   *)
(* in flight have to be sound too, and a loop that is about to record a    *)
(* state has to know why that state is true.                               *)
(***************************************************************************)
(* What happened stays true: bons and acknowledgements are never undone. *)
Grows ==
  \A j \in Jobs : /\ written[j] > 0 => written'[j] > 0
                  /\ acked[j] => acked'[j]

(* After the print only these steps follow, and only from after the print: *)
(* an error thrown while acknowledging leads to the pending record, every  *)
(* other error away from it.                                               *)
LEMMA PrintOrder ==
  ASSUME TypeOK, NEW l \in Loops
  PROVE  /\ Return(l) \notin AfterPrint
         /\ FailMismatch(l) \notin AfterPrint
         /\ \A c : Catch(l, c) \notin AfterPrint
         /\ \A s, c : /\ ThrownAt(l, s, c) \in AfterPrint => s \in {"ack", "rec_succeeded"}
                     /\ ThrownAt(l, s, c) # "rec_succeeded"
         /\ \A s : Requested(l, s) \in AfterPrint => s \in AfterPrint
         /\ \A s : Requested(l, s) = "rec_succeeded" => s = "rec_succeeded"
         /\ AfterRecord(l) \in AfterPrint => pc[l] = "rec_printed"
         /\ AfterRecord(l) # "rec_succeeded"
         /\ \A entry : /\ Dispatch(l, entry) \in AfterPrint => Settled(entry)
                       /\ Dispatch(l, entry) # "rec_succeeded"
<1> USE DEF AfterPrint
<1>1. Return(l) \in {"off", "poll"}
  BY DEF Return
<1>2. FailMismatch(l) \in {"off", "poll", "fail_mismatch"}
  BY <1>1 DEF FailMismatch
<1>3. \A c : Catch(l, c) \in {"off", "poll", "fail_mismatch", "rec_ambiguous", "rec_terminal"}
  BY <1>1, <1>2 DEF Catch
<1>4. \A s, c : /\ ThrownAt(l, s, c) \in AfterPrint => s \in {"ack", "rec_succeeded"}
                /\ ThrownAt(l, s, c) # "rec_succeeded"
  <2>1. SUFFICES ASSUME NEW s, NEW c
                 PROVE  /\ ThrownAt(l, s, c) \in AfterPrint => s \in {"ack", "rec_succeeded"}
                        /\ ThrownAt(l, s, c) # "rec_succeeded"
    OBVIOUS
  <2>2. CASE s \in {"ack", "rec_succeeded"}
    <3>1. ThrownAt(l, s, c) = "rec_ack_pending"
      BY <2>2 DEF ThrownAt
    <3>2. QED
      BY <2>2, <3>1
  <2>3. CASE s \notin {"ack", "rec_succeeded"}
    <3>1. ThrownAt(l, s, c) \in {"off", "poll", "fail_mismatch", "rec_ambiguous",
                                "rec_terminal"}
      BY <1>1, <1>3, <2>3 DEF ThrownAt
    <3>2. QED
      BY <3>1
  <2>4. QED
    BY <2>2, <2>3
<1>5. \A s : Requested(l, s) \in AfterPrint => s \in AfterPrint
  BY <1>4 DEF Requested
<1>6. \A s : Requested(l, s) = "rec_succeeded" => s = "rec_succeeded"
  BY <1>4 DEF Requested
<1>7. AfterRecord(l) \in AfterPrint => pc[l] = "rec_printed"
  BY <1>1, <1>3, <1>5 DEF AfterRecord
<1>8. AfterRecord(l) # "rec_succeeded"
  BY <1>1, <1>3, <1>6 DEF AfterRecord
<1>9. \A entry : /\ Dispatch(l, entry) \in AfterPrint => Settled(entry)
                /\ Dispatch(l, entry) # "rec_succeeded"
  BY <1>1, <1>2, <1>5, <1>6 DEF Dispatch
<1>10. QED
  BY <1>1, <1>2, <1>3, <1>4, <1>5, <1>6, <1>7, <1>8, <1>9

(* A loop that moves on may do so when the facts its next step stands for  *)
(* hold; the other loops keep theirs, because facts are never undone.      *)
LEMMA GotoSound ==
  ASSUME TypeOK, LoopsSound, Grows,
         NEW l \in Loops, NEW s \in Steps, NEW c \in Causes,
         pc[l] \notin Idle \/ s \in Idle,
         Goto(l, s, c),
         s \in AfterPrint => written'[job[l]] > 0,
         s = "rec_succeeded" => acked'[job[l]]
  PROVE  LoopsSound'
<1> SUFFICES ASSUME NEW k \in Loops
             PROVE  /\ pc'[k] \in AfterPrint => written'[job'[k]] > 0
                    /\ pc'[k] = "rec_succeeded" => acked'[job'[k]]
  BY DEF LoopsSound
<1>1. CASE k = l
  <2>1. pc'[l] = s /\ (s \in AfterPrint => job'[l] = job[l])
    BY GotoTyped DEF Goto, TypeOK, AfterPrint, Idle
  <2>2. QED
    BY <1>1, <2>1 DEF AfterPrint
<1>2. CASE k # l
  <2>1. pc'[k] = pc[k] /\ job'[k] = job[k]
    BY <1>2 DEF Goto, TypeOK
  <2>2. pc[k] \in AfterPrint => job[k] \in Jobs
    BY DEF TypeOK, AfterPrint, Idle
  <2>3. QED
    BY <2>1, <2>2 DEF LoopsSound, Grows, AfterPrint
<1>3. QED
  BY <1>1, <1>2

(* A step of loop l that leaves the ledger file as it is. *)
LEMMA SoundStep ==
  ASSUME TypeOK, Soundness, Grows,
         NEW l \in Loops, NEW s \in Steps, NEW c \in Causes,
         pc[l] \notin Idle \/ s \in Idle,
         Goto(l, s, c),
         ledger' = ledger,
         \A k \in Loops : snap'[k] = snap[k] \/ snap'[k] = NoSnapshot,
         \A j \in Jobs : acked'[j] => written'[j] > 0,
         s \in AfterPrint => written'[job[l]] > 0,
         s = "rec_succeeded" => acked'[job[l]]
  PROVE  Soundness'
<1>1. LoopsSound'
  BY GotoSound DEF Soundness
<1>2. LedgerNeverOverstates'
  BY DEF Soundness, LedgerNeverOverstates, SoundEntry, Grows
<1>3. SnapsSound'
  BY DEF Soundness, SnapsSound, SoundEntry, Grows
<1>4. QED
  BY <1>1, <1>2, <1>3 DEF Soundness, AckedWasWritten

(* A step that changes nothing Soundness talks about, but for the file or  *)
(* a copy of it being dropped.                                             *)
LEMMA SoundIdle ==
  ASSUME TypeOK, Soundness, UNCHANGED <<ledger, pc, job, acked, written>>,
         \A k \in Loops : snap'[k] = snap[k] \/ snap'[k] = NoSnapshot
  PROVE  Soundness'
BY DEF Soundness, AckedWasWritten, LedgerNeverOverstates, SoundEntry, SnapsSound, LoopsSound

(* A settled entry of the ledger is about a bon that was written. *)
LEMMA SettledWritten ==
  ASSUME Soundness, NEW j \in Jobs, Settled(ledger[j])
  PROVE  written[j] > 0
BY DEF Soundness, LedgerNeverOverstates, SoundEntry, Settled

(* What record writes is sound, because the copy it read is sound and the  *)
(* state it adds is true.                                                  *)
LEMMA RecordedSound ==
  ASSUME TypeOK, Soundness, NEW l \in Loops, snap[l] # NoSnapshot, NEW j \in Jobs
  PROVE  SoundEntry(Recorded(l)[j], j)
<1>1. /\ snap[l] \in Ledgers /\ job[l] \in Jobs /\ pc[l] \in RecordSteps
      /\ SoundEntry(snap[l][j], j)
  BY RecordedTyped DEF Soundness, SnapsSound
<1>2. CASE j # job[l]
  BY <1>1, <1>2 DEF Recorded, Ledgers
<1>3. CASE j = job[l]
  <2>1. Recorded(l)[j] = [state |-> RecordedState[pc[l]], payload |-> payload[l]]
    BY <1>1, <1>3 DEF Recorded, Ledgers
  <2>2. /\ RecordedState[pc[l]] \in {"printed", "ack_pending", "succeeded"} =>
             pc[l] \in AfterPrint
        /\ RecordedState[pc[l]] = "succeeded" => pc[l] = "rec_succeeded"
    BY <1>1 DEF RecordSteps, RecordedState, AfterPrint
  <2>3. QED
    BY <1>3, <2>1, <2>2 DEF SoundEntry, Soundness, LoopsSound
<1>4. QED
  BY <1>2, <1>3

(* The initial states are sound. *)
LEMMA SoundInit == Init => Soundness
BY DEF Init, Soundness, AckedWasWritten, LedgerNeverOverstates, SoundEntry, SnapsSound,
       LoopsSound, EmptyLedger, AfterPrint

(* Every step keeps Soundness, one case per action. *)
LEMMA SoundNext == TypeOK /\ Soundness /\ [Next]_vars => Soundness'
<1> SUFFICES ASSUME TypeOK, Soundness, [Next]_vars
             PROVE  Soundness'
  OBVIOUS
<1> USE DEF Idle, RecordSteps, FailSteps
<1>1. ASSUME NEW l \in Loops, StartLoop(l)
      PROVE  Soundness'
  <2>1. Grows /\ (\A j \in Jobs : acked'[j] => written'[j] > 0)
    BY <1>1 DEF StartLoop, observed, Grows, Soundness, AckedWasWritten
  <2>2. QED
    BY <1>1, <2>1, SoundStep DEF StartLoop, Steps, Causes, AfterPrint
<1>2. ASSUME NEW l \in Loops, Abort(l)
      PROVE  Soundness'
  <2>1. Grows /\ (\A j \in Jobs : acked'[j] => written'[j] > 0)
    BY <1>2 DEF Abort, bons, Grows, Soundness, AckedWasWritten
  <2>2. CASE pc[l] = "poll"
    BY <1>2, <2>1, <2>2, SoundStep DEF Abort, Steps, Causes, AfterPrint
  <2>3. CASE pc[l] # "poll"
    BY <1>2, <2>3, SoundIdle DEF Abort, bons
  <2>4. QED
    BY <2>2, <2>3
<1>3. ASSUME NEW l \in Loops, NEW j \in Jobs, NextJob(l, j)
      PROVE  Soundness'
  <2>1. UNCHANGED <<ledger, snap, acked, written>>
    BY <1>3 DEF NextJob, observed
  <2>2. \A k \in Loops : pc'[k] \in AfterPrint => pc'[k] = pc[k] /\ job'[k] = job[k]
    BY <1>3 DEF NextJob, TypeOK, AfterPrint
  <2>3. LoopsSound'
    BY <2>1, <2>2 DEF Soundness, LoopsSound, AfterPrint
  <2>4. QED
    BY <2>1, <2>3 DEF Soundness, AckedWasWritten, LedgerNeverOverstates, SoundEntry, SnapsSound
<1>4. ASSUME NEW l \in Loops, PollTimesOut(l)
      PROVE  Soundness'
  BY <1>4, SoundIdle DEF PollTimesOut, vars
<1>5. ASSUME Crash
      PROVE  Soundness'
  <2>1. UNCHANGED <<ledger, acked, written>>
    BY <1>5 DEF Crash, bons
  <2>2. SnapsSound' /\ LoopsSound'
    BY <1>5 DEF Crash, SnapsSound, LoopsSound, AfterPrint
  <2>3. QED
    BY <2>1, <2>2 DEF Soundness, AckedWasWritten, LedgerNeverOverstates, SoundEntry
<1>6. ASSUME NEW j \in Jobs, LeaseExpires(j) \/ ContentChanges(j) \/ Replay(j)
      PROVE  Soundness'
  BY <1>6, SoundIdle DEF LeaseExpires, ContentChanges, Replay, local, observed
<1>7. ASSUME NEW l \in Loops, Route(l)
      PROVE  Soundness'
  <2>1. Grows /\ (\A j \in Jobs : acked'[j] => written'[j] > 0)
    BY <1>7 DEF Route, observed, Grows, Soundness, AckedWasWritten
  <2>2. QED
    BY <1>7, <2>1, ControlFlow, PrintOrder, SoundStep DEF Route, Steps, Causes, AfterPrint
<1>8. ASSUME NEW l \in Loops, AssertPayload(l)
      PROVE  Soundness'
  <2>1. Grows /\ (\A j \in Jobs : acked'[j] => written'[j] > 0)
    BY <1>8 DEF AssertPayload, bons, Grows, Soundness, AckedWasWritten
  <2>2. job[l] \in Jobs
    BY <1>8 DEF AssertPayload, TypeOK
  <2>3. LET s == Dispatch(l, ledger[job[l]]) IN
          s # "rec_succeeded" /\ (s \in AfterPrint => written'[job[l]] > 0)
    BY <1>8, <2>1, <2>2, PrintOrder, SettledWritten DEF Grows
  <2>4. QED
    BY <1>8, <2>1, <2>3, ControlFlow, SoundStep DEF AssertPayload, bons, Causes
<1>9. ASSUME NEW l \in Loops, AssertUnread(l)
      PROVE  Soundness'
  <2>1. Grows /\ (\A j \in Jobs : acked'[j] => written'[j] > 0)
    BY <1>9 DEF AssertUnread, bons, Grows, Soundness, AckedWasWritten
  <2>2. QED
    BY <1>9, <2>1, SoundStep DEF AssertUnread, Steps, Causes, AfterPrint
<1>10. ASSUME NEW l \in Loops, PrintSucceeds(l)
      PROVE  Soundness'
  <2>1. written'[job[l]] > 0 /\ Grows /\ (\A j \in Jobs : acked'[j] => written'[j] > 0)
    BY <1>10 DEF PrintSucceeds, Write, TypeOK, Grows, Soundness, AckedWasWritten
  <2>2. QED
    BY <1>10, <2>1, SoundStep DEF PrintSucceeds, Steps, Causes
<1>11. ASSUME NEW l \in Loops, PrinterOffline(l)
      PROVE  Soundness'
  <2>1. Grows /\ (\A j \in Jobs : acked'[j] => written'[j] > 0)
    BY <1>11 DEF PrinterOffline, observed, Grows, Soundness, AckedWasWritten
  <2>2. QED
    BY <1>11, <2>1, SoundStep DEF PrinterOffline, Steps, Causes, AfterPrint
<1>12. ASSUME NEW l \in Loops, PrintPartial(l)
      PROVE  Soundness'
  <2>1. Grows /\ (\A j \in Jobs : acked'[j] => written'[j] > 0)
    BY <1>12 DEF PrintPartial, Write, TypeOK, Grows, Soundness, AckedWasWritten
  <2>2. QED
    BY <1>12, <2>1, SoundStep DEF PrintPartial, Steps, Causes, AfterPrint
<1>13. ASSUME NEW l \in Loops, PrinterRefuses(l)
      PROVE  Soundness'
  <2>1. Grows /\ (\A j \in Jobs : acked'[j] => written'[j] > 0)
    BY <1>13 DEF PrinterRefuses, bons, Grows, Soundness, AckedWasWritten
  <2>2. QED
    BY <1>13, <2>1, ControlFlow, PrintOrder, SoundStep
       DEF PrinterRefuses, Throw, bons, Steps, Causes, AfterPrint
<1>14. ASSUME NEW l \in Loops, PrintCanceled(l)
      PROVE  Soundness'
  <2>1. Grows /\ (\A j \in Jobs : acked'[j] => written'[j] > 0)
    BY <1>14 DEF PrintCanceled, Write, bons, TypeOK, Grows, Soundness, AckedWasWritten
  <2>2. QED
    BY <1>14, <2>1, SoundStep DEF PrintCanceled, Steps, Causes, AfterPrint
<1>15. ASSUME NEW l \in Loops, AckAccepted(l)
      PROVE  Soundness'
  <2>1. job[l] \in Jobs /\ written[job[l]] > 0
    BY <1>15 DEF AckAccepted, TypeOK, Soundness, LoopsSound, AfterPrint
  <2>2. /\ Grows /\ (\A j \in Jobs : acked'[j] => written'[j] > 0)
        /\ written'[job[l]] > 0 /\ acked'[job[l]]
    BY <1>15, <2>1 DEF AckAccepted, Close, bons, TypeOK, Grows, Soundness, AckedWasWritten
  <2>3. QED
    BY <1>15, <2>2, SoundStep DEF AckAccepted, Steps, Causes
<1>16. ASSUME NEW l \in Loops, AckRejected(l)
      PROVE  Soundness'
  <2>1. job[l] \in Jobs /\ written[job[l]] > 0
    BY <1>16 DEF AckRejected, TypeOK, Soundness, LoopsSound, AfterPrint
  <2>2. /\ Grows /\ (\A j \in Jobs : acked'[j] => written'[j] > 0)
        /\ written'[job[l]] > 0
    BY <1>16, <2>1
       DEF AckRejected, Close, cloud, bons, TypeOK, Grows, Soundness, AckedWasWritten
  <2>3. QED
    BY <1>16, <2>2, ControlFlow, PrintOrder, SoundStep DEF AckRejected, Throw, Steps, Causes
<1>17. ASSUME NEW l \in Loops, AckUnavailable(l)
      PROVE  Soundness'
  <2>1. written[job[l]] > 0
    BY <1>17 DEF AckUnavailable, Soundness, LoopsSound, AfterPrint
  <2>2. /\ Grows /\ (\A j \in Jobs : acked'[j] => written'[j] > 0)
        /\ written'[job[l]] > 0
    BY <1>17, <2>1 DEF AckUnavailable, observed, Grows, Soundness, AckedWasWritten
  <2>3. QED
    BY <1>17, <2>2, ControlFlow, PrintOrder, SoundStep DEF AckUnavailable, Throw, Steps, Causes
<1>18. ASSUME NEW l \in Loops, FailAccepted(l)
      PROVE  Soundness'
  <2>1. acked' = acked
    BY <1>18 DEF FailAccepted, Close, Verdict, TypeOK
  <2>2. Grows /\ (\A j \in Jobs : acked'[j] => written'[j] > 0)
    BY <1>18, <2>1 DEF FailAccepted, bons, Grows, Soundness, AckedWasWritten
  <2>3. QED
    BY <1>18, <2>2, ControlFlow, PrintOrder, SoundStep DEF FailAccepted, Steps, Causes
<1>19. ASSUME NEW l \in Loops, FailRejected(l)
      PROVE  Soundness'
  <2>1. acked' = acked
    BY <1>19 DEF FailRejected, Close, Verdict, cloud, TypeOK
  <2>2. Grows /\ (\A j \in Jobs : acked'[j] => written'[j] > 0)
    BY <1>19, <2>1 DEF FailRejected, bons, Grows, Soundness, AckedWasWritten
  <2>3. QED
    BY <1>19, <2>2, ControlFlow, PrintOrder, SoundStep DEF FailRejected, Throw, Steps, Causes
<1>20. ASSUME NEW l \in Loops, RecordRead(l)
      PROVE  Soundness'
  <2>1. CASE Mismatched(l, ledger[job[l]])
    <3>1. Grows /\ (\A j \in Jobs : acked'[j] => written'[j] > 0)
      BY <1>20 DEF RecordRead, bons, Grows, Soundness, AckedWasWritten
    <3>2. pc[l] \in {"ack", "rec_succeeded"} => written'[job[l]] > 0
      BY <1>20 DEF RecordRead, bons, Soundness, LoopsSound, AfterPrint
    <3>3. QED
      BY <1>20, <2>1, <3>1, <3>2, ControlFlow, PrintOrder, SoundStep
         DEF RecordRead, Throw, Steps, Causes
  <2>2. CASE ~Mismatched(l, ledger[job[l]])
    <3>1. /\ UNCHANGED <<ledger, pc, job, acked, written>>
          /\ snap' = [snap EXCEPT ![l] = ledger]
      BY <1>20, <2>2 DEF RecordRead, bons
    <3>2. SnapsSound'
      BY <3>1 DEF TypeOK, Soundness, SnapsSound, LedgerNeverOverstates, SoundEntry
    <3>3. QED
      BY <3>1, <3>2
         DEF Soundness, AckedWasWritten, LedgerNeverOverstates, SoundEntry, LoopsSound
  <2>3. QED
    BY <2>1, <2>2
<1>21. ASSUME NEW l \in Loops, RecordUnread(l)
      PROVE  Soundness'
  <2>1. /\ UNCHANGED <<ledger, pc, job, acked, written>>
        /\ snap' = [snap EXCEPT ![l] = EmptyLedger]
    BY <1>21 DEF RecordUnread, bons
  <2>2. SnapsSound'
    BY <2>1 DEF TypeOK, Soundness, SnapsSound, SoundEntry, EmptyLedger
  <2>3. QED
    BY <2>1, <2>2 DEF Soundness, AckedWasWritten, LedgerNeverOverstates, SoundEntry, LoopsSound
<1>22. ASSUME NEW l \in Loops, RecordWrite(l)
      PROVE  Soundness'
  <2>1. UNCHANGED <<acked, written>> /\ Grows
    BY <1>22 DEF RecordWrite, bons, Grows
  <2>2. LedgerNeverOverstates'
    BY <1>22, <2>1, RecordedSound DEF RecordWrite, LedgerNeverOverstates, SoundEntry
  <2>3. SnapsSound'
    BY <1>22, <2>1 DEF RecordWrite, TypeOK, Soundness, SnapsSound, SoundEntry
  <2>4. AfterRecord(l) \in AfterPrint => written'[job[l]] > 0
    BY <2>1, PrintOrder DEF Soundness, LoopsSound, AfterPrint
  <2>5. LoopsSound'
    BY <1>22, <2>1, <2>4, RecordedTyped, ControlFlow, PrintOrder, GotoSound
       DEF RecordWrite, Soundness, Causes
  <2>6. QED
    BY <2>1, <2>2, <2>3, <2>5 DEF Soundness, AckedWasWritten
<1>23. ASSUME NEW l \in Loops, RecordUnwritten(l)
      PROVE  Soundness'
  <2>1. Grows /\ (\A j \in Jobs : acked'[j] => written'[j] > 0)
    BY <1>23 DEF RecordUnwritten, bons, Grows, Soundness, AckedWasWritten
  <2>2. pc[l] \in {"ack", "rec_succeeded"} => written'[job[l]] > 0
    BY <1>23 DEF RecordUnwritten, bons, Soundness, LoopsSound, AfterPrint
  <2>3. \A k \in Loops : snap'[k] = snap[k] \/ snap'[k] = NoSnapshot
    BY <1>23 DEF RecordUnwritten, TypeOK
  <2>4. /\ pc[l] \in Steps /\ pc[l] \notin Idle
        /\ ThrownAt(l, pc[l], "other") \in Steps
        /\ ThrownAt(l, pc[l], "other") \in AfterPrint => written'[job[l]] > 0
        /\ ThrownAt(l, pc[l], "other") # "rec_succeeded"
    BY <1>23, <2>2, RecordedTyped, ControlFlow, PrintOrder DEF RecordUnwritten, Causes, Steps
  <2>5. ledger' = ledger /\ Goto(l, ThrownAt(l, pc[l], "other"), "other")
    BY <1>23 DEF RecordUnwritten, Throw
  <2>6. QED
    BY <2>1, <2>3, <2>4, <2>5, SoundStep DEF Causes
<1>24. ASSUME UNCHANGED vars
      PROVE  Soundness'
  BY <1>24, SoundIdle DEF vars
<1>25. QED
  BY <1>1, <1>2, <1>3, <1>4, <1>5, <1>6, <1>7, <1>8, <1>9, <1>10, <1>11, <1>12, <1>13,
     <1>14, <1>15, <1>16, <1>17, <1>18, <1>19, <1>20, <1>21, <1>22, <1>23, <1>24
     DEF Next, LoopStep

(* The inductive invariant, for every set of loops, jobs and contents and  *)
(* every number of disturbances.                                           *)
THEOREM Sound == Spec => [](TypeOK /\ Soundness)
<1>1. Init => TypeOK /\ Soundness
  BY TypeInit, SoundInit
<1>2. TypeOK /\ Soundness /\ [Next]_vars => (TypeOK /\ Soundness)'
  BY TypeStep, SoundNext
<1>3. QED
  BY <1>1, <1>2, PTL DEF Spec

(* No order is acknowledged whose bon never reached the printer. *)
THEOREM AckedWasWrittenHolds == Spec => []AckedWasWritten
<1>1. TypeOK /\ Soundness => AckedWasWritten
  BY DEF Soundness
<1>2. QED
  BY <1>1, Sound, PTL

(* The ledger never suppresses a print, or an acknowledgement, that is     *)
(* still due.                                                              *)
THEOREM LedgerNeverOverstatesHolds == Spec => []LedgerNeverOverstates
<1>1. TypeOK /\ Soundness => LedgerNeverOverstates
  BY DEF Soundness
<1>2. QED
  BY <1>1, Sound, PTL
-----------------------------------------------------------------------------
(***************************************************************************)
(* What holds with one loop at a time, for any jobs and contents, any      *)
(* fault kinds and any number of disturbances.  With two loops none of it  *)
(* does: an aborted hand-off takes back what its successor has recorded.   *)
(***************************************************************************)
(***************************************************************************)
(* What loop l knows of its job: before the print the intent is on disk,   *)
(* after it the entry has the content that was printed.                    *)
(***************************************************************************)
Before == {"rec_received", "rec_in_flight", "print"}

Intent(l) ==
  /\ pc[l] = "print" =>
       ledger[job[l]] # NoEntry /\ ledger[job[l]].state = "in_flight"
                                /\ ledger[job[l]].payload = payload[l]
  /\ pc[l] \in AfterPrint => ledger[job[l]] # NoEntry /\ ledger[job[l]].payload = payload[l]

(* Where an error or the end of a hand-off leads to. *)
LEMMA Targets ==
  ASSUME NEW l
  PROVE  /\ Return(l) \in Idle
         /\ FailMismatch(l) \in Idle \cup {"fail_mismatch"}
         /\ Catch(l, "other") \in {"rec_ambiguous", "rec_terminal"}
         /\ \A s : s \in {"ack", "rec_succeeded"} =>
              \A c : ThrownAt(l, s, c) = "rec_ack_pending"
         /\ \A s : s \notin {"ack", "rec_succeeded"} =>
              /\ ThrownAt(l, s, "other") \in Idle \cup {"rec_ambiguous", "rec_terminal"}
              /\ ThrownAt(l, s, "mismatch") \in Idle \cup {"fail_mismatch"}
<1>1. Return(l) \in Idle
  BY DEF Return, Idle
<1>2. FailMismatch(l) \in Idle \cup {"fail_mismatch"}
  BY <1>1 DEF FailMismatch
<1>3. Catch(l, "other") \in {"rec_ambiguous", "rec_terminal"}
  BY DEF Catch
<1>4. Catch(l, "mismatch") \in Idle \cup {"fail_mismatch"}
  BY <1>2 DEF Catch
<1>5. \A s : s \in {"ack", "rec_succeeded"} => \A c : ThrownAt(l, s, c) = "rec_ack_pending"
  BY DEF ThrownAt
<1>6. ASSUME NEW s, s \notin {"ack", "rec_succeeded"}
      PROVE  /\ ThrownAt(l, s, "other") \in Idle \cup {"rec_ambiguous", "rec_terminal"}
             /\ ThrownAt(l, s, "mismatch") \in Idle \cup {"fail_mismatch"}
  BY <1>1, <1>3, <1>4, <1>6 DEF ThrownAt
<1>7. QED
  BY <1>1, <1>2, <1>3, <1>5, <1>6

(* What Goto does to the locals of its loop. *)
LEMMA GotoHere ==
  ASSUME TypeOK, NEW l \in Loops, NEW s, NEW c, Goto(l, s, c)
  PROVE  /\ pc'[l] = s
         /\ s \notin Idle => job'[l] = job[l] /\ payload'[l] = payload[l]
         /\ aborted'[l] = (aborted[l] /\ s # "off")
         /\ cause'[l] = IF s = "rec_ack_pending" THEN c ELSE "none"
         /\ s \in Idle => job'[l] = NoJob
BY DEF TypeOK, Goto

(* The entry that record writes for its job, and what it leaves alone. *)
LEMMA RecordedEntry ==
  ASSUME TypeOK, NEW l \in Loops, snap[l] # NoSnapshot
  PROVE  /\ Recorded(l)[job[l]] # NoEntry
         /\ Recorded(l)[job[l]].state = RecordedState[pc[l]]
         /\ Recorded(l)[job[l]].payload = payload[l]
         /\ \A j \in Jobs : j # job[l] => Recorded(l)[j] = snap[l][j]
<1>1. job[l] \in Jobs /\ snap[l] \in Ledgers /\ pc[l] \in RecordSteps
  BY RecordedTyped
<1>2. payload[l] \in Payloads
  BY <1>1 DEF TypeOK, RecordSteps, Idle
<1>3. RecordedState[pc[l]] \in LocalJobState
  BY <1>1 DEF RecordSteps, RecordedState, LocalJobState
<1>4. [state |-> RecordedState[pc[l]], payload |-> payload[l]] \in LocalJobRecord
  BY <1>2, <1>3 DEF LocalJobRecord
<1>5. Recorded(l)[job[l]] = [state |-> RecordedState[pc[l]], payload |-> payload[l]]
  BY <1>1 DEF Recorded, Ledgers
<1>6. \A j \in Jobs : j # job[l] => Recorded(l)[j] = snap[l][j]
  BY <1>1 DEF Recorded, Ledgers
<1>7. QED
  BY <1>4, <1>5, <1>6, NullsAssumption
(* A move of the loop that leaves the ledger as it is: it does not lead to *)
(* the print, and to a step after it only with the entry there.            *)
LEMMA IntentMoves ==
  ASSUME TypeOK, NEW l \in Loops, NEW s, NEW c, Goto(l, s, c), ledger' = ledger,
         s # "print",
         s \in AfterPrint => ledger[job[l]] # NoEntry /\ ledger[job[l]].payload = payload[l]
  PROVE  Intent(l)'
<1>1. s \in AfterPrint => s \notin Idle
  BY DEF AfterPrint, Idle
<1>2. QED
  BY <1>1, GotoHere DEF Intent

(* Where record leads to: to the print only with the intent on disk. *)
LEMMA AfterRecordTargets ==
  ASSUME NEW l
  PROVE  /\ AfterRecord(l) = "print" => pc[l] = "rec_in_flight"
         /\ AfterRecord(l) \in AfterPrint => pc[l] = "rec_printed"
<1> USE Targets DEF AfterPrint, Idle
<1>1. \A s : Requested(l, s) = "print" => s = "print"
  BY DEF Requested
<1>2. \A s : Requested(l, s) \in AfterPrint => s \in AfterPrint
  BY DEF Requested
<1>3. Catch(l, cause[l]) \in Idle \cup {"fail_mismatch", "rec_ambiguous", "rec_terminal"}
  BY DEF Catch
<1>4. QED
  BY <1>1, <1>2, <1>3 DEF AfterRecord

(* Every step keeps Intent, one case per action. *)
LEMMA IntentStep ==
  ASSUME NEW l, Loops = {l}, TypeOK, Intent(l), [Next]_vars
  PROVE  Intent(l)'
<1> USE Targets DEF Idle, AfterPrint
<1>1. CASE StartLoop(l)
  BY <1>1, IntentMoves DEF StartLoop
<1>2. CASE Abort(l)
  <2>1. CASE pc[l] = "poll"
    BY <1>2, <2>1, IntentMoves DEF Abort
  <2>2. CASE pc[l] # "poll"
    BY <1>2, <2>2 DEF Abort, Intent
  <2>3. QED
    BY <2>1, <2>2
<1>3. CASE \E j \in Jobs : NextJob(l, j)
  BY <1>3 DEF NextJob, TypeOK, Intent
<1>4. CASE Crash
  BY <1>4 DEF Crash, Intent
<1>5. CASE Route(l)
  <2>1. Requested(l, "fail_unconfigured") \notin AfterPrint \cup {"print"}
    BY DEF Requested
  <2>2. QED
    BY <1>5, <2>1, IntentMoves DEF Route
<1>6. CASE AssertPayload(l)
  <2>1. LET s == Dispatch(l, ledger[job[l]]) IN
          /\ s # "print"
          /\ s \in AfterPrint =>
               ledger[job[l]] # NoEntry /\ ledger[job[l]].payload = payload[l]
    BY DEF Dispatch, Settled, Mismatched, Requested
  <2>2. QED
    BY <1>6, <2>1, IntentMoves DEF AssertPayload
<1>7. CASE AssertUnread(l)
  BY <1>7, IntentMoves DEF AssertUnread
<1>8. CASE RecordRead(l)
  <2>1. CASE Mismatched(l, ledger[job[l]])
    <3>1. pc[l] \in RecordSteps /\ pc[l] \notin AfterPrint /\ ledger' = ledger
      BY <1>8, <2>1 DEF RecordRead, Mismatched, Intent
    <3>2. ThrownAt(l, pc[l], "mismatch") \in Idle \cup {"fail_mismatch"}
      BY <3>1
    <3>3. QED
      BY <1>8, <2>1, <3>1, <3>2, IntentMoves DEF RecordRead, Throw
  <2>2. CASE ~Mismatched(l, ledger[job[l]])
    BY <1>8, <2>2 DEF RecordRead, Intent
  <2>3. QED
    BY <2>1, <2>2
<1>9. CASE RecordUnread(l)
  BY <1>9 DEF RecordUnread, Intent
<1>10. CASE RecordWrite(l)
  <2>1. /\ ledger' = Recorded(l)
        /\ Goto(l, AfterRecord(l), "other")
    BY <1>10 DEF RecordWrite
  <2>2. /\ ledger'[job[l]] # NoEntry
        /\ ledger'[job[l]].state = RecordedState[pc[l]]
        /\ ledger'[job[l]].payload = payload[l]
    BY <1>10, <2>1, RecordedEntry DEF RecordWrite
  <2>3. AfterRecord(l) = "print" => ledger'[job[l]].state = "in_flight"
    BY <2>2, AfterRecordTargets DEF RecordedState
  <2>4. /\ pc'[l] = AfterRecord(l)
        /\ AfterRecord(l) \notin Idle => job'[l] = job[l] /\ payload'[l] = payload[l]
    BY <2>1, GotoHere
  <2>5. QED
    BY <2>2, <2>3, <2>4 DEF Intent
<1>11. CASE RecordUnwritten(l) \/ AckRejected(l) \/ AckUnavailable(l) \/ FailRejected(l)
  <2>1. PICK c \in {"other", "ack_unavailable"} :
          /\ Throw(l, c)
          /\ c # "other" => pc[l] = "ack"
          /\ ledger' = ledger
    BY <1>11 DEF RecordUnwritten, AckRejected, AckUnavailable, FailRejected
  <2>2. CASE pc[l] \in {"ack", "rec_succeeded"}
    BY <2>1, <2>2, IntentMoves DEF Throw, Intent
  <2>3. CASE pc[l] \notin {"ack", "rec_succeeded"}
    <3>1. c = "other" /\ ThrownAt(l, pc[l], c) \in Idle \cup {"rec_ambiguous", "rec_terminal"}
      BY <2>1, <2>3
    <3>2. QED
      BY <2>1, <3>1, IntentMoves DEF Throw
  <2>4. QED
    BY <2>2, <2>3
<1>12. CASE PrintSucceeds(l)
  BY <1>12, IntentMoves DEF PrintSucceeds, Intent
<1>13. CASE PrinterOffline(l) \/ PrintPartial(l) \/ PrintCanceled(l)
  BY <1>13, IntentMoves DEF PrinterOffline, PrintPartial, PrintCanceled
<1>14. CASE PrinterRefuses(l)
  BY <1>14, IntentMoves DEF PrinterRefuses, Throw
<1>15. CASE AckAccepted(l)
  BY <1>15, IntentMoves DEF AckAccepted, Intent
<1>16. CASE FailAccepted(l)
  BY <1>16, IntentMoves DEF FailAccepted
<1>17. CASE PollTimesOut(l) \/ UNCHANGED vars
  BY <1>17 DEF PollTimesOut, vars, Intent
<1>18. CASE \E j \in Jobs : LeaseExpires(j) \/ ContentChanges(j) \/ Replay(j)
  BY <1>18 DEF LeaseExpires, ContentChanges, Replay, local, Intent
<1>19. QED
  BY <1>1, <1>2, <1>3, <1>4, <1>5, <1>6, <1>7, <1>8, <1>9, <1>10, <1>11, <1>12, <1>13,
     <1>14, <1>15, <1>16, <1>17, <1>18 DEF Next, LoopStep

(* A bon is only written at the print, with the content in hand. *)
LEMMA WritesAtPrint ==
  ASSUME NEW l, Loops = {l}, TypeOK, [Next]_vars
  PROVE  \/ UNCHANGED bons
         \/ pc[l] = "print" /\ Write(l) /\ job[l] \in Jobs /\ UNCHANGED ledger
<1>1. CASE PrintSucceeds(l) \/ PrintPartial(l) \/ PrintCanceled(l)
  BY <1>1 DEF PrintSucceeds, PrintPartial, PrintCanceled, TypeOK, Idle
<1>2. CASE LoopStep(l) /\ ~(PrintSucceeds(l) \/ PrintPartial(l) \/ PrintCanceled(l))
  BY <1>2 DEF LoopStep, Route, AssertPayload, AssertUnread, RecordRead, RecordUnread,
              RecordWrite, RecordUnwritten, PrinterOffline, PrinterRefuses, AckAccepted,
              AckRejected, AckUnavailable, FailAccepted, FailRejected, bons, observed
<1>3. CASE StartLoop(l) \/ Abort(l) \/ (\E j \in Jobs : NextJob(l, j)) \/ Crash
  BY <1>3 DEF StartLoop, Abort, NextJob, Crash, bons, observed
<1>4. CASE PollTimesOut(l) \/ UNCHANGED vars
  BY <1>4 DEF PollTimesOut, vars, bons
<1>5. CASE \E j \in Jobs : LeaseExpires(j) \/ ContentChanges(j) \/ Replay(j)
  BY <1>5 DEF LeaseExpires, ContentChanges, Replay, bons, observed
<1>6. QED
  BY <1>1, <1>2, <1>3, <1>4, <1>5 DEF Next

(* A crash in the middle of a print always leaves a trace: bytes go out    *)
(* only when the ledger on disk says that this content is in flight.       *)
THEOREM WriteAheadHolds == ASSUME NEW l, Loops = {l} PROVE Spec => WriteAhead
<1>1. Init => Intent(l)
  BY DEF Init, Intent, AfterPrint
<1>2. TypeOK /\ Intent(l) /\ [Next]_vars => Intent(l)'
  BY IntentStep
<1>3. ASSUME TypeOK, Intent(l), [Next]_vars, NEW j \in Jobs, written'[j] > written[j]
      PROVE  /\ ledger[j] # NoEntry /\ ledger[j].state = "in_flight"
             /\ paper'[j] = paper[j] \cup {ledger[j].payload}
  <2>1. written[j] \in Nat
    BY <1>3 DEF TypeOK
  <2>2. pc[l] = "print" /\ Write(l) /\ job[l] \in Jobs
    BY <1>3, <2>1, WritesAtPrint DEF bons
  <2>3. j = job[l]
    BY <1>3, <2>1, <2>2 DEF Write, TypeOK
  <2>4. QED
    BY <1>3, <2>2, <2>3 DEF Write, TypeOK, Intent
<1>4. TypeOK /\ Intent(l) /\ [Next]_vars =>
        [\A j \in Jobs : written'[j] > written[j] =>
           /\ ledger[j] # NoEntry
           /\ ledger[j].state = "in_flight"
           /\ paper'[j] = paper[j] \cup {ledger[j].payload}]_vars
  BY <1>3
<1>5. QED
  BY <1>1, <1>2, <1>4, TypeCorrect, PTL DEF Spec, WriteAhead
-----------------------------------------------------------------------------
(***************************************************************************)
(* Bons and disturbances.  Of the bons of a job all but one are paid for   *)
(* by a disturbance each.  Whether the one is already on paper is in the   *)
(* ledger between hand-offs, and in the step of the loop inside of one.    *)
(***************************************************************************)
Prepares == {"route", "assert"} \cup Before

(* The steps at which an abort leads to a record that says less than what  *)
(* is on paper: it is paid for when it comes.                              *)
Stoppable == Prepares \cup {"rec_printed", "ack", "rec_succeeded"}

Unbooked == {"rec_retry", "rec_refused", "rec_ambiguous", "rec_terminal",
             "fail_retry", "fail_refused", "fail_terminal"}

Debt(s, stopped) == IF stopped /\ s \in Stoppable THEN 1 ELSE 0

Known(entry) == IF Settled(entry) THEN 1 ELSE 0

Free(s, c, entry) ==
  IF s \in Before \cup Unbooked THEN 0
  ELSE IF s \in {"rec_printed", "ack", "rec_succeeded"} THEN 1
  ELSE IF s = "rec_ack_pending" THEN IF c = "ack_unavailable" THEN 1 ELSE 0
  ELSE Known(entry)

(* The ledger as it will be when the copy that l has read is written back *)
View(l) == IF snap[l] = NoSnapshot THEN ledger ELSE snap[l]

HandBounded(l) ==
  pc[l] \notin Idle =>
    written[job[l]] + Debt(pc[l], aborted[l])
      <= faults[job[l]] + Free(pc[l], cause[l], ledger[job[l]])

RestBounded(l) ==
  \A j \in Jobs : pc[l] \in Idle \/ job[l] # j => written[j] <= faults[j] + Known(View(l)[j])

Bounded(l) ==
  /\ HandBounded(l) /\ RestBounded(l)
  /\ snap[l] # NoSnapshot => snap[l] \in {ledger, EmptyLedger}

(* Free and Debt are numbers, and an error never leads to a step that      *)
(* grants less than nothing.                                               *)
LEMMA FreeTyped ==
  /\ \A s, c, entry : Free(s, c, entry) \in {0, 1}
  /\ \A s, stopped : Debt(s, stopped) \in {0, 1}
  /\ \A s, stopped : s \notin Stoppable => Debt(s, stopped) = 0
  /\ \A entry : Known(entry) \in {0, 1}
  /\ \A s, c, entry : s \in Idle => Free(s, c, entry) = Known(entry)
<1> USE DEF Before, Unbooked, Stoppable, Prepares, Idle
<1>1. \A entry : Known(entry) \in {0, 1}
  BY DEF Known
<1>2. \A s, c, entry : Free(s, c, entry) \in {0, 1}
  BY <1>1 DEF Free
<1>3. \A s, stopped : Debt(s, stopped) \in {0, 1}
  BY DEF Debt
<1>4. \A s, stopped : s \notin Stoppable => Debt(s, stopped) = 0
  BY DEF Debt
<1>5. \A s, c, entry : s \in Idle => Free(s, c, entry) = Known(entry)
  BY DEF Free
<1>6. QED
  BY <1>1, <1>2, <1>3, <1>4, <1>5

(* A move of the loop out of a hand-off step: the job in hand obeys the    *)
(* bound of the step that follows, the others keep theirs.                 *)
LEMMA BoundedMoves ==
  ASSUME TypeOK, TypeOK', NEW l \in Loops, pc[l] \notin Idle, NEW s, NEW c, Goto(l, s, c),
         written'[job[l]] + Debt(s, aborted[l])
           <= faults'[job[l]] + Free(s, c, ledger'[job[l]]),
         snap'[l] = NoSnapshot,
         \A j \in Jobs : j # job[l] => written'[j] <= faults'[j] + Known(ledger'[j])
  PROVE  Bounded(l)'
<1>1. job[l] \in Jobs /\ View(l)' = ledger'
  BY DEF TypeOK, View
<1>2. /\ written' \in [Jobs -> Nat] /\ faults' \in [Jobs -> Nat]
  BY DEF TypeOK
<1>3. HandBounded(l)'
  <2>1. CASE s \in Idle
    BY <2>1, GotoHere DEF HandBounded
  <2>2. CASE s \notin Idle
    <3>1. /\ pc'[l] = s /\ job'[l] = job[l]
          /\ aborted'[l] = aborted[l]
          /\ cause'[l] = IF s = "rec_ack_pending" THEN c ELSE "none"
      BY <2>2, GotoHere DEF Idle, TypeOK
    <3>2. Free(s, cause'[l], ledger'[job[l]]) = Free(s, c, ledger'[job[l]])
      BY <3>1 DEF Free
    <3>3. QED
      BY <3>1, <3>2 DEF HandBounded
  <2>3. QED
    BY <2>1, <2>2
<1>4. RestBounded(l)'
  <2>1. SUFFICES ASSUME NEW j \in Jobs, pc'[l] \in Idle \/ job'[l] # j
                 PROVE  written'[j] <= faults'[j] + Known(ledger'[j])
    BY <1>1 DEF RestBounded
  <2>2. CASE j # job[l]
    BY <2>2
  <2>3. CASE j = job[l]
    <3>1. s \in Idle
      BY <2>1, <2>3, GotoHere
    <3>2. Free(s, c, ledger'[j]) = Known(ledger'[j]) /\ Debt(s, aborted[l]) \in {0, 1}
      BY <3>1, FreeTyped
    <3>3. Known(ledger'[j]) \in {0, 1} /\ written'[j] \in Nat /\ faults'[j] \in Nat
      BY <1>2, FreeTyped
    <3>4. QED
      BY <2>3, <3>2, <3>3
  <2>4. QED
    BY <2>2, <2>3
<1>5. QED
  BY <1>3, <1>4 DEF Bounded

(* What a loop that is in a hand-off, and not in the middle of a record,   *)
(* knows about the other jobs.                                             *)
LEMMA OthersBounded ==
  ASSUME NEW l \in Loops, TypeOK, Bounded(l), pc[l] \notin Idle, NEW j \in Jobs, j # job[l]
  PROVE  written[j] <= faults[j] + Known(ledger[j])
<1>1. written[j] <= faults[j] + Known(View(l)[j])
  BY DEF Bounded, RestBounded
<1>2. CASE View(l) = ledger
  BY <1>1, <1>2
<1>3. CASE View(l) = EmptyLedger
  <2>1. Known(View(l)[j]) = 0
    BY <1>3 DEF EmptyLedger, Known, Settled
  <2>2. Known(ledger[j]) \in {0, 1} /\ written[j] \in Nat /\ faults[j] \in Nat
    BY FreeTyped DEF TypeOK
  <2>3. QED
    BY <1>1, <2>1, <2>2
<1>4. QED
  BY <1>2, <1>3 DEF Bounded, View

(* A move that leaves the ledger as it is has to answer for the job in     *)
(* hand only.                                                              *)
LEMMA BoundedGoto ==
  ASSUME NEW l \in Loops, TypeOK, TypeOK', Bounded(l), pc[l] \notin Idle,
         NEW s, NEW c, Goto(l, s, c), ledger' = ledger, snap'[l] = NoSnapshot,
         \A j \in Jobs : faults'[j] >= faults[j],
         \A j \in Jobs : j # job[l] => written'[j] = written[j],
         written'[job[l]] + Debt(s, aborted[l])
           <= faults'[job[l]] + Free(s, c, ledger[job[l]])
  PROVE  Bounded(l)'
<1>1. ASSUME NEW j \in Jobs, j # job[l]
      PROVE  written'[j] <= faults'[j] + Known(ledger'[j])
  <2>1. written[j] <= faults[j] + Known(ledger[j])
    BY <1>1, OthersBounded
  <2>2. Known(ledger[j]) \in {0, 1} /\ {written[j], faults[j], faults'[j]} \subseteq Nat
    BY FreeTyped DEF TypeOK
  <2>3. QED
    BY <1>1, <2>1, <2>2
<1>2. QED
  BY <1>1, BoundedMoves

(* Nothing the bound is about changes, but that disturbances come. *)
LEMMA BoundedStays ==
  ASSUME NEW l \in Loops, TypeOK, TypeOK', Bounded(l),
         UNCHANGED <<ledger, pc, job, aborted, cause, snap, written>>,
         \A j \in Jobs : faults'[j] >= faults[j]
  PROVE  Bounded(l)'
<1>1. /\ \A j \in Jobs : {written[j], faults[j], faults'[j]} \subseteq Nat
      /\ pc[l] \notin Idle => job[l] \in Jobs
  BY DEF TypeOK
<1>2. HandBounded(l)'
  BY <1>1, FreeTyped DEF Bounded, HandBounded
<1>3. RestBounded(l)'
  BY <1>1, FreeTyped DEF Bounded, RestBounded, View
<1>4. QED
  BY <1>2, <1>3 DEF Bounded

(* A disturbance costs the jobs it touches one and the others nothing. *)
LEMMA TouchedGrows ==
  ASSUME TypeOK, NEW S, Touched(S), NEW j \in Jobs
  PROVE  /\ faults'[j] >= faults[j]
         /\ j \in S => faults'[j] = faults[j] + 1
         /\ j \notin S => faults'[j] = faults[j]
BY DEF TypeOK, Touched

(* What is known of the job in hand, in numbers. *)
LEMMA InHand ==
  ASSUME NEW l \in Loops, TypeOK, Bounded(l), pc[l] \notin Idle
  PROVE  /\ job[l] \in Jobs
         /\ {written[job[l]], faults[job[l]]} \subseteq Nat
         /\ written[job[l]] + Debt(pc[l], aborted[l])
              <= faults[job[l]] + Free(pc[l], cause[l], ledger[job[l]])
<1>1. job[l] \in Jobs
  BY DEF TypeOK
<1>2. {written[job[l]], faults[job[l]]} \subseteq Nat
  BY <1>1 DEF TypeOK
<1>3. QED
  BY <1>1, <1>2 DEF Bounded, HandBounded

(* The route and the look at the ledger: what is on paper and in the       *)
(* ledger is not printed again.                                            *)
LEMMA BoundedDispatch ==
  ASSUME NEW l \in Loops, TypeOK, TypeOK', Bounded(l),
         Route(l) \/ AssertPayload(l) \/ AssertUnread(l)
  PROVE  Bounded(l)'
<1> DEFINE j == job[l]
<1> USE DEF Before, Unbooked, Prepares, Stoppable, Idle
<1>1. /\ pc[l] \in {"route", "assert"} /\ snap[l] = NoSnapshot
      /\ UNCHANGED <<ledger, snap, written>>
  BY DEF Route, AssertPayload, AssertUnread, TypeOK, RecordSteps, observed, bons
<1>2. /\ j \in Jobs /\ {written[j], faults[j]} \subseteq Nat
      /\ written[j] + (IF aborted[l] THEN 1 ELSE 0) <= faults[j] + Known(ledger[j])
  BY <1>1, InHand DEF Debt, Free
<1>3. \A i \in Jobs : faults'[i] >= faults[i]
  BY TouchedGrows DEF Route, AssertPayload, AssertUnread, observed, TypeOK
<1>4. ASSUME NEW s, NEW c, Goto(l, s, c),
             written[j] + Debt(s, aborted[l]) <= faults'[j] + Free(s, c, ledger[j])
      PROVE  Bounded(l)'
  BY <1>1, <1>2, <1>3, <1>4, BoundedGoto
<1>5. Known(ledger[j]) \in {0, 1}
  BY FreeTyped
<1>6. CASE Route(l)
  <2>1. faults' = faults
    BY <1>6 DEF Route, observed
  <2>2. Requested(l, "fail_unconfigured") \in Idle \cup {"fail_unconfigured"}
    BY DEF Requested, ThrownAt, Return
  <2>3. PICK s \in Idle \cup {"assert", "fail_unconfigured"} : Goto(l, s, "none")
    BY <1>6, <2>2, Targets DEF Route
  <2>4. written[j] + Debt(s, aborted[l]) <= faults[j] + Free(s, "none", ledger[j])
    BY <1>2, <1>5 DEF Debt, Free
  <2>5. QED
    BY <1>4, <2>1, <2>3, <2>4
<1>7. CASE AssertPayload(l)
  <2>1. faults' = faults /\ Goto(l, Dispatch(l, ledger[j]), "other")
    BY <1>7 DEF AssertPayload
  <2>2. CASE Mismatched(l, ledger[j])
    <3>1. Dispatch(l, ledger[j]) \in Idle \cup {"fail_mismatch"}
      BY <2>2, Targets DEF Dispatch
    <3>2. QED
      BY <1>2, <1>4, <1>5, <2>1, <3>1 DEF Debt, Free
  <2>3. CASE ~Mismatched(l, ledger[j]) /\ ~Settled(ledger[j])
    <3>1. Dispatch(l, ledger[j]) = "rec_received" /\ Known(ledger[j]) = 0
      BY <2>3 DEF Dispatch, Known
    <3>2. QED
      BY <1>2, <1>4, <2>1, <3>1 DEF Debt, Free
  <2>4. CASE ~Mismatched(l, ledger[j]) /\ Settled(ledger[j])
    <3>1. /\ Known(ledger[j]) = 1
          /\ \/ Dispatch(l, ledger[j]) \in Idle
             \/ aborted[l] /\ Dispatch(l, ledger[j]) = "rec_ack_pending"
             \/ ~aborted[l] /\ Dispatch(l, ledger[j]) = "ack"
      BY <2>4, Targets DEF Dispatch, Known, Requested
    <3>2. QED
      BY <1>2, <1>4, <2>1, <3>1 DEF Debt, Free
  <2>5. QED
    BY <2>2, <2>3, <2>4
<1>8. CASE AssertUnread(l)
  <2>1. faults'[j] = faults[j] + 1 /\ Goto(l, "rec_received", "none")
    BY <1>2, <1>8, TouchedGrows DEF AssertUnread
  <2>2. QED
    BY <1>2, <1>4, <1>5, <2>1 DEF Debt, Free
<1>9. QED
  BY <1>6, <1>7, <1>8

(* The printer: a bon is free once, and costs a disturbance afterwards. *)
LEMMA BoundedPrint ==
  ASSUME NEW l \in Loops, TypeOK, TypeOK', Bounded(l),
         \/ PrintSucceeds(l) \/ PrinterOffline(l) \/ PrintPartial(l)
         \/ PrinterRefuses(l) \/ PrintCanceled(l)
  PROVE  Bounded(l)'
<1> DEFINE j == job[l]
<1> USE DEF Before, Unbooked, Prepares, Stoppable, Idle
<1>1. /\ pc[l] = "print" /\ snap[l] = NoSnapshot /\ UNCHANGED <<ledger, snap>>
  BY DEF PrintSucceeds, PrinterOffline, PrintPartial, PrinterRefuses, PrintCanceled,
         TypeOK, RecordSteps
<1>2. /\ j \in Jobs /\ {written[j], faults[j]} \subseteq Nat
      /\ written[j] + (IF aborted[l] THEN 1 ELSE 0) <= faults[j]
  BY <1>1, InHand DEF Debt, Free
<1>3. \A i \in Jobs : faults'[i] >= faults[i]
  BY TouchedGrows DEF PrintSucceeds, PrinterOffline, PrintPartial, PrinterRefuses,
                      PrintCanceled, observed, TypeOK
<1>4. \A i \in Jobs : i # j => written'[i] = written[i]
  BY <1>2 DEF PrintSucceeds, PrinterOffline, PrintPartial, PrinterRefuses, PrintCanceled,
              Write, bons, observed, TypeOK
<1>5. ASSUME NEW s, NEW c, Goto(l, s, c),
             written'[j] + Debt(s, aborted[l]) <= faults'[j] + Free(s, c, ledger[j])
      PROVE  Bounded(l)'
  BY <1>1, <1>3, <1>4, <1>5, BoundedGoto
<1>6. CASE PrintSucceeds(l)
  <2>1. /\ ~aborted[l] /\ written'[j] = written[j] + 1 /\ faults' = faults
        /\ Goto(l, "rec_printed", "none")
    BY <1>2, <1>6 DEF PrintSucceeds, Write, TypeOK
  <2>2. QED
    BY <1>2, <1>5, <2>1 DEF Debt, Free
<1>7. CASE PrinterOffline(l)
  <2>1. written' = written /\ faults' = faults /\ Goto(l, "rec_retry", "none")
    BY <1>7 DEF PrinterOffline, observed
  <2>2. QED
    BY <1>2, <1>5, <2>1 DEF Debt, Free
<1>8. CASE PrintPartial(l)
  <2>1. /\ written'[j] = written[j] + 1 /\ faults'[j] = faults[j] + 1
        /\ Goto(l, "rec_retry", "none")
    BY <1>2, <1>8, TouchedGrows DEF PrintPartial, Write, TypeOK
  <2>2. QED
    BY <1>2, <1>5, <2>1 DEF Debt, Free
<1>9. CASE PrinterRefuses(l)
  <2>1. written' = written /\ faults' = faults
    BY <1>9 DEF PrinterRefuses, bons
  <2>2. PICK s \in Unbooked \cup Idle, c \in {"none", "other"} : Goto(l, s, c)
    BY <1>1, <1>9, Targets DEF PrinterRefuses, Throw
  <2>3. Free(s, c, ledger[j]) \in {0, 1} /\ Debt(s, aborted[l]) = 0
    BY FreeTyped DEF Debt
  <2>4. QED
    BY <1>2, <1>5, <2>1, <2>2, <2>3
<1>10. CASE PrintCanceled(l)
  <2>1. /\ aborted[l] /\ written'[j] \in {written[j], written[j] + 1} /\ faults' = faults
        /\ Goto(l, "rec_refused", "none")
    BY <1>2, <1>10 DEF PrintCanceled, Write, bons, TypeOK
  <2>2. QED
    BY <1>2, <1>5, <2>1 DEF Debt, Free
<1>11. QED
  BY <1>6, <1>7, <1>8, <1>9, <1>10

(* The ledger: an entry about a bon is written before it is relied on, and *)
(* one that is lost, or not written, is paid for.                          *)
LEMMA BoundedRead ==
  ASSUME NEW l \in Loops, TypeOK, TypeOK', Intent(l), Bounded(l),
         RecordRead(l) \/ RecordUnread(l) \/ RecordUnwritten(l)
  PROVE  Bounded(l)'
<1> DEFINE j == job[l]
<1>1. /\ pc[l] \in RecordSteps /\ pc[l] \notin Idle /\ UNCHANGED <<ledger, written>>
  BY DEF RecordRead, RecordUnread, RecordUnwritten, TypeOK, RecordSteps, Idle, bons
<1>2. /\ j \in Jobs /\ {written[j], faults[j]} \subseteq Nat
      /\ written[j] + Debt(pc[l], aborted[l]) <= faults[j] + Free(pc[l], cause[l], ledger[j])
  BY <1>1, InHand
<1>3. /\ Debt(pc[l], aborted[l]) \in {0, 1}
      /\ \A c, entry : Free(pc[l], c, entry) \in {0, 1}
  BY FreeTyped
<1>4. \A i \in Jobs : faults'[i] >= faults[i]
  BY TouchedGrows DEF RecordRead, RecordUnread, RecordUnwritten, TypeOK
<1>5. ASSUME NEW s, NEW c, Goto(l, s, c), snap'[l] = NoSnapshot, s \notin Stoppable,
             written[j] <= faults'[j]
      PROVE  Bounded(l)'
  <2>1. Debt(s, aborted[l]) = 0 /\ Free(s, c, ledger[j]) \in {0, 1} /\ faults'[j] \in Nat
    BY <1>2, <1>5, FreeTyped DEF TypeOK
  <2>2. written'[j] + Debt(s, aborted[l]) <= faults'[j] + Free(s, c, ledger[j])
    BY <1>1, <1>2, <1>5, <2>1
  <2>3. QED
    BY <1>1, <1>4, <1>5, <2>2, BoundedGoto
<1>6. CASE RecordRead(l) /\ Mismatched(l, ledger[j])
  <2>1. pc[l] \notin AfterPrint
    BY <1>6 DEF Intent, Mismatched
  <2>2. /\ Free(pc[l], cause[l], ledger[j]) = 0
        /\ pc[l] \notin {"ack", "rec_succeeded"}
    BY <1>1, <2>1 DEF Free, Before, Unbooked, AfterPrint, RecordSteps
  <2>3. written[j] <= faults[j] /\ faults' = faults /\ snap'[l] = NoSnapshot
    BY <1>2, <1>3, <1>6, <2>2 DEF RecordRead
  <2>4. PICK s \in Idle \cup {"fail_mismatch"} : Goto(l, s, "mismatch")
    BY <1>6, <2>2, Targets DEF RecordRead, Throw
  <2>5. s \notin Stoppable
    BY DEF Stoppable, Prepares, Before, Idle
  <2>6. QED
    BY <1>5, <2>3, <2>4, <2>5
<1>7. CASE RecordRead(l) /\ ~Mismatched(l, ledger[j])
  <2>1. /\ UNCHANGED <<pc, job, aborted, cause, faults>>
        /\ snap[l] = NoSnapshot /\ snap'[l] = ledger
    BY <1>7 DEF RecordRead, TypeOK
  <2>2. View(l) = ledger /\ View(l)' = ledger
    BY <1>1, <2>1 DEF View
  <2>3. QED
    BY <1>1, <2>1, <2>2 DEF Bounded, HandBounded, RestBounded
<1>8. CASE RecordUnread(l)
  <2>1. /\ UNCHANGED <<pc, job, aborted, cause>>
        /\ snap[l] = NoSnapshot /\ snap'[l] = EmptyLedger
        /\ \A i \in Jobs : faults'[i] = faults[i] + 1
    BY <1>8, TouchedGrows DEF RecordUnread, TypeOK
  <2>2. HandBounded(l)'
    BY <1>1, <1>2, <1>3, <2>1 DEF Bounded, HandBounded
  <2>3. ASSUME NEW i \in Jobs, i # j
        PROVE  written'[i] <= faults'[i] + Known(EmptyLedger[i])
    <3>1. written[i] <= faults[i] + Known(ledger[i])
      BY <1>1, <2>3, OthersBounded
    <3>2. /\ Known(ledger[i]) \in {0, 1} /\ Known(EmptyLedger[i]) \in {0, 1}
          /\ {written[i], faults[i]} \subseteq Nat
      BY FreeTyped DEF TypeOK
    <3>3. QED
      BY <1>1, <2>1, <3>1, <3>2
  <2>4. RestBounded(l)'
    <3>1. View(l)' = EmptyLedger
      <4>1. EmptyLedger \in Ledgers
        BY DEF EmptyLedger, Ledgers
      <4>2. EmptyLedger # NoSnapshot
        BY <4>1, NullsAssumption DEF Ledgers
      <4>3. EmptyLedger' = EmptyLedger
        BY DEF EmptyLedger
      <4>4. QED
        BY <2>1, <4>2, <4>3 DEF View
    <3>2. QED
      BY <1>1, <2>1, <2>3, <3>1 DEF RestBounded
  <2>5. QED
    BY <2>1, <2>2, <2>4 DEF Bounded, EmptyLedger
<1>9. CASE RecordUnwritten(l)
  <2>1. faults'[j] = faults[j] + 1 /\ snap'[l] = NoSnapshot
    BY <1>2, <1>9, TouchedGrows DEF RecordUnwritten, TypeOK
  <2>2. PICK s \in Idle \cup {"rec_ack_pending", "rec_ambiguous", "rec_terminal"} :
          Goto(l, s, "other")
    BY <1>9, Targets DEF RecordUnwritten, Throw
  <2>3. s \notin Stoppable
    BY DEF Stoppable, Prepares, Before, Idle
  <2>4. written[j] <= faults'[j]
    BY <1>2, <1>3, <2>1
  <2>5. QED
    BY <1>5, <2>1, <2>2, <2>3, <2>4
<1>10. QED
  BY <1>6, <1>7, <1>8, <1>9

(* A record that got into the ledger is one write, spent on its order. *)
LEMMA BoundedRecorded ==
  ASSUME NEW l \in Loops, TypeOK, TypeOK', Bounded(l), RecordWrite(l)
  PROVE  Bounded(l)'
<1> DEFINE j == job[l]
           s == AfterRecord(l)
<1>1. /\ snap[l] # NoSnapshot /\ snap'[l] = NoSnapshot /\ ledger' = Recorded(l)
      /\ UNCHANGED <<written, faults>> /\ Goto(l, s, "other")
  BY DEF RecordWrite, bons, TypeOK
<1>2. pc[l] \in RecordSteps /\ pc[l] \notin Idle
  BY <1>1 DEF TypeOK, RecordSteps, Idle
<1>3. /\ j \in Jobs /\ {written[j], faults[j]} \subseteq Nat
      /\ written[j] + Debt(pc[l], aborted[l]) <= faults[j] + Free(pc[l], cause[l], ledger[j])
  BY <1>2, InHand
<1>4. ASSUME NEW i \in Jobs, i # j
      PROVE  written'[i] <= faults'[i] + Known(ledger'[i])
  <2>1. written[i] <= faults[i] + Known(View(l)[i])
    BY <1>4 DEF Bounded, RestBounded
  <2>2. View(l)[i] = ledger'[i]
    BY <1>1, <1>4, RecordedEntry DEF View
  <2>3. QED
    BY <1>1, <2>1, <2>2
<1>5. /\ Debt(pc[l], aborted[l]) \in {0, 1}
      /\ Free(s, "other", ledger'[j]) \in {0, 1}
  BY FreeTyped
<1>6. pc[l] \in {"rec_printed", "rec_succeeded", "rec_ack_pending"} => Known(ledger'[j]) = 1
  <2>1. ledger'[j] # NoEntry /\ ledger'[j].state = RecordedState[pc[l]]
    BY <1>1, RecordedEntry
  <2>2. QED
    BY <2>1 DEF Known, Settled, RecordedState
<1>7. written[j] + Debt(s, aborted[l]) <= faults[j] + Free(s, "other", ledger'[j])
  <2> USE DEF Before, Unbooked, Prepares, Stoppable, Idle
  <2>1. CASE pc[l] = "rec_received"
    BY <1>3, <1>5, <2>1 DEF AfterRecord, Debt, Free
  <2>2. CASE pc[l] = "rec_in_flight"
    <3>1. /\ s \in {"print", "rec_refused", "rec_ambiguous", "rec_terminal"}
          /\ Free(pc[l], cause[l], ledger[j]) = 0
      BY <2>2, Targets DEF AfterRecord, Free
    <3>2. Debt(s, aborted[l]) <= Debt(pc[l], aborted[l])
      BY <2>2, <3>1 DEF Debt
    <3>3. QED
      BY <1>3, <1>5, <3>1, <3>2, FreeTyped
  <2>3. CASE pc[l] = "rec_printed"
    <3>1. \/ ~aborted[l] /\ s = "ack"
          \/ aborted[l] /\ s = "rec_ack_pending"
      BY <2>3, Targets DEF AfterRecord, Requested
    <3>2. QED
      BY <1>3, <2>3, <3>1 DEF Debt, Free
  <2>4. CASE pc[l] = "rec_succeeded"
    <3>1. s \in Idle
      BY <2>4, Targets DEF AfterRecord
    <3>2. Free(s, "other", ledger'[j]) = 1 /\ Debt(s, aborted[l]) = 0
      BY <1>6, <2>4, <3>1 DEF Free, Debt
    <3>3. QED
      BY <1>3, <1>5, <2>4, <3>2 DEF Free
  <2>5. CASE pc[l] = "rec_ack_pending"
    <3>1. /\ s \in Idle \cup {"fail_mismatch", "rec_ambiguous", "rec_terminal"}
          /\ cause[l] = "ack_unavailable" => s \in Idle
      BY <2>5, Targets DEF AfterRecord, Catch
    <3>2. /\ s \in Idle => Free(s, "other", ledger'[j]) = 1
          /\ Debt(s, aborted[l]) = 0
      BY <1>6, <2>5, <3>1 DEF Free, Debt
    <3>3. cause[l] # "ack_unavailable" => Free(pc[l], cause[l], ledger[j]) = 0
      BY <2>5 DEF Free
    <3>4. Free(pc[l], cause[l], ledger[j]) \in {0, 1}
      BY FreeTyped
    <3>5. QED
      BY <1>3, <1>5, <3>1, <3>2, <3>3, <3>4
  <2>6. CASE pc[l] \in {"rec_retry", "rec_refused", "rec_ambiguous", "rec_terminal"}
    <3>1. s \notin Stoppable
      BY <2>6, Targets DEF AfterRecord, Requested
    <3>2. Debt(s, aborted[l]) = 0 /\ Free(pc[l], cause[l], ledger[j]) = 0
      BY <2>6, <3>1 DEF Debt, Free
    <3>3. QED
      BY <1>3, <1>5, <3>2
  <2>7. QED
    BY <1>2, <2>1, <2>2, <2>3, <2>4, <2>5, <2>6 DEF RecordSteps
<1>8. QED
  BY <1>1, <1>2, <1>4, <1>7, BoundedMoves

(* The requests: an acknowledgement that is lost costs a disturbance, and  *)
(* one that is answered with ACK_UNAVAILABLE is kept in the ledger.        *)
LEMMA BoundedRequest ==
  ASSUME NEW l \in Loops, TypeOK, TypeOK', Bounded(l),
         AckAccepted(l) \/ AckRejected(l) \/ AckUnavailable(l) \/ FailAccepted(l) \/ FailRejected(l)
  PROVE  Bounded(l)'
<1> DEFINE j == job[l]
<1> USE DEF Before, Unbooked, Prepares, Stoppable, Idle
<1>1. /\ pc[l] \in {"ack"} \cup FailSteps /\ pc[l] \notin Idle /\ snap[l] = NoSnapshot
      /\ UNCHANGED <<ledger, snap, written>>
  BY DEF AckAccepted, AckRejected, AckUnavailable, FailAccepted, FailRejected, TypeOK,
         RecordSteps, FailSteps, bons, observed
<1>2. /\ j \in Jobs /\ {written[j], faults[j]} \subseteq Nat
      /\ written[j] + Debt(pc[l], aborted[l]) <= faults[j] + Free(pc[l], cause[l], ledger[j])
  BY <1>1, InHand
<1>3. \A i \in Jobs : faults'[i] >= faults[i]
  BY TouchedGrows DEF AckAccepted, AckRejected, AckUnavailable, FailAccepted, FailRejected,
                      TypeOK, observed
<1>4. ASSUME NEW s, NEW c, Goto(l, s, c),
             written[j] + Debt(s, aborted[l]) <= faults'[j] + Free(s, c, ledger[j])
      PROVE  Bounded(l)'
  BY <1>1, <1>3, <1>4, BoundedGoto
<1>5. CASE AckAccepted(l)
  <2>1. /\ pc[l] = "ack" /\ ~aborted[l] /\ faults' = faults
        /\ Goto(l, "rec_succeeded", "none")
    BY <1>5 DEF AckAccepted
  <2>2. QED
    BY <1>2, <1>4, <2>1 DEF Debt, Free
<1>6. CASE AckRejected(l)
  <2>1. pc[l] = "ack" /\ Goto(l, "rec_ack_pending", "other")
    BY <1>6 DEF AckRejected, Throw, ThrownAt
  <2>2. faults'[j] = IF aborted[l] THEN faults[j] ELSE faults[j] + 1
    BY <1>2, <1>6, TouchedGrows DEF AckRejected
  <2>3. QED
    BY <1>2, <1>4, <2>1, <2>2 DEF Debt, Free
<1>7. CASE AckUnavailable(l)
  <2>1. /\ pc[l] = "ack" /\ ~aborted[l] /\ faults' = faults
        /\ Goto(l, "rec_ack_pending", "ack_unavailable")
    BY <1>7 DEF AckUnavailable, Throw, ThrownAt, observed
  <2>2. QED
    BY <1>2, <1>4, <2>1 DEF Debt, Free
<1>8. CASE FailAccepted(l) \/ FailRejected(l)
  <2>1. pc[l] \in FailSteps /\ faults' = faults
    BY <1>8 DEF FailAccepted, FailRejected
  <2>2. PICK s \in Idle \cup {"rec_ambiguous", "rec_terminal"}, c \in {"none", "other"} :
          /\ Goto(l, s, c)
          /\ pc[l] \in {"fail_unconfigured", "fail_mismatch"} => s \in Idle
    BY <1>8, <2>1, Targets DEF FailAccepted, FailRejected, Throw, ThrownAt, FailSteps
  <2>3. /\ Debt(s, aborted[l]) = 0 /\ Debt(pc[l], aborted[l]) = 0
        /\ Free(s, c, ledger[j]) \in {0, 1}
    BY <2>1, FreeTyped DEF FailSteps
  <2>4. /\ pc[l] \in {"fail_unconfigured", "fail_mismatch"} =>
             Free(s, c, ledger[j]) = Free(pc[l], cause[l], ledger[j])
        /\ pc[l] \notin {"fail_unconfigured", "fail_mismatch"} =>
             Free(pc[l], cause[l], ledger[j]) = 0
    BY <2>1, <2>2 DEF Free, FailSteps
  <2>5. QED
    BY <1>2, <1>4, <2>1, <2>2, <2>3, <2>4
<1>9. QED
  BY <1>5, <1>6, <1>7, <1>8

(* A loop between two hand-offs has a live signal. *)
Calm(l) == pc[l] \in Idle => ~aborted[l]

(* Every step leaves the signal of an idle loop live. *)
LEMMA CalmStep ==
  ASSUME NEW l, Loops = {l}, TypeOK, Calm(l), [Next]_vars
  PROVE  Calm(l)'
<1>1. \A s, c : Goto(l, s, c) /\ (s = "poll" => ~aborted[l]) => Calm(l)'
  BY GotoHere DEF Calm, Idle
<1>2. /\ Return(l) = "poll" => ~aborted[l]
      /\ FailMismatch(l) = "poll" => ~aborted[l]
  BY DEF Return, FailMismatch
<1>3. \A c : Catch(l, c) = "poll" => ~aborted[l]
  BY <1>2 DEF Catch
<1>4. \A s, c : ThrownAt(l, s, c) = "poll" => ~aborted[l]
  BY <1>2, <1>3 DEF ThrownAt
<1>5. \A s : s # "poll" => (Requested(l, s) = "poll" => ~aborted[l])
  BY <1>4 DEF Requested
<1>6. CASE StartLoop(l) \/ Abort(l)
  <2>1. CASE StartLoop(l)
    BY <1>1, <2>1 DEF StartLoop, Calm, Idle
  <2>2. CASE Abort(l) /\ pc[l] = "poll"
    BY <1>1, <2>2 DEF Abort
  <2>3. CASE Abort(l) /\ pc[l] # "poll"
    BY <2>3 DEF Abort, Calm, Idle
  <2>4. QED
    BY <1>6, <2>1, <2>2, <2>3
<1>7. CASE \E j \in Jobs : NextJob(l, j)
  BY <1>7 DEF NextJob, Calm, TypeOK, Idle
<1>8. CASE Crash
  BY <1>8 DEF Crash, Calm
<1>9. CASE Route(l) \/ AssertPayload(l) \/ AssertUnread(l)
  <2>1. Dispatch(l, ledger[job[l]]) = "poll" => ~aborted[l]
    BY <1>2, <1>5 DEF Dispatch
  <2>2. QED
    BY <1>1, <1>2, <1>5, <1>9, <2>1 DEF Route, AssertPayload, AssertUnread
<1>10. CASE RecordRead(l) \/ RecordUnread(l) \/ RecordWrite(l) \/ RecordUnwritten(l)
  <2>1. AfterRecord(l) = "poll" => ~aborted[l]
    BY <1>2, <1>3, <1>5 DEF AfterRecord
  <2>2. CASE UNCHANGED <<pc, aborted>>
    BY <2>2 DEF Calm
  <2>3. CASE ~UNCHANGED <<pc, aborted>>
    BY <1>1, <1>4, <1>10, <2>1, <2>3
       DEF RecordRead, RecordUnread, RecordWrite, RecordUnwritten, Throw
  <2>4. QED
    BY <2>2, <2>3
<1>11. CASE \/ PrintSucceeds(l) \/ PrinterOffline(l) \/ PrintPartial(l)
            \/ PrinterRefuses(l) \/ PrintCanceled(l)
  BY <1>1, <1>4, <1>11
     DEF PrintSucceeds, PrinterOffline, PrintPartial, PrinterRefuses, PrintCanceled, Throw
<1>12. CASE \/ AckAccepted(l) \/ AckRejected(l) \/ AckUnavailable(l)
            \/ FailAccepted(l) \/ FailRejected(l)
  BY <1>1, <1>2, <1>4, <1>12
     DEF AckAccepted, AckRejected, AckUnavailable, FailAccepted, FailRejected, Throw
<1>13. CASE \/ PollTimesOut(l) \/ UNCHANGED vars
            \/ \E j \in Jobs : LeaseExpires(j) \/ ContentChanges(j) \/ Replay(j)
  BY <1>13 DEF PollTimesOut, LeaseExpires, ContentChanges, Replay, vars, local, Calm
<1>14. QED
  BY <1>6, <1>7, <1>8, <1>9, <1>10, <1>11, <1>12, <1>13 DEF Next, LoopStep

(* The life of the loop: a crash or an abort costs the job in hand one. *)
LEMMA BoundedLife ==
  ASSUME NEW l, Loops = {l}, TypeOK, TypeOK', Bounded(l), Calm(l),
         StartLoop(l) \/ Abort(l) \/ (\E j \in Jobs : NextJob(l, j)) \/ Crash
  PROVE  Bounded(l)'
<1> USE DEF Idle
<1>1. /\ l \in Loops /\ UNCHANGED <<ledger, written>> /\ View(l)' \in {ledger, View(l)}
  BY DEF StartLoop, Abort, NextJob, Crash, bons, observed, View, TypeOK
<1>2. \A i \in Jobs : {written[i], faults[i], faults'[i]} \subseteq Nat
  BY DEF TypeOK
<1>3. pc[l] \in Idle => View(l) = ledger
  BY <1>1 DEF View, TypeOK, RecordSteps
<1>4. CASE StartLoop(l) \/ (Abort(l) /\ pc[l] = "poll")
  <2>1. /\ pc[l] \in Idle /\ pc'[l] \in Idle /\ snap' = snap /\ snap[l] = NoSnapshot
        /\ \A i \in Jobs : faults'[i] >= faults[i]
    BY <1>1, <1>4, GotoHere, TouchedGrows DEF StartLoop, Abort, observed, TypeOK, RecordSteps
  <2>2. \A i \in Jobs : Known(ledger[i]) \in {0, 1}
    BY FreeTyped
  <2>3. View(l)' = ledger
    BY <1>1, <2>1 DEF View
  <2>4. \A i \in Jobs : written[i] <= faults'[i] + Known(ledger[i])
    BY <1>2, <1>3, <2>1, <2>2 DEF Bounded, RestBounded
  <2>5. QED
    BY <1>1, <2>1, <2>3, <2>4 DEF Bounded, HandBounded, RestBounded
<1>5. CASE Abort(l) /\ pc[l] # "poll"
  <2>1. /\ UNCHANGED <<pc, job, cause, snap>> /\ pc[l] \notin Idle
        /\ faults'[job[l]] = faults[job[l]] + 1
        /\ \A i \in Jobs : faults'[i] >= faults[i]
    BY <1>1, <1>5, TouchedGrows DEF Abort, TypeOK
  <2>2. /\ written[job[l]] + Debt(pc[l], aborted[l])
             <= faults[job[l]] + Free(pc[l], cause[l], ledger[job[l]])
        /\ job[l] \in Jobs
    BY <1>1, <2>1, InHand
  <2>3. /\ Debt(pc[l], aborted[l]) \in {0, 1} /\ Debt(pc[l], aborted'[l]) \in {0, 1}
        /\ Free(pc[l], cause[l], ledger[job[l]]) \in {0, 1}
        /\ \A i \in Jobs : Known(View(l)[i]) \in {0, 1}
    BY FreeTyped
  <2>4. HandBounded(l)'
    BY <1>1, <1>2, <2>1, <2>2, <2>3 DEF HandBounded
  <2>5. RestBounded(l)'
    BY <1>1, <1>2, <2>1, <2>3 DEF Bounded, RestBounded, View
  <2>6. QED
    BY <1>1, <2>1, <2>4, <2>5 DEF Bounded
<1>6. CASE \E j \in Jobs : NextJob(l, j)
  <2>1. PICK j \in Jobs : NextJob(l, j)
    BY <1>6
  <2>2. /\ pc[l] = "poll" /\ pc'[l] = "route" /\ job'[l] = j /\ ~aborted[l]
        /\ UNCHANGED <<aborted, cause, snap, faults>> /\ snap[l] = NoSnapshot
    BY <1>1, <2>1 DEF NextJob, TypeOK, Calm, observed, RecordSteps
  <2>3. \A i \in Jobs : written[i] <= faults[i] + Known(ledger[i])
    BY <1>3, <2>2 DEF Bounded, RestBounded
  <2>4. \A c : Free("route", c, ledger[j]) = Known(ledger[j])
    BY DEF Free, Before, Unbooked
  <2>5. HandBounded(l)'
    <3>1. Debt(pc'[l], aborted'[l]) = 0
      BY <2>2 DEF Debt
    <3>2. Free(pc'[l], cause'[l], ledger'[job'[l]]) = Known(ledger[j])
      BY <1>1, <2>2, <2>4
    <3>3. Known(ledger[j]) \in {0, 1} /\ written'[j] <= faults'[j] + Known(ledger[j])
      BY <1>1, <2>2, <2>3, FreeTyped
    <3>4. QED
      BY <1>1, <1>2, <2>2, <3>1, <3>2, <3>3 DEF HandBounded
  <2>6. View(l)' = ledger
    BY <1>1, <2>2 DEF View
  <2>7. QED
    BY <1>1, <2>2, <2>3, <2>5, <2>6 DEF Bounded, RestBounded
<1>7. CASE Crash
  <2>1. /\ pc'[l] = "off" /\ snap'[l] = NoSnapshot
        /\ \A i \in Jobs : faults'[i] >= faults[i]
        /\ job[l] \in Jobs => faults'[job[l]] = faults[job[l]] + 1
    BY <1>1, <1>7, TouchedGrows DEF Crash
  <2>2. ASSUME NEW i \in Jobs
        PROVE  written[i] <= faults'[i] + Known(ledger[i])
    <3>1. Known(ledger[i]) \in {0, 1}
      BY FreeTyped
    <3>2. CASE pc[l] \in Idle \/ job[l] # i
      <4>1. written[i] <= faults[i] + Known(ledger[i])
        BY <1>1, <1>3, <3>2, OthersBounded DEF Bounded, RestBounded
      <4>2. QED
        BY <1>2, <2>1, <3>1, <4>1
    <3>3. CASE pc[l] \notin Idle /\ job[l] = i
      <4>1. written[i] + Debt(pc[l], aborted[l]) <= faults[i] + Free(pc[l], cause[l], ledger[i])
        BY <1>1, <3>3, InHand
      <4>2. Debt(pc[l], aborted[l]) \in {0, 1} /\ Free(pc[l], cause[l], ledger[i]) \in {0, 1}
        BY FreeTyped
      <4>3. QED
        BY <1>2, <2>1, <3>1, <3>3, <4>1, <4>2
    <3>4. QED
      BY <3>2, <3>3
  <2>3. View(l)' = ledger
    BY <1>1, <2>1 DEF View
  <2>4. QED
    BY <1>1, <2>1, <2>2, <2>3 DEF Bounded, HandBounded, RestBounded
<1>8. QED
  BY <1>4, <1>5, <1>6, <1>7

(* Every step keeps the bound. *)
LEMMA BoundedStep ==
  ASSUME NEW l, Loops = {l}, TypeOK, TypeOK', Intent(l), Bounded(l), Calm(l), [Next]_vars
  PROVE  Bounded(l)'
<1>1. l \in Loops
  OBVIOUS
<1>2. CASE StartLoop(l) \/ Abort(l) \/ (\E j \in Jobs : NextJob(l, j)) \/ Crash
  BY <1>2, BoundedLife
<1>3. CASE LoopStep(l)
  BY <1>1, <1>3, BoundedDispatch, BoundedRead, BoundedRecorded, BoundedPrint, BoundedRequest
     DEF LoopStep
<1>4. CASE \/ PollTimesOut(l) \/ UNCHANGED vars
           \/ \E j \in Jobs : LeaseExpires(j) \/ ContentChanges(j) \/ Replay(j)
  <2>1. UNCHANGED <<ledger, pc, job, aborted, cause, snap, written, faults>>
    BY <1>4 DEF PollTimesOut, LeaseExpires, ContentChanges, Replay, vars, local, observed
  <2>2. \A j \in Jobs : faults'[j] >= faults[j]
    BY <2>1 DEF TypeOK
  <2>3. QED
    BY <1>1, <2>1, <2>2, BoundedStays
<1>5. QED
  BY <1>2, <1>3, <1>4 DEF Next

(* Before the first step nothing was written. *)
LEMMA BoundedInit ==
  ASSUME NEW l, Loops = {l}, Init
  PROVE  Intent(l) /\ Bounded(l) /\ Calm(l)
<1>1. /\ pc[l] = "off" /\ ~aborted[l] /\ snap[l] = NoSnapshot /\ ledger = EmptyLedger
      /\ \A j \in Jobs : written[j] = 0 /\ faults[j] = 0
  BY DEF Init
<1>2. \A j \in Jobs : Known(ledger[j]) \in {0, 1}
  BY FreeTyped
<1>3. QED
  BY <1>1, <1>2 DEF Intent, AfterPrint, Calm, Bounded, HandBounded, RestBounded, View, Idle

(* What is on paper beyond one bon is paid for by a disturbance of that    *)
(* job: a crash, an abort, a lost acknowledgement, a write that failed     *)
(* half way or a ledger that could not be read or written.                 *)
THEOREM BonsBoundedHolds == ASSUME NEW l, Loops = {l} PROVE Spec => []BonsBounded
<1> DEFINE Inv == Intent(l) /\ Bounded(l) /\ Calm(l)
<1>1. Init => Inv
  BY BoundedInit
<1>2. TypeOK /\ TypeOK' /\ Inv /\ [Next]_vars => Inv'
  BY IntentStep, BoundedStep, CalmStep
<1>3. ASSUME TypeOK, Inv, NEW j \in Jobs
      PROVE  written[j] <= 1 + faults[j]
  <2>1. {written[j], faults[j]} \subseteq Nat /\ Known(View(l)[j]) \in {0, 1}
    BY <1>3, FreeTyped DEF TypeOK
  <2>2. CASE pc[l] \in Idle \/ job[l] # j
    BY <1>3, <2>1, <2>2 DEF Bounded, RestBounded
  <2>3. CASE pc[l] \notin Idle /\ job[l] = j
    <3>1. Debt(pc[l], aborted[l]) \in {0, 1} /\ Free(pc[l], cause[l], ledger[j]) \in {0, 1}
      BY FreeTyped
    <3>2. QED
      BY <1>3, <2>1, <2>3, <3>1 DEF Bounded, HandBounded
  <2>4. QED
    BY <2>2, <2>3
<1>4. TypeOK /\ Inv => BonsBounded
  BY <1>3 DEF BonsBounded
<1>5. QED
  BY <1>1, <1>2, <1>4, TypeCorrect, PTL DEF Spec
-----------------------------------------------------------------------------
(* A job that was reported as failed is not handed over again, and an      *)
(* order whose content is refused was found unprintable.                   *)
Reported(l) ==
  /\ pc[l] \in Prepares => queue[job[l]] # "failed"
  /\ pc[l] = "fail_mismatch" => refused[job[l]]
  /\ pc[l] = "rec_ack_pending" => cause[l] # "mismatch"

(* A loop that goes to another step says no more about its order than it   *)
(* found out.                                                              *)
LEMMA ReportedMoves ==
  ASSUME NEW l \in Loops, TypeOK, Reported(l), NEW s, NEW c, Goto(l, s, c),
         s \in Prepares => pc[l] \in Prepares /\ queue' = queue,
         s = "fail_mismatch" => refused'[job[l]],
         s = "rec_ack_pending" => c # "mismatch"
  PROVE  Reported(l)'
<1>1. s \in Prepares \cup {"fail_mismatch"} => s \notin Idle
  BY DEF Prepares, Before, Idle
<1>2. QED
  BY <1>1, GotoHere DEF Reported

(* Every step keeps Reported, one case per action. *)
LEMMA ReportedStep ==
  ASSUME NEW l, Loops = {l}, TypeOK, Intent(l), Reported(l), [Next]_vars
  PROVE  Reported(l)'
<1> USE Targets DEF Idle, Prepares, Before
<1>1. CASE StartLoop(l)
  BY <1>1, ReportedMoves DEF StartLoop
<1>2. CASE Abort(l)
  <2>1. CASE pc[l] = "poll"
    BY <1>2, <2>1, ReportedMoves DEF Abort
  <2>2. CASE pc[l] # "poll"
    BY <1>2, <2>2 DEF Abort, Reported, cloud
  <2>3. QED
    BY <2>1, <2>2
<1>3. CASE \E j \in Jobs : NextJob(l, j)
  BY <1>3 DEF NextJob, TypeOK, Reported
<1>4. CASE Crash
  BY <1>4 DEF Crash, Reported
<1>5. CASE Route(l)
  <2>1. Requested(l, "fail_unconfigured") \in Idle \cup {"fail_unconfigured"}
    BY DEF Requested, ThrownAt, Return
  <2>2. QED
    BY <1>5, <2>1, ReportedMoves DEF Route, cloud
<1>6. CASE AssertPayload(l)
  <2>1. CASE Mismatched(l, ledger[job[l]])
    <3>1. Dispatch(l, ledger[job[l]]) \in Idle \cup {"fail_mismatch"}
      BY <2>1 DEF Dispatch
    <3>2. refused'[job[l]]
      BY <1>6, <2>1 DEF AssertPayload, TypeOK
    <3>3. QED
      BY <1>6, <3>1, <3>2, ReportedMoves DEF AssertPayload
  <2>2. CASE ~Mismatched(l, ledger[job[l]])
    <3>1. Dispatch(l, ledger[job[l]]) \in Idle \cup {"rec_received", "ack", "rec_ack_pending"}
      BY <2>2 DEF Dispatch, Requested
    <3>2. QED
      BY <1>6, <3>1, ReportedMoves DEF AssertPayload, cloud
  <2>3. QED
    BY <2>1, <2>2
<1>7. CASE AssertUnread(l)
  BY <1>7, ReportedMoves DEF AssertUnread, cloud
<1>8. CASE RecordRead(l)
  <2>1. CASE Mismatched(l, ledger[job[l]])
    <3>1. pc[l] \in RecordSteps /\ pc[l] \notin AfterPrint
      BY <1>8, <2>1 DEF RecordRead, Mismatched, Intent
    <3>2. ThrownAt(l, pc[l], "mismatch") \in Idle \cup {"fail_mismatch"}
      BY <3>1 DEF AfterPrint
    <3>3. refused'[job[l]]
      BY <1>8, <2>1, <3>1 DEF RecordRead, TypeOK, RecordSteps
    <3>4. QED
      BY <1>8, <2>1, <3>2, <3>3, ReportedMoves DEF RecordRead, Throw
  <2>2. CASE ~Mismatched(l, ledger[job[l]])
    BY <1>8, <2>2 DEF RecordRead, Reported, cloud
  <2>3. QED
    BY <2>1, <2>2
<1>9. CASE RecordUnread(l)
  BY <1>9 DEF RecordUnread, Reported, cloud
<1>10. CASE RecordWrite(l)
  <2>1. pc[l] \in RecordSteps /\ Goto(l, AfterRecord(l), "other")
    BY <1>10 DEF RecordWrite, TypeOK
  <2>2. AfterRecord(l) # "fail_mismatch"
    <3>1. \A s : s \in {"ack", "fail_retry", "fail_refused", "fail_terminal"} =>
            Requested(l, s) # "fail_mismatch"
      BY DEF Requested, ThrownAt, Return, Catch
    <3>2. pc[l] = "rec_ack_pending" => Catch(l, cause[l]) # "fail_mismatch"
      BY DEF Reported, Catch, Return
    <3>3. QED
      BY <2>1, <3>1, <3>2 DEF AfterRecord, RecordSteps, Return, Catch
  <2>3. AfterRecord(l) \in Prepares => pc[l] \in Prepares
    <3>1. \A s : s \in {"ack", "fail_retry", "fail_refused", "fail_terminal"} =>
            Requested(l, s) \notin Prepares
      BY DEF Requested
    <3>2. Catch(l, cause[l]) \notin Prepares
      BY DEF Catch
    <3>3. QED
      BY <2>1, <3>1, <3>2 DEF AfterRecord, RecordSteps
  <2>4. QED
    BY <1>10, <2>1, <2>2, <2>3, ReportedMoves DEF RecordWrite, cloud
<1>11. CASE RecordUnwritten(l) \/ AckRejected(l) \/ AckUnavailable(l) \/ FailRejected(l)
  <2>1. PICK c \in {"other", "ack_unavailable"} : Throw(l, c) /\ (c # "other" => pc[l] = "ack")
    BY <1>11 DEF RecordUnwritten, AckRejected, AckUnavailable, FailRejected
  <2>2. ThrownAt(l, pc[l], c) \in Idle \cup {"rec_ack_pending", "rec_ambiguous", "rec_terminal"}
    BY <2>1
  <2>3. QED
    BY <2>1, <2>2, ReportedMoves DEF Throw
<1>12. CASE PrintSucceeds(l) \/ PrinterOffline(l) \/ PrintPartial(l) \/ PrintCanceled(l)
  BY <1>12, ReportedMoves DEF PrintSucceeds, PrinterOffline, PrintPartial, PrintCanceled
<1>13. CASE PrinterRefuses(l)
  BY <1>13, ReportedMoves DEF PrinterRefuses, Throw
<1>14. CASE AckAccepted(l) \/ FailAccepted(l)
  BY <1>14, ReportedMoves DEF AckAccepted, FailAccepted
<1>15. CASE PollTimesOut(l) \/ UNCHANGED vars
  BY <1>15 DEF PollTimesOut, vars, Reported
<1>16. CASE \E j \in Jobs : LeaseExpires(j) \/ ContentChanges(j) \/ Replay(j)
  <2>1. /\ UNCHANGED <<pc, job, cause, refused>>
        /\ \A j \in Jobs : queue'[j] \in {queue[j], "queued"}
    BY <1>16 DEF LeaseExpires, ContentChanges, Replay, local, observed, TypeOK
  <2>2. pc[l] \in Prepares => job[l] \in Jobs
    BY DEF TypeOK
  <2>3. QED
    BY <2>1, <2>2 DEF Reported
<1>17. QED
  BY <1>1, <1>2, <1>3, <1>4, <1>5, <1>6, <1>7, <1>8, <1>9, <1>10, <1>11, <1>12, <1>13,
     <1>14, <1>15, <1>16 DEF Next, LoopStep

(* Only a failure report makes a job fail, and what a loop has found out   *)
(* about a job, or suffered with it, stays.                                *)
LEMMA FailsByReport ==
  ASSUME NEW l, Loops = {l}, TypeOK, [Next]_vars, NEW j \in Jobs
  PROVE  /\ refused[j] => refused'[j]
         /\ faults'[j] >= faults[j]
         /\ queue'[j] = "failed" =>
              \/ queue[j] = "failed"
              \/ /\ pc[l] \in {"fail_refused", "fail_mismatch", "fail_terminal"}
                 /\ job[l] = j /\ UNCHANGED written
<1>1. CASE StartLoop(l) \/ Abort(l) \/ (\E i \in Jobs : NextJob(l, i)) \/ Crash
  <2>1. UNCHANGED refused /\ (queue'[j] # queue[j] => queue'[j] = "leased")
    BY <1>1 DEF StartLoop, Abort, NextJob, Crash, observed, cloud, TypeOK
  <2>2. faults'[j] >= faults[j]
    BY <1>1, TouchedGrows DEF StartLoop, Abort, NextJob, Crash, observed, TypeOK
  <2>3. QED
    BY <2>1, <2>2
<1>2. CASE FailAccepted(l) \/ FailRejected(l)
  <2>1. UNCHANGED <<refused, faults, written>> /\ pc[l] \in FailSteps
    BY <1>2 DEF FailAccepted, FailRejected, bons
  <2>2. queue'[j] # queue[j] => j = job[l] /\ queue'[j] = Verdict(pc[l])
    BY <1>2 DEF FailAccepted, FailRejected, Close, cloud, TypeOK
  <2>3. Verdict(pc[l]) = "failed" => pc[l] \notin {"fail_unconfigured", "fail_retry"}
    BY DEF Verdict
  <2>4. QED
    BY <2>1, <2>2, <2>3 DEF FailSteps, TypeOK
<1>3. CASE LoopStep(l) /\ ~(FailAccepted(l) \/ FailRejected(l))
  <2>1. queue'[j] # queue[j] => queue'[j] = "acked"
    BY <1>3 DEF LoopStep, Route, AssertPayload, AssertUnread, RecordRead, RecordUnread,
                RecordWrite, RecordUnwritten, PrintSucceeds, PrinterOffline, PrintPartial,
                PrinterRefuses, PrintCanceled, AckAccepted, AckRejected, AckUnavailable,
                Close, cloud, TypeOK
  <2>2. refused[j] => refused'[j]
    BY <1>3 DEF LoopStep, Route, AssertPayload, AssertUnread, RecordRead, RecordUnread,
                RecordWrite, RecordUnwritten, PrintSucceeds, PrinterOffline, PrintPartial,
                PrinterRefuses, PrintCanceled, AckAccepted, AckRejected, AckUnavailable,
                observed, TypeOK
  <2>3. faults'[j] >= faults[j]
    BY <1>3, TouchedGrows
       DEF LoopStep, Route, AssertPayload, AssertUnread, RecordRead, RecordUnread,
           RecordWrite, RecordUnwritten, PrintSucceeds, PrinterOffline, PrintPartial,
           PrinterRefuses, PrintCanceled, AckAccepted, AckRejected, AckUnavailable,
           observed, TypeOK
  <2>4. QED
    BY <2>1, <2>2, <2>3
<1>4. CASE \/ PollTimesOut(l) \/ UNCHANGED vars
           \/ \E i \in Jobs : LeaseExpires(i) \/ ContentChanges(i) \/ Replay(i)
  <2>1. UNCHANGED <<refused, faults>> /\ (queue'[j] # queue[j] => queue'[j] = "queued")
    BY <1>4 DEF PollTimesOut, LeaseExpires, ContentChanges, Replay, vars, observed, TypeOK
  <2>2. QED
    BY <2>1 DEF TypeOK
<1>5. QED
  BY <1>1, <1>2, <1>3, <1>4 DEF Next

(* An order whose bon is on paper is reported as failed only after a       *)
(* disturbance, or when its content was refused for good: the cook has no  *)
(* bon in his hands of an order the guest is told has failed.              *)
THEOREM FailedAfterWriteIsDisturbedHolds ==
  ASSUME NEW l, Loops = {l} PROVE Spec => []FailedAfterWriteIsDisturbed
<1> DEFINE Inv == /\ Intent(l) /\ Bounded(l) /\ Calm(l) /\ Reported(l)
                  /\ FailedAfterWriteIsDisturbed
<1>1. Init => Inv
  BY BoundedInit DEF Init, Reported, FailedAfterWriteIsDisturbed, Prepares, Before
<1>2. ASSUME TypeOK, TypeOK', Inv, [Next]_vars, NEW j \in Jobs,
             queue'[j] = "failed", written'[j] > 0
      PROVE  faults'[j] > 0 \/ refused'[j]
  <2>1. {written[j], faults[j], faults'[j]} \subseteq Nat
    BY <1>2 DEF TypeOK
  <2>2. CASE queue[j] = "failed" /\ written[j] > 0
    BY <1>2, <2>1, <2>2, FailsByReport DEF FailedAfterWriteIsDisturbed
  <2>3. CASE queue[j] = "failed" /\ ~(written[j] > 0)
    <3>1. pc[l] = "print" /\ job[l] = j
      BY <1>2, <2>1, <2>3, WritesAtPrint DEF Write, bons, TypeOK
    <3>2. QED
      BY <1>2, <2>3, <3>1 DEF Reported, Prepares, Before
  <2>4. CASE queue[j] # "failed"
    <3>1. /\ pc[l] \in {"fail_refused", "fail_mismatch", "fail_terminal"}
          /\ job[l] = j /\ written[j] > 0
      BY <1>2, <2>4, FailsByReport
    <3>2. CASE pc[l] = "fail_mismatch"
      BY <1>2, <3>1, <3>2, FailsByReport DEF Reported
    <3>3. CASE pc[l] # "fail_mismatch"
      <4>1. /\ Debt(pc[l], aborted[l]) = 0
            /\ Free(pc[l], cause[l], ledger[j]) = 0
        BY <3>1, <3>3 DEF Debt, Free, Stoppable, Prepares, Before, Unbooked
      <4>2. written[j] <= faults[j]
        BY <1>2, <2>1, <3>1, <4>1 DEF Bounded, HandBounded, Idle
      <4>3. QED
        BY <1>2, <2>1, <3>1, <4>2, FailsByReport
    <3>4. QED
      BY <3>2, <3>3
  <2>5. QED
    BY <2>2, <2>3, <2>4
<1>3. TypeOK /\ TypeOK' /\ Inv /\ [Next]_vars => Inv'
  BY <1>2, IntentStep, BoundedStep, CalmStep, ReportedStep DEF FailedAfterWriteIsDisturbed
<1>4. QED
  BY <1>1, <1>3, TypeCorrect, PTL DEF Spec
-----------------------------------------------------------------------------
(* With a ledger that can be read: a copy is the file, it has the content  *)
(* in hand if it has the job, paper and ledger show one content, and a job *)
(* the bridge remembers as acknowledged is not in a hand-off.              *)
Writing == RecordSteps \cup {"print", "ack", "fail_retry", "fail_refused"}

NotSucceeded(entry) == entry = NoEntry \/ entry.state # "succeeded"

Readable(l) ==
  /\ snap[l] # NoSnapshot =>
       /\ snap[l] = ledger
       /\ ledger[job[l]] # NoEntry => ledger[job[l]].payload = payload[l]
  /\ \A j \in Jobs : \A p \in paper[j] : ledger[j] # NoEntry /\ ledger[j].payload = p
  /\ pc[l] \in Writing => NotSucceeded(ledger[job[l]])

(* What a step does to paper, ledger and acknowledgements: one of them at  *)
(* a time, at the print, at the acknowledgement or at the end of a record. *)
LEMMA Effects ==
  ASSUME NEW l, Loops = {l}, TypeOK, [Next]_vars
  PROVE  \/ UNCHANGED <<written, paper, acked, ledger>>
         \/ /\ pc[l] = "print" /\ job[l] \in Jobs
            /\ Write(l) /\ UNCHANGED <<acked, ledger>>
         \/ /\ pc[l] = "ack" /\ job[l] \in Jobs
            /\ acked' = [acked EXCEPT ![job[l]] = TRUE]
            /\ UNCHANGED <<written, paper, ledger>>
         \/ RecordWrite(l) /\ UNCHANGED <<written, paper, acked>>
<1>1. CASE PrintSucceeds(l) \/ PrintPartial(l) \/ PrintCanceled(l)
  BY <1>1 DEF PrintSucceeds, PrintPartial, PrintCanceled, bons, TypeOK, Idle
<1>2. CASE AckAccepted(l) \/ AckRejected(l)
  BY <1>2 DEF AckAccepted, AckRejected, Close, bons, TypeOK, Idle
<1>3. CASE FailAccepted(l) \/ FailRejected(l)
  <2>1. \A s : Verdict(s) # "acked"
    BY DEF Verdict
  <2>2. acked' = acked
    BY <1>3, <2>1 DEF FailAccepted, FailRejected, Close, TypeOK
  <2>3. QED
    BY <1>3, <2>2 DEF FailAccepted, FailRejected, bons
<1>4. CASE RecordWrite(l)
  BY <1>4 DEF RecordWrite, bons
<1>5. CASE \/ Route(l) \/ AssertPayload(l) \/ AssertUnread(l) \/ RecordRead(l)
           \/ RecordUnread(l) \/ RecordUnwritten(l) \/ PrinterOffline(l)
           \/ PrinterRefuses(l) \/ AckUnavailable(l)
  BY <1>5 DEF Route, AssertPayload, AssertUnread, RecordRead, RecordUnread,
              RecordUnwritten, PrinterOffline, PrinterRefuses, AckUnavailable, bons, observed
<1>6. CASE StartLoop(l) \/ Abort(l) \/ (\E j \in Jobs : NextJob(l, j)) \/ Crash
  BY <1>6 DEF StartLoop, Abort, NextJob, Crash, bons, observed
<1>7. CASE \/ PollTimesOut(l) \/ UNCHANGED vars
           \/ \E j \in Jobs : LeaseExpires(j) \/ ContentChanges(j) \/ Replay(j)
  BY <1>7 DEF PollTimesOut, LeaseExpires, ContentChanges, Replay, vars, observed
<1>8. QED
  BY <1>1, <1>2, <1>3, <1>4, <1>5, <1>6, <1>7 DEF Next, LoopStep

(* A move that leaves ledger and paper as they are. *)
LEMMA ReadableMoves ==
  ASSUME NEW l \in Loops, TypeOK, Readable(l), NEW s, NEW c, Goto(l, s, c),
         UNCHANGED <<ledger, paper>>, snap'[l] = NoSnapshot,
         s \in Writing => NotSucceeded(ledger[job[l]])
  PROVE  Readable(l)'
<1>1. s \in Writing => s \notin Idle
  BY DEF Writing, RecordSteps, Idle
<1>2. QED
  BY <1>1, GotoHere DEF Readable, NotSucceeded, Writing, RecordSteps

(* Every step keeps Readable while the ledger can be read. *)
LEMMA ReadableStep ==
  ASSUME NEW l, Loops = {l}, "ledger_read" \notin FaultKinds,
         TypeOK, TypeOK', Intent(l), Readable(l), [Next]_vars
  PROVE  Readable(l)'
<1> USE Targets DEF Idle
<1>1. pc[l] \notin RecordSteps => snap[l] = NoSnapshot
  BY DEF TypeOK
<1>2. CASE StartLoop(l) \/ (Abort(l) /\ pc[l] = "poll")
  <2>1. PICK s \in Idle : Goto(l, s, "none")
    BY <1>2 DEF StartLoop, Abort
  <2>2. s \notin Writing /\ snap'[l] = NoSnapshot /\ UNCHANGED <<ledger, paper>>
    BY <1>1, <1>2 DEF StartLoop, Abort, observed, bons, Writing, RecordSteps
  <2>3. QED
    BY <2>1, <2>2, ReadableMoves
<1>3. CASE Abort(l) /\ pc[l] # "poll"
  BY <1>3 DEF Abort, bons, Readable
<1>4. CASE \E j \in Jobs : NextJob(l, j)
  BY <1>1, <1>4 DEF NextJob, TypeOK, observed, Readable, Writing, RecordSteps
<1>5. CASE Crash
  BY <1>5 DEF Crash, bons, Readable, Writing, RecordSteps
<1>6. CASE Route(l)
  <2>1. Requested(l, "fail_unconfigured") \in Idle \cup {"fail_unconfigured"}
    BY DEF Requested, ThrownAt, Return
  <2>2. PICK s \in Idle \cup {"assert", "fail_unconfigured"} : Goto(l, s, "none")
    BY <1>6, <2>1 DEF Route
  <2>3. s \notin Writing /\ snap'[l] = NoSnapshot /\ UNCHANGED <<ledger, paper>>
    BY <1>1, <1>6 DEF Route, observed, Writing, RecordSteps
  <2>4. QED
    BY <2>2, <2>3, ReadableMoves
<1>7. CASE AssertPayload(l)
  <2>1. /\ Goto(l, Dispatch(l, ledger[job[l]]), "other")
        /\ snap'[l] = NoSnapshot /\ UNCHANGED <<ledger, paper>>
    BY <1>1, <1>7 DEF AssertPayload, bons, RecordSteps
  <2>2. Dispatch(l, ledger[job[l]]) \in Writing => NotSucceeded(ledger[job[l]])
    BY DEF Dispatch, Settled, NotSucceeded, Writing, RecordSteps
  <2>3. QED
    BY <2>1, <2>2, ReadableMoves
<1>8. CASE AssertUnread(l) \/ RecordUnread(l)
  BY <1>8 DEF AssertUnread, RecordUnread, Disturb
<1>9. CASE RecordRead(l) /\ Mismatched(l, ledger[job[l]])
  <2>1. pc[l] \in RecordSteps /\ pc[l] \notin AfterPrint
    BY <1>9 DEF RecordRead, Mismatched, Intent
  <2>2. PICK s \in Idle \cup {"fail_mismatch"} : Goto(l, s, "mismatch")
    BY <1>9, <2>1 DEF RecordRead, Throw, AfterPrint
  <2>3. s \notin Writing /\ snap'[l] = NoSnapshot /\ UNCHANGED <<ledger, paper>>
    BY <1>9 DEF RecordRead, bons, Writing, RecordSteps
  <2>4. QED
    BY <2>2, <2>3, ReadableMoves
<1>10. CASE RecordRead(l) /\ ~Mismatched(l, ledger[job[l]])
  BY <1>10 DEF RecordRead, Mismatched, bons, Readable, TypeOK
<1>11. CASE RecordWrite(l)
  <2>1. /\ pc[l] \in RecordSteps /\ job[l] \in Jobs
        /\ ledger' = Recorded(l) /\ snap[l] = ledger
        /\ ledger[job[l]] # NoEntry => ledger[job[l]].payload = payload[l]
        /\ snap'[l] = NoSnapshot /\ paper' = paper
        /\ Goto(l, AfterRecord(l), "other")
    BY <1>11, RecordedTyped DEF RecordWrite, bons, Readable, TypeOK
  <2>2. /\ ledger'[job[l]] # NoEntry
        /\ ledger'[job[l]].state = RecordedState[pc[l]]
        /\ ledger'[job[l]].payload = payload[l]
        /\ \A j \in Jobs : j # job[l] => ledger'[j] = ledger[j]
    BY <1>11, <2>1, RecordedEntry DEF RecordWrite
  <2>3. \A j \in Jobs : \A p \in paper'[j] : ledger'[j] # NoEntry /\ ledger'[j].payload = p
    BY <2>1, <2>2 DEF Readable
  <2>4. AfterRecord(l) \in Writing => ledger'[job[l]].state # "succeeded"
    <3>1. AfterRecord(l) \in Writing => pc[l] # "rec_succeeded"
      BY DEF AfterRecord, Writing, RecordSteps
    <3>2. QED
      BY <2>1, <2>2, <3>1 DEF RecordedState, RecordSteps
  <2>5. pc'[l] \in Writing => NotSucceeded(ledger'[job'[l]])
    <3>1. pc'[l] = AfterRecord(l) /\ (pc'[l] \in Writing => job'[l] = job[l])
      BY <2>1, GotoHere DEF Writing, RecordSteps
    <3>2. QED
      BY <2>4, <3>1 DEF NotSucceeded
  <2>6. QED
    BY <2>1, <2>3, <2>5 DEF Readable, NotSucceeded, Writing, RecordSteps
<1>12. CASE \/ RecordUnwritten(l) \/ AckAccepted(l) \/ AckRejected(l) \/ AckUnavailable(l)
            \/ PrinterOffline(l) \/ PrinterRefuses(l) \/ FailAccepted(l) \/ FailRejected(l)
  <2>1. /\ snap'[l] = NoSnapshot /\ UNCHANGED <<ledger, paper>>
        /\ pc[l] \in Writing \cup {"fail_terminal", "fail_mismatch", "fail_unconfigured"}
    BY <1>1, <1>12 DEF RecordUnwritten, AckAccepted, AckRejected, AckUnavailable,
                       PrinterOffline, PrinterRefuses, FailAccepted, FailRejected, bons,
                       observed, Writing, RecordSteps, FailSteps, TypeOK
  <2>2. \A c : pc[l] \notin Writing => ThrownAt(l, pc[l], c) \in Idle
    BY <2>1 DEF ThrownAt, Writing
  <2>3. PICK s, c : Goto(l, s, c) /\ (pc[l] \notin Writing => s \in Idle)
    BY <1>12, <2>1, <2>2 DEF RecordUnwritten, AckAccepted, AckRejected, AckUnavailable,
                  PrinterOffline, PrinterRefuses, FailAccepted, FailRejected, Throw, Writing
  <2>4. s \in Writing => NotSucceeded(ledger[job[l]])
    BY <2>3 DEF Readable, Writing, RecordSteps
  <2>5. QED
    BY <2>1, <2>3, <2>4, ReadableMoves
<1>13. CASE PrintSucceeds(l) \/ PrintPartial(l) \/ PrintCanceled(l)
  <2>1. /\ pc[l] = "print" /\ job[l] \in Jobs /\ snap'[l] = NoSnapshot /\ ledger' = ledger
        /\ paper' \in {paper, [paper EXCEPT ![job[l]] = @ \cup {payload[l]}]}
    BY <1>1, <1>13 DEF PrintSucceeds, PrintPartial, PrintCanceled, Write, bons, TypeOK,
                       RecordSteps
  <2>2. ledger[job[l]] # NoEntry /\ ledger[job[l]].payload = payload[l]
    BY <2>1 DEF Intent
  <2>3. \A j \in Jobs : \A p \in paper'[j] : ledger'[j] # NoEntry /\ ledger'[j].payload = p
    <3>1. SUFFICES ASSUME NEW j \in Jobs, NEW p \in paper'[j]
                   PROVE  ledger[j] # NoEntry /\ ledger[j].payload = p
      BY <2>1
    <3>2. CASE p \in paper[j]
      BY <3>2 DEF Readable
    <3>3. CASE p \notin paper[j]
      BY <2>1, <2>2, <3>3 DEF TypeOK
    <3>4. QED
      BY <3>2, <3>3
  <2>4. PICK s \in {"rec_printed", "rec_retry", "rec_refused"} : Goto(l, s, "none")
    BY <1>13 DEF PrintSucceeds, PrintPartial, PrintCanceled
  <2>5. pc'[l] = s /\ job'[l] = job[l]
    BY <2>4, GotoHere
  <2>6. QED
    BY <2>1, <2>3, <2>5 DEF Readable, NotSucceeded, Writing
<1>14. CASE \/ PollTimesOut(l) \/ UNCHANGED vars
            \/ \E j \in Jobs : LeaseExpires(j) \/ ContentChanges(j) \/ Replay(j)
  BY <1>14 DEF PollTimesOut, LeaseExpires, ContentChanges, Replay, vars, local, observed,
               Readable
<1>15. QED
  BY <1>2, <1>3, <1>4, <1>5, <1>6, <1>7, <1>8, <1>9, <1>10, <1>11, <1>12, <1>13, <1>14
     DEF Next, LoopStep

(* Before the first step nothing is refused and nothing read. *)
LEMMA ReadableInit ==
  ASSUME NEW l, Loops = {l}, Init
  PROVE  Readable(l)
BY DEF Init, Readable, Writing, RecordSteps

(* The bons of one job show one content, whatever crashes, aborts and      *)
(* retries come between them.                                              *)
THEOREM OneContentPerJobHolds == ASSUME NEW l, Loops = {l} PROVE Spec => []OneContentPerJob
<1>1. CASE "ledger_read" \in FaultKinds
  <2>1. OneContentPerJob
    BY <1>1 DEF OneContentPerJob
  <2>2. QED
    BY <2>1, PTL
<1>2. CASE "ledger_read" \notin FaultKinds
  <2> DEFINE Inv == Intent(l) /\ Readable(l)
  <2>1. Init => Inv
    BY BoundedInit, ReadableInit
  <2>2. TypeOK /\ TypeOK' /\ Inv /\ [Next]_vars => Inv'
    BY <1>2, IntentStep, ReadableStep
  <2>3. ASSUME Inv, NEW j \in Jobs
        PROVE  Cardinality(paper[j]) <= 1
    <3>1. paper[j] \subseteq {ledger[j].payload}
      BY <2>3 DEF Readable
    <3>2. IsFiniteSet({ledger[j].payload}) /\ Cardinality({ledger[j].payload}) = 1
      BY FS_Singleton
    <3>3. QED
      BY <3>1, <3>2, FS_Subset
  <2>4. Inv => OneContentPerJob
    BY <2>3 DEF OneContentPerJob
  <2>5. QED
    BY <2>1, <2>2, <2>4, TypeCorrect, PTL DEF Spec
<1>3. QED
  BY <1>1, <1>2

(* The executor keeps the promise of DeliveryPromise: the service hears of *)
(* a bon only after it, and what the ledger remembers as acknowledged is   *)
(* never printed again.                                                    *)
THEOREM KeepsPromiseHolds ==
  ASSUME NEW l, Loops = {l}, "ledger_read" \notin FaultKinds
  PROVE  Spec => KeepsPromise
<1> DEFINE Inv == Intent(l) /\ Readable(l)
           Closed == {j \in Jobs : ledger[j] # NoEntry /\ ledger[j].state = "succeeded"}
           Delivered == {j \in Jobs : acked[j]}
<1>1. Init => Inv /\ Promise!Init
  BY BoundedInit, ReadableInit DEF Init, EmptyLedger, Promise!Init
<1>2. TypeOK /\ TypeOK' /\ Inv /\ [Next]_vars => Inv'
  BY IntentStep, ReadableStep
<1>3. ASSUME TypeOK, Soundness, Inv, [Next]_vars
      PROVE  [Promise!Next]_(Promise!promised)
  <2>1. CASE UNCHANGED <<written, paper, acked, ledger>>
    BY <2>1 DEF Promise!promised
  <2>2. CASE pc[l] = "print" /\ job[l] \in Jobs /\ Write(l) /\ UNCHANGED <<acked, ledger>>
    <3>1. PICK j \in Jobs : j = job[l]
      BY <2>2
    <3>2. j \notin Closed
      BY <1>3, <2>2, <3>1 DEF Readable, Writing, NotSucceeded
    <3>3. Promise!PrintBon(j)
      BY <2>2, <3>1, <3>2 DEF Write, Promise!PrintBon
    <3>4. QED
      BY <3>3 DEF Promise!Next
  <2>3. CASE /\ pc[l] = "ack" /\ job[l] \in Jobs
             /\ acked' = [acked EXCEPT ![job[l]] = TRUE]
             /\ UNCHANGED <<written, paper, ledger>>
    <3>1. written[job[l]] > 0
      BY <1>3, <2>3 DEF Soundness, LoopsSound, AfterPrint
    <3>2. Delivered' = Delivered \cup {job[l]}
      BY <1>3, <2>3 DEF TypeOK
    <3>3. PICK j \in Jobs : j = job[l]
      BY <2>3
    <3>4. Promise!Acknowledge(j)
      BY <2>3, <3>1, <3>2, <3>3 DEF Promise!Acknowledge
    <3>5. QED
      BY <3>4 DEF Promise!Next
  <2>4. CASE RecordWrite(l) /\ UNCHANGED <<written, paper, acked>>
    <3>1. /\ pc[l] \in RecordSteps /\ job[l] \in Jobs
          /\ ledger' = Recorded(l) /\ snap[l] # NoSnapshot /\ snap[l] = ledger
          /\ NotSucceeded(ledger[job[l]])
      BY <1>3, <2>4, RecordedTyped DEF RecordWrite, Readable, Writing, TypeOK
    <3>2. /\ ledger'[job[l]] # NoEntry
          /\ ledger'[job[l]].state = RecordedState[pc[l]]
          /\ \A j \in Jobs : j # job[l] => ledger'[j] = ledger[j]
      BY <1>3, <3>1, RecordedEntry
    <3>3. CASE pc[l] = "rec_succeeded"
      <4>1. acked[job[l]]
        BY <1>3, <3>3 DEF Soundness, LoopsSound
      <4>2. Closed' = Closed \cup {job[l]}
        BY <3>1, <3>2, <3>3 DEF RecordedState
      <4>3. PICK j \in Jobs : j = job[l]
        BY <3>1
      <4>4. Promise!Remember(j)
        BY <2>4, <4>1, <4>2, <4>3 DEF Promise!Remember
      <4>5. QED
        BY <4>4 DEF Promise!Next
    <3>4. CASE pc[l] # "rec_succeeded"
      <4>1. RecordedState[pc[l]] # "succeeded"
        BY <3>1, <3>4 DEF RecordedState, RecordSteps
      <4>2. Closed' = Closed
        BY <3>1, <3>2, <4>1 DEF NotSucceeded
      <4>3. QED
        BY <2>4, <4>2 DEF Promise!promised
    <3>5. QED
      BY <3>3, <3>4
  <2>5. QED
    BY <1>3, <2>1, <2>2, <2>3, <2>4, Effects
<1>4. QED
  BY <1>1, <1>2, <1>3, Sound, PTL DEF Spec, KeepsPromise, Promise!Spec
=============================================================================
