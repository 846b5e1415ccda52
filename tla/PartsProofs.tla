---------------------------- MODULE PartsProofs ----------------------------
(***************************************************************************)
(* Theorems about the parts of the bridge that know nothing of the others, *)
(* each for all values of its constants: a print over the network or the   *)
(* spooler (SocketPrint, SpoolerPrint), a search for printers              *)
(* (PrinterScan), the diagnostic log (DiagnosticLog) and the updates       *)
(* (UpdateService).                                                        *)
(***************************************************************************)
EXTENDS SocketPrint, SpoolerPrint, PrinterScan, DiagnosticLog, UpdateService, SelectionProofs,
        FiniteSetTheorems

(***************************************************************************)
(* SocketPrint: for bons of any size.                                      *)
(*                                                                         *)
(* The inductive invariant.  The promise needs to know that nothing goes   *)
(* out before the connection stands, that a grace begins only when all is  *)
(* out, and that a promise that listens has not been canceled.             *)
(***************************************************************************)
SocketPendingHasNoOutcome == outcome = "none" <=> stage # "settled"

NothingOutBefore == stage \in {"execute", "resolve", "connect", "connected"} => out = 0

SocketFits ==
  /\ stage \in {"execute", "resolve"} => socket = "none"
  /\ stage = "connected" => socket = "open"

EndedIsOut == stage = "finish" /\ socket = "ended" => out = Size

GraceIsEnded == grace => stage = "finish" /\ socket = "ended"

ListensInTime == listening => ~aborted

SocketControl ==
  /\ SocketPendingHasNoOutcome
  /\ NothingOutBefore
  /\ SocketFits
  /\ EndedIsOut
  /\ GraceIsEnded
  /\ ListensInTime
  /\ NothingLeft

(* The initial states are typed and satisfy the invariant. *)
LEMMA SocketInitHolds == SocketInit => SocketTypeOK /\ SocketControl
<1> SUFFICES ASSUME SocketInit
             PROVE  SocketTypeOK /\ SocketControl
  OBVIOUS
<1>1. out \in 0..Size
  BY SocketAssumption DEF SocketInit
<1>2. SocketTypeOK
  BY <1>1 DEF SocketInit, SocketTypeOK
<1>3. SocketControl
  BY
     DEF SocketInit, SocketControl, SocketPendingHasNoOutcome, NothingOutBefore, SocketFits,
         EndedIsOut, GraceIsEnded, ListensInTime, NothingLeft
<1>4. QED
  BY <1>2, <1>3

(* Whatever settles a print with a proper result keeps the invariant. *)
LEMMA SettledHolds ==
  ASSUME SocketTypeOK, NEW ending \in {"succeeded", "offline", "refused", "failed", "canceled"},
         Settle(ending), socket' \in {"none", "gone"}, aborted' \in BOOLEAN
  PROVE  SocketTypeOK' /\ SocketControl'
BY
   DEF SocketTypeOK, Settle, SocketControl, SocketPendingHasNoOutcome, NothingOutBefore,
       SocketFits, EndedIsOut, GraceIsEnded, ListensInTime, NothingLeft

(* The same of an error. *)
LEMMA FailedHolds ==
  ASSUME SocketTypeOK, NEW ending \in {"offline", "refused", "failed", "canceled"}, Fails(ending)
  PROVE  SocketTypeOK' /\ SocketControl'
<1>1. Settle(ending) /\ socket' \in {"none", "gone"} /\ aborted' \in BOOLEAN
  BY DEF Fails, SocketTypeOK
<1>2. QED
  BY <1>1, SettledHolds

(* One step of the print keeps the invariant. *)
LEMMA SocketStepHolds ==
  SocketTypeOK /\ SocketControl /\ [SocketNext]_socketVars => SocketTypeOK' /\ SocketControl'
<1> SUFFICES ASSUME SocketTypeOK, SocketControl, [SocketNext]_socketVars
             PROVE  SocketTypeOK' /\ SocketControl'
  OBVIOUS
<1> USE SocketAssumption
<1>1. CASE execute
  <2>1. CASE Fails("refused")
    BY <2>1, FailedHolds
  <2>2. CASE ~Fails("refused")
    BY <1>1, <2>2
       DEF execute, SocketTypeOK, SocketControl, SocketPendingHasNoOutcome,
           NothingOutBefore, SocketFits, EndedIsOut, GraceIsEnded, ListensInTime,
           NothingLeft
  <2>3. QED
    BY <2>1, <2>2
<1>2. CASE resolvedAddress
  <2>1. CASE Fails("refused") \/ Fails("failed")
    BY <2>1, FailedHolds
  <2>2. CASE Settle("canceled") /\ socket' = "gone" /\ UNCHANGED aborted
    <3>1. aborted' \in BOOLEAN
      BY <2>2 DEF SocketTypeOK
    <3>2. QED
      BY <2>2, <3>1, SettledHolds
  <2>3. CASE /\ stage = "resolve" /\ ~aborted
             /\ stage' = "connect" /\ socket' = "connecting"
             /\ timer' = TRUE /\ listening' = TRUE
             /\ UNCHANGED <<outcome, aborted, out, grace>>
    BY <2>3
       DEF SocketTypeOK, SocketControl, SocketPendingHasNoOutcome, NothingOutBefore,
           SocketFits, EndedIsOut, GraceIsEnded, ListensInTime, NothingLeft
  <2>4. QED
    BY <1>2, <2>1, <2>2, <2>3 DEF resolvedAddress
<1>3. CASE onConnect
  BY <1>3
     DEF onConnect, SocketTypeOK, SocketControl, SocketPendingHasNoOutcome,
         NothingOutBefore, SocketFits, EndedIsOut, GraceIsEnded, ListensInTime, NothingLeft
<1>4. CASE onConnectError \/ onError \/ onTimeout
  BY <1>4, FailedHolds DEF onConnectError, onError, onTimeout
<1>5. CASE finishSocket
  <2>1. CASE Fails("canceled")
    BY <2>1, FailedHolds
  <2>2. CASE ~Fails("canceled")
    BY <1>5, <2>2
       DEF finishSocket, SocketTypeOK, SocketControl, SocketPendingHasNoOutcome,
           NothingOutBefore, SocketFits, EndedIsOut, GraceIsEnded, ListensInTime,
           NothingLeft
  <2>3. QED
    BY <2>1, <2>2
<1>6. CASE packetTaken
  <2>1. stage = "finish" /\ socket # "ended" /\ out' \in 0..Size
    BY <1>6 DEF packetTaken, SocketTypeOK, SocketControl, EndedIsOut
  <2>2. QED
    BY <1>6, <2>1
     DEF packetTaken, SocketTypeOK, SocketControl, SocketPendingHasNoOutcome,
         NothingOutBefore, SocketFits, EndedIsOut, GraceIsEnded, ListensInTime, NothingLeft
<1>7. CASE onFinish
  BY <1>7
     DEF onFinish, SocketTypeOK, SocketControl, SocketPendingHasNoOutcome, NothingOutBefore,
         SocketFits, EndedIsOut, GraceIsEnded, ListensInTime, NothingLeft
<1>8. CASE onClose \/ graceEnds
  <2>1. Settle("succeeded") /\ socket' = "gone" /\ aborted' \in BOOLEAN
    BY <1>8 DEF onClose, graceEnds, SocketTypeOK
  <2>2. QED
    BY <2>1, SettledHolds
<1>9. CASE AbortSocket
  <2>1. CASE Settle("canceled") /\ socket' = "gone"
    <3>1. aborted' \in BOOLEAN
      BY <1>9 DEF AbortSocket
    <3>2. QED
      BY <2>1, <3>1, SettledHolds
  <2>2. CASE ~listening
    BY <1>9, <2>2
       DEF AbortSocket, SocketTypeOK, SocketControl, SocketPendingHasNoOutcome,
           NothingOutBefore, SocketFits, EndedIsOut, GraceIsEnded, ListensInTime,
           NothingLeft
  <2>3. QED
    BY <1>9, <2>1, <2>2 DEF AbortSocket
<1>10. CASE UNCHANGED socketVars
  BY <1>10
     DEF socketVars, SocketTypeOK, SocketControl, SocketPendingHasNoOutcome,
         NothingOutBefore, SocketFits, EndedIsOut, GraceIsEnded, ListensInTime, NothingLeft
<1>11. QED
  BY <1>1, <1>2, <1>3, <1>4, <1>5, <1>6, <1>7, <1>8, <1>9, <1>10
     DEF SocketNext, Network, Program, Timers

(* The variables of the print are typed, and timer and listener are there  *)
(* exactly while a promise is pending.                                     *)
THEOREM SocketTypeCorrect == SocketSpec => []SocketTypeOK
<1>1. QED
  BY SocketInitHolds, SocketStepHolds, PTL DEF SocketSpec

(* The invariant, and with it that a settled print leaves no socket, timer *)
(* or listener behind, for bons of any size.                               *)
THEOREM NothingLeftHolds == SocketSpec => []NothingLeft
<1>1. SocketTypeOK /\ SocketControl => NothingLeft
  BY DEF SocketControl
<1>2. QED
  BY <1>1, SocketInitHolds, SocketStepHolds, PTL DEF SocketSpec

(* What an error makes known of a print that has not ended. *)
LEMMA FailureIsPromised ==
  ASSUME SocketTypeOK, SocketControl, stage # "settled",
         NEW ending \in {"offline", "refused", "failed", "canceled"}, Fails(ending),
         ending \in {"offline", "refused"} => out = 0,
         ending = "canceled" => aborted
  PROVE  Promise!Ends
BY
   DEF Fails, Settle, SocketTypeOK, SocketControl, SocketPendingHasNoOutcome, Promise!Ends,
       Promise!Outcomes

(* Every step of the print is one that PrintPromise allows, or none. *)
LEMMA SocketStepIsPromised ==
  SocketTypeOK /\ SocketControl /\ [SocketNext]_socketVars => [Promise!Next]_(Promise!vars)
<1> SUFFICES ASSUME SocketTypeOK, SocketControl, [SocketNext]_socketVars
             PROVE  Promise!Next \/ UNCHANGED Promise!vars
  OBVIOUS
<1>1. CASE execute
  <2>1. CASE Fails("refused")
    <3>1. stage # "settled" /\ out = 0
      BY <1>1 DEF execute, SocketControl, NothingOutBefore
    <3>2. Promise!Ends
      BY <2>1, <3>1, FailureIsPromised
    <3>3. QED
      BY <3>2 DEF Promise!Next
  <2>2. QED
    BY <1>1, <2>1 DEF execute, Promise!vars
<1>2. CASE resolvedAddress
  <2>1. stage = "resolve" /\ out = 0 /\ outcome = "none"
    BY <1>2 DEF resolvedAddress, SocketControl, NothingOutBefore, SocketPendingHasNoOutcome
  <2>2. CASE Fails("refused") \/ Fails("failed")
    <3>1. Promise!Ends
      BY <2>1, <2>2, FailureIsPromised
    <3>2. QED
      BY <3>1 DEF Promise!Next
  <2>3. CASE aborted /\ Settle("canceled") /\ UNCHANGED aborted
    <3>1. Promise!Ends
      BY <2>1, <2>3 DEF Settle, SocketTypeOK, Promise!Ends, Promise!Outcomes
    <3>2. QED
      BY <3>1 DEF Promise!Next
  <2>4. CASE UNCHANGED <<outcome, aborted, out, grace>>
    BY <2>4 DEF Promise!vars
  <2>5. QED
    BY <1>2, <2>2, <2>3, <2>4 DEF resolvedAddress
<1>3. CASE onConnect \/ onFinish
  BY <1>3 DEF onConnect, onFinish, Promise!vars
<1>4. CASE onConnectError
  <2>1. stage # "settled" /\ out = 0
    BY <1>4 DEF onConnectError, SocketControl, NothingOutBefore
  <2>2. Promise!Ends
    BY <1>4, <2>1, FailureIsPromised DEF onConnectError
  <2>3. QED
    BY <2>2 DEF Promise!Next
<1>5. CASE finishSocket
  <2>1. CASE aborted
    <3>1. stage # "settled" /\ Fails("canceled")
      BY <1>5, <2>1 DEF finishSocket
    <3>2. Promise!Ends
      BY <2>1, <3>1, FailureIsPromised
    <3>3. QED
      BY <3>2 DEF Promise!Next
  <2>2. QED
    BY <1>5, <2>1 DEF finishSocket, Promise!vars
<1>6. CASE packetTaken
  <2>1. outcome = "none"
    BY <1>6 DEF packetTaken, SocketControl, SocketPendingHasNoOutcome
  <2>2. QED
    BY <1>6, <2>1 DEF packetTaken, Promise!Next, Promise!GoesOut
<1>7. CASE onClose \/ graceEnds
  <2>1. /\ stage = "finish" /\ socket = "ended" /\ Settle("succeeded") /\ UNCHANGED aborted
    BY <1>7 DEF onClose, graceEnds, SocketControl, GraceIsEnded
  <2>2. outcome = "none" /\ out = Size /\ ~aborted
    BY <2>1
       DEF SocketTypeOK, SocketControl, SocketPendingHasNoOutcome, EndedIsOut, ListensInTime
  <2>3. Promise!Ends
    BY <2>1, <2>2 DEF Settle, SocketTypeOK, Promise!Ends, Promise!Outcomes
  <2>4. QED
    BY <2>3 DEF Promise!Next
<1>8. CASE onError \/ onTimeout
  <2>1. stage # "settled" /\ Fails("failed")
    BY <1>8 DEF onError, onTimeout, SocketTypeOK
  <2>2. Promise!Ends
    BY <2>1, FailureIsPromised
  <2>3. QED
    BY <2>2 DEF Promise!Next
<1>9. CASE AbortSocket
  <2>1. CASE listening
    <3>1. outcome = "none"
      BY <2>1 DEF SocketTypeOK, SocketControl, SocketPendingHasNoOutcome
    <3>2. Promise!Ends
      BY <1>9, <2>1, <3>1 DEF AbortSocket, Settle, Promise!Ends, Promise!Outcomes
    <3>3. QED
      BY <3>2 DEF Promise!Next
  <2>2. CASE ~listening
    BY <1>9, <2>2 DEF AbortSocket, Promise!Next, Promise!Abort
  <2>3. QED
    BY <2>1, <2>2
<1>10. CASE UNCHANGED socketVars
  BY <1>10 DEF socketVars, Promise!vars
<1>11. QED
  BY <1>1, <1>2, <1>3, <1>4, <1>5, <1>6, <1>7, <1>8, <1>9, <1>10
     DEF SocketNext, Network, Program, Timers

(* A print over the network implements PrintPromise: it has one outcome,   *)
(* success means that everything went out, "offline" that nothing did, and *)
(* a signal that came in time never lets it succeed.                       *)
THEOREM SocketKeepsPromise == SocketSpec => KeepsPrintPromise
<1>1. SocketInit => Promise!Init
  BY DEF SocketInit, Promise!Init
<1>2. QED
  BY <1>1, SocketInitHolds, SocketStepHolds, SocketStepIsPromised, PTL
     DEF SocketSpec, KeepsPrintPromise, Promise!Spec
-----------------------------------------------------------------------------
(***************************************************************************)
(* SpoolerPrint: for any prints and any number of copies.                  *)
(*                                                                         *)
(* The inductive invariant.  The promise needs to know that no process is  *)
(* there before it is started, and that one that is waited for has not     *)
(* been canceled.                                                          *)
(***************************************************************************)
SpoolerPendingHasNoOutcome(p) == spoolOutcome[p] = "none" <=> spoolStage[p] # "settled"

ChildFits(p) ==
  /\ spoolStage[p] = "check" => child[p] = "none" /\ copiesOut[p] = 0
  /\ child[p] = "running" => spoolStage[p] = "run"

SucceededIsOut(p) == spoolOutcome[p] = "succeeded" => child[p] = "closed"

RunsInTime(p) == spoolStage[p] = "run" => ~spoolAborted[p]

SpoolerControl ==
  \A p \in Prints :
    SpoolerPendingHasNoOutcome(p) /\ ChildFits(p) /\ SucceededIsOut(p) /\ RunsInTime(p)

(* The initial states are typed and satisfy the invariant. *)
LEMMA SpoolerInitHolds == SpoolerInit => SpoolerTypeOK /\ SpoolerControl
<1> SUFFICES ASSUME SpoolerInit
             PROVE  SpoolerTypeOK /\ SpoolerControl
  OBVIOUS
<1>1. 0 \in 0..Copies
  BY SpoolerAssumption
<1>2. SpoolerTypeOK
  BY <1>1 DEF SpoolerInit, SpoolerTypeOK
<1>3. SpoolerControl
  BY
     DEF SpoolerInit, SpoolerControl, SpoolerPendingHasNoOutcome, ChildFits, SucceededIsOut,
         RunsInTime
<1>4. QED
  BY <1>2, <1>3

(* A step of one print leaves the others as they are. *)
SpoolerFrame(p) ==
  \A q \in Prints \ {p} :
    /\ spoolStage'[q] = spoolStage[q] /\ spoolOutcome'[q] = spoolOutcome[q]
    /\ spoolAborted'[q] = spoolAborted[q]
    /\ child'[q] = child[q] /\ copiesOut'[q] = copiesOut[q]

(* A step keeps the types, and the other prints. *)
LEMMA SpoolerStepTyped ==
  ASSUME SpoolerTypeOK, NEW p \in Prints, Step(p) \/ AbortSpooler(p)
  PROVE  SpoolerTypeOK' /\ SpoolerFrame(p)
<1> USE DEF SpoolerTypeOK, SpoolerFrame
<1>1. CASE printText(p)
  <2>1. CASE waiting' = [waiting EXCEPT ![p] = TRUE]
    BY <1>1, <2>1 DEF printText, SpoolerGoes, ChildIs, SpoolerSettle
  <2>2. CASE \E at \in {"settled", "caught"}, o \in {"failed", "none"} : SpoolerSettle(p, at, o)
    BY <1>1, <2>2 DEF printText, SpoolerGoes, ChildIs, SpoolerSettle
  <2>3. QED
    BY <1>1, <2>1, <2>2 DEF printText
<1>2. CASE copyPrinted(p)
  BY <1>2, SpoolerAssumption DEF copyPrinted
<1>3. CASE childCloses(p)
  BY <1>3 DEF childCloses, SpoolerSettle, SpoolerGoes, ChildIs
<1>4. CASE spawnFails(p)
  BY <1>4 DEF spawnFails, SpoolerSettle, SpoolerGoes, ChildIs
<1>5. CASE timeout(p)
  BY <1>5 DEF timeout, SpoolerSettle, SpoolerGoes, ChildIs
<1>6. CASE catch(p)
  BY <1>6 DEF catch, SpoolerSettle, SpoolerGoes
<1>7. CASE AbortSpooler(p)
  <2>1. CASE waiting[p]
    <3>1. /\ spoolStage' = [spoolStage EXCEPT ![p] = "caught"]
          /\ spoolOutcome' = [spoolOutcome EXCEPT ![p] = "none"]
          /\ spoolAborted' = [spoolAborted EXCEPT ![p] = TRUE]
          /\ child' = [child EXCEPT ![p] = "killed"]
          /\ waiting' = [waiting EXCEPT ![p] = FALSE]
          /\ UNCHANGED copiesOut
      BY <1>7, <2>1 DEF AbortSpooler, SpoolerSettle, SpoolerGoes, ChildIs
    <3>2. SpoolerTypeOK'
      BY <3>1
    <3>3. SpoolerFrame(p)
      BY <3>1
    <3>4. QED
      BY <3>2, <3>3
  <2>2. CASE ~waiting[p]
    BY <1>7, <2>2 DEF AbortSpooler
  <2>3. QED
    BY <2>1, <2>2
<1>8. QED
  BY <1>1, <1>2, <1>3, <1>4, <1>5, <1>6, <1>7 DEF Step

(* A step keeps the invariant of its own print. *)
LEMMA SpoolerStepOwn ==
  ASSUME SpoolerTypeOK, SpoolerControl, NEW p \in Prints, Step(p) \/ AbortSpooler(p)
  PROVE  (SpoolerPendingHasNoOutcome(p) /\ ChildFits(p) /\ SucceededIsOut(p) /\ RunsInTime(p))'
<1> USE DEF SpoolerTypeOK, SpoolerControl, SpoolerPendingHasNoOutcome, ChildFits,
            SucceededIsOut, RunsInTime
<1>1. CASE printText(p)
  BY <1>1 DEF printText, SpoolerSettle, SpoolerGoes, ChildIs
<1>2. CASE copyPrinted(p)
  BY <1>2 DEF copyPrinted
<1>3. CASE childCloses(p)
  BY <1>3 DEF childCloses, SpoolerSettle, SpoolerGoes, ChildIs
<1>4. CASE spawnFails(p)
  BY <1>4 DEF spawnFails, SpoolerSettle, SpoolerGoes, ChildIs
<1>5. CASE timeout(p)
  BY <1>5 DEF timeout, SpoolerSettle, SpoolerGoes, ChildIs
<1>6. CASE catch(p)
  BY <1>6 DEF catch, SpoolerSettle, SpoolerGoes
<1>7. CASE AbortSpooler(p)
  BY <1>7 DEF AbortSpooler, SpoolerSettle, SpoolerGoes, ChildIs
<1>8. QED
  BY <1>1, <1>2, <1>3, <1>4, <1>5, <1>6, <1>7 DEF Step

(* One step keeps the invariant. *)
LEMMA SpoolerStepHolds ==
  SpoolerTypeOK /\ SpoolerControl /\ [SpoolerNext]_spoolerVars => SpoolerTypeOK' /\ SpoolerControl'
<1> SUFFICES ASSUME SpoolerTypeOK, SpoolerControl, [SpoolerNext]_spoolerVars
             PROVE  SpoolerTypeOK' /\ SpoolerControl'
  OBVIOUS
<1>1. CASE UNCHANGED spoolerVars
  BY <1>1
     DEF spoolerVars, SpoolerTypeOK, SpoolerControl, SpoolerPendingHasNoOutcome, ChildFits,
         SucceededIsOut, RunsInTime
<1>2. ASSUME NEW p \in Prints, Step(p) \/ AbortSpooler(p)
      PROVE  SpoolerTypeOK' /\ SpoolerControl'
  <2>1. SpoolerTypeOK' /\ SpoolerFrame(p)
    BY <1>2, SpoolerStepTyped
  <2>2. (SpoolerPendingHasNoOutcome(p) /\ ChildFits(p) /\ SucceededIsOut(p) /\ RunsInTime(p))'
    BY <1>2, SpoolerStepOwn
  <2>3. ASSUME NEW q \in Prints, q # p
        PROVE  (/\ SpoolerPendingHasNoOutcome(q) /\ ChildFits(q)
                /\ SucceededIsOut(q) /\ RunsInTime(q))'
    BY <2>1, <2>3
       DEF SpoolerFrame, SpoolerControl, SpoolerPendingHasNoOutcome, ChildFits,
           SucceededIsOut, RunsInTime
  <2>4. QED
    BY <2>1, <2>2, <2>3 DEF SpoolerControl
<1>3. QED
  BY <1>1, <1>2 DEF SpoolerNext

(* The variables of the prints are typed, and a timer and a listener are   *)
(* there exactly while a process is waited for.                            *)
THEOREM SpoolerTypeCorrect == SpoolerSpec => []SpoolerTypeOK
<1>1. QED
  BY SpoolerInitHolds, SpoolerStepHolds, PTL DEF SpoolerSpec

(* A print that has ended leaves no process that is not being killed, for  *)
(* any prints beside one another.                                          *)
THEOREM NoProcessLeftHolds == SpoolerSpec => []NoProcessLeft
<1>1. SpoolerTypeOK /\ SpoolerControl => NoProcessLeft
  BY DEF SpoolerControl, ChildFits, NoProcessLeft
<1>2. QED
  BY <1>1, SpoolerInitHolds, SpoolerStepHolds, PTL DEF SpoolerSpec

(* A step of a print is one that PrintPromise allows of it, or none. *)
LEMMA SpoolerStepIsPromised ==
  ASSUME SpoolerTypeOK, SpoolerControl, NEW p \in Prints, Step(p) \/ AbortSpooler(p)
  PROVE  SpoolerPromise(p)!Next \/ UNCHANGED SpoolerPromise(p)!vars
<1> USE DEF SpoolerTypeOK, SpoolerControl, SpoolerPendingHasNoOutcome
<1>1. CASE printText(p)
  BY <1>1
     DEF printText, SpoolerSettle, SpoolerGoes, ChildIs, SpoolerPromise!Next,
         SpoolerPromise!Ends, SpoolerPromise!Outcomes, SpoolerPromise!vars
<1>2. CASE copyPrinted(p)
  BY <1>2
     DEF copyPrinted, ChildFits, SucceededIsOut, SpoolerPromise!Next, SpoolerPromise!GoesOut
<1>3. CASE childCloses(p)
  BY <1>3
     DEF childCloses, SpoolerSettle, SpoolerGoes, ChildIs, RunsInTime, SpoolerPromise!Next,
         SpoolerPromise!Ends, SpoolerPromise!Outcomes, SpoolerPromise!vars
<1>4. CASE spawnFails(p)
  BY <1>4 DEF spawnFails, SpoolerSettle, SpoolerGoes, SpoolerPromise!vars
<1>5. CASE timeout(p)
  BY <1>5 DEF timeout, SpoolerSettle, SpoolerGoes, SpoolerPromise!vars
<1>6. CASE catch(p)
  BY <1>6
     DEF catch, SpoolerSettle, SpoolerGoes, SpoolerPromise!Next, SpoolerPromise!Ends,
         SpoolerPromise!Outcomes
<1>7. CASE AbortSpooler(p)
  BY <1>7
     DEF AbortSpooler, SpoolerSettle, SpoolerGoes, SpoolerPromise!Next, SpoolerPromise!Abort
<1>8. QED
  BY <1>1, <1>2, <1>3, <1>4, <1>5, <1>6, <1>7 DEF Step

(* Every print through the spooler implements PrintPromise: it has one     *)
(* outcome, success means that all copies went out, and a signal that came *)
(* in time never lets it succeed.                                          *)
THEOREM SpoolerKeepsPromise == SpoolerSpec => PrintsKeepPromise
<1> DEFINE Promised == \A p \in Prints : SpoolerPromise(p)!Next \/ UNCHANGED SpoolerPromise(p)!vars
<1>1. SpoolerInit => \A p \in Prints : SpoolerPromise(p)!Init
  BY DEF SpoolerInit, SpoolerPromise!Init
<1>2. ASSUME SpoolerTypeOK, SpoolerControl, [SpoolerNext]_spoolerVars
      PROVE  [Promised]_spoolerVars
  <2>1. CASE UNCHANGED spoolerVars
    BY <2>1
  <2>2. ASSUME NEW p \in Prints, Step(p) \/ AbortSpooler(p)
        PROVE  Promised
    <3>1. SpoolerPromise(p)!Next \/ UNCHANGED SpoolerPromise(p)!vars
      BY <1>2, <2>2, SpoolerStepIsPromised
    <3>2. ASSUME NEW q \in Prints, q # p
          PROVE  UNCHANGED SpoolerPromise(q)!vars
      BY <1>2, <2>2, <3>2, SpoolerStepTyped DEF SpoolerFrame, SpoolerPromise!vars
    <3>3. QED
      BY <3>1, <3>2
  <2>3. QED
    BY <1>2, <2>1, <2>2 DEF SpoolerNext
<1>3. QED
  BY <1>1, <1>2, SpoolerInitHolds, SpoolerStepHolds, PTL DEF SpoolerSpec, PrintsKeepPromise
-----------------------------------------------------------------------------
(***************************************************************************)
(* PrinterScan: for any hosts and any number of workers.                   *)
(*                                                                         *)
(* The inductive invariant.  The values in the list differ; each has been  *)
(* taken by one worker at most; of those that were taken and are not       *)
(* waited for, what answered is in the result once.  A worker ends only    *)
(* when all values are taken, and each value taken is waited for or has    *)
(* left one element in the result.                                         *)
(***************************************************************************)
HostSet == {Hosts[i] : i \in DOMAIN Hosts}

Active == {w \in Workers : work[w] # 0}

ValuesDiffer == \A i, j \in 1..Len(values) : values[i] = values[j] => i = j

WorkDiffers ==
  /\ \A w \in Workers : work[w] <= taken
  /\ \A v, w \in Workers : work[v] = work[w] /\ work[v] # 0 => v = w

(* The value k has been taken, and its worker has its answer. *)
Finished(k) == k \in 1..taken /\ \A w \in Workers : work[w] # k

ResultIsFinished ==
  \A i \in 1..Len(result) :
    result[i] # NoHost => \E k \in 1..Len(values) : Finished(k) /\ result[i] = values[k]

ResultDiffers ==
  \A i, j \in 1..Len(result) : result[i] = result[j] /\ result[i] # NoHost => i = j

EndsWithAllTaken == \A w \in Workers : work[w] = 0 => taken = Len(values)

EachLeavesOne == Len(result) + Cardinality(Active) = taken

WorkInv ==
  /\ ValuesDiffer
  /\ WorkDiffers
  /\ ResultIsFinished
  /\ ResultDiffers
  /\ EndsWithAllTaken
  /\ EachLeavesOne

(* While they are probed, what answered is what the result holds; the list *)
(* of the names holds what answered, and each of its values is named.      *)
Found == {result[i] : i \in 1..Len(result)} \ {NoHost}

AnswersInResult ==
  /\ phase = "idle" => answered = {}
  /\ phase = "probe" => answered = Found

AnswersInList ==
  phase \in {"name", "done"} =>
    /\ answered = {values[k] : k \in 1..Len(values)}
    /\ \A k \in 1..Len(values) : Finished(k) => values[k] \in Found
    /\ \A i \in 1..Len(result) : result[i] # NoHost

DoneIsIdle == phase = "done" => Idle

ScanInv ==
  /\ WorkInv
  /\ AnswersInResult
  /\ AnswersInList
  /\ DoneIsIdle

(* The workers are finitely many. *)
LEMMA WorkersFinite == IsFiniteSet(Workers) /\ Cardinality(Workers) = Concurrency
BY ScanAssumption, FS_Interval DEF Workers

(* A list of different hosts that the workers start with. *)
LEMMA StartsTyped ==
  ASSUME NEW list \in Seq(HostSet), Starts(list)
  PROVE  /\ values' \in Seq(HostSet) /\ taken' \in 0..Len(values')
         /\ work' \in [Workers -> 0..Len(values')]
         /\ result' \in Seq(HostSet \cup {NoHost})
         /\ values' = list /\ result' = <<>> /\ Len(result') = 0
         /\ taken' = Fewer(Concurrency, Len(list))
         /\ work' = [w \in Workers |-> IF w <= Len(list) THEN w ELSE 0]
<1>1. Len(list) \in Nat /\ Concurrency \in Nat
  BY ScanAssumption
<1>2. /\ values' = list /\ result' = <<>>
      /\ taken' = Fewer(Concurrency, Len(list))
      /\ work' = [w \in Workers |-> IF w <= Len(list) THEN w ELSE 0]
  BY DEF Starts, Workload
<1>3. taken' \in 0..Len(list)
  BY <1>1, <1>2 DEF Fewer
<1>4. work' \in [Workers -> 0..Len(list)]
  BY <1>1, <1>2 DEF Workers
<1>5. QED
  BY <1>2, <1>3, <1>4

(* They start with a value each, as far as there are any. *)
LEMMA StartsWork ==
  ASSUME NEW list \in Seq(HostSet), \A i, j \in 1..Len(list) : list[i] = list[j] => i = j,
         Starts(list)
  PROVE  WorkInv' /\ \A k \in 1..Len(list) : ~Finished(k)'
<1>1. /\ Len(list) \in Nat /\ Concurrency \in Nat
      /\ \A w \in Workers : w \in Nat \ {0} /\ w <= Concurrency
  BY ScanAssumption DEF Workers
<1>2. /\ values' = list /\ result' = <<>> /\ Len(result') = 0
      /\ taken' = Fewer(Concurrency, Len(list))
      /\ work' = [w \in Workers |-> IF w <= Len(list) THEN w ELSE 0]
  BY StartsTyped
<1>3. taken' = IF Concurrency <= Len(list) THEN Concurrency ELSE Len(list)
  BY <1>2 DEF Fewer
<1>4. WorkDiffers'
  BY <1>1, <1>2, <1>3 DEF WorkDiffers
<1>5. EndsWithAllTaken'
  BY <1>1, <1>2, <1>3 DEF EndsWithAllTaken
<1>6. EachLeavesOne'
  <2>1. Active' = 1..taken'
    BY <1>1, <1>2, <1>3 DEF Active, Workers
  <2>2. taken' \in Nat
    BY <1>1, <1>3
  <2>3. Cardinality(1..taken') = taken'
    BY <2>2, FS_Interval
  <2>4. QED
    BY <1>2, <2>1, <2>2, <2>3 DEF EachLeavesOne
<1>7. ValuesDiffer' /\ ResultIsFinished' /\ ResultDiffers'
  BY <1>2 DEF ValuesDiffer, ResultIsFinished, ResultDiffers
<1>8. ASSUME NEW k \in 1..Len(list)
      PROVE  ~Finished(k)'
  <2>1. k \in 1..taken' => k \in Workers /\ work'[k] = k
    BY <1>1, <1>2, <1>3 DEF Workers
  <2>2. QED
    BY <2>1 DEF Finished
<1>9. QED
  BY <1>4, <1>5, <1>6, <1>7, <1>8 DEF WorkInv

(* An answer, and the next value. *)
LEMMA TakesTyped ==
  ASSUME ScanTypeOK, NEW w \in Workers, NEW output \in HostSet \cup {NoHost}, Takes(w, output),
         UNCHANGED values
  PROVE  /\ values' \in Seq(HostSet) /\ taken' \in 0..Len(values')
         /\ work' \in [Workers -> 0..Len(values')]
         /\ result' \in Seq(HostSet \cup {NoHost}) /\ Len(result') = Len(result) + 1
         /\ \A i \in 1..Len(result) : result'[i] = result[i]
         /\ result'[Len(result) + 1] = output
<1>1. values \in Seq(HostSet) /\ Len(values) \in Nat /\ taken \in 0..Len(values)
  BY DEF ScanTypeOK, HostSet
<1>2. result \in Seq(HostSet \cup {NoHost}) /\ result' = Append(result, output)
  BY DEF ScanTypeOK, HostSet, Takes
<1>3. taken' \in 0..Len(values)
  <2>1. taken' = taken \/ (taken < Len(values) /\ taken' = taken + 1)
    BY DEF Takes
  <2>2. QED
    BY <1>1, <2>1
<1>4. work' \in [Workers -> 0..Len(values)]
  BY <1>1 DEF ScanTypeOK, Takes
<1>5. QED
  BY <1>1, <1>2, <1>3, <1>4

(* The two ways on of a worker: the next value, or its end. *)
LEMMA TakesWork ==
  ASSUME ScanTypeOK, WorkInv, NEW w \in Workers, NEW output \in HostSet \cup {NoHost},
         Takes(w, output), UNCHANGED values, output # NoHost => output = values[work[w]]
  PROVE  /\ WorkInv'
         /\ \A k \in 1..Len(values) : Finished(k)' <=> Finished(k) \/ k = work[w]
<1>1. /\ Len(values) \in Nat /\ taken \in 0..Len(values)
      /\ work \in [Workers -> 0..Len(values)] /\ work[w] # 0
  BY DEF ScanTypeOK, Takes
<1>2. /\ Len(result') = Len(result) + 1 /\ Len(result) \in Nat
      /\ \A i \in 1..Len(result) : result'[i] = result[i]
      /\ result'[Len(result) + 1] = output
  BY TakesTyped DEF ScanTypeOK
<1>3. \/ /\ taken < Len(values) /\ taken' = taken + 1
         /\ work' = [work EXCEPT ![w] = taken + 1]
      \/ /\ taken = Len(values) /\ taken' = taken
         /\ work' = [work EXCEPT ![w] = 0]
  <2>1. CASE taken < Len(values)
    BY <2>1, Zenon DEF Takes
  <2>2. CASE ~(taken < Len(values))
    <3>1. taken' = taken /\ work' = [work EXCEPT ![w] = 0]
      BY <2>2, Zenon DEF Takes
    <3>2. QED
      BY <1>1, <2>2, <3>1
  <2>3. QED
    BY <2>1, <2>2
<1>4. WorkDiffers /\ work[w] \in 1..taken
  BY <1>1 DEF WorkInv, WorkDiffers
<1>5. WorkDiffers'
  BY <1>1, <1>3, <1>4 DEF WorkDiffers
<1>6. ASSUME NEW k \in 1..Len(values)
      PROVE  Finished(k)' <=> Finished(k) \/ k = work[w]
  BY <1>1, <1>3, <1>4 DEF WorkDiffers, Finished
<1>7. ~Finished(work[w])
  BY DEF Finished
<1>8. ValuesDiffer /\ ValuesDiffer'
  BY DEF WorkInv, ValuesDiffer
<1>9. EndsWithAllTaken'
  BY <1>1, <1>3 DEF WorkInv, EndsWithAllTaken
<1>10. ResultIsFinished'
  <2>1. ASSUME NEW i \in 1..Len(result'), result'[i] # NoHost
        PROVE  \E k \in 1..Len(values) : Finished(k)' /\ result'[i] = values[k]
    <3>1. CASE i \in 1..Len(result)
      <4>1. PICK k \in 1..Len(values) : Finished(k) /\ result[i] = values[k]
        BY <1>2, <2>1, <3>1 DEF WorkInv, ResultIsFinished
      <4>2. QED
        BY <1>2, <1>6, <3>1, <4>1
    <3>2. CASE i = Len(result) + 1
      <4>1. work[w] \in 1..Len(values) /\ result'[i] = values[work[w]]
        BY <1>1, <1>2, <2>1, <3>2
      <4>2. QED
        BY <1>6, <4>1
    <3>3. QED
      BY <1>2, <3>1, <3>2
  <2>2. QED
    BY <2>1 DEF ResultIsFinished
<1>11. ResultDiffers'
  <2>1. ASSUME NEW i \in 1..Len(result), result[i] = output, output # NoHost
        PROVE  FALSE
    <3>1. PICK k \in 1..Len(values) : Finished(k) /\ result[i] = values[k]
      BY <2>1 DEF WorkInv, ResultIsFinished
    <3>2. work[w] \in 1..Len(values) /\ values[k] = values[work[w]]
      BY <1>1, <2>1, <3>1
    <3>3. k = work[w]
      BY <1>8, <3>2 DEF ValuesDiffer
    <3>4. QED
      BY <1>7, <3>1, <3>3
  <2>2. ResultDiffers
    BY DEF WorkInv
  <2>3. \A i \in 1..Len(result') : i \in 1..Len(result) \/ i = Len(result) + 1
    BY <1>2
  <2>4. ASSUME NEW i \in 1..Len(result'), NEW j \in 1..Len(result'),
               result'[i] = result'[j], result'[i] # NoHost
        PROVE  i = j
    <3>1. CASE i \in 1..Len(result) /\ j \in 1..Len(result)
      BY <1>2, <2>2, <2>4, <3>1 DEF ResultDiffers
    <3>2. CASE i \in 1..Len(result) /\ j = Len(result) + 1
      BY <1>2, <2>1, <2>4, <3>2
    <3>3. CASE i = Len(result) + 1 /\ j \in 1..Len(result)
      BY <1>2, <2>1, <2>4, <3>3
    <3>4. QED
      BY <2>3, <3>1, <3>2, <3>3
  <2>5. QED
    BY <2>4 DEF ResultDiffers
<1>12. EachLeavesOne'
  <2>1. IsFiniteSet(Active) /\ w \in Active
    <3>1. Active \in SUBSET Workers
      BY DEF Active
    <3>2. QED
      BY <1>1, <3>1, WorkersFinite, FS_Subset DEF Active
  <2>2. Len(result) + Cardinality(Active) = taken /\ Cardinality(Active) \in Nat
    BY <2>1, FS_CardinalityType DEF WorkInv, EachLeavesOne
  <2>3. CASE /\ taken' = taken + 1
             /\ work' = [work EXCEPT ![w] = taken + 1]
    <3>1. Active' = Active
      BY <1>1, <2>1, <2>3 DEF Active
    <3>2. QED
      BY <1>1, <1>2, <2>2, <2>3, <3>1 DEF EachLeavesOne
  <2>4. CASE taken' = taken /\ work' = [work EXCEPT ![w] = 0]
    <3>1. Active' = Active \ {w}
      BY <1>1, <2>1, <2>4 DEF Active
    <3>2. Cardinality(Active') = Cardinality(Active) - 1
      BY <2>1, <3>1, FS_RemoveElement
    <3>3. QED
      BY <1>1, <1>2, <2>2, <2>4, <3>2 DEF EachLeavesOne
  <2>5. QED
    BY <1>3, <2>3, <2>4
<1>13. QED
  BY <1>5, <1>6, <1>8, <1>9, <1>10, <1>11, <1>12 DEF WorkInv

(* The result after an answer. *)
LEMMA TakesFound ==
  ASSUME ScanTypeOK, NEW w \in Workers, NEW output \in HostSet \cup {NoHost}, Takes(w, output),
         UNCHANGED values
  PROVE  Found' = IF output = NoHost THEN Found ELSE Found \cup {output}
<1>1. /\ Len(result') = Len(result) + 1 /\ Len(result) \in Nat
      /\ \A i \in 1..Len(result) : result'[i] = result[i]
      /\ result'[Len(result) + 1] = output
  BY TakesTyped DEF ScanTypeOK
<1>2. {result'[i] : i \in 1..Len(result')} = {result[i] : i \in 1..Len(result)} \cup {output}
  <2>1. 1..Len(result') = (1..Len(result)) \cup {Len(result) + 1}
    BY <1>1
  <2>2. QED
    BY <1>1, <2>1
<1>3. QED
  BY <1>2 DEF Found

(* Hosts is a list of different hosts. *)
LEMMA HostsDiffer ==
  /\ Hosts \in Seq(HostSet) /\ DOMAIN Hosts = 1..Len(Hosts)
  /\ NoHost \notin HostSet
  /\ \A i, j \in 1..Len(Hosts) : Hosts[i] = Hosts[j] => i = j
<1>1. Hosts \in Seq(HostSet)
  BY ScanAssumption DEF HostSet
<1>2. DOMAIN Hosts = 1..Len(Hosts)
  BY <1>1
<1>3. QED
  BY <1>1, <1>2, ScanAssumption DEF HostSet

(* The initial states are typed and satisfy the invariant. *)
LEMMA ScanInitHolds == ScanInit => ScanTypeOK /\ ScanInv
<1> SUFFICES ASSUME ScanInit
             PROVE  ScanTypeOK /\ ScanInv
  OBVIOUS
<1>1. /\ values = <<>> /\ result = <<>> /\ taken = 0 /\ phase = "idle" /\ answered = {}
      /\ scanAborted = FALSE /\ work = [w \in Workers |-> IF w <= 0 THEN w ELSE 0]
  BY DEF ScanInit, Workload
<1>2. \A w \in Workers : w \in Nat \ {0}
  BY ScanAssumption DEF Workers
<1>3. work = [w \in Workers |-> 0]
  BY <1>1, <1>2
<1>4. ScanTypeOK
  <2>1. /\ values \in Seq(HostSet) /\ Len(values) = 0
        /\ result \in Seq(HostSet \cup {NoHost})
    BY <1>1
  <2>2. taken \in 0..Len(values) /\ work \in [Workers -> 0..Len(values)]
    BY <1>1, <1>3, <2>1
  <2>3. QED
    BY <1>1, <2>1, <2>2 DEF ScanTypeOK, HostSet
<1>5. EachLeavesOne
  <2>1. Active = {}
    BY <1>3 DEF Active
  <2>2. QED
    BY <1>1, <2>1, FS_EmptySet DEF EachLeavesOne
<1>6. WorkInv
  BY <1>1, <1>3, <1>5 DEF WorkInv, ValuesDiffer, WorkDiffers, ResultIsFinished, ResultDiffers,
                        EndsWithAllTaken
<1>7. ScanInv
  BY <1>1, <1>6 DEF ScanInv, AnswersInResult, AnswersInList, DoneIsIdle
<1>8. QED
  BY <1>4, <1>7

(* Every step keeps the types and the invariant. *)
LEMMA ScanStepHolds == ScanTypeOK /\ ScanInv /\ [ScanNext]_scanVars => ScanTypeOK' /\ ScanInv'
<1> SUFFICES ASSUME ScanTypeOK, ScanInv, [ScanNext]_scanVars
             PROVE  ScanTypeOK' /\ ScanInv'
  OBVIOUS
<1>1. CASE discover
  <2>1. ScanTypeOK'
    BY <1>1, HostsDiffer, StartsTyped DEF discover, ScanTypeOK, HostSet
  <2>2. WorkInv' /\ result' = <<>>
    BY <1>1, HostsDiffer, StartsWork, StartsTyped DEF discover
  <2>3. answered' = {} /\ phase' = "probe"
    BY <1>1 DEF discover, ScanInv, AnswersInResult
  <2>4. ScanInv'
    BY <2>2, <2>3 DEF ScanInv, AnswersInResult, AnswersInList, DoneIsIdle, Found
  <2>5. QED
    BY <2>1, <2>4
<1>2. ASSUME NEW w \in Workers, unreachable(w)
      PROVE  ScanTypeOK' /\ ScanInv'
  <2>1. /\ phase = "probe" /\ Takes(w, NoHost)
        /\ UNCHANGED <<phase, values, scanAborted, answered>>
    BY <1>2 DEF unreachable
  <2>2. ScanTypeOK'
    BY <2>1, TakesTyped DEF ScanTypeOK, HostSet
  <2>3. WorkInv' /\ Found' = Found
    BY <2>1, TakesWork, TakesFound DEF ScanInv
  <2>4. ScanInv'
    BY <2>1, <2>3 DEF ScanInv, AnswersInResult, AnswersInList, DoneIsIdle
  <2>5. QED
    BY <2>2, <2>4
<1>3. ASSUME NEW w \in Workers, reachable(w)
      PROVE  ScanTypeOK' /\ ScanInv'
  <2> DEFINE host == values[work[w]]
  <2>1. /\ phase = "probe" /\ Takes(w, host)
        /\ answered' = answered \cup {host}
        /\ UNCHANGED <<phase, values, scanAborted>>
    BY <1>3 DEF reachable
  <2>2. host \in HostSet /\ host # NoHost
    BY <2>1, HostsDiffer DEF Takes, ScanTypeOK, HostSet
  <2> HIDE DEF host
  <2>3. ScanTypeOK'
    BY <2>1, <2>2, TakesTyped DEF ScanTypeOK, HostSet
  <2>4. WorkInv'
    BY <2>1, <2>2, TakesWork DEF ScanInv, host
  <2>5. Found' = Found \cup {host}
    BY <2>1, <2>2, TakesFound
  <2>6. ScanInv'
    BY <2>1, <2>4, <2>5 DEF ScanInv, AnswersInResult, AnswersInList, DoneIsIdle
  <2>7. QED
    BY <2>3, <2>6
<1>4. CASE probed
  <2> DEFINE Answers == {result[i] : i \in DOMAIN result} \ {NoHost}
             list == Selected(result, Answers)
  <2>1. /\ phase = "probe" /\ phase' = "name" /\ Starts(list)
        /\ UNCHANGED <<scanAborted, answered>>
    BY <1>4 DEF probed
  <2>2. result \in Seq(HostSet \cup {NoHost}) /\ DOMAIN result = 1..Len(result)
    BY DEF ScanTypeOK, HostSet
  <2>3. Answers = Found
    BY <2>2 DEF Found
  <2>4. Found \subseteq HostSet
    BY <2>2 DEF Found
  <2> HIDE DEF Answers
  <2>5. /\ list \in Seq((HostSet \cup {NoHost}) \cap Found)
        /\ \A x : (\E i \in 1..Len(list) : list[i] = x)
                    <=> (x \in Found /\ \E k \in 1..Len(result) : result[k] = x)
    BY <2>2, <2>3, SelectedElements
  <2>6. list \in Seq(HostSet)
    <3>1. (HostSet \cup {NoHost}) \cap Found \subseteq HostSet
      BY <2>4
    <3>2. QED
      BY <2>5, <3>1, SeqMonotonic
  <2>7. ASSUME NEW i \in 1..Len(list), NEW j \in 1..Len(list), list[i] = list[j]
        PROVE  i = j
    <3>1. PICK at : SelectedFrom(result, Found, list, Len(result), at)
      BY <2>2, <2>3, SelectedPlaces
    <3> HIDE DEF list
    <3>2. /\ at[i] \in 1..Len(result) /\ at[j] \in 1..Len(result)
          /\ result[at[i]] = list[i] /\ result[at[j]] = list[j] /\ list[i] \in Found
      BY <3>1 DEF SelectedFrom
    <3>3. at[i] = at[j]
      BY <2>7, <3>2 DEF ScanInv, WorkInv, ResultDiffers, Found
    <3>4. Len(result) \in Nat /\ Len(list) \in Nat
      BY <2>2, <2>6
    <3>5. ~(i < j) /\ ~(j < i)
      BY <3>1, <3>2, <3>3, <3>4 DEF SelectedFrom
    <3>6. QED
      BY <3>4, <3>5
  <2>8. {list[i] : i \in 1..Len(list)} = Found
    <3>1. \A x \in Found : \E k \in 1..Len(result) : result[k] = x
      BY DEF Found
    <3> HIDE DEF list
    <3>2. QED
      BY <2>5, <3>1
  <2> HIDE DEF list
  <2>9. ScanTypeOK'
    BY <2>1, <2>6, StartsTyped DEF ScanTypeOK, HostSet
  <2>10. WorkInv' /\ \A k \in 1..Len(list) : ~Finished(k)'
    BY <2>1, <2>6, <2>7, StartsWork
  <2>11. values' = list /\ result' = <<>>
    BY <2>1, <2>6, StartsTyped
  <2>12. answered = Found
    BY <2>1 DEF ScanInv, AnswersInResult
  <2>13. AnswersInList'
    BY <2>1, <2>8, <2>10, <2>11, <2>12 DEF AnswersInList
  <2>14. ScanInv'
    BY <2>1, <2>10, <2>13 DEF ScanInv, AnswersInResult, DoneIsIdle
  <2>15. QED
    BY <2>9, <2>14
<1>5. ASSUME NEW w \in Workers, named(w)
      PROVE  ScanTypeOK' /\ ScanInv'
  <2> DEFINE host == values[work[w]]
  <2>1. /\ phase = "name" /\ Takes(w, host)
        /\ UNCHANGED <<phase, values, scanAborted, answered>>
    BY <1>5 DEF named
  <2>2. work[w] \in 1..Len(values) /\ host \in HostSet /\ host # NoHost
    BY <2>1, HostsDiffer DEF Takes, ScanTypeOK, HostSet
  <2> HIDE DEF host
  <2>3. ScanTypeOK'
    BY <2>1, <2>2, TakesTyped DEF ScanTypeOK, HostSet
  <2>4. WorkInv' /\ \A k \in 1..Len(values) : Finished(k)' <=> Finished(k) \/ k = work[w]
    BY <2>1, <2>2, TakesWork DEF ScanInv, host
  <2>5. Found' = Found \cup {host}
    BY <2>1, <2>2, TakesFound
  <2>6. \A k \in 1..Len(values) : Finished(k)' => values[k] \in Found'
    BY <2>1, <2>4, <2>5 DEF ScanInv, AnswersInList, host
  <2>7. \A i \in 1..Len(result') : result'[i] # NoHost
    <3>1. /\ Len(result') = Len(result) + 1 /\ Len(result) \in Nat
          /\ \A i \in 1..Len(result) : result'[i] = result[i]
          /\ result'[Len(result) + 1] = host
      BY <2>1, <2>2, TakesTyped DEF ScanTypeOK
    <3>2. \A i \in 1..Len(result) : result[i] # NoHost
      BY <2>1 DEF ScanInv, AnswersInList
    <3>3. QED
      BY <2>2, <3>1, <3>2
  <2>8. AnswersInList'
    BY <2>1, <2>6, <2>7 DEF ScanInv, AnswersInList
  <2>9. ScanInv'
    BY <2>1, <2>4, <2>8 DEF ScanInv, AnswersInResult, DoneIsIdle
  <2>10. QED
    BY <2>3, <2>9
<1>6. CASE found
  <2>1. ScanTypeOK'
    BY <1>6 DEF found, ScanTypeOK
  <2>2. WorkInv' /\ AnswersInList' /\ DoneIsIdle'
    BY <1>6
       DEF found, ScanInv, WorkInv, ValuesDiffer, WorkDiffers, ResultIsFinished,
           ResultDiffers, EndsWithAllTaken, EachLeavesOne, Active, Finished, AnswersInList,
           Found, DoneIsIdle, Idle
  <2>3. QED
    BY <1>6, <2>1, <2>2 DEF found, ScanInv, AnswersInResult
<1>7. CASE AbortScan \/ UNCHANGED scanVars
  <2>1. UNCHANGED <<phase, values, taken, work, result, answered>> /\ scanAborted' \in BOOLEAN
    BY <1>7 DEF AbortScan, scanVars, ScanTypeOK
  <2>2. ScanTypeOK'
    BY <2>1 DEF ScanTypeOK
  <2>3. WorkInv'
    BY <2>1 DEF ScanInv, WorkInv, ValuesDiffer, WorkDiffers, ResultIsFinished, ResultDiffers,
                EndsWithAllTaken, EachLeavesOne, Active, Finished
  <2>4. AnswersInResult' /\ AnswersInList' /\ DoneIsIdle'
    BY <2>1 DEF ScanInv, AnswersInResult, AnswersInList, Finished, Found, DoneIsIdle, Idle
  <2>5. QED
    BY <2>2, <2>3, <2>4 DEF ScanInv
<1>8. QED
  BY <1>1, <1>2, <1>3, <1>4, <1>5, <1>6, <1>7 DEF ScanNext, Worker

(* The workers are at values of the list that have been taken, and the     *)
(* result holds hosts, for any hosts and any number of workers.            *)
THEOREM ScanTypeCorrect == ScanSpec => []ScanTypeOK
<1>1. QED
  BY ScanInitHolds, ScanStepHolds, PTL DEF ScanSpec

(* A search asks every host and lists each one that answered once and      *)
(* nothing else, in whatever order the workers are answered and whether or *)
(* not the search is canceled meanwhile.                                   *)
THEOREM FindsAllHolds == ScanSpec => []FindsAll
<1>1. ASSUME ScanTypeOK, ScanInv
      PROVE  FindsAll
  <2>1. DOMAIN result = 1..Len(result) /\ Len(result) \in Nat /\ taken \in 0..Len(values)
    <3>1. result \in Seq(HostSet \cup {NoHost}) /\ taken \in 0..Len(values)
      BY <1>1 DEF ScanTypeOK, HostSet
    <3>2. QED
      BY <3>1
  <2>2. FoundOnce
    BY <1>1, <2>1 DEF ScanInv, WorkInv, ResultDiffers, AnswersInList, FoundOnce
  <2>3. Idle => taken = Len(values) /\ Len(result) = taken
    <3>1. SUFFICES ASSUME Idle
                   PROVE  taken = Len(values) /\ Len(result) = taken
      OBVIOUS
    <3>2. 1 \in Workers
      BY ScanAssumption DEF Workers
    <3>3. taken = Len(values)
      BY <1>1, <3>1, <3>2 DEF ScanInv, WorkInv, EndsWithAllTaken, Idle
    <3>4. Active = {}
      BY <3>1 DEF Active, Idle
    <3>5. QED
      BY <1>1, <2>1, <3>3, <3>4, FS_EmptySet DEF ScanInv, WorkInv, EachLeavesOne
  <2>4. EveryHostAsked
    BY <2>3 DEF EveryHostAsked
  <2>5. AnsweredIsFound
    <3>1. SUFFICES ASSUME phase = "done"
                   PROVE  {result[i] : i \in DOMAIN result} = answered
      BY DEF AnsweredIsFound
    <3>2. Idle /\ taken = Len(values)
      BY <1>1, <2>3, <3>1 DEF ScanInv, DoneIsIdle
    <3>3. \A k \in 1..Len(values) : Finished(k)
      BY <3>2 DEF Finished, Idle
    <3>4. /\ answered = {values[k] : k \in 1..Len(values)}
          /\ \A k \in 1..Len(values) : values[k] \in Found
          /\ \A i \in 1..Len(result) : result[i] # NoHost
      BY <1>1, <3>1, <3>3 DEF ScanInv, AnswersInList
    <3>5. \A i \in 1..Len(result) : \E k \in 1..Len(values) : result[i] = values[k]
      BY <1>1, <3>4 DEF ScanInv, WorkInv, ResultIsFinished
    <3>6. {result[i] : i \in 1..Len(result)} = {values[k] : k \in 1..Len(values)}
      <4>1. \A k \in 1..Len(values) : \E i \in 1..Len(result) : result[i] = values[k]
        BY <3>4 DEF Found
      <4>2. \A i \in 1..Len(result) : result[i] \in {values[k] : k \in 1..Len(values)}
        BY <3>5
      <4>3. \A k \in 1..Len(values) : values[k] \in {result[i] : i \in 1..Len(result)}
        BY <4>1
      <4>4. QED
        BY <4>2, <4>3
    <3>7. QED
      BY <2>1, <3>4, <3>6
  <2>6. QED
    BY <2>2, <2>4, <2>5 DEF FindsAll
<1>2. QED
  BY <1>1, ScanInitHolds, ScanStepHolds, PTL DEF ScanSpec
-----------------------------------------------------------------------------
(***************************************************************************)
(* DiagnosticLog: for any numbers of files, lines, events and faults.      *)
(*                                                                         *)
(* The inductive invariant has three parts.  The first one is about order: *)
(* the lines of older files, of the newer ones and the queue follow one    *)
(* another, and what a reader has seen comes before the files it has still *)
(* to read, although they are renamed under it.                            *)
(***************************************************************************)
LogLine == (1..MaxEvents) \cup {Torn}

LogShape ==
  /\ step # "idle" => queue # <<>>
  /\ step = "rotate" => rotating \in 1..Oldest
  /\ step = "write" => Len(files[0]) < LinesPerFile
  /\ reader = "reads" => fileAt \in Indices
  /\ reader \in {"idle", "waits"} => seen = <<>>
  /\ reader = "waits" => fileAt = Oldest
  /\ until <= events

LinesInOrder ==
  \A i, j \in Indices : \A k \in 1..Len(files[i]), l \in 1..Len(files[j]) :
    /\ IsEvent(files[i][k]) /\ IsEvent(files[j][l])
    /\ i > j \/ (i = j /\ k < l)
    => files[i][k] < files[j][l]

QueueInOrder ==
  /\ \A k, l \in 1..Len(queue) : k < l => queue[k] < queue[l]
  /\ \A k \in 1..Len(queue) : queue[k] <= events

LinesBeforeQueue ==
  \A i \in Indices : \A k \in 1..Len(files[i]) :
    IsEvent(files[i][k]) =>
      files[i][k] <= events /\ \A l \in 1..Len(queue) : files[i][k] < queue[l]

SeenIsBefore ==
  reader = "reads" =>
    \A s \in 1..Len(seen) :
      /\ seen[s] <= events
      /\ \A l \in 1..Len(queue) : seen[s] < queue[l]
      /\ \A i \in 0..fileAt : \A k \in 1..Len(files[i]) :
           IsEvent(files[i][k]) => seen[s] < files[i][k]

OrderInv ==
  LinesInOrder /\ QueueInOrder /\ LinesBeforeQueue /\ SeenIsBefore /\ ExportsInOrder

(***************************************************************************)
(* The second part is about a reading without faults and renames: what it  *)
(* has passed is in what it has seen, as far as it was logged before.      *)
(***************************************************************************)
NothingTorn ==
  faults = 0 => ~open /\ \A i \in Indices : \A k \in 1..Len(files[i]) : IsEvent(files[i][k])

QueueIsLater == reader \in {"reads", "done"} => \A l \in 1..Len(queue) : until < queue[l]

IsSeen(entry) == \E s \in 1..Len(seen) : seen[s] = entry

PassedIsSeen ==
  reader = "reads" /\ faults = 0 /\ ~renamed =>
    \A i \in Indices : \A k \in 1..Len(files[i]) :
      i > fileAt /\ files[i][k] <= until => IsSeen(files[i][k])

StoredIsSeen ==
  reader = "done" /\ faults = 0 /\ ~renamed /\ Len(seen) < Limit =>
    \A i \in Indices : \A k \in 1..Len(files[i]) :
      files[i][k] <= until => IsSeen(files[i][k])

ReadInv == NothingTorn /\ QueueIsLater /\ PassedIsSeen /\ StoredIsSeen

(***************************************************************************)
(* The third part says where the entries are as long as nothing fails: the *)
(* newest ones are in the current file, and every other file is full of    *)
(* those before the ones of the next newer file, or empty.  While a        *)
(* rotation goes on, the files it has renamed are one further.             *)
(***************************************************************************)
Offset == [i \in 0..MaxFiles |-> i * LinesPerFile]

SettledLast == events - Len(queue)

Shifted(i) == IF step = "rotate" /\ i >= rotating /\ i < Oldest THEN i + 1 ELSE i

Rotated(i) == step = "rotate" /\ rotating < Oldest /\ i = Oldest

QueueIsLast == \A l \in 1..Len(queue) : queue[l] = SettledLast + l

CurrentIsNewest ==
  \A k \in 1..Len(files[0]) : files[0][k] = SettledLast - Len(files[0]) + k

OthersAreFull ==
  \A i \in 1..Oldest :
    ~Rotated(i) =>
      \/ files[Shifted(i)] = <<>> /\ SettledLast - Len(files[0]) <= Offset[i - 1]
      \/ /\ Len(files[Shifted(i)]) = LinesPerFile
         /\ \A k \in 1..LinesPerFile :
              files[Shifted(i)][k] = SettledLast - Len(files[0]) - Offset[i] + k

Gap ==
  step = "rotate" => Len(files[0]) = LinesPerFile /\ (rotating < Oldest => files[rotating] = <<>>)

KeptInv == faults = 0 => QueueIsLast /\ CurrentIsNewest /\ OthersAreFull /\ Gap

LogInv == LogShape /\ OrderInv /\ ReadInv /\ KeptInv

(* What the constants and the types say of files and lines. *)
LEMMA LogFacts ==
  /\ MaxFiles \in Nat /\ Oldest \in Nat \ {0} /\ Oldest = MaxFiles - 1
  /\ LinesPerFile \in Nat \ {0} /\ Limit \in Nat \ {0}
  /\ MaxEvents \in Nat /\ MaxFaults \in Nat
  /\ 0 \in Indices /\ Oldest \in Indices
  /\ \A i \in Indices : i \in Nat /\ i <= Oldest
  /\ \A i \in Nat : i <= Oldest => i \in Indices
  /\ \A line \in LogLine : IsEvent(line) <=> line \in 1..MaxEvents
BY LogAssumption DEF Oldest, Indices, LogLine, IsEvent

(* The types in parts *)
LEMMA LogTypes ==
  ASSUME LogTypeOK
  PROVE  /\ \A i \in Indices :
              files[i] \in Seq(LogLine) /\ Len(files[i]) \in Nat /\ Len(files[i]) <= LinesPerFile
         /\ \A i \in Indices : \A k \in 1..Len(files[i]) : files[i][k] \in LogLine
         /\ queue \in Seq(1..MaxEvents) /\ Len(queue) \in Nat
         /\ \A k \in 1..Len(queue) : queue[k] \in 1..MaxEvents
         /\ seen \in Seq(1..MaxEvents) /\ Len(seen) \in Nat
         /\ \A k \in 1..Len(seen) : seen[k] \in 1..MaxEvents
         /\ events \in Nat /\ until \in Nat /\ rotating \in Indices
<1>1. \A i \in Indices : files[i] \in Seq(LogLine) /\ Len(files[i]) <= LinesPerFile
  BY DEF LogTypeOK, LogLine
<1>2. \A i \in Indices : Len(files[i]) \in Nat /\ \A k \in 1..Len(files[i]) : files[i][k] \in LogLine
  BY <1>1
<1>3. queue \in Seq(1..MaxEvents) /\ seen \in Seq(1..MaxEvents)
  BY DEF LogTypeOK
<1>4. /\ Len(queue) \in Nat /\ \A k \in 1..Len(queue) : queue[k] \in 1..MaxEvents
      /\ Len(seen) \in Nat /\ \A k \in 1..Len(seen) : seen[k] \in 1..MaxEvents
  <2>1. Len(queue) \in Nat /\ Len(seen) \in Nat
    BY <1>3, LenProperties
  <2>2. \A k \in 1..Len(queue) : queue[k] \in 1..MaxEvents
    BY <1>3, ElementOfSeq
  <2>3. \A k \in 1..Len(seen) : seen[k] \in 1..MaxEvents
    BY <1>3, ElementOfSeq
  <2>4. QED
    BY <2>1, <2>2, <2>3
<1>5. events \in Nat /\ until \in Nat /\ rotating \in Indices
  BY LogFacts DEF LogTypeOK
<1>6. QED
  BY <1>1, <1>2, <1>3, <1>4, <1>5

(* What is appended to the current file *)
LEMMA AppendedLines ==
  ASSUME LogTypeOK, LogShape, step = "write", NEW entry \in LogLine, files' = Appended(entry)
  PROVE  /\ files' \in [Indices -> Seq(LogLine)]
         /\ \A i \in Indices : i # 0 => files'[i] = files[i]
         /\ \A i \in Indices : Len(files'[i]) <= LinesPerFile
         /\ open => /\ Len(files'[0]) = Len(files[0]) /\ files'[0][Len(files[0])] = Torn
                    /\ \A k \in 1..Len(files[0]) : k # Len(files[0]) => files'[0][k] = files[0][k]
         /\ ~open => /\ Len(files'[0]) = Len(files[0]) + 1
                     /\ files'[0][Len(files[0]) + 1] = entry
                     /\ \A k \in 1..Len(files[0]) : files'[0][k] = files[0][k]
<1>1. PICK last : last = files[0]
  OBVIOUS
<1>2. PICK l \in Nat : l = Len(files[0])
  BY LogTypes, LogFacts
<1>3. last \in Seq(LogLine) /\ Len(last) = l /\ l < LinesPerFile /\ LinesPerFile \in Nat
  BY <1>1, <1>2, LogTypes, LogFacts DEF LogShape
<1>4. files \in [Indices -> Seq(LogLine)] /\ 0 \in Indices
  BY LogFacts DEF LogTypeOK, LogLine
<1>5. CASE open
  <2>1. files' = [files EXCEPT ![0] = [last EXCEPT ![l] = Torn]]
    BY <1>1, <1>2, <1>4, <1>5 DEF Appended
  <2>2. l \in 1..l
    BY <1>1, <1>2, <1>5, <1>3 DEF LogTypeOK
  <2>3. PICK new : new = [last EXCEPT ![l] = Torn]
    OBVIOUS
  <2>4. /\ new \in Seq(LogLine) /\ Len(new) = l
        /\ \A j \in 1..l : new[j] = IF j = l THEN Torn ELSE last[j]
    BY <1>3, <2>2, <2>3, ExceptSeq DEF LogLine
  <2>5. files' = [files EXCEPT ![0] = new]
    BY <2>1, <2>3
  <2>6. files'[0] = new /\ \A i \in Indices : i # 0 => files'[i] = files[i]
    BY <1>4, <2>5
  <2>7. files' \in [Indices -> Seq(LogLine)]
    BY <1>4, <2>4, <2>5
  <2>8. \A i \in Indices : Len(files'[i]) <= LinesPerFile
    BY <1>3, <2>4, <2>6, LogTypes
  <2>9. QED
    BY <1>1, <1>2, <1>5, <2>2, <2>4, <2>6, <2>7, <2>8
<1>6. CASE ~open
  <2>1. files' = [files EXCEPT ![0] = Append(last, entry)]
    BY <1>1, <1>4, <1>6 DEF Appended
  <2>2. PICK new : new = Append(last, entry)
    OBVIOUS
  <2>3. /\ new \in Seq(LogLine) /\ Len(new) = l + 1
        /\ \A j \in 1..l : new[j] = last[j]
        /\ new[l + 1] = entry
    BY <1>3, <2>2, AppendProperties
  <2>4. files' = [files EXCEPT ![0] = new]
    BY <2>1, <2>2
  <2>5. files'[0] = new /\ \A i \in Indices : i # 0 => files'[i] = files[i]
    BY <1>4, <2>4
  <2>6. files' \in [Indices -> Seq(LogLine)]
    BY <1>4, <2>3, <2>4
  <2>7. \A i \in Indices : Len(files'[i]) <= LinesPerFile
    BY <1>3, <2>3, <2>5, LogTypes
  <2>8. QED
    BY <1>1, <1>2, <1>6, <2>3, <2>5, <2>6, <2>7
<1>7. QED
  BY <1>5, <1>6

(* The entries that the current file then holds are those it held, and the *)
(* one appended.                                                           *)
LEMMA AppendedEvents ==
  ASSUME LogTypeOK, LogShape, step = "write", NEW entry \in LogLine, files' = Appended(entry)
  PROVE  \A k \in 1..Len(files'[0]) :
           IsEvent(files'[0][k]) =>
             \/ k \in 1..Len(files[0]) /\ files'[0][k] = files[0][k]
             \/ k = Len(files[0]) + 1 /\ files'[0][k] = entry
<1>1. Len(files[0]) \in Nat
  BY LogTypes, LogFacts
<1>2. CASE open
  BY <1>1, <1>2, AppendedLines DEF IsEvent
<1>3. CASE ~open
  BY <1>1, <1>3, AppendedLines
<1>4. QED
  BY <1>2, <1>3

(* A rename: the file is one further, or it is not there. *)
LEMMA RotatedFiles ==
  ASSUME LogTypeOK, LogShape, rotate
  PROVE  /\ files' \in [Indices -> Seq(LogLine)]
         /\ \A i \in Indices : Len(files'[i]) <= LinesPerFile
         /\ rotating \in 1..Oldest /\ rotating - 1 \in Indices /\ rotating \in Indices
         /\ \/ files[rotating - 1] = <<>> /\ files' = files
            \/ /\ files'[rotating] = files[rotating - 1] /\ files'[rotating - 1] = <<>>
               /\ \A i \in Indices : i \notin {rotating, rotating - 1} => files'[i] = files[i]
<1>1. rotating \in 1..Oldest /\ rotating - 1 \in Indices /\ rotating \in Indices
  BY LogFacts DEF rotate, LogShape
<1>2. files \in [Indices -> Seq(LogLine)]
  BY DEF LogTypeOK, LogLine
<1>3. CASE files[rotating - 1] = <<>>
  BY <1>1, <1>2, <1>3 DEF rotate, LogTypeOK
<1>4. CASE files[rotating - 1] # <<>>
  <2>1. files' = [files EXCEPT ![rotating] = files[rotating - 1], ![rotating - 1] = <<>>]
    BY <1>4 DEF rotate
  <2>2. rotating # rotating - 1
    BY <1>1, LogFacts
  <2>3. /\ files'[rotating] = files[rotating - 1] /\ files'[rotating - 1] = <<>>
        /\ \A i \in Indices : i \notin {rotating, rotating - 1} => files'[i] = files[i]
    BY <1>1, <1>2, <2>1, <2>2
  <2>4. <<>> \in Seq(LogLine) /\ files[rotating - 1] \in Seq(LogLine)
    BY <1>1, <1>2
  <2>5. files' \in [Indices -> Seq(LogLine)]
    BY <1>2, <2>1, <2>4
  <2>6. ASSUME NEW i \in Indices
        PROVE  Len(files'[i]) <= LinesPerFile
    <3>1. Len(files[i]) <= LinesPerFile /\ Len(files[rotating - 1]) <= LinesPerFile
      BY <1>1, LogTypes
    <3>2. Len(<<>>) = 0 /\ 0 <= LinesPerFile
      BY LogFacts
    <3>3. QED
      BY <2>3, <3>1, <3>2
  <2>7. QED
    BY <1>1, <2>3, <2>5, <2>6
<1>5. QED
  BY <1>3, <1>4

(* So what a file holds comes from itself or the next newer one, and the   *)
(* files stay in their order.                                              *)
LEMMA RotatedFrom ==
  ASSUME LogTypeOK, LogShape, rotate
  PROVE  \E from \in [Indices -> Indices] :
           /\ \A i \in Indices : files'[i] = <<>> \/ files'[i] = files[from[i]]
           /\ \A i \in Indices : from[i] <= i
           /\ \A i, j \in Indices :
                i > j /\ files'[i] # <<>> /\ files'[j] # <<>> => from[i] > from[j]
<1>1. rotating \in 1..Oldest /\ rotating - 1 \in Indices /\ rotating \in Indices
  BY RotatedFiles
<1>2. CASE files' = files
  <2>1. PICK from : from = [i \in Indices |-> i]
    OBVIOUS
  <2>2. QED
    BY <1>2, <2>1, LogFacts
<1>3. CASE /\ files'[rotating] = files[rotating - 1] /\ files'[rotating - 1] = <<>>
           /\ \A i \in Indices : i \notin {rotating, rotating - 1} => files'[i] = files[i]
  <2>1. PICK from : from = [i \in Indices |-> IF i = rotating THEN rotating - 1 ELSE i]
    OBVIOUS
  <2>2. /\ from \in [Indices -> Indices] /\ from[rotating] = rotating - 1
        /\ \A i \in Indices : i # rotating => from[i] = i
    BY <1>1, <2>1
  <2>3. \A i \in Indices : files'[i] = <<>> \/ files'[i] = files[from[i]]
    BY <1>1, <1>3, <2>2
  <2>4. \A i \in Indices : from[i] <= i
    BY <1>1, <2>2, LogFacts
  <2>5. ASSUME NEW i \in Indices, NEW j \in Indices, i > j, files'[i] # <<>>, files'[j] # <<>>
        PROVE  from[i] > from[j]
    <3>1. i # rotating - 1 /\ j # rotating - 1 /\ i \in Nat /\ j \in Nat /\ rotating \in Nat
      BY <1>1, <1>3, <2>5, LogFacts
    <3>2. QED
      BY <2>2, <2>5, <3>1
  <2>6. QED
    BY <2>2, <2>3, <2>4, <2>5
<1>4. QED
  BY <1>2, <1>3, RotatedFiles

(* The queue after its first event is worked off *)
LEMMA TailFacts ==
  ASSUME LogTypeOK, queue # <<>>, queue' = Tail(queue)
  PROVE  /\ queue' \in Seq(1..MaxEvents) /\ Len(queue) \in Nat \ {0} /\ Len(queue') = Len(queue) - 1
         /\ \A l \in 1..Len(queue') : queue'[l] = queue[l + 1] /\ l + 1 \in 1..Len(queue)
         /\ Head(queue) = queue[1] /\ Head(queue) \in 1..MaxEvents /\ 1 \in 1..Len(queue)
<1>1. queue \in Seq(1..MaxEvents) /\ Len(queue) \in Nat \ {0}
  BY EmptySeq DEF LogTypeOK
<1>2. /\ queue' \in Seq(1..MaxEvents) /\ Len(queue') = Len(queue) - 1
      /\ \A l \in 1..Len(queue') : queue'[l] = queue[l + 1]
  BY <1>1, HeadTailProperties
<1>3. \A l \in 1..Len(queue') : l + 1 \in 1..Len(queue)
  BY <1>1, <1>2
<1>4. Head(queue) = queue[1] /\ 1 \in 1..Len(queue) /\ queue[1] \in 1..MaxEvents
  <2>1. 1 \in 1..Len(queue)
    BY <1>1
  <2>2. Head(queue) = queue[1]
    BY <1>1
  <2>3. queue[1] \in 1..MaxEvents
    BY <1>1, <2>1, ElementOfSeq
  <2>4. QED
    BY <2>1, <2>2, <2>3
<1>5. QED
  BY <1>1, <1>2, <1>3, <1>4

(* The queue after an event *)
LEMMA AppendFacts ==
  ASSUME LogTypeOK, append
  PROVE  /\ queue' \in Seq(1..MaxEvents) /\ Len(queue') = Len(queue) + 1
         /\ \A l \in 1..Len(queue) : queue'[l] = queue[l]
         /\ queue'[Len(queue) + 1] = events + 1
         /\ events' = events + 1 /\ events' \in 1..MaxEvents
<1>1. events' = events + 1 /\ events' \in 1..MaxEvents
  BY LogFacts, LogTypes DEF append
<1>2. queue \in Seq(1..MaxEvents) /\ queue' = Append(queue, events')
  BY DEF LogTypeOK, append
<1>3. QED
  BY <1>1, <1>2, AppendProperties

(* JSON.parse of the lines of a file, up to the first one it rejects *)
LEMMA ParsedFacts ==
  ASSUME NEW lines \in Seq(LogLine)
  PROVE  /\ Parsed(lines) \in Seq(1..MaxEvents) /\ Len(Parsed(lines)) \in 0..Len(lines)
         /\ \A k \in 1..Len(Parsed(lines)) : Parsed(lines)[k] = lines[k] /\ IsEvent(lines[k])
         /\ (\A k \in 1..Len(lines) : IsEvent(lines[k])) => Parsed(lines) = lines
<1>1. PICK bad : bad = {i \in DOMAIN lines : lines[i] = Torn}
  OBVIOUS
<1>2. /\ DOMAIN lines = 1..Len(lines) /\ Len(lines) \in Nat
      /\ \A k \in 1..Len(lines) : lines[k] \in LogLine
  OBVIOUS
<1>3. CASE bad = {}
  <2>1. Parsed(lines) = lines
    BY <1>1, <1>3 DEF Parsed
  <2>2. \A k \in 1..Len(lines) : IsEvent(lines[k]) /\ lines[k] \in 1..MaxEvents
    BY <1>1, <1>2, <1>3, LogFacts DEF IsEvent
  <2>3. lines \in Seq(1..MaxEvents)
    <3>1. lines \in [1..Len(lines) -> LogLine]
      BY LenProperties
    <3>2. lines \in [1..Len(lines) -> 1..MaxEvents]
      BY <2>2, <3>1
    <3>3. Seq(1..MaxEvents) = UNION {[1..n -> 1..MaxEvents] : n \in Nat}
      BY SeqDef
    <3>4. QED
      BY <1>2, <3>2, <3>3
  <2>4. QED
    BY <1>2, <2>1, <2>2, <2>3
<1>4. CASE bad # {}
  <2>1. bad \in SUBSET Nat
    BY <1>1, <1>2
  <2>2. PICK m \in bad : m = CHOOSE i \in bad : \A j \in bad : i <= j
    BY <1>4, <2>1, LeastElement
  <2>3. \A j \in bad : m <= j
    BY <1>4, <2>1, <2>2, LeastElement
  <2>4. m \in 1..Len(lines) /\ lines[m] = Torn
    BY <1>1, <1>2
  <2>5. Parsed(lines) = SubSeq(lines, 1, m - 1)
    BY <1>1, <1>4, <2>2 DEF Parsed
  <2>6. \A k \in 1..(m - 1) : k \in 1..Len(lines) /\ IsEvent(lines[k]) /\ lines[k] \in 1..MaxEvents
    BY <1>1, <1>2, <2>3, <2>4, LogFacts DEF IsEvent
  <2>7. /\ Parsed(lines) \in Seq(1..MaxEvents) /\ Len(Parsed(lines)) = m - 1
        /\ \A k \in 1..(m - 1) : Parsed(lines)[k] = lines[k]
    <3>1. 1 \in Int /\ m - 1 \in Int
      BY <2>4
    <3>2. QED
      BY <1>2, <2>4, <2>5, <2>6, <3>1, SubSeqProperties
  <2>8. QED
    BY <1>2, <2>4, <2>6, <2>7 DEF IsEvent
<1>5. QED
  BY <1>3, <1>4

(* The last entries of a list *)
LEMMA NewestFacts ==
  ASSUME NEW entries \in Seq(1..MaxEvents)
  PROVE  /\ Newest(entries) \in Seq(1..MaxEvents)
         /\ Len(Newest(entries)) < Limit => Newest(entries) = entries
         /\ \E d \in Nat :
              /\ Len(Newest(entries)) + d = Len(entries)
              /\ \A k \in 1..Len(Newest(entries)) : Newest(entries)[k] = entries[k + d]
<1>1. Len(entries) \in Nat /\ Limit \in Nat \ {0}
  BY LogFacts
<1>2. CASE Len(entries) <= Limit
  <2>1. Newest(entries) = entries
    BY <1>2 DEF Newest
  <2>2. 0 \in Nat /\ \A k \in 1..Len(entries) : k + 0 = k
    OBVIOUS
  <2>3. QED
    BY <1>1, <2>1, <2>2
<1>3. CASE Len(entries) > Limit
  <2>1. PICK d \in Nat : d = Len(entries) - Limit
    BY <1>1, <1>3
  <2>2. Newest(entries) = SubSeq(entries, d + 1, Len(entries))
    BY <1>1, <1>3, <2>1 DEF Newest
  <2>3. d + 1 \in Int /\ Len(entries) \in Int /\ d + 1 <= Len(entries)
    BY <1>1, <1>3, <2>1
  <2>4. ASSUME NEW i \in (d + 1)..Len(entries)
        PROVE  entries[i] \in 1..MaxEvents
    <3>1. i \in 1..Len(entries)
      BY <1>1, <2>1
    <3>2. QED
      BY <3>1, ElementOfSeq
  <2>5. /\ Newest(entries) \in Seq(1..MaxEvents)
        /\ Len(Newest(entries)) = Len(entries) - (d + 1) + 1
        /\ \A k \in 1..(Len(entries) - (d + 1) + 1) : Newest(entries)[k] = entries[(d + 1) + k - 1]
    BY <2>2, <2>3, <2>4, SubSeqProperties
  <2>6. Len(Newest(entries)) = Limit
    BY <1>1, <2>1, <2>5
  <2>7. \A k \in 1..Limit : Newest(entries)[k] = entries[k + d]
    BY <1>1, <2>1, <2>5
  <2>8. Len(Newest(entries)) + d = Len(entries) /\ ~(Len(Newest(entries)) < Limit)
    BY <1>1, <2>1, <2>6
  <2>9. QED
    BY <2>5, <2>6, <2>7, <2>8
<1>4. QED
  BY <1>1, <1>2, <1>3


(* The types in two halves: the files, and the rest *)
FilesOK ==
  /\ files \in [Indices -> Seq(LogLine)]
  /\ \A i \in Indices : Len(files[i]) <= LinesPerFile
  /\ open \in BOOLEAN
  /\ open => files[0] # <<>> /\ files[0][Len(files[0])] = Torn

QueueOK ==
  /\ queue \in Seq(1..MaxEvents) /\ events \in 0..MaxEvents
  /\ step \in {"idle", "rotate", "write"} /\ rotating \in Indices

ReaderOK ==
  /\ reader \in {"idle", "waits", "reads", "done"} /\ fileAt \in -1..Oldest
  /\ seen \in Seq(1..MaxEvents) /\ renamed \in BOOLEAN
  /\ until \in 0..MaxEvents /\ faults \in 0..MaxFaults

(* The type invariant by the files, the queue and the reader *)
LEMMA LogTypeParts == LogTypeOK <=> FilesOK /\ QueueOK /\ ReaderOK
BY DEF LogTypeOK, FilesOK, QueueOK, ReaderOK, LogLine

(* The same of the state after a step *)
LEMMA LogTypePartsNext == FilesOK' /\ QueueOK' /\ ReaderOK' => LogTypeOK'
BY DEF LogTypeOK, FilesOK, QueueOK, ReaderOK, LogLine

(* Files that nobody writes stay as they are. *)
LEMMA FilesStay == FilesOK /\ UNCHANGED <<files, open>> => FilesOK'
BY DEF FilesOK

(* A queue that no step touches stays of its type. *)
LEMMA QueueStays == QueueOK /\ UNCHANGED <<queue, events, step, rotating>> => QueueOK'
BY DEF QueueOK

(* So does a reader. *)
LEMMA ReaderStays == ReaderOK /\ UNCHANGED records /\ faults' = faults => ReaderOK'
BY DEF ReaderOK, records, reading

(* Whoever gives an entry up or writes it: the file stays or the entry is appended. *)
LEMMA FilesAppended ==
  ASSUME LogTypeOK, LogShape, step = "write", NEW entry \in LogLine, files' = Appended(entry),
         open' \in BOOLEAN, open' => entry = Torn
  PROVE  FilesOK'
<1>1. Len(files[0]) \in Nat /\ FilesOK
  BY LogTypes, LogFacts, LogTypeParts
<1>2. /\ files' \in [Indices -> Seq(LogLine)]
      /\ \A i \in Indices : Len(files'[i]) <= LinesPerFile
  BY AppendedLines
<1>3. ASSUME open'
      PROVE  files'[0] # <<>> /\ files'[0][Len(files'[0])] = Torn
  <2>1. files'[0][Len(files'[0])] = Torn /\ Len(files'[0]) # 0
    <3>1. CASE open
      <4>1. Len(files'[0]) = Len(files[0]) /\ files'[0][Len(files[0])] = Torn
        BY <3>1, AppendedLines
      <4>2. Len(files[0]) # 0
        BY <1>1, <3>1, LogFacts, EmptySeq DEF FilesOK
      <4>3. QED
        BY <4>1, <4>2
    <3>2. CASE ~open
      <4>1. Len(files'[0]) = Len(files[0]) + 1 /\ files'[0][Len(files[0]) + 1] = entry
        BY <3>2, AppendedLines
      <4>2. QED
        BY <1>1, <1>3, <4>1
    <3>3. QED
      BY <3>1, <3>2
  <2>2. QED
    BY <2>1
<1>4. QED
  BY <1>2, <1>3 DEF FilesOK

(* A line of which a part was written is a line. *)
LEMMA TornIsALine == Torn \in LogLine
BY DEF LogLine

(* Every step keeps the types. *)
LEMMA LogTypeStep == LogTypeOK /\ LogShape /\ [LogNext]_logVars => LogTypeOK'
<1> SUFFICES ASSUME LogTypeOK, LogShape, [LogNext]_logVars
             PROVE  LogTypeOK'
  OBVIOUS
<1>1. FilesOK /\ QueueOK /\ ReaderOK
  BY LogTypeParts
<1>2. CASE append
  <2>1. FilesOK' /\ ReaderOK'
    BY <1>1, <1>2, FilesStay, ReaderStays DEF append
  <2>2. QueueOK'
    BY <1>1, <1>2, AppendFacts, LogFacts DEF append, QueueOK
  <2>3. QED
    BY <2>1, <2>2, LogTypePartsNext
<1>3. CASE appendNow
  <2>1. FilesOK' /\ ReaderOK'
    BY <1>1, <1>3, FilesStay, ReaderStays DEF appendNow
  <2>2. QueueOK'
    BY <1>1, <1>3, LogFacts DEF appendNow, QueueOK
  <2>3. QED
    BY <2>1, <2>2, LogTypePartsNext
<1>4. CASE rotate
  <2>1. /\ files' \in [Indices -> Seq(LogLine)]
        /\ \A i \in Indices : Len(files'[i]) <= LinesPerFile
        /\ rotating \in 1..Oldest /\ rotating - 1 \in Indices
    BY <1>4, RotatedFiles
  <2>2. open' \in BOOLEAN /\ (open' => open /\ rotating # 1)
    BY <1>4 DEF rotate
  <2>3. ASSUME open'
        PROVE  files'[0] = files[0]
    <3>1. 0 # rotating /\ 0 # rotating - 1 /\ 0 \in Indices
      BY <2>1, <2>2, <2>3, LogFacts
    <3>2. QED
      BY <1>4, <3>1, RotatedFiles
  <2>4. FilesOK'
    BY <1>1, <2>1, <2>2, <2>3 DEF FilesOK
  <2>5. QueueOK'
    BY <1>1, <1>4, <2>1 DEF rotate, QueueOK
  <2>6. ReaderOK'
    BY <1>1, <1>4 DEF rotate, ReaderOK, reading
  <2>7. QED
    BY <2>4, <2>5, <2>6, LogTypePartsNext
<1>5. CASE write
  <2>1. queue # <<>> /\ step = "write"
    BY <1>5 DEF write, LogShape
  <2>2. queue' \in Seq(1..MaxEvents) /\ Head(queue) \in 1..MaxEvents
    BY <1>5, <2>1, TailFacts DEF write
  <2>3. Head(queue) \in LogLine
    BY <2>2 DEF LogLine
  <2>4. FilesOK'
    BY <1>5, <2>1, <2>3, FilesAppended DEF write
  <2>5. QueueOK' /\ ReaderOK'
    BY <1>1, <1>5, <2>2, ReaderStays DEF write, QueueOK
  <2>6. QED
    BY <2>4, <2>5, LogTypePartsNext
<1>6. CASE appendFails
  <2>1. queue # <<>>
    BY <1>6 DEF appendFails, LogShape
  <2>2. queue' \in Seq(1..MaxEvents)
    BY <1>6, <2>1, TailFacts DEF appendFails
  <2>3. FilesOK'
    BY <1>1, <1>6, FilesStay, TornIsALine, FilesAppended DEF appendFails
  <2>4. QueueOK'
    BY <1>1, <1>6, <2>2 DEF appendFails, QueueOK
  <2>5. ReaderOK'
    BY <1>1, <1>6, LogFacts DEF appendFails, Faulty, ReaderOK, records, reading
  <2>6. QED
    BY <2>3, <2>4, <2>5, LogTypePartsNext
<1>7. CASE Crash
  <2>1. FilesOK'
    BY <1>1, <1>7, FilesStay, TornIsALine, FilesAppended DEF Crash
  <2>2. <<>> \in Seq(1..MaxEvents)
    OBVIOUS
  <2>3. QueueOK'
    BY <1>1, <1>7, <2>2, LogFacts DEF Crash, QueueOK
  <2>4. ReaderOK'
    <3>1. /\ reader' = "idle" /\ until' = 0 /\ fileAt' = 0 /\ seen' = <<>> /\ renamed' = FALSE
          /\ faults < MaxFaults /\ faults' = faults + 1
      BY <1>7 DEF Crash, Faulty
    <3>2. 0 \in 0..MaxEvents /\ 0 \in -1..Oldest /\ faults + 1 \in 0..MaxFaults
      BY <1>1, <3>1, LogFacts DEF ReaderOK
    <3>3. QED
      BY <2>2, <3>1, <3>2 DEF ReaderOK
  <2>5. QED
    BY <2>1, <2>3, <2>4, LogTypePartsNext
<1>8. CASE recent
  <2>1. FilesOK' /\ QueueOK'
    BY <1>1, <1>8, FilesStay, QueueStays DEF recent, writer
  <2>2. <<>> \in Seq(1..MaxEvents) /\ Oldest \in -1..Oldest
    BY LogFacts
  <2>3. ReaderOK'
    BY <1>1, <1>8, <2>2 DEF recent, QueueOK, ReaderOK
  <2>4. QED
    BY <2>1, <2>3, LogTypePartsNext
<1>9. CASE waited
  <2>1. FilesOK' /\ QueueOK'
    BY <1>1, <1>9, FilesStay, QueueStays DEF waited, writer
  <2>2. ReaderOK'
    BY <1>1, <1>9 DEF waited, ReaderOK
  <2>3. QED
    BY <2>1, <2>2, LogTypePartsNext
<1>10. CASE readFile
  <2>1. FilesOK' /\ QueueOK'
    BY <1>1, <1>10, FilesStay, QueueStays DEF readFile, writer
  <2>2. fileAt \in Indices /\ files[fileAt] \in Seq(LogLine)
    BY <1>1, <1>10 DEF readFile, LogShape, FilesOK
  <2>3. PICK all : all = seen \o Parsed(files[fileAt])
    OBVIOUS
  <2>4. all \in Seq(1..MaxEvents)
    BY <1>1, <2>2, <2>3, ParsedFacts, ConcatProperties DEF ReaderOK
  <2>5. Newest(all) \in Seq(1..MaxEvents)
    BY <2>4, NewestFacts
  <2>6. seen' \in Seq(1..MaxEvents)
    BY <1>10, <2>3, <2>4, <2>5 DEF readFile
  <2>7. fileAt' \in -1..Oldest
    BY <1>10, <2>2, LogFacts DEF readFile
  <2>8. ReaderOK'
    BY <1>1, <1>10, <2>6, <2>7 DEF readFile, ReaderOK
  <2>9. QED
    BY <2>1, <2>8, LogTypePartsNext
<1>11. CASE readFails
  <2>1. FilesOK' /\ QueueOK'
    BY <1>1, <1>11, FilesStay, QueueStays DEF readFails, writer
  <2>2. fileAt \in Indices
    BY <1>11 DEF readFails, LogShape
  <2>3. seen' \in Seq(1..MaxEvents)
    BY <1>1, <1>11, NewestFacts DEF readFails, ReaderOK
  <2>4. fileAt' \in -1..Oldest
    BY <1>11, <2>2, LogFacts DEF readFails
  <2>5. ReaderOK'
    BY <1>1, <1>11, <2>3, <2>4, LogFacts DEF readFails, Faulty, ReaderOK
  <2>6. QED
    BY <2>1, <2>5, LogTypePartsNext
<1>12. CASE UNCHANGED logVars
  <2>1. UNCHANGED <<files, open, queue, events, step, rotating, records, faults>>
    BY <1>12 DEF logVars, records, reading
  <2>2. QED
    BY <1>1, <2>1, FilesStay, QueueStays, ReaderStays, LogTypePartsNext
<1>13. QED
  BY <1>2, <1>3, <1>4, <1>5, <1>6, <1>7, <1>8, <1>9, <1>10, <1>11, <1>12
     DEF LogNext, Writer, Reader

(* Every step keeps what its place in an operation means. *)
LEMMA LogShapeStep == LogTypeOK /\ LogShape /\ [LogNext]_logVars => LogShape'
<1> SUFFICES ASSUME LogTypeOK, LogShape, [LogNext]_logVars
             PROVE  LogShape'
  OBVIOUS
<1>1. /\ Len(files[0]) \in Nat /\ Len(queue) \in Nat /\ rotating \in Indices
      /\ events \in Nat /\ until \in Nat
  BY LogTypes, LogFacts
<1>2. CASE append
  <2>1. queue' # <<>> /\ events' = events + 1
    BY <1>1, <1>2, AppendFacts
  <2>2. QED
    BY <1>1, <1>2, <2>1 DEF append, LogShape, records, reading
<1>3. CASE appendNow
  <2>1. step' = "write" => Len(files[0]) < LinesPerFile
    BY <1>1, <1>3, LogFacts DEF appendNow, Full
  <2>2. step' = "rotate" => rotating' \in 1..Oldest
    BY <1>3, LogFacts DEF appendNow
  <2>3. QED
    BY <1>3, <2>1, <2>2 DEF appendNow, LogShape, records, reading
<1>4. CASE rotate
  <2>1. rotating \in 1..Oldest
    BY <1>4, RotatedFiles
  <2>2. step' = "rotate" => rotating' \in 1..Oldest
    BY <1>4, <2>1, LogFacts DEF rotate
  <2>3. ASSUME step' = "write"
        PROVE  Len(files'[0]) < LinesPerFile
    <3>1. rotating = 1 /\ 0 \in Indices
      BY <1>4, <2>3, LogFacts DEF rotate
    <3>2. files'[0] = <<>>
      BY <1>4, <3>1, RotatedFiles
    <3>3. QED
      BY <3>2, LogFacts
  <2>4. QED
    BY <1>4, <2>2, <2>3 DEF rotate, LogShape, reading
<1>5. CASE write
  BY <1>5 DEF write, LogShape, records, reading
<1>6. CASE appendFails
  BY <1>6 DEF appendFails, LogShape, records, reading
<1>7. CASE Crash
  BY <1>1, <1>7 DEF Crash, LogShape
<1>8. CASE recent
  BY <1>1, <1>8 DEF recent, LogShape, writer
<1>9. CASE waited
  BY <1>9, LogFacts DEF waited, LogShape, writer
<1>10. CASE readFile
  <2>1. reader' = "reads" => fileAt' \in Indices
    <3>1. /\ fileAt \in Indices /\ fileAt' = fileAt - 1
          /\ reader' = IF fileAt = 0 THEN "done" ELSE "reads"
      BY <1>10 DEF readFile, LogShape
    <3>2. QED
      BY <3>1, LogFacts
  <2>2. QED
    BY <1>10, <2>1 DEF readFile, LogShape, writer
<1>11. CASE readFails
  <2>1. reader' = "reads" => fileAt' \in Indices
    <3>1. /\ fileAt \in Indices /\ fileAt' = fileAt - 1
          /\ reader' = IF fileAt = 0 THEN "done" ELSE "reads"
      BY <1>11 DEF readFails, LogShape
    <3>2. QED
      BY <3>1, LogFacts
  <2>2. QED
    BY <1>11, <2>1 DEF readFails, LogShape, writer
<1>12. CASE UNCHANGED logVars
  BY <1>12 DEF logVars, LogShape
<1>13. QED
  BY <1>2, <1>3, <1>4, <1>5, <1>6, <1>7, <1>8, <1>9, <1>10, <1>11, <1>12
     DEF LogNext, Writer, Reader

(* What a reader has after one more file *)
LEMMA ReadOne ==
  ASSUME LogTypeOK, LogShape, reader = "reads"
  PROVE  \E all \in Seq(1..MaxEvents) :
           /\ all = seen \o Parsed(files[fileAt])
           /\ Len(all) \in Nat /\ Len(seen) \in Nat /\ Len(seen) <= Len(all)
           /\ \A s \in 1..Len(seen) : all[s] = seen[s]
           /\ \A s \in 1..Len(all) :
                s > Len(seen) =>
                  /\ s - Len(seen) \in 1..Len(files[fileAt])
                  /\ all[s] = files[fileAt][s - Len(seen)] /\ IsEvent(all[s])
           /\ (\A k \in 1..Len(files[fileAt]) : IsEvent(files[fileAt][k])) =>
                \A k \in 1..Len(files[fileAt]) :
                  Len(seen) + k \in 1..Len(all) /\ all[Len(seen) + k] = files[fileAt][k]
<1>1. fileAt \in Indices
  BY DEF LogShape
<1>2. PICK lines \in Seq(LogLine) : lines = files[fileAt]
  BY <1>1, LogTypes
<1>3. PICK parsed \in Seq(1..MaxEvents) : parsed = Parsed(lines)
  BY <1>2, ParsedFacts
<1>4. /\ Len(parsed) \in 0..Len(lines)
      /\ \A k \in 1..Len(parsed) : parsed[k] = lines[k] /\ IsEvent(lines[k])
      /\ (\A k \in 1..Len(lines) : IsEvent(lines[k])) => parsed = lines
  BY <1>2, <1>3, ParsedFacts
<1>5. PICK p \in Nat : p = Len(seen)
  BY LogTypes
<1>6. seen \in Seq(1..MaxEvents)
  BY LogTypes
<1>7. PICK q \in Nat : q = Len(parsed)
  BY LenProperties
<1>8. PICK n \in Nat : n = Len(lines)
  BY LenProperties
<1>9. PICK all : all = seen \o parsed
  OBVIOUS
<1>10. /\ all \in Seq(1..MaxEvents) /\ Len(all) = p + q
       /\ \A i \in 1..(p + q) : all[i] = IF i <= p THEN seen[i] ELSE parsed[i - p]
  BY <1>5, <1>6, <1>7, <1>9, ConcatProperties
<1>11. \A s \in 1..p : all[s] = seen[s]
  BY <1>10
<1>12. ASSUME NEW s \in 1..(p + q), s > p
       PROVE  s - p \in 1..n /\ all[s] = lines[s - p] /\ IsEvent(all[s])
  <2>1. s - p \in 1..q /\ all[s] = parsed[s - p]
    BY <1>10, <1>12
  <2>2. QED
    BY <1>4, <1>7, <1>8, <2>1
<1>13. ASSUME \A k \in 1..n : IsEvent(lines[k]), NEW k \in 1..n
       PROVE  p + k \in 1..(p + q) /\ all[p + k] = lines[k]
  <2>1. parsed = lines /\ q = n
    BY <1>4, <1>7, <1>8, <1>13
  <2>2. p + k \in 1..(p + q) /\ ~(p + k <= p) /\ (p + k) - p = k
    BY <1>13, <2>1
  <2>3. QED
    BY <1>10, <2>1, <2>2
<1>14. /\ all = seen \o Parsed(files[fileAt])
       /\ Len(all) \in Nat /\ Len(seen) \in Nat /\ Len(seen) <= Len(all)
       /\ \A s \in 1..Len(seen) : all[s] = seen[s]
  BY <1>2, <1>3, <1>5, <1>7, <1>9, <1>10, <1>11
<1>15. \A s \in 1..Len(all) :
         s > Len(seen) =>
           /\ s - Len(seen) \in 1..Len(files[fileAt])
           /\ all[s] = files[fileAt][s - Len(seen)] /\ IsEvent(all[s])
  BY <1>2, <1>5, <1>8, <1>10, <1>12
<1>16. (\A k \in 1..Len(files[fileAt]) : IsEvent(files[fileAt][k])) =>
         \A k \in 1..Len(files[fileAt]) :
           Len(seen) + k \in 1..Len(all) /\ all[Len(seen) + k] = files[fileAt][k]
  BY <1>2, <1>5, <1>8, <1>10, <1>13
<1>17. QED
  BY <1>10, <1>14, <1>15, <1>16

(* Entries that are lost change no order. *)
LEMMA OrderIsLeft ==
  ASSUME LogTypeOK, OrderInv,
         \A i \in Indices : \A k \in 1..Len(files'[i]) :
           IsEvent(files'[i][k]) => k \in 1..Len(files[i]) /\ files'[i][k] = files[i][k],
         queue' = <<>> \/ (queue # <<>> /\ queue' = Tail(queue)), events' = events
  PROVE  LinesInOrder' /\ QueueInOrder' /\ LinesBeforeQueue'
<1>1. LinesInOrder'
  BY DEF OrderInv, LinesInOrder
<1>2. \A l \in 1..Len(queue') : queue'[l] = queue[l + 1] /\ l + 1 \in 1..Len(queue)
  <2>1. CASE queue' = <<>>
    BY <2>1
  <2>2. CASE queue # <<>> /\ queue' = Tail(queue)
    BY <2>2, TailFacts
  <2>3. QED
    BY <2>1, <2>2
<1>3. QueueInOrder'
  BY <1>2 DEF OrderInv, QueueInOrder
<1>4. LinesBeforeQueue'
  BY <1>2 DEF OrderInv, LinesBeforeQueue
<1>5. QED
  BY <1>1, <1>3, <1>4

(* Taking the first entry off the queue, no file having got a line of an   *)
(* event, leaves what the reader saw in order.                             *)
LEMMA SeenIsLeft ==
  ASSUME LogTypeOK, OrderInv,
         \A i \in Indices : \A k \in 1..Len(files'[i]) :
           IsEvent(files'[i][k]) => k \in 1..Len(files[i]) /\ files'[i][k] = files[i][k],
         queue # <<>>, queue' = Tail(queue), UNCHANGED <<events, records>>, LogShape
  PROVE  SeenIsBefore' /\ ExportsInOrder'
<1>1. UNCHANGED <<events, reader, fileAt, seen>>
  BY DEF records, reading
<1>2. \A l \in 1..Len(queue') : queue'[l] = queue[l + 1] /\ l + 1 \in 1..Len(queue)
  BY TailFacts
<1>3. reader = "reads" => \A i \in 0..fileAt : i \in Indices
  BY LogFacts DEF LogShape, Indices
<1>4. SeenIsBefore'
  <2>1. SUFFICES ASSUME reader = "reads", NEW s \in 1..Len(seen)
                 PROVE  /\ seen[s] <= events
                        /\ \A l \in 1..Len(queue') : seen[s] < queue'[l]
                        /\ \A i \in 0..fileAt : \A k \in 1..Len(files'[i]) :
                             IsEvent(files'[i][k]) => seen[s] < files'[i][k]
    BY <1>1 DEF SeenIsBefore
  <2>2. /\ seen[s] <= events
        /\ \A l \in 1..Len(queue) : seen[s] < queue[l]
        /\ \A i \in 0..fileAt : \A k \in 1..Len(files[i]) :
             IsEvent(files[i][k]) => seen[s] < files[i][k]
    BY <2>1 DEF OrderInv, SeenIsBefore
  <2>3. \A l \in 1..Len(queue') : seen[s] < queue'[l]
    BY <1>2, <2>2
  <2>4. \A i \in 0..fileAt : \A k \in 1..Len(files'[i]) :
          IsEvent(files'[i][k]) => seen[s] < files'[i][k]
    BY <1>3, <2>1, <2>2
  <2>5. QED
    BY <2>2, <2>3, <2>4
<1>5. ExportsInOrder'
  BY <1>1 DEF OrderInv, ExportsInOrder
<1>6. QED
  BY <1>4, <1>5

(* A line that was cut off holds no entry. *)
LEMMA TornIsNoEvent ==
  ASSUME LogTypeOK, LogShape,
         UNCHANGED files \/ (step = "write" /\ files' = Appended(Torn))
  PROVE  \A i \in Indices : \A k \in 1..Len(files'[i]) :
           IsEvent(files'[i][k]) => k \in 1..Len(files[i]) /\ files'[i][k] = files[i][k]
<1>1. CASE UNCHANGED files
  BY <1>1
<1>2. CASE step = "write" /\ files' = Appended(Torn)
  <2>1. \A i \in Indices : i # 0 => files'[i] = files[i]
    BY <1>2, TornIsALine, AppendedLines
  <2>2. \A k \in 1..Len(files'[0]) :
          IsEvent(files'[0][k]) => k \in 1..Len(files[0]) /\ files'[0][k] = files[0][k]
    BY <1>2, TornIsALine, AppendedEvents DEF IsEvent
  <2>3. QED
    BY <2>1, <2>2
<1>3. QED
  BY <1>1, <1>2

(* A new entry goes behind all others. *)
LEMMA OrderAppend == LogTypeOK /\ LogShape /\ OrderInv /\ append => OrderInv'
<1> SUFFICES ASSUME LogTypeOK, LogShape, OrderInv, append
             PROVE  OrderInv'
  OBVIOUS
<1>1. UNCHANGED <<files, reader, fileAt, seen>>
  BY DEF append, records, reading
<1>2. /\ Len(queue') = Len(queue) + 1 /\ \A l \in 1..Len(queue) : queue'[l] = queue[l]
      /\ queue'[Len(queue) + 1] = events + 1 /\ events' = events + 1
  BY AppendFacts
<1>3. /\ Len(queue) \in Nat /\ events \in Nat
      /\ \A k \in 1..Len(queue) : queue[k] \in Nat
  BY LogTypes, LogFacts
<1>4. \A l \in 1..Len(queue') : l \in 1..Len(queue) \/ l = Len(queue) + 1
  BY <1>2, <1>3
<1>5. LinesInOrder' /\ ExportsInOrder'
  BY <1>1 DEF OrderInv, LinesInOrder, ExportsInOrder
<1>6. QueueInOrder'
  <2>1. ASSUME NEW k \in 1..Len(queue')
        PROVE  queue'[k] <= events'
    BY <1>2, <1>3, <1>4 DEF OrderInv, QueueInOrder
  <2>2. ASSUME NEW k \in 1..Len(queue'), NEW l \in 1..Len(queue'), k < l
        PROVE  queue'[k] < queue'[l]
    <3>1. k \in 1..Len(queue) /\ queue'[k] = queue[k] /\ queue[k] <= events
      BY <1>2, <1>3, <2>2 DEF OrderInv, QueueInOrder
    <3>2. CASE l \in 1..Len(queue)
      BY <1>2, <2>2, <3>1, <3>2 DEF OrderInv, QueueInOrder
    <3>3. CASE l = Len(queue) + 1
      BY <1>2, <1>3, <3>1, <3>3
    <3>4. QED
      BY <1>4, <3>2, <3>3
  <2>3. QED
    BY <2>1, <2>2 DEF QueueInOrder
<1>7. LinesBeforeQueue'
  <2>1. ASSUME NEW i \in Indices, NEW k \in 1..Len(files[i]), IsEvent(files[i][k])
        PROVE  files[i][k] <= events' /\ \A l \in 1..Len(queue') : files[i][k] < queue'[l]
    <3>1. files[i][k] \in Nat
      BY <2>1, LogTypes, LogFacts
    <3>2. files[i][k] <= events /\ \A l \in 1..Len(queue) : files[i][k] < queue[l]
      BY <2>1 DEF OrderInv, LinesBeforeQueue
    <3>3. QED
      BY <1>2, <1>3, <1>4, <3>1, <3>2
  <2>2. QED
    BY <1>1, <2>1 DEF LinesBeforeQueue
<1>8. SeenIsBefore'
  <2>1. ASSUME reader = "reads", NEW s \in 1..Len(seen)
        PROVE  seen[s] <= events' /\ \A l \in 1..Len(queue') : seen[s] < queue'[l]
    <3>1. seen[s] \in Nat
      BY LogTypes, LogFacts
    <3>2. seen[s] <= events /\ \A l \in 1..Len(queue) : seen[s] < queue[l]
      BY <2>1 DEF OrderInv, SeenIsBefore
    <3>3. QED
      BY <1>2, <1>3, <1>4, <3>1, <3>2
  <2>2. QED
    BY <1>1, <2>1 DEF OrderInv, SeenIsBefore
<1>9. QED
  BY <1>5, <1>6, <1>7, <1>8 DEF OrderInv

(* Moving a file on to the next number keeps the order of the lines. *)
LEMMA OrderRotate == LogTypeOK /\ LogShape /\ OrderInv /\ rotate => OrderInv'
<1> SUFFICES ASSUME LogTypeOK, LogShape, OrderInv, rotate
             PROVE  OrderInv'
  OBVIOUS
<1>1. UNCHANGED <<queue, events, reader, fileAt, seen>>
  BY DEF rotate, reading
<1>2. PICK from \in [Indices -> Indices] :
        /\ \A i \in Indices : files'[i] = <<>> \/ files'[i] = files[from[i]]
        /\ \A i \in Indices : from[i] <= i
        /\ \A i, j \in Indices :
             i > j /\ files'[i] # <<>> /\ files'[j] # <<>> => from[i] > from[j]
  BY RotatedFrom
<1>3. ASSUME NEW i \in Indices, NEW k \in 1..Len(files'[i])
      PROVE  /\ files'[i] # <<>> /\ files'[i] = files[from[i]] /\ from[i] \in Indices
             /\ k \in 1..Len(files[from[i]])
  <2>1. files'[i] # <<>>
    BY <1>3
  <2>2. QED
    BY <1>2, <1>3, <2>1
<1>4. LinesInOrder'
  <2>1. ASSUME NEW i \in Indices, NEW j \in Indices,
               NEW k \in 1..Len(files'[i]), NEW l \in 1..Len(files'[j]),
               IsEvent(files'[i][k]), IsEvent(files'[j][l]), i > j \/ (i = j /\ k < l)
        PROVE  files'[i][k] < files'[j][l]
    <3>1. from[i] > from[j] \/ (from[i] = from[j] /\ k < l)
      BY <1>2, <1>3, <2>1
    <3>2. QED
      BY <1>3, <2>1, <3>1 DEF OrderInv, LinesInOrder
  <2>2. QED
    BY <2>1 DEF LinesInOrder
<1>5. LinesBeforeQueue'
  BY <1>1, <1>3 DEF OrderInv, LinesBeforeQueue
<1>6. SeenIsBefore'
  <2>1. ASSUME reader = "reads", NEW s \in 1..Len(seen), NEW i \in 0..fileAt,
               NEW k \in 1..Len(files'[i]), IsEvent(files'[i][k])
        PROVE  seen[s] < files'[i][k]
    <3>1. i \in Indices /\ fileAt \in Nat /\ i \in Nat
      BY <2>1, LogFacts DEF LogShape, Indices
    <3>2. files'[i] = files[from[i]] /\ from[i] \in Indices /\ k \in 1..Len(files[from[i]])
      BY <1>3, <3>1
    <3>3. from[i] \in 0..fileAt
      <4>1. from[i] \in Nat
        BY <3>2, LogFacts
      <4>2. from[i] <= i
        BY <1>2, <3>1
      <4>3. i <= fileAt
        BY <2>1, <3>1
      <4>4. QED
        BY <3>1, <4>1, <4>2, <4>3
    <3>4. QED
      BY <2>1, <3>2, <3>3 DEF OrderInv, SeenIsBefore
  <2>2. QED
    BY <1>1, <2>1 DEF OrderInv, SeenIsBefore
<1>7. QueueInOrder' /\ ExportsInOrder'
  BY <1>1 DEF OrderInv, QueueInOrder, ExportsInOrder
<1>8. QED
  BY <1>4, <1>5, <1>6, <1>7 DEF OrderInv

(* The entry written is the oldest that waits and the newest in the files. *)
LEMMA OrderWrite == LogTypeOK /\ LogShape /\ OrderInv /\ write => OrderInv'
<1> SUFFICES ASSUME LogTypeOK, LogShape, OrderInv, write
             PROVE  OrderInv'
  OBVIOUS
<1>1. step = "write" /\ queue # <<>> /\ files' = Appended(Head(queue)) /\ queue' = Tail(queue)
  BY DEF write, LogShape
<1>2. UNCHANGED <<events, reader, fileAt, seen>>
  BY DEF write, records, reading
<1>3. /\ Len(queue) \in Nat \ {0} /\ Len(queue') = Len(queue) - 1 /\ 1 \in 1..Len(queue)
      /\ \A l \in 1..Len(queue') : queue'[l] = queue[l + 1] /\ l + 1 \in 1..Len(queue)
      /\ Head(queue) = queue[1] /\ queue[1] \in 1..MaxEvents
  BY <1>1, TailFacts
<1>4. queue[1] \in LogLine
  BY <1>3 DEF LogLine
<1>5. \A i \in Indices : i # 0 => files'[i] = files[i]
  BY <1>1, <1>3, <1>4, AppendedLines
<1>6. Len(files[0]) \in Nat
  BY LogTypes, LogFacts
<1>7. /\ Len(files'[0]) \in Nat /\ Len(files'[0]) <= Len(files[0]) + 1
      /\ \A k \in 1..Len(files'[0]) :
           IsEvent(files'[0][k]) =>
             \/ k \in 1..Len(files[0]) /\ files'[0][k] = files[0][k]
             \/ k = Len(files[0]) + 1 /\ files'[0][k] = queue[1]
  BY <1>1, <1>3, <1>4, <1>6, AppendedLines, AppendedEvents
<1>8. ASSUME NEW i \in Indices, NEW k \in 1..Len(files'[i]), IsEvent(files'[i][k])
      PROVE  \/ k \in 1..Len(files[i]) /\ files'[i][k] = files[i][k]
             \/ i = 0 /\ k = Len(files[0]) + 1 /\ files'[i][k] = queue[1]
  BY <1>5, <1>7, <1>8
<1>9. ASSUME NEW i \in Indices, NEW k \in 1..Len(files[i]), IsEvent(files[i][k])
      PROVE  files[i][k] <= events /\ \A l \in 1..Len(queue) : files[i][k] < queue[l]
  BY <1>9 DEF OrderInv, LinesBeforeQueue
<1>10. LinesInOrder'
  <2>1. ASSUME NEW i \in Indices, NEW j \in Indices,
               NEW k \in 1..Len(files'[i]), NEW l \in 1..Len(files'[j]),
               IsEvent(files'[i][k]), IsEvent(files'[j][l]), i > j \/ (i = j /\ k < l)
        PROVE  files'[i][k] < files'[j][l]
    <3>1. k \in 1..Len(files[i]) /\ files'[i][k] = files[i][k]
      <4>1. i \in Nat /\ j \in Nat
        BY LogFacts
      <4>2. CASE i = 0
        <5>1. j = 0 /\ k < l /\ k \in Nat /\ l \in Nat
          BY <2>1, <4>1, <4>2, <1>7
        <5>2. k # Len(files[0]) + 1
          BY <1>6, <1>7, <5>1
        <5>3. QED
          BY <1>8, <2>1, <5>2
      <4>3. CASE i # 0
        BY <1>8, <2>1, <4>3
      <4>4. QED
        BY <4>2, <4>3
    <3>2. IsEvent(files[i][k])
      BY <2>1, <3>1
    <3>3. CASE l \in 1..Len(files[j]) /\ files'[j][l] = files[j][l]
      BY <2>1, <3>1, <3>3 DEF OrderInv, LinesInOrder
    <3>4. CASE files'[j][l] = queue[1]
      BY <1>3, <1>9, <3>1, <3>2, <3>4
    <3>5. QED
      BY <1>8, <2>1, <3>3, <3>4
  <2>2. QED
    BY <2>1 DEF LinesInOrder
<1>11. QueueInOrder'
  <2>1. \A k, l \in 1..Len(queue') : k < l => k + 1 < l + 1
    OBVIOUS
  <2>2. \A k, l \in 1..Len(queue) : k < l => queue[k] < queue[l]
    BY DEF OrderInv, QueueInOrder
  <2>3. \A k, l \in 1..Len(queue') : k < l => queue'[k] < queue'[l]
    BY <1>3, <2>1, <2>2
  <2>4. QED
    BY <1>2, <1>3, <2>3 DEF OrderInv, QueueInOrder
<1>12. LinesBeforeQueue'
  <2>1. ASSUME NEW i \in Indices, NEW k \in 1..Len(files'[i]), IsEvent(files'[i][k])
        PROVE  files'[i][k] <= events /\ \A l \in 1..Len(queue') : files'[i][k] < queue'[l]
    <3>1. CASE k \in 1..Len(files[i]) /\ files'[i][k] = files[i][k]
      BY <1>3, <1>9, <2>1, <3>1
    <3>2. CASE files'[i][k] = queue[1]
      BY <1>3, <3>2 DEF OrderInv, QueueInOrder
    <3>3. QED
      BY <1>8, <2>1, <3>1, <3>2
  <2>2. QED
    BY <1>2, <2>1 DEF LinesBeforeQueue
<1>13. SeenIsBefore'
  <2>1. ASSUME reader = "reads", NEW s \in 1..Len(seen)
        PROVE  /\ seen[s] <= events
               /\ \A l \in 1..Len(queue) : seen[s] < queue[l]
               /\ \A i \in 0..fileAt : \A k \in 1..Len(files[i]) :
                    IsEvent(files[i][k]) => seen[s] < files[i][k]
    BY <2>1 DEF OrderInv, SeenIsBefore
  <2>2. ASSUME reader = "reads", NEW s \in 1..Len(seen), NEW i \in 0..fileAt,
               NEW k \in 1..Len(files'[i]), IsEvent(files'[i][k])
        PROVE  seen[s] < files'[i][k]
    <3>1. i \in Indices
      BY <2>2, LogFacts DEF LogShape
    <3>2. QED
      BY <1>3, <1>8, <2>1, <2>2, <3>1
  <2>3. ASSUME reader = "reads", NEW s \in 1..Len(seen)
        PROVE  \A l \in 1..Len(queue') : seen[s] < queue'[l]
    BY <1>3, <2>1, <2>3
  <2>4. QED
    BY <1>2, <2>1, <2>2, <2>3 DEF SeenIsBefore
<1>14. ExportsInOrder'
  BY <1>2 DEF OrderInv, ExportsInOrder
<1>15. QED
  BY <1>10, <1>11, <1>12, <1>13, <1>14 DEF OrderInv

(* The reader goes from the oldest file to the newest. *)
LEMMA OrderReadFile == LogTypeOK /\ LogShape /\ OrderInv /\ readFile => OrderInv'
<1> SUFFICES ASSUME LogTypeOK, LogShape, OrderInv, readFile
             PROVE  OrderInv'
  OBVIOUS
<1>1. /\ UNCHANGED <<files, queue, events>> /\ reader = "reads"
      /\ fileAt' = fileAt - 1 /\ (reader' = "reads" => fileAt # 0)
      /\ fileAt \in Indices /\ fileAt \in Nat
  BY LogFacts DEF readFile, writer, LogShape
<1>2. PICK all \in Seq(1..MaxEvents) :
        /\ all = seen \o Parsed(files[fileAt])
        /\ Len(all) \in Nat /\ Len(seen) \in Nat /\ Len(seen) <= Len(all)
        /\ \A s \in 1..Len(seen) : all[s] = seen[s]
        /\ \A s \in 1..Len(all) :
             s > Len(seen) =>
               /\ s - Len(seen) \in 1..Len(files[fileAt])
               /\ all[s] = files[fileAt][s - Len(seen)] /\ IsEvent(all[s])
  BY <1>1, ReadOne
<1>3. seen' = IF fileAt = 0 THEN Newest(all) ELSE all
  BY <1>2 DEF readFile
<1>4. ASSUME NEW s \in 1..Len(all)
      PROVE  s \in 1..Len(seen) \/ s > Len(seen)
  BY <1>2
<1>5. \A s, t \in 1..Len(all) : s < t => all[s] < all[t]
  <2>1. ASSUME NEW s \in 1..Len(all), NEW t \in 1..Len(all), s < t
        PROVE  all[s] < all[t]
    <3>1. CASE t \in 1..Len(seen)
      <4>1. s \in 1..Len(seen)
        BY <1>2, <2>1, <3>1
      <4>2. DOMAIN seen = 1..Len(seen)
        BY LogTypes, LenProperties
      <4>3. seen[s] < seen[t]
        BY <2>1, <3>1, <4>1, <4>2 DEF OrderInv, ExportsInOrder
      <4>4. QED
        BY <1>2, <3>1, <4>1, <4>3
    <3>2. CASE s \in 1..Len(seen) /\ t > Len(seen)
      <4>1. fileAt \in 0..fileAt
        BY <1>1
      <4>2. t - Len(seen) \in 1..Len(files[fileAt]) /\ all[t] = files[fileAt][t - Len(seen)]
            /\ IsEvent(all[t]) /\ all[s] = seen[s]
        BY <1>2, <3>2
      <4>3. QED
        BY <1>1, <3>2, <4>1, <4>2 DEF OrderInv, SeenIsBefore
    <3>3. CASE s > Len(seen) /\ t > Len(seen)
      <4>1. /\ t - Len(seen) \in 1..Len(files[fileAt]) /\ all[t] = files[fileAt][t - Len(seen)]
            /\ s - Len(seen) \in 1..Len(files[fileAt]) /\ all[s] = files[fileAt][s - Len(seen)]
            /\ IsEvent(all[t]) /\ IsEvent(all[s])
        BY <1>2, <3>3
      <4>2. s - Len(seen) < t - Len(seen)
        BY <1>2, <2>1
      <4>3. QED
        BY <1>1, <4>1, <4>2 DEF OrderInv, LinesInOrder
    <3>4. QED
      BY <1>4, <3>1, <3>2, <3>3
  <2>2. QED
    BY <2>1
<1>6. ExportsInOrder'
  <2>1. CASE fileAt = 0
    <3>1. PICK d \in Nat :
            /\ Len(Newest(all)) + d = Len(all)
            /\ \A k \in 1..Len(Newest(all)) : Newest(all)[k] = all[k + d]
      BY NewestFacts
    <3>2. Newest(all) \in Seq(1..MaxEvents) /\ Len(Newest(all)) \in Nat
      BY NewestFacts, LenProperties
    <3>3. DOMAIN Newest(all) = 1..Len(Newest(all))
      BY <3>2, LenProperties
    <3>4. \A k \in 1..Len(Newest(all)) : k + d \in 1..Len(all)
      BY <1>2, <3>1, <3>2
    <3>5. \A i, j \in 1..Len(Newest(all)) : i < j => i + d < j + d
      OBVIOUS
    <3>6. \A i, j \in 1..Len(Newest(all)) : i < j => Newest(all)[i] < Newest(all)[j]
      BY <1>5, <3>1, <3>4, <3>5
    <3>7. QED
      BY <1>3, <2>1, <3>3, <3>6 DEF ExportsInOrder
  <2>2. CASE fileAt # 0
    <3>1. seen' = all /\ DOMAIN all = 1..Len(all)
      BY <1>3, <2>2, LenProperties
    <3>2. QED
      BY <1>5, <3>1 DEF ExportsInOrder
  <2>3. QED
    BY <2>1, <2>2
<1>7. SeenIsBefore'
  <2>1. SUFFICES ASSUME reader' = "reads", NEW s \in 1..Len(seen')
                 PROVE  /\ seen'[s] <= events'
                        /\ \A l \in 1..Len(queue') : seen'[s] < queue'[l]
                        /\ \A i \in 0..fileAt' : \A k \in 1..Len(files'[i]) :
                             IsEvent(files'[i][k]) => seen'[s] < files'[i][k]
    BY DEF SeenIsBefore
  <2>2. seen' = all /\ s \in 1..Len(all) /\ fileAt' = fileAt - 1
    BY <1>1, <1>3, <2>1
  <2>3. CASE s \in 1..Len(seen)
    <3>1. all[s] = seen[s] /\ \A i \in 0..(fileAt - 1) : i \in 0..fileAt
      BY <1>1, <1>2, <2>3
    <3>2. QED
      BY <1>1, <2>2, <2>3, <3>1 DEF OrderInv, SeenIsBefore
  <2>4. CASE s > Len(seen)
    <3>1. PICK k \in 1..Len(files[fileAt]) : all[s] = files[fileAt][k] /\ IsEvent(all[s])
      BY <1>2, <2>2, <2>4
    <3>2. \A i \in 0..(fileAt - 1) : i \in Indices /\ fileAt > i
      BY <1>1, LogFacts
    <3>3. all[s] <= events /\ \A l \in 1..Len(queue) : all[s] < queue[l]
      BY <1>1, <3>1 DEF OrderInv, LinesBeforeQueue
    <3>4. \A i \in 0..(fileAt - 1) : \A l \in 1..Len(files[i]) :
            IsEvent(files[i][l]) => all[s] < files[i][l]
      BY <1>1, <3>1, <3>2 DEF OrderInv, LinesInOrder
    <3>5. QED
      BY <1>1, <2>2, <3>3, <3>4
  <2>5. QED
    BY <1>4, <2>2, <2>3, <2>4
<1>8. LinesInOrder' /\ QueueInOrder' /\ LinesBeforeQueue'
  BY <1>1 DEF OrderInv, LinesInOrder, QueueInOrder, LinesBeforeQueue
<1>9. QED
  BY <1>6, <1>7, <1>8 DEF OrderInv

(* A file that is missing is one the reader passes over. *)
LEMMA OrderReadFails == LogTypeOK /\ LogShape /\ OrderInv /\ readFails => OrderInv'
<1> SUFFICES ASSUME LogTypeOK, LogShape, OrderInv, readFails
             PROVE  OrderInv'
  OBVIOUS
<1>1. /\ UNCHANGED <<files, queue, events>> /\ reader = "reads"
      /\ fileAt' = fileAt - 1 /\ (reader' = "reads" => fileAt # 0 /\ seen' = seen)
      /\ fileAt \in Nat
  BY LogFacts DEF readFails, writer, LogShape
<1>2. LinesInOrder' /\ QueueInOrder' /\ LinesBeforeQueue'
  BY <1>1 DEF OrderInv, LinesInOrder, QueueInOrder, LinesBeforeQueue
<1>3. SeenIsBefore'
  <2>1. \A i \in 0..(fileAt - 1) : i \in 0..fileAt
    BY <1>1
  <2>2. QED
    BY <1>1, <2>1 DEF OrderInv, SeenIsBefore
<1>4. ExportsInOrder'
  <2>1. PICK all \in Seq(1..MaxEvents) : all = seen
    BY LogTypes
  <2>2. DOMAIN all = 1..Len(all) /\ Len(all) \in Nat
    BY LenProperties
  <2>3. PICK d \in Nat :
          /\ Len(Newest(all)) + d = Len(all)
          /\ \A k \in 1..Len(Newest(all)) : Newest(all)[k] = all[k + d]
    BY NewestFacts
  <2>4. Newest(all) \in Seq(1..MaxEvents) /\ Len(Newest(all)) \in Nat
    BY NewestFacts, LenProperties
  <2>5. DOMAIN Newest(all) = 1..Len(Newest(all))
    BY <2>4, LenProperties
  <2>6. \A k \in 1..Len(Newest(all)) : k + d \in 1..Len(all)
    BY <2>2, <2>3, <2>4
  <2>7. \A i, j \in 1..Len(Newest(all)) : i < j => i + d < j + d
    OBVIOUS
  <2>8. \A i, j \in 1..Len(all) : i < j => all[i] < all[j]
    BY <2>1, <2>2 DEF OrderInv, ExportsInOrder
  <2>9. \A i, j \in 1..Len(Newest(all)) : i < j => Newest(all)[i] < Newest(all)[j]
    BY <2>3, <2>6, <2>7, <2>8
  <2>10. seen' = Newest(all) \/ seen' = all
    BY <2>1 DEF readFails
  <2>11. QED
    BY <2>2, <2>5, <2>8, <2>9, <2>10 DEF ExportsInOrder
<1>5. QED
  BY <1>2, <1>3, <1>4 DEF OrderInv

(* Every step keeps the order. *)
LEMMA OrderStep == LogTypeOK /\ LogShape /\ OrderInv /\ [LogNext]_logVars => OrderInv'
<1> SUFFICES ASSUME LogTypeOK, LogShape, OrderInv, [LogNext]_logVars
             PROVE  OrderInv'
  OBVIOUS
<1>1. CASE append
  BY <1>1, OrderAppend
<1>2. CASE appendNow
  BY <1>2 DEF appendNow, records, reading, OrderInv, LinesInOrder, QueueInOrder,
              LinesBeforeQueue, SeenIsBefore, ExportsInOrder
<1>3. CASE rotate
  BY <1>3, OrderRotate
<1>4. CASE write
  BY <1>4, OrderWrite
<1>5. CASE appendFails
  <2>1. /\ UNCHANGED files \/ (step = "write" /\ files' = Appended(Torn))
        /\ queue # <<>> /\ queue' = Tail(queue) /\ UNCHANGED <<events, records>>
    BY <1>5 DEF appendFails, LogShape
  <2>2. \A i \in Indices : \A k \in 1..Len(files'[i]) :
          IsEvent(files'[i][k]) => k \in 1..Len(files[i]) /\ files'[i][k] = files[i][k]
    BY <2>1, TornIsNoEvent
  <2>3. QED
    BY <2>1, <2>2, OrderIsLeft, SeenIsLeft DEF OrderInv
<1>6. CASE Crash
  <2>1. /\ UNCHANGED files \/ (step = "write" /\ files' = Appended(Torn))
        /\ queue' = <<>> /\ events' = events /\ reader' = "idle" /\ seen' = <<>>
    BY <1>6 DEF Crash
  <2>2. \A i \in Indices : \A k \in 1..Len(files'[i]) :
          IsEvent(files'[i][k]) => k \in 1..Len(files[i]) /\ files'[i][k] = files[i][k]
    BY <2>1, TornIsNoEvent
  <2>3. LinesInOrder' /\ QueueInOrder' /\ LinesBeforeQueue'
    BY <2>1, <2>2, OrderIsLeft
  <2>4. SeenIsBefore' /\ ExportsInOrder'
    BY <2>1 DEF SeenIsBefore, ExportsInOrder
  <2>5. QED
    BY <2>3, <2>4 DEF OrderInv
<1>7. CASE recent
  <2>1. UNCHANGED <<files, queue, events>> /\ reader' = "waits" /\ seen' = <<>>
    BY <1>7 DEF recent, writer
  <2>2. SeenIsBefore' /\ ExportsInOrder'
    BY <2>1 DEF SeenIsBefore, ExportsInOrder
  <2>3. QED
    BY <2>1, <2>2 DEF OrderInv, LinesInOrder, QueueInOrder, LinesBeforeQueue
<1>8. CASE waited
  <2>1. UNCHANGED <<files, queue, events, seen>> /\ seen = <<>>
    BY <1>8 DEF waited, writer, LogShape
  <2>2. SeenIsBefore' /\ ExportsInOrder'
    BY <2>1 DEF SeenIsBefore, ExportsInOrder
  <2>3. QED
    BY <2>1, <2>2 DEF OrderInv, LinesInOrder, QueueInOrder, LinesBeforeQueue
<1>9. CASE readFile
  BY <1>9, OrderReadFile
<1>10. CASE readFails
  BY <1>10, OrderReadFails
<1>11. CASE UNCHANGED logVars
  BY <1>11 DEF logVars, OrderInv, LinesInOrder, QueueInOrder, LinesBeforeQueue, SeenIsBefore,
               ExportsInOrder
<1>12. QED
  BY <1>1, <1>2, <1>3, <1>4, <1>5, <1>6, <1>7, <1>8, <1>9, <1>10, <1>11
     DEF LogNext, Writer, Reader

(* What is stored is seen, so the export is complete. *)
LEMMA ExportIsComplete ==
  ASSUME LogTypeOK, ReadInv
  PROVE  ExportComplete
<1>1. SUFFICES ASSUME reader = "done", faults = 0, ~renamed, Len(seen) < Limit,
                      NEW e \in 1..until, e \in Stored
               PROVE  e \in ToSet(seen)
  BY DEF ExportComplete
<1>2. PICK i \in Indices : e \in ToSet(files[i])
  BY <1>1 DEF Stored
<1>3. DOMAIN files[i] = 1..Len(files[i]) /\ DOMAIN seen = 1..Len(seen)
  BY LogTypes, LenProperties
<1>4. PICK k \in 1..Len(files[i]) : e = files[i][k]
  BY <1>2, <1>3 DEF ToSet
<1>5. files[i][k] <= until
  BY <1>4
<1>6. IsSeen(e)
  BY <1>1, <1>4, <1>5 DEF ReadInv, StoredIsSeen
<1>7. QED
  BY <1>3, <1>6 DEF IsSeen, ToSet

(* A line written while the reader is at work is not one it had to see. *)
LEMMA ReadWrite == LogTypeOK /\ LogShape /\ ReadInv /\ write => ReadInv'
<1> SUFFICES ASSUME LogTypeOK, LogShape, ReadInv, write
             PROVE  ReadInv'
  OBVIOUS
<1>1. step = "write" /\ queue # <<>> /\ files' = Appended(Head(queue)) /\ queue' = Tail(queue)
  BY DEF write, LogShape
<1>2. UNCHANGED <<faults, renamed, reader, until, fileAt, seen>> /\ ~open'
  BY DEF write, records, reading
<1>3. /\ Len(queue) \in Nat \ {0} /\ Len(queue') = Len(queue) - 1 /\ 1 \in 1..Len(queue)
      /\ \A l \in 1..Len(queue') : queue'[l] = queue[l + 1] /\ l + 1 \in 1..Len(queue)
      /\ Head(queue) = queue[1] /\ queue[1] \in 1..MaxEvents
  BY <1>1, TailFacts
<1>4. queue[1] \in LogLine /\ IsEvent(queue[1])
  BY <1>3, LogFacts DEF LogLine
<1>5. \A i \in Indices : i # 0 => files'[i] = files[i]
  BY <1>1, <1>3, <1>4, AppendedLines
<1>6. Len(files[0]) \in Nat
  BY LogTypes, LogFacts
<1>7. ASSUME faults = 0, NEW i \in Indices, NEW k \in 1..Len(files'[i])
      PROVE  \/ k \in 1..Len(files[i]) /\ files'[i][k] = files[i][k]
             \/ files'[i][k] = queue[1]
  <2>1. CASE i # 0
    BY <1>5, <1>7, <2>1
  <2>2. CASE i = 0
    <3>1. ~open
      BY <1>7 DEF ReadInv, NothingTorn
    <3>2. /\ Len(files'[0]) = Len(files[0]) + 1 /\ files'[0][Len(files[0]) + 1] = queue[1]
          /\ \A j \in 1..Len(files[0]) : files'[0][j] = files[0][j]
      BY <1>1, <1>3, <1>4, <3>1, AppendedLines
    <3>3. k \in 1..Len(files[0]) \/ k = Len(files[0]) + 1
      BY <1>6, <1>7, <2>2, <3>2
    <3>4. QED
      BY <2>2, <3>2, <3>3
  <2>3. QED
    BY <2>1, <2>2
<1>8. NothingTorn'
  BY <1>2, <1>4, <1>7 DEF ReadInv, NothingTorn
<1>9. QueueIsLater'
  BY <1>2, <1>3 DEF ReadInv, QueueIsLater
<1>10. ASSUME reader \in {"reads", "done"}
       PROVE  ~(queue[1] <= until)
  BY <1>3, <1>10, LogTypes DEF ReadInv, QueueIsLater
<1>11. PassedIsSeen'
  BY <1>2, <1>7, <1>10 DEF ReadInv, PassedIsSeen, IsSeen
<1>12. StoredIsSeen'
  BY <1>2, <1>7, <1>10 DEF ReadInv, StoredIsSeen, IsSeen
<1>13. QED
  BY <1>8, <1>9, <1>11, <1>12 DEF ReadInv

(* A file moved on is either ahead of the reader or noted as moved. *)
LEMMA ReadRotate == LogTypeOK /\ LogShape /\ ReadInv /\ rotate => ReadInv'
<1> SUFFICES ASSUME LogTypeOK, LogShape, ReadInv, rotate
             PROVE  ReadInv'
  OBVIOUS
<1>1. /\ UNCHANGED <<faults, queue, reader, until, seen>>
      /\ (reader = "reads" => renamed') /\ (~renamed' => ~renamed) /\ (open' => open)
  BY DEF rotate, reading
<1>2. ASSUME NEW i \in Indices, NEW k \in 1..Len(files'[i])
      PROVE  \E j \in Indices : files'[i] = files[j] /\ k \in 1..Len(files[j])
  <2>1. files'[i] # <<>>
    BY <1>2
  <2>2. QED
    BY <1>2, <2>1, RotatedFrom
<1>3. NothingTorn'
  BY <1>1, <1>2 DEF ReadInv, NothingTorn
<1>4. QueueIsLater'
  BY <1>1 DEF ReadInv, QueueIsLater
<1>5. PassedIsSeen'
  BY <1>1 DEF PassedIsSeen
<1>6. StoredIsSeen'
  BY <1>1, <1>2 DEF ReadInv, StoredIsSeen, IsSeen
<1>7. QED
  BY <1>3, <1>4, <1>5, <1>6 DEF ReadInv

(* The reader takes up every line of the file it reads. *)
LEMMA ReadReadFile == LogTypeOK /\ LogShape /\ ReadInv /\ readFile => ReadInv'
<1> SUFFICES ASSUME LogTypeOK, LogShape, ReadInv, readFile
             PROVE  ReadInv'
  OBVIOUS
<1>1. /\ UNCHANGED <<files, open, queue, until, renamed, faults>> /\ reader = "reads"
      /\ fileAt' = fileAt - 1 /\ fileAt \in Indices
      /\ reader' = IF fileAt = 0 THEN "done" ELSE "reads"
  BY LogFacts DEF readFile, writer, LogShape
<1>2. PICK all \in Seq(1..MaxEvents) :
        /\ all = seen \o Parsed(files[fileAt])
        /\ Len(all) \in Nat /\ Len(seen) \in Nat /\ Len(seen) <= Len(all)
        /\ \A s \in 1..Len(seen) : all[s] = seen[s]
        /\ (\A k \in 1..Len(files[fileAt]) : IsEvent(files[fileAt][k])) =>
             \A k \in 1..Len(files[fileAt]) :
               Len(seen) + k \in 1..Len(all) /\ all[Len(seen) + k] = files[fileAt][k]
  BY <1>1, ReadOne
<1>3. seen' = IF fileAt = 0 THEN Newest(all) ELSE all
  BY <1>2 DEF readFile
<1>4. NothingTorn' /\ QueueIsLater'
  BY <1>1 DEF ReadInv, NothingTorn, QueueIsLater
<1>5. ASSUME faults = 0, ~renamed, NEW i \in Indices, NEW k \in 1..Len(files[i]), i >= fileAt,
             files[i][k] <= until
      PROVE  \E s \in 1..Len(all) : all[s] = files[i][k]
  <2>1. CASE i = fileAt
    BY <1>1, <1>2, <1>5, <2>1 DEF ReadInv, NothingTorn
  <2>2. CASE i # fileAt
    <3>1. i > fileAt
      <4>1. i \in Nat /\ fileAt \in Nat
        BY <1>1, LogFacts
      <4>2. QED
        BY <1>5, <2>2, <4>1
    <3>2. PICK s \in 1..Len(seen) : seen[s] = files[i][k]
      BY <1>1, <1>5, <3>1 DEF ReadInv, PassedIsSeen, IsSeen
    <3>3. s \in 1..Len(all)
      BY <1>2
    <3>4. QED
      BY <1>2, <3>2, <3>3
  <2>3. QED
    BY <2>1, <2>2
<1>6. \A i \in Indices : i > fileAt - 1 => i >= fileAt
  BY <1>1, LogFacts
<1>7. \A i \in Indices : i >= 0
  BY LogFacts
<1>8. CASE fileAt = 0
  <2>1. Len(Newest(all)) < Limit => Newest(all) = all
    BY NewestFacts
  <2>2. StoredIsSeen'
    BY <1>1, <1>3, <1>5, <1>7, <1>8, <2>1 DEF StoredIsSeen, IsSeen
  <2>3. PassedIsSeen'
    BY <1>1, <1>8 DEF PassedIsSeen
  <2>4. QED
    BY <1>4, <2>2, <2>3 DEF ReadInv
<1>9. CASE fileAt # 0
  <2>1. PassedIsSeen'
    BY <1>1, <1>3, <1>5, <1>6, <1>9 DEF PassedIsSeen, IsSeen
  <2>2. StoredIsSeen'
    BY <1>1, <1>9 DEF StoredIsSeen
  <2>3. QED
    BY <1>4, <2>1, <2>2 DEF ReadInv
<1>10. QED
  BY <1>8, <1>9

(* After a fault, only the queue is said something of. *)
LEMMA ReadFaulty == faults' # 0 /\ QueueIsLater' => ReadInv'
BY DEF ReadInv, NothingTorn, PassedIsSeen, StoredIsSeen

(* Every step keeps what a reading finds. *)
LEMMA ReadStep == LogTypeOK /\ LogShape /\ ReadInv /\ [LogNext]_logVars => ReadInv'
<1> SUFFICES ASSUME LogTypeOK, LogShape, ReadInv, [LogNext]_logVars
             PROVE  ReadInv'
  OBVIOUS
<1>1. faults \in Nat
  BY LogFacts DEF LogTypeOK
<1>2. CASE append
  <2>1. UNCHANGED <<files, open, reader, until, fileAt, seen, renamed, faults>>
    BY <1>2 DEF append, records, reading
  <2>2. /\ Len(queue') = Len(queue) + 1 /\ \A l \in 1..Len(queue) : queue'[l] = queue[l]
        /\ queue'[Len(queue) + 1] = events + 1
    BY <1>2, AppendFacts
  <2>3. Len(queue) \in Nat /\ events \in Nat /\ until \in Nat /\ until <= events
    BY LogTypes DEF LogShape
  <2>4. \A l \in 1..Len(queue') : l \in 1..Len(queue) \/ l = Len(queue) + 1
    BY <2>2, <2>3
  <2>5. QueueIsLater'
    BY <2>1, <2>2, <2>3, <2>4 DEF ReadInv, QueueIsLater
  <2>6. NothingTorn' /\ PassedIsSeen' /\ StoredIsSeen'
    BY <2>1 DEF ReadInv, NothingTorn, PassedIsSeen, StoredIsSeen, IsSeen
  <2>7. QED
    BY <2>5, <2>6 DEF ReadInv
<1>3. CASE appendNow
  BY <1>3 DEF appendNow, records, reading, ReadInv, NothingTorn, QueueIsLater, PassedIsSeen,
              StoredIsSeen, IsSeen
<1>4. CASE rotate
  BY <1>4, ReadRotate
<1>5. CASE write
  BY <1>5, ReadWrite
<1>6. CASE appendFails
  <2>1. queue # <<>> /\ queue' = Tail(queue)
    BY <1>6 DEF appendFails, LogShape
  <2>2. UNCHANGED <<reader, until>> /\ faults' = faults + 1
    BY <1>6 DEF appendFails, Faulty, records, reading
  <2>3. \A l \in 1..Len(queue') : queue'[l] = queue[l + 1] /\ l + 1 \in 1..Len(queue)
    BY <2>1, TailFacts
  <2>4. QueueIsLater'
    BY <2>2, <2>3 DEF ReadInv, QueueIsLater
  <2>5. QED
    BY <1>1, <2>2, <2>4, ReadFaulty
<1>7. CASE Crash
  <2>1. faults' = faults + 1 /\ reader' = "idle"
    BY <1>7 DEF Crash, Faulty
  <2>2. QED
    BY <1>1, <2>1, ReadFaulty DEF QueueIsLater
<1>8. CASE recent
  <2>1. UNCHANGED <<files, open, queue, faults>> /\ reader' = "waits"
    BY <1>8 DEF recent, writer
  <2>2. QED
    BY <2>1 DEF ReadInv, NothingTorn, QueueIsLater, PassedIsSeen, StoredIsSeen
<1>9. CASE waited
  <2>1. /\ UNCHANGED <<files, open, queue, until, fileAt, seen, renamed, faults>>
        /\ reader' = "reads" /\ fileAt = Oldest
    BY <1>9 DEF waited, writer, LogShape
  <2>2. DOMAIN queue = 1..Len(queue)
    BY LogTypes, LenProperties
  <2>3. QueueIsLater'
    <3>1. \A l \in 1..Len(queue) : queue[l] > until
      BY <1>9, <2>2 DEF waited
    <3>2. \A l \in 1..Len(queue) : until < queue[l]
      BY <3>1, LogTypes
    <3>3. QED
      BY <2>1, <3>2 DEF QueueIsLater
  <2>4. PassedIsSeen'
    BY <2>1, LogFacts DEF PassedIsSeen
  <2>5. QED
    BY <2>1, <2>3, <2>4 DEF ReadInv, NothingTorn, StoredIsSeen
<1>10. CASE readFile
  BY <1>10, ReadReadFile
<1>11. CASE readFails
  <2>1. UNCHANGED <<queue, until>> /\ reader = "reads" /\ faults' = faults + 1
    BY <1>11 DEF readFails, Faulty, writer
  <2>2. QueueIsLater'
    BY <2>1 DEF ReadInv, QueueIsLater
  <2>3. QED
    BY <1>1, <2>1, <2>2, ReadFaulty
<1>12. CASE UNCHANGED logVars
  BY <1>12 DEF logVars, ReadInv, NothingTorn, QueueIsLater, PassedIsSeen, StoredIsSeen, IsSeen
<1>13. QED
  BY <1>2, <1>3, <1>4, <1>5, <1>6, <1>7, <1>8, <1>9, <1>10, <1>11, <1>12
     DEF LogNext, Writer, Reader

(* The offsets of the files *)
LEMMA Offsets ==
  /\ Offset[0] = 0
  /\ \A i \in 1..Oldest :
       /\ i \in Nat /\ i - 1 \in 0..Oldest /\ Offset[i] \in Nat /\ Offset[i - 1] \in Nat
       /\ Offset[i] = Offset[i - 1] + LinesPerFile
  /\ Offset[Oldest] = (MaxFiles - 1) * LinesPerFile
<1>1. MaxFiles \in Nat /\ LinesPerFile \in Nat /\ Oldest \in Nat /\ Oldest = MaxFiles - 1
  BY LogFacts
<1>2. \A i \in 0..MaxFiles : Offset[i] = i * LinesPerFile
  BY DEF Offset
<1>3. \A i \in Nat : i * LinesPerFile \in Nat
  BY <1>1
<1>4. \A i \in 1..Oldest : i \in Nat /\ i - 1 \in Nat /\ i \in 0..MaxFiles /\ i - 1 \in 0..MaxFiles
  BY <1>1
<1>5. Offset[0] = 0
  <2>1. 0 * LinesPerFile = 0 /\ 0 \in 0..MaxFiles
    BY <1>1
  <2>2. QED
    BY <1>2, <2>1
<1>6. ASSUME NEW i \in 1..Oldest
      PROVE  i * LinesPerFile = (i - 1) * LinesPerFile + LinesPerFile
  BY <1>1, <1>4
<1>7. \A i \in 1..Oldest :
        /\ Offset[i] \in Nat /\ Offset[i - 1] \in Nat
        /\ Offset[i] = Offset[i - 1] + LinesPerFile
  BY <1>2, <1>3, <1>4, <1>6
<1>8. Offset[Oldest] = (MaxFiles - 1) * LinesPerFile
  BY <1>1, <1>2
<1>9. \A i \in 1..Oldest : i - 1 \in 0..Oldest
  BY <1>1
<1>10. QED
  BY <1>4, <1>5, <1>7, <1>8, <1>9

(* Where a file is that a rotation has or has not reached yet *)
LEMMA ShiftedFacts ==
  ASSUME LogTypeOK, LogShape, NEW i \in 1..Oldest
  PROVE  /\ i \in Nat /\ Shifted(i) \in {i, i + 1} /\ Shifted(i) \in 1..Oldest
         /\ Shifted(i) \in Indices
         /\ step # "rotate" => Shifted(i) = i /\ ~Rotated(i)
<1>1. rotating \in Nat /\ Oldest \in Nat /\ i \in Nat
  <2>1. rotating \in Indices
    BY LogTypes
  <2>2. rotating \in Nat /\ Oldest \in Nat
    BY <2>1, LogFacts
  <2>3. QED
    BY <2>2
<1>2. Shifted(i) \in {i, i + 1} /\ Shifted(i) \in 1..Oldest
  BY <1>1 DEF Shifted
<1>3. Shifted(i) \in Indices
  BY <1>1, <1>2, LogFacts
<1>4. step # "rotate" => Shifted(i) = i /\ ~Rotated(i)
  BY DEF Shifted, Rotated
<1>5. QED
  BY <1>1, <1>2, <1>3, <1>4

(* Whoever leaves the files and the rotation alone leaves the entries too. *)
LEMMA OthersStay ==
  ASSUME LogTypeOK, LogShape, OthersAreFull,
         \A i \in Indices : i # 0 => files'[i] = files[i],
         SettledLast' - Len(files'[0]) = SettledLast - Len(files[0]),
         \A i \in 1..Oldest : Shifted(i)' = Shifted(i) /\ (Rotated(i)' <=> Rotated(i))
  PROVE  OthersAreFull'
<1>1. SUFFICES ASSUME NEW i \in 1..Oldest, ~Rotated(i)'
               PROVE  \/ /\ files'[Shifted(i)'] = <<>>
                         /\ SettledLast' - Len(files'[0]) <= Offset[i - 1]
                      \/ /\ Len(files'[Shifted(i)']) = LinesPerFile
                         /\ \A k \in 1..LinesPerFile :
                              files'[Shifted(i)'][k] =
                                SettledLast' - Len(files'[0]) - Offset[i] + k
  BY DEF OthersAreFull
<1>2. ~Rotated(i) /\ Shifted(i)' = Shifted(i)
  BY <1>1
<1>3. Shifted(i) \in Indices /\ Shifted(i) # 0
  BY ShiftedFacts, LogFacts
<1>4. files'[Shifted(i)'] = files[Shifted(i)]
  BY <1>2, <1>3
<1>5. QED
  BY <1>1, <1>2, <1>4 DEF OthersAreFull

(* A new entry waits in the queue. *)
LEMMA KeptAppend == LogTypeOK /\ LogShape /\ KeptInv /\ append => KeptInv'
<1> SUFFICES ASSUME LogTypeOK, LogShape, KeptInv, append, faults = 0
             PROVE  QueueIsLast' /\ CurrentIsNewest' /\ OthersAreFull' /\ Gap'
  BY DEF KeptInv, append
<1>1. QueueIsLast /\ CurrentIsNewest /\ OthersAreFull /\ Gap
  BY DEF KeptInv
<1>2. UNCHANGED <<files, step, rotating>>
  BY DEF append
<1>3. /\ Len(queue') = Len(queue) + 1 /\ \A l \in 1..Len(queue) : queue'[l] = queue[l]
      /\ queue'[Len(queue) + 1] = events + 1 /\ events' = events + 1
  BY AppendFacts
<1>4. Len(queue) \in Nat /\ events \in Nat /\ Len(files[0]) \in Nat
  BY LogTypes, LogFacts
<1>5. SettledLast' = SettledLast /\ SettledLast = events - Len(queue)
  BY <1>3, <1>4 DEF SettledLast
<1>6. QueueIsLast'
  <2>1. \A l \in 1..Len(queue') : l \in 1..Len(queue) \/ l = Len(queue) + 1
    BY <1>3, <1>4
  <2>2. \A l \in 1..Len(queue) : queue[l] = SettledLast + l
    BY <1>1 DEF QueueIsLast
  <2>3. events + 1 = SettledLast + (Len(queue) + 1)
    BY <1>4, <1>5
  <2>4. \A l \in 1..Len(queue') : queue'[l] = SettledLast + l
    BY <1>3, <2>1, <2>2, <2>3
  <2>5. QED
    BY <1>5, <2>4 DEF QueueIsLast
<1>7. CurrentIsNewest'
  BY <1>1, <1>2, <1>5 DEF CurrentIsNewest
<1>8. OthersAreFull'
  <2>1. \A i \in 1..Oldest : Shifted(i)' = Shifted(i) /\ (Rotated(i)' <=> Rotated(i))
    BY <1>2 DEF Shifted, Rotated
  <2>2. QED
    BY <1>1, <1>2, <1>5, <2>1, OthersStay
<1>9. Gap'
  BY <1>1, <1>2 DEF Gap
<1>10. QED
  BY <1>6, <1>7, <1>8, <1>9

(* So does one that is appended while another one is being written. *)
LEMMA KeptAppendNow == LogTypeOK /\ LogShape /\ KeptInv /\ appendNow => KeptInv'
<1> SUFFICES ASSUME LogTypeOK, LogShape, KeptInv, appendNow, faults = 0
             PROVE  QueueIsLast' /\ CurrentIsNewest' /\ OthersAreFull' /\ Gap'
  BY DEF KeptInv, appendNow
<1>1. QueueIsLast /\ CurrentIsNewest /\ OthersAreFull /\ Gap
  BY DEF KeptInv
<1>2. UNCHANGED <<files, queue, events>> /\ step = "idle"
  BY DEF appendNow
<1>3. /\ step' \in {"write", "rotate"}
      /\ step' = "rotate" => rotating' = Oldest /\ Full
  BY DEF appendNow
<1>4. QueueIsLast' /\ CurrentIsNewest'
  BY <1>1, <1>2 DEF QueueIsLast, CurrentIsNewest, SettledLast
<1>5. OthersAreFull'
  <2>1. ASSUME NEW i \in 1..Oldest
        PROVE  /\ Shifted(i)' = i /\ ~Rotated(i)'
               /\ Shifted(i) = i /\ ~Rotated(i)
    BY <1>2, <1>3, LogFacts DEF Shifted, Rotated
  <2>2. SettledLast' = SettledLast
    BY <1>2 DEF SettledLast
  <2>3. QED
    BY <1>1, <1>2, <2>1, <2>2, OthersStay
<1>6. Gap'
  <2>1. Full => Len(files[0]) = LinesPerFile
    BY LogTypes, LogFacts DEF Full
  <2>2. QED
    BY <1>2, <1>3, <2>1, LogFacts DEF Gap
<1>7. QED
  BY <1>4, <1>5, <1>6

(* The entry that leaves the queue is in the file. *)
LEMMA KeptWrite == LogTypeOK /\ LogShape /\ ReadInv /\ KeptInv /\ write => KeptInv'
<1> SUFFICES ASSUME LogTypeOK, LogShape, ReadInv, KeptInv, write, faults = 0
             PROVE  QueueIsLast' /\ CurrentIsNewest' /\ OthersAreFull' /\ Gap'
  BY DEF KeptInv, write
<1>1. QueueIsLast /\ CurrentIsNewest /\ OthersAreFull /\ Gap
  BY DEF KeptInv
<1>2. /\ step = "write" /\ queue # <<>> /\ files' = Appended(Head(queue)) /\ queue' = Tail(queue)
      /\ step' = "idle" /\ events' = events
  BY DEF write, LogShape
<1>3. /\ Len(queue) \in Nat \ {0} /\ Len(queue') = Len(queue) - 1 /\ 1 \in 1..Len(queue)
      /\ \A l \in 1..Len(queue') : queue'[l] = queue[l + 1] /\ l + 1 \in 1..Len(queue)
      /\ Head(queue) = queue[1] /\ queue[1] \in 1..MaxEvents
  BY <1>2, TailFacts
<1>4. queue[1] \in LogLine
  BY <1>3 DEF LogLine
<1>5. ~open
  BY DEF ReadInv, NothingTorn
<1>6. /\ Len(files'[0]) = Len(files[0]) + 1 /\ files'[0][Len(files[0]) + 1] = queue[1]
      /\ \A j \in 1..Len(files[0]) : files'[0][j] = files[0][j]
      /\ \A i \in Indices : i # 0 => files'[i] = files[i]
  BY <1>2, <1>3, <1>4, <1>5, AppendedLines
<1>7. Len(queue) \in Nat /\ events \in Nat /\ Len(files[0]) \in Nat
  BY LogTypes, LogFacts
<1>8. SettledLast' = SettledLast + 1 /\ SettledLast = events - Len(queue)
  BY <1>2, <1>3, <1>7 DEF SettledLast
<1>9. \A l \in 1..Len(queue) : queue[l] = SettledLast + l
  BY <1>1 DEF QueueIsLast
<1>10. QueueIsLast'
  <2>1. \A l \in 1..Len(queue') : queue'[l] = SettledLast + (l + 1)
    BY <1>3, <1>9
  <2>2. \A l \in 1..Len(queue') : SettledLast + (l + 1) = (SettledLast + 1) + l
    BY <1>7, <1>8
  <2>3. QED
    BY <1>8, <2>1, <2>2 DEF QueueIsLast
<1>11. CurrentIsNewest'
  <2>1. \A k \in 1..Len(files'[0]) : k \in 1..Len(files[0]) \/ k = Len(files[0]) + 1
    BY <1>6, <1>7
  <2>2. \A k \in 1..Len(files[0]) : files[0][k] = SettledLast - Len(files[0]) + k
    BY <1>1 DEF CurrentIsNewest
  <2>3. SettledLast + 1 - (Len(files[0]) + 1) = SettledLast - Len(files[0])
    BY <1>7, <1>8
  <2>4. queue[1] = SettledLast - Len(files[0]) + (Len(files[0]) + 1)
    <3>1. queue[1] = SettledLast + 1 /\ SettledLast \in Int
      BY <1>3, <1>7, <1>8, <1>9
    <3>2. PICK c \in Nat, n \in Int : c = Len(files[0]) /\ n = SettledLast
      BY <1>7, <3>1
    <3>3. n + 1 = n - c + (c + 1)
      OBVIOUS
    <3>4. QED
      BY <3>1, <3>2, <3>3
  <2>5. \A k \in 1..Len(files'[0]) : files'[0][k] = SettledLast - Len(files[0]) + k
    BY <1>6, <2>1, <2>2, <2>4
  <2>6. QED
    BY <1>6, <1>8, <2>3, <2>5 DEF CurrentIsNewest
<1>12. OthersAreFull'
  <2>1. SettledLast' - Len(files'[0]) = SettledLast - Len(files[0])
    BY <1>6, <1>7, <1>8
  <2>2. \A i \in 1..Oldest : Shifted(i)' = Shifted(i) /\ (Rotated(i)' <=> Rotated(i))
    BY <1>2 DEF Shifted, Rotated
  <2>3. QED
    BY <1>1, <1>6, <2>1, <2>2, OthersStay
<1>13. Gap'
  BY <1>2 DEF Gap
<1>14. QED
  BY <1>10, <1>11, <1>12, <1>13

(* A rename of an older file: only the place of that file changes. *)
LEMMA KeptRotateOlder ==
  ASSUME LogTypeOK, LogShape, ReadInv, KeptInv, faults = 0, rotate, rotating # 1
  PROVE  OthersAreFull' /\ CurrentIsNewest' /\ Gap'
<1>1. CurrentIsNewest /\ OthersAreFull /\ Gap
  BY DEF KeptInv
<1>2. step = "rotate" /\ step' = "rotate" /\ rotating' = rotating - 1 /\ UNCHANGED <<queue, events>>
  BY DEF rotate
<1>3. /\ rotating \in Nat /\ rotating > 1 /\ rotating <= Oldest /\ Oldest \in Nat
      /\ rotating \in Indices /\ rotating - 1 \in Indices
  BY RotatedFiles, LogFacts
<1>4. \/ files[rotating - 1] = <<>> /\ files' = files
      \/ /\ files'[rotating] = files[rotating - 1] /\ files'[rotating - 1] = <<>>
         /\ \A i \in Indices : i \notin {rotating, rotating - 1} => files'[i] = files[i]
  BY RotatedFiles
<1>5. \A i \in Indices : i \notin {rotating, rotating - 1} => files'[i] = files[i]
  BY <1>4
<1>6. files'[0] = files[0] /\ files'[rotating - 1] = <<>>
  BY <1>3, <1>4, <1>5, LogFacts
<1>7. SettledLast' = SettledLast
  BY <1>2 DEF SettledLast
<1>8. Gap'
  BY <1>1, <1>2, <1>6 DEF Gap
<1>9. CurrentIsNewest'
  BY <1>1, <1>6, <1>7 DEF CurrentIsNewest
<1>10. files'[rotating] = files[rotating - 1]
  <2>1. CASE files[rotating - 1] = <<>> /\ files' = files /\ rotating < Oldest
    BY <1>1, <1>2, <2>1 DEF Gap
  <2>2. CASE files[rotating - 1] = <<>> /\ files' = files /\ rotating = Oldest
    <3>1. Oldest \in 1..Oldest /\ Oldest - 1 \in 1..Oldest
      BY <1>3, <2>2
    <3>2. /\ Shifted(Oldest) = Oldest /\ ~Rotated(Oldest)
          /\ Shifted(Oldest - 1) = Oldest - 1 /\ ~Rotated(Oldest - 1)
      BY <1>3, <2>2 DEF Shifted, Rotated
    <3>3. PICK last \in Int : last = SettledLast - Len(files[0])
      BY LogTypes, LogFacts DEF SettledLast
    <3>4. last <= Offset[(Oldest - 1) - 1]
      <4>1. Len(files[Oldest - 1]) # LinesPerFile
        BY <2>2, LogFacts
      <4>2. QED
        BY <1>1, <3>1, <3>2, <3>3, <4>1 DEF OthersAreFull
    <3>5. /\ Offset[Oldest] = Offset[Oldest - 1] + LinesPerFile
          /\ Offset[Oldest - 1] = Offset[(Oldest - 1) - 1] + LinesPerFile
          /\ Offset[Oldest] \in Nat /\ Offset[(Oldest - 1) - 1] \in Nat /\ Offset[Oldest - 1] \in Nat
      BY <3>1, Offsets
    <3>6. ASSUME Len(files[Oldest]) = LinesPerFile,
                 \A k \in 1..LinesPerFile : files[Oldest][k] = last - Offset[Oldest] + k
          PROVE  FALSE
      <4>1. 1 \in 1..LinesPerFile /\ LinesPerFile \in Nat \ {0}
        BY LogFacts
      <4>2. files[Oldest][1] = last - Offset[Oldest] + 1
        BY <3>6, <4>1
      <4>3. files[Oldest][1] \in LogLine /\ IsEvent(files[Oldest][1])
        BY <3>6, <4>1, LogTypes, LogFacts DEF ReadInv, NothingTorn
      <4>4. files[Oldest][1] \in 1..MaxEvents
        BY <4>3, LogFacts
      <4>5. PICK o \in Nat : o = Offset[(Oldest - 1) - 1]
        BY <3>5
      <4>6. Offset[Oldest] = o + LinesPerFile + LinesPerFile /\ last <= o
        BY <3>4, <3>5, <4>5
      <4>7. last - (o + LinesPerFile + LinesPerFile) + 1 < 1
        BY <3>3, <4>1, <4>5, <4>6
      <4>8. QED
        BY <4>2, <4>4, <4>6, <4>7
    <3>7. files[Oldest] = <<>>
      BY <1>1, <3>1, <3>2, <3>3, <3>6 DEF OthersAreFull
    <3>8. QED
      BY <2>2, <3>7
  <2>3. QED
    BY <1>3, <1>4, <2>1, <2>2
<1>11. OthersAreFull'
  <2>1. SUFFICES ASSUME NEW i \in 1..Oldest, ~Rotated(i)'
                 PROVE  \/ /\ files'[Shifted(i)'] = <<>>
                           /\ SettledLast' - Len(files'[0]) <= Offset[i - 1]
                        \/ /\ Len(files'[Shifted(i)']) = LinesPerFile
                           /\ \A k \in 1..LinesPerFile :
                                files'[Shifted(i)'][k] =
                                  SettledLast' - Len(files'[0]) - Offset[i] + k
    BY DEF OthersAreFull
  <2>2. i \in Nat /\ i < Oldest /\ i >= 1 /\ ~Rotated(i)
    BY <1>2, <1>3, <2>1 DEF Rotated
  <2>3. files'[Shifted(i)'] = files[Shifted(i)]
    <3>1. CASE i = rotating - 1
      <4>1. Shifted(i)' = rotating /\ Shifted(i) = rotating - 1
        BY <1>2, <1>3, <2>2, <3>1 DEF Shifted
      <4>2. QED
        BY <1>10, <4>1
    <3>2. CASE i # rotating - 1
      <4>1. /\ Shifted(i)' = Shifted(i) /\ Shifted(i) \notin {rotating, rotating - 1}
        BY <1>2, <1>3, <2>2, <3>2 DEF Shifted
      <4>2. Shifted(i) \in Indices
        BY ShiftedFacts
      <4>3. QED
        BY <1>5, <4>1, <4>2
    <3>3. QED
      BY <3>1, <3>2
  <2>4. QED
    BY <1>1, <1>6, <1>7, <2>2, <2>3 DEF OthersAreFull
<1>12. QED
  BY <1>8, <1>9, <1>11

(* The rename of the current file ends the rotation. *)
LEMMA KeptRotateCurrent ==
  ASSUME LogTypeOK, LogShape, KeptInv, faults = 0, rotate, rotating = 1
  PROVE  OthersAreFull' /\ CurrentIsNewest' /\ Gap'
<1>1. CurrentIsNewest /\ OthersAreFull /\ Gap
  BY DEF KeptInv
<1>2. step = "rotate" /\ step' = "write" /\ UNCHANGED <<queue, events>>
  BY DEF rotate
<1>3. Len(files[0]) = LinesPerFile /\ files[0] # <<>> /\ Oldest \in Nat \ {0}
  BY <1>1, <1>2, LogFacts DEF Gap
<1>4. /\ files'[1] = files[0] /\ files'[0] = <<>>
      /\ \A i \in Indices : i \notin {0, 1} => files'[i] = files[i]
  <2>1. rotating - 1 = 0
    OBVIOUS
  <2>2. QED
    BY <1>3, <2>1, RotatedFiles
<1>5. SettledLast' = SettledLast /\ SettledLast \in Int /\ Len(files'[0]) = 0
  BY <1>2, <1>4, LogTypes DEF SettledLast
<1>6. PICK last \in Int : last = SettledLast
  BY <1>5
<1>7. Gap'
  BY <1>2 DEF Gap
<1>8. CurrentIsNewest'
  <2>1. \A k \in 1..Len(files'[0]) : FALSE
    BY <1>5
  <2>2. QED
    BY <2>1 DEF CurrentIsNewest
<1>9. \A i \in 1..Oldest : Shifted(i)' = i
  BY <1>2 DEF Shifted
<1>10. ASSUME NEW i \in 1..Oldest
       PROVE  \/ files'[i] = <<>> /\ last <= Offset[i - 1]
              \/ /\ Len(files'[i]) = LinesPerFile
                 /\ \A k \in 1..LinesPerFile : files'[i][k] = last - Offset[i] + k
  <2>1. LinesPerFile \in Nat /\ i \in Nat
    BY LogFacts, Offsets
  <2>2. CASE i = 1
    <3>1. Offset[1] = LinesPerFile
      BY <1>3, <2>1, Offsets
    <3>2. \A k \in 1..LinesPerFile : files[0][k] = last - LinesPerFile + k
      BY <1>1, <1>3, <1>6 DEF CurrentIsNewest
    <3>3. QED
      BY <1>3, <1>4, <2>2, <3>1, <3>2
  <2>3. CASE i # 1
    <3>1. PICK j \in 1..Oldest : j = i - 1
      BY <1>3, <1>10, <2>3
    <3>2. Shifted(j) = i /\ ~Rotated(j)
      BY <1>2, <1>3, <2>1, <3>1 DEF Shifted, Rotated
    <3>3. \/ files[i] = <<>> /\ last - LinesPerFile <= Offset[j - 1]
          \/ /\ Len(files[i]) = LinesPerFile
             /\ \A k \in 1..LinesPerFile : files[i][k] = last - LinesPerFile - Offset[j] + k
      BY <1>1, <1>3, <1>6, <3>1, <3>2 DEF OthersAreFull
    <3>4. files'[i] = files[i]
      <4>1. i \in Indices
        BY <2>1, LogFacts
      <4>2. QED
        BY <1>4, <2>1, <2>3, <3>1, <4>1
    <3>5. /\ Offset[i] = Offset[j] + LinesPerFile /\ Offset[j] = Offset[j - 1] + LinesPerFile
          /\ Offset[i] \in Nat /\ Offset[j] \in Nat /\ Offset[j - 1] \in Nat
      BY <3>1, Offsets
    <3>6. last - LinesPerFile <= Offset[j - 1] => last <= Offset[i - 1]
      BY <1>6, <2>1, <3>1, <3>5
    <3>7. \A k \in 1..LinesPerFile : last - LinesPerFile - Offset[j] + k = last - Offset[i] + k
      BY <1>6, <2>1, <3>5
    <3>8. QED
      BY <3>3, <3>4, <3>6, <3>7
  <2>4. QED
    BY <2>2, <2>3
<1>11. OthersAreFull'
  <2>1. SettledLast' - Len(files'[0]) = last
    BY <1>5, <1>6
  <2>2. QED
    BY <1>9, <1>10, <2>1 DEF OthersAreFull
<1>12. QED
  BY <1>7, <1>8, <1>11

(* Every step keeps the entries where they are said to be. *)
LEMMA KeptStep ==
  LogTypeOK /\ LogShape /\ ReadInv /\ KeptInv /\ [LogNext]_logVars => KeptInv'
<1> SUFFICES ASSUME LogTypeOK, LogShape, ReadInv, KeptInv, [LogNext]_logVars
             PROVE  KeptInv'
  OBVIOUS
<1>1. faults \in Nat
  BY LogFacts DEF LogTypeOK
<1>2. ASSUME Faulty
      PROVE  KeptInv'
  BY <1>1, <1>2 DEF Faulty, KeptInv
<1>3. ASSUME UNCHANGED <<files, queue, step, rotating, events, faults>>
      PROVE  KeptInv'
  BY <1>3 DEF KeptInv, QueueIsLast, CurrentIsNewest, OthersAreFull, Gap, SettledLast, Shifted,
              Rotated
<1>4. CASE append
  BY <1>4, KeptAppend
<1>5. CASE appendNow
  BY <1>5, KeptAppendNow
<1>6. CASE rotate
  <2>1. faults' = faults /\ UNCHANGED <<queue, events>>
    BY <1>6 DEF rotate
  <2>2. QueueIsLast => QueueIsLast'
    BY <2>1 DEF QueueIsLast, SettledLast
  <2>3. QED
    BY <1>6, <2>1, <2>2, KeptRotateOlder, KeptRotateCurrent DEF KeptInv
<1>7. CASE write
  BY <1>7, KeptWrite
<1>8. CASE appendFails
  BY <1>2, <1>8 DEF appendFails
<1>9. CASE Crash
  BY <1>2, <1>9 DEF Crash
<1>10. CASE recent
  BY <1>3, <1>10 DEF recent, writer
<1>11. CASE waited
  BY <1>3, <1>11 DEF waited, writer
<1>12. CASE readFile
  BY <1>3, <1>12 DEF readFile, writer
<1>13. CASE readFails
  BY <1>2, <1>13 DEF readFails
<1>14. CASE UNCHANGED logVars
  BY <1>3, <1>14 DEF logVars
<1>15. QED
  BY <1>4, <1>5, <1>6, <1>7, <1>8, <1>9, <1>10, <1>11, <1>12, <1>13, <1>14
     DEF LogNext, Writer, Reader

(* So the newest entries, as many as the older files hold, are stored. *)
LEMMA KeptIsRetained ==
  ASSUME LogTypeOK, LogShape, KeptInv
  PROVE  Retained
<1>1. SUFFICES ASSUME faults = 0, NEW e \in (1..events) \ ToSet(queue),
                      Cardinality({f \in (1..events) \ ToSet(queue) : f > e})
                        < (MaxFiles - 1) * LinesPerFile
               PROVE  e \in Stored
  BY DEF Retained
<1>2. QueueIsLast /\ CurrentIsNewest /\ OthersAreFull /\ Gap
  BY <1>1 DEF KeptInv
<1>3. PICK c \in Nat : c = Len(files[0])
  BY LogTypes, LogFacts
<1>4. Len(queue) \in Nat /\ events \in Nat /\ DOMAIN queue = 1..Len(queue)
  BY LogTypes, LenProperties
<1>5. PICK n \in Int : n = events - Len(queue)
  BY <1>4
<1>6. \A l \in 1..Len(queue) : queue[l] = n + l
  BY <1>2, <1>5 DEF QueueIsLast, SettledLast
<1>7. n \in Nat
  <2>1. CASE Len(queue) = 0
    BY <1>4, <1>5, <2>1
  <2>2. CASE Len(queue) > 0
    <3>1. 1 \in 1..Len(queue)
      BY <1>4, <2>2
    <3>2. queue[1] = n + 1 /\ queue[1] \in 1..MaxEvents
      BY <1>6, <3>1, LogTypes
    <3>3. QED
      BY <3>2, LogFacts
  <2>3. QED
    BY <1>4, <2>1, <2>2
<1>8. (1..events) \ ToSet(queue) = 1..n
  <2>1. \A f \in ToSet(queue) : f > n
    BY <1>4, <1>5, <1>6 DEF ToSet
  <2>2. ASSUME NEW f \in 1..events, f > n
        PROVE  f \in ToSet(queue)
    <3>1. PICK l \in 1..Len(queue) : l = f - n
      <4>1. PICK m \in Nat : m = Len(queue)
        BY <1>4
      <4>2. f - n \in 1..m
        BY <1>4, <1>5, <2>2, <4>1
      <4>3. QED
        BY <4>1, <4>2
    <3>2. n + l = f
      BY <1>4, <1>5, <2>2, <3>1
    <3>3. QED
      BY <1>4, <1>6, <3>1, <3>2 DEF ToSet
  <2>3. \A f \in 1..n : f \in 1..events /\ ~(f > n)
    BY <1>4, <1>5, <1>7
  <2>4. \A f \in 1..events : ~(f > n) => f \in 1..n
    BY <1>5
  <2>5. QED
    BY <2>1, <2>2, <2>3, <2>4
<1>9. e \in 1..n
  BY <1>8
<1>10. n - e < Offset[Oldest]
  <2>1. {f \in 1..n : f > e} = (e + 1)..n
    BY <1>7, <1>9
  <2>2. Cardinality((e + 1)..n) = n - e
    <3>1. e + 1 \in Int /\ n \in Int /\ e + 1 <= n + 1 /\ n - (e + 1) + 1 = n - e
      BY <1>9
    <3>2. Cardinality((e + 1)..n) = IF e + 1 > n THEN 0 ELSE n - (e + 1) + 1
      BY <3>1, FS_Interval
    <3>3. QED
      BY <1>9, <3>1, <3>2
  <2>3. QED
    BY <1>1, <1>8, <2>1, <2>2, Offsets
<1>11. ASSUME NEW i \in Indices, NEW k \in 1..Len(files[i]), files[i][k] = e
       PROVE  e \in Stored
  <2>1. e # Torn
    BY <1>9, LogAssumption
  <2>2. DOMAIN files[i] = 1..Len(files[i])
    BY LogTypes, LenProperties
  <2>3. e \in ToSet(files[i])
    BY <1>11, <2>2 DEF ToSet
  <2>4. ToSet(files[i]) \in {ToSet(files[j]) : j \in Indices}
    OBVIOUS
  <2>5. e \in UNION {ToSet(files[j]) : j \in Indices}
    BY <2>3, <2>4
  <2>6. QED
    BY <2>1, <2>5 DEF Stored
<1>12. CASE e > n - c
  <2>1. PICK k \in 1..c : k = e - (n - c)
    BY <1>7, <1>9, <1>12
  <2>2. files[0][k] = n - c + k
    BY <1>2, <1>3, <1>5, <2>1 DEF CurrentIsNewest, SettledLast
  <2>3. n - c + k = e
    BY <1>7, <1>9, <2>1
  <2>4. QED
    BY <1>3, <1>11, <2>2, <2>3, LogFacts
<1>13. CASE ~(e > n - c)
  <2>1. PICK places \in SUBSET Nat : places = {i \in 0..Oldest : e > n - c - Offset[i]}
    <3>1. \A i \in 0..Oldest : i \in Nat
      BY LogFacts
    <3>2. {i \in 0..Oldest : e > n - c - Offset[i]} \in SUBSET Nat
      BY <3>1
    <3>3. QED
      BY <3>2
  <2>2. Oldest \in places
    <3>1. Oldest \in 0..Oldest /\ Oldest \in 1..Oldest
      BY LogFacts
    <3>2. PICK o \in Nat : o = Offset[Oldest]
      BY <3>1, Offsets
    <3>3. e > n - c - o
      BY <1>7, <1>9, <1>10, <3>2
    <3>4. QED
      BY <2>1, <3>1, <3>2, <3>3
  <2>3. PICK i \in places : \A j \in places : i <= j
    BY <2>1, <2>2, LeastElement
  <2>4. i \in 0..Oldest /\ e > n - c - Offset[i]
    BY <2>1
  <2>5. i # 0
    BY <1>7, <1>9, <1>13, <2>4, Offsets
  <2>6. i \in 1..Oldest /\ i \in Nat
    BY <2>4, <2>5, LogFacts
  <2>7. PICK o \in Nat : o = Offset[i - 1]
    BY <2>6, Offsets
  <2>8. Offset[i] = o + LinesPerFile /\ LinesPerFile \in Nat
    BY <2>6, <2>7, Offsets, LogFacts
  <2>9. ~(e > n - c - o)
    <3>1. i - 1 \in 0..Oldest /\ ~(i <= i - 1)
      BY <2>6, Offsets
    <3>2. i - 1 \notin places
      BY <2>3, <3>1
    <3>3. QED
      BY <2>1, <2>7, <3>1, <3>2
  <2>10. ~Rotated(i)
    <3>1. SUFFICES ASSUME step = "rotate", i = Oldest
                   PROVE  FALSE
      BY DEF Rotated
    <3>2. c = LinesPerFile
      BY <1>2, <1>3, <3>1 DEF Gap
    <3>3. n - e < o + LinesPerFile
      BY <1>10, <2>8, <3>1
    <3>4. QED
      BY <1>7, <1>9, <2>8, <2>9, <3>2, <3>3
  <2>11. \/ files[Shifted(i)] = <<>> /\ n - c <= o
         \/ /\ Len(files[Shifted(i)]) = LinesPerFile
            /\ \A k \in 1..LinesPerFile : files[Shifted(i)][k] = n - c - Offset[i] + k
    BY <1>2, <1>3, <1>5, <2>6, <2>7, <2>10 DEF OthersAreFull, SettledLast
  <2>12. ~(n - c <= o)
    BY <1>7, <1>9, <2>9
  <2>13. PICK k \in 1..LinesPerFile : k = e - (n - c - (o + LinesPerFile))
    <3>1. e > n - c - (o + LinesPerFile) /\ e <= n - c - o
      BY <1>7, <1>9, <2>4, <2>8, <2>9
    <3>2. e - (n - c - (o + LinesPerFile)) \in 1..LinesPerFile
      BY <1>7, <1>9, <2>8, <3>1
    <3>3. QED
      BY <3>2
  <2>14. n - c - (o + LinesPerFile) + k = e
    BY <1>7, <1>9, <2>8, <2>13
  <2>15. files[Shifted(i)][k] = e /\ k \in 1..Len(files[Shifted(i)])
    BY <2>8, <2>11, <2>12, <2>13, <2>14
  <2>16. Shifted(i) \in Indices
    BY <2>6, ShiftedFacts
  <2>17. QED
    BY <1>11, <2>15, <2>16
<1>14. QED
  BY <1>12, <1>13

(* In the initial state nothing is stored, queued or read. *)
LEMMA LogStart == LogInit => LogTypeOK /\ LogInv
<1> SUFFICES ASSUME LogInit
             PROVE  LogTypeOK /\ LogInv
  OBVIOUS
<1>1. \A i \in Indices : files[i] = <<>>
  BY DEF LogInit
<1>2. LogTypeOK
  <2>1. <<>> \in Seq(LogLine) /\ <<>> \in Seq(1..MaxEvents) /\ Len(<<>>) = 0
    OBVIOUS
  <2>2. FilesOK
    <3>1. files \in [Indices -> Seq(LogLine)] /\ open = FALSE
      BY <2>1 DEF LogInit
    <3>2. \A i \in Indices : Len(files[i]) <= LinesPerFile
      BY <1>1, <2>1, LogFacts
    <3>3. QED
      BY <3>1, <3>2 DEF FilesOK
  <2>3. QueueOK
    BY <2>1, LogFacts DEF LogInit, QueueOK
  <2>4. ReaderOK
    BY <2>1, LogFacts DEF LogInit, ReaderOK
  <2>5. QED
    BY <2>2, <2>3, <2>4, LogTypeParts
<1>3. \A i \in Indices : \A k \in 1..Len(files[i]) : FALSE
  BY <1>1
<1>4. /\ \A l \in 1..Len(queue) : FALSE
      /\ Len(queue) = 0 /\ Len(files[0]) = 0 /\ events = 0 /\ step = "idle" /\ reader = "idle"
      /\ seen = <<>> /\ until = 0 /\ ~open
  BY <1>1, LogFacts DEF LogInit
<1>5. LogShape
  BY <1>4 DEF LogShape
<1>6. OrderInv
  <2>1. LinesInOrder /\ LinesBeforeQueue
    BY <1>3 DEF LinesInOrder, LinesBeforeQueue
  <2>2. QueueInOrder /\ SeenIsBefore /\ ExportsInOrder
    BY <1>4 DEF QueueInOrder, SeenIsBefore, ExportsInOrder
  <2>3. QED
    BY <2>1, <2>2 DEF OrderInv
<1>7. ReadInv
  BY <1>3, <1>4 DEF ReadInv, NothingTorn, QueueIsLater, PassedIsSeen, StoredIsSeen
<1>8. KeptInv
  <2>1. SettledLast = 0
    BY <1>4 DEF SettledLast
  <2>2. QueueIsLast /\ CurrentIsNewest /\ Gap
    BY <1>4 DEF QueueIsLast, CurrentIsNewest, Gap
  <2>3. ASSUME NEW i \in 1..Oldest
        PROVE  files[Shifted(i)] = <<>> /\ SettledLast - Len(files[0]) <= Offset[i - 1]
    <3>1. Shifted(i) \in Indices
      BY <1>2, <1>5, ShiftedFacts
    <3>2. Offset[i - 1] \in Nat
      BY Offsets
    <3>3. QED
      BY <1>1, <1>4, <2>1, <3>1, <3>2
  <2>4. OthersAreFull
    BY <2>3 DEF OthersAreFull
  <2>5. QED
    BY <2>2, <2>4 DEF KeptInv
<1>9. QED
  BY <1>2, <1>5, <1>6, <1>7, <1>8 DEF LogInv

(* The invariant of the log holds in every state. *)
LEMMA LogInvHolds == LogSpec => [](LogTypeOK /\ LogInv)
<1>1. LogTypeOK /\ LogInv /\ [LogNext]_logVars => (LogTypeOK /\ LogInv)'
  BY LogTypeStep, LogShapeStep, OrderStep, ReadStep, KeptStep DEF LogInv
<1>2. QED
  BY <1>1, LogStart, PTL DEF LogSpec

(* The types of the log, and no file is larger than it may be, whatever    *)
(* fails and whenever the program ends.                                    *)
THEOREM LogTypeCorrect == LogSpec => []LogTypeOK
BY LogInvHolds, PTL

(* Without faults the newest entries are stored, however many files there  *)
(* are; an export lists its entries in order and once each, although files *)
(* are renamed under it; and an undisturbed one that is not too long holds *)
(* everything that was logged before it and is stored.                     *)
THEOREM LogFaithfulHolds == LogSpec => []LogFaithful
<1>1. LogTypeOK /\ LogInv => LogFaithful
  BY KeptIsRetained, ExportIsComplete DEF LogInv, OrderInv, LogFaithful
<1>2. QED
  BY <1>1, LogInvHolds, PTL
-----------------------------------------------------------------------------
(***************************************************************************)
(* The promise of the log.  The entries that are stored, in the order in   *)
(* which they are stored, increase (LinesInOrder), so that History is      *)
(* known by which they are: a step that adds none and takes none leaves    *)
(* it, one that adds the newest appends it, and one that takes all up to   *)
(* some entry takes a beginning of it.                                     *)
(***************************************************************************)
Increasing(s) == \A p, q \in 1..Len(s) : p < q => s[p] < s[q]

IsIn(e, s) == \E p \in 1..Len(s) : s[p] = e

(* Where two increasing lists of the same numbers agree, they agree one    *)
(* place further.                                                          *)
LEMMA AgreeFurther ==
  ASSUME NEW s \in Seq(Nat), NEW t \in Seq(Nat), Increasing(s), Increasing(t),
         \A e : IsIn(e, s) <=> IsIn(e, t),
         NEW k \in 1..Len(s), \A p \in 1..(k - 1) : p \in 1..Len(t) /\ s[p] = t[p]
  PROVE  k \in 1..Len(t) /\ s[k] = t[k]
<1>1. /\ Len(s) \in Nat /\ \A p \in 1..Len(s) : s[p] \in Nat
      /\ Len(t) \in Nat /\ \A p \in 1..Len(t) : t[p] \in Nat
  OBVIOUS
<1>2. PICK q \in 1..Len(t) : t[q] = s[k]
  BY DEF IsIn
<1>3. ~(q < k)
  <2>1. ASSUME q < k
        PROVE  FALSE
    <3>1. q \in 1..(k - 1) /\ q \in 1..Len(s)
      BY <1>1, <2>1
    <3>2. s[q] = s[k] /\ s[q] < s[k]
      BY <1>2, <2>1, <3>1 DEF Increasing
    <3>3. QED
      BY <1>1, <3>1, <3>2
  <2>2. QED
    BY <2>1
<1>4. k \in 1..Len(t)
  BY <1>1, <1>3
<1>5. PICK p \in 1..Len(s) : s[p] = t[k]
  BY <1>4 DEF IsIn
<1>6. ~(p < k)
  <2>1. ASSUME p < k
        PROVE  FALSE
    <3>1. p \in 1..(k - 1) /\ p \in 1..Len(t)
      BY <1>1, <2>1
    <3>2. t[p] = t[k] /\ t[p] < t[k]
      BY <1>4, <1>5, <2>1, <3>1 DEF Increasing
    <3>3. QED
      BY <1>1, <3>1, <3>2
  <2>2. QED
    BY <2>1
<1>7. t[k] <= t[q]
  <2>1. CASE k = q
    BY <1>1, <1>4, <2>1
  <2>2. CASE k # q
    <3>1. k < q
      BY <1>1, <1>3, <2>2
    <3>2. QED
      BY <1>1, <1>4, <3>1 DEF Increasing
  <2>3. QED
    BY <2>1, <2>2
<1>8. s[k] <= s[p]
  <2>1. CASE k = p
    BY <1>1, <2>1
  <2>2. CASE k # p
    <3>1. k < p
      BY <1>1, <1>6, <2>2
    <3>2. QED
      BY <1>1, <3>1 DEF Increasing
  <2>3. QED
    BY <2>1, <2>2
<1>9. QED
  BY <1>1, <1>2, <1>4, <1>5, <1>7, <1>8

(* So the first one is a beginning of the other,                           *)
LEMMA AgreeAlways ==
  ASSUME NEW s \in Seq(Nat), NEW t \in Seq(Nat), Increasing(s), Increasing(t),
         \A e : IsIn(e, s) <=> IsIn(e, t)
  PROVE  \A k \in 1..Len(s) : k \in 1..Len(t) /\ s[k] = t[k]
<1> DEFINE T == {k \in 1..Len(s) : ~(k \in 1..Len(t) /\ s[k] = t[k])}
<1>1. ASSUME T # {}
      PROVE  FALSE
  <2>1. T \in SUBSET Nat /\ T \subseteq 1..Len(s) /\ Len(s) \in Nat
    OBVIOUS
  <2>2. PICK k \in T : \A n \in T : k <= n
    <3> HIDE DEF T
    <3>1. QED
      BY <1>1, <2>1, LeastElement
  <2>3. k \in 1..Len(s)
    OBVIOUS
  <2>4. ASSUME NEW p \in 1..(k - 1)
        PROVE  p \in 1..Len(t) /\ s[p] = t[p]
    <3>1. p \in 1..Len(s) /\ ~(k <= p)
      BY <2>1, <2>3
    <3>2. p \notin T
      BY <2>2, <3>1
    <3>3. QED
      BY <3>1, <3>2
  <2>5. k \in 1..Len(t) /\ s[k] = t[k]
    BY <2>3, <2>4, AgreeFurther
  <2>6. QED
    BY <2>2, <2>5
<1>2. QED
  BY <1>1

(* and each is the other.                                                  *)
LEMMA IncreasingIsUnique ==
  ASSUME NEW s \in Seq(Nat), NEW t \in Seq(Nat), Increasing(s), Increasing(t),
         \A e : IsIn(e, s) <=> IsIn(e, t)
  PROVE  s = t
<1>1. Len(s) \in Nat /\ Len(t) \in Nat
  OBVIOUS
<1>2. \A k \in 1..Len(s) : k \in 1..Len(t) /\ s[k] = t[k]
  BY AgreeAlways
<1>3. \A k \in 1..Len(t) : k \in 1..Len(s) /\ t[k] = s[k]
  BY AgreeAlways
<1>4. Len(s) = Len(t)
  <2>1. Len(s) = 0 \/ Len(s) \in 1..Len(t)
    BY <1>1, <1>2
  <2>2. Len(t) = 0 \/ Len(t) \in 1..Len(s)
    BY <1>1, <1>3
  <2>3. QED
    BY <1>1, <2>1, <2>2
<1>5. QED
  BY <1>2, <1>4, SeqEqual
-----------------------------------------------------------------------------
(* One step of the recursion of FlattenSeq, and a function that takes n of *)
(* them                                                                    *)
JoinStep(lists, g, i) == IF i = 1 THEN lists[i] ELSE g[i - 1] \o lists[i]

Joining(lists, g, n) == g = [i \in 1..n |-> JoinStep(lists, g, i)]

(* There is such a function, for any number of steps. *)
LEMMA JoiningExists ==
  ASSUME NEW lists, NEW l \in Nat
  PROVE  \E g : Joining(lists, g, l)
<1> DEFINE T == {m \in Nat : ~\E g : Joining(lists, g, m)}
<1> SUFFICES ASSUME T # {}
             PROVE  FALSE
  OBVIOUS
<1>1. PICK m \in T : \A n \in T : m <= n
  BY LeastElement
<1>2. m # 0
  <2>1. \A g : [i \in 1..0 |-> JoinStep(lists, g, i)] = <<>>
    OBVIOUS
  <2>2. Joining(lists, <<>>, 0)
    BY <2>1 DEF Joining
  <2>3. QED
    BY <2>2
<1>3. m \in Nat /\ m - 1 \in Nat /\ m - 1 \notin T
  BY <1>1, <1>2
<1>4. PICK g : Joining(lists, g, m - 1)
  BY <1>3
<1> DEFINE h == [i \in 1..m |-> IF i = m THEN JoinStep(lists, g, m) ELSE g[i]]
<1>5. ASSUME NEW i \in 1..m
      PROVE  h[i] = JoinStep(lists, h, i)
  <2>1. CASE i = m
    <3>1. m # 1 => h[m - 1] = g[m - 1]
      BY <1>2, <1>3
    <3>2. h[i] = JoinStep(lists, g, i)
      BY <2>1
    <3> HIDE DEF h
    <3>3. QED
      BY <2>1, <3>1, <3>2 DEF JoinStep
  <2>2. CASE i # m
    <3>1. i \in 1..(m - 1) /\ h[i] = g[i]
      BY <1>3, <2>2
    <3>2. g[i] = JoinStep(lists, g, i)
      BY <1>4, <3>1 DEF Joining
    <3>3. i # 1 => h[i - 1] = g[i - 1]
      BY <1>3, <2>2
    <3> HIDE DEF h
    <3>4. QED
      BY <3>1, <3>2, <3>3 DEF JoinStep
  <2>3. QED
    BY <2>1, <2>2
<1>6. Joining(lists, h, m)
  <2>1. h = [i \in 1..m |-> h[i]]
    OBVIOUS
  <2> HIDE DEF h
  <2>2. QED
    BY <1>5, <2>1 DEF Joining
<1>7. QED
  BY <1>1, <1>6

(* FlattenSeq is what it ends with. *)
LEMMA FlattenIsLast ==
  ASSUME NEW lists, Len(lists) \in Nat, Len(lists) # 0
  PROVE  \E g : Joining(lists, g, Len(lists)) /\ FlattenSeq(lists) = g[Len(lists)]
<1> DEFINE f == CHOOSE g : Joining(lists, g, Len(lists))
<1>1. Joining(lists, f, Len(lists))
  BY JoiningExists
<1>2. FlattenSeq(lists) = f[Len(lists)]
  BY DEF FlattenSeq, Joining, JoinStep
<1>3. QED
  BY <1>1, <1>2
-----------------------------------------------------------------------------
(* The numbers of W in a list increase. *)
RisesOn(s, W) ==
  \A p, q \in 1..Len(s) : p < q /\ s[p] \in W /\ s[q] \in W => s[p] < s[q]

(* Two lists one behind the other *)
LEMMA JoinedRises ==
  ASSUME NEW S, NEW s \in Seq(S), NEW t \in Seq(S), NEW W, RisesOn(s, W), RisesOn(t, W),
         \A p \in 1..Len(s), q \in 1..Len(t) : s[p] \in W /\ t[q] \in W => s[p] < t[q]
  PROVE  /\ s \o t \in Seq(S) /\ RisesOn(s \o t, W)
         /\ \A e : IsIn(e, s \o t) <=> (IsIn(e, s) \/ IsIn(e, t))
<1> DEFINE st == s \o t
<1>1. /\ st \in Seq(S) /\ Len(st) = Len(s) + Len(t) /\ Len(s) \in Nat /\ Len(t) \in Nat
      /\ \A p \in 1..Len(st) : st[p] = IF p <= Len(s) THEN s[p] ELSE t[p - Len(s)]
  BY ConcatProperties
<1> HIDE DEF st
<1>2. ASSUME NEW p \in 1..Len(st)
      PROVE  \/ p \in 1..Len(s) /\ st[p] = s[p]
             \/ p > Len(s) /\ p - Len(s) \in 1..Len(t) /\ st[p] = t[p - Len(s)]
  BY <1>1
<1>3. ASSUME NEW p \in 1..Len(st), NEW q \in 1..Len(st), p < q, st[p] \in W, st[q] \in W
      PROVE  st[p] < st[q]
  <2>1. CASE q \in 1..Len(s) /\ st[q] = s[q]
    <3>1. p \in 1..Len(s) /\ st[p] = s[p]
      BY <1>1, <1>2, <1>3, <2>1
    <3>2. QED
      BY <1>3, <2>1, <3>1 DEF RisesOn
  <2>2. CASE q > Len(s) /\ q - Len(s) \in 1..Len(t) /\ st[q] = t[q - Len(s)]
    <3>1. CASE p \in 1..Len(s) /\ st[p] = s[p]
      BY <1>3, <2>2, <3>1
    <3>2. CASE p > Len(s) /\ p - Len(s) \in 1..Len(t) /\ st[p] = t[p - Len(s)]
      <4>1. p - Len(s) < q - Len(s)
        BY <1>1, <1>3
      <4>2. QED
        BY <1>3, <2>2, <3>2, <4>1 DEF RisesOn
    <3>3. QED
      BY <1>2, <3>1, <3>2
  <2>3. QED
    BY <1>2, <2>1, <2>2
<1>4. ASSUME NEW e
      PROVE  IsIn(e, st) <=> (IsIn(e, s) \/ IsIn(e, t))
  <2>1. IsIn(e, st) => IsIn(e, s) \/ IsIn(e, t)
    BY <1>2 DEF IsIn
  <2>2. ASSUME NEW p \in 1..Len(s)
        PROVE  p \in 1..Len(st) /\ st[p] = s[p]
    BY <1>1
  <2>3. ASSUME NEW q \in 1..Len(t)
        PROVE  q + Len(s) \in 1..Len(st) /\ st[q + Len(s)] = t[q]
    BY <1>1
  <2>4. QED
    BY <2>1, <2>2, <2>3 DEF IsIn
<1>5. RisesOn(st, W)
  BY <1>3 DEF RisesOn
<1>6. QED
  BY <1>1, <1>4, <1>5 DEF st

(* Lists whose numbers of W increase, and increase from list to list *)
AllRise(lists, W) ==
  \A i, j \in 1..Len(lists) : \A k \in 1..Len(lists[i]), l \in 1..Len(lists[j]) :
    /\ i < j \/ (i = j /\ k < l)
    /\ lists[i][k] \in W /\ lists[j][l] \in W
    => lists[i][k] < lists[j][l]

(* Flattened they are one that increases, with the elements of all. *)
LEMMA FlatRises ==
  ASSUME NEW S, NEW lists \in Seq(Seq(S)), Len(lists) # 0, NEW W, AllRise(lists, W)
  PROVE  /\ FlattenSeq(lists) \in Seq(S) /\ RisesOn(FlattenSeq(lists), W)
         /\ \A e : IsIn(e, FlattenSeq(lists)) <=> \E i \in 1..Len(lists) : IsIn(e, lists[i])
<1>1. Len(lists) \in Nat /\ \A i \in 1..Len(lists) : lists[i] \in Seq(S)
  OBVIOUS
<1>2. PICK g : Joining(lists, g, Len(lists)) /\ FlattenSeq(lists) = g[Len(lists)]
  BY <1>1, FlattenIsLast
<1> DEFINE Good(m) == /\ g[m] \in Seq(S) /\ RisesOn(g[m], W)
                      /\ \A e : IsIn(e, g[m]) <=> \E i \in 1..m : IsIn(e, lists[i])
           T == {m \in 1..Len(lists) : ~Good(m)}
<1>3. ASSUME NEW i \in 1..Len(lists)
      PROVE  RisesOn(lists[i], W)
  BY <1>1 DEF AllRise, RisesOn
<1>4. ASSUME T # {}
      PROVE  FALSE
  <2>1. PICK m \in T : \A n \in T : m <= n
    <3>1. T \in SUBSET Nat
      OBVIOUS
    <3> HIDE DEF T
    <3>2. QED
      BY <1>4, <3>1, LeastElement
  <2>2. m \in 1..Len(lists) /\ ~Good(m)
    OBVIOUS
  <2>3. g[m] = JoinStep(lists, g, m)
    BY <1>2, <2>2 DEF Joining
  <2>4. CASE m = 1
    <3>1. g[m] = lists[1]
      BY <2>3, <2>4 DEF JoinStep
    <3>2. \A i \in 1..m : i = 1
      BY <2>4
    <3>3. 1 \in 1..m
      BY <2>4
    <3>4. \A e : IsIn(e, g[m]) <=> \E i \in 1..m : IsIn(e, lists[i])
      BY <3>1, <3>2, <3>3
    <3>5. Good(m)
      BY <1>1, <1>3, <2>2, <2>4, <3>1, <3>4
    <3>6. QED
      BY <2>2, <3>5
  <2>5. CASE m # 1
    <3>1. m - 1 \in 1..Len(lists) /\ m \in Nat /\ ~(m <= m - 1)
      BY <1>1, <2>2, <2>5
    <3>2. m - 1 \notin T
      <4> HIDE DEF T
      <4>1. QED
        BY <2>1, <3>1
    <3>3. Good(m - 1)
      BY <3>1, <3>2
    <3>4. PICK s : s = g[m - 1]
      OBVIOUS
    <3>5. PICK t : t = lists[m]
      OBVIOUS
    <3>6. g[m] = s \o t
      BY <2>3, <2>5, <3>4, <3>5 DEF JoinStep
    <3>7. s \in Seq(S) /\ t \in Seq(S) /\ RisesOn(s, W) /\ RisesOn(t, W)
      BY <1>1, <1>3, <2>2, <3>3, <3>4, <3>5
    <3>8. ASSUME NEW p \in 1..Len(s), NEW q \in 1..Len(t), s[p] \in W, t[q] \in W
          PROVE  s[p] < t[q]
      <4>1. IsIn(s[p], g[m - 1])
        BY <3>4 DEF IsIn
      <4>2. PICK i \in 1..(m - 1) : IsIn(s[p], lists[i])
        BY <3>3, <4>1
      <4>3. i \in 1..Len(lists) /\ i < m
        BY <3>1, <1>1, <4>2
      <4>4. PICK k \in 1..Len(lists[i]) : lists[i][k] = s[p]
        BY <4>2 DEF IsIn
      <4>5. QED
        BY <2>2, <3>5, <3>8, <4>3, <4>4 DEF AllRise
    <3>9. /\ s \o t \in Seq(S) /\ RisesOn(s \o t, W)
          /\ \A e : IsIn(e, s \o t) <=> (IsIn(e, s) \/ IsIn(e, t))
      BY <3>7, <3>8, JoinedRises
    <3>10. \A i : i \in 1..m <=> (i \in 1..(m - 1) \/ i = m)
      BY <3>1, <2>2
    <3>11. \A e : IsIn(e, s) <=> \E i \in 1..(m - 1) : IsIn(e, lists[i])
      BY <3>3, <3>4
    <3>12. \A e : IsIn(e, g[m]) <=> \E i \in 1..m : IsIn(e, lists[i])
      BY <3>5, <3>6, <3>9, <3>10, <3>11
    <3>13. Good(m)
      BY <3>6, <3>9, <3>12
    <3>14. QED
      BY <2>2, <3>13
  <2>6. QED
    BY <2>4, <2>5
<1>5. Len(lists) \in 1..Len(lists)
  BY <1>1
<1>6. Good(Len(lists))
  BY <1>4, <1>5
<1>7. QED
  BY <1>2, <1>6
-----------------------------------------------------------------------------
(* Some file holds the entry. *)
IsStored(e) == \E i \in Indices : \E k \in 1..Len(files[i]) : files[i][k] = e /\ IsEvent(e)

(* What History is: the entries stored, and they increase. *)
HistoryOK ==
  /\ History \in Seq(1..MaxEvents) /\ Increasing(History)
  /\ \A e : IsIn(e, History) <=> IsStored(e)

(* It is so in every state in which the lines are in order. *)
LEMMA HistoryIs == LogTypeOK /\ LinesInOrder => HistoryOK
<1> SUFFICES ASSUME LogTypeOK, LinesInOrder
             PROVE  HistoryOK
  OBVIOUS
<1> DEFINE lists == [i \in 1..MaxFiles |-> files[MaxFiles - i]]
           W == 1..MaxEvents
<1>1. MaxFiles \in Nat \ {0} /\ \A i \in 1..MaxFiles : MaxFiles - i \in Indices
  BY LogFacts
<1>2. lists \in Seq(Seq(LogLine)) /\ Len(lists) = MaxFiles
  <2>1. lists \in [1..MaxFiles -> Seq(LogLine)]
    BY <1>1, LogTypes
  <2>2. QED
    BY <1>1, <2>1
<1>3. \A i \in 1..MaxFiles : lists[i] = files[MaxFiles - i]
  OBVIOUS
<1>4. \A line \in LogLine : line \in W <=> IsEvent(line)
  BY LogFacts
<1>5. AllRise(lists, W)
  <2> HIDE DEF lists, W
  <2>1. ASSUME NEW i \in 1..MaxFiles, NEW j \in 1..MaxFiles,
               NEW k \in 1..Len(lists[i]), NEW l \in 1..Len(lists[j]),
               i < j \/ (i = j /\ k < l), lists[i][k] \in W, lists[j][l] \in W
        PROVE  lists[i][k] < lists[j][l]
    <3>1. MaxFiles - i > MaxFiles - j \/ (MaxFiles - i = MaxFiles - j /\ k < l)
      BY <1>1, <2>1
    <3>2. PICK a \in Indices : a = MaxFiles - i
      BY <1>1
    <3>3. PICK b \in Indices : b = MaxFiles - j
      BY <1>1
    <3>4. k \in 1..Len(files[a]) /\ l \in 1..Len(files[b])
      BY <1>3, <3>2, <3>3
    <3>5. lists[i][k] = files[a][k] /\ lists[j][l] = files[b][l]
      BY <1>3, <3>2, <3>3
    <3>6. IsEvent(files[a][k]) /\ IsEvent(files[b][l])
      BY <1>4, <2>1, <3>4, <3>5, LogTypes
    <3>7. a > b \/ (a = b /\ k < l)
      BY <3>1, <3>2, <3>3
    <3>8. QED
      BY <3>4, <3>5, <3>6, <3>7 DEF LinesInOrder
  <2>2. QED
    BY <1>2, <2>1 DEF AllRise
<1>6. StoredLines = FlattenSeq(lists)
  BY DEF StoredLines
<1> HIDE DEF lists
<1>7. /\ StoredLines \in Seq(LogLine) /\ RisesOn(StoredLines, W)
      /\ \A e : IsIn(e, StoredLines) <=> \E i \in 1..MaxFiles : IsIn(e, lists[i])
  BY <1>1, <1>2, <1>5, <1>6, FlatRises
<1>8. /\ History \in Seq(LogLine) /\ History \in Seq(LogLine \cap W)
      /\ \A e : IsIn(e, History) <=> (e \in W /\ IsIn(e, StoredLines))
  <2>1. PICK list \in Seq(LogLine) : list = StoredLines
    BY <1>7
  <2>2. PICK Wanted : Wanted = W
    OBVIOUS
  <2>3. PICK sel : sel = Selected(list, Wanted)
    OBVIOUS
  <2>4. History = sel
    BY <2>1, <2>2, <2>3 DEF History
  <2> HIDE DEF lists, W
  <2>5. /\ Selected(list, Wanted) \in Seq(LogLine)
        /\ Selected(list, Wanted) \in Seq(LogLine \cap Wanted)
        /\ \A x : (\E i \in 1..Len(Selected(list, Wanted)) : Selected(list, Wanted)[i] = x)
                    <=> (x \in Wanted /\ \E k \in 1..Len(list) : list[k] = x)
    BY SelectedElements
  <2>6. /\ sel \in Seq(LogLine) /\ sel \in Seq(LogLine \cap Wanted)
        /\ \A e : (\E i \in 1..Len(sel) : sel[i] = e)
                    <=> (e \in Wanted /\ \E k \in 1..Len(list) : list[k] = e)
    BY <2>3, <2>5
  <2>7. QED
    BY <2>1, <2>2, <2>4, <2>6 DEF IsIn
<1>9. PICK at : SelectedFrom(StoredLines, W, History, Len(StoredLines), at)
  BY <1>7, SelectedPlaces DEF History
<1>10. Increasing(History)
  <2>1. ASSUME NEW p \in 1..Len(History), NEW q \in 1..Len(History), p < q
        PROVE  History[p] < History[q]
    <3>1. /\ at[p] \in 1..Len(StoredLines) /\ at[q] \in 1..Len(StoredLines) /\ at[p] < at[q]
          /\ History[p] = StoredLines[at[p]] /\ History[q] = StoredLines[at[q]]
          /\ History[p] \in W /\ History[q] \in W
      BY <1>9, <2>1 DEF SelectedFrom
    <3>2. QED
      BY <1>7, <3>1 DEF RisesOn
  <2>2. QED
    BY <2>1 DEF Increasing
<1>11. History \in Seq(1..MaxEvents)
  <2>1. LogLine \cap W = 1..MaxEvents
    BY DEF LogLine
  <2>2. QED
    BY <1>8, <2>1
<1>12. ASSUME NEW e
       PROVE  IsIn(e, History) <=> IsStored(e)
  <2>1. ASSUME IsIn(e, History)
        PROVE  IsStored(e)
    <3>1. e \in W /\ IsIn(e, StoredLines)
      BY <1>8, <2>1
    <3>2. PICK i \in 1..MaxFiles : IsIn(e, lists[i])
      BY <1>7, <3>1
    <3>3. PICK a \in Indices : lists[i] = files[a]
      BY <1>1, <1>3
    <3>4. PICK k \in 1..Len(files[a]) : files[a][k] = e
      BY <3>2, <3>3 DEF IsIn
    <3>5. IsEvent(e)
      BY <1>4, <3>1, <3>4, LogTypes
    <3>6. QED
      BY <3>4, <3>5 DEF IsStored
  <2>2. ASSUME IsStored(e)
        PROVE  IsIn(e, History)
    <3>1. PICK a \in Indices : \E k \in 1..Len(files[a]) : files[a][k] = e /\ IsEvent(e)
      BY <2>2 DEF IsStored
    <3>2. MaxFiles - a \in 1..MaxFiles /\ MaxFiles - (MaxFiles - a) = a
      BY <1>1, LogFacts
    <3>3. lists[MaxFiles - a] = files[a]
      BY <1>3, <3>2
    <3>4. IsIn(e, lists[MaxFiles - a])
      BY <3>1, <3>3 DEF IsIn
    <3>5. e \in W
      BY <1>4, <3>1, LogTypes
    <3>6. QED
      BY <1>7, <1>8, <3>2, <3>4, <3>5
  <2>3. QED
    BY <2>1, <2>2
<1>13. QED
  BY <1>10, <1>11, <1>12 DEF HistoryOK
(* The same of the next state *)
LEMMA HistoryIsNext == LogTypeOK' /\ LinesInOrder' => HistoryOK'
BY HistoryIs, PTL

(* The same entries are stored: History is the same. *)
LEMMA HistoryStays ==
  ASSUME HistoryOK, HistoryOK', \A e : IsStored(e)' <=> IsStored(e)
  PROVE  History' = History
<1>1. /\ History \in Seq(Nat) /\ Increasing(History)
      /\ History' \in Seq(Nat) /\ Increasing(History')
  BY LogFacts DEF HistoryOK, Increasing
<1>2. \A e : IsIn(e, History') <=> IsIn(e, History)
  BY DEF HistoryOK
<1>3. QED
  BY <1>1, <1>2, IncreasingIsUnique

(* A list with one more number, larger than the others, at its end *)
LEMMA AppendedIs ==
  ASSUME NEW s \in Seq(Nat), NEW t \in Seq(Nat), Increasing(s), Increasing(t), NEW new \in Nat,
         \A p \in 1..Len(s) : s[p] < new, \A e : IsIn(e, t) <=> (IsIn(e, s) \/ e = new)
  PROVE  t = Append(s, new)
<1>1. PICK more : more = Append(s, new)
  OBVIOUS
<1>2. /\ more \in Seq(Nat) /\ Len(more) = Len(s) + 1 /\ Len(s) \in Nat
      /\ \A p \in 1..Len(s) : more[p] = s[p]
      /\ more[Len(s) + 1] = new
  BY <1>1, AppendProperties
<1>3. \A p \in 1..Len(more) : p \in 1..Len(s) \/ p = Len(s) + 1
  BY <1>2
<1>4. ASSUME NEW p \in 1..Len(more), NEW q \in 1..Len(more), p < q
      PROVE  more[p] < more[q]
  <2>1. p \in 1..Len(s) /\ more[p] = s[p]
    BY <1>2, <1>4
  <2>2. CASE q \in 1..Len(s)
    BY <1>2, <1>4, <2>1, <2>2 DEF Increasing
  <2>3. CASE q = Len(s) + 1
    BY <1>2, <2>1, <2>3
  <2>4. QED
    BY <1>3, <2>2, <2>3
<1>5. \A e : IsIn(e, more) <=> (IsIn(e, s) \/ e = new)
  <2>1. ASSUME NEW p \in 1..Len(s)
        PROVE  p \in 1..Len(more) /\ more[p] = s[p]
    BY <1>2
  <2>2. Len(s) + 1 \in 1..Len(more)
    BY <1>2
  <2>3. QED
    BY <1>2, <1>3, <2>1, <2>2 DEF IsIn
<1>6. Increasing(more)
  BY <1>4 DEF Increasing
<1>7. t = more
  BY <1>2, <1>5, <1>6, IncreasingIsUnique
<1>8. QED
  BY <1>1, <1>7

(* A list without those numbers of it that are in Lost, all of them before *)
(* the others, is what is left behind the last of them.                    *)
LEMMA WithoutIs ==
  ASSUME NEW s \in Seq(Nat), NEW t \in Seq(Nat), Increasing(s), Increasing(t), NEW Lost,
         \A p, q \in 1..Len(s) : s[p] \in Lost /\ s[q] \notin Lost => s[p] < s[q],
         \A e : IsIn(e, t) <=> (IsIn(e, s) /\ e \notin Lost)
  PROVE  t = s \/ \E n \in 1..Len(s) : t = SubSeq(s, n + 1, Len(s))
<1>1. Len(s) \in Nat /\ \A p \in 1..Len(s) : s[p] \in Nat
  OBVIOUS
<1> DEFINE First(n) == n \in 0..Len(s) /\ \A p \in 1..Len(s) : p > n => s[p] \notin Lost
<1>2. PICK n \in 0..Len(s) : First(n) /\ \A m \in 0..Len(s) : First(m) => n <= m
  <2> DEFINE T == {m \in 0..Len(s) : First(m)}
  <2>1. First(Len(s))
    BY <1>1
  <2>2. Len(s) \in 0..Len(s)
    BY <1>1
  <2>3. T # {} /\ T \in SUBSET Nat
    BY <2>1, <2>2
  <2>4. PICK n \in T : \A m \in T : n <= m
    <3> HIDE DEF T
    <3>1. QED
      BY <2>3, LeastElement
  <2>5. n \in 0..Len(s) /\ First(n) /\ \A m \in 0..Len(s) : First(m) => n <= m
    <3> HIDE DEF First
    <3>1. QED
      BY <2>4
  <2>6. QED
    BY <2>5
<1>3. n # 0 => s[n] \in Lost
  <2>1. ASSUME n # 0, s[n] \notin Lost
        PROVE  FALSE
    <3>1. n - 1 \in 0..Len(s) /\ n \in Nat /\ ~(n <= n - 1)
      BY <1>1, <2>1
    <3>2. \A p \in 1..Len(s) : p > n - 1 => p > n \/ p = n
      BY <1>1, <3>1
    <3>3. First(n - 1)
      BY <1>2, <2>1, <3>1, <3>2
    <3>4. QED
      BY <1>2, <3>1, <3>3
  <2>2. QED
    BY <2>1
<1>4. ASSUME NEW p \in 1..Len(s)
      PROVE  s[p] \in Lost <=> p <= n
  <2>1. CASE p <= n
    <3>1. n \in 1..Len(s) /\ s[n] \in Lost
      BY <1>1, <1>3, <2>1
    <3>2. p = n \/ s[p] < s[n]
      <4>1. p = n \/ p < n
        BY <1>1, <2>1
      <4>2. QED
        BY <3>1, <4>1 DEF Increasing
    <3>3. s[p] \in Lost
      <4>1. ASSUME s[p] \notin Lost
            PROVE  FALSE
        <5>1. s[n] < s[p] /\ s[n] \in Nat /\ s[p] \in Nat
          BY <1>1, <3>1, <4>1
        <5>2. QED
          BY <3>1, <3>2, <4>1, <5>1
      <4>2. QED
        BY <4>1
    <3>4. QED
      BY <2>1, <3>3
  <2>2. CASE ~(p <= n)
    <3>1. p > n
      BY <1>1, <2>2
    <3>2. QED
      BY <1>2, <2>2, <3>1
  <2>3. QED
    BY <2>1, <2>2
<1>5. PICK rest : rest = SubSeq(s, n + 1, Len(s))
  OBVIOUS
<1>6. /\ rest \in Seq(Nat) /\ Len(rest) = Len(s) - n
      /\ \A k \in 1..Len(rest) : rest[k] = s[n + k] /\ n + k \in 1..Len(s) /\ n + k > n
  <2>1. n + 1 \in 1..(Len(s) + 1) /\ Len(s) \in n..Len(s)
    BY <1>1
  <2>2. \A k \in (n + 1)..Len(s) : s[k] \in Nat
    BY <1>1
  <2>3. rest = [k \in 1..(Len(s) - n) |-> s[n + k]]
    BY <1>1, <1>5
  <2>4. \A k \in 1..(Len(s) - n) : n + k \in 1..Len(s) /\ n + k > n
    BY <1>1
  <2>5. PICK l \in Nat : l = Len(s) - n
    <3>1. Len(s) - n \in Nat
      BY <1>1
    <3>2. QED
      BY <3>1
  <2>6. rest \in Seq(Nat) /\ Len(rest) = Len(s) - n
    <3>1. rest = [k \in 1..l |-> s[n + k]] /\ \A k \in 1..l : s[n + k] \in Nat
      BY <1>1, <2>3, <2>4, <2>5
    <3>2. rest \in [1..l -> Nat]
      BY <3>1
    <3>3. rest \in Seq(Nat) /\ DOMAIN rest = 1..l
      BY <3>2, SeqDef
    <3>4. Len(rest) = l
      BY <3>3, LenProperties
    <3>5. QED
      BY <2>5, <3>3, <3>4
  <2>7. QED
    BY <2>3, <2>4, <2>6
<1>7. Increasing(rest)
  <2>1. \A k, l \in 1..Len(rest) : k < l => n + k < n + l
    BY <1>1, <1>6
  <2>2. QED
    BY <1>6, <2>1 DEF Increasing
<1>8. ASSUME NEW e
      PROVE  IsIn(e, rest) <=> IsIn(e, t)
  <2>1. IsIn(e, rest) => IsIn(e, s) /\ e \notin Lost
    <3>1. ASSUME NEW k \in 1..Len(rest), rest[k] = e
          PROVE  IsIn(e, s) /\ e \notin Lost
      <4>1. n + k \in 1..Len(s) /\ s[n + k] = e /\ ~(n + k <= n)
        BY <1>1, <1>6, <3>1
      <4>2. QED
        BY <1>4, <4>1 DEF IsIn
    <3>2. QED
      BY <3>1 DEF IsIn
  <2>2. IsIn(e, s) /\ e \notin Lost => IsIn(e, rest)
    <3>1. ASSUME NEW p \in 1..Len(s), s[p] = e, e \notin Lost
          PROVE  IsIn(e, rest)
      <4>1. ~(p <= n)
        BY <1>4, <3>1
      <4>2. p - n \in 1..Len(rest) /\ n + (p - n) = p
        BY <1>1, <1>6, <4>1
      <4>3. QED
        BY <1>6, <3>1, <4>2 DEF IsIn
    <3>2. QED
      BY <3>1 DEF IsIn
  <2>3. QED
    BY <2>1, <2>2
<1>9. t = rest
  BY <1>6, <1>7, <1>8, IncreasingIsUnique
<1>10. CASE n = 0
  <2>1. \A p \in 1..Len(s) : s[p] \notin Lost
    BY <1>1, <1>4, <1>10
  <2>2. \A e : IsIn(e, t) <=> IsIn(e, s)
    BY <2>1 DEF IsIn
  <2>3. QED
    BY <2>2, IncreasingIsUnique
<1>11. CASE n # 0
  <2>1. n \in 1..Len(s)
    BY <1>1, <1>11
  <2>2. QED
    BY <1>5, <1>9, <2>1
<1>12. QED
  BY <1>10, <1>11
-----------------------------------------------------------------------------
(* What is written of a failed entry, and the entry that continues an open *)
(* line, are not entries: the files hold those they held.                  *)
LEMMA EventsStay ==
  ASSUME LogTypeOK, LogShape, NEW entry \in LogLine,
         UNCHANGED files
           \/ (step = "write" /\ files' = Appended(entry) /\ (open \/ entry = Torn))
  PROVE  \A e : IsStored(e)' <=> IsStored(e)
<1>1. CASE UNCHANGED files
  BY <1>1 DEF IsStored
<1>2. CASE step = "write" /\ files' = Appended(entry) /\ (open \/ entry = Torn)
  <2>1. \A i \in Indices : i # 0 => files'[i] = files[i]
    BY <1>2, AppendedLines
  <2>2. Len(files[0]) \in Nat /\ 0 \in Indices
    BY LogTypes, LogFacts
  <2>3. \A k \in 1..Len(files'[0]) :
          IsEvent(files'[0][k]) => k \in 1..Len(files[0]) /\ files'[0][k] = files[0][k]
    <3>1. CASE open
      BY <1>2, <2>2, <3>1, AppendedLines DEF IsEvent
    <3>2. CASE ~open
      BY <1>2, <2>2, <3>2, AppendedLines DEF IsEvent
    <3>3. QED
      BY <3>1, <3>2
  <2>4. \A k \in 1..Len(files[0]) :
          IsEvent(files[0][k]) => k \in 1..Len(files'[0]) /\ files'[0][k] = files[0][k]
    <3>1. CASE open
      <4>1. files[0][Len(files[0])] = Torn
        BY <3>1 DEF LogTypeOK
      <4>2. QED
        BY <1>2, <2>2, <3>1, <4>1, AppendedLines DEF IsEvent
    <3>2. CASE ~open
      BY <1>2, <2>2, <3>2, AppendedLines
    <3>3. QED
      BY <3>1, <3>2
  <2>5. ASSUME NEW e, NEW i \in Indices, NEW k \in 1..Len(files'[i]), files'[i][k] = e, IsEvent(e)
        PROVE  IsStored(e)
    <3>1. k \in 1..Len(files[i]) /\ files'[i][k] = files[i][k]
      BY <2>1, <2>3, <2>5
    <3>2. QED
      BY <2>5, <3>1 DEF IsStored
  <2>6. ASSUME NEW e, NEW i \in Indices, NEW k \in 1..Len(files[i]), files[i][k] = e, IsEvent(e)
        PROVE  IsStored(e)'
    <3>1. k \in 1..Len(files'[i]) /\ files'[i][k] = files[i][k]
      BY <2>1, <2>4, <2>6
    <3>2. QED
      BY <2>6, <3>1 DEF IsStored
  <2>7. QED
    BY <2>5, <2>6 DEF IsStored
<1>3. QED
  BY <1>1, <1>2

(* An entry that is written on a line of its own is added to them. *)
LEMMA EventsGrow ==
  ASSUME LogTypeOK, LogShape, step = "write", ~open, NEW entry \in 1..MaxEvents,
         files' = Appended(entry)
  PROVE  \A e : IsStored(e)' <=> (IsStored(e) \/ e = entry)
<1>1. entry \in LogLine /\ IsEvent(entry)
  BY LogFacts DEF LogLine
<1>2. \A i \in Indices : i # 0 => files'[i] = files[i]
  BY <1>1, AppendedLines
<1>3. /\ Len(files'[0]) = Len(files[0]) + 1 /\ files'[0][Len(files[0]) + 1] = entry
      /\ \A k \in 1..Len(files[0]) : files'[0][k] = files[0][k]
      /\ Len(files[0]) \in Nat /\ 0 \in Indices
  BY <1>1, AppendedLines, LogTypes, LogFacts
<1>4. \A k \in 1..Len(files'[0]) : k \in 1..Len(files[0]) \/ k = Len(files[0]) + 1
  BY <1>3
<1>5. \A k \in 1..Len(files[0]) : k \in 1..Len(files'[0])
  BY <1>3
<1>6. ASSUME NEW e, NEW i \in Indices, NEW k \in 1..Len(files'[i]), files'[i][k] = e, IsEvent(e)
      PROVE  IsStored(e) \/ e = entry
  BY <1>2, <1>3, <1>4, <1>6 DEF IsStored
<1>7. ASSUME NEW e, NEW i \in Indices, NEW k \in 1..Len(files[i]), files[i][k] = e, IsEvent(e)
      PROVE  IsStored(e)'
  <2>1. k \in 1..Len(files'[i]) /\ files'[i][k] = e
    BY <1>2, <1>3, <1>5, <1>7
  <2>2. QED
    BY <1>7, <2>1 DEF IsStored
<1>8. IsStored(entry)'
  <2>1. Len(files[0]) + 1 \in 1..Len(files'[0])
    BY <1>3
  <2>2. QED
    BY <1>1, <1>3, <2>1 DEF IsStored
<1>9. QED
  BY <1>6, <1>7, <1>8 DEF IsStored

(* The rotation has made room before it renames the next file. *)
RoomBehind == step = "rotate" /\ rotating < Oldest => files[rotating] = <<>>

(* That is so whatever fails. *)
LEMMA RoomStep == LogTypeOK /\ LogShape /\ RoomBehind /\ [LogNext]_logVars => RoomBehind'
<1> SUFFICES ASSUME LogTypeOK, LogShape, RoomBehind, [LogNext]_logVars, step' = "rotate",
                    rotating' < Oldest
             PROVE  files'[rotating'] = <<>>
  BY DEF RoomBehind
<1>1. CASE UNCHANGED <<files, step, rotating>>
  BY <1>1 DEF RoomBehind
<1>2. CASE rotate
  <2>1. rotating' = rotating - 1
    BY <1>2 DEF rotate
  <2>2. QED
    BY <1>2, <2>1, RotatedFiles
<1>3. CASE appendNow
  BY <1>3, LogFacts DEF appendNow
<1>4. CASE write \/ appendFails \/ Crash
  BY <1>4 DEF write, appendFails, Crash
<1>5. CASE append
  BY <1>1, <1>5 DEF append
<1>6. CASE recent \/ waited \/ readFile \/ readFails
  BY <1>1, <1>6 DEF recent, waited, readFile, readFails, writer
<1>7. CASE UNCHANGED logVars
  BY <1>1, <1>7 DEF logVars
<1>8. QED
  BY <1>2, <1>3, <1>4, <1>5, <1>6, <1>7 DEF LogNext, Writer, Reader

(* What a rename does to the entries stored: the first one of a rotation   *)
(* takes those of the oldest file away, the others nothing.                *)
LEMMA EventsRotate ==
  ASSUME LogTypeOK, LogShape, LinesInOrder, RoomBehind, rotate
  PROVE  \/ \A e : IsStored(e)' <=> IsStored(e)
         \/ \A e : IsStored(e)' <=> (IsStored(e) /\ ~IsIn(e, files[Oldest]))
<1>1. /\ rotating \in 1..Oldest /\ rotating - 1 \in Indices /\ rotating \in Indices
      /\ \/ files[rotating - 1] = <<>> /\ files' = files
         \/ /\ files'[rotating] = files[rotating - 1] /\ files'[rotating - 1] = <<>>
            /\ \A i \in Indices : i \notin {rotating, rotating - 1} => files'[i] = files[i]
  BY RotatedFiles
<1>2. CASE files' = files
  BY <1>2 DEF IsStored
<1>3. CASE /\ files'[rotating] = files[rotating - 1] /\ files'[rotating - 1] = <<>>
           /\ \A i \in Indices : i \notin {rotating, rotating - 1} => files'[i] = files[i]
  <2>1. ASSUME NEW e, NEW i \in Indices, NEW k \in 1..Len(files'[i]), files'[i][k] = e, IsEvent(e)
        PROVE  \E j \in Indices : /\ j # rotating /\ k \in 1..Len(files[j])
                                  /\ files[j][k] = e
    <3>1. i # rotating - 1
      BY <1>3, <2>1
    <3>2. CASE i = rotating
      <4>1. rotating - 1 # rotating
        BY <1>1, LogFacts
      <4>2. QED
        BY <1>1, <1>3, <2>1, <3>2, <4>1
    <3>3. CASE i # rotating
      BY <1>3, <2>1, <3>1, <3>3
    <3>4. QED
      BY <3>2, <3>3
  <2>2. ASSUME NEW e, NEW i \in Indices, NEW k \in 1..Len(files[i]), files[i][k] = e, IsEvent(e),
               i # rotating
        PROVE  IsStored(e)'
    <3>1. CASE i = rotating - 1
      BY <1>1, <1>3, <2>2, <3>1 DEF IsStored
    <3>2. CASE i # rotating - 1
      BY <1>1, <1>3, <2>2, <3>2 DEF IsStored
    <3>3. QED
      BY <3>1, <3>2
  <2>3. \A e : IsStored(e)' => IsStored(e)
    BY <2>1 DEF IsStored
  <2>4. CASE rotating < Oldest
    <3>1. files[rotating] = <<>>
      BY <1>1, <2>4 DEF RoomBehind, rotate
    <3>2. \A k \in 1..Len(files[rotating]) : FALSE
      BY <3>1
    <3>3. \A e : IsStored(e) => IsStored(e)'
      BY <2>2, <3>2 DEF IsStored
    <3>4. QED
      BY <2>3, <3>3
  <2>5. CASE rotating = Oldest
    <3>1. ASSUME NEW e, IsStored(e)', IsIn(e, files[Oldest])
          PROVE  FALSE
      <4>1. PICK i \in Indices : \E k \in 1..Len(files'[i]) : files'[i][k] = e /\ IsEvent(e)
        BY <3>1 DEF IsStored
      <4>2. PICK k \in 1..Len(files'[i]) : files'[i][k] = e /\ IsEvent(e)
        BY <4>1
      <4>3. PICK j \in Indices : j # rotating /\ k \in 1..Len(files[j]) /\ files[j][k] = e
        BY <2>1, <4>2
      <4>4. PICK l \in 1..Len(files[Oldest]) : files[Oldest][l] = e
        BY <3>1 DEF IsIn
      <4>5. Oldest > j
        BY <2>5, <4>3, LogFacts
      <4>6. files[Oldest][l] < files[j][k]
        BY <4>2, <4>3, <4>4, <4>5, LogFacts DEF LinesInOrder
      <4>7. e \in Nat
        <5>1. e \in LogLine
          BY <4>3, LogTypes
        <5>2. QED
          BY <4>2, <5>1, LogFacts
      <4>8. QED
        BY <4>3, <4>4, <4>6, <4>7
    <3>2. \A e : IsStored(e) /\ ~IsIn(e, files[Oldest]) => IsStored(e)'
      BY <2>2, <2>5 DEF IsStored, IsIn
    <3>3. QED
      BY <2>3, <3>1, <3>2
  <2>6. rotating < Oldest \/ rotating = Oldest
    BY <1>1, LogFacts
  <2>7. QED
    BY <2>4, <2>5, <2>6
<1>4. QED
  BY <1>1, <1>2, <1>3
(* Entries that are taken away are forgotten from the beginning. *)
LEMMA RotateForgets ==
  ASSUME LogTypeOK, LinesInOrder, HistoryOK, HistoryOK',
         \A e : IsStored(e)' <=> (IsStored(e) /\ ~IsIn(e, files[Oldest]))
  PROVE  [LogPromised!Next]_History
<1>1. PICK s \in Seq(Nat) : s = History /\ Increasing(s)
  BY LogFacts DEF HistoryOK
<1>2. PICK t \in Seq(Nat) : t = History' /\ Increasing(t)
  <2>1. History' \in Seq(Nat) /\ Increasing(History')
    BY LogFacts DEF HistoryOK, Increasing
  <2>2. QED
    BY <2>1
<1>3. PICK Lost : Lost = {files[Oldest][l] : l \in 1..Len(files[Oldest])}
  OBVIOUS
<1>4. \A e : e \in Lost <=> IsIn(e, files[Oldest])
  BY <1>3 DEF IsIn
<1>5. \A e : IsIn(e, s) <=> IsStored(e)
  BY <1>1 DEF HistoryOK
<1>6. \A e : IsIn(e, t) <=> IsStored(e)'
  BY <1>2 DEF HistoryOK
<1>7. \A e : IsIn(e, t) <=> (IsIn(e, s) /\ e \notin Lost)
  BY <1>4, <1>5, <1>6
<1>8. ASSUME NEW p \in 1..Len(s), NEW q \in 1..Len(s), s[p] \in Lost, s[q] \notin Lost
      PROVE  s[p] < s[q]
  <2>1. IsStored(s[p]) /\ IsStored(s[q])
    BY <1>5 DEF IsIn
  <2>2. IsEvent(s[p])
    BY <2>1 DEF IsStored
  <2>3. PICK i \in Indices : \E k \in 1..Len(files[i]) : files[i][k] = s[q] /\ IsEvent(s[q])
    BY <2>1 DEF IsStored
  <2>4. PICK k \in 1..Len(files[i]) : files[i][k] = s[q] /\ IsEvent(s[q])
    BY <2>3
  <2>5. PICK l \in 1..Len(files[Oldest]) : files[Oldest][l] = s[p]
    BY <1>3, <1>8
  <2>6. i # Oldest
    BY <1>3, <1>8, <2>4
  <2>7. Oldest > i /\ Oldest \in Indices
    BY <2>6, LogFacts
  <2>8. QED
    BY <2>2, <2>4, <2>5, <2>7 DEF LinesInOrder
<1>9. t = s \/ \E n \in 1..Len(s) : t = SubSeq(s, n + 1, Len(s))
  BY <1>1, <1>2, <1>7, <1>8, WithoutIs
<1>10. DOMAIN s = 1..Len(s)
  OBVIOUS
<1>11. QED
  BY <1>1, <1>2, <1>9, <1>10 DEF LogPromised!Next, LogPromised!Forget

(* Every step of the log is one that is promised, or changes nothing of    *)
(* what is stored.                                                         *)
LEMMA LogStepIsPromised ==
  LogTypeOK /\ LogShape /\ OrderInv /\ RoomBehind /\ HistoryOK /\ HistoryOK' /\ [LogNext]_logVars
    => [LogPromised!Next]_History
<1> SUFFICES ASSUME LogTypeOK, LogShape, OrderInv, RoomBehind, HistoryOK, HistoryOK',
                    [LogNext]_logVars
             PROVE  [LogPromised!Next]_History
  OBVIOUS
<1>1. CASE UNCHANGED files
  BY <1>1, EventsStay, HistoryStays, TornIsALine
<1>2. CASE step = "write" /\ files' = Appended(Torn)
  BY <1>2, EventsStay, HistoryStays, TornIsALine
<1>3. CASE write
  <2>1. step = "write" /\ queue # <<>> /\ files' = Appended(Head(queue)) /\ queue' = Tail(queue)
    BY <1>3 DEF write, LogShape
  <2>2. PICK entry \in 1..MaxEvents : entry = Head(queue) /\ entry = queue[1] /\ 1 \in 1..Len(queue)
    BY <2>1, TailFacts
  <2>3. entry \in LogLine
    BY DEF LogLine
  <2>4. CASE open
    BY <2>1, <2>2, <2>3, <2>4, EventsStay, HistoryStays
  <2>5. CASE ~open
    <3>1. \A e : IsStored(e)' <=> (IsStored(e) \/ e = entry)
      BY <2>1, <2>2, <2>5, EventsGrow
    <3>2. PICK s \in Seq(Nat) : s = History /\ Increasing(s)
      BY LogFacts DEF HistoryOK
    <3>3. PICK t \in Seq(Nat) : t = History' /\ Increasing(t)
      BY LogFacts DEF HistoryOK, Increasing
    <3>4. \A e : IsIn(e, t) <=> (IsIn(e, s) \/ e = entry)
      BY <3>1, <3>2, <3>3 DEF HistoryOK
    <3>5. ASSUME NEW p \in 1..Len(s)
          PROVE  s[p] < entry
      <4>1. IsStored(s[p])
        BY <3>2 DEF HistoryOK, IsIn
      <4>2. QED
        BY <2>2, <4>1 DEF IsStored, OrderInv, LinesBeforeQueue
    <3>6. entry \in Nat
      BY LogFacts
    <3>7. t = Append(s, entry)
      <4>1. Increasing(s) /\ Increasing(t) /\ \A p \in 1..Len(s) : s[p] < entry
        BY <3>2, <3>3, <3>5
      <4>2. QED
        BY <3>4, <3>6, <4>1, AppendedIs
    <3>8. DOMAIN s = 1..Len(s)
      OBVIOUS
    <3>9. QED
      BY <3>2, <3>3, <3>5, <3>7, <3>8 DEF LogPromised!Next, LogPromised!Add
  <2>6. QED
    BY <2>4, <2>5
<1>4. CASE rotate
  <2>1. \/ \A e : IsStored(e)' <=> IsStored(e)
        \/ \A e : IsStored(e)' <=> (IsStored(e) /\ ~IsIn(e, files[Oldest]))
    BY <1>4, EventsRotate DEF OrderInv
  <2>2. QED
    BY <2>1, HistoryStays, RotateForgets DEF OrderInv
<1>5. CASE append \/ appendNow \/ recent \/ waited \/ readFile \/ readFails
  BY <1>1, <1>5 DEF append, appendNow, recent, waited, readFile, readFails, writer
<1>6. CASE appendFails \/ Crash
  BY <1>1, <1>2, <1>6 DEF appendFails, Crash
<1>7. CASE UNCHANGED logVars
  BY <1>1, <1>7 DEF logVars
<1>8. QED
  BY <1>3, <1>4, <1>5, <1>6, <1>7 DEF LogNext, Writer, Reader

(* Whatever the disk does, and whenever the program ends: new entries come *)
(* at the end, what is forgotten is forgotten from the beginning, and the  *)
(* entries are in the order of their events.                               *)
THEOREM LogKeepsPromise == LogSpec => KeepsLogPromise
<1>1. LogInit => LogPromised!Init /\ RoomBehind
  <2> SUFFICES ASSUME LogInit
               PROVE  History = <<>> /\ RoomBehind
    BY DEF LogPromised!Init
  <2>1. HistoryOK
    BY LogStart, HistoryIs DEF LogInv, OrderInv
  <2>2. \A e : ~IsStored(e)
    BY DEF LogInit, IsStored
  <2>3. \A e : ~IsIn(e, History)
    BY <2>1, <2>2 DEF HistoryOK
  <2>4. PICK s \in Seq(1..MaxEvents) : s = History
    BY <2>1 DEF HistoryOK
  <2>5. Len(s) \in Nat /\ \A p \in 1..Len(s) : FALSE
    BY <2>3, <2>4 DEF IsIn
  <2>6. s = <<>>
    BY <2>4, <2>5, EmptySeq
  <2>7. QED
    BY <2>4, <2>6 DEF RoomBehind, LogInit
<1>2. LogTypeOK /\ LogInv => HistoryOK
  BY HistoryIs DEF LogInv, OrderInv
<1>3. LogTypeOK /\ LogInv /\ RoomBehind /\ [LogNext]_logVars => RoomBehind'
  BY RoomStep DEF LogInv
<1>4. /\ LogTypeOK /\ LogInv /\ RoomBehind /\ HistoryOK /\ HistoryOK' /\ [LogNext]_logVars
      => [LogPromised!Next]_History
  BY LogStepIsPromised DEF LogInv
<1>5. QED
  BY <1>1, <1>2, <1>3, <1>4, LogInvHolds, PTL DEF LogSpec, KeepsLogPromise, LogPromised!Spec
-----------------------------------------------------------------------------
(***************************************************************************)
(* UpdateService: for any number of checks and of calls that install.      *)
(*                                                                         *)
(* The inductive invariant.  Between the guard of check() and the call of  *)
(* the library there is a write to the log: nothing must happen meanwhile  *)
(* that lets another check pass the guard.  So a call that is about to ask *)
(* finds the library idle and the state "checking"; a call that waits is   *)
(* the one the library answers; there is one such call at most; and what   *)
(* the library does is what the state says.                                *)
(***************************************************************************)
UnderWay(c) == pc[c] \in {"ask", "asked"}

CheckIsShown == \A c \in DOMAIN pc : UnderWay(c) => kind = "checking"

AsksIdleLibrary == \A c \in DOMAIN pc : pc[c] = "ask" => updater = "idle"

WaitsForAnswer == \A c \in DOMAIN pc : pc[c] = "asked" => caller = c

OneCheck == \A c, d \in DOMAIN pc : UnderWay(c) /\ UnderWay(d) => c = d

BusyIsShown == updater # "idle" => kind = updater

HandlerWasAsked == \A i \in DOMAIN pc : pc[i] \in {"log", "shutdown", "restart"} => clicks > 0

UpdateInv ==
  /\ CheckIsShown
  /\ AsksIdleLibrary
  /\ WaitsForAnswer
  /\ OneCheck
  /\ BusyIsShown
  /\ HandlerWasAsked
  /\ UpdatesInOrder

(* The initial states are typed and satisfy the invariant. *)
LEMMA UpdateInitHolds == UpdateInit => UpdateTypeOK /\ UpdateInv
<1> SUFFICES ASSUME UpdateInit
             PROVE  UpdateTypeOK /\ UpdateInv
  OBVIOUS
<1>1. 0 \in 0..MaxClicks /\ 0 \in 0..MaxFailures
  BY UpdateAssumption
<1>2. UpdateTypeOK
  BY <1>1, UpdateAssumption DEF UpdateInit, UpdateTypeOK
<1>3. UpdateInv
  BY
     DEF UpdateInit, UpdateInv, UnderWay, CheckIsShown, AsksIdleLibrary, WaitsForAnswer,
         OneCheck, BusyIsShown, HandlerWasAsked, UpdatesInOrder, ChecksDoNotOverlap,
         InstalledOnRequest
<1>4. QED
  BY <1>2, <1>3

(* Every step keeps the types. *)
LEMMA UpdateStepTyped ==
  ASSUME UpdateTypeOK, UpdateInv, UpdateNext
  PROVE  UpdateTypeOK'
<1>1. ASSUME NEW c \in Checks, check(c)
      PROVE  UpdateTypeOK'
  BY <1>1, UpdateAssumption
     DEF check, Goes, app, library, UpdateTypeOK, UpdateInv, AsksIdleLibrary, WaitsForAnswer
<1>2. ASSUME NEW c \in Checks, checkForUpdates(c)
      PROVE  UpdateTypeOK'
  BY <1>2, UpdateAssumption
     DEF checkForUpdates, Goes, app, UpdateTypeOK, UpdateInv, AsksIdleLibrary,
         WaitsForAnswer
<1>3. CASE notAvailable
  BY <1>3, UpdateAssumption
     DEF notAvailable, Answered, app, UpdateTypeOK, UpdateInv, AsksIdleLibrary,
         WaitsForAnswer
<1>4. CASE available
  BY <1>4, UpdateAssumption
     DEF available, Answered, app, UpdateTypeOK, UpdateInv, AsksIdleLibrary, WaitsForAnswer
<1>5. CASE checkFails
  BY <1>5, UpdateAssumption
     DEF checkFails, Answered, app, UpdateTypeOK, UpdateInv, AsksIdleLibrary, WaitsForAnswer
<1>6. CASE downloaded
  BY <1>6, UpdateAssumption
     DEF downloaded, app, UpdateTypeOK, UpdateInv, AsksIdleLibrary, WaitsForAnswer
<1>7. CASE downloadFails
  BY <1>7, UpdateAssumption
     DEF downloadFails, app, UpdateTypeOK, UpdateInv, AsksIdleLibrary, WaitsForAnswer
<1>8. CASE renderUpdate
  BY <1>8, UpdateAssumption
     DEF renderUpdate, library, UpdateTypeOK, UpdateInv, AsksIdleLibrary, WaitsForAnswer
<1>9. ASSUME NEW i \in Installs, installUpdate(i)
      PROVE  UpdateTypeOK'
  <2>1. clicks' \in 0..MaxClicks
    BY <1>9, UpdateAssumption DEF installUpdate, UpdateTypeOK
  <2>2. pc' \in [Checks \cup Installs -> {"idle", "ask", "asked", "log", "shutdown", "restart"}]
    BY <1>9 DEF installUpdate, Goes, UpdateTypeOK
  <2>3. caller # NoCall => pc'[caller] = "asked"
    BY <1>9 DEF installUpdate, Goes, UpdateTypeOK
  <2>4. QED
    BY <1>9, <2>1, <2>2, <2>3 DEF installUpdate, library, UpdateTypeOK
<1>10. ASSUME NEW i \in Installs, shutdown(i)
      PROVE  UpdateTypeOK'
  BY <1>10, UpdateAssumption
     DEF shutdown, Goes, Stops, library, UpdateTypeOK, UpdateInv, AsksIdleLibrary,
         WaitsForAnswer
<1>11. ASSUME NEW i \in Installs, shutdownThrows(i)
      PROVE  UpdateTypeOK'
  BY <1>11, UpdateAssumption
     DEF shutdownThrows, Goes, library, UpdateTypeOK, UpdateInv, AsksIdleLibrary,
         WaitsForAnswer
<1>12. ASSUME NEW i \in Installs, \E how \in {"quits", "throws", "reports"} : install(i, how)
      PROVE  UpdateTypeOK'
  BY <1>12, UpdateAssumption
     DEF install, Goes, library, UpdateTypeOK, UpdateInv, AsksIdleLibrary, WaitsForAnswer
<1>13. ASSUME NEW i \in Installs, installRefused(i)
      PROVE  UpdateTypeOK'
  BY <1>13, UpdateAssumption
     DEF installRefused, Goes, library, UpdateTypeOK, UpdateInv, AsksIdleLibrary,
         WaitsForAnswer
<1>14. ASSUME NEW i \in Installs, NEW credential \in {"read", "unreadable"},
             maybeStartRuntime(i, credential)
      PROVE  UpdateTypeOK'
  BY <1>14, UpdateAssumption
     DEF maybeStartRuntime, Goes, library, UpdateTypeOK, UpdateInv, AsksIdleLibrary,
         WaitsForAnswer
<1>15. CASE Stopped
  BY <1>15, UpdateAssumption
     DEF Stopped, library, UpdateTypeOK, UpdateInv, AsksIdleLibrary, WaitsForAnswer
<1>16. CASE UserQuits
  BY <1>16, UpdateAssumption
     DEF UserQuits, library, UpdateTypeOK, UpdateInv, AsksIdleLibrary, WaitsForAnswer
<1>17. CASE beforeQuit
  BY <1>17, UpdateAssumption
     DEF beforeQuit, Stops, library, UpdateTypeOK, UpdateInv, AsksIdleLibrary,
         WaitsForAnswer
<1>18. CASE Drained
  BY <1>18, UpdateAssumption
     DEF Drained, library, UpdateTypeOK, UpdateInv, AsksIdleLibrary, WaitsForAnswer
<1> QED
  BY <1>1, <1>2, <1>3, <1>4, <1>5, <1>6, <1>7, <1>8, <1>9, <1>10, <1>11, <1>12, <1>13,
     <1>14, <1>15, <1>16, <1>17, <1>18
     DEF UpdateNext, Library, Handler

(* Every step keeps the rest of the invariant. *)
LEMMA UpdateStepInv ==
  ASSUME UpdateTypeOK, UpdateInv, UpdateNext
  PROVE  UpdateInv'
<1>1. ASSUME NEW c \in Checks, check(c)
      PROVE  UpdateInv'
  BY <1>1, UpdateAssumption
     DEF check, Goes, app, library, Checkable, UpdateTypeOK, UpdateInv, UnderWay,
         CheckIsShown, AsksIdleLibrary, WaitsForAnswer, OneCheck, BusyIsShown,
         HandlerWasAsked, UpdatesInOrder, ChecksDoNotOverlap, InstalledOnRequest
<1>2. ASSUME NEW c \in Checks, checkForUpdates(c)
      PROVE  UpdateInv'
  BY <1>2, UpdateAssumption
     DEF checkForUpdates, Goes, app, Checkable, UpdateTypeOK, UpdateInv, UnderWay,
         CheckIsShown, AsksIdleLibrary, WaitsForAnswer, OneCheck, BusyIsShown,
         HandlerWasAsked, UpdatesInOrder, ChecksDoNotOverlap, InstalledOnRequest
<1>3. CASE notAvailable
  BY <1>3, UpdateAssumption
     DEF notAvailable, Answered, app, Checkable, UpdateTypeOK, UpdateInv, UnderWay,
         CheckIsShown, AsksIdleLibrary, WaitsForAnswer, OneCheck, BusyIsShown,
         HandlerWasAsked, UpdatesInOrder, ChecksDoNotOverlap, InstalledOnRequest
<1>4. CASE available
  BY <1>4, UpdateAssumption
     DEF available, Answered, app, Checkable, UpdateTypeOK, UpdateInv, UnderWay,
         CheckIsShown, AsksIdleLibrary, WaitsForAnswer, OneCheck, BusyIsShown,
         HandlerWasAsked, UpdatesInOrder, ChecksDoNotOverlap, InstalledOnRequest
<1>5. CASE checkFails
  BY <1>5, UpdateAssumption
     DEF checkFails, Answered, app, Checkable, UpdateTypeOK, UpdateInv, UnderWay,
         CheckIsShown, AsksIdleLibrary, WaitsForAnswer, OneCheck, BusyIsShown,
         HandlerWasAsked, UpdatesInOrder, ChecksDoNotOverlap, InstalledOnRequest
<1>6. CASE downloaded
  BY <1>6, UpdateAssumption
     DEF downloaded, app, Checkable, UpdateTypeOK, UpdateInv, UnderWay, CheckIsShown,
         AsksIdleLibrary, WaitsForAnswer, OneCheck, BusyIsShown, HandlerWasAsked,
         UpdatesInOrder, ChecksDoNotOverlap, InstalledOnRequest
<1>7. CASE downloadFails
  BY <1>7, UpdateAssumption
     DEF downloadFails, app, Checkable, UpdateTypeOK, UpdateInv, UnderWay, CheckIsShown,
         AsksIdleLibrary, WaitsForAnswer, OneCheck, BusyIsShown, HandlerWasAsked,
         UpdatesInOrder, ChecksDoNotOverlap, InstalledOnRequest
<1>8. CASE renderUpdate
  BY <1>8, UpdateAssumption
     DEF renderUpdate, library, Checkable, UpdateTypeOK, UpdateInv, UnderWay, CheckIsShown,
         AsksIdleLibrary, WaitsForAnswer, OneCheck, BusyIsShown, HandlerWasAsked,
         UpdatesInOrder, ChecksDoNotOverlap, InstalledOnRequest
<1>9. ASSUME NEW i \in Installs, installUpdate(i)
      PROVE  UpdateInv'
  BY <1>9, UpdateAssumption
     DEF installUpdate, Goes, library, Checkable, UpdateTypeOK, UpdateInv, UnderWay,
         CheckIsShown, AsksIdleLibrary, WaitsForAnswer, OneCheck, BusyIsShown,
         HandlerWasAsked, UpdatesInOrder, ChecksDoNotOverlap, InstalledOnRequest
<1>10. ASSUME NEW i \in Installs, shutdown(i)
      PROVE  UpdateInv'
  BY <1>10, UpdateAssumption
     DEF shutdown, Goes, Stops, library, Checkable, UpdateTypeOK, UpdateInv, UnderWay,
         CheckIsShown, AsksIdleLibrary, WaitsForAnswer, OneCheck, BusyIsShown,
         HandlerWasAsked, UpdatesInOrder, ChecksDoNotOverlap, InstalledOnRequest
<1>11. ASSUME NEW i \in Installs, shutdownThrows(i)
      PROVE  UpdateInv'
  BY <1>11, UpdateAssumption
     DEF shutdownThrows, Goes, library, Checkable, UpdateTypeOK, UpdateInv, UnderWay,
         CheckIsShown, AsksIdleLibrary, WaitsForAnswer, OneCheck, BusyIsShown,
         HandlerWasAsked, UpdatesInOrder, ChecksDoNotOverlap, InstalledOnRequest
<1>12. ASSUME NEW i \in Installs, \E how \in {"quits", "throws", "reports"} : install(i, how)
      PROVE  UpdateInv'
  BY <1>12, UpdateAssumption
     DEF install, Goes, library, Checkable, UpdateTypeOK, UpdateInv, UnderWay, CheckIsShown,
         AsksIdleLibrary, WaitsForAnswer, OneCheck, BusyIsShown, HandlerWasAsked,
         UpdatesInOrder, ChecksDoNotOverlap, InstalledOnRequest
<1>13. ASSUME NEW i \in Installs, installRefused(i)
      PROVE  UpdateInv'
  BY <1>13, UpdateAssumption
     DEF installRefused, Goes, library, Checkable, UpdateTypeOK, UpdateInv, UnderWay,
         CheckIsShown, AsksIdleLibrary, WaitsForAnswer, OneCheck, BusyIsShown,
         HandlerWasAsked, UpdatesInOrder, ChecksDoNotOverlap, InstalledOnRequest
<1>14. ASSUME NEW i \in Installs, NEW credential \in {"read", "unreadable"},
             maybeStartRuntime(i, credential)
      PROVE  UpdateInv'
  BY <1>14, UpdateAssumption
     DEF maybeStartRuntime, Goes, library, Checkable, UpdateTypeOK, UpdateInv, UnderWay,
         CheckIsShown, AsksIdleLibrary, WaitsForAnswer, OneCheck, BusyIsShown,
         HandlerWasAsked, UpdatesInOrder, ChecksDoNotOverlap, InstalledOnRequest
<1>15. CASE Stopped
  BY <1>15, UpdateAssumption
     DEF Stopped, library, Checkable, UpdateTypeOK, UpdateInv, UnderWay, CheckIsShown,
         AsksIdleLibrary, WaitsForAnswer, OneCheck, BusyIsShown, HandlerWasAsked,
         UpdatesInOrder, ChecksDoNotOverlap, InstalledOnRequest
<1>16. CASE UserQuits
  BY <1>16, UpdateAssumption
     DEF UserQuits, library, Checkable, UpdateTypeOK, UpdateInv, UnderWay, CheckIsShown,
         AsksIdleLibrary, WaitsForAnswer, OneCheck, BusyIsShown, HandlerWasAsked,
         UpdatesInOrder, ChecksDoNotOverlap, InstalledOnRequest
<1>17. CASE beforeQuit
  BY <1>17, UpdateAssumption
     DEF beforeQuit, Stops, library, Checkable, UpdateTypeOK, UpdateInv, UnderWay,
         CheckIsShown, AsksIdleLibrary, WaitsForAnswer, OneCheck, BusyIsShown,
         HandlerWasAsked, UpdatesInOrder, ChecksDoNotOverlap, InstalledOnRequest
<1>18. CASE Drained
  BY <1>18, UpdateAssumption
     DEF Drained, library, Checkable, UpdateTypeOK, UpdateInv, UnderWay, CheckIsShown,
         AsksIdleLibrary, WaitsForAnswer, OneCheck, BusyIsShown, HandlerWasAsked,
         UpdatesInOrder, ChecksDoNotOverlap, InstalledOnRequest
<1> QED
  BY <1>1, <1>2, <1>3, <1>4, <1>5, <1>6, <1>7, <1>8, <1>9, <1>10, <1>11, <1>12, <1>13,
     <1>14, <1>15, <1>16, <1>17, <1>18
     DEF UpdateNext, Library, Handler

(* Every step keeps the invariant. *)
LEMMA UpdateStepHolds ==
  UpdateTypeOK /\ UpdateInv /\ [UpdateNext]_updateVars => UpdateTypeOK' /\ UpdateInv'
<1> SUFFICES ASSUME UpdateTypeOK, UpdateInv, UpdateNext
             PROVE  UpdateTypeOK' /\ UpdateInv'
  BY DEF updateVars, UpdateTypeOK, UpdateInv, UnderWay, CheckIsShown, AsksIdleLibrary,
         WaitsForAnswer, OneCheck, BusyIsShown, HandlerWasAsked, UpdatesInOrder,
         ChecksDoNotOverlap, InstalledOnRequest
<1>1. UpdateTypeOK'
  BY UpdateStepTyped
<1>2. UpdateInv'
  BY UpdateStepInv
<1>3. QED
  BY <1>1, <1>2

(* The updater, the calls and the window are typed, and the library checks *)
(* exactly while a call waits for its answer.                              *)
THEOREM UpdateTypeCorrect == UpdateSpec => []UpdateTypeOK
<1>1. QED
  BY UpdateInitHolds, UpdateStepHolds, PTL DEF UpdateSpec

(* However many checks and installations overtake one another at their     *)
(* awaits: the library is never asked while it checks or downloads, and no *)
(* update is installed that nobody clicked for.                            *)
THEOREM UpdatesInOrderHolds == UpdateSpec => []UpdatesInOrder
<1>1. UpdateInv => UpdatesInOrder
  BY DEF UpdateInv
<1>2. QED
  BY <1>1, UpdateInitHolds, UpdateStepHolds, PTL DEF UpdateSpec
=============================================================================
