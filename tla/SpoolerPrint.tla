---------------------------- MODULE SpoolerPrint ----------------------------
(***************************************************************************)
(* Bons printed through Windows: printText and runPowerShellProcess of     *)
(* main/windows-printer-spooler.ts, and the script they run, which makes   *)
(* every copy a print job of its own.  Prints do not wait for one another: *)
(* a test page or a second loop's bon may be printed beside one.           *)
(***************************************************************************)
EXTENDS Naturals

CONSTANTS Prints,  \* calls of printText
          Copies

ASSUME SpoolerAssumption == Copies \in Nat \ {0}

VARIABLES
  spoolStage,   \* of a print: "check", "run", "caught" between the end of the
                \*   process and the catch of printText, or "settled"
  spoolOutcome, \* as in PrintPromise
  spoolAborted, \* its signal
  child,        \* its process: "none", "running", "killed" or "closed"
  copiesOut,    \* copies that the spooler has
  waiting       \* the fifteen seconds run, and the signal kills the process

spoolerVars == <<spoolStage, spoolOutcome, spoolAborted, child, copiesOut, waiting>>

SpoolerInit ==
  /\ spoolStage = [p \in Prints |-> "check"] /\ spoolOutcome = [p \in Prints |-> "none"]
  /\ spoolAborted = [p \in Prints |-> FALSE] /\ child = [p \in Prints |-> "none"]
  /\ copiesOut = [p \in Prints |-> 0] /\ waiting = [p \in Prints |-> FALSE]

SpoolerGoes(p, at) == spoolStage' = [spoolStage EXCEPT ![p] = at]
ChildIs(p, how) == child' = [child EXCEPT ![p] = how]

(* settle() and cleanup() of runPowerShellProcess *)
SpoolerSettle(p, at, result) ==
  /\ SpoolerGoes(p, at)
  /\ spoolOutcome' = [spoolOutcome EXCEPT ![p] = result]
  /\ waiting' = [waiting EXCEPT ![p] = FALSE]
-----------------------------------------------------------------------------
(* What printText is given is checked; another system than Windows and an  *)
(* invalid text are failures that may be tried again.                      *)
printText(p) ==
  /\ spoolStage[p] = "check"
  /\ \/ SpoolerSettle(p, "settled", "failed") /\ UNCHANGED child
     \/ spoolAborted[p] /\ SpoolerSettle(p, "caught", "none") /\ ChildIs(p, "killed")
     \/ /\ ~spoolAborted[p]
        /\ SpoolerGoes(p, "run") /\ ChildIs(p, "running")
        /\ waiting' = [waiting EXCEPT ![p] = TRUE]
        /\ UNCHANGED spoolOutcome
  /\ UNCHANGED <<spoolAborted, copiesOut>>

(* $document.Print(); a process that is being killed may do it once more. *)
copyPrinted(p) ==
  /\ child[p] \in {"running", "killed"} /\ copiesOut[p] < Copies
  /\ copiesOut' = [copiesOut EXCEPT ![p] = @ + 1]
  /\ UNCHANGED <<spoolStage, spoolOutcome, spoolAborted, child, waiting>>

(* Mutant: a process that was not successful counts as one. *)
childClosesAnyhow(p) ==
  /\ child[p] \in {"running", "killed"} /\ ChildIs(p, "closed")
  /\ IF spoolStage[p] = "run" THEN SpoolerSettle(p, "settled", "succeeded")
                         ELSE UNCHANGED <<spoolStage, spoolOutcome, waiting>>
  /\ UNCHANGED <<spoolAborted, copiesOut>>

(* close, with 0 after the last copy or with another code at any time *)
childCloses(p) ==
  /\ child[p] \in {"running", "killed"} /\ ChildIs(p, "closed")
  /\ IF spoolStage[p] = "run"
     THEN \/ copiesOut[p] = Copies /\ SpoolerSettle(p, "settled", "succeeded")
          \/ SpoolerSettle(p, "caught", "none")
     ELSE UNCHANGED <<spoolStage, spoolOutcome, waiting>>
  /\ UNCHANGED <<spoolAborted, copiesOut>>

(* error: the process cannot be started. *)
spawnFails(p) ==
  /\ spoolStage[p] = "run" /\ copiesOut[p] = 0 /\ ChildIs(p, "closed")
  /\ SpoolerSettle(p, "caught", "none")
  /\ UNCHANGED <<spoolAborted, copiesOut>>

(* The process takes too long, or writes too much. *)
timeout(p) ==
  /\ spoolStage[p] = "run" /\ waiting[p] /\ ChildIs(p, "killed")
  /\ SpoolerSettle(p, "caught", "none")
  /\ UNCHANGED <<spoolAborted, copiesOut>>

(* The catch of printText looks at the signal, not at the error. *)
catch(p) ==
  /\ spoolStage[p] = "caught"
  /\ SpoolerSettle(p, "settled", IF spoolAborted[p] THEN "canceled" ELSE "failed")
  /\ UNCHANGED <<spoolAborted, child, copiesOut>>

(* onAbort *)
AbortSpooler(p) ==
  /\ ~spoolAborted[p] /\ spoolAborted' = [spoolAborted EXCEPT ![p] = TRUE]
  /\ IF waiting[p] THEN SpoolerSettle(p, "caught", "none") /\ ChildIs(p, "killed")
                   ELSE UNCHANGED <<spoolStage, spoolOutcome, child, waiting>>
  /\ UNCHANGED copiesOut

Step(p) ==
  printText(p) \/ copyPrinted(p) \/ childCloses(p) \/ spawnFails(p) \/ timeout(p) \/ catch(p)

SpoolerNext == \E p \in Prints : Step(p) \/ AbortSpooler(p)

(* Nothing is assumed of a process that runs: the timer runs out.  A       *)
(* process that was killed ends.  A print may never be asked for.          *)
SpoolerFairness ==
  \A p \in Prints :
    /\ WF_spoolerVars(timeout(p)) /\ WF_spoolerVars(catch(p))
    /\ WF_spoolerVars(childCloses(p) /\ child[p] = "killed")

SpoolerSpec == SpoolerInit /\ [][SpoolerNext]_spoolerVars /\ SpoolerFairness
-----------------------------------------------------------------------------
(* Every variable has its type; timer and listener are there exactly while *)
(* the process is waited for.                                              *)
SpoolerTypeOK ==
  /\ spoolStage \in [Prints -> {"check", "run", "caught", "settled"}]
  /\ spoolOutcome \in [Prints -> {"none", "succeeded", "failed", "canceled"}]
  /\ spoolAborted \in [Prints -> BOOLEAN]
  /\ child \in [Prints -> {"none", "running", "killed", "closed"}]
  /\ copiesOut \in [Prints -> 0..Copies]
  /\ waiting \in [Prints -> BOOLEAN]
  /\ \A p \in Prints : waiting[p] <=> spoolStage[p] = "run"

(* When a print has ended no process is left that could go on printing     *)
(* while it is tried again.                                                *)
NoProcessLeft == \A p \in Prints : spoolStage[p] = "settled" => child[p] # "running"

SpoolerPromise(p) ==
  INSTANCE PrintPromise
    WITH Size <- Copies, outcome <- spoolOutcome[p], aborted <- spoolAborted[p],
         out <- copiesOut[p]

(* Every print has one outcome, and it tells what has gone out.            *)
PrintsKeepPromise ==
  /\ \A p \in Prints : SpoolerPromise(p)!Init
  /\ [][\A p \in Prints : SpoolerPromise(p)!Next \/ UNCHANGED SpoolerPromise(p)!vars]_spoolerVars

(* A process that hangs does not keep a print from ending, nor live on.    *)
PrintsEnd ==
  \A p \in Prints :
    spoolStage[p] # "check" ~> spoolOutcome[p] # "none" /\ child[p] \in {"none", "closed"}
=============================================================================
