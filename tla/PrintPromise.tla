---------------------------- MODULE PrintPromise ----------------------------
(***************************************************************************)
(* What the print executor may rely on when it hands a bon to an adapter,  *)
(* over the network or through the Windows spooler.                        *)
(*                                                                         *)
(* PrintExecutor takes a print for one step with five outcomes: printed,   *)
(* not printed as the printer is offline, refused, failed after something  *)
(* or everything went out, and canceled.  This is the promise behind it.   *)
(***************************************************************************)
EXTENDS Naturals

CONSTANT Size      \* parts of the bon: packets, or copies

VARIABLES outcome, \* "none" while the print goes on
          aborted, \* its signal
          out      \* parts that cannot be called back

vars == <<outcome, aborted, out>>

Outcomes == {"none", "succeeded", "offline", "refused", "failed", "canceled"}

Init == outcome = "none" /\ aborted = FALSE /\ out = 0

Abort ==
  /\ aborted' = TRUE
  /\ UNCHANGED <<outcome, out>>

(* What was started before a failure or a cancellation may still go out. *)
GoesOut ==
  /\ outcome \in {"none", "failed", "canceled"}
  /\ out < Size /\ out' = out + 1
  /\ UNCHANGED <<outcome, aborted>>

(* There is one outcome.  All of the bon went out if it is success, and    *)
(* nothing if it is a refusal; only a signal cancels, and a signal that    *)
(* came in time never lets it succeed.                                     *)
Ends ==
  /\ outcome = "none" /\ outcome' \in Outcomes \ {"none"}
  /\ outcome' = "succeeded" => out = Size /\ ~aborted'
  /\ outcome' \in {"offline", "refused"} => out = 0
  /\ outcome' = "canceled" => aborted'
  /\ aborted => aborted'
  /\ aborted' \in BOOLEAN /\ UNCHANGED out

Next == Abort \/ GoesOut \/ Ends

Spec == Init /\ [][Next]_vars
=============================================================================
