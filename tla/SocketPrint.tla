---------------------------- MODULE SocketPrint ----------------------------
(***************************************************************************)
(* A bon sent to a network printer: execute, writeBuffer, connectSocket    *)
(* and finishSocket of star-tsp1000-lan.ts.                                *)
(*                                                                         *)
(* Each of the two promises has a timer, the listeners of the socket and   *)
(* one of the signal, and the first of them that is called settles it.     *)
(***************************************************************************)
EXTENDS Naturals

CONSTANT Size      \* packets of a bon with its copies

ASSUME SocketAssumption == Size \in Nat \ {0}

VARIABLES
  stage,       \* the await of execute: "execute", "resolve", "connect",
               \*   "connected", "finish" or "settled"
  outcome,     \* as in PrintPromise
  aborted,     \* the signal
  socket,      \* "none", "connecting", "open", "ended" on our side, or "gone"
  out,         \* packets that the operating system has taken
  timer,       \* the timer of the promise is set
  grace,       \* SOCKET_FIN_GRACE_MS is running
  listening    \* the promise listens to the signal

socketVars == <<stage, outcome, aborted, socket, out, timer, grace, listening>>

SocketInit ==
  /\ stage = "execute" /\ outcome = "none" /\ aborted = FALSE
  /\ socket = "none" /\ out = 0
  /\ timer = FALSE /\ grace = FALSE /\ listening = FALSE

(* cleanup(), and what execute makes of the error *)
Settle(result) ==
  /\ stage' = "settled" /\ outcome' = result
  /\ timer' = FALSE /\ grace' = FALSE /\ listening' = FALSE
  /\ UNCHANGED out

Fails(result) ==
  /\ Settle(result)
  /\ socket' = IF socket = "none" THEN "none" ELSE "gone"
  /\ UNCHANGED aborted
-----------------------------------------------------------------------------
(* The configuration and the payload are checked. *)
execute ==
  /\ stage = "execute"
  /\ \/ Fails("refused")
     \/ stage' = "resolve" /\ UNCHANGED <<outcome, aborted, socket, out, timer, grace, listening>>

(* A host's name may be unknown, or stand for an address that is not local. *)
resolvedAddress ==
  /\ stage = "resolve"
  /\ \/ Fails("refused") \/ Fails("failed")
     \/ IF aborted
        THEN Settle("canceled") /\ socket' = "gone" /\ UNCHANGED aborted
        ELSE /\ stage' = "connect" /\ socket' = "connecting"
             /\ timer' = TRUE /\ listening' = TRUE
             /\ UNCHANGED <<outcome, aborted, out, grace>>

(* Mutant: the timer of the connection goes on. *)
onConnectKeepsTimer ==
  /\ stage = "connect"
  /\ stage' = "connected" /\ socket' = "open"
  /\ listening' = FALSE
  /\ UNCHANGED <<outcome, aborted, out, timer, grace>>

(* onConnect of connectSocket: its listeners go, and writeBuffer goes on. *)
onConnect ==
  /\ stage = "connect"
  /\ stage' = "connected" /\ socket' = "open"
  /\ timer' = FALSE /\ listening' = FALSE
  /\ UNCHANGED <<outcome, aborted, out, grace>>

onConnectError ==
  /\ stage = "connect"
  /\ Fails("offline") \/ Fails("failed")

(* Mutant: a signal that came in between is not looked at. *)
finishSocketAnyway ==
  /\ stage = "connected"
  /\ stage' = "finish" /\ timer' = TRUE /\ listening' = TRUE
  /\ UNCHANGED <<outcome, aborted, socket, out, grace>>

(* finishSocket: a signal that came in between cancels. *)
finishSocket ==
  /\ stage = "connected"
  /\ IF aborted
     THEN Fails("canceled")
     ELSE /\ stage' = "finish" /\ timer' = TRUE /\ listening' = TRUE
          /\ UNCHANGED <<outcome, aborted, socket, out, grace>>

packetTaken ==
  /\ stage = "finish" /\ out < Size /\ out' = out + 1
  /\ UNCHANGED <<stage, outcome, aborted, socket, timer, grace, listening>>

(* onFinish: everything and the end of it are with the operating system. *)
onFinish ==
  /\ stage = "finish" /\ socket = "open" /\ out = Size
  /\ socket' = "ended" /\ grace' = TRUE
  /\ UNCHANGED <<stage, outcome, aborted, out, timer, listening>>

(* onClose without an error: the printer has answered the end. *)
onClose ==
  /\ stage = "finish" /\ socket = "ended"
  /\ Settle("succeeded") /\ socket' = "gone" /\ UNCHANGED aborted

(* onError, onClose with an error: a reset, or a network that went away *)
onError ==
  /\ stage = "finish"
  /\ Fails("failed")

(* Mutant: the writing has no timer of its own. *)
onTimeoutOnlyConnect ==
  /\ timer /\ stage = "connect"
  /\ Fails("failed")

(* The timer of either promise, also during the grace *)
onTimeout ==
  /\ timer
  /\ Fails("failed")

(* Mutant: the socket stays open. *)
graceEndsOpen ==
  /\ grace
  /\ Settle("succeeded") /\ UNCHANGED <<aborted, socket>>

(* The printer keeps its half open: the socket is destroyed. *)
graceEnds ==
  /\ grace
  /\ Settle("succeeded") /\ socket' = "gone" /\ UNCHANGED aborted

(* The signal; a promise that listens is settled at once. *)
AbortSocket ==
  /\ ~aborted /\ aborted' = TRUE
  /\ IF listening
     THEN Settle("canceled") /\ socket' = "gone"
     ELSE UNCHANGED <<stage, outcome, socket, out, timer, grace, listening>>

Network == onConnect \/ onConnectError \/ packetTaken \/ onFinish \/ onClose \/ onError
Program == resolvedAddress \/ finishSocket
Timers == onTimeout \/ graceEnds

SocketNext == execute \/ Network \/ Program \/ Timers \/ AbortSocket

(* Nothing is assumed of the printer and the network, but that a name is   *)
(* resolved or not: a step of the program is made and a timer runs out.    *)
(* The print may never be asked for.                                       *)
SocketFairness == WF_socketVars(Program) /\ WF_socketVars(Timers)

SocketSpec == SocketInit /\ [][SocketNext]_socketVars /\ SocketFairness
-----------------------------------------------------------------------------
(* Every variable has its type, and the parts of a promise agree: timer    *)
(* and listener are there exactly while it is pending.                     *)
SocketTypeOK ==
  /\ stage \in {"execute", "resolve", "connect", "connected", "finish", "settled"}
  /\ outcome \in {"none", "succeeded", "offline", "refused", "failed", "canceled"}
  /\ aborted \in BOOLEAN /\ timer \in BOOLEAN /\ grace \in BOOLEAN /\ listening \in BOOLEAN
  /\ socket \in {"none", "connecting", "open", "ended", "gone"}
  /\ out \in 0..Size
  /\ timer <=> stage \in {"connect", "finish"}
  /\ listening <=> timer

(* A settled print leaves no socket, timer or listener behind.             *)
NothingLeft ==
  stage = "settled" => socket \in {"none", "gone"} /\ ~timer /\ ~grace /\ ~listening

Promise == INSTANCE PrintPromise

(* The print has one outcome, and it tells what has gone out.              *)
KeepsPrintPromise == Promise!Spec

(* A printer that never answers does not keep the print from ending.       *)
PrintEnds == stage # "execute" ~> outcome # "none"
=============================================================================
