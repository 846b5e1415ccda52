------------------------------ MODULE Pairing ------------------------------
(***************************************************************************)
(* Pairing with a restaurant (main/pairing-service.ts with                 *)
(* core/pairing-state-machine.ts), the credential file                     *)
(* (main/safe-credential-store.ts), and those who meet there: the pairing  *)
(* button of the settings window, the runtime that is started with a       *)
(* credential and stopped before a disconnect, and the revocation that     *)
(* deletes it.                                                             *)
(*                                                                         *)
(* A code stands for one call of begin(): the device code it obtains, the  *)
(* poll loop it starts and the credential an approval of it yields.        *)
(* Nothing but an AbortSignal stops a poll loop, and the signal is not     *)
(* looked at once a token request is under way.                            *)
(***************************************************************************)
EXTENDS Naturals, FiniteSets

CONSTANTS Codes,
          Disconnects,  \* calls of disconnect()
          FaultKinds,   \* which of AllFaultKinds may happen
          MaxFaults,    \* bound: how many of them
          MaxStarts,    \* bound: calls of maybeStartRuntime under way at one time
          UnknownPage,  \* a URL of an unknown host
          NoCode

(* A request fails; a code comes with the URL of an unknown host; the      *)
(* encryption or a file write or read fails; a file cannot be deleted; the *)
(* process dies.                                                           *)
AllFaultKinds == {"request", "page", "storage", "unlink", "crash"}

ASSUME PairingAssumption ==
  /\ FaultKinds \subseteq AllFaultKinds
  /\ MaxFaults \in Nat /\ MaxStarts \in Nat
  /\ {NoCode, UnknownPage} \cap Codes = {} /\ UnknownPage # NoCode

Waiting == {"waiting_for_approval", "slow_down"}

isPairingTerminal == {"unpaired", "paired", "denied", "expired", "revoked",
                      "secure_storage_unavailable", "secure_storage_corrupt"}

PairingKinds == isPairingTerminal \cup Waiting \cup {"requesting_code", "network_error"}

(* The states in which the window offers to connect; see renderPairing. *)
Startable == PairingKinds \ ({"paired", "requesting_code"} \cup Waiting)

VARIABLES
  kind,        \* state.kind
  shown,       \* the code or the credential that the state shows
  url,         \* verificationUrl
  poller,      \* the code whose poll loop has the live controller
  step,        \* step[c]: the await that begin() or the poll loop of c is at
  aborted,     \* aborted[c]: its AbortSignal
  leave,       \* leave[d]: the await disconnect d is at
  held,        \* held[d]: the credential it has read
  wiping,      \* clearRevokedCredential is deleting the file
  stored,      \* the credential file
  running,     \* the credential of the live generation of the runtime
  starting,    \* credentials read by maybeStartRuntime and not yet used
  server,      \* external: server[c]: what the service thinks of c
  lapsed,      \* lapsed[c]: the time of c is over
  faultsLeft,
  crossed      \* observation: see Crossing

shownVars == <<kind, shown>>
device == <<stored, running, starting>>
pairingVars == <<kind, shown, url, poller, step, aborted, leave, held, wiping,
                 stored, running, starting, server, lapsed, faultsLeft, crossed>>

ServerStates == {"none", "pending", "approved", "denied", "issued", "revoked"}

CodeSteps == {"new", "clicked", "create", "wait", "request", "save", "start", "off"}

LeaveSteps == {"idle", "confirm", "read", "revoke", "clear", "done"}

PairingInit ==
  /\ kind = "unpaired" /\ shown = NoCode
  /\ url = NoCode
  /\ poller = NoCode
  /\ step = [c \in Codes |-> "new"]
  /\ aborted = [c \in Codes |-> FALSE]
  /\ leave = [d \in Disconnects |-> "idle"]
  /\ held = [d \in Disconnects |-> NoCode]
  /\ wiping = FALSE
  /\ stored = NoCode
  /\ running = NoCode
  /\ starting = {}
  /\ server = [c \in Codes |-> "none"]
  /\ lapsed = [c \in Codes |-> FALSE]
  /\ faultsLeft = MaxFaults
  /\ crossed = FALSE
-----------------------------------------------------------------------------
Deleting ==
  \/ wiping
  \/ \E d \in Disconnects : leave[d] \in {"read", "revoke", "clear"}

(* A credential is being saved or started while one is being deleted, or   *)
(* saved while the runtime runs with another or is about to.               *)
Crossing ==
  \/ Deleting /\ (starting # {} \/ \E c \in Codes : step[c] \in {"save", "start"})
  \/ \E c \in Codes :
       step[c] \in {"save", "start"} /\ ~(starting \cup {running} \subseteq {NoCode, c})

Fault(f) == f \in FaultKinds /\ faultsLeft > 0 /\ faultsLeft' = faultsLeft - 1

NoFault == UNCHANGED faultsLeft

Shows(k, c) == kind' = k /\ shown' = c

At(c, s) == step' = [step EXCEPT ![c] = s]

stopPolling ==
  /\ aborted' = [c \in Codes |-> aborted[c] \/ c = poller]
  /\ poller' = NoCode

(* The head of the poll loop of c when the state is k for code s: it ends, *)
(* finds the shown code expired, or waits.                                 *)
LoopHead(c, k, s) ==
  LET goesOn == ~aborted[c] /\ k \in Waiting IN
  \/ ~goesOn /\ Shows(k, s) /\ At(c, "off")
  \/ goesOn /\ lapsed[s] /\ Shows("expired", NoCode) /\ At(c, "off")
  \/ goesOn /\ ~lapsed[s] /\ Shows(k, s) /\ At(c, "wait")

(* runtime.start: refused while a generation runs, unless that one waits   *)
(* for a printer.                                                          *)
start(c) ==
  IF c = NoCode THEN UNCHANGED running
  ELSE IF running = NoCode THEN running' = c
  ELSE running' \in {running, c}
-----------------------------------------------------------------------------
(***************************************************************************)
(* begin()                                                                 *)
(***************************************************************************)
Asking == \E d \in Disconnects : leave[d] = "confirm"

(* The button is enabled until the handler has asked for the state, so two *)
(* clicks may both get through; a question to the user blocks the window.  *)
Click(c) ==
  /\ step[c] = "new"
  /\ kind \in Startable /\ ~Asking
  /\ At(c, "clicked")
  /\ UNCHANGED <<shownVars, url, poller, aborted, leave, held, wiping, device, server,
                 lapsed, faultsLeft>>

begin(c) ==
  /\ step[c] = "clicked"
  /\ IF kind = "paired"
     THEN At(c, "off") /\ UNCHANGED <<shownVars, url, poller, aborted>>
     ELSE /\ At(c, "create")
          /\ stopPolling
          /\ url' = NoCode
          /\ Shows("requesting_code", NoCode)
  /\ UNCHANGED <<leave, held, wiping, device, server, lapsed, faultsLeft>>

(* Mutant: the page is not checked. *)
CreatedUnchecked(c) ==
  /\ step[c] = "create"
  /\ server' = [server EXCEPT ![c] = "pending"]
  /\ \/ url' = c /\ NoFault
     \/ url' = UnknownPage /\ Fault("page")
  /\ Shows("waiting_for_approval", c) /\ poller' = c /\ At(c, "wait")
  /\ UNCHANGED <<aborted, leave, held, wiping, device, lapsed>>

(* createDeviceCode answers; assertVerificationUrl refuses an unknown host *)
(* when the URL is set already.                                            *)
Created(c) ==
  /\ step[c] = "create"
  /\ server' = [server EXCEPT ![c] = "pending"]
  /\ \/ /\ url' = c /\ NoFault
        /\ Shows("waiting_for_approval", c) /\ poller' = c /\ At(c, "wait")
     \/ /\ url' = UnknownPage /\ Fault("page")
        /\ Shows("network_error", NoCode) /\ At(c, "off") /\ UNCHANGED poller
  /\ UNCHANGED <<aborted, leave, held, wiping, device, lapsed>>

(* Mutant: the error is logged and nothing is shown. *)
NotCreatedSilent(c) ==
  /\ step[c] = "create"
  /\ Fault("request")
  /\ At(c, "off")
  /\ UNCHANGED <<shownVars, url, poller, aborted, leave, held, wiping, device, server,
                 lapsed>>

NotCreated(c) ==
  /\ step[c] = "create"
  /\ Fault("request")
  /\ Shows("network_error", NoCode)
  /\ At(c, "off")
  /\ UNCHANGED <<url, poller, aborted, leave, held, wiping, device, server, lapsed>>
-----------------------------------------------------------------------------
(***************************************************************************)
(* poll()                                                                  *)
(***************************************************************************)
(* The wait is over, or was cut short by the signal. *)
Wakes(c) ==
  /\ step[c] = "wait"
  /\ At(c, IF aborted[c] THEN "off" ELSE "request")
  /\ UNCHANGED <<shownVars, url, poller, aborted, leave, held, wiping, device, server,
                 lapsed, faultsLeft>>

(* Mutant: a pending answer shows the code that was asked about. *)
applyPendingOwn(c) ==
  /\ server[c] = "pending" /\ ~lapsed[c]
  /\ LoopHead(c, "waiting_for_approval", c)

(* applyPairingStatus for a code nobody has decided on *)
applyPending(c) ==
  /\ server[c] = "pending" /\ ~lapsed[c]
  /\ \E k \in Waiting : LoopHead(c, IF kind \in Waiting THEN k ELSE kind, shown)

(* applyPairingStatus for a code that is denied, expired or used: whatever *)
(* is shown is replaced.                                                   *)
applyRefusal(c) ==
  /\ \/ server[c] = "denied" /\ Shows("denied", NoCode)
     \/ (lapsed[c] \/ server[c] \in {"issued", "revoked"}) /\ Shows("expired", NoCode)
  /\ At(c, "off")

PollAnswered(c) ==
  /\ step[c] = "request"
  /\ \/ applyPending(c) /\ UNCHANGED server
     \/ applyRefusal(c) /\ UNCHANGED server
     \/ /\ server[c] = "approved"
        /\ server' = [server EXCEPT ![c] = "issued"]
        /\ At(c, "save") /\ UNCHANGED shownVars
  /\ UNCHANGED <<url, poller, aborted, leave, held, wiping, device, lapsed, faultsLeft>>

(* The request rejects, with or without the token having been issued. *)
TokenPollFails(c) ==
  /\ step[c] = "request"
  /\ Fault("request")
  /\ Shows("network_error", NoCode)
  /\ At(c, "off")
  /\ \/ UNCHANGED server
     \/ server[c] = "approved" /\ server' = [server EXCEPT ![c] = "issued"]
  /\ UNCHANGED <<url, poller, aborted, leave, held, wiping, device, lapsed>>

(* store.save publishes the file with one rename. *)
save(c) ==
  /\ step[c] = "save"
  /\ stored' = c
  /\ At(c, "start")
  /\ UNCHANGED <<shownVars, url, poller, aborted, leave, held, wiping, running, starting,
                 server, lapsed, faultsLeft>>

(* No encryption, or the file cannot be written. *)
NotSaved(c) ==
  /\ step[c] = "save"
  /\ Fault("storage")
  /\ \E k \in {"secure_storage_unavailable", "network_error"} : Shows(k, NoCode)
  /\ At(c, "off")
  /\ UNCHANGED <<url, poller, aborted, leave, held, wiping, device, server, lapsed>>

(* onCredentialSaved starts the runtime; then the state is paired. *)
Paired(c) ==
  /\ step[c] = "start"
  /\ start(c)
  /\ Shows("paired", c)
  /\ At(c, "off")
  /\ UNCHANGED <<url, poller, aborted, leave, held, wiping, stored, starting, server, lapsed,
                 faultsLeft>>
-----------------------------------------------------------------------------
(***************************************************************************)
(* disconnect(), revocation, and the runtime.                              *)
(***************************************************************************)
Leaves(d, s) == leave' = [leave EXCEPT ![d] = s]

Ask(d) ==
  /\ kind = "paired" /\ ~Asking
  /\ leave[d] = "idle"
  /\ Leaves(d, "confirm")
  /\ UNCHANGED <<shownVars, url, poller, step, aborted, held, wiping, device, server,
                 lapsed, faultsLeft>>

(* Mutant: the runtime is left to learn of it from the service. *)
disconnectRunning(d) ==
  /\ leave[d] = "confirm"
  /\ Leaves(d, "read")
  /\ UNCHANGED <<shownVars, url, poller, step, aborted, held, wiping, stored, running,
                 starting, server, lapsed, faultsLeft>>

(* The user confirms: runtime.stop(), then pairing.disconnect(). *)
disconnect(d) ==
  /\ leave[d] = "confirm"
  /\ Leaves(d, "read")
  /\ running' = NoCode
  /\ UNCHANGED <<shownVars, url, poller, step, aborted, held, wiping, stored, starting,
                 server, lapsed, faultsLeft>>

(* readCredentialForDisconnect: a file that cannot be read counts as none. *)
readCredentialForDisconnect(d) ==
  /\ leave[d] = "read"
  /\ \/ held' = [held EXCEPT ![d] = stored] /\ NoFault
     \/ UNCHANGED held /\ Fault("storage")
  /\ Leaves(d, IF held'[d] = NoCode THEN "clear" ELSE "revoke")
  /\ stopPolling
  /\ UNCHANGED <<shownVars, url, step, wiping, device, server, lapsed>>

(* revokeCurrentDevice answers or fails; both lead to the deletion. *)
RevokeAnswered(d) ==
  /\ leave[d] = "revoke"
  /\ \/ server' = [server EXCEPT ![held[d]] = "revoked"] /\ NoFault
     \/ UNCHANGED server /\ Fault("request")
  /\ Leaves(d, "clear")
  /\ UNCHANGED <<shownVars, url, poller, step, aborted, held, wiping, device, lapsed>>

(* store.clear, and the new state in the same turn *)
Disconnected(d) ==
  /\ leave[d] = "clear"
  /\ Leaves(d, "done")
  /\ stored' = NoCode
  /\ Shows("unpaired", NoCode)
  /\ UNCHANGED <<url, poller, step, aborted, held, wiping, running, starting, server,
                 lapsed, faultsLeft>>

(* unlink fails: the request rejects and nothing else changes. *)
NotDisconnected(d) ==
  /\ leave[d] = "clear" /\ stored # NoCode
  /\ Fault("unlink")
  /\ Leaves(d, "done")
  /\ UNCHANGED <<shownVars, url, poller, step, aborted, held, wiping, device, server,
                 lapsed>>

(* Heartbeat or session watch: the runtime stops and clearRevokedCredential *)
(* shows the revocation before it deletes the file.                         *)
onRevoked ==
  /\ running # NoCode /\ server[running] = "revoked"
  /\ running' = NoCode
  /\ stopPolling
  /\ Shows("revoked", NoCode)
  /\ wiping' = TRUE
  /\ UNCHANGED <<url, step, leave, held, stored, starting, server, lapsed, faultsLeft>>

clearRevokedCredential ==
  /\ wiping
  /\ wiping' = FALSE
  /\ \/ stored' = NoCode /\ NoFault
     \/ UNCHANGED stored /\ Fault("unlink")
  /\ UNCHANGED <<shownVars, url, poller, step, aborted, leave, held, running, starting,
                 server, lapsed>>

(* A printer is configured or the pause ends: the credential is read ... *)
maybeStartRuntime ==
  /\ Cardinality(starting) < MaxStarts
  /\ starting' = starting \cup {stored}
  /\ UNCHANGED <<shownVars, url, poller, step, aborted, leave, held, wiping, stored,
                 running, server, lapsed, faultsLeft>>

(* ... and start() is called with it. *)
StartRuns(c) ==
  /\ c \in starting
  /\ starting' = starting \ {c}
  /\ start(c)
  /\ UNCHANGED <<shownVars, url, poller, step, aborted, leave, held, wiping, stored,
                 server, lapsed, faultsLeft>>

(* The process dies and starts again: restore() shows what the file holds  *)
(* or that it cannot be read, and the runtime is started with what a second *)
(* reading finds; a file that cannot be read then counts as none.          *)
Restart ==
  /\ Fault("crash")
  /\ \/ IF stored = NoCode THEN Shows("unpaired", NoCode) ELSE Shows("paired", stored)
     \/ /\ "storage" \in FaultKinds
        /\ \E k \in {"secure_storage_unavailable", "secure_storage_corrupt"} :
             Shows(k, NoCode)
  /\ url' = NoCode
  /\ poller' = NoCode
  /\ step' = [c \in Codes |-> IF step[c] = "new" THEN "new" ELSE "off"]
  /\ aborted' = [c \in Codes |-> FALSE]
  /\ leave' = [d \in Disconnects |-> IF leave[d] = "idle" THEN "idle" ELSE "done"]
  /\ held' = [d \in Disconnects |-> NoCode]
  /\ wiping' = FALSE
  /\ running' = NoCode
  /\ \/ starting' = {stored}
     \/ "storage" \in FaultKinds /\ starting' = {NoCode}
  /\ UNCHANGED <<stored, server, lapsed>>
-----------------------------------------------------------------------------
(* The user decides in the browser, the restaurant removes the device, and *)
(* time passes.                                                            *)
Decide(c) ==
  /\ \/ /\ server[c] = "pending" /\ ~lapsed[c]
        /\ \E s \in {"approved", "denied"} : server' = [server EXCEPT ![c] = s]
     \/ server[c] = "issued" /\ server' = [server EXCEPT ![c] = "revoked"]
  /\ UNCHANGED <<shownVars, url, poller, step, aborted, leave, held, wiping, device,
                 lapsed, faultsLeft>>

Lapse(c) ==
  /\ server[c] # "none" /\ ~lapsed[c]
  /\ lapsed' = [lapsed EXCEPT ![c] = TRUE]
  /\ UNCHANGED <<shownVars, url, poller, step, aborted, leave, held, wiping, device,
                 server, faultsLeft>>

CodeStep(c) ==
  \/ begin(c)
  \/ Created(c)
  \/ NotCreated(c)
  \/ Wakes(c)
  \/ PollAnswered(c)
  \/ TokenPollFails(c)
  \/ save(c)
  \/ NotSaved(c)
  \/ Paired(c)

LeaveStep(d) ==
  \/ readCredentialForDisconnect(d)
  \/ RevokeAnswered(d)
  \/ Disconnected(d)
  \/ NotDisconnected(d)

PairingNext ==
  /\ \/ \E c \in Codes : Click(c) \/ CodeStep(c) \/ Decide(c) \/ Lapse(c)
     \/ \E d \in Disconnects : Ask(d) \/ disconnect(d) \/ LeaveStep(d)
     \/ onRevoked
     \/ clearRevokedCredential
     \/ maybeStartRuntime
     \/ \E c \in Codes \cup {NoCode} : StartRuns(c)
     \/ Restart
  /\ crossed' = (crossed \/ Crossing')

PairingSpec == PairingInit /\ [][PairingNext]_pairingVars

(* Requests have timeouts, waits are timers, file operations return, and   *)
(* time passes.  Users are not fair.                                       *)
PairingFairSpec ==
  /\ PairingSpec
  /\ \A c \in Codes : WF_pairingVars(CodeStep(c) /\ crossed' = (crossed \/ Crossing'))
  /\ \A c \in Codes : WF_pairingVars(Lapse(c) /\ crossed' = (crossed \/ Crossing'))
  /\ \A d \in Disconnects : WF_pairingVars(LeaveStep(d) /\ crossed' = (crossed \/ Crossing'))
-----------------------------------------------------------------------------
(* Every variable has its type, and a state that waits or is paired shows  *)
(* a code.                                                                 *)
PairingTypeOK ==
  /\ kind \in PairingKinds /\ shown \in Codes \cup {NoCode}
  /\ url \in Codes \cup {NoCode, UnknownPage}
  /\ poller \in Codes \cup {NoCode}
  /\ step \in [Codes -> CodeSteps]
  /\ aborted \in [Codes -> BOOLEAN]
  /\ leave \in [Disconnects -> LeaveSteps]
  /\ held \in [Disconnects -> Codes \cup {NoCode}]
  /\ wiping \in BOOLEAN
  /\ stored \in Codes \cup {NoCode}
  /\ running \in Codes \cup {NoCode}
  /\ starting \subseteq Codes \cup {NoCode}
  /\ server \in [Codes -> ServerStates]
  /\ lapsed \in [Codes -> BOOLEAN]
  /\ faultsLeft \in 0..MaxFaults
  /\ crossed \in BOOLEAN
  /\ (kind \in Waiting \cup {"paired"}) <=> (shown # NoCode)

(* While a code is shown the page that the browser button opens is the one *)
(* of that code and has been checked, although calls of begin() overlap    *)
(* and set the URL before they check it.                                   *)
ShownPageIsChecked == kind \in Waiting => url = shown

(* A code that is shown is being polled for: no overlapping begin(), late  *)
(* answer or disconnect leaves the user with a code nobody asks about, as  *)
(* long as the credential file can be deleted ("unlink" is no fault).      *)
ShownCodeIsPolled ==
  kind \in Waiting =>
    \/ step[shown] \in {"wait", "request", "save", "start"} /\ ~aborted[shown]
    \/ \E d \in Disconnects : leave[d] \in {"revoke", "clear"}

(* What is shown, what is stored and what runs agree: unless a credential  *)
(* was saved or started across a deletion or across another start, the     *)
(* runtime runs with the stored credential, a bridge shown as paired has   *)
(* its credential on disk, and one shown as unpaired is stopped; a loop    *)
(* that has just saved is about to start and show its credential.          *)
OneCredential ==
  ~crossed /\ (\A c \in Codes : step[c] # "start") =>
    /\ running # NoCode => running = stored
    /\ kind = "paired" => stored = shown
    /\ kind = "unpaired" => running = NoCode

(* Every request for a code comes to an end: it is approved, refused, runs *)
(* out of time or fails, and the window offers to start again.             *)
PairingEnds ==
  (kind \in Waiting \cup {"requesting_code"}) ~> (kind \notin Waiting \cup {"requesting_code"})
=============================================================================
