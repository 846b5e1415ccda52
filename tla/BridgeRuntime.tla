--------------------------- MODULE BridgeRuntime ---------------------------
(***************************************************************************)
(* The background runtime of the bridge (core/bridge-runtime.ts): three    *)
(* loops that share one AbortController, the pause and revocation flags,   *)
(* the state that is shown and persisted (core/runtime-store.ts), and the  *)
(* callers in main/index.ts that start, pause and stop it.                 *)
(*                                                                         *)
(* A generation is one call of start() that created a controller; its      *)
(* signal is aborted exactly when the controller is another one.  Loops of *)
(* an aborted generation go on until their next await settles.             *)
(***************************************************************************)
EXTENDS Naturals

CONSTANTS Gens,        \* generations that can have loops alive at one time
          EventKinds,  \* what the user, the service and the machine may do
          MaxEvents,   \* bound: how many such events a behaviour has
          LoneKinds,   \* bound: kinds of which it has only one event, and no other
          NoGen

AllEventKinds == {"pause", "configure", "standing", "disconnect", "pair", "crash",
                  "update", "storage", "auth"}

ASSUME RuntimeAssumption ==
  /\ EventKinds \subseteq AllEventKinds
  /\ MaxEvents \in Nat
  /\ LoneKinds \subseteq AllEventKinds
  /\ NoGen \notin Gens

DesktopRuntimeKind ==
  {"stopped", "starting", "ready", "polling", "processing", "offline", "degraded",
   "feature_required", "update_required", "revoked", "authentication_error",
   "fatal_configuration_error", "paused"}

StoredRuntimeState == [paused : BOOLEAN, lastState : DesktopRuntimeKind]

(* What the service thinks of the device; a heartbeat answers with it. *)
Standings == {"ready", "degraded", "feature_required", "update_required", "revoked"}

(* Where the loops of a generation are: at which await. *)
PollSteps == {"off", "readiness", "next", "handoff", "record_succeeded", "record_failed",
              "wait"}
BeatSteps == {"off", "request", "wait"}
WatchSteps == {"off", "request"}

VARIABLES
  up,                 \* the process runs
  state,              \* runtime.state.kind
  controller,         \* the generation whose signal is live
  paused,
  revocationHandled,
  poll, beat, watch,  \* the loops of each generation
  starts,             \* calls of start() under way: was a credential read?
  clearing,           \* a deletion of the credential is under way
  toPersist,          \* a persist() is queued
  disk,               \* the runtime-state file
  credential,         \* the credential file holds one
  configured,         \* external: a printer is configured
  standing,           \* external: the service's view of the device
  eventsLeft,         \* bound: events still to come
  withdrawn,          \* observation: disconnected or revoked, not approved since
  overtaken           \* observation: and the old credential may be started again

loops == <<poll, beat, watch>>
storage == <<toPersist, disk>>
files == <<credential, configured>>
observed == <<withdrawn, overtaken>>
vars == <<up, state, controller, paused, revocationHandled, poll, beat, watch, starts,
          clearing, toPersist, disk, credential, configured, standing, eventsLeft,
          withdrawn, overtaken>>

Init ==
  /\ up = FALSE
  /\ state = "stopped"
  /\ controller = NoGen
  /\ paused = FALSE
  /\ revocationHandled = FALSE
  /\ poll = [g \in Gens |-> "off"]
  /\ beat = [g \in Gens |-> "off"]
  /\ watch = [g \in Gens |-> "off"]
  /\ starts = {}
  /\ clearing = FALSE
  /\ toPersist = FALSE
  /\ disk = [paused |-> FALSE, lastState |-> "stopped"]
  /\ credential \in BOOLEAN
  /\ configured \in BOOLEAN
  /\ standing = "ready"
  /\ eventsLeft = MaxEvents
  /\ withdrawn = FALSE
  /\ overtaken = FALSE
-----------------------------------------------------------------------------
Event(kind) ==
  /\ kind \in EventKinds
  /\ eventsLeft > 0
  /\ kind \in LoneKinds => eventsLeft = MaxEvents
  /\ eventsLeft' = IF kind \in LoneKinds THEN 0 ELSE eventsLeft - 1

Quiet(g) == poll[g] = "off" /\ beat[g] = "off" /\ watch[g] = "off"

isRunning == controller # NoGen

(* Mutant: a bridge without a printer stops checking its authorization. *)
canCheckAuthorizationFatal ==
  ~paused /\ state \notin {"feature_required", "update_required", "revoked",
                           "fatal_configuration_error"}

canCheckAuthorization ==
  ~paused /\ state \notin {"feature_required", "update_required", "revoked"}

canPollIn(kind) ==
  ~paused /\ kind \notin {"feature_required", "update_required", "revoked",
                          "authentication_error", "fatal_configuration_error"}

(* transition: every change of state queues a persist. *)
transition(kind) ==
  /\ state' = kind
  /\ toPersist' = TRUE
  /\ UNCHANGED disk

NoTransition == UNCHANGED <<state, storage>>

stop == controller' = NoGen

(* The device loses its authorization, and its credential is going to be    *)
(* deleted.  Nobody waits for a start() that has read it already.           *)
Withdraws == withdrawn' = TRUE /\ overtaken' = IF TRUE \in starts THEN TRUE ELSE FALSE

PollGoes(g, s) == poll' = [poll EXCEPT ![g] = s]
BeatGoes(g, s) == beat' = [beat EXCEPT ![g] = s]
WatchGoes(g, s) == watch' = [watch EXCEPT ![g] = s]

(* The head of the while loop of pollLoop, with the shown state being kind. *)
PollHead(g, kind) == IF controller = g /\ canPollIn(kind) THEN "readiness" ELSE "off"
-----------------------------------------------------------------------------
(***************************************************************************)
(* Callers: application start, IPC handlers, shutdown.                     *)
(***************************************************************************)
(* maybeStartRuntime: start() will run with what the credential file held; *)
(* a file that cannot be read counts as none.  A credential that is being  *)
(* deleted can still be read.                                              *)
MaybeStart(unread) ==
  /\ starts' = starts \cup {IF unread THEN FALSE ELSE credential}
  /\ overtaken' = (overtaken \/ (~unread /\ credential /\ clearing))
  /\ UNCHANGED withdrawn

(* restore() and the start that follows it.  No IPC request is served yet. *)
Boot ==
  /\ ~up
  /\ up' = TRUE
  /\ paused' = disk.paused
  /\ state' = IF disk.paused THEN "paused" ELSE disk.lastState
  /\ MaybeStart(FALSE)
  /\ UNCHANGED <<controller, revocationHandled, loops, clearing, storage, files,
                 standing, eventsLeft>>

(* The process dies or quits: only the files are left. *)
Crash ==
  /\ up
  /\ Event("crash")
  /\ up' = FALSE
  /\ state' = "stopped"
  /\ stop
  /\ paused' = FALSE
  /\ revocationHandled' = FALSE
  /\ poll' = [g \in Gens |-> "off"]
  /\ beat' = [g \in Gens |-> "off"]
  /\ watch' = [g \in Gens |-> "off"]
  /\ starts' = {}
  /\ clearing' = FALSE
  /\ toPersist' = FALSE
  /\ overtaken' = (overtaken \/ clearing)
  /\ UNCHANGED <<withdrawn, disk, files, standing>>

(* start(null) *)
StartUnpaired ==
  /\ FALSE \in starts
  /\ starts' = starts \ {FALSE}
  /\ IF state = "revoked" THEN NoTransition ELSE transition("stopped")
  /\ UNCHANGED <<observed, up, controller, paused, revocationHandled, loops, clearing,
                 files, standing, eventsLeft>>

(* start(credential) while paused, or while a generation is running *)
StartRefused ==
  /\ TRUE \in starts
  /\ starts' = starts \ {TRUE}
  /\ \/ paused /\ transition("paused")
     \/ ~paused /\ isRunning /\ state # "fatal_configuration_error" /\ NoTransition
  /\ UNCHANGED <<observed, up, controller, paused, revocationHandled, loops, clearing,
                 files, standing, eventsLeft>>

(* start(credential): a new controller and three new loops, each of which   *)
(* runs to its first await.  A generation that waits for a printer is       *)
(* stopped first.                                                           *)
StartGeneration(g) ==
  /\ TRUE \in starts
  /\ starts' = starts \ {TRUE}
  /\ ~paused
  /\ isRunning => state = "fatal_configuration_error"
  /\ Quiet(g) /\ controller # g
  /\ controller' = g
  /\ revocationHandled' = FALSE
  /\ transition("starting")
  /\ PollGoes(g, "readiness")
  /\ BeatGoes(g, "request")
  /\ WatchGoes(g, "request")
  /\ UNCHANGED <<observed, up, paused, clearing, files, standing, eventsLeft>>

(* setPaused(true) *)
Pause ==
  /\ up
  /\ Event("pause")
  /\ paused' = TRUE
  /\ stop
  /\ transition("paused")
  /\ UNCHANGED <<observed, up, revocationHandled, loops, starts, clearing, files,
                 standing>>

(* setPaused(false), then maybeStartRuntime; offered whether paused or not. *)
Resume ==
  /\ up
  /\ Event("pause")
  /\ paused' = FALSE
  /\ transition("stopped")
  /\ MaybeStart(FALSE)
  /\ UNCHANGED <<up, controller, revocationHandled, loops, clearing, files, standing>>

(* A printer is saved, activated, confirmed or deleted, then                *)
(* maybeStartRuntime runs, with a credential file that may be unreadable.   *)
Configure ==
  /\ up
  /\ Event("configure")
  /\ configured' \in BOOLEAN
  /\ \E unread \in BOOLEAN :
       (unread => "storage" \in EventKinds) /\ MaybeStart(unread)
  /\ UNCHANGED <<up, state, controller, paused, revocationHandled, loops, clearing,
                 storage, credential, standing>>

(* The disconnect request: the runtime stops, shows what it showed, and the *)
(* credential is deleted when the service has answered.                     *)
Disconnect ==
  /\ up
  /\ Event("disconnect")
  /\ stop
  /\ clearing' = TRUE
  /\ Withdraws
  /\ UNCHANGED <<up, state, paused, revocationHandled, loops, starts, storage, files,
                 standing>>

(* Pairing is approved: the credential is saved and start() is called. *)
CredentialSaved ==
  /\ up /\ ~credential /\ ~clearing
  /\ Event("pair")
  /\ credential' = TRUE
  /\ standing' = "ready"
  /\ starts' = starts \cup {TRUE}
  /\ withdrawn' = FALSE /\ overtaken' = FALSE
  /\ UNCHANGED <<up, state, controller, paused, revocationHandled, loops, clearing,
                 storage, configured>>

(* installUpdate: shutdown(), and a start when the installer does not run. *)
ShutdownForUpdate ==
  /\ up
  /\ Event("update")
  /\ stop
  /\ toPersist' = TRUE
  /\ MaybeStart(FALSE)
  /\ UNCHANGED <<up, state, paused, revocationHandled, loops, clearing, disk, files,
                 standing>>

(* Mutant: the state forgets the credential and the file keeps it. *)
CredentialKept ==
  /\ clearing
  /\ clearing' = FALSE
  /\ UNCHANGED <<observed, up, state, controller, paused, revocationHandled, loops,
                 starts, storage, files, standing, eventsLeft>>

(* store.clear() of the credential *)
CredentialCleared ==
  /\ clearing
  /\ clearing' = FALSE
  /\ credential' = FALSE
  /\ UNCHANGED <<observed, up, state, controller, paused, revocationHandled, loops,
                 starts, storage, configured, standing, eventsLeft>>

(* store.clear() throws; handleRevocation only logs it. *)
CredentialNotCleared ==
  /\ clearing
  /\ Event("storage")
  /\ clearing' = FALSE
  /\ overtaken' = TRUE
  /\ UNCHANGED <<withdrawn, up, state, controller, paused, revocationHandled, loops,
                 starts, storage, files, standing>>

StandingChanges ==
  /\ Event("standing")
  /\ standing' \in Standings \ {standing}
  /\ UNCHANGED <<observed, up, state, controller, paused, revocationHandled, loops,
                 starts, clearing, storage, files>>
-----------------------------------------------------------------------------
(***************************************************************************)
(* Persistence.  Writes are queued one behind the other and each takes     *)
(* what is current when its turn comes; nobody reads the file before the   *)
(* next boot, so a write is one step, and a crash before it keeps the old  *)
(* file.                                                                   *)
(***************************************************************************)
(* Mutant: the last state is left out of the file. *)
persistPausedOnly ==
  /\ toPersist
  /\ toPersist' = FALSE
  /\ disk' = [paused |-> paused]
  /\ UNCHANGED <<observed, up, state, controller, paused, revocationHandled, loops,
                 starts, clearing, files, standing, eventsLeft>>

persist ==
  /\ toPersist
  /\ toPersist' = FALSE
  /\ disk' = [paused |-> paused, lastState |-> state]
  /\ UNCHANGED <<observed, up, state, controller, paused, revocationHandled, loops,
                 starts, clearing, files, standing, eventsLeft>>

NotPersisted ==
  /\ toPersist
  /\ Event("storage")
  /\ toPersist' = FALSE
  /\ UNCHANGED <<observed, up, state, controller, paused, revocationHandled, loops,
                 starts, clearing, disk, files, standing>>
-----------------------------------------------------------------------------
(***************************************************************************)
(* Heartbeat and session watch.                                            *)
(***************************************************************************)
(* handleRevocation, up to the callback that deletes the credential *)
handleRevocation ==
  IF revocationHandled
  THEN UNCHANGED <<observed, state, controller, revocationHandled, clearing, storage>>
  ELSE /\ revocationHandled' = TRUE
       /\ transition("revoked")
       /\ stop
       /\ clearing' = TRUE
       /\ Withdraws

(* applyHeartbeat for an accepted device *)
BeatAccepted(g) ==
  /\ beat[g] = "request" /\ controller = g
  /\ standing \in {"ready", "degraded"}
  /\ IF state = "fatal_configuration_error" THEN NoTransition ELSE transition(standing)
  /\ BeatGoes(g, "wait")
  /\ UNCHANGED <<observed, up, controller, paused, revocationHandled, poll, watch,
                 starts, clearing, files, standing, eventsLeft>>

(* applyHeartbeat for a device that has to stop *)
BeatStops(g) ==
  /\ beat[g] = "request" /\ controller = g
  /\ \/ /\ standing \in {"feature_required", "update_required"}
        /\ transition(standing)
        /\ stop
        /\ UNCHANGED <<observed, revocationHandled, clearing>>
     \/ standing = "revoked" /\ handleRevocation
  /\ BeatGoes(g, "off")
  /\ UNCHANGED <<up, paused, poll, watch, starts, files, standing, eventsLeft>>

(* The request rejects: offline, whatever was shown before. *)
BeatFails(g) ==
  /\ beat[g] = "request" /\ controller = g
  /\ transition("offline")
  /\ BeatGoes(g, "wait")
  /\ UNCHANGED <<observed, up, controller, paused, revocationHandled, poll, watch,
                 starts, clearing, files, standing, eventsLeft>>

BeatWakes(g) ==
  /\ beat[g] = "wait" /\ controller = g
  /\ BeatGoes(g, IF canCheckAuthorization THEN "request" ELSE "off")
  /\ UNCHANGED <<observed, up, state, controller, paused, revocationHandled, poll,
                 watch, starts, clearing, storage, files, standing, eventsLeft>>

BeatAborted(g) ==
  /\ beat[g] # "off" /\ controller # g
  /\ BeatGoes(g, "off")
  /\ UNCHANGED <<observed, up, state, controller, paused, revocationHandled, poll,
                 watch, starts, clearing, storage, files, standing, eventsLeft>>

(* The watch sees an active session, or an error: both lead to the loop head. *)
WatchAgain(g) ==
  /\ watch[g] = "request" /\ controller = g
  /\ WatchGoes(g, IF canCheckAuthorization THEN "request" ELSE "off")
  /\ UNCHANGED <<observed, up, state, controller, paused, revocationHandled, poll,
                 beat, starts, clearing, storage, files, standing, eventsLeft>>

WatchRevoked(g) ==
  /\ watch[g] = "request" /\ controller = g
  /\ standing = "revoked"
  /\ handleRevocation
  /\ WatchGoes(g, "off")
  /\ UNCHANGED <<up, paused, poll, beat, starts, files, standing, eventsLeft>>

WatchAborted(g) ==
  /\ watch[g] # "off" /\ controller # g
  /\ WatchGoes(g, "off")
  /\ UNCHANGED <<observed, up, state, controller, paused, revocationHandled, poll,
                 beat, starts, clearing, storage, files, standing, eventsLeft>>
-----------------------------------------------------------------------------
(***************************************************************************)
(* The poll loop.                                                          *)
(***************************************************************************)
(* isExecutionReady answers; nothing looks at the signal before the shown   *)
(* state changes.  A request with an aborted signal then rejects at once.   *)
ReadinessKnown(g) ==
  /\ poll[g] = "readiness"
  /\ IF configured
     THEN transition("polling") /\ PollGoes(g, IF controller = g THEN "next" ELSE "off")
     ELSE transition("fatal_configuration_error") /\ PollGoes(g, "off")
  /\ UNCHANGED <<observed, up, controller, paused, revocationHandled, beat, watch,
                 starts, clearing, files, standing, eventsLeft>>

NextTimesOut(g) ==
  /\ poll[g] = "next" /\ controller = g
  /\ transition("ready")
  /\ PollGoes(g, "wait")
  /\ UNCHANGED <<observed, up, controller, paused, revocationHandled, beat, watch,
                 starts, clearing, files, standing, eventsLeft>>

NextNeedsUpdate(g) ==
  /\ poll[g] = "next" /\ controller = g
  /\ standing = "update_required"
  /\ transition("update_required")
  /\ stop
  /\ PollGoes(g, "off")
  /\ UNCHANGED <<observed, up, paused, revocationHandled, beat, watch, starts,
                 clearing, files, standing, eventsLeft>>

(* Mutant: the signal is not checked when the long poll is answered. *)
NextJobUnchecked(g) ==
  /\ poll[g] = "next"
  /\ transition("processing")
  /\ PollGoes(g, "handoff")
  /\ UNCHANGED <<observed, up, controller, paused, revocationHandled, beat, watch,
                 starts, clearing, files, standing, eventsLeft>>

NextJob(g) ==
  /\ poll[g] = "next" /\ controller = g
  /\ transition("processing")
  /\ PollGoes(g, "handoff")
  /\ UNCHANGED <<observed, up, controller, paused, revocationHandled, beat, watch,
                 starts, clearing, files, standing, eventsLeft>>

(* nextJob or the hand-off throws under a live signal. *)
PollFails(g) ==
  /\ poll[g] \in {"next", "handoff"} /\ controller = g
  /\ \/ transition("offline")
     \/ "auth" \in EventKinds /\ transition("authentication_error")
  /\ PollGoes(g, "wait")
  /\ UNCHANGED <<observed, up, controller, paused, revocationHandled, beat, watch,
                 starts, clearing, files, standing, eventsLeft>>

(* The catch waits for a persist() of its own; when that rejects, the error *)
(* leaves the loop and nothing starts another one.                          *)
PollDies(g) ==
  /\ poll[g] \in {"next", "handoff"} /\ controller = g
  /\ Event("storage")
  /\ transition("offline")
  /\ PollGoes(g, "off")
  /\ UNCHANGED <<observed, up, controller, paused, revocationHandled, beat, watch,
                 starts, clearing, files, standing>>

(* The hand-off returns an outcome; recordExecutionOutcome persists first. *)
HandoffReturns(g) ==
  /\ poll[g] = "handoff"
  /\ \/ PollGoes(g, "record_succeeded")
     \/ PollGoes(g, "record_failed")
  /\ toPersist' = TRUE
  /\ UNCHANGED <<observed, up, state, controller, paused, revocationHandled, beat,
                 watch, starts, clearing, disk, files, standing, eventsLeft>>

(* The rest of recordExecutionOutcome, whatever was shown meanwhile. *)
OutcomeRecorded(g) ==
  /\ poll[g] \in {"record_succeeded", "record_failed"}
  /\ LET kind == IF poll[g] = "record_succeeded" THEN "ready" ELSE "degraded" IN
     /\ transition(kind)
     /\ PollGoes(g, PollHead(g, kind))
  /\ UNCHANGED <<observed, up, controller, paused, revocationHandled, beat, watch,
                 starts, clearing, files, standing, eventsLeft>>

(* Its persist() rejects: the outcome is treated like a lost connection. *)
OutcomeNotRecorded(g) ==
  /\ poll[g] \in {"record_succeeded", "record_failed"}
  /\ Event("storage")
  /\ IF controller = g
     THEN transition("offline") /\ PollGoes(g, "wait")
     ELSE NoTransition /\ PollGoes(g, "off")
  /\ UNCHANGED <<observed, up, controller, paused, revocationHandled, beat, watch,
                 starts, clearing, files, standing>>

PollWakes(g) ==
  /\ poll[g] = "wait" /\ controller = g
  /\ PollGoes(g, PollHead(g, state))
  /\ UNCHANGED <<observed, up, state, controller, paused, revocationHandled, beat,
                 watch, starts, clearing, storage, files, standing, eventsLeft>>

(* Mutant: waitFor does not listen to the signal. *)
PollAbortedUnlessWaiting(g) ==
  /\ poll[g] \in {"next", "handoff"} /\ controller # g
  /\ PollGoes(g, "off")
  /\ UNCHANGED <<observed, up, state, controller, paused, revocationHandled, beat,
                 watch, starts, clearing, storage, files, standing, eventsLeft>>

(* A wait, a long poll or a throwing hand-off of an aborted loop *)
PollAborted(g) ==
  /\ poll[g] \in {"next", "handoff", "wait"} /\ controller # g
  /\ PollGoes(g, "off")
  /\ UNCHANGED <<observed, up, state, controller, paused, revocationHandled, beat,
                 watch, starts, clearing, storage, files, standing, eventsLeft>>
-----------------------------------------------------------------------------
PollStep(g) ==
  \/ ReadinessKnown(g)
  \/ NextTimesOut(g)
  \/ NextNeedsUpdate(g)
  \/ NextJob(g)
  \/ PollFails(g)
  \/ PollDies(g)
  \/ HandoffReturns(g)
  \/ OutcomeRecorded(g)
  \/ OutcomeNotRecorded(g)
  \/ PollWakes(g)
  \/ PollAborted(g)

BeatStep(g) ==
  BeatAccepted(g) \/ BeatStops(g) \/ BeatFails(g) \/ BeatWakes(g) \/ BeatAborted(g)

WatchStep(g) == WatchAgain(g) \/ WatchRevoked(g) \/ WatchAborted(g)

Next ==
  \/ Boot \/ Crash
  \/ StartUnpaired \/ StartRefused
  \/ Pause \/ Resume \/ Configure \/ Disconnect \/ CredentialSaved \/ ShutdownForUpdate
  \/ CredentialCleared \/ CredentialNotCleared
  \/ StandingChanges
  \/ persist \/ NotPersisted
  \/ \E g \in Gens : StartGeneration(g) \/ PollStep(g) \/ BeatStep(g) \/ WatchStep(g)

Spec == Init /\ [][Next]_vars

(***************************************************************************)
(* Awaited promises settle: every request and every printer write has a    *)
(* timeout.  A revoked device is told so by the session watch when the     *)
(* service can be reached.  Users and the service are not obliged to act.  *)
(***************************************************************************)
FairSpec ==
  /\ Spec
  /\ \A g \in Gens :
       /\ WF_vars(PollStep(g))
       /\ WF_vars(BeatStep(g))
       /\ WF_vars(WatchAborted(g))
       /\ WF_vars(WatchRevoked(g))
  /\ WF_vars(CredentialCleared)
-----------------------------------------------------------------------------
(* Every variable has its type. *)
TypeOK ==
  /\ up \in BOOLEAN
  /\ state \in DesktopRuntimeKind
  /\ controller \in Gens \cup {NoGen}
  /\ paused \in BOOLEAN
  /\ revocationHandled \in BOOLEAN
  /\ poll \in [Gens -> PollSteps]
  /\ beat \in [Gens -> BeatSteps]
  /\ watch \in [Gens -> WatchSteps]
  /\ starts \in SUBSET BOOLEAN
  /\ clearing \in BOOLEAN
  /\ toPersist \in BOOLEAN
  /\ disk \in StoredRuntimeState
  /\ credential \in BOOLEAN
  /\ configured \in BOOLEAN
  /\ standing \in Standings
  /\ eventsLeft \in Nat
  /\ observed \in BOOLEAN \X BOOLEAN

(* While the operator has paused the bridge, and from the moment the user   *)
(* disconnects it or the service revokes it until another pairing is        *)
(* approved, no loop has a live signal: in whatever order pauses, resumes,  *)
(* saved printers, restarts and late answers come.  Excepted is what the    *)
(* code leaves open: a start() that read the credential before it was       *)
(* deleted, or a credential whose deletion failed or was cut short          *)
(* (`overtaken`; README section 6).                                         *)
PausedOrWithdrawnIsStopped == paused \/ (withdrawn /\ ~overtaken) => controller = NoGen

(* A running bridge always has both ways to learn that it was revoked: the *)
(* heartbeat and the session watch of the live generation never end on     *)
(* their own, also without a printer, offline, or after a login error.     *)
AuthorizationAlwaysChecked ==
  \A g \in Gens : controller = g => beat[g] # "off" /\ watch[g] # "off"

(* docs/scenario-stress-test.md, pilot 18: after a revocation, a pause or a *)
(* disconnect no later order is taken on: a hand-off begins only under the  *)
(* live signal of a bridge that is not paused and has not lost its          *)
(* authorization, but for a start() that overtook the deletion.             *)
NoLateHandoff ==
  [][\A g \in Gens : poll[g] # "handoff" /\ poll'[g] = "handoff" =>
       controller = g /\ ~paused /\ (withdrawn => overtaken)]_vars

(* A revoked bridge that is running stops, also without a printer. *)
RevocationStops ==
  (standing = "revoked" /\ isRunning) ~> (standing # "revoked" \/ ~isRunning)

(* The loops of a generation that was stopped come to an end. *)
StoppedLoopsEnd == \A g \in Gens : (controller # g) ~> (Quiet(g) \/ controller = g)

(* tests/unit/bridge-runtime.spec.ts:216 calls start() again once a printer *)
(* is configured and expects the bridge to poll for jobs.                   *)
ConfiguredBridgePolls ==
  configured /\ starts = {} /\ isRunning => poll[controller] # "off"

(* tests/unit/bridge-runtime.spec.ts:123, 138 and 143: once the service has *)
(* revoked the device the bridge shows that it is revoked, and still does   *)
(* so after a restart, when no credential remains.                          *)
RevokedStaysVisible == revocationHandled => state = "revoked"
=============================================================================
