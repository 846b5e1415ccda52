--------------------------- MODULE UpdateService ---------------------------
(***************************************************************************)
(* Updates of the program: main/update-service.ts, the handler that        *)
(* installs one (main/index.ts), and the way the program quits.            *)
(*                                                                         *)
(* The updater is a library: it answers a check with events, downloads by  *)
(* itself what it finds, and installs by quitting the program.  A check or *)
(* an installation is a call that other calls overtake at every await.     *)
(***************************************************************************)
EXTENDS Naturals

CONSTANTS Checks,       \* calls of check() that can be under way at one time
          Installs,     \* calls of the handler that installs
          MaxClicks,    \* bound: clicks on the button that installs
          MaxFailures,  \* bound: checks and downloads that fail
          NoCall

ASSUME UpdateAssumption ==
  /\ {MaxClicks, MaxFailures} \subseteq Nat
  /\ Checks \cap Installs = {} /\ NoCall \notin Checks

VARIABLES
  kind,       \* snapshotState.kind
  updater,    \* what the library does: "idle", "checking" or "downloading"
  caller,     \* the check whose promise the library is to answer
  pc,         \* the await a call is at
  button,     \* the button that installs can be clicked
  runtime,    \* the bridge runtime: "running", "stopping" or "stopped"
  shutdownInProgress,
  quit,       \* "no", "asked" for by the library or the user, "draining"
              \*   the runtime first, or "gone"
  launched,   \* the installer has been started
  clicks, failures,
  overlapped, \* observation: a check was made while the library was busy
  abandoned   \* observation: the handler ended without starting the runtime
              \*   again, as it threw, the installer reported its error or
              \*   the credential could not be read

updateVars == <<kind, updater, caller, pc, button, runtime, shutdownInProgress, quit, launched,
                clicks, failures, overlapped, abandoned>>
app == <<button, runtime, shutdownInProgress, quit, launched, clicks, abandoned>>
library == <<updater, caller, overlapped>>

UpdateInit ==
  /\ kind = "idle" /\ updater = "idle" /\ caller = NoCall
  /\ pc = [c \in Checks \cup Installs |-> "idle"]
  /\ button = FALSE /\ runtime = "running"
  /\ shutdownInProgress = FALSE /\ quit = "no" /\ launched = FALSE
  /\ clicks = 0 /\ failures = 0
  /\ overlapped = FALSE /\ abandoned = FALSE

Up == quit # "gone"

Goes(c, at) == pc' = [pc EXCEPT ![c] = at]
-----------------------------------------------------------------------------
(* Mutant: a download does not keep a check from being made. *)
CheckableDownloading == kind \notin {"checking", "downloaded"}

(* check(): by the timer or the button.  A check or download under way and *)
(* a downloaded update keep it from asking again.                          *)
Checkable == kind \notin {"checking", "downloading", "downloaded"}

check(c) ==
  /\ Up /\ pc[c] = "idle" /\ Checkable
  /\ kind' = "checking"
  /\ Goes(c, "ask")
  /\ UNCHANGED <<library, app, failures>>

(* After the log entry: checkForUpdates of the library.  Asked during a    *)
(* check it shares its answer.                                             *)
checkForUpdates(c) ==
  /\ Up /\ pc[c] = "ask"
  /\ overlapped' = (overlapped \/ updater # "idle")
  /\ IF updater = "downloading"
     THEN Goes(c, "idle") /\ UNCHANGED <<kind, updater, caller>>
     ELSE kind' = "checking" /\ updater' = "checking" /\ caller' = c /\ Goes(c, "asked")
  /\ UNCHANGED <<app, failures>>

(* checkForUpdates resolves for every call that shares the answer. *)
Answered ==
  /\ pc' = [c \in DOMAIN pc |-> IF pc[c] = "asked" THEN "idle" ELSE pc[c]]
  /\ caller' = NoCall

(* update-not-available *)
notAvailable ==
  /\ Up /\ updater = "checking" /\ updater' = "idle"
  /\ kind' = "idle"
  /\ Answered
  /\ UNCHANGED <<app, failures, overlapped>>

(* update-available: the library downloads it at once. *)
available ==
  /\ Up /\ updater = "checking" /\ updater' = "downloading"
  /\ kind' = "downloading"
  /\ Answered
  /\ UNCHANGED <<app, failures, overlapped>>

(* error, and the rejection of checkForUpdates, which check() catches *)
checkFails ==
  /\ Up /\ updater = "checking" /\ updater' = "idle"
  /\ failures < MaxFailures /\ failures' = failures + 1
  /\ kind' = "error"
  /\ Answered
  /\ UNCHANGED <<app, overlapped>>

(* update-downloaded: the window shows the button that installs. *)
downloaded ==
  /\ Up /\ updater = "downloading" /\ updater' = "idle"
  /\ kind' = "downloaded"
  /\ UNCHANGED <<caller, pc, app, failures, overlapped>>

downloadFails ==
  /\ Up /\ updater = "downloading" /\ updater' = "idle"
  /\ failures < MaxFailures /\ failures' = failures + 1
  /\ kind' = "error"
  /\ UNCHANGED <<caller, pc, app, overlapped>>
-----------------------------------------------------------------------------
(* refreshUpdate, every three seconds *)
renderUpdate ==
  /\ Up /\ button # (kind = "downloaded") /\ button' = (kind = "downloaded")
  /\ UNCHANGED <<kind, library, pc, runtime, shutdownInProgress, quit, launched, clicks,
                 failures, abandoned>>

(* The handler writes to the log and stops the runtime. *)
installUpdate(i) ==
  /\ Up /\ pc[i] = "idle" /\ button /\ clicks < MaxClicks
  /\ clicks' = clicks + 1
  /\ button' = FALSE
  /\ IF kind = "downloaded" THEN Goes(i, "log") ELSE UNCHANGED pc
  /\ UNCHANGED <<kind, library, runtime, shutdownInProgress, quit, launched, failures, abandoned>>

Stops == runtime' = IF runtime = "running" THEN "stopping" ELSE runtime

shutdown(i) ==
  /\ Up /\ pc[i] = "log" /\ Goes(i, "shutdown")
  /\ Stops
  /\ UNCHANGED <<kind, library, button, shutdownInProgress, quit, launched, clicks, failures,
                 abandoned>>

(* The loops have ended, or two seconds have passed. *)
Stopped ==
  /\ Up /\ runtime = "stopping" /\ runtime' = "stopped"
  /\ UNCHANGED <<kind, library, pc, button, shutdownInProgress, quit, launched, clicks, failures,
                 abandoned>>

(* Writing the runtime's state fails: the handler throws. *)
shutdownThrows(i) ==
  /\ Up /\ pc[i] = "shutdown" /\ runtime # "stopping"
  /\ Goes(i, "idle") /\ abandoned' = TRUE
  /\ UNCHANGED <<kind, library, button, runtime, shutdownInProgress, quit, launched, clicks,
                 failures>>

(* install() with a downloaded update: the flags let the program quit; an  *)
(* installer that cannot be started takes them back.                       *)
install(i, how) ==
  /\ Up /\ pc[i] = "shutdown" /\ runtime # "stopping" /\ kind = "downloaded"
  /\ kind' = IF how = "quits" THEN "installing" ELSE "error"
  /\ launched' = (launched \/ how = "quits")
  /\ quit' = IF how = "quits" /\ quit = "no" THEN "asked" ELSE quit
  /\ shutdownInProgress' = (how # "throws")
  /\ Goes(i, IF how = "throws" THEN "restart" ELSE "idle")
  /\ abandoned' = (abandoned \/ how = "reports")
  /\ UNCHANGED <<library, button, runtime, clicks, failures>>

(* Mutant: the runtime is not started again. *)
installRefusedOff(i) ==
  /\ Up /\ pc[i] = "shutdown" /\ runtime # "stopping" /\ kind # "downloaded"
  /\ shutdownInProgress' = FALSE
  /\ Goes(i, "idle")
  /\ UNCHANGED <<kind, library, button, runtime, quit, launched, clicks, failures, abandoned>>

(* install() without one, as another call has installed it or failed to *)
installRefused(i) ==
  /\ Up /\ pc[i] = "shutdown" /\ runtime # "stopping" /\ kind # "downloaded"
  /\ shutdownInProgress' = FALSE
  /\ Goes(i, "restart")
  /\ UNCHANGED <<kind, library, button, runtime, quit, launched, clicks, failures, abandoned>>

(* maybeStartRuntime: a credential that cannot be read is one that is not  *)
(* there, and start(null) leaves the runtime as it is.                     *)
maybeStartRuntime(i, credential) ==
  /\ Up /\ pc[i] = "restart" /\ Goes(i, "idle")
  /\ runtime' = IF credential = "read" THEN "running" ELSE runtime
  /\ abandoned' = (abandoned \/ credential = "unreadable")
  /\ UNCHANGED <<kind, library, button, shutdownInProgress, quit, launched, clicks, failures>>
-----------------------------------------------------------------------------
UserQuits ==
  /\ quit = "no" /\ quit' = "asked"
  /\ UNCHANGED <<kind, library, pc, button, runtime, shutdownInProgress, launched, clicks,
                 failures, abandoned>>

(* Quitting waits until the runtime has stopped, unless it has before. *)
beforeQuit ==
  /\ quit = "asked"
  /\ IF shutdownInProgress THEN quit' = "gone" /\ UNCHANGED runtime ELSE quit' = "draining" /\ Stops
  /\ UNCHANGED <<kind, library, pc, button, shutdownInProgress, launched, clicks, failures,
                 abandoned>>

Drained ==
  /\ quit = "draining" /\ runtime # "stopping" /\ quit' = "gone"
  /\ shutdownInProgress' = TRUE
  /\ UNCHANGED <<kind, library, pc, button, runtime, launched, clicks, failures, abandoned>>

Library == notAvailable \/ available \/ checkFails \/ downloaded \/ downloadFails

Handler(i) ==
  \/ shutdown(i)
  \/ shutdownThrows(i)
  \/ \E how \in {"quits", "throws", "reports"} : install(i, how)
  \/ installRefused(i)
  \/ \E credential \in {"read", "unreadable"} : maybeStartRuntime(i, credential)

UpdateNext ==
  \/ \E c \in Checks : check(c)
  \/ \E c \in Checks : checkForUpdates(c)
  \/ Library
  \/ renderUpdate
  \/ \E i \in Installs : installUpdate(i)
  \/ \E i \in Installs : Handler(i)
  \/ Stopped
  \/ UserQuits
  \/ beforeQuit
  \/ Drained

(* What is awaited ends: the library answers, a write to the log or of the *)
(* runtime's state and the two seconds of a shutdown come to an end.       *)
UpdateFairness ==
  /\ \A c \in Checks : WF_updateVars(checkForUpdates(c))
  /\ \A i \in Installs : WF_updateVars(Handler(i))
  /\ WF_updateVars(Library) /\ WF_updateVars(Stopped) /\ WF_updateVars(beforeQuit) /\ WF_updateVars(Drained)

UpdateSpec == UpdateInit /\ [][UpdateNext]_updateVars /\ UpdateFairness
-----------------------------------------------------------------------------
(* Every variable has its type; the library is busy exactly while a check  *)
(* waits for it or a download is shown.                                    *)
UpdateTypeOK ==
  /\ kind \in {"idle", "checking", "downloading", "downloaded", "installing", "error"}
  /\ updater \in {"idle", "checking", "downloading"}
  /\ caller \in Checks \cup {NoCall}
  /\ pc \in [Checks \cup Installs ->
               {"idle", "ask", "asked", "log", "shutdown", "restart"}]
  /\ runtime \in {"running", "stopping", "stopped"}
  /\ quit \in {"no", "asked", "draining", "gone"}
  /\ clicks \in 0..MaxClicks /\ failures \in 0..MaxFailures
  /\ \A b \in {button, shutdownInProgress, launched, overlapped, abandoned} : b \in BOOLEAN
  /\ updater = "checking" <=> caller # NoCall
  /\ caller # NoCall => pc[caller] = "asked"

(* A check is never made while the library is checking or downloading. *)
ChecksDoNotOverlap == ~overlapped

(* An update is installed only if it was downloaded and someone clicked on *)
(* the button; quitting the program does not install it.                   *)
InstalledOnRequest == launched => clicks > 0

(* A bridge stopped for an update does not stay stopped in an open window: *)
(* the program goes, or the handler starts the bridge again, unless it     *)
(* threw before, the installer reported its failure by an event, or the    *)
(* credential could not be read.                                           *)
InstallEnds ==
  runtime = "stopped" /\ ~abandoned ~> (quit = "gone" \/ runtime = "running" \/ abandoned)

(* A check comes to an end, so that the timer and the button can make      *)
(* another one.                                                            *)
CheckEnds == kind = "checking" ~> (kind # "checking" \/ ~Up)

(* Overlapping checks and clicks do not get into each other's way, and     *)
(* nothing is installed unasked.                                           *)
UpdatesInOrder == ChecksDoNotOverlap /\ InstalledOnRequest

(* Neither a check nor an installation leaves the bridge hanging.          *)
UpdatesEnd == InstallEnds /\ CheckEnds
=============================================================================
