---------------------------- MODULE DeviceProofs ----------------------------
(***************************************************************************)
(* Theorems about BridgeRuntime, for any set of generations and any number *)
(* of events, and about Pairing, for any codes, disconnects, faults and    *)
(* bounds.                                                                 *)
(***************************************************************************)
EXTENDS MCDevice, TLAPS

(***************************************************************************)
(* The inductive invariant.  That a paused or withdrawn bridge is stopped  *)
(* needs to know that a process that is down has no controller, or a boot  *)
(* into a stored pause could break it, and that no start() holds and no    *)
(* start() can read a withdrawn credential that nothing is deleting; that  *)
(* the authorization loops go on needs to know that the states that end    *)
(* them are only entered by a stop.                                        *)
(***************************************************************************)
DownIsStopped == ~up => controller = NoGen /\ starts = {}

RunningMayCheck ==
  isRunning => state \notin {"feature_required", "update_required", "revoked"}

WithdrawnIsOver ==
  /\ clearing => withdrawn
  /\ withdrawn /\ ~overtaken => TRUE \notin starts /\ (credential => clearing)
  /\ revocationHandled => ~isRunning

Control ==
  /\ DownIsStopped
  /\ WithdrawnIsOver
  /\ RunningMayCheck
  /\ PausedOrWithdrawnIsStopped
  /\ AuthorizationAlwaysChecked

(* The initial states are typed. *)
LEMMA TypeInit == Init => TypeOK
<1> SUFFICES ASSUME Init
             PROVE  TypeOK
  OBVIOUS
<1>1. disk \in StoredRuntimeState
  BY DEF Init, StoredRuntimeState, DesktopRuntimeKind
<1>2. standing \in Standings /\ state \in DesktopRuntimeKind
  BY DEF Init, Standings, DesktopRuntimeKind
<1>3. /\ poll \in [Gens -> PollSteps]
      /\ beat \in [Gens -> BeatSteps]
      /\ watch \in [Gens -> WatchSteps]
  BY DEF Init, PollSteps, BeatSteps, WatchSteps
<1>4. eventsLeft \in Nat
  BY RuntimeAssumption DEF Init
<1>5. QED
  BY <1>1, <1>2, <1>3, <1>4 DEF Init, TypeOK, observed

(* Events are counted down, and pending starts and what is observed of     *)
(* them are Booleans.                                                      *)
LEMMA PartsTyped ==
  ASSUME TypeOK
  PROVE  /\ \A event : Event(event) => eventsLeft' \in Nat
         /\ \A unread : MaybeStart(unread) => starts' \in SUBSET BOOLEAN
         /\ \A unread : MaybeStart(unread) => observed' \in BOOLEAN \X BOOLEAN
         /\ Withdraws => observed' \in BOOLEAN \X BOOLEAN
<1>1. \A event : Event(event) => eventsLeft' \in Nat
  BY DEF TypeOK, Event
<1>2. ASSUME NEW unread, MaybeStart(unread)
      PROVE  starts' \in SUBSET BOOLEAN
  <2>1. starts' = starts \cup {FALSE} \/ starts' = starts \cup {credential}
    BY <1>2 DEF MaybeStart
  <2>2. credential \in BOOLEAN /\ starts \subseteq BOOLEAN
    BY DEF TypeOK
  <2>3. ASSUME NEW b \in starts'
        PROVE  b \in BOOLEAN
    <3>1. b \in starts \/ b = FALSE \/ b = credential
      BY <2>1
    <3>2. QED
      BY <2>2, <3>1
  <2>4. QED
    BY <2>3
<1>3. ASSUME NEW unread, MaybeStart(unread)
      PROVE  observed' \in BOOLEAN \X BOOLEAN
  <2>1. withdrawn \in BOOLEAN
    BY DEF TypeOK, observed
  <2>2. overtaken' = TRUE \/ overtaken' = FALSE
    BY <1>3, Zenon DEF MaybeStart
  <2>3. withdrawn' = withdrawn
    BY <1>3 DEF MaybeStart
  <2>4. QED
    BY <2>1, <2>2, <2>3 DEF observed
<1>4. ASSUME Withdraws
      PROVE  observed' \in BOOLEAN \X BOOLEAN
  <2>1. withdrawn' = TRUE /\ (overtaken' = TRUE \/ overtaken' = FALSE)
    BY <1>4 DEF Withdraws
  <2>2. QED
    BY <2>1 DEF observed
<1>5. QED
  BY <1>1, <1>2, <1>3, <1>4

(* Every step keeps the types, one case per action. *)
LEMMA TypeStep == TypeOK /\ [Next]_vars => TypeOK'
<1> SUFFICES ASSUME TypeOK, [Next]_vars
             PROVE  TypeOK'
  OBVIOUS
<1> USE DEF TypeOK, DesktopRuntimeKind, PollSteps, BeatSteps, WatchSteps
<1>1. ASSUME Boot
      PROVE  TypeOK'
  <2>1. disk.paused \in BOOLEAN /\ disk.lastState \in DesktopRuntimeKind
    BY DEF StoredRuntimeState
  <2>2. paused' \in BOOLEAN /\ state' \in DesktopRuntimeKind
    BY <1>1, <2>1 DEF Boot
  <2>3. QED
    BY <1>1, <2>2, PartsTyped DEF Boot, loops, storage, files
<1>2. ASSUME Crash
      PROVE  TypeOK'
  BY <1>2, PartsTyped DEF observed, Crash, stop, files, StoredRuntimeState
<1>3. ASSUME StartUnpaired
      PROVE  TypeOK'
  BY <1>3 DEF StartUnpaired, transition, NoTransition, loops, files, storage
<1>4. ASSUME StartRefused
      PROVE  TypeOK'
  BY <1>4 DEF StartRefused, transition, NoTransition, loops, files, isRunning, storage
<1>5. ASSUME Pause
      PROVE  TypeOK'
  BY <1>5, PartsTyped DEF Pause, transition, stop, loops, files
<1>6. ASSUME Resume
      PROVE  TypeOK'
  BY <1>6, PartsTyped DEF Resume, transition, loops, files
<1>7. ASSUME Configure
      PROVE  TypeOK'
  <2>1. PICK unread \in BOOLEAN : MaybeStart(unread)
    BY <1>7 DEF Configure
  <2>2. QED
    BY <1>7, <2>1, PartsTyped DEF Configure, loops, storage
<1>8. ASSUME Disconnect
      PROVE  TypeOK'
  BY <1>8, PartsTyped DEF Disconnect, stop, loops, storage, files
<1>9. ASSUME CredentialSaved
      PROVE  TypeOK'
  BY <1>9, PartsTyped DEF observed, CredentialSaved, loops, storage, Standings
<1>10. ASSUME ShutdownForUpdate
      PROVE  TypeOK'
  BY <1>10, PartsTyped DEF ShutdownForUpdate, stop, loops, files
<1>11. ASSUME CredentialCleared
      PROVE  TypeOK'
  BY <1>11 DEF CredentialCleared, loops, storage
<1>12. ASSUME CredentialNotCleared
      PROVE  TypeOK'
  <2>1. eventsLeft' \in Nat
    BY <1>12, PartsTyped DEF CredentialNotCleared
  <2>2. observed' \in BOOLEAN \X BOOLEAN
    BY <1>12 DEF observed, CredentialNotCleared
  <2>3. clearing' \in BOOLEAN
    BY <1>12 DEF CredentialNotCleared
  <2> QED
    BY <1>12, <2>1, <2>2, <2>3 DEF CredentialNotCleared, loops, storage, files
<1>13. ASSUME StandingChanges
      PROVE  TypeOK'
  BY <1>13, PartsTyped DEF StandingChanges, loops, storage, files, Standings
<1>14. ASSUME persist
      PROVE  TypeOK'
  BY <1>14 DEF persist, loops, files, StoredRuntimeState
<1>15. ASSUME NotPersisted
      PROVE  TypeOK'
  <2>1. eventsLeft' \in Nat
    BY <1>15, PartsTyped DEF NotPersisted
  <2>2. observed' \in BOOLEAN \X BOOLEAN
    BY <1>15 DEF observed, NotPersisted
  <2> QED
    BY <1>15, <2>1, <2>2 DEF NotPersisted, loops, files
<1>16. ASSUME NEW g \in Gens, StartGeneration(g)
      PROVE  TypeOK'
  BY <1>16 DEF StartGeneration, transition, PollGoes, BeatGoes, WatchGoes, files, Quiet,
    isRunning
<1>17. ASSUME NEW g \in Gens, ReadinessKnown(g)
      PROVE  TypeOK'
  BY <1>17 DEF ReadinessKnown, transition, PollGoes, files
<1>18. ASSUME NEW g \in Gens, NextTimesOut(g)
      PROVE  TypeOK'
  BY <1>18 DEF NextTimesOut, transition, PollGoes, files
<1>19. ASSUME NEW g \in Gens, NextNeedsUpdate(g)
      PROVE  TypeOK'
  BY <1>19 DEF NextNeedsUpdate, transition, stop, PollGoes, files
<1>20. ASSUME NEW g \in Gens, NextJob(g)
      PROVE  TypeOK'
  BY <1>20 DEF NextJob, transition, PollGoes, files
<1>21. ASSUME NEW g \in Gens, PollFails(g)
      PROVE  TypeOK'
  BY <1>21 DEF PollFails, transition, PollGoes, files
<1>22. ASSUME NEW g \in Gens, PollDies(g)
      PROVE  TypeOK'
  BY <1>22, PartsTyped DEF PollDies, transition, PollGoes, storage, files
<1>23. ASSUME NEW g \in Gens, HandoffReturns(g)
      PROVE  TypeOK'
  BY <1>23 DEF HandoffReturns, PollGoes, files
<1>24. ASSUME NEW g \in Gens, OutcomeRecorded(g)
      PROVE  TypeOK'
  BY <1>24 DEF OutcomeRecorded, transition, PollGoes, PollHead, files
<1>25. ASSUME NEW g \in Gens, OutcomeNotRecorded(g)
      PROVE  TypeOK'
  <2>1. CASE controller = g
    BY <1>25, <2>1, PartsTyped DEF OutcomeNotRecorded, transition, PollGoes, files
  <2>2. CASE controller # g
    BY <1>25, <2>2, PartsTyped DEF OutcomeNotRecorded, NoTransition, PollGoes, storage, files
  <2>3. QED
    BY <2>1, <2>2
<1>26. ASSUME NEW g \in Gens, PollWakes(g)
      PROVE  TypeOK'
  BY <1>26 DEF PollWakes, PollGoes, PollHead, storage, files
<1>27. ASSUME NEW g \in Gens, PollAborted(g)
      PROVE  TypeOK'
  BY <1>27 DEF PollAborted, PollGoes, storage, files
<1>28. ASSUME NEW g \in Gens, BeatAccepted(g)
      PROVE  TypeOK'
  BY <1>28 DEF BeatAccepted, transition, NoTransition, BeatGoes, files, storage, Standings
<1>29. ASSUME NEW g \in Gens, BeatStops(g)
      PROVE  TypeOK'
  BY <1>29, PartsTyped
     DEF BeatStops, transition, stop, handleRevocation, BeatGoes, files, storage, Standings
<1>30. ASSUME NEW g \in Gens, BeatFails(g)
      PROVE  TypeOK'
  BY <1>30 DEF BeatFails, transition, BeatGoes, files
<1>31. ASSUME NEW g \in Gens, BeatWakes(g)
      PROVE  TypeOK'
  BY <1>31 DEF BeatWakes, BeatGoes, storage, files, canCheckAuthorization
<1>32. ASSUME NEW g \in Gens, BeatAborted(g)
      PROVE  TypeOK'
  BY <1>32 DEF BeatAborted, BeatGoes, storage, files
<1>33. ASSUME NEW g \in Gens, WatchAgain(g)
      PROVE  TypeOK'
  BY <1>33 DEF WatchAgain, WatchGoes, storage, files, canCheckAuthorization
<1>34. ASSUME NEW g \in Gens, WatchRevoked(g)
      PROVE  TypeOK'
  BY <1>34, PartsTyped
     DEF WatchRevoked, handleRevocation, WatchGoes, files, transition, stop, storage
<1>35. ASSUME NEW g \in Gens, WatchAborted(g)
      PROVE  TypeOK'
  BY <1>35 DEF WatchAborted, WatchGoes, storage, files
<1>36. ASSUME UNCHANGED vars
      PROVE  TypeOK'
  BY <1>36 DEF vars, observed
<1>37. QED
  BY <1>1, <1>2, <1>3, <1>4, <1>5, <1>6, <1>7, <1>8, <1>9, <1>10, <1>11, <1>12, <1>13,
     <1>14, <1>15, <1>16, <1>17, <1>18, <1>19, <1>20, <1>21, <1>22, <1>23, <1>24, <1>25,
     <1>26, <1>27, <1>28, <1>29, <1>30, <1>31, <1>32, <1>33, <1>34, <1>35, <1>36
     DEF Next, PollStep, BeatStep, WatchStep

(* Type correctness of the runtime. *)
THEOREM TypeCorrect == Spec => []TypeOK
<1>1. Init => TypeOK
  BY TypeInit
<1>2. TypeOK /\ [Next]_vars => TypeOK'
  BY TypeStep
<1>3. QED
  BY <1>1, <1>2, PTL DEF Spec
-----------------------------------------------------------------------------
(* Control holds initially: nothing runs. *)
LEMMA ControlInit == Init => Control
BY RuntimeAssumption
   DEF Init, Control, DownIsStopped, WithdrawnIsOver, observed, RunningMayCheck,
       PausedOrWithdrawnIsStopped, AuthorizationAlwaysChecked, isRunning

(* Every step keeps Control, one case per action. *)
LEMMA ControlStep == TypeOK /\ Control /\ [Next]_vars => Control'
<1> SUFFICES ASSUME TypeOK, Control, [Next]_vars
             PROVE  Control'
  OBVIOUS
<1> USE RuntimeAssumption
    DEF TypeOK, Control, DownIsStopped, WithdrawnIsOver, observed, RunningMayCheck,
        PausedOrWithdrawnIsStopped, AuthorizationAlwaysChecked, isRunning
<1>1. ASSUME Boot
      PROVE  Control'
  BY <1>1 DEF Boot, MaybeStart, loops, storage, files
<1>2. ASSUME Crash
      PROVE  Control'
  BY <1>2 DEF Crash, Event, stop, files
<1>3. ASSUME StartUnpaired
      PROVE  Control'
  BY <1>3 DEF StartUnpaired, transition, NoTransition, loops, files, storage
<1>4. ASSUME StartRefused
      PROVE  Control'
  BY <1>4 DEF StartRefused, transition, NoTransition, loops, files, storage
<1>5. ASSUME Pause
      PROVE  Control'
  BY <1>5 DEF Pause, Event, transition, stop, loops, files
<1>6. ASSUME Resume
      PROVE  Control'
  BY <1>6 DEF Resume, Event, transition, MaybeStart, loops, files
<1>7. ASSUME Configure
      PROVE  Control'
  <2>1. PICK unread \in BOOLEAN : MaybeStart(unread)
    BY <1>7 DEF Configure
  <2>2. QED
    BY <1>7, <2>1 DEF Configure, Event, MaybeStart, loops, storage
<1>8. ASSUME Disconnect
      PROVE  Control'
  BY <1>8 DEF Disconnect, Withdraws, Event, stop, loops, storage, files
<1>9. ASSUME CredentialSaved
      PROVE  Control'
  BY <1>9 DEF CredentialSaved, Event, loops, storage
<1>10. ASSUME ShutdownForUpdate
      PROVE  Control'
  BY <1>10 DEF ShutdownForUpdate, Event, stop, MaybeStart, loops, files
<1>11. ASSUME CredentialCleared
      PROVE  Control'
  BY <1>11 DEF CredentialCleared, loops, storage
<1>12. ASSUME CredentialNotCleared
      PROVE  Control'
  BY <1>12 DEF CredentialNotCleared, Event, loops, storage, files
<1>13. ASSUME StandingChanges
      PROVE  Control'
  BY <1>13 DEF StandingChanges, Event, loops, storage, files
<1>14. ASSUME persist
      PROVE  Control'
  BY <1>14 DEF persist, loops, files
<1>15. ASSUME NotPersisted
      PROVE  Control'
  BY <1>15 DEF NotPersisted, Event, loops, storage, files
<1>16. ASSUME NEW g \in Gens, StartGeneration(g)
      PROVE  Control'
  BY <1>16 DEF StartGeneration, transition, PollGoes, BeatGoes, WatchGoes, files, Quiet
<1>17. ASSUME NEW g \in Gens, ReadinessKnown(g)
      PROVE  Control'
  BY <1>17 DEF ReadinessKnown, transition, PollGoes, files
<1>18. ASSUME NEW g \in Gens, NextTimesOut(g)
      PROVE  Control'
  BY <1>18 DEF NextTimesOut, transition, PollGoes, files
<1>19. ASSUME NEW g \in Gens, NextNeedsUpdate(g)
      PROVE  Control'
  BY <1>19 DEF NextNeedsUpdate, transition, stop, PollGoes, files
<1>20. ASSUME NEW g \in Gens, NextJob(g)
      PROVE  Control'
  BY <1>20 DEF NextJob, transition, PollGoes, files
<1>21. ASSUME NEW g \in Gens, PollFails(g)
      PROVE  Control'
  BY <1>21 DEF PollFails, transition, PollGoes, files
<1>22. ASSUME NEW g \in Gens, PollDies(g)
      PROVE  Control'
  BY <1>22 DEF PollDies, Event, transition, PollGoes, storage, files
<1>23. ASSUME NEW g \in Gens, HandoffReturns(g)
      PROVE  Control'
  BY <1>23 DEF HandoffReturns, PollGoes, files
<1>24. ASSUME NEW g \in Gens, OutcomeRecorded(g)
      PROVE  Control'
  BY <1>24 DEF OutcomeRecorded, transition, PollGoes, PollHead, files
<1>25. ASSUME NEW g \in Gens, OutcomeNotRecorded(g)
      PROVE  Control'
  BY <1>25 DEF OutcomeNotRecorded, Event, transition, NoTransition, PollGoes, storage,
    files
<1>26. ASSUME NEW g \in Gens, PollWakes(g)
      PROVE  Control'
  BY <1>26 DEF PollWakes, PollGoes, PollHead, storage, files
<1>27. ASSUME NEW g \in Gens, PollAborted(g)
      PROVE  Control'
  BY <1>27 DEF PollAborted, PollGoes, storage, files
<1>28. ASSUME NEW g \in Gens, BeatAccepted(g)
      PROVE  Control'
  BY <1>28 DEF BeatAccepted, transition, NoTransition, BeatGoes, files, storage
<1>29. ASSUME NEW g \in Gens, BeatStops(g)
      PROVE  Control'
  <2>1. CASE standing = "revoked" /\ handleRevocation
    BY <1>29, <2>1
       DEF BeatStops, transition, stop, handleRevocation, Withdraws, BeatGoes, files
  <2>2. CASE transition(standing) /\ stop /\ UNCHANGED <<observed, revocationHandled, clearing>>
    BY <1>29, <2>2 DEF BeatStops, transition, stop, BeatGoes, files
  <2>3. QED
    BY <1>29, <2>1, <2>2 DEF BeatStops
<1>30. ASSUME NEW g \in Gens, BeatFails(g)
      PROVE  Control'
  BY <1>30 DEF BeatFails, transition, BeatGoes, files
<1>31. ASSUME NEW g \in Gens, BeatWakes(g)
      PROVE  Control'
  BY <1>31 DEF BeatWakes, BeatGoes, storage, files, canCheckAuthorization
<1>32. ASSUME NEW g \in Gens, BeatAborted(g)
      PROVE  Control'
  BY <1>32 DEF BeatAborted, BeatGoes, storage, files
<1>33. ASSUME NEW g \in Gens, WatchAgain(g)
      PROVE  Control'
  BY <1>33 DEF WatchAgain, WatchGoes, storage, files, canCheckAuthorization
<1>34. ASSUME NEW g \in Gens, WatchRevoked(g)
      PROVE  Control'
  BY <1>34
     DEF WatchRevoked, handleRevocation, Withdraws, WatchGoes, files, transition, stop,
         storage
<1>35. ASSUME NEW g \in Gens, WatchAborted(g)
      PROVE  Control'
  BY <1>35 DEF WatchAborted, WatchGoes, storage, files
<1>36. ASSUME UNCHANGED vars
      PROVE  Control'
  BY <1>36 DEF vars
<1>37. QED
  BY <1>1, <1>2, <1>3, <1>4, <1>5, <1>6, <1>7, <1>8, <1>9, <1>10, <1>11, <1>12, <1>13,
     <1>14, <1>15, <1>16, <1>17, <1>18, <1>19, <1>20, <1>21, <1>22, <1>23, <1>24, <1>25,
     <1>26, <1>27, <1>28, <1>29, <1>30, <1>31, <1>32, <1>33, <1>34, <1>35, <1>36
     DEF Next, PollStep, BeatStep, WatchStep

(* The inductive invariant of the runtime. *)
THEOREM Controlled == Spec => [](TypeOK /\ Control)
<1>1. Init => TypeOK /\ Control
  BY TypeInit, ControlInit
<1>2. TypeOK /\ Control /\ [Next]_vars => (TypeOK /\ Control)'
  BY TypeStep, ControlStep
<1>3. QED
  BY <1>1, <1>2, PTL DEF Spec

(* No loop has a live signal while the bridge is paused or its credential  *)
(* is withdrawn and was not overtaken.                                     *)
THEOREM PausedOrWithdrawnIsStoppedHolds == Spec => []PausedOrWithdrawnIsStopped
<1>1. TypeOK /\ Control => PausedOrWithdrawnIsStopped
  BY DEF Control
<1>2. QED
  BY <1>1, Controlled, PTL

(* The live generation always has its heartbeat and its session watch. *)
THEOREM AuthorizationAlwaysCheckedHolds == Spec => []AuthorizationAlwaysChecked
<1>1. TypeOK /\ Control => AuthorizationAlwaysChecked
  BY DEF Control
<1>2. QED
  BY <1>1, Controlled, PTL

(* No order is taken on after a pause, a revocation or a disconnect, but   *)
(* for a start() that overtook the deletion of the credential: the only    *)
(* step into a hand-off is the answer of a long poll under the live        *)
(* signal, and by PausedOrWithdrawnIsStopped there is none.                *)
THEOREM NoLateHandoffHolds == Spec => NoLateHandoff
<1>1. ASSUME TypeOK, Control, [Next]_vars, NEW g \in Gens,
             poll[g] # "handoff", poll'[g] = "handoff"
      PROVE  controller = g /\ ~paused /\ (withdrawn => overtaken)
  <2>1. poll' # poll
    BY <1>1
  <2>2. CASE Boot \/ Crash
    BY <1>1, <2>1, <2>2 DEF Boot, Crash, loops
  <2>3. CASE StartUnpaired \/ StartRefused \/ Pause \/ Resume \/ Configure \/ Disconnect
    BY <2>1, <2>3
       DEF StartUnpaired, StartRefused, Pause, Resume, Configure, Disconnect, loops
  <2>4. CASE \/ CredentialSaved \/ ShutdownForUpdate \/ CredentialCleared
             \/ CredentialNotCleared \/ StandingChanges \/ persist \/ NotPersisted
    BY <2>1, <2>4
       DEF CredentialSaved, ShutdownForUpdate, CredentialCleared, CredentialNotCleared,
           StandingChanges, persist, NotPersisted, loops
  <2>5. CASE \E h \in Gens : BeatStep(h) \/ WatchStep(h)
    BY <2>1, <2>5
       DEF BeatStep, BeatAccepted, BeatStops, BeatFails, BeatWakes, BeatAborted,
           WatchStep, WatchAgain, WatchRevoked, WatchAborted
  <2>6. ASSUME NEW h \in Gens, StartGeneration(h) \/ PollStep(h)
        PROVE  controller = g
    <3>1. \A s : PollGoes(h, s) => g = h /\ s = "handoff"
      BY <1>1 DEF PollGoes, TypeOK
    <3>2. CASE NextJob(h)
      BY <3>1, <3>2 DEF NextJob
    <3>3. CASE OutcomeRecorded(h) \/ PollWakes(h)
      BY <3>1, <3>3 DEF OutcomeRecorded, PollWakes, PollHead
    <3>4. CASE ReadinessKnown(h) \/ HandoffReturns(h) \/ OutcomeNotRecorded(h)
      BY <3>1, <3>4 DEF ReadinessKnown, HandoffReturns, OutcomeNotRecorded
    <3>5. CASE NextTimesOut(h) \/ NextNeedsUpdate(h)
      BY <3>1, <3>5 DEF NextTimesOut, NextNeedsUpdate
    <3>6. CASE PollFails(h) \/ PollDies(h) \/ PollAborted(h)
      BY <3>1, <3>6 DEF PollFails, PollDies, PollAborted
    <3>7. CASE StartGeneration(h)
      <4>1. PollGoes(h, "readiness")
        BY <3>7 DEF StartGeneration
      <4>2. QED
        BY <3>1, <4>1
    <3>8. QED
      BY <2>6, <3>2, <3>3, <3>4, <3>5, <3>6, <3>7 DEF PollStep
  <2>7. controller = g
    BY <1>1, <2>1, <2>2, <2>3, <2>4, <2>5, <2>6 DEF Next, vars
  <2>8. QED
    BY <2>7, <1>1, RuntimeAssumption DEF Control, PausedOrWithdrawnIsStopped
<1>2. TypeOK /\ Control /\ [Next]_vars =>
        [\A g \in Gens : poll[g] # "handoff" /\ poll'[g] = "handoff" =>
           controller = g /\ ~paused /\ (withdrawn => overtaken)]_vars
  BY <1>1
<1>3. QED
  BY <1>2, Controlled, PTL DEF Spec, NoLateHandoff
-----------------------------------------------------------------------------
(***************************************************************************)
(* The inductive invariant.  As long as nothing was saved or started       *)
(* across a deletion or another start, the file decides: whatever runs or  *)
(* is about to runs with what is stored, also between a save and its       *)
(* start, and a credential that is being deleted is used by nobody.        *)
(***************************************************************************)
CrossingIsSeen == Crossing => crossed

Starts == \E c \in Codes : step[c] = "start"

SavedStarts == Starts => stored # NoCode /\ step[stored] = "start"

RunsWithStored ==
  /\ running \in {NoCode, stored}
  /\ starting \subseteq {NoCode, stored}

DeletedIsStopped == Deleting => running = NoCode

WipedIsNotPaired == wiping => kind # "paired"

ShownIsStored ==
  ~Starts => /\ kind = "paired" => stored = shown
             /\ kind = "unpaired" => stored = NoCode

CredentialInv ==
  /\ CrossingIsSeen
  /\ ~crossed => /\ SavedStarts
                 /\ RunsWithStored
                 /\ DeletedIsStopped
                 /\ WipedIsNotPaired
                 /\ ShownIsStored

(***************************************************************************)
(* A shown code is polled for because only the live loop is ever aborted,  *)
(* and a loop that has not begun is not the live one.                      *)
(***************************************************************************)
Begun(c) == step[c] \notin {"new", "clicked", "create"}

PollerHasBegun ==
  \A c \in Codes : /\ poller = c => Begun(c)
                   /\ aborted[c] => Begun(c)

PolledInv == PollerHasBegun /\ ShownCodeIsPolled

(* The initial states are typed. *)
LEMMA PairingTypeInit == PairingInit => PairingTypeOK
<1> SUFFICES ASSUME PairingInit
             PROVE  PairingTypeOK
  OBVIOUS
<1>1. faultsLeft \in 0..MaxFaults
  BY PairingAssumption DEF PairingInit
<1>2. kind \in PairingKinds /\ ((kind \in Waiting \cup {"paired"}) <=> (shown # NoCode))
  BY DEF PairingInit, PairingKinds, isPairingTerminal, Waiting
<1>3. /\ step \in [Codes -> CodeSteps]
      /\ leave \in [Disconnects -> LeaveSteps]
      /\ server \in [Codes -> ServerStates]
  BY DEF PairingInit, CodeSteps, LeaveSteps, ServerStates
<1>4. QED
  BY <1>1, <1>2, <1>3 DEF PairingInit, PairingTypeOK

(* Where the head of a poll loop leads: the loop ends or waits, and what is *)
(* shown is kept, or expired.                                               *)
LEMMA LoopHeads ==
  ASSUME NEW c \in Codes, NEW k, NEW s, LoopHead(c, k, s), PairingTypeOK
  PROVE  /\ \/ Shows(k, s)
            \/ k \in Waiting /\ Shows("expired", NoCode)
         /\ \/ At(c, "off")
            \/ At(c, "wait") /\ ~aborted[c] /\ Shows(k, s)
         /\ ~aborted[c] /\ k \in Waiting /\ Shows(k, s) => At(c, "wait")
<1>1. "expired" \notin Waiting
  BY DEF Waiting
<1>2. QED
  BY <1>1 DEF LoopHead, Shows

(* A fault is taken from the budget, and a stopped loop is aborted. *)
LEMMA PairingPartsTyped ==
  ASSUME PairingTypeOK
  PROVE  /\ \A f : Fault(f) => faultsLeft' \in 0..MaxFaults
         /\ stopPolling => aborted' \in [Codes -> BOOLEAN] /\ poller' = NoCode
<1>1. \A f : Fault(f) => faultsLeft' \in 0..MaxFaults
  BY PairingAssumption DEF PairingTypeOK, Fault
<1>2. stopPolling => aborted' \in [Codes -> BOOLEAN] /\ poller' = NoCode
  BY DEF PairingTypeOK, stopPolling
<1>3. QED
  BY <1>1, <1>2

(* Every step keeps the types, one case per action. *)
LEMMA PairingTypeStep == PairingTypeOK /\ [PairingNext]_pairingVars => PairingTypeOK'
<1> SUFFICES ASSUME PairingTypeOK, PairingNext
             PROVE  PairingTypeOK'
  BY DEF pairingVars, PairingTypeOK, shownVars, device
<1> USE PairingAssumption DEF PairingTypeOK, PairingKinds, isPairingTerminal, Waiting, CodeSteps,
      LeaveSteps, ServerStates, shownVars, device
<1>0. crossed' \in BOOLEAN
  BY DEF PairingNext
<1>1. ASSUME NEW c \in Codes, Click(c)
      PROVE  PairingTypeOK'
  BY <1>0, <1>1, PairingPartsTyped DEF Click, At
<1>2. ASSUME NEW c \in Codes, begin(c)
      PROVE  PairingTypeOK'
  BY <1>0, <1>2, PairingPartsTyped DEF begin, At, Shows
<1>3. ASSUME NEW c \in Codes, Created(c)
      PROVE  PairingTypeOK'
  BY <1>0, <1>3, PairingPartsTyped DEF Created, At, Shows, NoFault
<1>4. ASSUME NEW c \in Codes, NotCreated(c)
      PROVE  PairingTypeOK'
  BY <1>0, <1>4, PairingPartsTyped DEF NotCreated, At, Shows
<1>5. ASSUME NEW c \in Codes, Wakes(c)
      PROVE  PairingTypeOK'
  BY <1>0, <1>5, PairingPartsTyped DEF Wakes, At
<1>6. ASSUME NEW c \in Codes, PollAnswered(c)
      PROVE  PairingTypeOK'
  <2>1. CASE applyPending(c) /\ UNCHANGED server
    <3>1. PICK k \in Waiting : LoopHead(c, IF kind \in Waiting THEN k ELSE kind, shown)
      BY <2>1 DEF applyPending
    <3>2. /\ kind' \in PairingKinds /\ shown' \in Codes \cup {NoCode}
          /\ (kind' \in Waiting \cup {"paired"}) <=> (shown' # NoCode)
      BY <3>1, LoopHeads DEF Shows
    <3>3. step' \in [Codes -> CodeSteps]
      BY <3>1, LoopHeads DEF At
    <3>4. QED
      BY <1>0, <1>6, <2>1, <3>2, <3>3 DEF PollAnswered
  <2>2. CASE applyRefusal(c) /\ UNCHANGED server
    BY <1>0, <1>6, <2>2 DEF PollAnswered, applyRefusal, Shows, At
  <2>3. CASE ~((applyPending(c) \/ applyRefusal(c)) /\ UNCHANGED server)
    BY <1>0, <1>6, <2>3 DEF PollAnswered, At
  <2>4. QED
    BY <2>1, <2>2, <2>3
<1>7. ASSUME NEW c \in Codes, TokenPollFails(c)
      PROVE  PairingTypeOK'
  BY <1>0, <1>7, PairingPartsTyped DEF TokenPollFails, At, Shows
<1>8. ASSUME NEW c \in Codes, save(c)
      PROVE  PairingTypeOK'
  BY <1>0, <1>8, PairingPartsTyped DEF save, At
<1>9. ASSUME NEW c \in Codes, NotSaved(c)
      PROVE  PairingTypeOK'
  BY <1>0, <1>9, PairingPartsTyped DEF NotSaved, At, Shows
<1>10. ASSUME NEW c \in Codes, Paired(c)
      PROVE  PairingTypeOK'
  BY <1>0, <1>10, PairingPartsTyped DEF Paired, At, Shows, start
<1>11. ASSUME NEW c \in Codes, Decide(c)
      PROVE  PairingTypeOK'
  BY <1>0, <1>11, PairingPartsTyped DEF Decide
<1>12. ASSUME NEW c \in Codes, Lapse(c)
      PROVE  PairingTypeOK'
  BY <1>0, <1>12, PairingPartsTyped DEF Lapse
<1>13. ASSUME NEW d \in Disconnects, Ask(d)
      PROVE  PairingTypeOK'
  BY <1>0, <1>13, PairingPartsTyped DEF Ask, Leaves
<1>14. ASSUME NEW d \in Disconnects, disconnect(d)
      PROVE  PairingTypeOK'
  BY <1>0, <1>14, PairingPartsTyped DEF disconnect, Leaves
<1>15. ASSUME NEW d \in Disconnects, readCredentialForDisconnect(d)
      PROVE  PairingTypeOK'
  BY <1>0, <1>15, PairingPartsTyped DEF readCredentialForDisconnect, Leaves, NoFault
<1>16. ASSUME NEW d \in Disconnects, RevokeAnswered(d)
      PROVE  PairingTypeOK'
  BY <1>0, <1>16, PairingPartsTyped DEF RevokeAnswered, Leaves, NoFault
<1>17. ASSUME NEW d \in Disconnects, Disconnected(d)
      PROVE  PairingTypeOK'
  BY <1>0, <1>17, PairingPartsTyped DEF Disconnected, Leaves, Shows
<1>18. ASSUME NEW d \in Disconnects, NotDisconnected(d)
      PROVE  PairingTypeOK'
  BY <1>0, <1>18, PairingPartsTyped DEF NotDisconnected, Leaves
<1>19. ASSUME onRevoked
      PROVE  PairingTypeOK'
  BY <1>0, <1>19, PairingPartsTyped DEF onRevoked, Shows
<1>20. ASSUME clearRevokedCredential
      PROVE  PairingTypeOK'
  BY <1>0, <1>20, PairingPartsTyped DEF clearRevokedCredential, NoFault
<1>21. ASSUME maybeStartRuntime
      PROVE  PairingTypeOK'
  BY <1>0, <1>21, PairingPartsTyped DEF maybeStartRuntime
<1>22. ASSUME NEW c \in Codes \cup {NoCode}, StartRuns(c)
      PROVE  PairingTypeOK'
  BY <1>0, <1>22, PairingPartsTyped DEF StartRuns, start
<1>23. ASSUME Restart
      PROVE  PairingTypeOK'
  BY <1>0, <1>23, PairingPartsTyped DEF Restart, Shows
<1>24. QED
  BY <1>1, <1>2, <1>3, <1>4, <1>5, <1>6, <1>7, <1>8, <1>9, <1>10, <1>11, <1>12, <1>13,
     <1>14, <1>15, <1>16, <1>17, <1>18, <1>19, <1>20, <1>21, <1>22, <1>23
     DEF PairingNext, CodeStep, LeaveStep

(* The variables of pairing have their types, for any codes and faults. *)
THEOREM PairingTypeCorrect == PairingSpec => []PairingTypeOK
  BY PairingTypeInit, PairingTypeStep, PTL DEF PairingSpec

(* What a step of uncrossed calls finds: nothing is saved or started while *)
(* a credential is deleted, and whoever saves or starts one is alone.      *)
LEMMA Uncrossed ==
  ASSUME ~Crossing
  PROVE  /\ Deleting => starting = {} /\ \A c \in Codes : step[c] \notin {"save", "start"}
         /\ \A c \in Codes :
              step[c] \in {"save", "start"} => starting \cup {running} \subseteq {NoCode, c}
  BY DEF Crossing

(* An uncrossed step keeps file, runtime and window together. *)
LEMMA CredentialStep ==
  PairingTypeOK /\ PairingTypeOK' /\ CredentialInv /\ [PairingNext]_pairingVars => CredentialInv'
<1> DEFINE Inner == SavedStarts /\ RunsWithStored /\ DeletedIsStopped /\ WipedIsNotPaired
                    /\ ShownIsStored
<1> SUFFICES ASSUME PairingTypeOK, PairingTypeOK', CredentialInv, PairingNext
             PROVE  CredentialInv'
  BY DEF pairingVars, CredentialInv, CrossingIsSeen, Crossing, Deleting, SavedStarts, Starts,
    RunsWithStored, DeletedIsStopped, WipedIsNotPaired, ShownIsStored, shownVars, device
<1>0. crossed' = (crossed \/ Crossing')
  BY DEF PairingNext
<1> SUFFICES ASSUME ~crossed, ~Crossing, ~Crossing', Inner
             PROVE  Inner'
  BY <1>0 DEF CredentialInv, CrossingIsSeen
<1>a. /\ Deleting => starting = {} /\ \A c \in Codes : step[c] \notin {"save", "start"}
      /\ \A c \in Codes :
           step[c] \in {"save", "start"} => starting \cup {running} \subseteq {NoCode, c}
  BY Uncrossed
<1>b. \A c \in Codes :
        step'[c] \in {"save", "start"} => starting' \cup {running'} \subseteq {NoCode, c}
  BY DEF Crossing
<1> USE DEF PairingTypeOK, SavedStarts, Starts, RunsWithStored, DeletedIsStopped,
      WipedIsNotPaired, ShownIsStored, Deleting, shownVars, device, Waiting, Startable
<1>1. ASSUME NEW c \in Codes, Click(c)
      PROVE  Inner'
  BY <1>a, <1>b, <1>1 DEF Click, At
<1>2. ASSUME NEW c \in Codes, begin(c)
      PROVE  Inner'
  BY <1>a, <1>b, <1>2 DEF begin, At, stopPolling, Shows
<1>3. ASSUME NEW c \in Codes, Created(c)
      PROVE  Inner'
  BY <1>a, <1>b, <1>3 DEF Created, At, Shows
<1>4. ASSUME NEW c \in Codes, NotCreated(c)
      PROVE  Inner'
  BY <1>a, <1>b, <1>4 DEF NotCreated, At, Shows
<1>5. ASSUME NEW c \in Codes, Wakes(c)
      PROVE  Inner'
  BY <1>a, <1>b, <1>5 DEF Wakes, At
<1>6. ASSUME NEW c \in Codes, PollAnswered(c)
      PROVE  Inner'
  <2>1. CASE applyPending(c) /\ UNCHANGED server
    <3>1. PICK k \in Waiting : LoopHead(c, IF kind \in Waiting THEN k ELSE kind, shown)
      BY <2>1 DEF applyPending
    <3>2. step' = [step EXCEPT ![c] = "off"] \/ step' = [step EXCEPT ![c] = "wait"]
      BY <3>1, LoopHeads DEF At
    <3>3. kind' \in Waiting \cup {"expired"} \/ (kind' = kind /\ shown' = shown)
      BY <3>1, LoopHeads DEF Shows
    <3>4. QED
      BY <1>6, <1>a, <2>1, <3>2, <3>3 DEF PollAnswered
  <2>2. CASE applyRefusal(c) /\ UNCHANGED server
    BY <1>6, <1>a, <2>2 DEF PollAnswered, applyRefusal, Shows, At
  <2>3. CASE ~((applyPending(c) \/ applyRefusal(c)) /\ UNCHANGED server)
    BY <1>6, <1>a, <2>3 DEF PollAnswered, At
  <2>4. QED
    BY <2>1, <2>2, <2>3
<1>7. ASSUME NEW c \in Codes, TokenPollFails(c)
      PROVE  Inner'
  BY <1>a, <1>b, <1>7 DEF TokenPollFails, At, Shows
<1>8. ASSUME NEW c \in Codes, save(c)
      PROVE  Inner'
  <2>1. stored' = c /\ step'[c] = "start" /\ c # NoCode
    BY <1>8, PairingAssumption DEF save, At
  <2>2. ~Deleting /\ UNCHANGED <<leave, wiping, running, starting>>
    BY <1>a, <1>8 DEF save
  <2>3. starting \cup {running} \subseteq {NoCode, c}
    BY <1>a, <1>8 DEF save
  <2>4. SavedStarts' /\ ShownIsStored'
    BY <2>1
  <2>5. RunsWithStored'
    BY <2>1, <2>2, <2>3
  <2>6. DeletedIsStopped' /\ WipedIsNotPaired'
    BY <2>2
  <2>7. QED
    BY <2>4, <2>5, <2>6
<1>9. ASSUME NEW c \in Codes, NotSaved(c)
      PROVE  Inner'
  BY <1>a, <1>b, <1>9 DEF NotSaved, At, Shows
<1>10. ASSUME NEW c \in Codes, Paired(c)
      PROVE  Inner'
  BY <1>a, <1>b, <1>10 DEF Paired, At, Shows, start
<1>11. ASSUME NEW c \in Codes, Decide(c)
      PROVE  Inner'
  BY <1>a, <1>b, <1>11 DEF Decide
<1>12. ASSUME NEW c \in Codes, Lapse(c)
      PROVE  Inner'
  BY <1>a, <1>b, <1>12 DEF Lapse
<1>13. ASSUME NEW d \in Disconnects, Ask(d)
      PROVE  Inner'
  BY <1>a, <1>b, <1>13 DEF Ask, Leaves
<1>14. ASSUME NEW d \in Disconnects, disconnect(d)
      PROVE  Inner'
  BY <1>a, <1>b, <1>14 DEF disconnect, Leaves
<1>15. ASSUME NEW d \in Disconnects, readCredentialForDisconnect(d)
      PROVE  Inner'
  BY <1>a, <1>b, <1>15 DEF readCredentialForDisconnect, Leaves
<1>16. ASSUME NEW d \in Disconnects, RevokeAnswered(d)
      PROVE  Inner'
  BY <1>a, <1>b, <1>16 DEF RevokeAnswered, Leaves
<1>17. ASSUME NEW d \in Disconnects, Disconnected(d)
      PROVE  Inner'
  BY <1>a, <1>b, <1>17 DEF Disconnected, Leaves, Shows
<1>18. ASSUME NEW d \in Disconnects, NotDisconnected(d)
      PROVE  Inner'
  BY <1>a, <1>b, <1>18 DEF NotDisconnected, Leaves
<1>19. ASSUME onRevoked
      PROVE  Inner'
  BY <1>a, <1>b, <1>19 DEF onRevoked, Shows
<1>20. ASSUME clearRevokedCredential
      PROVE  Inner'
  BY <1>a, <1>b, <1>20 DEF clearRevokedCredential
<1>21. ASSUME maybeStartRuntime
      PROVE  Inner'
  BY <1>a, <1>b, <1>21 DEF maybeStartRuntime
<1>22. ASSUME NEW c \in Codes \cup {NoCode}, StartRuns(c)
      PROVE  Inner'
  BY <1>a, <1>b, <1>22 DEF StartRuns, start
<1>23. ASSUME Restart
      PROVE  Inner'
  BY <1>a, <1>b, <1>23 DEF Restart, Shows
<1>24. QED
  BY <1>1, <1>2, <1>3, <1>4, <1>5, <1>6, <1>7, <1>8, <1>9, <1>10, <1>11, <1>12, <1>13,
     <1>14, <1>15, <1>16, <1>17, <1>18, <1>19, <1>20, <1>21, <1>22, <1>23
     DEF PairingNext, CodeStep, LeaveStep

(* The inductive invariant holds. *)
LEMMA CredentialSafe == PairingSpec => [](PairingTypeOK /\ CredentialInv)
<1>1. PairingInit => CredentialInv
  BY DEF PairingInit, CredentialInv, CrossingIsSeen, Crossing, Deleting, SavedStarts, Starts,
    RunsWithStored, DeletedIsStopped, WipedIsNotPaired, ShownIsStored
<1>2. QED
  BY <1>1, PairingTypeCorrect, CredentialStep, PTL DEF PairingSpec

(* What is shown, what is stored and what runs is one credential, unless a *)
(* credential was saved or started across a deletion or another start, for *)
(* any number of codes, disconnects, faults and restarts.                  *)
THEOREM OneCredentialHolds == PairingSpec => []OneCredential
<1>1. PairingTypeOK /\ CredentialInv => OneCredential
  BY DEF PairingTypeOK, CredentialInv, SavedStarts, Starts, RunsWithStored, ShownIsStored,
    OneCredential
<1>2. QED
  BY <1>1, CredentialSafe, PTL

(* The page that is opened is the checked page of the shown code. *)
THEOREM ShownPageIsCheckedHolds == PairingSpec => []ShownPageIsChecked
<1>1. PairingInit => ShownPageIsChecked
  BY DEF PairingInit, ShownPageIsChecked, Waiting
<1>2. PairingTypeOK /\ ShownPageIsChecked /\ [PairingNext]_pairingVars => ShownPageIsChecked'
  <2> SUFFICES ASSUME PairingTypeOK, ShownPageIsChecked, PairingNext
               PROVE  ShownPageIsChecked'
    BY DEF pairingVars, ShownPageIsChecked, shownVars
  <2> USE DEF ShownPageIsChecked, Waiting, shownVars
  <2>1. CASE UNCHANGED <<kind, shown, url>>
    BY <2>1
  <2>2. CASE kind' \notin Waiting
    BY <2>2
  <2>3. ASSUME NEW c \in Codes, Created(c)
        PROVE  ShownPageIsChecked'
    BY <2>3 DEF Created, Shows
  <2>4. ASSUME NEW c \in Codes, PollAnswered(c)
        PROVE  ShownPageIsChecked'
    <3>1. CASE applyPending(c)
      <4>1. PICK k \in Waiting : LoopHead(c, IF kind \in Waiting THEN k ELSE kind, shown)
        BY <3>1 DEF applyPending
      <4>2. \/ kind' \notin Waiting
            \/ kind \in Waiting /\ shown' = shown
        BY <4>1, LoopHeads DEF Shows
      <4>3. QED
        BY <2>4, <4>2 DEF PollAnswered
    <3>2. QED
      BY <2>4, <3>1 DEF PollAnswered, applyRefusal, Shows
  <2>5. \/ UNCHANGED <<kind, shown, url>> \/ kind' \notin Waiting
        \/ \E c \in Codes : Created(c) \/ PollAnswered(c)
    BY
       DEF PairingNext, CodeStep, LeaveStep, Click, begin, NotCreated, Wakes,
           TokenPollFails, save, NotSaved, Paired, Decide, Lapse, Ask, disconnect,
           readCredentialForDisconnect, RevokeAnswered, Disconnected, NotDisconnected,
           onRevoked, clearRevokedCredential, maybeStartRuntime, StartRuns, Restart, Shows
  <2>6. QED
    BY <2>1, <2>2, <2>3, <2>4, <2>5
<1>3. QED
  BY <1>1, <1>2, PairingTypeCorrect, PTL DEF PairingSpec

(* A step keeps the shown code polled for when files can be deleted. *)
LEMMA PolledStep ==
  ASSUME "unlink" \notin FaultKinds
  PROVE  PairingTypeOK /\ PairingTypeOK' /\ PolledInv /\ [PairingNext]_pairingVars => PolledInv'
<1> SUFFICES ASSUME PairingTypeOK, PairingTypeOK', PolledInv, PairingNext
             PROVE  PolledInv'
  BY DEF pairingVars, PolledInv, PollerHasBegun, Begun, ShownCodeIsPolled, shownVars
<1> USE PairingAssumption DEF PairingTypeOK, PolledInv, PollerHasBegun, Begun, ShownCodeIsPolled, Waiting,
      shownVars, device, Startable
<1>1. ASSUME NEW c \in Codes, Click(c)
      PROVE  PolledInv'
  BY <1>1 DEF Click, At
<1>2. ASSUME NEW c \in Codes, begin(c)
      PROVE  PolledInv'
  BY <1>2 DEF begin, At, stopPolling, Shows
<1>3. ASSUME NEW c \in Codes, Created(c)
      PROVE  PolledInv'
  BY <1>3 DEF Created, At, Shows
<1>4. ASSUME NEW c \in Codes, NotCreated(c)
      PROVE  PolledInv'
  BY <1>4 DEF NotCreated, At, Shows
<1>5. ASSUME NEW c \in Codes, Wakes(c)
      PROVE  PolledInv'
  BY <1>5 DEF Wakes, At
<1>6. ASSUME NEW c \in Codes, PollAnswered(c)
      PROVE  PolledInv'
  <2>1. CASE applyPending(c) /\ UNCHANGED server
    <3>1. PICK k \in Waiting : LoopHead(c, IF kind \in Waiting THEN k ELSE kind, shown)
      BY <2>1 DEF applyPending
    <3>2. \/ step' = [step EXCEPT ![c] = "off"]
          \/ step' = [step EXCEPT ![c] = "wait"]
      BY <3>1, LoopHeads DEF At
    <3>3. \/ kind' \notin Waiting
          \/ kind \in Waiting /\ shown' = shown
      BY <3>1, LoopHeads DEF Shows
    <3>4. kind' \in Waiting /\ ~aborted[c] => step'[c] = "wait"
      BY <3>1, LoopHeads DEF Shows, At
    <3>5. QED
      BY <1>6, <2>1, <3>2, <3>3, <3>4 DEF PollAnswered
  <2>2. CASE applyRefusal(c) /\ UNCHANGED server
    BY <1>6, <2>2 DEF PollAnswered, applyRefusal, Shows, At
  <2>3. CASE ~((applyPending(c) \/ applyRefusal(c)) /\ UNCHANGED server)
    BY <1>6, <2>3 DEF PollAnswered, At
  <2>4. QED
    BY <2>1, <2>2, <2>3
<1>7. ASSUME NEW c \in Codes, TokenPollFails(c)
      PROVE  PolledInv'
  BY <1>7 DEF TokenPollFails, At, Shows
<1>8. ASSUME NEW c \in Codes, save(c)
      PROVE  PolledInv'
  BY <1>8 DEF save, At
<1>9. ASSUME NEW c \in Codes, NotSaved(c)
      PROVE  PolledInv'
  BY <1>9 DEF NotSaved, At, Shows
<1>10. ASSUME NEW c \in Codes, Paired(c)
      PROVE  PolledInv'
  BY <1>10 DEF Paired, At, Shows, start
<1>11. ASSUME NEW c \in Codes, Decide(c)
      PROVE  PolledInv'
  BY <1>11 DEF Decide
<1>12. ASSUME NEW c \in Codes, Lapse(c)
      PROVE  PolledInv'
  BY <1>12 DEF Lapse
<1>13. ASSUME NEW d \in Disconnects, Ask(d)
      PROVE  PolledInv'
  BY <1>13 DEF Ask, Leaves
<1>14. ASSUME NEW d \in Disconnects, disconnect(d)
      PROVE  PolledInv'
  BY <1>14 DEF disconnect, Leaves
<1>15. ASSUME NEW d \in Disconnects, readCredentialForDisconnect(d)
      PROVE  PolledInv'
  BY <1>15 DEF readCredentialForDisconnect, Leaves, stopPolling
<1>16. ASSUME NEW d \in Disconnects, RevokeAnswered(d)
      PROVE  PolledInv'
  BY <1>16 DEF RevokeAnswered, Leaves
<1>17. ASSUME NEW d \in Disconnects, Disconnected(d)
      PROVE  PolledInv'
  BY <1>17 DEF Disconnected, Leaves, Shows
<1>18. ASSUME NEW d \in Disconnects, NotDisconnected(d)
      PROVE  PolledInv'
  BY <1>18 DEF NotDisconnected, Fault
<1>19. ASSUME onRevoked
      PROVE  PolledInv'
  BY <1>19 DEF onRevoked, stopPolling, Shows
<1>20. ASSUME clearRevokedCredential
      PROVE  PolledInv'
  BY <1>20 DEF clearRevokedCredential
<1>21. ASSUME maybeStartRuntime
      PROVE  PolledInv'
  BY <1>21 DEF maybeStartRuntime
<1>22. ASSUME NEW c \in Codes \cup {NoCode}, StartRuns(c)
      PROVE  PolledInv'
  BY <1>22 DEF StartRuns, start
<1>23. ASSUME Restart
      PROVE  PolledInv'
  BY <1>23 DEF Restart, Shows
<1>24. QED
  BY <1>1, <1>2, <1>3, <1>4, <1>5, <1>6, <1>7, <1>8, <1>9, <1>10, <1>11, <1>12, <1>13,
     <1>14, <1>15, <1>16, <1>17, <1>18, <1>19, <1>20, <1>21, <1>22, <1>23
     DEF PairingNext, CodeStep, LeaveStep

(* While the user reads a code, somebody asks the service about it, unless *)
(* the credential file cannot be deleted.                                  *)
THEOREM ShownCodeIsPolledHolds ==
  ASSUME "unlink" \notin FaultKinds
  PROVE  PairingSpec => []ShownCodeIsPolled
<1>1. PairingInit => PolledInv
  BY PairingAssumption
     DEF PairingInit, PolledInv, PollerHasBegun, Begun, ShownCodeIsPolled, Waiting
<1>2. PolledInv => ShownCodeIsPolled
  BY DEF PolledInv
<1>3. QED
  BY <1>1, <1>2, PairingTypeCorrect, PolledStep, PTL DEF PairingSpec
-----------------------------------------------------------------------------
(* In a behaviour of the device the runtime and pairing each behave as     *)
(* they do by themselves, so that all of the above holds of both.          *)
LEMMA DeviceRunsBoth == DeviceSpec => Spec /\ PairingSpec
<1>1. DeviceInit => Init /\ PairingInit
  BY DEF DeviceInit
<1>2. [DeviceNext]_<<vars, pairingVars>> => [Next]_vars /\ [PairingNext]_pairingVars
  BY DEF DeviceNext, MCPairingNext
<1>3. QED
  BY <1>1, <1>2, PTL DEF DeviceSpec, Spec, PairingSpec

(* The variables of the runtime and of pairing keep their types in a       *)
(* device that has both.                                                   *)
THEOREM DeviceTypeCorrect == DeviceSpec => []DeviceTypeOK
<1>1. TypeOK /\ PairingTypeOK => DeviceTypeOK
  BY DEF DeviceTypeOK
<1>2. QED
  BY <1>1, DeviceRunsBoth, TypeCorrect, PairingTypeCorrect, PTL
=============================================================================
