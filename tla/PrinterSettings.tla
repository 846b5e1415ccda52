-------------------------- MODULE PrinterSettings --------------------------
(***************************************************************************)
(* The printer settings: saveConfiguration, activateConfiguration and      *)
(* deleteConfiguration of main/kitchen-route-service.ts over the profiles  *)
(* of integrations/adapter-config-store.ts and the configuration file of   *)
(* main/local-adapter-config-store.ts.                                     *)
(*                                                                         *)
(* Each request reads the file two or three times, computes a new entry    *)
(* and writes it through one temporary file.  Nothing keeps a second       *)
(* request of the window from starting meanwhile.  As in ExecutionLedger,  *)
(* an open file is followed when it is renamed.                            *)
(***************************************************************************)
EXTENDS PrinterProfiles

CONSTANTS Requests,    \* requests that can be under way at one time
          MaxSettingsFaults,   \* bound: crashes and file errors
          Torn, Absent

ASSUME SettingsAssumption ==
  /\ MaxSettingsFaults \in Nat
  /\ {Torn, Absent} \cap Entry = {} /\ Torn # Absent

VARIABLES
  file, tmp,  \* contents of the configuration file and of its temporary file
  phase,      \* pc[r]: the await request r is at
  op,         \* op[r]: what it was asked for
  out,        \* out[r]: the entry it is going to write
  fd,         \* fd[r]: the file it has open: "tmp", "file", or one that is "gone"
  settingsFaultsLeft,
  given,      \* observation: given[i]: every configuration asked for printer i
  overlapped, \* observation: two requests were under way at one time
  saved       \* observation, until then: saved[i]: the configuration of i whose
              \*   save returned last, NoValue once a save or delete of i begins

files == <<file, tmp>>
requestsSeen == <<given, saved, overlapped>>
settingsVars == <<file, tmp, phase, op, out, fd, settingsFaultsLeft, given, saved,
                  overlapped>>

Op == [kind : {"save", "activate", "delete"}, id : Ids, value : Values \cup {NoValue},
       activate : BOOLEAN]

Idle == [kind |-> "delete", id |-> Primary, value |-> NoValue, activate |-> FALSE]

SettingsInit ==
  /\ file \in {NoEntry} \cup {Older(v) : v \in Values}
  /\ tmp = Absent
  /\ phase = [r \in Requests |-> "idle"]
  /\ op = [r \in Requests |-> Idle]
  /\ out = [r \in Requests |-> NoEntry]
  /\ fd = [r \in Requests |-> "gone"]
  /\ settingsFaultsLeft = MaxSettingsFaults
  /\ given = [i \in Ids |-> IF i = Primary THEN {file.value} \ {NoValue} ELSE {}]
  /\ saved = [i \in Ids |-> IF i = Primary THEN file.value ELSE NoValue]
  /\ overlapped = FALSE
-----------------------------------------------------------------------------
Asked(r, o, at) ==
  /\ phase[r] = "idle"
  /\ phase' = [phase EXCEPT ![r] = at]
  /\ op' = [op EXCEPT ![r] = o]
  /\ overlapped' = (overlapped \/ \E q \in Requests : phase[q] # "idle")
  /\ UNCHANGED <<files, out, fd, settingsFaultsLeft>>

Stored == IF file = Torn THEN {} ELSE IdsOf(ProfilesOf(file))

Unsaved(S) ==
  saved' = IF overlapped' THEN [i \in Ids |-> NoValue]
           ELSE [i \in Ids |-> IF i \in S THEN NoValue ELSE saved[i]]

(* The form is submitted: for a printer that is shown, or for a new one,   *)
(* which gets a random ID and becomes active.                              *)
saveConfiguration(r, i, v) ==
  /\ IF i \in Stored
     THEN Asked(r, [kind |-> "save", id |-> i, value |-> v, activate |-> FALSE], "current")
     ELSE /\ \A q \in Requests : phase[q] # "idle" => op[q].id # i
          /\ Asked(r, [kind |-> "save", id |-> i, value |-> v, activate |-> TRUE], "current")
  /\ given' = [given EXCEPT ![i] = @ \cup {v}]
  /\ Unsaved({i})

activateConfiguration(r, i) ==
  /\ i \in Stored
  /\ Asked(r, [Idle EXCEPT !.kind = "activate", !.id = i], "first")
  /\ Unsaved({})
  /\ UNCHANGED given

deleteConfiguration(r, i) ==
  /\ i \in Stored
  /\ Asked(r, [Idle EXCEPT !.id = i], "first")
  /\ Unsaved({i})
  /\ UNCHANGED given

Done(r) ==
  /\ phase' = [phase EXCEPT ![r] = "idle"]
  /\ op' = [op EXCEPT ![r] = Idle]
  /\ out' = [out EXCEPT ![r] = NoEntry]
  /\ fd' = [fd EXCEPT ![r] = "gone"]

(* saveConfiguration reads the printers: the active one stays active. *)
readCurrent(r) ==
  /\ phase[r] = "current" /\ file # Torn
  /\ phase' = [phase EXCEPT ![r] = "first"]
  /\ op' = [op EXCEPT ![r].activate = @ \/ ActiveOf(file) = op[r].id]
  /\ UNCHANGED <<files, out, fd, settingsFaultsLeft, requestsSeen>>

(* The first read of the store; removeProfile without an entry is done. *)
readFirst(r) ==
  /\ phase[r] = "first" /\ file # Torn
  /\ IF op[r].kind = "delete" /\ file = NoEntry
     THEN Done(r)
     ELSE /\ phase' = [phase EXCEPT ![r] = "second"]
          /\ UNCHANGED <<op, out, fd>>
  /\ UNCHANGED <<files, settingsFaultsLeft, requestsSeen>>

(* The new entry comes of the second read. *)
Changed(o) ==
  CASE o.kind = "save" -> WithProfile(file, o.id, o.value, o.activate)
    [] o.kind = "activate" -> WithActivated(file, o.id)
    [] o.kind = "delete" -> WithoutProfile(file, o.id)

readSecond(r) ==
  /\ phase[r] = "second" /\ file # Torn
  /\ IF op[r].kind = "save" \/ op[r].id \in Stored
     THEN /\ phase' = [phase EXCEPT ![r] = "open"]
          /\ out' = [out EXCEPT ![r] = Changed(op[r])]
          /\ UNCHANGED <<op, fd>>
     ELSE Done(r)
  /\ UNCHANGED <<files, settingsFaultsLeft, requestsSeen>>

writeOpen(r) ==
  /\ phase[r] = "open"
  /\ tmp' = Torn
  /\ fd' = [fd EXCEPT ![r] = "tmp"]
  /\ phase' = [phase EXCEPT ![r] = "fill"]
  /\ UNCHANGED <<file, op, out, settingsFaultsLeft, requestsSeen>>

(* What a file with contents c holds when e is written over it: two texts  *)
(* in one file need not be one.                                            *)
Over(c, e) == IF c = Torn THEN {e} ELSE {e, Torn}

(* Mutant: the file stays open. *)
writeFillOpen(r) ==
  /\ phase[r] = "fill"
  /\ tmp' \in Over(tmp, out[r])
  /\ phase' = [phase EXCEPT ![r] = "rename"]
  /\ UNCHANGED <<file, fd, op, out, settingsFaultsLeft, requestsSeen>>

writeFill(r) ==
  /\ phase[r] = "fill"
  /\ \/ fd[r] = "tmp" /\ tmp' \in Over(tmp, out[r]) /\ UNCHANGED file
     \/ fd[r] = "file" /\ file' \in Over(file, out[r]) /\ UNCHANGED tmp
     \/ fd[r] = "gone" /\ UNCHANGED files
  /\ fd' = [fd EXCEPT ![r] = "gone"]
  /\ phase' = [phase EXCEPT ![r] = "rename"]
  /\ UNCHANGED <<op, out, settingsFaultsLeft, requestsSeen>>

writeRename(r) ==
  /\ phase[r] = "rename" /\ tmp # Absent
  /\ file' = tmp
  /\ tmp' = Absent
  /\ phase' = [phase EXCEPT ![r] = "idle"]
  /\ op' = [op EXCEPT ![r] = Idle]
  /\ out' = [out EXCEPT ![r] = NoEntry]
  /\ fd' = [q \in Requests |-> IF fd[q] = "tmp" THEN "file" ELSE "gone"]
  /\ saved' = IF op[r].kind = "save" /\ ~overlapped
              THEN [saved EXCEPT ![op[r].id] = op[r].value] ELSE saved
  /\ UNCHANGED <<settingsFaultsLeft, given, overlapped>>

(* A torn file cannot be parsed, a printer to activate may be gone, the    *)
(* temporary file was renamed by another request, or a file operation      *)
(* fails: the request is rejected.                                         *)
Rejected(r) ==
  /\ \/ phase[r] \in {"current", "first", "second"} /\ file = Torn /\ UNCHANGED settingsFaultsLeft
     \/ phase[r] = "rename" /\ tmp = Absent /\ UNCHANGED settingsFaultsLeft
     \/ phase[r] # "idle" /\ settingsFaultsLeft > 0 /\ settingsFaultsLeft' = settingsFaultsLeft - 1
  /\ Done(r)
  /\ UNCHANGED <<files, requestsSeen>>

CrashInRequest ==
  /\ \E r \in Requests : phase[r] # "idle"
  /\ settingsFaultsLeft > 0 /\ settingsFaultsLeft' = settingsFaultsLeft - 1
  /\ phase' = [r \in Requests |-> "idle"]
  /\ op' = [r \in Requests |-> Idle]
  /\ out' = [r \in Requests |-> NoEntry]
  /\ fd' = [r \in Requests |-> "gone"]
  /\ UNCHANGED <<files, requestsSeen>>

SettingsNext ==
  \/ \E r \in Requests :
       \/ \E i \in Ids, v \in Values : saveConfiguration(r, i, v)
       \/ \E i \in Ids : activateConfiguration(r, i)
       \/ \E i \in Ids : deleteConfiguration(r, i)
       \/ readCurrent(r)
       \/ readFirst(r)
       \/ readSecond(r)
       \/ writeOpen(r)
       \/ writeFill(r)
       \/ writeRename(r)
       \/ Rejected(r)
  \/ CrashInRequest

SettingsSpec == SettingsInit /\ [][SettingsNext]_settingsVars
-----------------------------------------------------------------------------
Contents == Entry \cup {Torn, Absent}

(* Every variable has its type, and only a request that fills a file has   *)
(* one open.                                                               *)
SettingsTypeOK ==
  /\ file \in Contents \ {Absent} /\ tmp \in Contents
  /\ phase \in [Requests -> {"idle", "current", "first", "second", "open", "fill", "rename"}]
  /\ op \in [Requests -> Op]
  /\ out \in [Requests -> Entry]
  /\ fd \in [Requests -> {"tmp", "file", "gone"}]
  /\ settingsFaultsLeft \in 0..MaxSettingsFaults
  /\ given \in [Ids -> SUBSET Values]
  /\ saved \in [Ids -> Values \cup {NoValue}] /\ overlapped \in BOOLEAN
  /\ \A r \in Requests : fd[r] # "gone" => phase[r] = "fill"

(* However requests overlap, a file that can be read stores no printer     *)
(* twice, has one active printer, and the configuration the bridge checks  *)
(* its readiness with is the one it prints with.                           *)
ActiveAgrees == file # Torn => Agrees(file)

(* However requests overlap, a stored printer has a configuration that was *)
(* asked for that printer.                                                 *)
NothingInvented ==
  file # Torn =>
    \A k \in DOMAIN ProfilesOf(file) : ProfilesOf(file)[k].value \in given[ProfilesOf(file)[k].id]

(* As long as no two requests were under way at one time, a printer that   *)
(* was saved is stored with the configuration saved last, and stays so     *)
(* until it is saved or deleted again.                                     *)
SavedKept ==
  \A i \in Ids :
    saved[i] # NoValue => file # Torn /\ i \in Stored /\ ValueOf(ProfilesOf(file), i) = saved[i]

(* As long as no two requests were under way at one time, the settings     *)
(* change as SettingsPromise says, in the step of the rename: a crash or   *)
(* an error leaves the old settings or the new ones.                       *)
StoredNow == [i \in Stored |-> ValueOf(ProfilesOf(file), i)]

ActiveNow == IF file = Torn THEN NoId ELSE ActiveOf(file)

Promise == INSTANCE SettingsPromise WITH stored <- StoredNow, active <- ActiveNow

KeepsSettingsPromise ==
  Promise!Init /\ [][overlapped' \/ Promise!Next]_<<StoredNow, ActiveNow>>

(* What a request leaves behind makes sense to the next one and to the     *)
(* print: the file agrees with itself and with what was entered, and what  *)
(* was saved is in it.                                                     *)
SettingsMakeSense == ActiveAgrees /\ NothingInvented /\ SavedKept
=============================================================================
