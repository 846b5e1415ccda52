-------------------------- MODULE PrinterProfiles --------------------------
(***************************************************************************)
(* What integrations/adapter-config-store.ts computes from the entry of    *)
(* the printer adapter in the configuration file.  An entry is the value   *)
(* the route prints with, the printers stored (profiles, in their order)   *)
(* and the ID of the active one.  An entry of an older version of the      *)
(* program has a value only.                                               *)
(***************************************************************************)
EXTENDS Selection, Functions

CONSTANTS Ids, Values, NoValue, NoId,
          Primary   \* the ID under which an older entry is read

ASSUME ProfilesAssumption ==
  /\ Primary \in Ids /\ NoId \notin Ids
  /\ NoValue \notin Values

Profile == [id : Ids, value : Values]

Entry == [value : Values \cup {NoValue}, profiles : Seq(Profile), active : Ids \cup {NoId}]

(* A file that is not there and one without an entry read alike. *)
NoEntry == [value |-> NoValue, profiles |-> <<>>, active |-> NoId]

Older(v) == [value |-> v, profiles |-> <<>>, active |-> NoId]
-----------------------------------------------------------------------------
IdsOf(ps) == {ps[k].id : k \in DOMAIN ps}

ValueOf(ps, i) == Selected(ps, [id : {i}, value : Values])[1].value

(* profiles(): the printers of an entry, and the active one, which is the  *)
(* first if the entry names none of them.                                  *)
ProfilesOf(e) ==
  IF e.value = NoValue THEN <<>>
  ELSE IF e.profiles # <<>> THEN e.profiles
  ELSE <<[id |-> IF e.active = NoId THEN Primary ELSE e.active, value |-> e.value]>>

ActiveOf(e) ==
  LET ps == ProfilesOf(e) IN
  IF ps = <<>> THEN NoId
  ELSE IF e.active \in IdsOf(ps) THEN e.active
  ELSE ps[1].id

(* read(): the configuration that readiness and diagnostics look at. *)
ReadOf(e) == e.value

WithActive(ps, i) == [value |-> ValueOf(ps, i), profiles |-> ps, active |-> i]

Others(ps, i) == Selected(ps, [id : Ids \ {i}, value : Values])

(* writeProfile: the printer is stored at the end of the list. *)
WithProfile(e, i, v, activate) ==
  WithActive(Append(Others(ProfilesOf(e), i), [id |-> i, value |-> v]),
             IF activate \/ ActiveOf(e) = NoId THEN i ELSE ActiveOf(e))

(* Mutant: the value stays that of the printer active before. *)
WithActivatedStale(e, i) == [value |-> ReadOf(e), profiles |-> ProfilesOf(e), active |-> i]

(* activateProfile, for a printer that is stored *)
WithActivated(e, i) == WithActive(ProfilesOf(e), i)

(* Mutant: the first of the others becomes active in any case. *)
WithoutProfileFirst(e, i) ==
  LET ps == Others(ProfilesOf(e), i) IN
  IF ps = <<>> THEN NoEntry ELSE WithActive(ps, ps[1].id)

(* removeProfile: the first of the others follows an active printer; with  *)
(* the last printer the entry goes.                                        *)
WithoutProfile(e, i) ==
  LET ps == Others(ProfilesOf(e), i) IN
  IF ps = <<>> THEN NoEntry
  ELSE WithActive(ps, IF ActiveOf(e) \in IdsOf(ps) THEN ActiveOf(e) ELSE ps[1].id)

(* One printer is active among those stored, no ID is stored twice, and    *)
(* what read() returns is the configuration of the active printer.         *)
Agrees(e) ==
  LET ps == ProfilesOf(e) IN
  /\ IsInjective([k \in DOMAIN ps |-> ps[k].id])
  /\ ps # <<>> => ActiveOf(e) \in IdsOf(ps) /\ ReadOf(e) = ValueOf(ps, ActiveOf(e))
=============================================================================
