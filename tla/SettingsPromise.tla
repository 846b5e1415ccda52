-------------------------- MODULE SettingsPromise --------------------------
(***************************************************************************)
(* What the printer settings promise: a table of printers with one active  *)
(* printer among them, changed by one request at a time, all or nothing.   *)
(***************************************************************************)
EXTENDS Functions

CONSTANTS Ids, Values, NoId

VARIABLES stored,   \* the configuration of each stored printer
          active    \* the printer that kitchen orders go to, or NoId

Init ==
  /\ \E S \in SUBSET Ids : stored \in [S -> Values]
  /\ IF DOMAIN stored = {} THEN active = NoId ELSE active \in DOMAIN stored

(* A new printer becomes the active one, an old one keeps its role. *)
Save(i, v) ==
  /\ stored' = [j \in DOMAIN stored \cup {i} |-> IF j = i THEN v ELSE stored[j]]
  /\ active' = IF i \in DOMAIN stored THEN active ELSE i

Activate(i) == i \in DOMAIN stored /\ active' = i /\ UNCHANGED stored

(* Another printer takes over only from an active one that is deleted. *)
Delete(i) ==
  /\ i \in DOMAIN stored
  /\ stored' = Restrict(stored, DOMAIN stored \ {i})
  /\ IF DOMAIN stored = {i} THEN active' = NoId
     ELSE IF active = i THEN active' \in DOMAIN stored \ {i}
     ELSE active' = active

Next ==
  \E i \in Ids :
    \/ \E v \in Values : Save(i, v)
    \/ Activate(i)
    \/ Delete(i)

Spec == Init /\ [][Next]_<<stored, active>>
=============================================================================
