--------------------------- MODULE LedgerPromise ---------------------------
(***************************************************************************)
(* What the ledger of print jobs promises to the executor: records are     *)
(* taken over at once or not at all, a full ledger forgets what has been   *)
(* untouched longest, and pruning spares pending acknowledgements.  The    *)
(* exception is an operation that could not read: it forgets everything.   *)
(***************************************************************************)
EXTENDS Naturals, FiniteSets

CONSTANTS Entries,     \* records with a job, a hash, a state and a time
          MaxEntries

VARIABLES known,   \* the entries a restart would find
          unread   \* the operation under way could not read them

ledger == <<known, unread>>

Init == known = {} /\ unread = FALSE

Record(e) ==
  LET kept == {k \in known : k.job # e.job} IN
  \/ Cardinality(kept) < MaxEntries /\ known' = kept \cup {e}
  \/ /\ Cardinality(kept) = MaxEntries
     /\ \E oldest \in kept :
          /\ \A k \in kept : oldest.at <= k.at
          /\ known' = (kept \ {oldest}) \cup {e}

Prune(before) == known' = {k \in known : k.state = "ack_pending" \/ k.at >= before}

Remembers ==
  /\ ~unread /\ UNCHANGED unread
  /\ \E e \in Entries : Record(e) \/ Prune(e.at)

CannotRead == ~unread /\ unread' = TRUE /\ UNCHANGED known

(* The operation ends, having written nothing but its own record, or not   *)
(* having written.                                                         *)
Forgets ==
  /\ unread /\ unread' = FALSE
  /\ \/ UNCHANGED known
     \/ known' = {}
     \/ \E e \in Entries : known' = {e}

Next == Remembers \/ CannotRead \/ Forgets

Spec == Init /\ [][Next]_ledger
=============================================================================
