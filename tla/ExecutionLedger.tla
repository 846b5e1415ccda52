-------------------------- MODULE ExecutionLedger --------------------------
(***************************************************************************)
(* The ledger file of print jobs (core/execution-ledger.ts): a sequence of *)
(* entries that record and prune read, change and write back without a     *)
(* lock, through one temporary file that all operations share.             *)
(*                                                                         *)
(* An operation keeps the file it opened: a rename moves the file, and     *)
(* what another operation still writes goes to the file it has open.       *)
(***************************************************************************)
EXTENDS Selection, FiniteSets

CONSTANTS OrderIds, Hashes,
          States,      \* the states recorded, of LocalJobState
          Recorders,   \* calls of record that can be under way at one time
          Pruners,     \* calls of prune, in competition with Recorders or not
          LedgerSize,    \* maxEntries of the constructor
          MaxClock,    \* bound: how far time goes
          MaxFileFaults, \* bound: crashes and file errors
          Torn,        \* contents that are not JSON, an empty file among them
          Absent, NoOrder

Ops == Recorders \cup Pruners

Entry == [job : OrderIds, hash : Hashes, state : States, at : 0..MaxClock]

ASSUME LedgerAssumption ==
  /\ LedgerSize \in Nat \ {0}
  /\ MaxClock \in Nat /\ MaxFileFaults \in Nat
  /\ {Torn, Absent} \cap Seq(Entry) = {} /\ Torn # Absent
  /\ NoOrder \notin OrderIds

VARIABLES
  file, tmp,   \* contents of the ledger file and of its temporary file
  doing,       \* doing[o]: the await operation o is at
  out,         \* out[o]: the entries it is going to write
  fd,          \* fd[o]: which file it writes to: the one named "tmp" or
               \*   "file" now, or one that is "gone"
  subject,     \* subject[o]: the job it records, NoOrder if it prunes
  blind,       \* operations that could not read the file
  clock,
  fileFaultsLeft,
  durable,     \* observation: durable[j]: the state of j whose record returned
               \*   last, "none" once j is being recorded anew
  younger,     \* observation: younger[j]: other jobs recorded after that
  lost         \* observation: jobs whose entries a blind operation has dropped

files == <<file, tmp>>
durability == <<durable, younger, lost>>
ledgerVars == <<file, tmp, doing, out, fd, subject, blind, clock, fileFaultsLeft, durable,
                younger, lost>>

LedgerInit ==
  /\ file = Absent /\ tmp = Absent
  /\ doing = [o \in Ops |-> "idle"]
  /\ out = [o \in Ops |-> <<>>]
  /\ fd = [o \in Ops |-> "gone"]
  /\ subject = [o \in Ops |-> NoOrder]
  /\ blind = {}
  /\ clock = 0
  /\ fileFaultsLeft = MaxFileFaults
  /\ durable = [j \in OrderIds |-> "none"]
  /\ younger = [j \in OrderIds |-> {}]
  /\ lost = {}
-----------------------------------------------------------------------------
(* slice(-maxEntries) *)
Newest(s) == SubSeq(s, IF Len(s) > LedgerSize THEN Len(s) - LedgerSize + 1 ELSE 1, Len(s))

(* A file that cannot be parsed, or is not there, counts as an empty one. *)
read == IF file \in {Torn, Absent} THEN <<>> ELSE Newest(file)

EntriesOf(s) == {s[i] : i \in 1..Len(s)}

OfOthers(j) == {x \in Entry : x.job # j}

WithRecord(seen, e) == Newest(Append(Selected(seen, OfOthers(e.job)), e))

(* Mutant: an old entry goes whatever its state. *)
SparedIfYoung(before) == {x \in Entry : x.at >= before}

Spared(before) == {x \in Entry : x.state = "ack_pending" \/ x.at >= before}

Pruned(seen, before) == Newest(Selected(seen, Spared(before)))

(* What a file holds when s is written over c. A longer text covers a      *)
(* shorter one; under a shorter text the tail of a longer one stays.       *)
Over(c, s) ==
  IF c = Torn \/ Len(c) < Len(s) THEN {s}
  ELSE IF Len(c) > Len(s) THEN {Torn}
  ELSE {s, Torn}
-----------------------------------------------------------------------------
(* o finds the entries of the file.  Any error of the file system counts as *)
(* no file: it then finds nothing, and goes on.                             *)
Finds(o, seen) ==
  \/ seen = read /\ UNCHANGED <<blind, fileFaultsLeft>>
  \/ /\ seen = <<>> /\ blind' = blind \cup {o}
     /\ fileFaultsLeft > 0 /\ fileFaultsLeft' = fileFaultsLeft - 1

Starts(o, j, s) ==
  /\ doing' = [doing EXCEPT ![o] = "open"]
  /\ out' = [out EXCEPT ![o] = s]
  /\ subject' = [subject EXCEPT ![o] = j]
  /\ UNCHANGED <<files, fd, clock>>

(* record reads the file; another hash under the same job ID makes it throw. *)
record(o, e) ==
  /\ o \in Recorders /\ doing[o] = "idle" /\ e.at = clock
  /\ \E seen \in {read, <<>>} :
       /\ Finds(o, seen)
       /\ \A x \in EntriesOf(seen) : x.job = e.job => x.hash = e.hash
       /\ Starts(o, e.job, WithRecord(seen, e))
  /\ durable' = [durable EXCEPT ![e.job] = "none"]
  /\ UNCHANGED <<younger, lost>>

prune(o, before) ==
  /\ o \in Pruners /\ doing[o] = "idle" /\ before <= clock
  /\ \E seen \in {read, <<>>} :
       Finds(o, seen) /\ Starts(o, NoOrder, Pruned(seen, before))
  /\ UNCHANGED durability

Done(o) ==
  /\ doing' = [doing EXCEPT ![o] = "idle"]
  /\ out' = [out EXCEPT ![o] = <<>>]
  /\ subject' = [subject EXCEPT ![o] = NoOrder]
  /\ blind' = blind \ {o}

(* Mutant: the ledger file itself is opened. *)
writeOpenInPlace(o) ==
  /\ doing[o] = "open"
  /\ file' = Torn
  /\ tmp' = Absent
  /\ fd' = [fd EXCEPT ![o] = "file"]
  /\ doing' = [doing EXCEPT ![o] = "fill"]
  /\ UNCHANGED <<out, subject, blind, clock, fileFaultsLeft, durability>>

(* writeFile creates the temporary file, or empties the one that is there. *)
writeOpen(o) ==
  /\ doing[o] = "open"
  /\ tmp' = Torn
  /\ fd' = [fd EXCEPT ![o] = "tmp"]
  /\ doing' = [doing EXCEPT ![o] = "fill"]
  /\ UNCHANGED <<file, out, subject, blind, clock, fileFaultsLeft, durability>>

(* Mutant: the file is not closed before it is renamed. *)
writeFillOpen(o) ==
  /\ doing[o] = "fill"
  /\ tmp' \in Over(tmp, out[o])
  /\ doing' = [doing EXCEPT ![o] = "rename"]
  /\ UNCHANGED <<file, fd, out, subject, blind, clock, fileFaultsLeft, durability>>

writeFill(o) ==
  /\ doing[o] = "fill"
  /\ \/ fd[o] = "tmp" /\ tmp' \in Over(tmp, out[o]) /\ UNCHANGED file
     \/ fd[o] = "file" /\ file' \in Over(file, out[o]) /\ UNCHANGED tmp
     \/ fd[o] = "gone" /\ UNCHANGED files
  /\ fd' = [fd EXCEPT ![o] = "gone"]
  /\ doing' = [doing EXCEPT ![o] = "rename"]
  /\ UNCHANGED <<out, subject, blind, clock, fileFaultsLeft, durability>>

(* rename publishes the temporary file, whoever wrote it; record returns. *)
writeRename(o) ==
  /\ doing[o] = "rename" /\ tmp # Absent
  /\ file' = tmp
  /\ tmp' = Absent
  /\ fd' = [p \in Ops |-> IF fd[p] = "tmp" THEN "file" ELSE "gone"]
  /\ Done(o)
  /\ IF subject[o] = NoOrder
     THEN UNCHANGED <<durable, younger>>
     ELSE LET j == subject[o] IN
          /\ durable' = [durable EXCEPT ![j] =
               IF \E p \in Ops \ {o} : subject[p] = j THEN "none" ELSE out[o][Len(out[o])].state]
          /\ younger' = [k \in OrderIds |-> IF k = j THEN {} ELSE younger[k] \cup {j}]
  /\ lost' = (IF o \in blind THEN OrderIds ELSE lost) \ {subject[o]}
  /\ UNCHANGED <<clock, fileFaultsLeft>>

(* The file was renamed away by another operation, or a file operation     *)
(* fails: record throws.                                                   *)
writeFails(o) ==
  /\ \/ doing[o] = "rename" /\ tmp = Absent /\ UNCHANGED fileFaultsLeft
     \/ doing[o] # "idle" /\ fileFaultsLeft > 0 /\ fileFaultsLeft' = fileFaultsLeft - 1
  /\ fd' = [fd EXCEPT ![o] = "gone"]
  /\ Done(o)
  /\ UNCHANGED <<files, clock, durability>>

(* The process dies; what is on disk stays. *)
LedgerCrash ==
  /\ \E o \in Ops : doing[o] # "idle"
  /\ fileFaultsLeft > 0 /\ fileFaultsLeft' = fileFaultsLeft - 1
  /\ doing' = [o \in Ops |-> "idle"]
  /\ out' = [o \in Ops |-> <<>>]
  /\ fd' = [o \in Ops |-> "gone"]
  /\ subject' = [o \in Ops |-> NoOrder]
  /\ blind' = {}
  /\ UNCHANGED <<files, clock, durability>>

Tick ==
  /\ clock < MaxClock
  /\ clock' = clock + 1
  /\ UNCHANGED <<files, doing, out, fd, subject, blind, fileFaultsLeft, durability>>

LedgerNext ==
  \/ \E o \in Ops :
       \/ \E e \in Entry : record(o, e)
       \/ \E before \in 0..MaxClock : prune(o, before)
       \/ writeOpen(o)
       \/ writeFill(o)
       \/ writeRename(o)
       \/ writeFails(o)
  \/ LedgerCrash
  \/ Tick

LedgerSpec == LedgerInit /\ [][LedgerNext]_ledgerVars
-----------------------------------------------------------------------------
Contents == {Torn, Absent} \cup Seq(Entry)

(* Every variable has its type, an operation writes only while it has a    *)
(* file open, and only one under way has failed to read.                   *)
LedgerTypeOK ==
  /\ file \in Contents /\ tmp \in Contents
  /\ doing \in [Ops -> {"idle", "open", "fill", "rename"}]
  /\ out \in [Ops -> Seq(Entry)]
  /\ fd \in [Ops -> {"tmp", "file", "gone"}]
  /\ subject \in [Ops -> OrderIds \cup {NoOrder}]
  /\ clock \in 0..MaxClock
  /\ fileFaultsLeft \in 0..MaxFileFaults
  /\ durable \in [OrderIds -> States \cup {"none"}]
  /\ younger \in [OrderIds -> SUBSET OrderIds]
  /\ lost \subseteq OrderIds
  /\ blind \subseteq Ops
  /\ \A o \in Ops : /\ fd[o] # "gone" => doing[o] = "fill"
                    /\ doing[o] = "idle" => o \notin blind

(* A printed job whose acknowledgement is pending is in the ledger from    *)
(* when its record has returned until it is recorded again, whatever is    *)
(* pruned, fails or crashes, unless at least LedgerSize other jobs were    *)
(* recorded later, or a record or prune of another job could not read the  *)
(* file and has overwritten it (`lost`): what it finds then is nothing.    *)
PendingKept ==
  \A j \in OrderIds :
    durable[j] = "ack_pending" =>
      \/ \E x \in EntriesOf(read) : x.job = j /\ x.state = "ack_pending"
      \/ Cardinality(younger[j]) >= LedgerSize
      \/ j \in lost

(* With one operation at a time the file changes as LedgerPromise says,    *)
(* in the one step of the rename: a crash or a failing write at any point  *)
(* leaves all entries or all of the new ones, never half a file; entries   *)
(* are forgotten only when the ledger is full, or all at once by an        *)
(* operation that could not read them.                                     *)
LedgerPromised ==
  INSTANCE LedgerPromise
    WITH Entries <- Entry, MaxEntries <- LedgerSize,
         known <- EntriesOf(read), unread <- blind # {}

KeepsLedgerPromise == LedgerPromised!Spec
=============================================================================
