------------------------ MODULE LedgerProofs ------------------------
(***************************************************************************)
(* Proofs about the execution ledger (src/src/core/execution-ledger.ts).   *)
(*                                                                         *)
(* The type invariant holds with any number of operations at a time:       *)
(* LedgerInv adds to it only that record never writes an empty list.       *)
(*                                                                         *)
(* That a pending entry is not lost (PendingKept), and that the ledger     *)
(* keeps its promise, is proved with one operation at a time (Alone), as   *)
(* with one print loop whose start-up prune is over.  With two at a time   *)
(* it is false: record and prune read the file, compute, and write back    *)
(* what they computed, and the later of two overwrites the earlier.        *)
(*                                                                         *)
(* AloneInv is the invariant: the file is tidy, with one entry for each    *)
(* job in the order of the times; an operation under way writes what it is *)
(* to make of the file, or of nothing if it could not read; and a pending  *)
(* entry is in the file, with nothing behind it but entries of jobs        *)
(* recorded later, or as many as the ledger holds were recorded after it,  *)
(* or an operation that could not read has dropped it.                     *)
(***************************************************************************)
EXTENDS MCDelivery, PrintExecutorProofs, SelectionProofs, FiniteSetTheorems
-----------------------------------------------------------------------------
(***************************************************************************)
(* The lists of entries.  A tidy one is short, has one entry for each job  *)
(* and the entries in the order of their times.                            *)
(***************************************************************************)
OneEach(s) == \A k, m \in 1..Len(s) : s[k].job = s[m].job => k = m

InTime(s) == \A k, m \in 1..Len(s) : k <= m => s[k].at <= s[m].at

Tidy(s) == Len(s) <= LedgerSize /\ OneEach(s) /\ InTime(s)

Until(s, t) == \A k \in 1..Len(s) : s[k].at <= t

(* The pending entry of a job, with nothing behind it but entries of jobs  *)
(* recorded later                                                          *)
HeldAt(s, j, Later, p) ==
  /\ s[p].job = j /\ s[p].state = "ack_pending"
  /\ \A q \in 1..Len(s) : q > p => s[q].job \in Later

Held(s, j, Later) == \E p \in 1..Len(s) : HeldAt(s, j, Later, p)

(***************************************************************************)
(* While one operation at a time is under way, the file is tidy, the       *)
(* operation writes what the entries then are to become, its temporary     *)
(* file holds what it has filled in, and a pending entry is pushed out     *)
(* only by enough others.                                                  *)
(***************************************************************************)
TidyFile == file # Torn /\ Tidy(read) /\ Until(read, clock)

(* What an operation under way has found: what is still in the file, or    *)
(* nothing if it could not read                                            *)
Found(o) == IF o \in blind THEN <<>> ELSE read

OwnTmp(o) ==
  /\ doing[o] = "fill" => fd[o] = "tmp" /\ tmp = Torn
  /\ doing[o] = "rename" => tmp = out[o]

Plans(o) ==
  IF subject[o] = NoOrder
  THEN \E before \in 0..MaxClock : out[o] = Pruned(Found(o), before)
  ELSE \E e \in Entry :
         /\ e.job = subject[o] /\ e.at <= clock /\ Until(Found(o), e.at)
         /\ out[o] = WithRecord(Found(o), e)

PendingHeld ==
  \A j \in OrderIds :
    /\ IsFiniteSet(younger[j])
    /\ durable[j] = "ack_pending" =>
         \/ Held(read, j, younger[j])
         \/ Cardinality(younger[j]) >= LedgerSize
         \/ j \in lost

AloneInv ==
  /\ TidyFile
  /\ \A o \in Ops : OwnTmp(o) /\ (doing[o] # "idle" => Plans(o))
  /\ PendingHeld
-----------------------------------------------------------------------------
(* The fields of the entries of a list *)
LEMMA EntryList ==
  ASSUME NEW s \in Seq(Entry)
  PROVE  /\ Len(s) \in Nat /\ DOMAIN s = 1..Len(s)
         /\ \A k \in 1..Len(s) :
              /\ s[k] \in Entry
              /\ s[k].job \in OrderIds /\ s[k].state \in States /\ s[k].at \in 0..MaxClock
<1>1. Len(s) \in Nat /\ DOMAIN s = 1..Len(s)
  BY LenProperties
<1>2. \A k \in 1..Len(s) : s[k] \in Entry
  BY ElementOfSeq
<1>3. \A x \in Entry : x.job \in OrderIds /\ x.state \in States /\ x.at \in 0..MaxClock
  BY DEF Entry
<1>4. QED
  BY <1>1, <1>2, <1>3

(* slice(-maxEntries): the last entries, all of them if there are few *)
LEMMA NewestIs ==
  ASSUME NEW s \in Seq(Entry)
  PROVE  \E new \in Seq(Entry), d \in Nat :
           /\ Newest(s) = new /\ d + Len(new) = Len(s) /\ Len(new) <= LedgerSize
           /\ d > 0 => Len(new) = LedgerSize
           /\ \A k \in 1..Len(new) : new[k] = s[k + d]
<1>1. PICK l \in Nat : l = Len(s)
  BY EntryList
<1>2. LedgerSize \in Nat /\ LedgerSize > 0
  BY LedgerAssumption
<1>3. PICK d \in Nat : d = IF l > LedgerSize THEN l - LedgerSize ELSE 0
  <2>1. (IF l > LedgerSize THEN l - LedgerSize ELSE 0) \in Nat
    BY <1>2
  <2>2. QED
    BY <2>1
<1>4. (IF Len(s) > LedgerSize THEN Len(s) - LedgerSize + 1 ELSE 1) = d + 1
  BY <1>1, <1>2, <1>3
<1>5. Newest(s) = SubSeq(s, d + 1, l)
  BY <1>1, <1>4 DEF Newest
<1>6. d <= l /\ d + 1 \in Nat /\ l - d \in Nat
  BY <1>2, <1>3
<1>7. PICK new : new = SubSeq(s, d + 1, l)
  OBVIOUS
<1>8. new \in Seq(Entry)
  <2>1. \A k \in (d + 1)..l : s[k] \in Entry
    <3>1. \A k \in (d + 1)..l : k \in 1..l
      BY <1>6
    <3>2. QED
      BY <1>1, <3>1, EntryList
  <2>2. d + 1 \in 1..(l + 1)
    BY <1>6
  <2>3. QED
    BY <1>1, <1>6, <1>7, <2>1, <2>2, SubSeqProperties
<1>9. Len(new) = l - d /\ \A k \in 1..(l - d) : new[k] = s[k + d]
  <2>1. d + 1 \in 1..(l + 1) /\ l \in d..l
    BY <1>6
  <2>2. Len(new) = (IF d + 1 <= l THEN l - (d + 1) + 1 ELSE 0)
    BY <1>1, <1>6, <1>7, <2>1, SubSeqProperties
  <2>3. Len(new) = l - d
    BY <1>6, <2>2
  <2>4. \A k \in 1..Len(new) : new[k] = s[(d + 1) + k - 1]
    BY <1>1, <1>6, <1>7, <2>1, <2>3, SubSeqProperties
  <2>5. \A k \in 1..(l - d) : (d + 1) + k - 1 = k + d
    BY <1>6
  <2>6. QED
    BY <2>3, <2>4, <2>5
<1>10. QED
  <2>1. d + (l - d) = l /\ l - d <= LedgerSize /\ (d > 0 => l - d = LedgerSize)
    BY <1>2, <1>3
  <2>2. QED
    BY <1>1, <1>5, <1>7, <1>8, <1>9, <2>1
-----------------------------------------------------------------------------
(* The places 1..n of a list are finitely many, n of them. *)
LEMMA Places ==
  ASSUME NEW n \in Nat
  PROVE  IsFiniteSet(1..n) /\ Cardinality(1..n) = n
<1>1. 1 \in Int /\ n \in Int
  OBVIOUS
<1>2. IsFiniteSet(1..n) /\ Cardinality(1..n) = IF 1 > n THEN 0 ELSE n - 1 + 1
  BY <1>1, FS_Interval
<1>3. (IF 1 > n THEN 0 ELSE n - 1 + 1) = n
  OBVIOUS
<1>4. QED
  BY <1>2, <1>3

(* filter(): a tidy list stays tidy, a pending entry that is wanted stays, *)
(* and so does what is behind it.                                          *)
LEMMA FilterIs ==
  ASSUME NEW s \in Seq(Entry), NEW Wanted
  PROVE  \E f \in Seq(Entry) :
           /\ f = Selected(s, Wanted) /\ Len(f) <= Len(s)
           /\ OneEach(s) => OneEach(f)
           /\ InTime(s) => InTime(f)
           /\ \A t \in Nat : Until(s, t) => Until(f, t)
           /\ \A k \in 1..Len(f) : f[k] \in Wanted /\ \E m \in 1..Len(s) : s[m] = f[k]
           /\ \A m \in 1..Len(s) : s[m] \in Wanted => \E k \in 1..Len(f) : f[k] = s[m]
           /\ \A j, Later : \A p \in 1..Len(s) :
                HeldAt(s, j, Later, p) /\ s[p] \in Wanted => Held(f, j, Later)
<1>1. PICK f : f = Selected(s, Wanted)
  OBVIOUS
<1>2. f \in Seq(Entry)
  BY <1>1, SelectedPlaces
<1>3. PICK at : SelectedFrom(s, Wanted, f, Len(s), at)
  BY <1>1, SelectedPlaces
<1>4. PICK l \in Nat, n \in Nat : l = Len(s) /\ n = Len(f)
  BY <1>2, EntryList
<1>5. at \in [1..n -> 1..l]
  BY <1>3, <1>4 DEF SelectedFrom
<1>6. \A k, m \in 1..n : k < m => at[k] < at[m]
  BY <1>3, <1>4 DEF SelectedFrom
<1>7. \A k \in 1..n : f[k] = s[at[k]] /\ f[k] \in Wanted
  BY <1>3, <1>4 DEF SelectedFrom
<1>8. \A m \in 1..l : s[m] \in Wanted => \E k \in 1..n : at[k] = m
  BY <1>3, <1>4 DEF SelectedFrom
<1>9. \A k \in 1..n : at[k] \in 1..l
  BY <1>5
<1>10. \A k, m \in 1..n : at[k] = at[m] => k = m
  <2>1. \A k, m \in 1..n : k = m \/ k < m \/ m < k
    BY <1>4
  <2>2. \A k \in 1..n : at[k] \in Nat
    BY <1>4, <1>9
  <2>3. \A k, m \in 1..n : k < m => at[k] # at[m]
    BY <1>6, <2>2
  <2>4. QED
    BY <2>1, <2>3
<1>11. n <= l
  <2>1. at \in Injection(1..n, 1..l)
    BY <1>5, <1>10 DEF Injection, IsInjective
  <2>2. IsFiniteSet(1..l) /\ Cardinality(1..l) = l /\ Cardinality(1..n) = n
    BY <1>4, Places
  <2>3. QED
    BY <2>1, <2>2, FS_Injection
<1>12. OneEach(s) => OneEach(f)
  BY <1>4, <1>7, <1>9, <1>10 DEF OneEach
<1>13. ASSUME InTime(s)
       PROVE  InTime(f)
  <2>1. ASSUME NEW k \in 1..n, NEW m \in 1..n, k <= m
        PROVE  f[k].at <= f[m].at
    <3>1. at[k] <= at[m]
      <4>1. k = m \/ k < m
        BY <1>4, <2>1
      <4>2. at[k] \in Nat /\ at[m] \in Nat
        BY <1>4, <1>9
      <4>3. QED
        BY <1>6, <4>1, <4>2
    <3>2. QED
      BY <1>4, <1>7, <1>9, <1>13, <3>1 DEF InTime
  <2>2. QED
    BY <1>4, <2>1 DEF InTime
<1>14. \A t \in Nat : Until(s, t) => Until(f, t)
  BY <1>4, <1>7, <1>9 DEF Until
<1>15. ASSUME NEW j, NEW Later, NEW p \in 1..l, HeldAt(s, j, Later, p), s[p] \in Wanted
       PROVE  Held(f, j, Later)
  <2>1. PICK k \in 1..n : at[k] = p
    BY <1>8, <1>15
  <2>2. f[k].job = j /\ f[k].state = "ack_pending"
    BY <1>7, <1>15, <2>1 DEF HeldAt
  <2>3. ASSUME NEW q \in 1..n, q > k
        PROVE  f[q].job \in Later
    <3>1. k < q
      BY <1>4, <2>3
    <3>2. at[q] > p
      <4>1. at[k] < at[q] /\ at[q] \in Nat /\ p \in Nat
        BY <1>4, <1>6, <1>9, <3>1
      <4>2. QED
        BY <2>1, <4>1
    <3>3. QED
      BY <1>4, <1>7, <1>9, <1>15, <3>2 DEF HeldAt
  <2>4. QED
    BY <1>4, <2>2, <2>3 DEF Held, HeldAt
<1>16. \A k \in 1..n : f[k] \in Wanted /\ \E m \in 1..l : s[m] = f[k]
  BY <1>7, <1>9
<1>17. \A m \in 1..l : s[m] \in Wanted => \E k \in 1..n : f[k] = s[m]
  BY <1>7, <1>8
<1>18. QED
  BY <1>1, <1>2, <1>4, <1>11, <1>12, <1>13, <1>14, <1>15, <1>16, <1>17

(* slice(-maxEntries) keeps a list tidy; a pending entry that it cuts off  *)
(* had as many entries of other jobs behind it as the list may have.       *)
LEMMA NewestKeeps ==
  ASSUME NEW s \in Seq(Entry), OneEach(s), InTime(s)
  PROVE  \E new \in Seq(Entry) :
           /\ new = Newest(s) /\ Tidy(new)
           /\ Len(s) <= LedgerSize => new = s
           /\ \A t \in Nat : Until(s, t) => Until(new, t)
           /\ \A j, Later :
                Held(s, j, Later) /\ IsFiniteSet(Later) =>
                  Held(new, j, Later) \/ Cardinality(Later) >= LedgerSize
<1>1. PICK new \in Seq(Entry), d \in Nat :
        /\ Newest(s) = new /\ d + Len(new) = Len(s) /\ Len(new) <= LedgerSize
        /\ d > 0 => Len(new) = LedgerSize
        /\ \A k \in 1..Len(new) : new[k] = s[k + d]
  BY NewestIs
<1>2. PICK l \in Nat, n \in Nat : l = Len(s) /\ n = Len(new)
  BY EntryList
<1>3. d + n = l /\ (d > 0 => n = LedgerSize) /\ n <= LedgerSize
  BY <1>1, <1>2
<1>4. \A k \in 1..n : k + d \in 1..l /\ new[k] = s[k + d]
  BY <1>1, <1>2, <1>3
<1>5. OneEach(new)
  <2>1. \A k, m \in 1..n : k + d = m + d => k = m
    BY <1>2
  <2>2. QED
    BY <1>2, <1>4, <2>1 DEF OneEach
<1>6. InTime(new)
  <2>1. \A k, m \in 1..n : k <= m => k + d <= m + d
    BY <1>2
  <2>2. QED
    BY <1>2, <1>4, <2>1 DEF InTime
<1>7. \A t \in Nat : Until(s, t) => Until(new, t)
  BY <1>2, <1>4 DEF Until
<1>8. ASSUME l <= LedgerSize
      PROVE  new = s
  <2>1. d = 0
    BY <1>3, <1>8, LedgerAssumption
  <2>2. Len(new) = Len(s) /\ \A k \in 1..Len(new) : new[k] = s[k]
    BY <1>1, <1>2, <1>3, <2>1
  <2>3. QED
    BY <2>2, SeqEqual
<1>9. ASSUME NEW j, NEW Later, IsFiniteSet(Later), NEW p \in 1..l, HeldAt(s, j, Later, p),
             ~Held(new, j, Later)
      PROVE  Cardinality(Later) >= LedgerSize
  <2>1. p <= d
    <3>1. ASSUME p > d
          PROVE  FALSE
      <4>1. PICK k \in 1..n : k + d = p
        <5>1. p - d \in 1..n /\ (p - d) + d = p
          BY <1>2, <1>3, <3>1
        <5>2. QED
          BY <5>1
      <4>2. HeldAt(new, j, Later, k)
        <5>1. new[k] = s[p]
          BY <1>4, <4>1
        <5>2. \A q \in 1..n : q > k => q + d > p
          BY <1>2, <4>1
        <5>3. QED
          BY <1>2, <1>4, <1>9, <5>1, <5>2 DEF HeldAt
      <4>3. QED
        BY <1>2, <1>9, <4>2 DEF Held
    <3>2. QED
      BY <1>2, <3>1
  <2>2. n = LedgerSize
    BY <1>2, <1>3, <2>1
  <2>3. PICK jobs : jobs = [k \in 1..n |-> new[k].job]
    OBVIOUS
  <2>4. \A k \in 1..n : jobs[k] \in Later
    <3>1. \A k \in 1..n : k + d > p
      BY <1>2, <2>1
    <3>2. QED
      BY <1>2, <1>4, <1>9, <2>3, <3>1 DEF HeldAt
  <2>5. jobs \in Injection(1..n, Later)
    BY <1>2, <1>5, <2>3, <2>4 DEF Injection, IsInjective, OneEach
  <2>6. Cardinality(1..n) = n /\ Cardinality(Later) \in Nat
    BY <1>2, <1>9, Places, FS_CardinalityType
  <2>7. Cardinality(1..n) <= Cardinality(Later)
    BY <1>9, <2>5, FS_Injection
  <2>8. QED
    BY <1>2, <2>2, <2>6, <2>7
<1>10. \A j, Later :
         Held(s, j, Later) /\ IsFiniteSet(Later) =>
           Held(new, j, Later) \/ Cardinality(Later) >= LedgerSize
  BY <1>2, <1>9 DEF Held
<1>11. Tidy(new)
  BY <1>2, <1>3, <1>5, <1>6 DEF Tidy
<1>12. QED
  BY <1>1, <1>2, <1>7, <1>8, <1>10, <1>11
-----------------------------------------------------------------------------
(* A younger entry of another job can be put at the end of a list. *)
LEMMA OneMoreEntry ==
  ASSUME NEW s \in Seq(Entry), OneEach(s), InTime(s), NEW e \in Entry, Until(s, e.at),
         \A k \in 1..Len(s) : s[k].job # e.job
  PROVE  \E more \in Seq(Entry) :
           /\ more = Append(s, e) /\ Len(more) = Len(s) + 1 /\ more[Len(s) + 1] = e
           /\ \A k \in 1..Len(s) : more[k] = s[k]
           /\ OneEach(more) /\ InTime(more)
           /\ \A t \in Nat : Until(s, t) /\ e.at <= t => Until(more, t)
           /\ \A j, Later : Held(s, j, Later) => Held(more, j, Later \cup {e.job})
           /\ \A Later : e.state = "ack_pending" => Held(more, e.job, Later)
<1>1. PICK l \in Nat : l = Len(s)
  BY EntryList
<1>2. PICK more : more = Append(s, e)
  OBVIOUS
<1>3. /\ more \in Seq(Entry) /\ Len(more) = l + 1
      /\ \A k \in 1..l : more[k] = s[k]
      /\ more[l + 1] = e
  BY <1>1, <1>2, AppendProperties
<1>4. \A k \in 1..(l + 1) : k \in 1..l \/ k = l + 1
  BY <1>1
<1>5. l + 1 \in 1..(l + 1) /\ \A k \in 1..l : k \in 1..(l + 1) /\ k < l + 1
  BY <1>1
<1>6. OneEach(more)
  <2>1. ASSUME NEW k \in 1..(l + 1), NEW m \in 1..(l + 1), more[k].job = more[m].job
        PROVE  k = m
    <3>1. CASE k \in 1..l /\ m \in 1..l
      BY <1>1, <1>3, <2>1, <3>1 DEF OneEach
    <3>2. CASE k = l + 1 \/ m = l + 1
      BY <1>1, <1>3, <1>4, <2>1, <3>2
    <3>3. QED
      BY <1>4, <3>1, <3>2
  <2>2. QED
    BY <1>3, <2>1 DEF OneEach
<1>7. e.at \in Nat
  BY DEF Entry
<1>8. InTime(more)
  <2>1. ASSUME NEW k \in 1..(l + 1), NEW m \in 1..(l + 1), k <= m
        PROVE  more[k].at <= more[m].at
    <3>1. CASE k \in 1..l /\ m \in 1..l
      BY <1>1, <1>3, <2>1, <3>1 DEF InTime
    <3>2. CASE k \in 1..l /\ m = l + 1
      BY <1>1, <1>3, <3>2 DEF Until
    <3>3. CASE k = l + 1
      <4>1. m = l + 1
        BY <1>1, <2>1, <3>3
      <4>2. QED
        BY <1>3, <1>7, <3>3, <4>1
    <3>4. QED
      BY <1>4, <3>1, <3>2, <3>3
  <2>2. QED
    BY <1>3, <2>1 DEF InTime
<1>9. \A t \in Nat : Until(s, t) /\ e.at <= t => Until(more, t)
  BY <1>1, <1>3, <1>4 DEF Until
<1>10. ASSUME NEW j, NEW Later, NEW p \in 1..l, HeldAt(s, j, Later, p)
       PROVE  Held(more, j, Later \cup {e.job})
  <2>1. \A q \in 1..(l + 1) : q > p => more[q].job \in Later \cup {e.job}
    BY <1>1, <1>3, <1>4, <1>10 DEF HeldAt
  <2>2. HeldAt(more, j, Later \cup {e.job}, p) /\ p \in 1..(l + 1)
    BY <1>3, <1>5, <1>10, <2>1 DEF HeldAt
  <2>3. QED
    BY <1>3, <2>2 DEF Held
<1>11. ASSUME NEW Later, e.state = "ack_pending"
       PROVE  Held(more, e.job, Later)
  <2>1. \A q \in 1..(l + 1) : ~(q > l + 1)
    BY <1>1
  <2>2. HeldAt(more, e.job, Later, l + 1)
    BY <1>3, <1>11, <2>1 DEF HeldAt
  <2>3. QED
    BY <1>3, <1>5, <2>2 DEF Held
<1>12. \A j, Later : Held(s, j, Later) => Held(more, j, Later \cup {e.job})
  BY <1>1, <1>10 DEF Held
<1>13. QED
  BY <1>1, <1>2, <1>3, <1>6, <1>8, <1>9, <1>11, <1>12

(* What record makes of the list *)
LEMMA RenewedIs ==
  ASSUME NEW s \in Seq(Entry), Tidy(s), NEW e \in Entry, Until(s, e.at)
  PROVE  \E new \in Seq(Entry) :
           /\ new = WithRecord(s, e) /\ Tidy(new)
           /\ Len(new) > 0 /\ new[Len(new)] = e
           /\ \A t \in Nat : Until(s, t) /\ e.at <= t => Until(new, t)
           /\ \A j \in OrderIds : \A Later :
                j # e.job /\ Held(s, j, Later) /\ IsFiniteSet(Later) =>
                  \/ Held(new, j, Later \cup {e.job})
                  \/ Cardinality(Later \cup {e.job}) >= LedgerSize
           /\ e.state = "ack_pending" =>
                Held(new, e.job, {}) \/ Cardinality({}) >= LedgerSize
<1>1. PICK f \in Seq(Entry) :
        /\ f = Selected(s, OfOthers(e.job)) /\ Len(f) <= Len(s)
        /\ OneEach(s) => OneEach(f)
        /\ InTime(s) => InTime(f)
        /\ \A t \in Nat : Until(s, t) => Until(f, t)
        /\ \A k \in 1..Len(f) : f[k] \in OfOthers(e.job) /\ \E m \in 1..Len(s) : s[m] = f[k]
        /\ \A j, Later : \A p \in 1..Len(s) :
             HeldAt(s, j, Later, p) /\ s[p] \in OfOthers(e.job) => Held(f, j, Later)
  BY FilterIs
<1>2. OneEach(f) /\ InTime(f) /\ Until(f, e.at)
  <2>1. e.at \in Nat
    BY DEF Entry
  <2>2. QED
    BY <1>1, <2>1 DEF Tidy
<1>3. \A k \in 1..Len(f) : f[k].job # e.job
  BY <1>1 DEF OfOthers
<1>4. PICK more \in Seq(Entry) :
        /\ more = Append(f, e) /\ Len(more) = Len(f) + 1 /\ more[Len(f) + 1] = e
        /\ \A k \in 1..Len(f) : more[k] = f[k]
        /\ OneEach(more) /\ InTime(more)
        /\ \A t \in Nat : Until(f, t) /\ e.at <= t => Until(more, t)
        /\ \A j, Later : Held(f, j, Later) => Held(more, j, Later \cup {e.job})
        /\ \A Later : e.state = "ack_pending" => Held(more, e.job, Later)
  BY <1>2, <1>3, OneMoreEntry
<1>5. OneEach(more) /\ InTime(more)
  BY <1>4
<1>6. PICK new \in Seq(Entry) :
        /\ new = Newest(more) /\ Tidy(new)
        /\ \A t \in Nat : Until(more, t) => Until(new, t)
        /\ \A j, Later :
             Held(more, j, Later) /\ IsFiniteSet(Later) =>
               Held(new, j, Later) \/ Cardinality(Later) >= LedgerSize
  BY <1>5, NewestKeeps
<1>7. new = WithRecord(s, e)
  BY <1>1, <1>4, <1>6 DEF WithRecord
<1>8. Len(new) > 0 /\ new[Len(new)] = e
  <2>1. PICK last \in Seq(Entry), d \in Nat :
          /\ Newest(more) = last /\ d + Len(last) = Len(more) /\ Len(last) <= LedgerSize
          /\ d > 0 => Len(last) = LedgerSize
          /\ \A k \in 1..Len(last) : last[k] = more[k + d]
    BY NewestIs
  <2>2. PICK l \in Nat, n \in Nat : l = Len(f) /\ n = Len(last)
    BY EntryList
  <2>3. d + n = l + 1 /\ (d > 0 => n = LedgerSize) /\ LedgerSize > 0 /\ LedgerSize \in Nat
    BY <1>4, <2>1, <2>2, LedgerAssumption
  <2>4. n > 0
    BY <2>2, <2>3
  <2>5. n \in 1..n /\ n + d = l + 1
    BY <2>2, <2>3, <2>4
  <2>6. last[n] = e
    BY <1>4, <2>1, <2>2, <2>5
  <2>7. QED
    BY <1>6, <2>1, <2>2, <2>4, <2>6
<1>9. \A t \in Nat : Until(s, t) /\ e.at <= t => Until(new, t)
  BY <1>1, <1>4, <1>6
<1>10. ASSUME NEW j \in OrderIds, NEW Later, j # e.job, Held(s, j, Later), IsFiniteSet(Later)
       PROVE  \/ Held(new, j, Later \cup {e.job})
              \/ Cardinality(Later \cup {e.job}) >= LedgerSize
  <2>1. PICK p \in 1..Len(s) : HeldAt(s, j, Later, p)
    BY <1>10 DEF Held
  <2>2. s[p] \in OfOthers(e.job)
    BY <1>10, <2>1, EntryList DEF HeldAt, OfOthers
  <2>3. Held(f, j, Later)
    BY <1>1, <2>1, <2>2
  <2>4. Held(more, j, Later \cup {e.job})
    BY <1>4, <2>3
  <2>5. IsFiniteSet(Later \cup {e.job})
    BY <1>10, FS_AddElement
  <2>6. QED
    BY <1>6, <2>4, <2>5
<1>11. ASSUME e.state = "ack_pending"
       PROVE  Held(new, e.job, {}) \/ Cardinality({}) >= LedgerSize
  BY <1>4, <1>6, <1>11, FS_EmptySet
<1>12. QED
  BY <1>6, <1>7, <1>8, <1>9, <1>10, <1>11

(* What prune makes of the list: only the filter matters, as the list is   *)
(* short already.                                                          *)
LEMMA PrunedIs ==
  ASSUME NEW s \in Seq(Entry), Tidy(s), NEW before \in 0..MaxClock
  PROVE  \E new \in Seq(Entry) :
           /\ new = Pruned(s, before) /\ Tidy(new)
           /\ \A t \in Nat : Until(s, t) => Until(new, t)
           /\ \A j \in OrderIds : \A Later : Held(s, j, Later) => Held(new, j, Later)
           /\ EntriesOf(new) = EntriesOf(s) \cap Spared(before)
<1>1. PICK new \in Seq(Entry) :
        /\ new = Selected(s, Spared(before)) /\ Len(new) <= Len(s)
        /\ OneEach(s) => OneEach(new)
        /\ InTime(s) => InTime(new)
        /\ \A t \in Nat : Until(s, t) => Until(new, t)
        /\ \A k \in 1..Len(new) : new[k] \in Spared(before) /\ \E m \in 1..Len(s) : s[m] = new[k]
        /\ \A m \in 1..Len(s) : s[m] \in Spared(before) => \E k \in 1..Len(new) : new[k] = s[m]
        /\ \A j, Later : \A p \in 1..Len(s) :
             HeldAt(s, j, Later, p) /\ s[p] \in Spared(before) => Held(new, j, Later)
  BY FilterIs
<1>2. OneEach(new) /\ InTime(new)
  BY <1>1 DEF Tidy
<1>3. Len(new) <= LedgerSize
  <2>1. Len(new) \in Nat /\ Len(s) \in Nat /\ Len(s) <= LedgerSize /\ LedgerSize \in Nat
    BY EntryList, LedgerAssumption DEF Tidy
  <2>2. QED
    BY <1>1, <2>1
<1>4. PICK same \in Seq(Entry) : same = Newest(new) /\ (Len(new) <= LedgerSize => same = new)
  BY <1>2, NewestKeeps
<1>5. new = Pruned(s, before)
  BY <1>1, <1>3, <1>4 DEF Pruned
<1>6. ASSUME NEW j \in OrderIds, NEW Later, Held(s, j, Later)
      PROVE  Held(new, j, Later)
  <2>1. PICK p \in 1..Len(s) : HeldAt(s, j, Later, p)
    BY <1>6 DEF Held
  <2>2. s[p] \in Spared(before)
    BY <2>1, EntryList DEF HeldAt, Spared
  <2>3. QED
    BY <1>1, <2>1, <2>2
<1>7. EntriesOf(new) = EntriesOf(s) \cap Spared(before)
  <2>1. ASSUME NEW x
        PROVE  x \in EntriesOf(new) <=> x \in EntriesOf(s) /\ x \in Spared(before)
    <3>1. /\ x \in EntriesOf(new) <=> \E k \in 1..Len(new) : new[k] = x
          /\ x \in EntriesOf(s) <=> \E m \in 1..Len(s) : s[m] = x
      BY DEF EntriesOf
    <3>2. QED
      BY <1>1, <3>1
  <2>2. QED
    BY <2>1
<1>8. QED
  BY <1>1, <1>2, <1>3, <1>5, <1>6, <1>7 DEF Tidy
-----------------------------------------------------------------------------
(* What an operation reads, and what it computes of it *)
LEMMA ReadTyped == LedgerTypeOK => read \in Seq(Entry)
<1> SUFFICES ASSUME LedgerTypeOK
             PROVE  read \in Seq(Entry)
  OBVIOUS
<1>1. CASE file \in {Torn, Absent}
  <2>1. <<>> \in Seq(Entry)
    OBVIOUS
  <2>2. QED
    BY <1>1, <2>1 DEF read
<1>2. CASE file \notin {Torn, Absent}
  <2>1. file \in Seq(Entry)
    BY <1>2 DEF LedgerTypeOK, Contents
  <2>2. Newest(file) \in Seq(Entry)
    BY <2>1, NewestIs
  <2>3. QED
    BY <1>2, <2>2 DEF read
<1>3. QED
  BY <1>1, <1>2

(* What record and prune are going to write is a list of entries; what     *)
(* record writes is not empty.                                             *)
LEMMA ComputedTyped ==
  ASSUME NEW seen \in Seq(Entry)
  PROVE  /\ \A e \in Entry : WithRecord(seen, e) \in Seq(Entry) /\ Len(WithRecord(seen, e)) > 0
         /\ \A before \in 0..MaxClock : Pruned(seen, before) \in Seq(Entry)
<1>1. ASSUME NEW e \in Entry
      PROVE  WithRecord(seen, e) \in Seq(Entry) /\ Len(WithRecord(seen, e)) > 0
  <2>1. PICK f \in Seq(Entry) : f = Selected(seen, OfOthers(e.job))
    BY FilterIs
  <2>2. PICK more : more = Append(f, e)
    OBVIOUS
  <2>3. more \in Seq(Entry) /\ Len(more) = Len(f) + 1
    BY <2>2, AppendProperties
  <2>4. PICK new \in Seq(Entry), d \in Nat :
          /\ Newest(more) = new /\ d + Len(new) = Len(more)
          /\ d > 0 => Len(new) = LedgerSize
    BY <2>3, NewestIs
  <2>5. Len(new) > 0
    <3>1. Len(new) \in Nat /\ Len(f) \in Nat /\ LedgerSize \in Nat /\ LedgerSize > 0
      BY EntryList, LedgerAssumption
    <3>2. QED
      BY <2>3, <2>4, <3>1
  <2>6. QED
    BY <2>1, <2>2, <2>4, <2>5 DEF WithRecord
<1>2. ASSUME NEW before \in 0..MaxClock
      PROVE  Pruned(seen, before) \in Seq(Entry)
  <2>1. PICK f \in Seq(Entry) : f = Selected(seen, Spared(before))
    BY FilterIs
  <2>2. Newest(f) \in Seq(Entry)
    BY NewestIs
  <2>3. QED
    BY <2>1, <2>2 DEF Pruned
<1>3. QED
  BY <1>1, <1>2

(* What an operation finds is a list of entries, the one that is read or   *)
(* an empty one if it could not read.                                      *)
LEMMA FindsTyped ==
  ASSUME LedgerTypeOK, NEW o \in Ops, NEW seen, Finds(o, seen)
  PROVE  /\ seen \in Seq(Entry)
         /\ blind' \subseteq blind \cup {o}
         /\ fileFaultsLeft' \in 0..MaxFileFaults
         /\ o \notin blind => seen = IF o \in blind' THEN <<>> ELSE read
<1>1. read \in Seq(Entry) /\ <<>> \in Seq(Entry)
  BY ReadTyped
<1>2. MaxFileFaults \in Nat /\ fileFaultsLeft \in 0..MaxFileFaults
  BY LedgerAssumption DEF LedgerTypeOK
<1>3. CASE seen = read /\ UNCHANGED <<blind, fileFaultsLeft>>
  BY <1>1, <1>2, <1>3
<1>4. CASE /\ seen = <<>> /\ blind' = blind \cup {o}
           /\ fileFaultsLeft > 0 /\ fileFaultsLeft' = fileFaultsLeft - 1
  BY <1>1, <1>2, <1>4
<1>5. QED
  BY <1>3, <1>4 DEF Finds

(* What a file holds when it is written over *)
LEMMA OverIs ==
  ASSUME NEW c, NEW s
  PROVE  Over(c, s) \subseteq {s, Torn} /\ (c = Torn => Over(c, s) = {s})
BY DEF Over

(* The types in three parts *)
FilesTyped == file \in Contents /\ tmp \in Contents

OpsTyped ==
  /\ doing \in [Ops -> {"idle", "open", "fill", "rename"}]
  /\ out \in [Ops -> Seq(Entry)]
  /\ fd \in [Ops -> {"tmp", "file", "gone"}]
  /\ subject \in [Ops -> OrderIds \cup {NoOrder}]
  /\ blind \subseteq Ops
  /\ \A o \in Ops : /\ fd[o] # "gone" => doing[o] = "fill"
                    /\ doing[o] = "idle" => o \notin blind

(* What a record writes has its entry at the end. *)
RecordsOne == \A o \in Ops : subject[o] # NoOrder => Len(out[o]) > 0

SeenTyped ==
  /\ clock \in 0..MaxClock
  /\ fileFaultsLeft \in 0..MaxFileFaults
  /\ durable \in [OrderIds -> States \cup {"none"}]
  /\ younger \in [OrderIds -> SUBSET OrderIds]
  /\ lost \subseteq OrderIds

(* The type invariant by the files, the operations and the observations *)
LEMMA LedgerTypeParts == LedgerTypeOK => FilesTyped /\ OpsTyped /\ SeenTyped
BY DEF LedgerTypeOK, FilesTyped, OpsTyped, SeenTyped

(* The same of the state after a step *)
LEMMA LedgerTypePartsNext == FilesTyped' /\ OpsTyped' /\ SeenTyped' => LedgerTypeOK'
BY DEF LedgerTypeOK, FilesTyped, OpsTyped, SeenTyped

(* What is observed of the ledger stays of its type when no step touches   *)
(* it.                                                                     *)
LEMMA SeenTypedStay ==
  SeenTyped /\ UNCHANGED <<clock, fileFaultsLeft, durability>> => SeenTyped'
BY DEF SeenTyped, durability

(* The empty ledger is of its type. *)
LEMMA LedgerTypeInit == LedgerInit => LedgerTypeOK /\ RecordsOne
<1> SUFFICES ASSUME LedgerInit
             PROVE  LedgerTypeOK /\ RecordsOne
  OBVIOUS
<1>1. FilesTyped
  BY DEF LedgerInit, FilesTyped, Contents
<1>2. OpsTyped
  <2>1. <<>> \in Seq(Entry)
    OBVIOUS
  <2>2. QED
    BY <2>1 DEF LedgerInit, OpsTyped
<1>3. SeenTyped
  <2>1. MaxClock \in Nat /\ MaxFileFaults \in Nat
    BY LedgerAssumption
  <2>2. clock \in 0..MaxClock /\ fileFaultsLeft \in 0..MaxFileFaults
    BY <2>1 DEF LedgerInit
  <2>3. QED
    BY <2>2 DEF LedgerInit, SeenTyped
<1>4. RecordsOne
  BY DEF LedgerInit, RecordsOne
<1>5. QED
  BY <1>1, <1>2, <1>3, <1>4 DEF LedgerTypeOK, FilesTyped, OpsTyped, SeenTyped

(* The steps by what an operation does *)
OpStep(o) ==
  \/ \E e \in Entry : record(o, e)
  \/ \E before \in 0..MaxClock : prune(o, before)
  \/ writeOpen(o) \/ writeFill(o) \/ writeRename(o) \/ writeFails(o)

(* Every step is one of an operation, a crash or a tick of the clock. *)
LEMMA LedgerSteps ==
  ASSUME [LedgerNext]_ledgerVars
  PROVE  (\E o \in Ops : OpStep(o)) \/ LedgerCrash \/ Tick \/ UNCHANGED ledgerVars
BY Zenon DEF LedgerNext, OpStep

(* An operation begins with a list it may write. *)
LEMMA StartTyped ==
  ASSUME FilesTyped, OpsTyped, NEW o \in Ops, NEW j \in OrderIds \cup {NoOrder},
         NEW s \in Seq(Entry), doing[o] = "idle", Starts(o, j, s), RecordsOne,
         blind' \subseteq blind \cup {o}, j # NoOrder => Len(s) > 0
  PROVE  FilesTyped' /\ OpsTyped' /\ RecordsOne'
<1>1. FilesTyped'
  BY DEF FilesTyped, Starts, files
<1>2. OpsTyped'
  BY DEF OpsTyped, Starts
<1>3. RecordsOne'
  BY DEF OpsTyped, RecordsOne, Starts
<1>4. QED
  BY <1>1, <1>2, <1>3

(* Every step keeps the type, and a record never writes an empty list. *)
LEMMA LedgerTypeStep ==
  LedgerTypeOK /\ RecordsOne /\ [LedgerNext]_ledgerVars => LedgerTypeOK' /\ RecordsOne'
<1> SUFFICES ASSUME LedgerTypeOK, RecordsOne, [LedgerNext]_ledgerVars
             PROVE  LedgerTypeOK' /\ RecordsOne'
  OBVIOUS
<1>1. FilesTyped /\ OpsTyped /\ SeenTyped
  BY LedgerTypeParts
<1>2. MaxClock \in Nat /\ MaxFileFaults \in Nat
  BY LedgerAssumption
<1>3. <<>> \in Seq(Entry)
  OBVIOUS
<1>4. ASSUME NEW o \in Ops, NEW e \in Entry, record(o, e)
      PROVE  LedgerTypeOK' /\ RecordsOne'
  <2>1. e.job \in OrderIds
    BY DEF Entry
  <2>2. PICK seen : Finds(o, seen) /\ Starts(o, e.job, WithRecord(seen, e))
    BY <1>4 DEF record
  <2>3. /\ seen \in Seq(Entry) /\ blind' \subseteq blind \cup {o}
        /\ fileFaultsLeft' \in 0..MaxFileFaults
    BY <2>2, FindsTyped
  <2>4. PICK new \in Seq(Entry) : new = WithRecord(seen, e) /\ Len(new) > 0
    BY <2>3, ComputedTyped
  <2>5. FilesTyped' /\ OpsTyped' /\ RecordsOne'
    BY <1>1, <1>4, <2>1, <2>2, <2>3, <2>4, StartTyped DEF record
  <2>6. clock' = clock
    BY <2>2 DEF Starts
  <2>7. SeenTyped'
    BY <1>1, <1>4, <2>1, <2>3, <2>6 DEF record, SeenTyped
  <2>8. QED
    BY <2>5, <2>7, LedgerTypePartsNext
<1>5. ASSUME NEW o \in Ops, NEW before \in 0..MaxClock, prune(o, before)
      PROVE  LedgerTypeOK' /\ RecordsOne'
  <2>1. PICK seen : Finds(o, seen) /\ Starts(o, NoOrder, Pruned(seen, before))
    BY <1>5 DEF prune
  <2>2. /\ seen \in Seq(Entry) /\ blind' \subseteq blind \cup {o}
        /\ fileFaultsLeft' \in 0..MaxFileFaults
    BY <2>1, FindsTyped
  <2>3. PICK new \in Seq(Entry) : new = Pruned(seen, before)
    BY <2>2, ComputedTyped
  <2>4. FilesTyped' /\ OpsTyped' /\ RecordsOne'
    BY <1>1, <1>5, <2>1, <2>2, <2>3, StartTyped DEF prune
  <2>5. clock' = clock
    BY <2>1 DEF Starts
  <2>6. SeenTyped'
    BY <1>1, <1>5, <2>2, <2>5 DEF prune, SeenTyped, durability
  <2>7. QED
    BY <2>4, <2>6, LedgerTypePartsNext
<1>6. ASSUME NEW o \in Ops, writeOpen(o)
      PROVE  LedgerTypeOK' /\ RecordsOne'
  <2>1. FilesTyped'
    BY <1>1, <1>6 DEF writeOpen, FilesTyped, Contents
  <2>2. OpsTyped'
    BY <1>1, <1>6 DEF writeOpen, OpsTyped
  <2>9. RecordsOne'
    BY <1>6 DEF writeOpen, RecordsOne
  <2>3. SeenTyped'
    BY <1>1, <1>6, SeenTypedStay DEF writeOpen
  <2>4. QED
    BY <2>1, <2>2, <2>3, <2>9, LedgerTypePartsNext
<1>7. ASSUME NEW o \in Ops, writeFill(o)
      PROVE  LedgerTypeOK' /\ RecordsOne'
  <2>1. \A c : Over(c, out[o]) \subseteq Contents
    <3>1. out[o] \in Seq(Entry)
      BY <1>1 DEF OpsTyped
    <3>2. QED
      BY <3>1, OverIs DEF Contents
  <2>2. FilesTyped'
    BY <1>1, <1>7, <2>1 DEF writeFill, FilesTyped, files
  <2>3. OpsTyped'
    BY <1>1, <1>7 DEF writeFill, OpsTyped
  <2>9. RecordsOne'
    BY <1>7 DEF writeFill, RecordsOne
  <2>4. SeenTyped'
    BY <1>1, <1>7, SeenTypedStay DEF writeFill
  <2>5. QED
    BY <2>2, <2>3, <2>4, <2>9, LedgerTypePartsNext
<1>8. ASSUME NEW o \in Ops, writeRename(o)
      PROVE  LedgerTypeOK' /\ RecordsOne'
  <2>1. FilesTyped'
    BY <1>1, <1>8 DEF writeRename, FilesTyped, Contents
  <2>2. OpsTyped'
    BY <1>1, <1>3, <1>8 DEF writeRename, Done, OpsTyped
  <2>9. RecordsOne'
    BY <1>1, <1>8 DEF writeRename, Done, RecordsOne, OpsTyped
  <2>3. SeenTyped'
    <3>4. lost' \subseteq OrderIds
      BY <1>1, <1>8 DEF writeRename, SeenTyped
    <3>1. CASE subject[o] = NoOrder
      BY <1>1, <1>8, <3>1, <3>4 DEF SeenTyped, writeRename
    <3>2. CASE subject[o] # NoOrder
      <4>1. PICK j \in OrderIds : j = subject[o]
        BY <1>1, <3>2 DEF OpsTyped
      <4>2. PICK st \in States \cup {"none"} :
              durable' = [durable EXCEPT ![j] = st]
        <5>1. out[o][Len(out[o])].state \in States \cup {"none"}
          <6>1. PICK s \in Seq(Entry) : s = out[o]
            BY <1>1 DEF OpsTyped
          <6>2. Len(s) \in 1..Len(s)
            BY <3>2, <6>1, EntryList DEF RecordsOne
          <6>3. QED
            BY <6>1, <6>2, EntryList
        <5>2. QED
          BY <1>8, <3>2, <4>1, <5>1 DEF writeRename
      <4>3. younger' = [k \in OrderIds |-> IF k = j THEN {} ELSE younger[k] \cup {j}]
        BY <1>8, <3>2, <4>1 DEF writeRename
      <4>4. QED
        BY <1>1, <1>8, <3>4, <4>2, <4>3 DEF SeenTyped, writeRename
    <3>3. QED
      BY <3>1, <3>2
  <2>4. QED
    BY <2>1, <2>2, <2>3, <2>9, LedgerTypePartsNext
<1>9. ASSUME NEW o \in Ops, writeFails(o)
      PROVE  LedgerTypeOK' /\ RecordsOne'
  <2>1. FilesTyped'
    BY <1>1, <1>9 DEF writeFails, FilesTyped, files
  <2>2. OpsTyped'
    BY <1>1, <1>3, <1>9 DEF writeFails, Done, OpsTyped
  <2>9. RecordsOne'
    BY <1>1, <1>9 DEF writeFails, Done, RecordsOne, OpsTyped
  <2>3. fileFaultsLeft' \in 0..MaxFileFaults
    BY <1>1, <1>2, <1>9 DEF writeFails, SeenTyped
  <2>4. SeenTyped'
    BY <1>1, <1>9, <2>3 DEF writeFails, SeenTyped, durability
  <2>5. QED
    BY <2>1, <2>2, <2>4, <2>9, LedgerTypePartsNext
<1>10. ASSUME LedgerCrash
       PROVE  LedgerTypeOK' /\ RecordsOne'
  <2>1. FilesTyped' /\ OpsTyped'
    BY <1>1, <1>3, <1>10 DEF LedgerCrash, FilesTyped, OpsTyped, files
  <2>9. RecordsOne'
    BY <1>10 DEF LedgerCrash, RecordsOne
  <2>2. fileFaultsLeft' \in 0..MaxFileFaults
    BY <1>1, <1>2, <1>10 DEF LedgerCrash, SeenTyped
  <2>3. SeenTyped'
    BY <1>1, <1>10, <2>2 DEF LedgerCrash, SeenTyped, durability
  <2>4. QED
    BY <2>1, <2>3, <2>9, LedgerTypePartsNext
<1>11. ASSUME Tick
       PROVE  LedgerTypeOK' /\ RecordsOne'
  <2>1. FilesTyped' /\ OpsTyped'
    BY <1>1, <1>11 DEF Tick, FilesTyped, OpsTyped, files
  <2>9. RecordsOne'
    BY <1>11 DEF Tick, RecordsOne
  <2>2. clock' \in 0..MaxClock
    BY <1>1, <1>2, <1>11 DEF Tick, SeenTyped
  <2>3. SeenTyped'
    BY <1>1, <1>11, <2>2 DEF Tick, SeenTyped, durability
  <2>4. QED
    BY <2>1, <2>3, <2>9, LedgerTypePartsNext
<1>12. ASSUME UNCHANGED ledgerVars
       PROVE  LedgerTypeOK' /\ RecordsOne'
  BY <1>12 DEF ledgerVars, files, LedgerTypeOK, RecordsOne
<1>13. QED
  BY <1>4, <1>5, <1>6, <1>7, <1>8, <1>9, <1>10, <1>11, <1>12, LedgerSteps DEF OpStep
-----------------------------------------------------------------------------
(* One operation at a time is under way. *)
Alone == \A o, p \in Ops : o = p

(* A file that nobody writes is read as before. *)
LEMMA ReadStays == file' = file => read' = read
BY DEF read

(* A tidy list is read back as it was written. *)
LEMMA ReadNext ==
  ASSUME NEW s \in Seq(Entry), Tidy(s), file' = s
  PROVE  read' = s /\ file' # Torn
<1>1. s \notin {Torn, Absent}
  BY LedgerAssumption
<1>2. OneEach(s) /\ InTime(s) /\ Len(s) <= LedgerSize
  BY DEF Tidy
<1>3. PICK same \in Seq(Entry) : same = Newest(s) /\ (Len(s) <= LedgerSize => same = s)
  BY <1>2, NewestKeeps
<1>4. QED
  BY <1>1, <1>2, <1>3 DEF read

(* A list whose entries are not younger than t is one for later times. *)
LEMMA UntilLater ==
  ASSUME NEW s \in Seq(Entry), NEW t \in Nat, NEW u \in Nat, t <= u, Until(s, t)
  PROVE  Until(s, u)
<1>1. \A k \in 1..Len(s) : s[k].at \in Nat
  BY EntryList
<1>2. QED
  BY <1>1 DEF Until

(* The times in use *)
LEMMA ClockTyped == LedgerTypeOK => clock \in Nat /\ clock \in 0..MaxClock
BY LedgerAssumption DEF LedgerTypeOK

(* An empty list is tidy. *)
LEMMA EmptyTidy ==
  <<>> \in Seq(Entry) /\ Tidy(<<>>) /\ (\A t : Until(<<>>, t)) /\ EntriesOf(<<>>) = {}
<1>1. Len(<<>>) = 0 /\ LedgerSize \in Nat
  BY LedgerAssumption
<1>2. QED
  BY <1>1 DEF Tidy, OneEach, InTime, Until, EntriesOf

(* What an operation has found is tidy. *)
LEMMA FoundTidy ==
  ASSUME LedgerTypeOK, AloneInv, NEW o \in Ops
  PROVE  Found(o) \in Seq(Entry) /\ Tidy(Found(o)) /\ Until(Found(o), clock)
<1>1. read \in Seq(Entry) /\ Tidy(read) /\ Until(read, clock)
  BY ReadTyped DEF AloneInv, TidyFile
<1>2. QED
  BY <1>1, EmptyTidy DEF Found

(* At first the file is empty and nothing is pending. *)
LEMMA AloneInit == LedgerInit => AloneInv
<1> SUFFICES ASSUME LedgerInit
             PROVE  AloneInv
  OBVIOUS
<1>1. read = <<>> /\ file # Torn
  BY LedgerAssumption DEF LedgerInit, read
<1>2. Tidy(<<>>) /\ Until(<<>>, clock)
  BY EmptyTidy
<1>3. TidyFile
  BY <1>1, <1>2 DEF TidyFile
<1>4. \A o \in Ops : OwnTmp(o) /\ doing[o] = "idle"
  BY DEF LedgerInit, OwnTmp
<1>5. PendingHeld
  <2>1. \A j \in OrderIds : durable[j] = "none" /\ younger[j] = {}
    BY DEF LedgerInit
  <2>2. QED
    BY <2>1, FS_EmptySet DEF PendingHeld
<1>6. QED
  BY <1>3, <1>4, <1>5 DEF AloneInv

(* A step that leaves the file alone *)
LEMMA AloneNext ==
  ASSUME Alone, AloneInv, file' = file, clock' = clock, younger' = younger, lost' = lost,
         \A j \in OrderIds : durable'[j] = durable[j] \/ durable'[j] = "none",
         NEW o \in Ops, OwnTmp(o)', doing'[o] # "idle" => Plans(o)'
  PROVE  AloneInv'
<1>1. read' = read
  BY ReadStays
<1>2. TidyFile'
  BY <1>1 DEF AloneInv, TidyFile
<1>3. PendingHeld'
  BY <1>1 DEF AloneInv, PendingHeld
<1>4. \A p \in Ops : p = o
  BY DEF Alone
<1>5. \A p \in Ops : OwnTmp(p)' /\ (doing'[p] # "idle" => Plans(p)')
  BY <1>4
<1>6. QED
  BY <1>2, <1>3, <1>5 DEF AloneInv

(* A plan holds as long as nothing of what it is made of changes. *)
LEMMA PlanStays ==
  ASSUME NEW o \in Ops, Plans(o), file' = file, clock' = clock, out'[o] = out[o],
         subject'[o] = subject[o], blind' = blind
  PROVE  Plans(o)'
<1>1. Found(o)' = Found(o)
  BY ReadStays DEF Found
<1>2. QED
  BY <1>1 DEF Plans

(* The rename of the operation that is the only one under way *)
LEMMA AloneRename ==
  ASSUME Alone, LedgerTypeOK, AloneInv, NEW o \in Ops, writeRename(o)
  PROVE  AloneInv'
<1>1. doing[o] = "rename" /\ OwnTmp(o) /\ Plans(o) /\ \A p \in Ops : p = o
  BY DEF writeRename, AloneInv, Alone
<1>2. file' = out[o] /\ clock' = clock
  BY <1>1 DEF writeRename, OwnTmp
<1>3. PICK found \in Seq(Entry) : found = Found(o) /\ Tidy(found) /\ Until(found, clock)
  BY FoundTidy
<1>a. clock \in Nat
  BY ClockTyped
<1>b. o \notin blind => found = read
  BY <1>3 DEF Found
<1>c. lost' = (IF o \in blind THEN OrderIds ELSE lost) \ {subject[o]}
  BY DEF writeRename
<1>4. \A p \in Ops : doing'[p] = "idle"
  BY <1>1 DEF writeRename, Done, LedgerTypeOK
<1>5. \A p \in Ops : OwnTmp(p)' /\ (doing'[p] # "idle" => Plans(p)')
  BY <1>4 DEF OwnTmp
<1>6. \A j \in OrderIds :
        /\ IsFiniteSet(younger[j])
        /\ durable[j] = "ack_pending" =>
             \/ Held(read, j, younger[j])
             \/ Cardinality(younger[j]) >= LedgerSize
             \/ j \in lost
  BY DEF AloneInv, PendingHeld
<1>7. CASE subject[o] = NoOrder
  <2>1. PICK before \in 0..MaxClock : out[o] = Pruned(found, before)
    BY <1>1, <1>3, <1>7 DEF Plans
  <2>2. PICK new \in Seq(Entry) :
          /\ new = Pruned(found, before) /\ Tidy(new)
          /\ \A t \in Nat : Until(found, t) => Until(new, t)
          /\ \A j \in OrderIds : \A Later : Held(found, j, Later) => Held(new, j, Later)
    BY <1>3, PrunedIs
  <2>3. read' = new /\ file' # Torn
    BY <1>2, <2>1, <2>2, ReadNext
  <2>4. durable' = durable /\ younger' = younger
    BY <1>7 DEF writeRename
  <2>5. TidyFile'
    BY <1>2, <1>3, <1>a, <2>2, <2>3 DEF TidyFile
  <2>6. PendingHeld'
    <3>1. NoOrder \notin OrderIds
      BY LedgerAssumption
    <3>2. CASE o \in blind
      <4>1. \A j \in OrderIds : j \in lost'
        BY <1>7, <1>c, <3>1, <3>2
      <4>2. QED
        BY <1>6, <2>4, <4>1 DEF PendingHeld
    <3>3. CASE o \notin blind
      <4>1. \A j \in OrderIds : j \in lost' <=> j \in lost
        BY <1>7, <1>c, <3>1, <3>3
      <4>2. \A j \in OrderIds : \A Later : Held(read, j, Later) => Held(read', j, Later)
        BY <1>b, <2>2, <2>3, <3>3
      <4>3. QED
        BY <1>6, <2>4, <4>1, <4>2 DEF PendingHeld
    <3>4. QED
      BY <3>2, <3>3
  <2>7. QED
    BY <1>5, <2>5, <2>6 DEF AloneInv
<1>8. CASE subject[o] # NoOrder
  <2>1. PICK e \in Entry :
          /\ e.job = subject[o] /\ e.at <= clock /\ Until(found, e.at)
          /\ out[o] = WithRecord(found, e)
    BY <1>1, <1>3, <1>8 DEF Plans
  <2>2. PICK new \in Seq(Entry) :
          /\ new = WithRecord(found, e) /\ Tidy(new)
          /\ Len(new) > 0 /\ new[Len(new)] = e
          /\ \A t \in Nat : Until(found, t) /\ e.at <= t => Until(new, t)
          /\ \A j \in OrderIds : \A Later :
               j # e.job /\ Held(found, j, Later) /\ IsFiniteSet(Later) =>
                 \/ Held(new, j, Later \cup {e.job})
                 \/ Cardinality(Later \cup {e.job}) >= LedgerSize
          /\ e.state = "ack_pending" => Held(new, e.job, {}) \/ Cardinality({}) >= LedgerSize
    BY <1>3, <2>1, RenewedIs
  <2>3. read' = new /\ file' # Torn
    BY <1>2, <2>1, <2>2, ReadNext
  <2>4. TidyFile'
    BY <1>2, <1>3, <1>a, <2>1, <2>2, <2>3 DEF TidyFile
  <2>5. /\ durable' = [durable EXCEPT ![e.job] = e.state]
        /\ younger' = [k \in OrderIds |-> IF k = e.job THEN {} ELSE younger[k] \cup {e.job}]
    <3>1. ~ \E p \in Ops \ {o} : subject[p] = subject[o]
      BY <1>1
    <3>2. out[o][Len(out[o])].state = e.state
      BY <2>1, <2>2
    <3>3. QED
      BY <1>8, <2>1, <3>1, <3>2 DEF writeRename
  <2>6. ASSUME NEW j \in OrderIds
        PROVE  /\ IsFiniteSet(younger'[j])
               /\ durable'[j] = "ack_pending" =>
                    \/ Held(new, j, younger'[j])
                    \/ Cardinality(younger'[j]) >= LedgerSize
                    \/ j \in lost'
    <3>1. CASE j = e.job
      <4>1. younger'[j] = {} /\ durable'[j] = e.state
        BY <2>5, <3>1 DEF LedgerTypeOK
      <4>2. QED
        BY <2>2, <3>1, <4>1, FS_EmptySet
    <3>2. CASE j # e.job
      <4>1. younger'[j] = younger[j] \cup {e.job} /\ durable'[j] = durable[j]
        BY <2>5, <3>2 DEF LedgerTypeOK
      <4>2. /\ IsFiniteSet(younger[j] \cup {e.job})
            /\ Cardinality(younger[j]) \in Nat /\ Cardinality(younger[j] \cup {e.job}) \in Nat
            /\ Cardinality(younger[j] \cup {e.job}) >= Cardinality(younger[j])
        <5>1. IsFiniteSet(younger[j] \cup {e.job})
          BY <1>6, FS_AddElement
        <5>2. younger[j] \in SUBSET (younger[j] \cup {e.job})
          OBVIOUS
        <5>3. Cardinality(younger[j]) <= Cardinality(younger[j] \cup {e.job})
          BY <5>1, <5>2, FS_Subset
        <5>4. Cardinality(younger[j]) \in Nat /\ Cardinality(younger[j] \cup {e.job}) \in Nat
          BY <1>6, <5>1, FS_CardinalityType
        <5>5. QED
          BY <5>1, <5>3, <5>4
      <4>3. ASSUME durable[j] = "ack_pending"
            PROVE  \/ Held(new, j, younger[j] \cup {e.job})
                   \/ Cardinality(younger[j] \cup {e.job}) >= LedgerSize
                   \/ j \in lost'
        <5>1. CASE Held(read, j, younger[j]) /\ o \notin blind
          BY <1>6, <1>b, <2>2, <3>2, <5>1
        <5>4. CASE j \in lost \/ o \in blind
          BY <1>c, <2>1, <3>2, <5>4
        <5>2. CASE Cardinality(younger[j]) >= LedgerSize
          <6>1. LedgerSize \in Nat
            BY LedgerAssumption
          <6>2. QED
            BY <4>2, <5>2, <6>1
        <5>3. QED
          BY <1>6, <4>3, <5>1, <5>2, <5>4
      <4>4. QED
        BY <4>1, <4>2, <4>3
    <3>3. QED
      BY <3>1, <3>2
  <2>7. PendingHeld'
    BY <2>3, <2>6 DEF PendingHeld
  <2>8. QED
    BY <1>5, <2>4, <2>7 DEF AloneInv
<1>9. QED
  BY <1>7, <1>8

(* One operation at a time keeps the file tidy and the pending entries in  *)
(* it.                                                                     *)
LEMMA AloneStep ==
  ASSUME Alone
  PROVE  LedgerTypeOK /\ AloneInv /\ [LedgerNext]_ledgerVars => AloneInv'
<1> SUFFICES ASSUME LedgerTypeOK, AloneInv, [LedgerNext]_ledgerVars
             PROVE  AloneInv'
  OBVIOUS
<1>1. /\ doing \in [Ops -> {"idle", "open", "fill", "rename"}]
      /\ out \in [Ops -> Seq(Entry)] /\ fd \in [Ops -> {"tmp", "file", "gone"}]
      /\ subject \in [Ops -> OrderIds \cup {NoOrder}]
      /\ durable \in [OrderIds -> States \cup {"none"}]
  BY DEF LedgerTypeOK
<1>2. TidyFile /\ PendingHeld /\ \A o \in Ops : OwnTmp(o) /\ (doing[o] # "idle" => Plans(o))
  BY DEF AloneInv
<1>3. ASSUME NEW o \in Ops, NEW e \in Entry, record(o, e)
      PROVE  AloneInv'
  <2>1. PICK seen : Finds(o, seen) /\ Starts(o, e.job, WithRecord(seen, e))
    BY <1>3 DEF record
  <2>2. doing[o] = "idle" /\ e.at = clock /\ younger' = younger /\ lost' = lost
    BY <1>3 DEF record
  <2>3. durable' = [durable EXCEPT ![e.job] = "none"]
    BY <1>3 DEF record
  <2>4. /\ file' = file /\ clock' = clock /\ doing'[o] = "open"
        /\ out'[o] = WithRecord(seen, e) /\ subject'[o] = e.job
    BY <1>1, <2>1 DEF Starts, files
  <2>5. read' = read /\ e.job # NoOrder /\ clock \in Nat
    BY <2>4, ReadStays, LedgerAssumption, ClockTyped DEF Entry
  <2>6. seen = Found(o)'
    <3>1. o \notin blind
      BY <2>2 DEF LedgerTypeOK
    <3>2. seen = IF o \in blind' THEN <<>> ELSE read
      BY <2>1, <3>1, FindsTyped
    <3>3. QED
      BY <2>5, <3>2 DEF Found
  <2>7. OwnTmp(o)'
    BY <2>4 DEF OwnTmp
  <2>8. Until(seen, e.at)
    <3>1. seen = read \/ seen = <<>>
      BY <2>1 DEF Finds
    <3>2. QED
      BY <1>2, <2>2, <3>1, EmptyTidy DEF TidyFile
  <2>9. Plans(o)'
    <3>1. e.at <= clock'
      BY <2>2, <2>4, <2>5
    <3>2. QED
      BY <2>4, <2>5, <2>6, <2>8, <3>1 DEF Plans
  <2>10. \A j \in OrderIds : durable'[j] = durable[j] \/ durable'[j] = "none"
    BY <1>1, <2>3
  <2>11. QED
    BY <2>2, <2>4, <2>7, <2>9, <2>10, AloneNext
<1>4. ASSUME NEW o \in Ops, NEW before \in 0..MaxClock, prune(o, before)
      PROVE  AloneInv'
  <2>1. PICK seen : Finds(o, seen) /\ Starts(o, NoOrder, Pruned(seen, before))
    BY <1>4 DEF prune
  <2>2. doing[o] = "idle" /\ younger' = younger /\ durable' = durable /\ lost' = lost
    BY <1>4 DEF prune, durability
  <2>3. /\ file' = file /\ clock' = clock /\ doing'[o] = "open"
        /\ out'[o] = Pruned(seen, before) /\ subject'[o] = NoOrder
    BY <1>1, <2>1 DEF Starts, files
  <2>4. seen = Found(o)'
    <3>1. o \notin blind
      BY <2>2 DEF LedgerTypeOK
    <3>2. seen = IF o \in blind' THEN <<>> ELSE read
      BY <2>1, <3>1, FindsTyped
    <3>3. read' = read
      BY <2>3, ReadStays
    <3>4. QED
      BY <3>2, <3>3 DEF Found
  <2>5. OwnTmp(o)'
    BY <2>3 DEF OwnTmp
  <2>6. Plans(o)'
    BY <2>3, <2>4 DEF Plans
  <2>7. QED
    BY <2>2, <2>3, <2>5, <2>6, AloneNext
<1>5. ASSUME NEW o \in Ops, writeOpen(o)
      PROVE  AloneInv'
  <2>1. /\ file' = file /\ clock' = clock /\ younger' = younger /\ durable' = durable /\ lost' = lost
        /\ doing[o] = "open" /\ doing'[o] = "fill" /\ tmp' = Torn /\ fd'[o] = "tmp"
        /\ out' = out /\ subject' = subject /\ blind' = blind
    BY <1>1, <1>5 DEF writeOpen, durability
  <2>2. OwnTmp(o)'
    BY <2>1 DEF OwnTmp
  <2>3. Plans(o)'
    BY <1>2, <2>1, PlanStays
  <2>4. QED
    BY <2>1, <2>2, <2>3, AloneNext
<1>6. ASSUME NEW o \in Ops, writeFill(o)
      PROVE  AloneInv'
  <2>1. /\ clock' = clock /\ younger' = younger /\ durable' = durable /\ lost' = lost
        /\ doing[o] = "fill" /\ doing'[o] = "rename" /\ out' = out /\ subject' = subject /\ blind' = blind
    BY <1>1, <1>6 DEF writeFill, durability
  <2>2. fd[o] = "tmp" /\ tmp = Torn
    BY <1>2, <2>1 DEF OwnTmp
  <2>3. file' = file /\ tmp' = out[o]
    BY <1>6, <2>2, OverIs DEF writeFill
  <2>4. OwnTmp(o)'
    BY <2>1, <2>3 DEF OwnTmp
  <2>5. Plans(o)'
    BY <1>2, <2>1, <2>3, PlanStays
  <2>6. QED
    BY <2>1, <2>3, <2>4, <2>5, AloneNext
<1>7. ASSUME NEW o \in Ops, writeRename(o)
      PROVE  AloneInv'
  BY <1>7, AloneRename
<1>8. ASSUME NEW o \in Ops, writeFails(o)
      PROVE  AloneInv'
  <2>1. /\ file' = file /\ clock' = clock /\ younger' = younger /\ durable' = durable /\ lost' = lost
        /\ doing'[o] = "idle"
    BY <1>1, <1>8 DEF writeFails, Done, files, durability
  <2>2. OwnTmp(o)'
    BY <2>1 DEF OwnTmp
  <2>3. QED
    BY <2>1, <2>2, AloneNext
<1>9. ASSUME LedgerCrash
      PROVE  AloneInv'
  <2>1. PICK o \in Ops : doing[o] # "idle"
    BY <1>9 DEF LedgerCrash
  <2>2. /\ file' = file /\ clock' = clock /\ younger' = younger /\ durable' = durable /\ lost' = lost
        /\ doing'[o] = "idle"
    BY <1>9 DEF LedgerCrash, files, durability
  <2>3. OwnTmp(o)'
    BY <2>2 DEF OwnTmp
  <2>4. QED
    BY <2>2, <2>3, AloneNext
<1>10. ASSUME Tick
       PROVE  AloneInv'
  <2>1. /\ file' = file /\ tmp' = tmp /\ doing' = doing /\ out' = out /\ fd' = fd
        /\ subject' = subject /\ durable' = durable /\ younger' = younger /\ lost' = lost
        /\ blind' = blind
    BY <1>10 DEF Tick, files, durability
  <2>2. clock \in Nat /\ clock' \in Nat /\ clock <= clock' /\ read' = read
    <3>1. clock \in Nat /\ clock' = clock + 1
      BY <1>10, ClockTyped DEF Tick
    <3>2. QED
      BY <2>1, <3>1, ReadStays
  <2>3. TidyFile'
    <3>1. Until(read, clock')
      BY <1>2, <2>2, ReadTyped, UntilLater DEF TidyFile
    <3>2. QED
      BY <1>2, <2>1, <2>2, <3>1 DEF TidyFile
  <2>4. PendingHeld'
    BY <1>2, <2>1, <2>2 DEF PendingHeld
  <2>5. \A o \in Ops : OwnTmp(o)'
    BY <1>2, <2>1 DEF OwnTmp
  <2>6. ASSUME NEW o \in Ops, doing'[o] # "idle"
        PROVE  Plans(o)'
    <3>5. Found(o)' = Found(o)
      BY <2>1, <2>2 DEF Found
    <3>1. Plans(o)
      BY <1>2, <2>1, <2>6
    <3>2. CASE subject[o] = NoOrder
      BY <2>1, <2>2, <3>1, <3>2, <3>5 DEF Plans
    <3>3. CASE subject[o] # NoOrder
      <4>1. PICK e \in Entry : /\ e.job = subject[o] /\ e.at <= clock /\ Until(Found(o), e.at)
                               /\ out[o] = WithRecord(Found(o), e)
        BY <3>1, <3>3 DEF Plans
      <4>2. e.at \in Nat
        BY DEF Entry
      <4>3. e.at <= clock'
        BY <2>2, <4>1, <4>2
      <4>4. QED
        BY <2>1, <2>2, <3>3, <3>5, <4>1, <4>3 DEF Plans
    <3>4. QED
      BY <3>2, <3>3
  <2>7. QED
    BY <2>3, <2>4, <2>5, <2>6 DEF AloneInv
<1>11. ASSUME UNCHANGED ledgerVars
       PROVE  AloneInv'
  <2>1. /\ file' = file /\ tmp' = tmp /\ doing' = doing /\ out' = out /\ fd' = fd
        /\ subject' = subject /\ durable' = durable /\ younger' = younger /\ clock' = clock
        /\ lost' = lost /\ blind' = blind
    BY <1>11 DEF ledgerVars, files
  <2>2. TidyFile' /\ PendingHeld'
    BY <1>2, <2>1, ReadStays DEF TidyFile, PendingHeld
  <2>3. \A o \in Ops : OwnTmp(o)' /\ (doing'[o] # "idle" => Plans(o)')
    BY <1>2, <2>1, PlanStays DEF OwnTmp
  <2>4. QED
    BY <2>2, <2>3 DEF AloneInv
<1>12. QED
  BY <1>3, <1>4, <1>5, <1>6, <1>7, <1>8, <1>9, <1>10, <1>11, LedgerSteps DEF OpStep
-----------------------------------------------------------------------------
LedgerInv == LedgerTypeOK /\ RecordsOne

(* The typing invariant holds in every state, any number of operations at a *)
(* time.                                                                   *)
LEMMA LedgerInvHolds == LedgerSpec => []LedgerInv
<1>1. LedgerInit => LedgerInv
  BY LedgerTypeInit DEF LedgerInv
<1>2. LedgerInv /\ [LedgerNext]_ledgerVars => LedgerInv'
  BY LedgerTypeStep DEF LedgerInv
<1>3. QED
  BY <1>1, <1>2, PTL DEF LedgerSpec

(* Type correctness of the ledger file and of the operations on it, any    *)
(* number of them at a time                                                *)
THEOREM LedgerTypeCorrect == LedgerSpec => []LedgerTypeOK
<1>1. LedgerInv => LedgerTypeOK
  BY DEF LedgerInv
<1>2. QED
  BY <1>1, LedgerInvHolds, PTL

(* The invariant of one operation at a time holds in every state. *)
LEMMA AloneInvHolds ==
  ASSUME Alone
  PROVE  LedgerSpec => [](LedgerTypeOK /\ AloneInv)
<1>1. LedgerInit => AloneInv
  BY AloneInit
<1>2. LedgerInv /\ AloneInv /\ [LedgerNext]_ledgerVars => AloneInv'
  BY AloneStep DEF LedgerInv
<1>3. LedgerInv => LedgerTypeOK
  BY DEF LedgerInv
<1>4. QED
  BY <1>1, <1>2, <1>3, LedgerInvHolds, PTL DEF LedgerSpec

(* With one operation at a time, a printed job whose acknowledgement is    *)
(* pending stays in the ledger, whatever is pruned, fails and crashes,     *)
(* until it is recorded again, as many other jobs as the ledger holds are  *)
(* recorded after it, or another operation could not read the ledger and   *)
(* has overwritten it.                                                     *)
THEOREM PendingKeptHolds ==
  ASSUME Alone
  PROVE  LedgerSpec => []PendingKept
<1>1. LedgerTypeOK /\ AloneInv => PendingKept
  <2> SUFFICES ASSUME LedgerTypeOK, AloneInv, NEW j \in OrderIds, durable[j] = "ack_pending",
                      ~(Cardinality(younger[j]) >= LedgerSize), j \notin lost
               PROVE  \E x \in EntriesOf(read) : x.job = j /\ x.state = "ack_pending"
    BY DEF PendingKept
  <2>1. PICK p \in 1..Len(read) : HeldAt(read, j, younger[j], p)
    BY DEF AloneInv, PendingHeld, Held
  <2>2. read[p] \in EntriesOf(read)
    BY DEF EntriesOf
  <2>3. QED
    BY <2>1, <2>2 DEF HeldAt
<1>2. QED
  BY <1>1, AloneInvHolds, PTL
-----------------------------------------------------------------------------
(***************************************************************************)
(* The file with its operations implements LedgerPromise, as long as one   *)
(* operation at a time is under way.                                       *)
(***************************************************************************)

(* As many entries as places, in a list with one entry for each job *)
LEMMA EntriesCounted ==
  ASSUME NEW s \in Seq(Entry), OneEach(s)
  PROVE  Cardinality(EntriesOf(s)) = Len(s)
<1>1. PICK n \in Nat : n = Len(s)
  BY EntryList
<1>2. \A k \in 1..n : s[k] \in EntriesOf(s)
  BY <1>1 DEF EntriesOf
<1>3. PICK g : g = [k \in 1..n |-> s[k]]
  OBVIOUS
<1>4. g \in [1..n -> EntriesOf(s)]
  BY <1>2, <1>3
<1>5. g \in Injection(1..n, EntriesOf(s))
  BY <1>1, <1>3, <1>4 DEF Injection, IsInjective, OneEach
<1>6. g \in Surjection(1..n, EntriesOf(s))
  BY <1>1, <1>3, <1>4 DEF Surjection, EntriesOf
<1>7. ExistsBijection(1..n, EntriesOf(s))
  BY <1>5, <1>6 DEF ExistsBijection, Bijection
<1>8. QED
  BY <1>1, <1>7, Places, FS_Bijection

(* record: the other entries stay, but for the oldest of a full ledger. *)
LEMMA RenewedKnown ==
  ASSUME NEW s \in Seq(Entry), Tidy(s), NEW e \in Entry, Until(s, e.at)
  PROVE  \E kept :
           /\ kept = {k \in EntriesOf(s) : k.job # e.job}
           /\ \/ /\ Cardinality(kept) < LedgerSize
                 /\ EntriesOf(WithRecord(s, e)) = kept \cup {e}
              \/ /\ Cardinality(kept) = LedgerSize
                 /\ \E oldest \in kept :
                      /\ \A k \in kept : oldest.at <= k.at
                      /\ EntriesOf(WithRecord(s, e)) = (kept \ {oldest}) \cup {e}
<1>1. PICK f \in Seq(Entry) :
        /\ f = Selected(s, OfOthers(e.job)) /\ Len(f) <= Len(s)
        /\ OneEach(s) => OneEach(f)
        /\ InTime(s) => InTime(f)
        /\ \A k \in 1..Len(f) : f[k] \in OfOthers(e.job) /\ \E m \in 1..Len(s) : s[m] = f[k]
        /\ \A m \in 1..Len(s) : s[m] \in OfOthers(e.job) => \E k \in 1..Len(f) : f[k] = s[m]
  BY FilterIs
<1>2. OneEach(f) /\ InTime(f) /\ Len(s) <= LedgerSize
  BY <1>1 DEF Tidy
<1>3. PICK n \in Nat : n = Len(f)
  BY EntryList
<1>4. n <= LedgerSize /\ LedgerSize \in Nat /\ LedgerSize > 0
  BY <1>1, <1>2, <1>3, EntryList, LedgerAssumption
<1>5. PICK kept : kept = {k \in EntriesOf(s) : k.job # e.job}
  OBVIOUS
<1>6. \A x : x \in kept <=> \E k \in 1..n : f[k] = x
  <2>1. \A m \in 1..Len(s) : s[m] \in OfOthers(e.job) <=> s[m].job # e.job
    BY EntryList DEF OfOthers
  <2>2. \A x : x \in EntriesOf(s) <=> \E m \in 1..Len(s) : s[m] = x
    BY DEF EntriesOf
  <2>3. ASSUME NEW x \in kept
        PROVE  \E k \in 1..n : f[k] = x
    <3>1. PICK m \in 1..Len(s) : s[m] = x /\ x.job # e.job
      BY <1>5, <2>2
    <3>2. s[m] \in OfOthers(e.job)
      BY <2>1, <3>1
    <3>3. QED
      BY <1>1, <1>3, <3>1, <3>2
  <2>4. ASSUME NEW k \in 1..n
        PROVE  f[k] \in kept
    <3>1. PICK m \in 1..Len(s) : s[m] = f[k] /\ f[k] \in OfOthers(e.job)
      BY <1>1, <1>3
    <3>2. f[k].job # e.job
      BY <2>1, <3>1
    <3>3. QED
      BY <1>5, <2>2, <3>1, <3>2
  <2>5. QED
    BY <2>3, <2>4
<1>7. Cardinality(kept) = n
  <2>1. kept = EntriesOf(f)
    BY <1>3, <1>6 DEF EntriesOf
  <2>2. QED
    BY <1>2, <1>3, <2>1, EntriesCounted
<1>8. PICK more : more = Append(f, e)
  OBVIOUS
<1>9. /\ more \in Seq(Entry) /\ Len(more) = n + 1 /\ more[n + 1] = e
      /\ \A k \in 1..n : more[k] = f[k]
  BY <1>3, <1>8, AppendProperties
<1>10. PICK new \in Seq(Entry), d \in Nat :
         /\ Newest(more) = new /\ d + Len(new) = Len(more) /\ Len(new) <= LedgerSize
         /\ d > 0 => Len(new) = LedgerSize
         /\ \A k \in 1..Len(new) : new[k] = more[k + d]
  BY <1>9, NewestIs
<1>11. WithRecord(s, e) = new
  BY <1>1, <1>8, <1>10 DEF WithRecord
<1>12. PICK l \in Nat : /\ l = Len(new) /\ d + l = n + 1 /\ l <= LedgerSize
                        /\ d > 0 => l = LedgerSize
  <2>1. Len(new) \in Nat
    BY EntryList
  <2>2. QED
    BY <1>9, <1>10, <2>1
<1>13. \A x : x \in EntriesOf(new) <=> \E k \in 1..l : new[k] = x
  BY <1>12 DEF EntriesOf
<1>14. CASE n < LedgerSize
  <2>1. d = 0 /\ l = n + 1
    BY <1>4, <1>12, <1>14
  <2>2. \A k \in 1..(n + 1) : new[k] = more[k]
    BY <1>10, <1>12, <2>1
  <2>3. \A k \in 1..(n + 1) : k \in 1..n \/ k = n + 1
    OBVIOUS
  <2>4. n + 1 \in 1..(n + 1) /\ \A k \in 1..n : k \in 1..(n + 1)
    OBVIOUS
  <2>5. \A x : x \in EntriesOf(new) <=> x \in kept \/ x = e
    BY <1>6, <1>9, <1>13, <2>1, <2>2, <2>3, <2>4
  <2>6. EntriesOf(new) = kept \cup {e}
    BY <2>5
  <2>7. QED
    BY <1>5, <1>7, <1>11, <1>14, <2>6
<1>15. CASE n = LedgerSize
  <2>1. d = 1 /\ l = n
    BY <1>4, <1>12, <1>15
  <2>2. \A k \in 1..n : new[k] = more[k + 1]
    BY <1>10, <1>12, <2>1
  <2>3. 1 \in 1..n /\ n \in 1..n
    BY <1>4, <1>15
  <2>4. PICK oldest : oldest = f[1]
    OBVIOUS
  <2>5. oldest \in kept /\ \A k \in kept : oldest.at <= k.at
    <3>1. \A k \in 1..n : 1 <= k
      OBVIOUS
    <3>2. \A k \in 1..n : f[1].at <= f[k].at
      BY <1>2, <1>3, <2>3, <3>1 DEF InTime
    <3>3. QED
      BY <1>6, <2>3, <2>4, <3>2
  <2>6. ASSUME NEW x
        PROVE  x \in EntriesOf(new) <=> (x \in kept /\ x # oldest) \/ x = e
    <3>1. ASSUME NEW k \in 1..n, new[k] = x
          PROVE  (x \in kept /\ x # oldest) \/ x = e
      <4>1. CASE k = n
        BY <1>9, <2>2, <3>1, <4>1
      <4>2. CASE k # n
        <5>1. k + 1 \in 1..n /\ k + 1 # 1
          BY <4>2
        <5>2. x = f[k + 1]
          BY <1>9, <2>2, <3>1, <5>1
        <5>3. x # oldest
          BY <1>2, <1>3, <2>3, <2>4, <5>1, <5>2 DEF OneEach
        <5>4. QED
          BY <1>6, <5>1, <5>2, <5>3
      <4>3. QED
        BY <4>1, <4>2
    <3>2. ASSUME x \in kept, x # oldest
          PROVE  x \in EntriesOf(new)
      <4>1. PICK k \in 1..n : f[k] = x
        BY <1>6, <3>2
      <4>2. PICK m \in 1..n : m + 1 = k
        <5>1. k # 1
          BY <2>4, <3>2, <4>1
        <5>2. k - 1 \in 1..n /\ (k - 1) + 1 = k
          BY <5>1
        <5>3. QED
          BY <5>2
      <4>3. new[m] = x
        BY <1>9, <2>2, <4>1, <4>2
      <4>4. QED
        BY <1>13, <2>1, <4>3
    <3>3. ASSUME x = e
          PROVE  x \in EntriesOf(new)
      BY <1>9, <1>13, <2>1, <2>2, <2>3, <3>3
    <3>4. QED
      BY <1>13, <2>1, <3>1, <3>2, <3>3
  <2>7. EntriesOf(new) = (kept \ {oldest}) \cup {e}
    BY <2>6
  <2>8. QED
    BY <1>5, <1>7, <1>11, <1>15, <2>5, <2>7
<1>16. QED
  BY <1>4, <1>14, <1>15

(* The promise counts as the lemmas above do. *)
LEMMA PromiseCounts == \A S : LedgerPromised!Cardinality(S) = Cardinality(S)
BY Zenon DEF LedgerPromised!Cardinality, Cardinality

(* With one operation at a time the entries a restart would find change in *)
(* the step of the rename alone, and as LedgerPromise says.  A failed read *)
(* is a step of its own there, and the end of that operation forgets.      *)
THEOREM LedgerKeepsPromise ==
  ASSUME Alone
  PROVE  LedgerSpec => KeepsLedgerPromise
<1> DEFINE known == EntriesOf(read)
           unread == blind # {}
<1>1. LedgerInit => LedgerPromised!Init
  <2>1. LedgerInit => read = <<>> /\ blind = {}
    BY DEF LedgerInit, read
  <2>2. EntriesOf(<<>>) = {}
    BY EmptyTidy
  <2>3. QED
    BY <2>1, <2>2 DEF LedgerPromised!Init
<1>2. LedgerTypeOK /\ AloneInv /\ [LedgerNext]_ledgerVars =>
        [LedgerPromised!Next]_<<known, unread>>
  <2> SUFFICES ASSUME LedgerTypeOK, AloneInv, [LedgerNext]_ledgerVars
               PROVE  LedgerPromised!Next \/ (known' = known /\ unread' = unread)
    OBVIOUS
  <2>1. file' = file => known' = known
    BY ReadStays DEF EntriesOf
  <2>2. ASSUME NEW o \in Ops
        PROVE  blind \subseteq {o} /\ (unread <=> o \in blind)
    BY DEF Alone, LedgerTypeOK
  <2>3. ASSUME NEW o \in Ops, known' = known, blind' = blind \ {o}
        PROVE  LedgerPromised!Next \/ (known' = known /\ unread' = unread)
    <3>1. ~unread'
      BY <2>2, <2>3
    <3>2. CASE unread
      BY <2>3, <3>1, <3>2 DEF LedgerPromised!Next, LedgerPromised!Forgets
    <3>3. CASE ~unread
      BY <2>3, <3>1, <3>3
    <3>4. QED
      BY <3>2, <3>3
  <2>4. ASSUME NEW o \in Ops, writeRename(o)
        PROVE  LedgerPromised!Next \/ (known' = known /\ unread' = unread)
    <3>1. doing[o] = "rename" /\ OwnTmp(o) /\ Plans(o)
      BY <2>4 DEF writeRename, AloneInv
    <3>2. file' = out[o] /\ ~unread'
      BY <2>2, <2>4, <3>1 DEF writeRename, OwnTmp, Done
    <3>3. PICK found \in Seq(Entry) : found = Found(o) /\ Tidy(found)
      BY FoundTidy
    <3>4. CASE o \in blind
      <4>1. found = <<>> /\ unread
        BY <2>2, <3>3, <3>4 DEF Found
      <4>2. CASE subject[o] = NoOrder
        <5>1. PICK before \in 0..MaxClock : out[o] = Pruned(found, before)
          BY <3>1, <3>3, <4>2 DEF Plans
        <5>2. PICK new \in Seq(Entry) :
                /\ new = Pruned(found, before) /\ Tidy(new)
                /\ EntriesOf(new) = EntriesOf(found) \cap Spared(before)
          BY <3>3, PrunedIs
        <5>3. read' = new
          BY <3>2, <5>1, <5>2, ReadNext
        <5>4. known' = {}
          <6>1. known' = EntriesOf(new)
            BY <5>3 DEF EntriesOf
          <6>2. EntriesOf(found) = {}
            BY <4>1, EmptyTidy
          <6>3. QED
            BY <5>2, <6>1, <6>2
        <5>5. QED
          BY <3>2, <4>1, <5>4 DEF LedgerPromised!Next, LedgerPromised!Forgets
      <4>3. CASE subject[o] # NoOrder
        <5>1. PICK e \in Entry : out[o] = WithRecord(found, e)
          BY <3>1, <3>3, <4>3 DEF Plans
        <5>2. PICK new \in Seq(Entry) : new = WithRecord(found, e) /\ Tidy(new)
          BY <3>3, <4>1, EmptyTidy, RenewedIs
        <5>3. read' = new
          BY <3>2, <5>1, <5>2, ReadNext
        <5>4. known' = EntriesOf(WithRecord(found, e))
          BY <5>2, <5>3 DEF EntriesOf
        <5>5. EntriesOf(WithRecord(found, e)) = {e}
          <6>1. Until(found, e.at) /\ EntriesOf(found) = {}
            BY <4>1, EmptyTidy
          <6>2. PICK kept :
                  /\ kept = {k \in EntriesOf(found) : k.job # e.job}
                  /\ \/ EntriesOf(WithRecord(found, e)) = kept \cup {e}
                     \/ /\ Cardinality(kept) = LedgerSize
                        /\ \E oldest \in kept : TRUE
            BY <3>3, <6>1, RenewedKnown
          <6>3. kept = {}
            BY <6>1, <6>2
          <6>4. QED
            BY <6>2, <6>3
        <5>6. QED
          BY <3>2, <4>1, <5>4, <5>5 DEF LedgerPromised!Next, LedgerPromised!Forgets
      <4>4. QED
        BY <4>2, <4>3
    <3>5. CASE o \notin blind
      <4>1. found = read /\ ~unread /\ unread' = unread
        BY <2>2, <3>2, <3>3, <3>5 DEF Found
      <4>2. CASE subject[o] = NoOrder
        <5>1. PICK before \in 0..MaxClock : out[o] = Pruned(found, before)
          BY <3>1, <3>3, <4>2 DEF Plans
        <5>2. PICK new \in Seq(Entry) :
                /\ new = Pruned(found, before) /\ Tidy(new)
                /\ EntriesOf(new) = EntriesOf(found) \cap Spared(before)
          BY <3>3, PrunedIs
        <5>3. read' = new
          BY <3>2, <5>1, <5>2, ReadNext
        <5>4. known' = EntriesOf(new)
          BY <5>3 DEF EntriesOf
        <5>5. known \subseteq Entry
          BY <3>3, <4>1, EntryList DEF EntriesOf
        <5>6. CASE known = {}
          BY <4>1, <5>2, <5>4, <5>6
        <5>7. CASE known # {}
          <6>1. PICK x \in Entry : TRUE
            BY <5>5, <5>7
          <6>2. PICK e \in Entry : e.at = before
            <7>1. [job |-> x.job, hash |-> x.hash, state |-> x.state, at |-> before] \in Entry
              BY DEF Entry
            <7>2. QED
              BY <7>1
          <6>3. known' = {k \in known : k.state = "ack_pending" \/ k.at >= before}
            BY <4>1, <5>2, <5>4, <5>5 DEF Spared
          <6>4. LedgerPromised!Prune(e.at)
            BY <6>2, <6>3 DEF LedgerPromised!Prune
          <6>5. QED
            BY <4>1, <6>4 DEF LedgerPromised!Next, LedgerPromised!Remembers
        <5>8. QED
          BY <5>6, <5>7
      <4>3. CASE subject[o] # NoOrder
        <5>1. PICK e \in Entry : Until(found, e.at) /\ out[o] = WithRecord(found, e)
          BY <3>1, <3>3, <4>3 DEF Plans
        <5>2. PICK new \in Seq(Entry) : new = WithRecord(found, e) /\ Tidy(new)
          BY <3>3, <5>1, RenewedIs
        <5>3. read' = new
          BY <3>2, <5>1, <5>2, ReadNext
        <5>4. known' = EntriesOf(WithRecord(found, e))
          BY <5>2, <5>3 DEF EntriesOf
        <5>5. PICK kept :
                /\ kept = {k \in known : k.job # e.job}
                /\ \/ /\ Cardinality(kept) < LedgerSize
                      /\ EntriesOf(WithRecord(found, e)) = kept \cup {e}
                   \/ /\ Cardinality(kept) = LedgerSize
                      /\ \E oldest \in kept :
                           /\ \A k \in kept : oldest.at <= k.at
                           /\ EntriesOf(WithRecord(found, e)) = (kept \ {oldest}) \cup {e}
          BY <3>3, <4>1, <5>1, RenewedKnown
        <5>6. LedgerPromised!Record(e)
          BY <5>4, <5>5, PromiseCounts DEF LedgerPromised!Record
        <5>7. QED
          BY <4>1, <5>6 DEF LedgerPromised!Next, LedgerPromised!Remembers
      <4>4. QED
        BY <4>2, <4>3
    <3>6. QED
      BY <3>4, <3>5
  <2>5. ASSUME NEW o \in Ops, writeFill(o)
        PROVE  LedgerPromised!Next \/ (known' = known /\ unread' = unread)
    <3>1. fd[o] = "tmp" /\ blind' = blind
      BY <2>5 DEF writeFill, AloneInv, OwnTmp
    <3>2. file' = file
      BY <2>5, <3>1 DEF writeFill
    <3>3. QED
      BY <2>1, <3>1, <3>2
  <2>6. ASSUME NEW o \in Ops, NEW seen, Finds(o, seen), file' = file
        PROVE  LedgerPromised!Next \/ (known' = known /\ unread' = unread)
    <3>1. CASE blind' = blind
      BY <2>1, <2>6, <3>1
    <3>2. CASE blind' = blind \cup {o}
      <4>1. unread'
        BY <3>2
      <4>2. CASE unread
        BY <2>1, <2>6, <4>1, <4>2
      <4>3. CASE ~unread
        BY <2>1, <2>6, <4>1, <4>3 DEF LedgerPromised!Next, LedgerPromised!CannotRead
      <4>4. QED
        BY <4>2, <4>3
    <3>3. QED
      BY <2>6, <3>1, <3>2 DEF Finds
  <2>7. ASSUME NEW o \in Ops, OpStep(o)
        PROVE  LedgerPromised!Next \/ (known' = known /\ unread' = unread)
    <3>1. CASE writeOpen(o)
      BY <2>1, <3>1 DEF writeOpen
    <3>2. CASE writeFails(o)
      BY <2>1, <2>3, <3>2 DEF writeFails, Done, files
    <3>3. CASE \E e \in Entry : record(o, e)
      <4>1. PICK seen : Finds(o, seen) /\ file' = file
        BY <3>3 DEF record, Starts, files
      <4>2. QED
        BY <2>6, <4>1
    <3>4. CASE \E before \in 0..MaxClock : prune(o, before)
      <4>1. PICK seen : Finds(o, seen) /\ file' = file
        BY <3>4 DEF prune, Starts, files
      <4>2. QED
        BY <2>6, <4>1
    <3>5. QED
      BY <2>4, <2>5, <2>7, <3>1, <3>2, <3>3, <3>4 DEF OpStep
  <2>8. CASE LedgerCrash
    <3>1. PICK o \in Ops : TRUE
      BY <2>8 DEF LedgerCrash
    <3>2. file' = file /\ blind' = blind \ {o}
      BY <2>2, <2>8 DEF LedgerCrash, files
    <3>3. QED
      BY <2>1, <2>3, <3>2
  <2>9. CASE Tick \/ UNCHANGED ledgerVars
    BY <2>1, <2>9 DEF Tick, ledgerVars, files
  <2>10. QED
    BY <2>7, <2>8, <2>9, LedgerSteps
<1>3. QED
  BY <1>1, <1>2, AloneInvHolds, PTL DEF LedgerSpec, KeepsLedgerPromise, LedgerPromised!Spec, LedgerPromised!ledger
-----------------------------------------------------------------------------
(* Beside the executor the ledger behaves as it does by itself, and the    *)
(* executor as well.                                                       *)
LEMMA DeliveryRunsBoth == BothSpec => Spec /\ LedgerSpec
<1>1. BothInit => Init /\ LedgerInit
  BY DEF BothInit
<1>2. [BothNext]_<<vars, ledgerVars>> => [Next]_vars /\ [LedgerNext]_ledgerVars
  BY DEF BothNext
<1>3. QED
  BY <1>1, <1>2, PTL DEF BothSpec, Spec, LedgerSpec

(* The variables of the executor and of the ledger keep their types.       *)
THEOREM DeliveryTypeCorrect == BothSpec => []DeliveryTypeOK
<1>1. TypeOK /\ LedgerTypeOK => DeliveryTypeOK
  BY DEF DeliveryTypeOK
<1>2. QED
  BY <1>1, DeliveryRunsBoth, TypeCorrect, LedgerTypeCorrect, PTL
=============================================================================
