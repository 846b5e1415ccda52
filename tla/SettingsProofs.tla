--------------------------- MODULE SettingsProofs ---------------------------
(***************************************************************************)
(* Theorems about PrinterSettings for any printers and configurations, any *)
(* number of requests and any number of faults.                            *)
(***************************************************************************)
EXTENDS PrinterSettings, SelectionProofs

(***************************************************************************)
(* What the lists of printers are that PrinterProfiles computes            *)
(***************************************************************************)
DistinctIds(ps) == \A k, m \in 1..Len(ps) : ps[k].id = ps[m].id => k = m

(* An element of a list of printers, and the IDs in it *)
LEMMA ListFacts ==
  ASSUME NEW ps \in Seq(Profile)
  PROVE  /\ Len(ps) \in Nat /\ DOMAIN ps = 1..Len(ps)
         /\ \A k \in 1..Len(ps) : ps[k] \in Profile /\ ps[k].id \in Ids /\ ps[k].value \in Values
         /\ \A i : i \in IdsOf(ps) <=> \E k \in 1..Len(ps) : ps[k].id = i
         /\ IdsOf(ps) \subseteq Ids
         /\ ps = <<>> <=> IdsOf(ps) = {}
<1>1. Len(ps) \in Nat /\ DOMAIN ps = 1..Len(ps)
  BY LenProperties
<1>2. \A k \in 1..Len(ps) : ps[k] \in Profile
  BY ElementOfSeq
<1>3. \A k \in 1..Len(ps) : ps[k].id \in Ids /\ ps[k].value \in Values
  BY <1>2 DEF Profile
<1>4. \A i : i \in IdsOf(ps) <=> \E k \in 1..Len(ps) : ps[k].id = i
  BY <1>1 DEF IdsOf
<1>5. ps = <<>> <=> IdsOf(ps) = {}
  <2>1. ASSUME ps # <<>>
        PROVE  1 \in 1..Len(ps)
    BY <1>1, <2>1, EmptySeq
  <2>2. ASSUME ps = <<>>
        PROVE  1..Len(ps) = {}
    BY <2>2
  <2>3. QED
    BY <1>4, <2>1, <2>2
<1>6. QED
  BY <1>1, <1>2, <1>3, <1>4, <1>5

(* A printer is a record of its ID and its configuration. *)
LEMMA ProfileFacts ==
  ASSUME NEW p \in Profile, NEW i
  PROVE  /\ p \in [id : {i}, value : Values] <=> p.id = i
         /\ p \in [id : Ids \ {i}, value : Values] <=> p.id # i
BY DEF Profile

(* find(): in a list without repetitions, the configuration of a printer *)
(* is the one beside its ID.                                             *)
LEMMA ValueIsBeside ==
  ASSUME NEW ps \in Seq(Profile), DistinctIds(ps), NEW k \in 1..Len(ps)
  PROVE  ValueOf(ps, ps[k].id) = ps[k].value
<1>1. PICK i : i = ps[k].id
  OBVIOUS
<1>2. PICK Mine : Mine = [id : {i}, value : Values]
  OBVIOUS
<1> DEFINE sel == Selected(ps, Mine)
<1>4. /\ sel \in Seq(Profile) /\ sel \in Seq(Profile \cap Mine)
      /\ \A x : (\E n \in 1..Len(sel) : sel[n] = x)
                 <=> (x \in Mine /\ \E n \in 1..Len(ps) : ps[n] = x)
  <2>1. sel \in Seq(Profile) /\ sel \in Seq(Profile \cap Mine)
    BY SelectedElements
  <2>2. \A x : (\E n \in 1..Len(sel) : sel[n] = x)
                <=> (x \in Mine /\ \E n \in 1..Len(ps) : ps[n] = x)
    BY SelectedElements
  <2>3. QED
    BY <2>1, <2>2
<1>3. sel = Selected(ps, Mine)
  OBVIOUS
<1> HIDE DEF sel
<1>5. ps[k] \in Mine
  BY <1>1, <1>2, ListFacts, ProfileFacts
<1>6. PICK n \in 1..Len(sel) : sel[n] = ps[k]
  BY <1>4, <1>5
<1>7. 1 \in 1..Len(sel)
  BY <1>4, <1>6, LenProperties
<1>8. PICK m \in 1..Len(ps) : ps[m] = sel[1] /\ sel[1] \in Mine
  BY <1>4, <1>7
<1>9. ps[m].id = i
  BY <1>2, <1>8, ListFacts, ProfileFacts
<1>10. m = k
  BY <1>1, <1>9 DEF DistinctIds
<1>11. QED
  BY <1>1, <1>2, <1>3, <1>8, <1>10 DEF ValueOf

(* The configuration stored for a printer is one. *)
LEMMA ValueTyped ==
  ASSUME NEW ps \in Seq(Profile), DistinctIds(ps), NEW i \in IdsOf(ps)
  PROVE  ValueOf(ps, i) \in Values
<1>1. PICK k \in 1..Len(ps) : ps[k].id = i
  BY ListFacts
<1>2. QED
  BY <1>1, ListFacts, ValueIsBeside

(* filter(): the other printers, with what they had *)
LEMMA OthersAre ==
  ASSUME NEW ps \in Seq(Profile), DistinctIds(ps), NEW i \in Ids
  PROVE  \E others \in Seq(Profile) :
           /\ others = Others(ps, i) /\ DistinctIds(others)
           /\ IdsOf(others) = IdsOf(ps) \ {i}
           /\ \A k \in 1..Len(others) : \E m \in 1..Len(ps) : ps[m] = others[k]
           /\ \A j \in IdsOf(others) : ValueOf(others, j) = ValueOf(ps, j)
<1>1. PICK Rest : Rest = [id : Ids \ {i}, value : Values]
  OBVIOUS
<1> DEFINE sel == Selected(ps, Rest)
<1>3. Others(ps, i) = sel
  BY <1>1 DEF Others
<1>4. \A k, m \in 1..Len(ps) : ps[k] = ps[m] => k = m
  BY DEF DistinctIds
<1>5. /\ sel \in Seq(Profile)
      /\ \A x : (\E n \in 1..Len(sel) : sel[n] = x)
                 <=> (x \in Rest /\ \E n \in 1..Len(ps) : ps[n] = x)
      /\ \A k, m \in 1..Len(sel) : sel[k] = sel[m] => k = m
  <2>1. sel \in Seq(Profile)
    BY SelectedElements
  <2>2. \A x : (\E n \in 1..Len(sel) : sel[n] = x)
                <=> (x \in Rest /\ \E n \in 1..Len(ps) : ps[n] = x)
    BY SelectedElements
  <2>3. \A k, m \in 1..Len(sel) : sel[k] = sel[m] => k = m
    BY <1>4, SelectedElements
  <2>4. QED
    BY <2>1, <2>2, <2>3
<1> HIDE DEF sel
<1>6. \A k \in 1..Len(sel) : sel[k] \in Rest /\ \E m \in 1..Len(ps) : ps[m] = sel[k]
  BY <1>5
<1>7. \A m \in 1..Len(ps) : ps[m] \in Rest <=> ps[m].id # i
  BY <1>1, ListFacts, ProfileFacts
<1>8. DistinctIds(sel)
  <2>1. ASSUME NEW k \in 1..Len(sel), NEW l \in 1..Len(sel), sel[k].id = sel[l].id
        PROVE  k = l
    <3>1. PICK m \in 1..Len(ps), n \in 1..Len(ps) : ps[m] = sel[k] /\ ps[n] = sel[l]
      BY <1>6
    <3>2. m = n
      BY <2>1, <3>1 DEF DistinctIds
    <3>3. QED
      BY <1>5, <3>1, <3>2
  <2>2. QED
    BY <2>1 DEF DistinctIds
<1>9. IdsOf(sel) = IdsOf(ps) \ {i}
  <2>1. ASSUME NEW j \in IdsOf(sel)
        PROVE  j \in IdsOf(ps) \ {i}
    <3>1. PICK k \in 1..Len(sel) : sel[k].id = j
      BY <1>5, ListFacts
    <3>2. PICK m \in 1..Len(ps) : ps[m] = sel[k]
      BY <1>6
    <3>3. ps[m].id = j /\ j # i
      BY <1>6, <1>7, <3>1, <3>2
    <3>4. QED
      BY <3>3, ListFacts
  <2>2. ASSUME NEW j \in IdsOf(ps), j # i
        PROVE  j \in IdsOf(sel)
    <3>1. PICK m \in 1..Len(ps) : ps[m].id = j
      BY ListFacts
    <3>2. PICK k \in 1..Len(sel) : sel[k] = ps[m]
      BY <1>5, <1>7, <2>2, <3>1
    <3>3. QED
      BY <1>5, <3>1, <3>2, ListFacts
  <2>3. QED
    BY <2>1, <2>2
<1>10. ASSUME NEW j \in IdsOf(sel)
       PROVE  ValueOf(sel, j) = ValueOf(ps, j)
  <2>1. PICK k \in 1..Len(sel) : sel[k].id = j
    BY <1>5, ListFacts
  <2>2. PICK m \in 1..Len(ps) : ps[m] = sel[k]
    BY <1>6
  <2>3. ValueOf(sel, sel[k].id) = sel[k].value /\ ValueOf(ps, ps[m].id) = ps[m].value
    BY <1>5, <1>8, ValueIsBeside
  <2>4. QED
    BY <2>1, <2>2, <2>3
<1>11. QED
  BY <1>3, <1>5, <1>6, <1>8, <1>9, <1>10

(* A printer that is not in a list can be put at its end. *)
LEMMA OneMore ==
  ASSUME NEW ps \in Seq(Profile), DistinctIds(ps), NEW p \in Profile, p.id \notin IdsOf(ps)
  PROVE  /\ Append(ps, p) \in Seq(Profile) /\ DistinctIds(Append(ps, p))
         /\ IdsOf(Append(ps, p)) = IdsOf(ps) \cup {p.id}
         /\ \A k \in 1..Len(Append(ps, p)) :
              Append(ps, p)[k] = p \/ \E m \in 1..Len(ps) : ps[m] = Append(ps, p)[k]
         /\ ValueOf(Append(ps, p), p.id) = p.value
         /\ \A j \in IdsOf(ps) : ValueOf(Append(ps, p), j) = ValueOf(ps, j)
<1>1. PICK l \in Nat : l = Len(ps)
  BY ListFacts
<1>2. PICK more : more = Append(ps, p)
  OBVIOUS
<1>3. /\ more \in Seq(Profile) /\ Len(more) = l + 1
      /\ \A k \in 1..l : more[k] = ps[k]
      /\ more[l + 1] = p
  BY <1>1, <1>2, AppendProperties
<1>4. \A k \in 1..Len(more) : k \in 1..l \/ k = l + 1
  BY <1>1, <1>3
<1>5. \A k \in 1..l : ps[k].id \in IdsOf(ps) /\ ps[k].id # p.id /\ k \in 1..Len(more)
  BY <1>1, <1>3, ListFacts
<1>6. l + 1 \in 1..Len(more)
  BY <1>1, <1>3
<1>7. DistinctIds(more)
  <2>1. ASSUME NEW k \in 1..Len(more), NEW m \in 1..Len(more), more[k].id = more[m].id
        PROVE  k = m
    <3>1. CASE k \in 1..l /\ m \in 1..l
      BY <1>1, <1>3, <2>1, <3>1 DEF DistinctIds
    <3>2. CASE k = l + 1 \/ m = l + 1
      BY <1>3, <1>4, <1>5, <2>1, <3>2
    <3>3. QED
      BY <1>4, <3>1, <3>2
  <2>2. QED
    BY <2>1 DEF DistinctIds
<1>8. ASSUME NEW j
      PROVE  j \in IdsOf(more) <=> j \in IdsOf(ps) \cup {p.id}
  <2>1. ASSUME j \in IdsOf(more)
        PROVE  j \in IdsOf(ps) \cup {p.id}
    <3>1. PICK k \in 1..Len(more) : more[k].id = j
      BY <1>3, <2>1, ListFacts
    <3>2. QED
      BY <1>3, <1>4, <1>5, <3>1
  <2>2. ASSUME j \in IdsOf(ps)
        PROVE  j \in IdsOf(more)
    <3>1. PICK k \in 1..l : ps[k].id = j
      BY <1>1, <2>2, ListFacts
    <3>2. more[k].id = j /\ k \in 1..Len(more)
      BY <1>3, <1>5, <3>1
    <3>3. QED
      BY <1>3, <3>2, ListFacts
  <2>3. p.id \in IdsOf(more)
    BY <1>3, <1>6, ListFacts
  <2>4. QED
    BY <2>1, <2>2, <2>3
<1>9. \A k \in 1..Len(more) : more[k] = p \/ \E m \in 1..Len(ps) : ps[m] = more[k]
  BY <1>1, <1>3, <1>4
<1>10. ValueOf(more, p.id) = p.value
  BY <1>3, <1>6, <1>7, ValueIsBeside
<1>11. ASSUME NEW j \in IdsOf(ps)
       PROVE  ValueOf(more, j) = ValueOf(ps, j)
  <2>1. PICK k \in 1..l : ps[k].id = j
    BY <1>1, ListFacts
  <2>2. ValueOf(more, more[k].id) = more[k].value
    BY <1>3, <1>5, <1>7, ValueIsBeside
  <2>3. ValueOf(ps, ps[k].id) = ps[k].value
    BY <1>1, ValueIsBeside
  <2>4. QED
    BY <1>3, <2>1, <2>2, <2>3
<1>12. QED
  BY <1>2, <1>3, <1>7, <1>8, <1>9, <1>10, <1>11
-----------------------------------------------------------------------------
(***************************************************************************)
(* What the entries are that the requests of the window write.  `Sound` is *)
(* Agrees without its functions: no ID twice, an active printer that is    *)
(* stored, and its configuration as the one to print with.                 *)
(***************************************************************************)
Sound(e) ==
  LET ps == ProfilesOf(e) IN
  /\ DistinctIds(ps)
  /\ ps # <<>> => ActiveOf(e) \in IdsOf(ps) /\ ReadOf(e) = ValueOf(ps, ActiveOf(e))

(* What is read of an entry is a list of printers and one of them as the   *)
(* active one.                                                             *)
LEMMA EntryFacts ==
  ASSUME NEW e \in Entry
  PROVE  /\ ProfilesOf(e) \in Seq(Profile) /\ ActiveOf(e) \in Ids \cup {NoId}
         /\ ProfilesOf(e) # <<>> => ActiveOf(e) \in IdsOf(ProfilesOf(e))
         /\ ProfilesOf(e) = <<>> => ActiveOf(e) = NoId
<1>1. ProfilesOf(e) \in Seq(Profile)
  <2>1. CASE e.value = NoValue
    <3>1. <<>> \in Seq(Profile)
      OBVIOUS
    <3>2. QED
      BY <2>1, <3>1 DEF ProfilesOf
  <2>2. CASE e.value # NoValue /\ e.profiles # <<>>
    <3>1. e.profiles \in Seq(Profile)
      BY DEF Entry
    <3>2. QED
      BY <2>2, <3>1 DEF ProfilesOf
  <2>3. CASE e.value # NoValue /\ e.profiles = <<>>
    <3>1. PICK p : p = [id |-> IF e.active = NoId THEN Primary ELSE e.active, value |-> e.value]
      OBVIOUS
    <3>2. (IF e.active = NoId THEN Primary ELSE e.active) \in Ids /\ e.value \in Values
      BY <2>3, ProfilesAssumption DEF Entry
    <3>3. p \in Profile
      BY <3>1, <3>2 DEF Profile
    <3>4. ProfilesOf(e) = <<p>>
      BY <2>3, <3>1 DEF ProfilesOf
    <3>5. QED
      BY <3>3, <3>4
  <2>4. QED
    BY <2>1, <2>2, <2>3
<1>2. PICK ps \in Seq(Profile) : ps = ProfilesOf(e)
  BY <1>1
<1>3. ps = <<>> => ActiveOf(e) = NoId
  BY <1>2 DEF ActiveOf
<1>4. ASSUME ps # <<>>
      PROVE  ActiveOf(e) \in IdsOf(ps)
  <2>1. 1 \in 1..Len(ps)
    BY <1>4, ListFacts, EmptySeq
  <2>2. ps[1].id \in IdsOf(ps)
    BY <2>1, ListFacts
  <2>3. QED
    BY <1>2, <1>4, <2>2 DEF ActiveOf
<1>5. QED
  BY <1>2, <1>3, <1>4, ListFacts

(* Sound says of an entry what the model says of it. *)
LEMMA SoundAgrees ==
  ASSUME NEW e \in Entry
  PROVE  Sound(e) <=> Agrees(e)
<1>1. PICK ps \in Seq(Profile) : ps = ProfilesOf(e)
  BY EntryFacts
<1>2. PICK ids : ids = [k \in DOMAIN ps |-> ps[k].id]
  OBVIOUS
<1>3. DOMAIN ids = 1..Len(ps) /\ \A k \in 1..Len(ps) : ids[k] = ps[k].id
  BY <1>2, ListFacts
<1>4. IsInjective(ids) <=> DistinctIds(ps)
  BY <1>3 DEF IsInjective, DistinctIds
<1>5. QED
  BY <1>1, <1>2, <1>4 DEF Sound, Agrees

(* An entry without printers *)
LEMMA NoEntryIsSound ==
  NoEntry \in Entry /\ ProfilesOf(NoEntry) = <<>> /\ ActiveOf(NoEntry) = NoId /\ Sound(NoEntry)
<1>1. <<>> \in Seq(Profile)
  OBVIOUS
<1>2. NoEntry \in Entry /\ ProfilesOf(NoEntry) = <<>>
  BY <1>1 DEF NoEntry, Entry, ProfilesOf
<1>3. ActiveOf(NoEntry) = NoId
  BY <1>2, EntryFacts
<1>4. DistinctIds(<<>>)
  BY DEF DistinctIds
<1>5. QED
  BY <1>2, <1>3, <1>4 DEF Sound

(* An entry of an older version has the one printer that it was for. *)
LEMMA OlderIsSound ==
  ASSUME NEW v \in Values
  PROVE  /\ Older(v) \in Entry /\ Older(v).value = v
         /\ ProfilesOf(Older(v)) = <<[id |-> Primary, value |-> v]>>
         /\ Sound(Older(v))
<1>1. <<>> \in Seq(Profile) /\ v # NoValue
  BY ProfilesAssumption
<1>2. Older(v) \in Entry /\ Older(v).value = v
  BY <1>1 DEF Older, Entry
<1>3. PICK p : p = [id |-> Primary, value |-> v]
  OBVIOUS
<1>4. ProfilesOf(Older(v)) = <<p>>
  BY <1>1, <1>3 DEF Older, ProfilesOf
<1>5. PICK ps \in Seq(Profile) : ps = ProfilesOf(Older(v))
  BY <1>2, EntryFacts
<1>6. ps = <<p>> /\ Len(ps) = 1 /\ ps[1] = p /\ p.id = Primary /\ p.value = v
  BY <1>3, <1>4, <1>5
<1>7. DistinctIds(ps)
  BY <1>6 DEF DistinctIds
<1>8. IdsOf(ps) = {Primary} /\ ps # <<>>
  <2>1. \A i : i \in IdsOf(ps) <=> i = Primary
    <3>1. \A k \in 1..Len(ps) : ps[k].id = Primary
      BY <1>6
    <3>2. 1 \in 1..Len(ps)
      BY <1>6
    <3>3. \A i : i \in IdsOf(ps) <=> \E k \in 1..Len(ps) : ps[k].id = i
      BY ListFacts
    <3>4. QED
      BY <3>1, <3>2, <3>3
  <2>2. QED
    BY <2>1, ListFacts
<1>9. ActiveOf(Older(v)) = Primary
  BY <1>2, <1>5, <1>8, EntryFacts
<1>10. ValueOf(ps, Primary) = v
  <2>1. 1 \in 1..Len(ps)
    BY <1>6
  <2>2. ValueOf(ps, ps[1].id) = ps[1].value
    BY <1>7, <2>1, ValueIsBeside
  <2>3. QED
    BY <1>6, <2>2
<1>11. QED
  BY <1>2, <1>3, <1>4, <1>5, <1>7, <1>8, <1>9, <1>10 DEF Sound, ReadOf

(* withActive: an entry with one of its printers as the active one *)
LEMMA WithActiveIs ==
  ASSUME NEW ps \in Seq(Profile), DistinctIds(ps), NEW i \in IdsOf(ps)
  PROVE  /\ WithActive(ps, i) \in Entry /\ Sound(WithActive(ps, i))
         /\ ProfilesOf(WithActive(ps, i)) = ps /\ ActiveOf(WithActive(ps, i)) = i
<1>1. PICK v \in Values : v = ValueOf(ps, i)
  BY ValueTyped
<1>2. v # NoValue /\ i \in Ids /\ ps # <<>>
  BY ProfilesAssumption, ListFacts
<1>3. PICK e : e = [value |-> v, profiles |-> ps, active |-> i]
  OBVIOUS
<1>4. e \in Entry
  BY <1>2, <1>3 DEF Entry
<1>5. ProfilesOf(e) = ps
  BY <1>2, <1>3 DEF ProfilesOf
<1>6. ActiveOf(e) = i
  BY <1>2, <1>3, <1>5 DEF ActiveOf
<1>7. Sound(e)
  BY <1>1, <1>3, <1>5, <1>6 DEF Sound, ReadOf
<1>8. QED
  BY <1>1, <1>3, <1>4, <1>5, <1>6, <1>7 DEF WithActive

(* What a new entry has from an old one, or from the request *)
ComesFrom(new, e, i, v) ==
  \A k \in 1..Len(ProfilesOf(new)) :
    \/ ProfilesOf(new)[k] = [id |-> i, value |-> v]
    \/ \E m \in 1..Len(ProfilesOf(e)) : ProfilesOf(e)[m] = ProfilesOf(new)[k]

(* A saved printer is stored with its new configuration and the others are *)
(* as they were.                                                           *)
LEMMA WithProfileIs ==
  ASSUME NEW e \in Entry, Sound(e), NEW i \in Ids, NEW v \in Values, NEW activate \in BOOLEAN
  PROVE  LET new == WithProfile(e, i, v, activate) IN
         /\ new \in Entry /\ Sound(new) /\ ComesFrom(new, e, i, v)
         /\ IdsOf(ProfilesOf(new)) = IdsOf(ProfilesOf(e)) \cup {i}
         /\ ValueOf(ProfilesOf(new), i) = v
         /\ \A j \in IdsOf(ProfilesOf(e)) \ {i} :
              ValueOf(ProfilesOf(new), j) = ValueOf(ProfilesOf(e), j)
         /\ ActiveOf(new) = IF activate \/ ActiveOf(e) = NoId THEN i ELSE ActiveOf(e)
<1>1. PICK ps \in Seq(Profile) : ps = ProfilesOf(e)
  BY EntryFacts
<1>2. DistinctIds(ps)
  BY <1>1 DEF Sound
<1>3. PICK p \in Profile : p = [id |-> i, value |-> v] /\ p.id = i /\ p.value = v
  <2>1. [id |-> i, value |-> v] \in Profile
    BY DEF Profile
  <2>2. QED
    BY <2>1
<1>4. PICK others \in Seq(Profile) :
        /\ others = Others(ps, i) /\ DistinctIds(others)
        /\ IdsOf(others) = IdsOf(ps) \ {i}
        /\ \A k \in 1..Len(others) : \E m \in 1..Len(ps) : ps[m] = others[k]
        /\ \A j \in IdsOf(others) : ValueOf(others, j) = ValueOf(ps, j)
  BY <1>2, OthersAre
<1>5. DistinctIds(others) /\ IdsOf(others) = IdsOf(ps) \ {i}
  BY <1>4
<1>6. PICK more \in Seq(Profile) : more = Append(others, p)
  BY <1>3, <1>4, <1>5, OneMore
<1>7. /\ DistinctIds(more) /\ IdsOf(more) = IdsOf(others) \cup {i}
      /\ \A k \in 1..Len(more) : more[k] = p \/ \E m \in 1..Len(others) : others[m] = more[k]
      /\ ValueOf(more, i) = v
      /\ \A j \in IdsOf(others) : ValueOf(more, j) = ValueOf(others, j)
  BY <1>3, <1>4, <1>5, <1>6, OneMore
<1>8. IdsOf(more) = IdsOf(ps) \cup {i}
  BY <1>5, <1>7
<1>9. PICK now : now = IF activate \/ ActiveOf(e) = NoId THEN i ELSE ActiveOf(e)
  OBVIOUS
<1>10. now \in IdsOf(more)
  BY <1>1, <1>8, <1>9, EntryFacts
<1>11. PICK new : new = WithActive(more, now)
  OBVIOUS
<1>12. WithProfile(e, i, v, activate) = new
  BY <1>1, <1>3, <1>4, <1>6, <1>9, <1>11 DEF WithProfile
<1>13. new \in Entry /\ Sound(new) /\ ProfilesOf(new) = more /\ ActiveOf(new) = now
  BY <1>7, <1>10, <1>11, WithActiveIs
<1>14. ComesFrom(new, e, i, v)
  BY <1>1, <1>3, <1>4, <1>7, <1>13 DEF ComesFrom
<1>15. \A j \in IdsOf(ps) \ {i} : ValueOf(more, j) = ValueOf(ps, j)
  BY <1>4, <1>7
<1>16. QED
  BY <1>1, <1>7, <1>8, <1>9, <1>12, <1>13, <1>14, <1>15

(* Activating a printer changes nothing but which one is active. *)
LEMMA WithActivatedIs ==
  ASSUME NEW e \in Entry, Sound(e), NEW i \in IdsOf(ProfilesOf(e))
  PROVE  LET new == WithActivated(e, i) IN
         /\ new \in Entry /\ Sound(new)
         /\ ProfilesOf(new) = ProfilesOf(e) /\ ActiveOf(new) = i
<1>1. ProfilesOf(e) \in Seq(Profile) /\ DistinctIds(ProfilesOf(e))
  BY EntryFacts DEF Sound
<1>2. QED
  BY <1>1, WithActiveIs DEF WithActivated

(* Deleting a printer leaves the others as they were. *)
LEMMA WithoutProfileIs ==
  ASSUME NEW e \in Entry, Sound(e), NEW i \in IdsOf(ProfilesOf(e))
  PROVE  LET new == WithoutProfile(e, i) IN
         /\ new \in Entry /\ Sound(new)
         /\ \A k \in 1..Len(ProfilesOf(new)) :
              \E m \in 1..Len(ProfilesOf(e)) : ProfilesOf(e)[m] = ProfilesOf(new)[k]
         /\ IdsOf(ProfilesOf(new)) = IdsOf(ProfilesOf(e)) \ {i}
         /\ \A j \in IdsOf(ProfilesOf(new)) :
              ValueOf(ProfilesOf(new), j) = ValueOf(ProfilesOf(e), j)
         /\ ActiveOf(e) \in IdsOf(ProfilesOf(new)) => ActiveOf(new) = ActiveOf(e)
<1>1. PICK ps \in Seq(Profile) : ps = ProfilesOf(e)
  BY EntryFacts
<1>2. DistinctIds(ps) /\ i \in Ids
  BY <1>1, ListFacts DEF Sound
<1>3. PICK others \in Seq(Profile) :
        /\ others = Others(ps, i) /\ DistinctIds(others)
        /\ IdsOf(others) = IdsOf(ps) \ {i}
        /\ \A k \in 1..Len(others) : \E m \in 1..Len(ps) : ps[m] = others[k]
        /\ \A j \in IdsOf(others) : ValueOf(others, j) = ValueOf(ps, j)
  BY <1>2, OthersAre
<1>4. DistinctIds(others) /\ IdsOf(others) = IdsOf(ps) \ {i}
  BY <1>3
<1>5. PICK new : new = WithoutProfile(e, i)
  OBVIOUS
<1>6. CASE others = <<>>
  <2>1. new = NoEntry
    BY <1>1, <1>3, <1>5, <1>6 DEF WithoutProfile
  <2>2. new \in Entry /\ Sound(new) /\ ProfilesOf(new) = others
    BY <1>6, <2>1, NoEntryIsSound
  <2>3. IdsOf(others) = {}
    BY <1>6, ListFacts
  <2>4. QED
    BY <1>1, <1>3, <1>5, <2>2, <2>3
<1>7. CASE others # <<>>
  <2>1. PICK now : now = IF ActiveOf(e) \in IdsOf(others) THEN ActiveOf(e) ELSE others[1].id
    OBVIOUS
  <2>2. 1 \in 1..Len(others)
    BY <1>7, ListFacts, EmptySeq
  <2>3. now \in IdsOf(others)
    BY <2>1, <2>2, ListFacts
  <2>4. new = WithActive(others, now)
    BY <1>1, <1>3, <1>5, <1>7, <2>1 DEF WithoutProfile
  <2>5. new \in Entry /\ Sound(new) /\ ProfilesOf(new) = others /\ ActiveOf(new) = now
    BY <1>4, <2>3, <2>4, WithActiveIs
  <2>6. QED
    BY <1>1, <1>3, <1>5, <2>1, <2>5
<1>8. QED
  BY <1>6, <1>7
-----------------------------------------------------------------------------
(***************************************************************************)
(* PrinterSettings: for any printers, configurations, requests and faults. *)
(*                                                                         *)
(* However requests overlap, what they have computed and what the two      *)
(* files hold is proper: sound, and made of what was asked for.            *)
(***************************************************************************)
MadeOf(e, g) ==
  \A k \in 1..Len(ProfilesOf(e)) : ProfilesOf(e)[k].value \in g[ProfilesOf(e)[k].id]

Given(e) == MadeOf(e, given)

Proper(e) == Sound(e) /\ Given(e)

ProperInv ==
  /\ file # Torn => Proper(file)
  /\ tmp \notin {Torn, Absent} => Proper(tmp)
  /\ \A r \in Requests : Proper(out[r])
  /\ \A r \in Requests :
       phase[r] # "idle" /\ op[r].kind = "save" => op[r].value \in given[op[r].id]

(***************************************************************************)
(* As long as no two requests were under way at one time, a request writes *)
(* what the settings then are to become, its temporary file holds what it  *)
(* has filled in, and what was saved is stored.                            *)
(***************************************************************************)
Writes == {"open", "fill", "rename"}

OneAtATime ==
  /\ \A r, q \in Requests : phase[r] # "idle" /\ phase[q] # "idle" => r = q
  /\ file # Torn

OwnFile(r) ==
  /\ phase[r] = "fill" => fd[r] = "tmp" /\ tmp = Torn
  /\ phase[r] = "rename" => tmp = out[r]

Planned(r) ==
  phase[r] \in Writes =>
    out[r] = Changed(op[r]) /\ (op[r].kind = "save" \/ op[r].id \in Stored)

BecomesActive(r) ==
  phase[r] # "idle" /\ op[r].kind = "save" =>
    /\ phase[r] = "current" => (op[r].activate <=> op[r].id \notin Stored)
    /\ phase[r] # "current" =>
         (op[r].activate <=> (op[r].id \notin Stored \/ ActiveOf(file) = op[r].id))

InHand(r) == OwnFile(r) /\ Planned(r) /\ BecomesActive(r)

SavedIsStored ==
  /\ \A i \in Ids :
       saved[i] # NoValue => i \in Stored /\ ValueOf(ProfilesOf(file), i) = saved[i]
  /\ \A r \in Requests :
       phase[r] # "idle" /\ op[r].kind \in {"save", "delete"} => saved[op[r].id] = NoValue

SerialInv ==
  IF overlapped THEN \A i \in Ids : saved[i] = NoValue
  ELSE OneAtATime /\ (\A r \in Requests : InHand(r)) /\ SavedIsStored

(* The types in three parts *)
FilesTyped == file \in Contents \ {Absent} /\ tmp \in Contents

RequestsTyped ==
  /\ phase \in [Requests -> {"idle", "current", "first", "second", "open", "fill", "rename"}]
  /\ op \in [Requests -> Op]
  /\ out \in [Requests -> Entry]
  /\ fd \in [Requests -> {"tmp", "file", "gone"}]
  /\ \A r \in Requests : fd[r] # "gone" => phase[r] = "fill"

SeenTyped ==
  /\ settingsFaultsLeft \in 0..MaxSettingsFaults
  /\ given \in [Ids -> SUBSET Values]
  /\ saved \in [Ids -> Values \cup {NoValue}] /\ overlapped \in BOOLEAN

(* The type invariant by the files, the requests and the observations *)
LEMMA SettingsTypeParts == SettingsTypeOK => FilesTyped /\ RequestsTyped /\ SeenTyped
BY DEF SettingsTypeOK, FilesTyped, RequestsTyped, SeenTyped

(* The same of the state after a step *)
LEMMA SettingsTypePartsNext == FilesTyped' /\ RequestsTyped' /\ SeenTyped' => SettingsTypeOK'
BY DEF SettingsTypeOK, FilesTyped, RequestsTyped, SeenTyped

(* Files that nobody writes stay of their type. *)
LEMMA FilesTypedStay == FilesTyped /\ UNCHANGED files => FilesTyped'
BY DEF FilesTyped, files

(* What is observed of the requests stays of its type when no step touches *)
(* it.                                                                     *)
LEMMA SeenTypedStay == SeenTyped /\ UNCHANGED <<settingsFaultsLeft, requestsSeen>> => SeenTyped'
BY DEF SeenTyped, requestsSeen

(* The records of requests *)
LEMMA OpFacts ==
  /\ Idle \in Op /\ NoEntry \in Entry
  /\ \A i \in Ids, v \in Values, b \in BOOLEAN :
       [kind |-> "save", id |-> i, value |-> v, activate |-> b] \in Op
  /\ \A i \in Ids : [Idle EXCEPT !.kind = "activate", !.id = i] \in Op
  /\ \A i \in Ids : [Idle EXCEPT !.id = i] \in Op
<1>1. Idle \in Op
  BY ProfilesAssumption DEF Idle, Op
<1>2. \A i \in Ids, v \in Values, b \in BOOLEAN :
        [kind |-> "save", id |-> i, value |-> v, activate |-> b] \in Op
  BY DEF Op
<1>3. \A i \in Ids : [Idle EXCEPT !.kind = "activate", !.id = i] \in Op
  BY <1>1 DEF Idle, Op
<1>4. \A i \in Ids : [Idle EXCEPT !.id = i] \in Op
  BY <1>1 DEF Idle, Op
<1>5. QED
  BY <1>1, <1>2, <1>3, <1>4, NoEntryIsSound

(* The fields of a request *)
LEMMA OpFields ==
  ASSUME NEW o \in Op
  PROVE  /\ o.kind \in {"save", "activate", "delete"} /\ o.id \in Ids
         /\ o.value \in Values \cup {NoValue} /\ o.activate \in BOOLEAN
BY DEF Op

(* What is stored, of a file that can be read *)
LEMMA StoredFacts ==
  ASSUME SettingsTypeOK, file # Torn
  PROVE  /\ file \in Entry /\ Stored = IdsOf(ProfilesOf(file)) /\ Stored \subseteq Ids
         /\ ProfilesOf(file) \in Seq(Profile)
<1>1. file \in Entry
  BY DEF SettingsTypeOK, Contents
<1>2. QED
  BY <1>1, EntryFacts, ListFacts DEF Stored

(* The stored printers are printers. *)
LEMMA StoredIds == SettingsTypeOK => Stored \subseteq Ids
BY StoredFacts DEF Stored

(* What a request computes of a proper file is proper. *)
LEMMA ChangedIsProper ==
  ASSUME SettingsTypeOK, file # Torn, Proper(file), NEW o \in Op,
         o.kind = "save" => o.value \in given[o.id],
         o.kind = "save" \/ o.id \in Stored
  PROVE  Changed(o) \in Entry /\ Proper(Changed(o))
<1>1. file \in Entry /\ Sound(file) /\ o.id \in Ids
  BY StoredFacts, OpFields DEF Proper
<1>2. CASE o.kind = "save"
  <2>1. o.value \in Values /\ o.activate \in BOOLEAN
    BY <1>1, <1>2, OpFields DEF SettingsTypeOK
  <2>2. PICK new : new = WithProfile(file, o.id, o.value, o.activate)
    OBVIOUS
  <2>3. new \in Entry /\ Sound(new) /\ ComesFrom(new, file, o.id, o.value)
    BY <1>1, <2>1, <2>2, WithProfileIs
  <2>4. Given(new)
    <3>1. \A k \in 1..Len(ProfilesOf(new)) :
            ProfilesOf(new)[k].value \in given[ProfilesOf(new)[k].id]
      BY <1>2, <2>3 DEF ComesFrom, Proper, Given, MadeOf
    <3>2. QED
      BY <3>1 DEF Given, MadeOf
  <2>5. Changed(o) = new
    BY <1>2, <2>2 DEF Changed
  <2>6. QED
    BY <2>3, <2>4, <2>5 DEF Proper
<1>3. CASE o.kind = "activate"
  <2>1. o.id \in IdsOf(ProfilesOf(file))
    BY <1>3, StoredFacts
  <2>2. PICK new : new = WithActivated(file, o.id)
    OBVIOUS
  <2>3. new \in Entry /\ Sound(new) /\ ProfilesOf(new) = ProfilesOf(file)
    BY <1>1, <2>1, <2>2, WithActivatedIs
  <2>4. Given(new)
    BY <2>3 DEF Proper, Given, MadeOf
  <2>5. Changed(o) = new
    BY <1>3, <2>2 DEF Changed
  <2>6. QED
    BY <2>3, <2>4, <2>5 DEF Proper
<1>4. CASE o.kind = "delete"
  <2>1. o.id \in IdsOf(ProfilesOf(file))
    BY <1>4, StoredFacts
  <2>2. PICK new : new = WithoutProfile(file, o.id)
    OBVIOUS
  <2>3. /\ new \in Entry /\ Sound(new)
        /\ \A k \in 1..Len(ProfilesOf(new)) :
             \E m \in 1..Len(ProfilesOf(file)) : ProfilesOf(file)[m] = ProfilesOf(new)[k]
    BY <1>1, <2>1, <2>2, WithoutProfileIs
  <2>4. Given(new)
    BY <2>3 DEF Proper, Given, MadeOf
  <2>5. Changed(o) = new
    BY <1>4, <2>2 DEF Changed
  <2>6. QED
    BY <2>3, <2>4, <2>5 DEF Proper
<1>5. QED
  BY <1>2, <1>3, <1>4, OpFields

(* A request that begins: what it was asked for, and what is no longer     *)
(* said to be saved.                                                       *)
Asks(r) ==
  \/ \E i \in Ids, v \in Values : saveConfiguration(r, i, v)
  \/ \E i \in Ids : activateConfiguration(r, i)
  \/ \E i \in Ids : deleteConfiguration(r, i)

(* A request begins with a read, and what it asks to store or to delete is *)
(* not what was last saved any more.                                       *)
LEMMA AskingIs ==
  ASSUME SettingsTypeOK, NEW r \in Requests, Asks(r)
  PROVE  \E o \in Op, at \in {"current", "first"}, Unsaid \in SUBSET Ids :
           /\ Asked(r, o, at) /\ Unsaved(Unsaid)
           /\ o.kind \in {"save", "delete"} => o.id \in Unsaid
           /\ o.kind = "save" =>
                at = "current" /\ (o.activate <=> o.id \notin Stored) /\ o.value \in given'[o.id]
           /\ given' \in [Ids -> SUBSET Values] /\ \A i \in Ids : given[i] \subseteq given'[i]
<1>1. given \in [Ids -> SUBSET Values]
  BY DEF SettingsTypeOK
<1>2. ASSUME NEW i \in Ids, NEW v \in Values, saveConfiguration(r, i, v)
      PROVE  \E o \in Op, at \in {"current", "first"}, Unsaid \in SUBSET Ids :
               /\ Asked(r, o, at) /\ Unsaved(Unsaid)
               /\ o.kind \in {"save", "delete"} => o.id \in Unsaid
               /\ o.kind = "save" =>
                    /\ at = "current" /\ (o.activate <=> o.id \notin Stored)
                    /\ o.value \in given'[o.id]
               /\ given' \in [Ids -> SUBSET Values] /\ \A j \in Ids : given[j] \subseteq given'[j]
  <2>1. given' = [given EXCEPT ![i] = @ \cup {v}] /\ Unsaved({i})
    BY <1>2 DEF saveConfiguration
  <2>2. /\ given' \in [Ids -> SUBSET Values] /\ \A j \in Ids : given[j] \subseteq given'[j]
        /\ v \in given'[i]
    BY <1>1, <2>1
  <2>3. PICK b \in BOOLEAN :
          /\ b <=> i \notin Stored
          /\ Asked(r, [kind |-> "save", id |-> i, value |-> v, activate |-> b], "current")
    <3>1. CASE i \in Stored
      BY <1>2, <3>1 DEF saveConfiguration
    <3>2. CASE i \notin Stored
      BY <1>2, <3>2 DEF saveConfiguration
    <3>3. QED
      BY <3>1, <3>2
  <2>4. PICK o \in Op : o = [kind |-> "save", id |-> i, value |-> v, activate |-> b]
    BY OpFacts
  <2>5. o.kind = "save" /\ o.id = i /\ o.value = v /\ o.activate = b
    BY <2>4
  <2>6. {i} \in SUBSET Ids /\ i \in {i}
    OBVIOUS
  <2>7. QED
    BY <2>1, <2>2, <2>3, <2>4, <2>5, <2>6
<1>3. ASSUME NEW i \in Ids, activateConfiguration(r, i)
      PROVE  \E o \in Op : /\ Asked(r, o, "first") /\ Unsaved({}) /\ o.kind = "activate"
                           /\ given' = given
  <2>1. PICK o \in Op : o = [Idle EXCEPT !.kind = "activate", !.id = i]
    BY OpFacts
  <2>2. o.kind = "activate"
    BY <2>1 DEF Idle
  <2>3. QED
    BY <1>3, <2>1, <2>2 DEF activateConfiguration
<1>4. ASSUME NEW i \in Ids, deleteConfiguration(r, i)
      PROVE  \E o \in Op : /\ Asked(r, o, "first") /\ Unsaved({i}) /\ o.kind = "delete"
                           /\ o.id = i /\ given' = given
  <2>1. PICK o \in Op : o = [Idle EXCEPT !.id = i]
    BY OpFacts
  <2>2. o.kind = "delete" /\ o.id = i
    BY <2>1 DEF Idle
  <2>3. QED
    BY <1>4, <2>1, <2>2 DEF deleteConfiguration
<1>5. CASE \E i \in Ids, v \in Values : saveConfiguration(r, i, v)
  BY <1>2, <1>5
<1>6. CASE \E i \in Ids : activateConfiguration(r, i)
  <2>1. PICK o \in Op : /\ Asked(r, o, "first") /\ Unsaved({}) /\ o.kind = "activate"
                        /\ given' = given
    BY <1>3, <1>6
  <2>2. {} \in SUBSET Ids /\ "first" \in {"current", "first"}
    OBVIOUS
  <2>3. QED
    BY <1>1, <2>1, <2>2
<1>7. CASE \E i \in Ids : deleteConfiguration(r, i)
  <2>1. PICK i \in Ids, o \in Op : /\ Asked(r, o, "first") /\ Unsaved({i}) /\ o.kind = "delete"
                                   /\ o.id = i /\ given' = given
    BY <1>4, <1>7
  <2>2. {i} \in SUBSET Ids /\ "first" \in {"current", "first"} /\ i \in {i}
    OBVIOUS
  <2>3. QED
    BY <1>1, <2>1, <2>2
<1>8. QED
  BY <1>5, <1>6, <1>7 DEF Asks

(* A request that ends, and the state of the others *)
LEMMA DoneTyped ==
  ASSUME RequestsTyped, NEW r \in Requests, Done(r)
  PROVE  RequestsTyped'
BY OpFacts DEF RequestsTyped, Done

(* The steps by what a request does *)
Step(r) ==
  \/ Asks(r) \/ readCurrent(r) \/ readFirst(r) \/ readSecond(r)
  \/ writeOpen(r) \/ writeFill(r) \/ writeRename(r) \/ Rejected(r)

(* Every step is one of a request or a crash. *)
LEMMA SettingsSteps ==
  ASSUME [SettingsNext]_settingsVars
  PROVE  (\E r \in Requests : Step(r)) \/ CrashInRequest \/ UNCHANGED settingsVars
<1>1. CASE SettingsNext
  <2>1. CASE CrashInRequest
    BY <2>1
  <2>2. CASE ~CrashInRequest
    <3>1. PICK r \in Requests :
            \/ \E i \in Ids, v \in Values : saveConfiguration(r, i, v)
            \/ \E i \in Ids : activateConfiguration(r, i)
            \/ \E i \in Ids : deleteConfiguration(r, i)
            \/ readCurrent(r) \/ readFirst(r) \/ readSecond(r)
            \/ writeOpen(r) \/ writeFill(r) \/ writeRename(r) \/ Rejected(r)
      BY <1>1, <2>2, Zenon DEF SettingsNext
    <3>2. Step(r)
      BY <3>1, Zenon DEF Step, Asks
    <3>3. QED
      BY <3>2
  <2>3. QED
    BY <2>1, <2>2
<1>2. QED
  BY <1>1

(* Every step keeps the types; what is written is an entry because what is *)
(* read is proper.                                                         *)
LEMMA SettingsTypeStep ==
  SettingsTypeOK /\ ProperInv /\ [SettingsNext]_settingsVars => SettingsTypeOK'
<1> SUFFICES ASSUME SettingsTypeOK, ProperInv, [SettingsNext]_settingsVars
             PROVE  SettingsTypeOK'
  OBVIOUS
<1>1. FilesTyped /\ RequestsTyped /\ SeenTyped
  BY SettingsTypeParts
<1>2. MaxSettingsFaults \in Nat
  BY SettingsAssumption
<1>3. ASSUME NEW r \in Requests, Asks(r)
      PROVE  SettingsTypeOK'
  <2>1. PICK o \in Op, at \in {"current", "first"}, Unsaid \in SUBSET Ids :
          Asked(r, o, at) /\ Unsaved(Unsaid) /\ given' \in [Ids -> SUBSET Values]
    BY <1>3, AskingIs
  <2>2. FilesTyped'
    BY <1>1, <2>1, FilesTypedStay DEF Asked
  <2>3. RequestsTyped'
    BY <1>1, <2>1 DEF Asked, RequestsTyped
  <2>4. overlapped' \in BOOLEAN /\ settingsFaultsLeft' = settingsFaultsLeft
    BY <2>1 DEF Asked
  <2>5. saved' \in [Ids -> Values \cup {NoValue}]
    BY <1>1, <2>1 DEF Unsaved, SeenTyped
  <2>6. SeenTyped'
    BY <1>1, <2>1, <2>4, <2>5 DEF SeenTyped
  <2>7. QED
    BY <2>2, <2>3, <2>6, SettingsTypePartsNext
<1>4. ASSUME NEW r \in Requests, readCurrent(r)
      PROVE  SettingsTypeOK'
  <2>1. FilesTyped' /\ SeenTyped'
    BY <1>1, <1>4, FilesTypedStay, SeenTypedStay DEF readCurrent
  <2>2. op[r] \in Op
    BY <1>1 DEF RequestsTyped
  <2>3. op' \in [Requests -> Op]
    <3>1. PICK b \in BOOLEAN : b = (op[r].activate \/ ActiveOf(file) = op[r].id)
      OBVIOUS
    <3>2. op' = [op EXCEPT ![r].activate = b]
      BY <1>4, <3>1, Zenon DEF readCurrent
    <3>3. [op[r] EXCEPT !.activate = b] \in Op
      BY <2>2 DEF Op
    <3>4. QED
      BY <1>1, <3>2, <3>3 DEF RequestsTyped
  <2>4. RequestsTyped'
    BY <1>1, <1>4, <2>3 DEF readCurrent, RequestsTyped
  <2>5. QED
    BY <2>1, <2>4, SettingsTypePartsNext
<1>5. ASSUME NEW r \in Requests, readFirst(r)
      PROVE  SettingsTypeOK'
  <2>1. FilesTyped' /\ SeenTyped'
    BY <1>1, <1>5, FilesTypedStay, SeenTypedStay DEF readFirst
  <2>2. RequestsTyped'
    <3>1. CASE Done(r)
      BY <1>1, <3>1, DoneTyped
    <3>2. CASE phase' = [phase EXCEPT ![r] = "second"] /\ UNCHANGED <<op, out, fd>>
      BY <1>1, <1>5, <3>2 DEF readFirst, RequestsTyped
    <3>3. QED
      BY <1>5, <3>1, <3>2 DEF readFirst
  <2>3. QED
    BY <2>1, <2>2, SettingsTypePartsNext
<1>13. ASSUME NEW r \in Requests, readSecond(r)
       PROVE  SettingsTypeOK'
  <2>1. FilesTyped' /\ SeenTyped'
    BY <1>1, <1>13, FilesTypedStay, SeenTypedStay DEF readSecond
  <2>2. RequestsTyped'
    <3>1. CASE Done(r)
      BY <1>1, <3>1, DoneTyped
    <3>2. CASE ~Done(r)
      <4>1. /\ phase[r] = "second" /\ file # Torn
            /\ op[r].kind = "save" \/ op[r].id \in Stored
            /\ phase' = [phase EXCEPT ![r] = "open"]
            /\ out' = [out EXCEPT ![r] = Changed(op[r])]
            /\ UNCHANGED <<op, fd>>
        BY <1>13, <3>2 DEF readSecond
      <4>2. op[r] \in Op
        BY <1>1 DEF RequestsTyped
      <4>3. Changed(op[r]) \in Entry
        BY <4>1, <4>2, ChangedIsProper DEF ProperInv
      <4>4. QED
        BY <1>1, <4>1, <4>3 DEF RequestsTyped
    <3>3. QED
      BY <3>1, <3>2
  <2>3. QED
    BY <2>1, <2>2, SettingsTypePartsNext
<1>6. ASSUME NEW r \in Requests, writeOpen(r)
      PROVE  SettingsTypeOK'
  <2>1. FilesTyped'
    BY <1>1, <1>6 DEF writeOpen, FilesTyped, Contents
  <2>2. SeenTyped'
    BY <1>1, <1>6, SeenTypedStay DEF writeOpen
  <2>3. RequestsTyped'
    BY <1>1, <1>6 DEF writeOpen, RequestsTyped
  <2>4. QED
    BY <2>1, <2>2, <2>3, SettingsTypePartsNext
<1>7. ASSUME NEW r \in Requests, writeFill(r)
      PROVE  SettingsTypeOK'
  <2>1. \A c : Over(c, out[r]) \subseteq Entry \cup {Torn}
    BY <1>1 DEF Over, RequestsTyped
  <2>2. Torn # Absent /\ Absent \notin Entry
    BY SettingsAssumption
  <2>3. FilesTyped'
    BY <1>1, <1>7, <2>1, <2>2 DEF writeFill, FilesTyped, Contents, files
  <2>4. SeenTyped'
    BY <1>1, <1>7, SeenTypedStay DEF writeFill
  <2>5. RequestsTyped'
    BY <1>1, <1>7 DEF writeFill, RequestsTyped
  <2>6. QED
    BY <2>3, <2>4, <2>5, SettingsTypePartsNext
<1>8. ASSUME NEW r \in Requests, writeRename(r)
      PROVE  SettingsTypeOK'
  <2>1. FilesTyped'
    BY <1>1, <1>8 DEF writeRename, FilesTyped, Contents
  <2>2. SeenTyped'
    <3>1. op[r].id \in Ids /\ op[r].value \in Values \cup {NoValue}
      BY <1>1, OpFields DEF RequestsTyped
    <3>2. saved' \in [Ids -> Values \cup {NoValue}]
      BY <1>1, <1>8, <3>1 DEF writeRename, SeenTyped
    <3>3. QED
      BY <1>1, <1>8, <3>2 DEF writeRename, SeenTyped
  <2>3. RequestsTyped'
    BY <1>1, <1>8, OpFacts DEF writeRename, RequestsTyped
  <2>4. QED
    BY <2>1, <2>2, <2>3, SettingsTypePartsNext
<1>9. ASSUME NEW r \in Requests, Rejected(r)
      PROVE  SettingsTypeOK'
  <2>1. FilesTyped' /\ RequestsTyped'
    BY <1>1, <1>9, FilesTypedStay, DoneTyped DEF Rejected
  <2>2. settingsFaultsLeft' \in 0..MaxSettingsFaults
    BY <1>1, <1>2, <1>9 DEF Rejected, SeenTyped
  <2>3. SeenTyped'
    BY <1>1, <1>9, <2>2 DEF Rejected, SeenTyped, requestsSeen
  <2>4. QED
    BY <2>1, <2>3, SettingsTypePartsNext
<1>10. ASSUME CrashInRequest
       PROVE  SettingsTypeOK'
  <2>1. FilesTyped' /\ RequestsTyped'
    BY <1>1, <1>10, FilesTypedStay, OpFacts DEF CrashInRequest, RequestsTyped
  <2>2. SeenTyped'
    BY <1>1, <1>2, <1>10 DEF CrashInRequest, SeenTyped, requestsSeen
  <2>3. QED
    BY <2>1, <2>2, SettingsTypePartsNext
<1>11. ASSUME UNCHANGED settingsVars
       PROVE  SettingsTypeOK'
  BY <1>11 DEF settingsVars, files, SettingsTypeOK
<1>12. QED
  BY <1>3, <1>4, <1>5, <1>6, <1>7, <1>8, <1>9, <1>10, <1>11, <1>13, SettingsSteps DEF Step
-----------------------------------------------------------------------------
(* The conjuncts of ProperInv, now and after a step *)
AskedFor(o, g) == o.kind = "save" => o.value \in g[o.id]

(* The conjuncts of ProperInv *)
LEMMA ProperNow ==
  ASSUME ProperInv
  PROVE  /\ file # Torn => Sound(file) /\ MadeOf(file, given)
         /\ tmp \notin {Torn, Absent} => Sound(tmp) /\ MadeOf(tmp, given)
         /\ \A r \in Requests : Sound(out[r]) /\ MadeOf(out[r], given)
         /\ \A r \in Requests : phase[r] # "idle" => AskedFor(op[r], given)
BY DEF ProperInv, Proper, Given, AskedFor

(* The same of the state after a step *)
LEMMA ProperNext ==
  ASSUME file' # Torn => Sound(file') /\ MadeOf(file', given'),
         tmp' \notin {Torn, Absent} => Sound(tmp') /\ MadeOf(tmp', given'),
         \A r \in Requests : Sound(out'[r]) /\ MadeOf(out'[r], given'),
         \A r \in Requests : phase'[r] # "idle" => AskedFor(op'[r], given')
  PROVE  ProperInv'
BY DEF ProperInv, Proper, Given, AskedFor

(* What was asked for stays asked for. *)
LEMMA MadeOfMore ==
  ASSUME NEW e \in Entry, NEW g, NEW h, \A i \in Ids : g[i] \subseteq h[i], MadeOf(e, g)
  PROVE  MadeOf(e, h)
<1>1. \A k \in 1..Len(ProfilesOf(e)) : ProfilesOf(e)[k].id \in Ids
  BY EntryFacts, ListFacts
<1>2. QED
  BY <1>1 DEF MadeOf

(* The entry without a printer has nothing that was not asked for. *)
LEMMA NoEntryIsMade == \A g : MadeOf(NoEntry, g)
BY NoEntryIsSound DEF MadeOf

(* At first the file has no printer or the one of an older version. *)
LEMMA ProperInit == SettingsInit => SettingsTypeOK /\ ProperInv
<1> SUFFICES ASSUME SettingsInit
             PROVE  SettingsTypeOK /\ ProperInv
  OBVIOUS
<1>1. /\ file \in Entry /\ Sound(file) /\ file.value \in Values \cup {NoValue}
      /\ \A k \in 1..Len(ProfilesOf(file)) :
           ProfilesOf(file)[k].id = Primary /\ ProfilesOf(file)[k].value = file.value
  <2>1. CASE file = NoEntry
    <3>1. NoEntry.value = NoValue
      BY DEF NoEntry
    <3>2. QED
      BY <2>1, <3>1, NoEntryIsSound
  <2>2. ASSUME NEW v \in Values, file = Older(v)
        PROVE  /\ file \in Entry /\ Sound(file) /\ file.value \in Values \cup {NoValue}
               /\ \A k \in 1..Len(ProfilesOf(file)) :
                    /\ ProfilesOf(file)[k].id = Primary
                    /\ ProfilesOf(file)[k].value = file.value
    <3>5. PICK p : p = [id |-> Primary, value |-> v]
      OBVIOUS
    <3>1. p = [id |-> Primary, value |-> v] /\ p.id = Primary /\ p.value = v
      BY <3>5
    <3>2. ProfilesOf(file) = <<p>> /\ file \in Entry /\ Sound(file) /\ file.value = v
      BY <2>2, <3>1, OlderIsSound
    <3>3. \A k \in 1..Len(<<p>>) : <<p>>[k] = p
      OBVIOUS
    <3>4. QED
      BY <3>1, <3>2, <3>3
  <2>3. QED
    BY <2>1, <2>2 DEF SettingsInit
<1>2. Primary \in Ids /\ NoValue \notin Values
  BY ProfilesAssumption
<1>3. file # Absent /\ file # Torn
  BY <1>1, SettingsAssumption
<1>4. given \in [Ids -> SUBSET Values] /\ given[Primary] = {file.value} \ {NoValue}
  BY <1>1, <1>2 DEF SettingsInit
<1>5. saved \in [Ids -> Values \cup {NoValue}]
  BY <1>1, <1>2 DEF SettingsInit
<1>6. FilesTyped
  BY <1>1, <1>3 DEF SettingsInit, FilesTyped, Contents
<1>7. RequestsTyped
  BY OpFacts DEF SettingsInit, RequestsTyped
<1>8. SeenTyped
  <2>1. MaxSettingsFaults \in Nat
    BY SettingsAssumption
  <2>4. settingsFaultsLeft = MaxSettingsFaults /\ overlapped = FALSE
    BY Zenon DEF SettingsInit
  <2>2. settingsFaultsLeft \in 0..MaxSettingsFaults
    BY <2>1, <2>4
  <2>5. overlapped \in BOOLEAN
    BY <2>4, Zenon
  <2>3. QED
    BY <1>4, <1>5, <2>2, <2>5 DEF SeenTyped
<1>9. SettingsTypeOK
  BY <1>6, <1>7, <1>8 DEF SettingsTypeOK, FilesTyped, RequestsTyped, SeenTyped
<1>10. Proper(file)
  <2>1. ProfilesOf(file) \in Seq(Profile)
    BY <1>1, EntryFacts
  <2>2. \A k \in 1..Len(ProfilesOf(file)) : ProfilesOf(file)[k].value \in Values
    BY <2>1, ListFacts
  <2>3. \A k \in 1..Len(ProfilesOf(file)) :
          ProfilesOf(file)[k].value \in given[ProfilesOf(file)[k].id]
    BY <1>1, <1>2, <1>4, <2>2
  <2>4. QED
    BY <1>1, <2>3 DEF Proper, Given, MadeOf
<1>11. ProperInv
  BY <1>10, NoEntryIsSound, NoEntryIsMade DEF SettingsInit, ProperInv, Proper, Given
<1>12. QED
  BY <1>9, <1>11

(* A request that ends leaves nothing to write. *)
LEMMA ProperDone ==
  ASSUME SettingsTypeOK, ProperInv, NEW r \in Requests, Done(r), UNCHANGED <<files, given>>
  PROVE  ProperInv'
<1>1. /\ \A q \in Requests : out'[q] = out[q] \/ out'[q] = NoEntry
      /\ \A q \in Requests : phase'[q] # "idle" => phase[q] # "idle" /\ op'[q] = op[q]
  BY DEF Done, SettingsTypeOK
<1>2. file' = file /\ tmp' = tmp /\ given' = given
  BY DEF files
<1>3. QED
  BY <1>1, <1>2, ProperNow, ProperNext, NoEntryIsSound, NoEntryIsMade

(* Every step keeps what is proper. *)
LEMMA ProperStep ==
  SettingsTypeOK /\ ProperInv /\ [SettingsNext]_settingsVars => ProperInv'
<1> SUFFICES ASSUME SettingsTypeOK, ProperInv, [SettingsNext]_settingsVars
             PROVE  ProperInv'
  OBVIOUS
<1>1. /\ phase \in [Requests -> {"idle", "current", "first", "second", "open", "fill", "rename"}]
      /\ op \in [Requests -> Op] /\ out \in [Requests -> Entry]
      /\ fd \in [Requests -> {"tmp", "file", "gone"}]
      /\ \A r \in Requests : fd[r] # "gone" => phase[r] = "fill"
  BY DEF SettingsTypeOK
<1>2. file \in Entry \cup {Torn} /\ tmp \in Entry \cup {Torn, Absent} /\ Torn # Absent
  BY SettingsAssumption DEF SettingsTypeOK, Contents
<1>3. ASSUME NEW r \in Requests, Asks(r)
      PROVE  ProperInv'
  <2>1. PICK o \in Op, at \in {"current", "first"}, Unsaid \in SUBSET Ids :
          /\ Asked(r, o, at)
          /\ o.kind = "save" => o.value \in given'[o.id]
          /\ \A i \in Ids : given[i] \subseteq given'[i]
    BY <1>3, AskingIs
  <2>2. /\ file' = file /\ tmp' = tmp /\ out' = out
        /\ \A q \in Requests : q # r => op'[q] = op[q] /\ phase'[q] = phase[q]
        /\ op'[r] = o
    BY <1>1, <2>1 DEF Asked, files
  <2>3. AskedFor(o, given')
    BY <2>1 DEF AskedFor
  <2>4. \A q \in Requests : AskedFor(op[q], given) => AskedFor(op[q], given')
    <3>1. \A q \in Requests : op[q].id \in Ids
      BY <1>1, OpFields
    <3>2. QED
      BY <2>1, <3>1 DEF AskedFor
  <2>5. \A q \in Requests : phase'[q] # "idle" => AskedFor(op'[q], given')
    BY <2>2, <2>3, <2>4, ProperNow
  <2>6. file' # Torn => Sound(file') /\ MadeOf(file', given')
    BY <1>2, <2>1, <2>2, ProperNow, MadeOfMore
  <2>7. tmp' \notin {Torn, Absent} => Sound(tmp') /\ MadeOf(tmp', given')
    BY <1>2, <2>1, <2>2, ProperNow, MadeOfMore
  <2>8. \A q \in Requests : Sound(out'[q]) /\ MadeOf(out'[q], given')
    BY <1>1, <2>1, <2>2, ProperNow, MadeOfMore
  <2>9. QED
    BY <2>5, <2>6, <2>7, <2>8, ProperNext
<1>4. ASSUME NEW r \in Requests, readCurrent(r)
      PROVE  ProperInv'
  <2>1. /\ file' = file /\ tmp' = tmp /\ out' = out /\ given' = given
        /\ phase[r] = "current"
        /\ \A q \in Requests : q # r => phase'[q] = phase[q]
    BY <1>1, <1>4 DEF readCurrent, files, requestsSeen
  <2>2. \A q \in Requests :
          op'[q].kind = op[q].kind /\ op'[q].id = op[q].id /\ op'[q].value = op[q].value
    <3>1. PICK b : b = (op[r].activate \/ ActiveOf(file) = op[r].id)
      OBVIOUS
    <3>2. op' = [op EXCEPT ![r].activate = b]
      BY <1>4, <3>1, Zenon DEF readCurrent
    <3>3. op[r] \in Op
      BY <1>1
    <3>4. /\ [op[r] EXCEPT !.activate = b].kind = op[r].kind
          /\ [op[r] EXCEPT !.activate = b].id = op[r].id
          /\ [op[r] EXCEPT !.activate = b].value = op[r].value
      BY <3>3 DEF Op
    <3>5. /\ \A q \in Requests : q # r => op'[q] = op[q]
          /\ op'[r] = [op[r] EXCEPT !.activate = b]
      BY <1>1, <3>2
    <3>6. QED
      BY <3>4, <3>5
  <2>3. \A q \in Requests : phase'[q] # "idle" => AskedFor(op'[q], given')
    BY <2>1, <2>2, ProperNow DEF AskedFor
  <2>4. QED
    BY <2>1, <2>3, ProperNow, ProperNext
<1>5. ASSUME NEW r \in Requests, readFirst(r)
      PROVE  ProperInv'
  <2>1. CASE Done(r)
    BY <1>5, <2>1, ProperDone DEF readFirst, requestsSeen
  <2>2. CASE phase' = [phase EXCEPT ![r] = "second"] /\ UNCHANGED <<op, out, fd>>
    <3>1. file' = file /\ tmp' = tmp /\ given' = given /\ phase[r] = "first"
      BY <1>5 DEF readFirst, files, requestsSeen
    <3>2. \A q \in Requests : phase'[q] # "idle" => phase[q] # "idle"
      BY <1>1, <2>2, <3>1
    <3>3. QED
      BY <2>2, <3>1, <3>2, ProperNow, ProperNext
  <2>3. QED
    BY <1>5, <2>1, <2>2 DEF readFirst
<1>6. ASSUME NEW r \in Requests, readSecond(r)
      PROVE  ProperInv'
  <2>1. CASE Done(r)
    BY <1>6, <2>1, ProperDone DEF readSecond, requestsSeen
  <2>2. CASE ~Done(r)
    <3>1. /\ phase[r] = "second" /\ file # Torn
          /\ op[r].kind = "save" \/ op[r].id \in Stored
          /\ phase' = [phase EXCEPT ![r] = "open"]
          /\ out' = [out EXCEPT ![r] = Changed(op[r])]
          /\ op' = op
      BY <1>6, <2>2 DEF readSecond
    <3>2. file' = file /\ tmp' = tmp /\ given' = given
      BY <1>6 DEF readSecond, files, requestsSeen
    <3>3. op[r] \in Op
      BY <1>1
    <3>4. Sound(Changed(op[r])) /\ MadeOf(Changed(op[r]), given)
      BY <3>1, <3>3, ChangedIsProper DEF ProperInv, Proper, Given
    <3>5. \A q \in Requests : out'[q] = IF q = r THEN Changed(op[r]) ELSE out[q]
      BY <1>1, <3>1
    <3>6. \A q \in Requests : phase'[q] # "idle" => phase[q] # "idle"
      BY <1>1, <3>1
    <3>7. QED
      BY <3>1, <3>2, <3>4, <3>5, <3>6, ProperNow, ProperNext
  <2>3. QED
    BY <2>1, <2>2
<1>7. ASSUME NEW r \in Requests, writeOpen(r)
      PROVE  ProperInv'
  <2>1. file' = file /\ tmp' = Torn /\ given' = given /\ out' = out /\ op' = op
    BY <1>7 DEF writeOpen, requestsSeen
  <2>2. \A q \in Requests : phase'[q] # "idle" => phase[q] # "idle"
    BY <1>1, <1>7 DEF writeOpen
  <2>3. QED
    BY <2>1, <2>2, ProperNow, ProperNext
<1>8. ASSUME NEW r \in Requests, writeFill(r)
      PROVE  ProperInv'
  <2>1. given' = given /\ out' = out /\ op' = op
    BY <1>8 DEF writeFill, requestsSeen
  <2>2. /\ file' \in {file, out[r], Torn} /\ tmp' \in {tmp, out[r], Torn}
    BY <1>8 DEF writeFill, Over, files
  <2>3. \A q \in Requests : phase'[q] # "idle" => phase[q] # "idle"
    BY <1>1, <1>8 DEF writeFill
  <2>4. file' # Torn => Sound(file') /\ MadeOf(file', given')
    BY <2>1, <2>2, ProperNow
  <2>5. tmp' \notin {Torn, Absent} => Sound(tmp') /\ MadeOf(tmp', given')
    BY <2>1, <2>2, ProperNow
  <2>6. QED
    BY <2>1, <2>3, <2>4, <2>5, ProperNow, ProperNext
<1>9. ASSUME NEW r \in Requests, writeRename(r)
      PROVE  ProperInv'
  <2>1. file' = tmp /\ tmp # Absent /\ tmp' = Absent /\ given' = given
    BY <1>9 DEF writeRename
  <2>2. /\ \A q \in Requests : out'[q] = out[q] \/ out'[q] = NoEntry
        /\ \A q \in Requests : phase'[q] # "idle" => phase[q] # "idle" /\ op'[q] = op[q]
    BY <1>1, <1>9 DEF writeRename
  <2>3. QED
    BY <2>1, <2>2, ProperNow, ProperNext, NoEntryIsSound, NoEntryIsMade
<1>10. ASSUME NEW r \in Requests, Rejected(r)
       PROVE  ProperInv'
  BY <1>10, ProperDone DEF Rejected, requestsSeen
<1>11. ASSUME CrashInRequest
       PROVE  ProperInv'
  <2>1. file' = file /\ tmp' = tmp /\ given' = given
    BY <1>11 DEF CrashInRequest, files, requestsSeen
  <2>2. \A q \in Requests : out'[q] = NoEntry /\ phase'[q] = "idle"
    BY <1>11 DEF CrashInRequest
  <2>3. QED
    BY <2>1, <2>2, ProperNow, ProperNext, NoEntryIsSound, NoEntryIsMade
<1>12. ASSUME UNCHANGED settingsVars
       PROVE  ProperInv'
  BY <1>12, ProperNow, ProperNext DEF settingsVars, files
<1>13. QED
  BY <1>3, <1>4, <1>5, <1>6, <1>7, <1>8, <1>9, <1>10, <1>11, <1>12, SettingsSteps DEF Step
-----------------------------------------------------------------------------
(* What is stored, and what a request is going to store, in a file that    *)
(* does not change                                                         *)
LEMMA StoredStays ==
  ASSUME file' = file
  PROVE  Stored' = Stored /\ \A i : ValueOf(ProfilesOf(file), i)' = ValueOf(ProfilesOf(file), i)
BY DEF Stored

(* What a request is going to write depends on the file and the request. *)
LEMMA ChangedStays ==
  ASSUME file' = file, NEW r \in Requests, op'[r] = op[r]
  PROVE  Changed(op[r])' = Changed(op[r])
BY DEF Changed

(* While one request at a time is under way, the others have nothing in    *)
(* hand, and what was saved stays stored until the file changes.           *)
LEMMA SerialNext ==
  ASSUME OneAtATime, SavedIsStored, file' = file, saved' = saved,
         NEW r \in Requests, phase[r] # "idle",
         \A q \in Requests : q # r => phase'[q] = phase[q],
         phase'[r] # "idle" =>
           op'[r].kind = op[r].kind /\ op'[r].id = op[r].id /\ InHand(r)'
  PROVE  OneAtATime' /\ (\A q \in Requests : InHand(q)') /\ SavedIsStored'
<1>1. \A q \in Requests : q # r => phase'[q] = "idle"
  BY DEF OneAtATime
<1>2. OneAtATime'
  BY <1>1 DEF OneAtATime
<1>3. ASSUME NEW q \in Requests
      PROVE  InHand(q)'
  <2>1. CASE phase'[q] = "idle"
    BY <2>1 DEF InHand, OwnFile, Planned, BecomesActive, Writes
  <2>2. CASE phase'[q] # "idle"
    BY <1>1, <2>2
  <2>3. QED
    BY <2>1, <2>2
<1>4. SavedIsStored'
  <2>1. \A i \in Ids :
          saved'[i] # NoValue => i \in Stored' /\ ValueOf(ProfilesOf(file'), i) = saved'[i]
    BY StoredStays DEF SavedIsStored
  <2>2. \A q \in Requests :
          phase'[q] # "idle" /\ op'[q].kind \in {"save", "delete"} => saved'[op'[q].id] = NoValue
    BY <1>1 DEF SavedIsStored
  <2>3. QED
    BY <2>1, <2>2 DEF SavedIsStored
<1>5. QED
  BY <1>2, <1>3, <1>4

(* Once two requests were under way at one time, nothing is said to be     *)
(* saved.                                                                  *)
LEMMA OverlapStays ==
  ASSUME SettingsTypeOK, [SettingsNext]_settingsVars, overlapped, \A i \in Ids : saved[i] = NoValue
  PROVE  overlapped' /\ \A i \in Ids : saved'[i] = NoValue
<1>1. ASSUME NEW r \in Requests, Asks(r)
      PROVE  overlapped' /\ \A i \in Ids : saved'[i] = NoValue
  <2>1. PICK o \in Op, at \in {"current", "first"}, Unsaid \in SUBSET Ids :
          Asked(r, o, at) /\ Unsaved(Unsaid)
    BY <1>1, AskingIs
  <2>2. overlapped'
    BY <2>1 DEF Asked
  <2>3. QED
    BY <2>1, <2>2 DEF Unsaved
<1>2. ASSUME NEW r \in Requests, writeRename(r)
      PROVE  overlapped' /\ \A i \in Ids : saved'[i] = NoValue
  <2>1. overlapped' = overlapped /\ saved' = saved
    BY <1>2 DEF writeRename
  <2>2. QED
    BY <2>1
<1>3. CASE UNCHANGED <<saved, overlapped>>
  BY <1>3
<1>4. ASSUME NEW r \in Requests, Step(r), ~Asks(r), ~writeRename(r)
      PROVE  UNCHANGED <<saved, overlapped>>
  <2>1. CASE readCurrent(r) \/ readFirst(r) \/ readSecond(r)
    BY <2>1 DEF readCurrent, readFirst, readSecond, requestsSeen
  <2>2. CASE writeOpen(r) \/ writeFill(r) \/ Rejected(r)
    BY <2>2 DEF writeOpen, writeFill, Rejected, requestsSeen
  <2>3. QED
    BY <1>4, <2>1, <2>2 DEF Step
<1>5. CASE CrashInRequest \/ UNCHANGED settingsVars
  BY <1>3, <1>5 DEF CrashInRequest, requestsSeen, settingsVars
<1>6. QED
  BY <1>1, <1>2, <1>3, <1>4, <1>5, SettingsSteps

(* What the rename stores: what its request was asked for, and for the     *)
(* other printers what was stored.                                         *)
LEMMA ChangedKeeps ==
  ASSUME SettingsTypeOK, file # Torn, Proper(file), NEW o \in Op,
         o.kind = "save" => o.value \in given[o.id],
         o.kind = "save" \/ o.id \in Stored
  PROVE  LET new == ProfilesOf(Changed(o)) IN
         /\ o.kind = "save" => /\ IdsOf(new) = Stored \cup {o.id}
                               /\ ValueOf(new, o.id) = o.value
         /\ o.kind = "activate" => IdsOf(new) = Stored
         /\ o.kind = "delete" => IdsOf(new) = Stored \ {o.id}
         /\ \A j \in Stored :
              j # o.id \/ o.kind = "activate" => ValueOf(new, j) = ValueOf(ProfilesOf(file), j)
<1>1. file \in Entry /\ Sound(file) /\ o.id \in Ids /\ Stored = IdsOf(ProfilesOf(file))
  BY StoredFacts, OpFields DEF Proper
<1>2. CASE o.kind = "save"
  <2>1. o.value \in Values /\ o.activate \in BOOLEAN
    BY <1>1, <1>2, OpFields DEF SettingsTypeOK
  <2>2. PICK new : new = WithProfile(file, o.id, o.value, o.activate)
    OBVIOUS
  <2>3. /\ IdsOf(ProfilesOf(new)) = IdsOf(ProfilesOf(file)) \cup {o.id}
        /\ ValueOf(ProfilesOf(new), o.id) = o.value
        /\ \A j \in IdsOf(ProfilesOf(file)) \ {o.id} :
             ValueOf(ProfilesOf(new), j) = ValueOf(ProfilesOf(file), j)
    BY <1>1, <2>1, <2>2, WithProfileIs
  <2>4. Changed(o) = new
    BY <1>2, <2>2 DEF Changed
  <2>5. QED
    BY <1>1, <1>2, <2>3, <2>4
<1>3. CASE o.kind = "activate"
  <2>1. o.id \in IdsOf(ProfilesOf(file))
    BY <1>1, <1>3
  <2>2. PICK new : new = WithActivated(file, o.id)
    OBVIOUS
  <2>3. ProfilesOf(new) = ProfilesOf(file)
    BY <1>1, <2>1, <2>2, WithActivatedIs
  <2>4. Changed(o) = new
    BY <1>3, <2>2 DEF Changed
  <2>5. QED
    BY <1>1, <1>3, <2>3, <2>4
<1>4. CASE o.kind = "delete"
  <2>1. o.id \in IdsOf(ProfilesOf(file))
    BY <1>1, <1>4
  <2>2. PICK new : new = WithoutProfile(file, o.id)
    OBVIOUS
  <2>3. /\ IdsOf(ProfilesOf(new)) = IdsOf(ProfilesOf(file)) \ {o.id}
        /\ \A j \in IdsOf(ProfilesOf(new)) :
             ValueOf(ProfilesOf(new), j) = ValueOf(ProfilesOf(file), j)
    BY <1>1, <2>1, <2>2, WithoutProfileIs
  <2>4. Changed(o) = new
    BY <1>4, <2>2 DEF Changed
  <2>5. QED
    BY <1>1, <1>4, <2>3, <2>4
<1>5. QED
  BY <1>2, <1>3, <1>4, OpFields

(* The rename, of a request that is the only one under way *)
LEMMA SerialRename ==
  ASSUME SettingsTypeOK, ProperInv, OneAtATime, SavedIsStored, ~overlapped,
         NEW r \in Requests, InHand(r), writeRename(r)
  PROVE  /\ file' = Changed(op[r]) /\ file' # Torn /\ file' \in Entry
         /\ OneAtATime' /\ (\A q \in Requests : InHand(q)') /\ SavedIsStored'
<1>1. op[r] \in Op /\ phase[r] = "rename" /\ file # Torn
  BY DEF SettingsTypeOK, writeRename, OneAtATime
<1>2. op[r].kind = "save" => op[r].value \in given[op[r].id]
  BY <1>1 DEF ProperInv
<1>3. op[r].kind = "save" \/ op[r].id \in Stored
  BY <1>1 DEF InHand, Planned, Writes
<1>4. Proper(file)
  BY <1>1 DEF ProperInv
<1>5. file' = Changed(op[r])
  BY <1>1 DEF writeRename, InHand, OwnFile, Planned, Writes
<1>6. file' \in Entry
  BY <1>1, <1>2, <1>3, <1>4, <1>5, ChangedIsProper
<1>7. file' # Torn
  BY <1>6, SettingsAssumption
<1>8. Stored' = IdsOf(ProfilesOf(file'))
  BY <1>7 DEF Stored
<1>9. \A q \in Requests : phase'[q] = "idle"
  BY <1>1 DEF writeRename, OneAtATime, SettingsTypeOK
<1>10. OneAtATime'
  BY <1>7, <1>9 DEF OneAtATime
<1>11. \A q \in Requests : InHand(q)'
  BY <1>9 DEF InHand, OwnFile, Planned, BecomesActive, Writes
<1>12. PICK new : new = ProfilesOf(file')
  OBVIOUS
<1>13. /\ op[r].kind = "save" => /\ IdsOf(new) = Stored \cup {op[r].id}
                                 /\ ValueOf(new, op[r].id) = op[r].value
       /\ op[r].kind = "activate" => IdsOf(new) = Stored
       /\ op[r].kind = "delete" => IdsOf(new) = Stored \ {op[r].id}
       /\ \A j \in Stored :
            j # op[r].id \/ op[r].kind = "activate" =>
              ValueOf(new, j) = ValueOf(ProfilesOf(file), j)
  BY <1>1, <1>2, <1>3, <1>4, <1>5, <1>12, ChangedKeeps
<1>14. op[r].kind \in {"save", "activate", "delete"} /\ op[r].id \in Ids
  BY <1>1, OpFields
<1>15. /\ \A i \in Ids :
            saved[i] # NoValue => i \in Stored /\ ValueOf(ProfilesOf(file), i) = saved[i]
       /\ op[r].kind \in {"save", "delete"} => saved[op[r].id] = NoValue
  BY <1>1 DEF SavedIsStored
<1>16. ASSUME NEW i \in Ids, saved'[i] # NoValue
       PROVE  i \in IdsOf(new) /\ ValueOf(new, i) = saved'[i]
  <2>1. CASE op[r].kind = "save"
    <3>1. saved' = [saved EXCEPT ![op[r].id] = op[r].value]
      BY <2>1 DEF writeRename
    <3>2. saved'[i] = IF i = op[r].id THEN op[r].value ELSE saved[i]
      BY <1>14, <3>1 DEF SettingsTypeOK
    <3>3. QED
      BY <1>13, <1>15, <1>16, <2>1, <3>2
  <2>2. CASE op[r].kind # "save"
    <3>1. saved' = saved
      BY <2>2 DEF writeRename
    <3>2. QED
      BY <1>13, <1>14, <1>15, <1>16, <2>2, <3>1
  <2>3. QED
    BY <2>1, <2>2
<1>17. SavedIsStored'
  BY <1>8, <1>9, <1>12, <1>16 DEF SavedIsStored
<1>18. QED
  BY <1>5, <1>6, <1>7, <1>10, <1>11, <1>17

(* At first no request is under way and nothing was saved. *)
LEMMA SerialInit == SettingsInit => SerialInv
<1> SUFFICES ASSUME SettingsInit
             PROVE  SerialInv
  OBVIOUS
<1>1. SettingsTypeOK
  BY ProperInit
<1>2. ~overlapped /\ \A r \in Requests : phase[r] = "idle"
  BY DEF SettingsInit
<1>3. OneAtATime
  <2>1. file # Torn
    <3>1. file \in Entry
      BY NoEntryIsSound, OlderIsSound DEF SettingsInit
    <3>2. QED
      BY <3>1, SettingsAssumption
  <2>2. QED
    BY <1>2, <2>1 DEF OneAtATime
<1>4. \A r \in Requests : InHand(r)
  BY <1>2 DEF InHand, OwnFile, Planned, BecomesActive, Writes
<1>5. ASSUME NEW i \in Ids, saved[i] # NoValue
      PROVE  i \in Stored /\ ValueOf(ProfilesOf(file), i) = saved[i]
  <2>1. i = Primary /\ saved[i] = file.value /\ file.value # NoValue
    BY <1>5, ProfilesAssumption DEF SettingsInit
  <2>2. NoEntry.value = NoValue
    BY DEF NoEntry
  <2>3. PICK v \in Values : file = Older(v)
    BY <2>1, <2>2 DEF SettingsInit
  <2>4. PICK p : p = [id |-> Primary, value |-> v]
    OBVIOUS
  <2>5. p.id = Primary /\ p.value = v
    BY <2>4
  <2>6. PICK ps \in Seq(Profile) : ps = ProfilesOf(file) /\ ps = <<p>> /\ DistinctIds(ps)
    BY <2>3, <2>4, OlderIsSound, EntryFacts DEF Sound
  <2>7. 1 \in 1..Len(ps) /\ ps[1] = p
    BY <2>6
  <2>8. ValueOf(ps, Primary) = v /\ Primary \in IdsOf(ps)
    BY <2>5, <2>6, <2>7, ValueIsBeside, ListFacts
  <2>9. file.value = v
    BY <2>3, OlderIsSound
  <2>10. Stored = IdsOf(ps)
    BY <1>3, <2>6 DEF Stored, OneAtATime
  <2>11. QED
    BY <2>1, <2>6, <2>8, <2>9, <2>10
<1>6. SavedIsStored
  BY <1>2, <1>5 DEF SavedIsStored
<1>7. QED
  BY <1>2, <1>3, <1>4, <1>6 DEF SerialInv

(* A request that begins when none is under way *)
LEMMA SerialAsks ==
  ASSUME SettingsTypeOK, OneAtATime, SavedIsStored, NEW r \in Requests, Asks(r), ~overlapped'
  PROVE  OneAtATime' /\ (\A q \in Requests : InHand(q)') /\ SavedIsStored'
<1>1. PICK o \in Op, at \in {"current", "first"}, Unsaid \in SUBSET Ids :
        /\ Asked(r, o, at) /\ Unsaved(Unsaid)
        /\ o.kind \in {"save", "delete"} => o.id \in Unsaid
        /\ o.kind = "save" => at = "current" /\ (o.activate <=> o.id \notin Stored)
  BY AskingIs
<1>2. /\ \A q \in Requests : phase[q] = "idle"
      /\ file' = file
      /\ phase' = [phase EXCEPT ![r] = at] /\ op' = [op EXCEPT ![r] = o]
  BY <1>1 DEF Asked, files
<1>3. /\ phase'[r] = at /\ op'[r] = o
      /\ \A q \in Requests : q # r => phase'[q] = "idle"
  BY <1>2 DEF SettingsTypeOK
<1>4. OneAtATime'
  BY <1>2, <1>3 DEF OneAtATime
<1>5. ASSUME NEW q \in Requests
      PROVE  InHand(q)'
  <2>1. OwnFile(q)' /\ Planned(q)'
    BY <1>3 DEF OwnFile, Planned, Writes
  <2>2. BecomesActive(q)'
    BY <1>1, <1>2, <1>3, StoredStays DEF BecomesActive
  <2>3. QED
    BY <2>1, <2>2 DEF InHand
<1>6. \A i \in Ids : saved'[i] = IF i \in Unsaid THEN NoValue ELSE saved[i]
  BY <1>1 DEF Unsaved
<1>7. SavedIsStored'
  <2>1. \A i \in Ids :
          saved'[i] # NoValue => i \in Stored' /\ ValueOf(ProfilesOf(file'), i) = saved'[i]
    BY <1>2, <1>6, StoredStays DEF SavedIsStored
  <2>2. \A q \in Requests :
          phase'[q] # "idle" /\ op'[q].kind \in {"save", "delete"} => saved'[op'[q].id] = NoValue
    BY <1>1, <1>3, <1>6
  <2>3. QED
    BY <2>1, <2>2 DEF SavedIsStored
<1>8. QED
  BY <1>4, <1>5, <1>7

(* Every step of a request that is the only one under way *)
LEMMA SerialStep ==
  SettingsTypeOK /\ ProperInv /\ SerialInv /\ [SettingsNext]_settingsVars => SerialInv'
<1> SUFFICES ASSUME SettingsTypeOK, ProperInv, SerialInv, [SettingsNext]_settingsVars
             PROVE  SerialInv'
  OBVIOUS
<1>1. /\ phase \in [Requests -> {"idle", "current", "first", "second", "open", "fill", "rename"}]
      /\ op \in [Requests -> Op] /\ out \in [Requests -> Entry]
      /\ fd \in [Requests -> {"tmp", "file", "gone"}]
  BY DEF SettingsTypeOK
<1>2. CASE overlapped
  BY <1>2, OverlapStays DEF SerialInv
<1>3. CASE ~overlapped /\ overlapped'
  <2>1. PICK r \in Requests : Asks(r)
    <3>1. ~ UNCHANGED overlapped
      BY <1>3
    <3>2. \A r \in Requests : ~readCurrent(r) /\ ~readFirst(r) /\ ~readSecond(r)
      BY <3>1 DEF readCurrent, readFirst, readSecond, requestsSeen
    <3>3. \A r \in Requests : ~writeOpen(r) /\ ~writeFill(r) /\ ~Rejected(r)
      BY <3>1 DEF writeOpen, writeFill, Rejected, requestsSeen
    <3>4. \A r \in Requests : ~writeRename(r)
      BY <3>1 DEF writeRename
    <3>5. ~CrashInRequest /\ ~UNCHANGED settingsVars
      BY <3>1 DEF CrashInRequest, requestsSeen, settingsVars
    <3>6. QED
      BY <3>2, <3>3, <3>4, <3>5, SettingsSteps DEF Step
  <2>2. PICK o \in Op, at \in {"current", "first"}, Unsaid \in SUBSET Ids : Unsaved(Unsaid)
    BY <2>1, AskingIs
  <2>3. \A i \in Ids : saved'[i] = NoValue
    BY <1>3, <2>2 DEF Unsaved
  <2>4. QED
    BY <1>3, <2>3 DEF SerialInv
<1>4. CASE ~overlapped /\ ~overlapped'
  <2>1. /\ OneAtATime /\ SavedIsStored
        /\ \A r \in Requests : InHand(r)
    BY <1>4 DEF SerialInv
  <2>2. ASSUME OneAtATime' /\ (\A q \in Requests : InHand(q)') /\ SavedIsStored'
        PROVE  SerialInv'
    BY <1>4, <2>2 DEF SerialInv
  <2>3. ASSUME NEW r \in Requests, Asks(r)
        PROVE  SerialInv'
    BY <1>4, <2>1, <2>2, <2>3, SerialAsks
  <2>4. ASSUME NEW r \in Requests, readCurrent(r)
        PROVE  SerialInv'
    <3>1. /\ file' = file /\ saved' = saved
          /\ phase[r] = "current" /\ phase'[r] = "first"
          /\ \A q \in Requests : q # r => phase'[q] = phase[q]
      BY <1>1, <2>4 DEF readCurrent, files, requestsSeen
    <3>2. PICK b \in BOOLEAN : b = (op[r].activate \/ ActiveOf(file) = op[r].id)
      OBVIOUS
    <3>3. op' = [op EXCEPT ![r].activate = b]
      BY <2>4, <3>2, Zenon DEF readCurrent
    <3>4. op[r] \in Op
      BY <1>1
    <3>5. op'[r] = [op[r] EXCEPT !.activate = b]
      BY <1>1, <3>3
    <3>6. op'[r].kind = op[r].kind /\ op'[r].id = op[r].id /\ op'[r].activate = b
      BY <3>4, <3>5 DEF Op
    <3>7. OwnFile(r)' /\ Planned(r)'
      BY <3>1 DEF OwnFile, Planned, Writes
    <3>8. BecomesActive(r)'
      <4>1. op[r].kind = "save" => (op[r].activate <=> op[r].id \notin Stored)
        BY <2>1, <3>1 DEF InHand, BecomesActive
      <4>2. op[r].kind = "save" =>
              (b <=> (op[r].id \notin Stored \/ ActiveOf(file) = op[r].id))
        BY <3>2, <4>1
      <4>3. QED
        BY <3>1, <3>6, <4>2, StoredStays DEF BecomesActive
    <3>9. QED
      BY <2>1, <2>2, <3>1, <3>6, <3>7, <3>8, SerialNext DEF InHand
  <2>5. ASSUME NEW r \in Requests, file' = file, saved' = saved, Done(r), phase[r] # "idle"
        PROVE  SerialInv'
    <3>1. /\ phase'[r] = "idle"
          /\ \A q \in Requests : q # r => phase'[q] = phase[q]
      BY <1>1, <2>5 DEF Done
    <3>2. QED
      BY <2>1, <2>2, <2>5, <3>1, SerialNext
  <2>6. ASSUME NEW r \in Requests, readFirst(r)
        PROVE  SerialInv'
    <3>1. file' = file /\ saved' = saved /\ phase[r] = "first"
      BY <2>6 DEF readFirst, files, requestsSeen
    <3>2. CASE Done(r)
      BY <2>5, <3>1, <3>2
    <3>3. CASE phase' = [phase EXCEPT ![r] = "second"] /\ UNCHANGED <<op, out, fd>>
      <4>1. /\ phase'[r] = "second" /\ op' = op
            /\ \A q \in Requests : q # r => phase'[q] = phase[q]
        BY <1>1, <3>3
      <4>2. OwnFile(r)' /\ Planned(r)'
        BY <4>1 DEF OwnFile, Planned, Writes
      <4>3. BecomesActive(r)'
        BY <2>1, <3>1, <4>1, StoredStays DEF BecomesActive, InHand
      <4>4. QED
        BY <2>1, <2>2, <3>1, <4>1, <4>2, <4>3, SerialNext DEF InHand
    <3>4. QED
      BY <2>6, <3>2, <3>3 DEF readFirst
  <2>7. ASSUME NEW r \in Requests, readSecond(r)
        PROVE  SerialInv'
    <3>1. file' = file /\ saved' = saved /\ phase[r] = "second"
      BY <2>7 DEF readSecond, files, requestsSeen
    <3>2. CASE Done(r)
      BY <2>5, <3>1, <3>2
    <3>3. CASE ~Done(r)
      <4>1. /\ op[r].kind = "save" \/ op[r].id \in Stored
            /\ phase' = [phase EXCEPT ![r] = "open"]
            /\ out' = [out EXCEPT ![r] = Changed(op[r])]
            /\ op' = op
        BY <2>7, <3>3 DEF readSecond
      <4>2. /\ phase'[r] = "open" /\ out'[r] = Changed(op[r])
            /\ \A q \in Requests : q # r => phase'[q] = phase[q]
        BY <1>1, <4>1
      <4>3. OwnFile(r)'
        BY <4>2 DEF OwnFile
      <4>4. Changed(op[r])' = Changed(op[r]) /\ Stored' = Stored
        BY <3>1, <4>1, ChangedStays, StoredStays
      <4>5. Planned(r)'
        BY <4>1, <4>2, <4>4 DEF Planned
      <4>6. BecomesActive(r)'
        BY <2>1, <3>1, <4>1, <4>2, <4>4 DEF BecomesActive, InHand
      <4>7. QED
        BY <2>1, <2>2, <3>1, <4>1, <4>2, <4>3, <4>5, <4>6, SerialNext DEF InHand
    <3>4. QED
      BY <3>2, <3>3
  <2>8. ASSUME NEW r \in Requests, file' = file, saved' = saved, op' = op, out' = out,
               phase[r] \in Writes, phase'[r] \in Writes, OwnFile(r)',
               \A q \in Requests : q # r => phase'[q] = phase[q]
        PROVE  SerialInv'
    <3>1. Changed(op[r])' = Changed(op[r]) /\ Stored' = Stored
      BY <2>8, ChangedStays, StoredStays
    <3>2. Planned(r)'
      BY <2>1, <2>8, <3>1 DEF Planned, InHand
    <3>3. BecomesActive(r)'
      BY <2>1, <2>8, <3>1 DEF BecomesActive, InHand, Writes
    <3>4. phase[r] # "idle"
      BY <2>8 DEF Writes
    <3>5. QED
      BY <2>1, <2>2, <2>8, <3>2, <3>3, <3>4, SerialNext DEF InHand
  <2>9. ASSUME NEW r \in Requests, writeOpen(r)
        PROVE  SerialInv'
    <3>1. /\ file' = file /\ saved' = saved /\ op' = op /\ out' = out
          /\ phase[r] = "open" /\ phase'[r] = "fill" /\ fd'[r] = "tmp" /\ tmp' = Torn
          /\ \A q \in Requests : q # r => phase'[q] = phase[q]
      BY <1>1, <2>9 DEF writeOpen, requestsSeen
    <3>2. OwnFile(r)'
      BY <3>1 DEF OwnFile
    <3>3. QED
      BY <2>8, <3>1, <3>2 DEF Writes
  <2>10. ASSUME NEW r \in Requests, writeFill(r)
         PROVE  SerialInv'
    <3>1. /\ saved' = saved /\ op' = op /\ out' = out
          /\ phase[r] = "fill" /\ phase'[r] = "rename"
          /\ \A q \in Requests : q # r => phase'[q] = phase[q]
      BY <1>1, <2>10 DEF writeFill, requestsSeen
    <3>2. fd[r] = "tmp" /\ tmp = Torn
      BY <2>1, <3>1 DEF OwnFile, InHand
    <3>3. file' = file /\ tmp' = out[r]
      BY <2>10, <3>2 DEF writeFill, Over
    <3>4. OwnFile(r)'
      BY <3>1, <3>3 DEF OwnFile
    <3>5. QED
      BY <2>8, <3>1, <3>3, <3>4 DEF Writes
  <2>11. ASSUME NEW r \in Requests, writeRename(r)
         PROVE  SerialInv'
    BY <1>4, <2>1, <2>2, <2>11, SerialRename
  <2>12. ASSUME NEW r \in Requests, Rejected(r)
         PROVE  SerialInv'
    <3>1. file' = file /\ saved' = saved /\ Done(r) /\ phase[r] # "idle"
      BY <2>12 DEF Rejected, files, requestsSeen
    <3>2. QED
      BY <2>5, <3>1
  <2>13. ASSUME CrashInRequest
         PROVE  SerialInv'
    <3>1. /\ file' = file /\ saved' = saved
          /\ \A q \in Requests : phase'[q] = "idle"
      BY <2>13 DEF CrashInRequest, files, requestsSeen
    <3>2. OneAtATime' /\ SavedIsStored'
      BY <2>1, <3>1, StoredStays DEF OneAtATime, SavedIsStored
    <3>3. \A q \in Requests : InHand(q)'
      BY <3>1 DEF InHand, OwnFile, Planned, BecomesActive, Writes
    <3>4. QED
      BY <2>2, <3>2, <3>3
  <2>14. ASSUME UNCHANGED settingsVars
         PROVE  SerialInv'
    <3>1. /\ file' = file /\ saved' = saved /\ phase' = phase /\ op' = op /\ out' = out
          /\ tmp' = tmp /\ fd' = fd
      BY <2>14 DEF settingsVars, files
    <3>2. OneAtATime' /\ SavedIsStored'
      BY <2>1, <3>1, StoredStays DEF OneAtATime, SavedIsStored
    <3>3. ASSUME NEW q \in Requests
          PROVE  InHand(q)'
      <4>1. OwnFile(q)'
        BY <2>1, <3>1 DEF InHand, OwnFile
      <4>2. Changed(op[q])' = Changed(op[q]) /\ Stored' = Stored
        BY <3>1, ChangedStays, StoredStays
      <4>3. Planned(q)'
        BY <2>1, <3>1, <4>2 DEF InHand, Planned
      <4>4. BecomesActive(q)'
        BY <2>1, <3>1, <4>2 DEF InHand, BecomesActive
      <4>5. QED
        BY <4>1, <4>3, <4>4 DEF InHand
    <3>4. QED
      BY <2>2, <3>2, <3>3
  <2>15. QED
    BY <2>3, <2>4, <2>6, <2>7, <2>9, <2>10, <2>11, <2>12, <2>13, <2>14, SettingsSteps DEF Step
<1>5. QED
  BY <1>2, <1>3, <1>4
-----------------------------------------------------------------------------
SettingsInv == SettingsTypeOK /\ ProperInv /\ SerialInv

(* The invariant of the settings holds in every state. *)
LEMMA SettingsInvHolds == SettingsSpec => []SettingsInv
<1>1. SettingsInit => SettingsInv
  BY ProperInit, SerialInit DEF SettingsInv
<1>2. SettingsInv /\ [SettingsNext]_settingsVars => SettingsInv'
  BY SettingsTypeStep, ProperStep, SerialStep DEF SettingsInv
<1>3. QED
  BY <1>1, <1>2, PTL DEF SettingsSpec

(* Type correctness of the printer settings *)
THEOREM SettingsTypeCorrect == SettingsSpec => []SettingsTypeOK
<1>1. SettingsInv => SettingsTypeOK
  BY DEF SettingsInv
<1>2. QED
  BY <1>1, SettingsInvHolds, PTL

(* However requests overlap, crash and fail, a file that can be read       *)
(* agrees with itself and with what was entered; and as long as they do    *)
(* not overlap, what was saved last is in it.                              *)
THEOREM SettingsMakeSenseHolds == SettingsSpec => []SettingsMakeSense
<1>1. SettingsInv => SettingsMakeSense
  <2> SUFFICES ASSUME SettingsInv
               PROVE  SettingsMakeSense
    OBVIOUS
  <2>1. SettingsTypeOK /\ ProperInv /\ SerialInv
    BY DEF SettingsInv
  <2>2. ASSUME file # Torn
        PROVE  Agrees(file) /\ \A k \in DOMAIN ProfilesOf(file) :
                 ProfilesOf(file)[k].value \in given[ProfilesOf(file)[k].id]
    <3>1. file \in Entry /\ DOMAIN ProfilesOf(file) = 1..Len(ProfilesOf(file))
      BY <2>1, <2>2, StoredFacts, ListFacts
    <3>2. Sound(file) /\ MadeOf(file, given)
      BY <2>1, <2>2, ProperNow
    <3>3. Agrees(file)
      BY <3>1, <3>2, SoundAgrees
    <3>4. QED
      BY <3>1, <3>2, <3>3 DEF MadeOf
  <2>3. SavedKept
    BY <2>1 DEF SerialInv, OneAtATime, SavedIsStored, SavedKept
  <2>4. QED
    BY <2>2, <2>3 DEF SettingsMakeSense, ActiveAgrees, NothingInvented
<1>2. QED
  BY <1>1, SettingsInvHolds, PTL
-----------------------------------------------------------------------------
(***************************************************************************)
(* The detailed settings implement SettingsPromise, as long as no two      *)
(* requests are under way at one time.                                     *)
(***************************************************************************)

(* Which printer is active in what a request writes *)
LEMMA ChangedActive ==
  ASSUME SettingsTypeOK, file # Torn, Proper(file), NEW o \in Op,
         o.kind = "save" => o.value \in given[o.id],
         o.kind = "save" \/ o.id \in Stored
  PROVE  /\ o.kind = "save" =>
              ActiveOf(Changed(o)) =
                IF o.activate \/ ActiveOf(file) = NoId THEN o.id ELSE ActiveOf(file)
         /\ o.kind = "activate" => ActiveOf(Changed(o)) = o.id
         /\ o.kind = "delete" /\ ActiveOf(file) \in IdsOf(ProfilesOf(Changed(o))) =>
              ActiveOf(Changed(o)) = ActiveOf(file)
<1>1. file \in Entry /\ Sound(file) /\ o.id \in Ids /\ Stored = IdsOf(ProfilesOf(file))
  BY StoredFacts, OpFields DEF Proper
<1>2. CASE o.kind = "save"
  <2>1. o.value \in Values /\ o.activate \in BOOLEAN
    BY <1>1, <1>2, OpFields DEF SettingsTypeOK
  <2>2. PICK new : new = WithProfile(file, o.id, o.value, o.activate)
    OBVIOUS
  <2>3. ActiveOf(new) = IF o.activate \/ ActiveOf(file) = NoId THEN o.id ELSE ActiveOf(file)
    BY <1>1, <2>1, <2>2, WithProfileIs
  <2>4. Changed(o) = new
    BY <1>2, <2>2 DEF Changed
  <2>5. QED
    BY <1>2, <2>3, <2>4
<1>3. CASE o.kind = "activate"
  <2>1. o.id \in IdsOf(ProfilesOf(file))
    BY <1>1, <1>3
  <2>2. ActiveOf(WithActivated(file, o.id)) = o.id
    BY <1>1, <2>1, WithActivatedIs
  <2>3. Changed(o) = WithActivated(file, o.id)
    BY <1>3 DEF Changed
  <2>4. QED
    BY <1>3, <2>2, <2>3
<1>4. CASE o.kind = "delete"
  <2>1. o.id \in IdsOf(ProfilesOf(file))
    BY <1>1, <1>4
  <2>2. PICK new : new = WithoutProfile(file, o.id)
    OBVIOUS
  <2>3. ActiveOf(file) \in IdsOf(ProfilesOf(new)) => ActiveOf(new) = ActiveOf(file)
    BY <1>1, <2>1, <2>2, WithoutProfileIs
  <2>4. Changed(o) = new
    BY <1>4, <2>2 DEF Changed
  <2>5. QED
    BY <1>4, <2>3, <2>4
<1>5. QED
  BY <1>2, <1>3, <1>4, OpFields

(* What is active of a file that can be read *)
LEMMA ActiveFacts ==
  ASSUME SettingsTypeOK, file # Torn
  PROVE  /\ ActiveNow = ActiveOf(file)
         /\ Stored = {} => ActiveOf(file) = NoId
         /\ Stored # {} => ActiveOf(file) \in Stored
         /\ NoId \notin Stored
<1>1. PICK ps \in Seq(Profile) : ps = ProfilesOf(file)
  BY StoredFacts
<1>2. Stored = IdsOf(ps) /\ file \in Entry /\ NoId \notin Stored
  BY <1>1, StoredFacts, ProfilesAssumption
<1>3. ps = <<>> <=> IdsOf(ps) = {}
  BY ListFacts
<1>4. QED
  BY <1>1, <1>2, <1>3, EntryFacts DEF ActiveNow

(* The same of the state after a step *)
LEMMA ActiveFactsNext ==
  ASSUME file' # Torn, file' \in Entry
  PROVE  /\ ActiveNow' = ActiveOf(file') /\ Stored' = IdsOf(ProfilesOf(file'))
         /\ Stored' = {} => ActiveOf(file') = NoId
         /\ Stored' # {} => ActiveOf(file') \in Stored'
         /\ StoredNow' = [i \in Stored' |-> ValueOf(ProfilesOf(file'), i)]
<1>1. PICK ps \in Seq(Profile) : ps = ProfilesOf(file')
  BY EntryFacts
<1>2. ActiveNow' = ActiveOf(file') /\ Stored' = IdsOf(ps)
  BY <1>1 DEF ActiveNow, Stored
<1>3. ps = <<>> <=> IdsOf(ps) = {}
  BY ListFacts
<1>4. StoredNow' = [i \in Stored' |-> ValueOf(ProfilesOf(file'), i)]
  BY DEF StoredNow
<1>5. QED
  BY <1>1, <1>2, <1>3, <1>4, EntryFacts

(* The rename is the step of the promise. *)
LEMMA RenameKeepsPromise ==
  ASSUME SettingsTypeOK, ProperInv, OneAtATime, SavedIsStored, ~overlapped,
         NEW r \in Requests, InHand(r), writeRename(r)
  PROVE  Promise!Next
<1>1. op[r] \in Op /\ phase[r] = "rename" /\ file # Torn
  BY DEF SettingsTypeOK, writeRename, OneAtATime
<1>2. op[r].kind = "save" => op[r].value \in given[op[r].id]
  BY <1>1 DEF ProperInv
<1>3. op[r].kind = "save" \/ op[r].id \in Stored
  BY <1>1 DEF InHand, Planned, Writes
<1>4. Proper(file)
  BY <1>1 DEF ProperInv
<1>5. file' = Changed(op[r]) /\ file' # Torn /\ file' \in Entry
  BY SerialRename
<1>6. PICK i \in Ids, v \in {op[r].value}, kind \in {op[r].kind} :
        i = op[r].id /\ v = op[r].value /\ kind = op[r].kind
  BY <1>1, OpFields
<1>7. PICK new : new = ProfilesOf(file')
  OBVIOUS
<1>8. /\ kind = "save" => Stored' = Stored \cup {i} /\ ValueOf(new, i) = v
      /\ kind = "activate" => Stored' = Stored
      /\ kind = "delete" => Stored' = Stored \ {i}
      /\ \A j \in Stored :
           j # i \/ kind = "activate" => ValueOf(new, j) = ValueOf(ProfilesOf(file), j)
  BY <1>1, <1>2, <1>3, <1>4, <1>5, <1>6, <1>7, ChangedKeeps, ActiveFactsNext
<1>9. /\ DOMAIN StoredNow = Stored
      /\ \A j \in Stored : StoredNow[j] = ValueOf(ProfilesOf(file), j)
      /\ StoredNow' = [j \in Stored' |-> ValueOf(new, j)]
  BY <1>5, <1>7, ActiveFactsNext DEF StoredNow
<1>10. PICK before, after : before = ActiveOf(file) /\ after = ActiveOf(file')
  OBVIOUS
<1>11. /\ ActiveNow = before /\ ActiveNow' = after
       /\ Stored = {} => before = NoId
       /\ Stored # {} => before \in Stored
       /\ NoId \notin Stored
       /\ Stored' = {} => after = NoId
       /\ Stored' # {} => after \in Stored'
  BY <1>1, <1>5, <1>10, ActiveFacts, ActiveFactsNext
<1>12. CASE kind = "save"
  <2>1. v \in Values
    BY <1>2, <1>6, <1>12 DEF SettingsTypeOK
  <2>2. StoredNow' = [j \in Stored \cup {i} |-> IF j = i THEN v ELSE StoredNow[j]]
    BY <1>8, <1>9, <1>12
  <2>3. op[r].activate <=> (i \notin Stored \/ before = i)
    BY <1>1, <1>6, <1>10, <1>12 DEF InHand, BecomesActive
  <2>4. after = IF op[r].activate \/ before = NoId THEN i ELSE before
    BY <1>1, <1>2, <1>3, <1>4, <1>5, <1>6, <1>10, <1>12, ChangedActive
  <2>5. after = IF i \in Stored THEN before ELSE i
    BY <1>11, <2>3, <2>4
  <2>6. Promise!Save(i, v)
    BY <1>9, <1>11, <2>2, <2>5 DEF Promise!Save
  <2>7. QED
    BY <2>1, <2>6 DEF Promise!Next
<1>13. CASE kind = "activate"
  <2>1. i \in Stored
    BY <1>3, <1>6, <1>13
  <2>2. after = i
    BY <1>1, <1>2, <1>3, <1>4, <1>5, <1>6, <1>10, <1>13, ChangedActive
  <2>3. StoredNow' = StoredNow
    <3>1. StoredNow' = [j \in Stored |-> ValueOf(ProfilesOf(file), j)]
      BY <1>8, <1>9, <1>13
    <3>2. QED
      BY <3>1 DEF StoredNow
  <2>4. Promise!Activate(i)
    BY <1>9, <1>11, <2>1, <2>2, <2>3 DEF Promise!Activate
  <2>5. QED
    BY <2>4 DEF Promise!Next
<1>14. CASE kind = "delete"
  <2>1. i \in Stored
    BY <1>3, <1>6, <1>14
  <2>2. StoredNow' = Promise!Restrict(StoredNow, Stored \ {i})
    BY <1>8, <1>9, <1>14 DEF Promise!Restrict
  <2>3. before \in Stored \ {i} => after = before
    <3>1. before \in IdsOf(new) => after = before
      BY <1>1, <1>2, <1>3, <1>4, <1>5, <1>6, <1>7, <1>10, <1>14, ChangedActive
    <3>2. Stored' = IdsOf(new)
      BY <1>5, <1>7, ActiveFactsNext
    <3>3. QED
      BY <1>8, <1>14, <3>1, <3>2
  <2>4. IF Stored = {i} THEN after = NoId
        ELSE IF before = i THEN after \in Stored \ {i}
        ELSE after = before
    BY <1>8, <1>11, <1>14, <2>1, <2>3
  <2>5. Promise!Delete(i)
    BY <1>9, <1>11, <2>1, <2>2, <2>4 DEF Promise!Delete
  <2>6. QED
    BY <2>5 DEF Promise!Next
<1>15. QED
  BY <1>1, <1>6, <1>12, <1>13, <1>14, OpFields

(* At first the settings are a table with one active printer, and they     *)
(* change as SettingsPromise says, whatever crashes and fails, until two   *)
(* requests are under way at one time.                                     *)
THEOREM SettingsKeepPromise == SettingsSpec => KeepsSettingsPromise
<1>1. SettingsInit => Promise!Init
  <2> SUFFICES ASSUME SettingsInit
               PROVE  Promise!Init
    OBVIOUS
  <2>1. SettingsTypeOK /\ ProperInv /\ SerialInv /\ ~overlapped
    BY ProperInit, SerialInit DEF SettingsInit
  <2>2. file # Torn
    BY <2>1 DEF SerialInv, OneAtATime
  <2>3. PICK ps \in Seq(Profile) : ps = ProfilesOf(file) /\ DistinctIds(ps)
    BY <2>1, <2>2, StoredFacts, ProperNow DEF Sound
  <2>4. Stored = IdsOf(ps) /\ Stored \in SUBSET Ids
    BY <2>1, <2>2, <2>3, StoredFacts
  <2>5. StoredNow \in [Stored -> Values] /\ DOMAIN StoredNow = Stored
    BY <2>3, <2>4, ValueTyped DEF StoredNow
  <2>6. IF DOMAIN StoredNow = {} THEN ActiveNow = NoId ELSE ActiveNow \in DOMAIN StoredNow
    BY <2>1, <2>2, <2>5, ActiveFacts
  <2>7. QED
    BY <2>4, <2>5, <2>6 DEF Promise!Init
<1>2. SettingsInv /\ [SettingsNext]_settingsVars
        => [overlapped' \/ Promise!Next]_<<StoredNow, ActiveNow>>
  <2> SUFFICES ASSUME SettingsInv, [SettingsNext]_settingsVars, ~overlapped'
               PROVE  Promise!Next \/ UNCHANGED <<StoredNow, ActiveNow>>
    OBVIOUS
  <2>1. SettingsTypeOK /\ ProperInv /\ SerialInv
    BY DEF SettingsInv
  <2>2. ~overlapped
    BY <2>1, OverlapStays DEF SerialInv
  <2>3. OneAtATime /\ SavedIsStored /\ \A r \in Requests : InHand(r)
    BY <2>1, <2>2 DEF SerialInv
  <2>4. CASE file' = file
    BY <2>4 DEF StoredNow, ActiveNow, Stored
  <2>5. ASSUME NEW r \in Requests, writeRename(r)
        PROVE  Promise!Next
    BY <2>1, <2>2, <2>3, <2>5, RenameKeepsPromise
  <2>6. ASSUME NEW r \in Requests, Step(r), ~writeRename(r)
        PROVE  file' = file
    <3>1. CASE Asks(r)
      <4>1. PICK o \in Op, at \in {"current", "first"} : Asked(r, o, at)
        BY <2>1, <3>1, AskingIs
      <4>2. QED
        BY <4>1 DEF Asked, files
    <3>2. CASE readCurrent(r) \/ readFirst(r) \/ readSecond(r) \/ writeOpen(r) \/ Rejected(r)
      BY <3>2 DEF readCurrent, readFirst, readSecond, writeOpen, Rejected, files
    <3>3. CASE writeFill(r)
      <4>1. fd[r] = "tmp"
        BY <2>3, <3>3 DEF writeFill, InHand, OwnFile
      <4>2. QED
        BY <3>3, <4>1 DEF writeFill
    <3>4. QED
      BY <2>6, <3>1, <3>2, <3>3 DEF Step
  <2>7. CASE CrashInRequest \/ UNCHANGED settingsVars
    BY <2>4, <2>7 DEF CrashInRequest, settingsVars, files
  <2>8. QED
    BY <2>4, <2>5, <2>6, <2>7, SettingsSteps
<1>3. QED
  BY <1>1, <1>2, SettingsInvHolds, PTL DEF SettingsSpec, KeepsSettingsPromise
=============================================================================
