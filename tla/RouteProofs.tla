---------------------------- MODULE RouteProofs -----------------------------
(***************************************************************************)
(* Theorems about PrinterDiscovery, for any candidates and bounds, and     *)
(* about PrinterHealth, for any printers, tasks, edits and faults.         *)
(***************************************************************************)
EXTENDS MCKitchenRoute, SettingsProofs, FiniteSetTheorems, SequenceTheorems, TLAPS

(***************************************************************************)
(* The inductive invariant of the discovery.  The window lags behind by    *)
(* the answers that are coming: the last one that chooses says what is     *)
(* selected, at most one search and one test are answered at a time, and   *)
(* what comes after the answer of a test has made it worthless.            *)
(***************************************************************************)
LastChoiceIsSelected ==
  \A n \in 1..Len(answers) :
    Chooses(answers[n]) /\ (\A m \in 1..Len(answers) : m > n => ~Chooses(answers[m])) =>
      answers[n].from = candidates /\ answers[n].choice = selected

SearchIsLatest ==
  \A n \in 1..Len(answers) :
    answers[n].kind = "discover" =>
      /\ answers[n].from = candidates
      /\ answers[n].choice # None => candidates = {answers[n].choice}

SettledIsShown ==
  \/ Coming(Choosing)
  \/ shown = Nothing
  \/ shown.from = candidates /\ shown.choice = selected

ChoiceEndsTest ==
  \A m, n \in 1..Len(answers) :
    answers[m].kind = "test" /\ Chooses(answers[n]) /\ m < n => tested = None

(* What the window shows as a success was printed for what it shows,       *)
(* unless a search has left it one candidate only.                         *)
UnderTest ==
  /\ succeeded /\ test.of # None /\ test.on = None =>
       \/ test.of = selected
       \/ Coming({"select"})
       \/ ~search /\ (selected = None \/ candidates = {selected})
  /\ succeeded /\ test.on # None =>
       \/ shown.choice \in {test.of, None}
       \/ shown.from = {shown.choice} /\ ~search /\ ~Coming({"discover"})

SucceededIsShown ==
  succeeded /\ shown.choice # None /\ Coming(Choosing) =>
    /\ tested # None /\ tested = selected => shown.choice = selected
    /\ test.on # None /\ test.of = selected => shown.choice = selected

DiscoveryTyped ==
  /\ VariablesTyped
  /\ AnswersTyped
  /\ OneAnswerEach
  /\ test.on # None => test.of # None

WindowInv ==
  /\ DiscoveryTyped
  /\ LastChoiceIsSelected
  /\ SearchIsLatest
  /\ SettledIsShown
  /\ ChoiceEndsTest
  /\ UnderTest
  /\ SucceededIsShown
  /\ StoredWasShown
  /\ \A k \in confirms : k.of = k.seen

(***************************************************************************)
(* As long as the settings do not change, every test page came out, and    *)
(* every configuration to be stored prints, where the transport of the     *)
(* active printer sends it.                                                *)
(***************************************************************************)
Way == IF current = None THEN "raw_tcp" ELSE current.transport

Where(h) == IF Way = "raw_tcp" THEN h ELSE Spooled

WasPrinted(h) == \E p \in printed : p.of = h

StoredWasPrinted ==
  /\ tested # None => WasPrinted(tested)
  /\ \A k \in confirms : WasPrinted(k.of) /\ (k.as # None => k.as.host = k.of)
  /\ \A k \in kept : WasPrinted(k.of)

PrintedWhereStored ==
  /\ \A p \in printed : p.on = Where(p.of)
  /\ test.on # None => test.on = Where(test.of)
  /\ \A k \in confirms : k.as # None => k.as.transport = Way
  /\ \A k \in kept : k.on = Where(k.of)

PaperInv ==
  /\ DiscoveryTyped
  /\ StoredWasPrinted
  /\ left.changes = MaxChanges => PrintedWhereStored

(* What an answer given does to the answers coming. *)
LEMMA AnswerGiven ==
  ASSUME AnswersTyped, NEW new \in Answer, answers' = Append(answers, new)
  PROVE  /\ answers' \in Seq(Answer)
         /\ Len(answers') = Len(answers) + 1
         /\ \A n \in 1..Len(answers) : answers'[n] = answers[n]
         /\ answers'[Len(answers) + 1] = new
         /\ Len(answers) \in Nat
         /\ 1..Len(answers') = 1..Len(answers) \cup {Len(answers) + 1}
         /\ \A kinds : Coming(kinds)' <=> Coming(kinds) \/ new.kind \in kinds
         /\ NoneTwice /\ (new.kind \in {"confirm", "select"} \/ ~Coming({new.kind})) => NoneTwice'
<1> USE DEF AnswersTyped
<1>1. /\ answers' \in Seq(Answer)
      /\ Len(answers') = Len(answers) + 1 /\ Len(answers) \in Nat
      /\ \A n \in 1..Len(answers) : answers'[n] = answers[n]
      /\ answers'[Len(answers) + 1] = new
  OBVIOUS
<1>2. 1..Len(answers') = 1..Len(answers) \cup {Len(answers) + 1}
  BY <1>1
<1>3. \A kinds : Coming(kinds)' <=> Coming(kinds) \/ new.kind \in kinds
  BY <1>1, <1>2 DEF Coming
<1>4. NoneTwice /\ (new.kind \in {"confirm", "select"} \/ ~Coming({new.kind})) => NoneTwice'
  BY <1>1, <1>2 DEF NoneTwice, Coming
<1>5. QED
  BY <1>1, <1>2, <1>3, <1>4

(* What an answer taken does to the answers coming. *)
LEMMA AnswerTaken ==
  ASSUME AnswersTyped, answers # <<>>, answers' = Tail(answers)
  PROVE  /\ Head(answers) \in Answer /\ Head(answers) = answers[1] /\ 1 \in 1..Len(answers)
         /\ answers' \in Seq(Answer)
         /\ Len(answers') = Len(answers) - 1
         /\ \A n \in 1..Len(answers') : answers'[n] = answers[n + 1] /\ n + 1 \in 1..Len(answers)
         /\ \A kinds : Coming(kinds) <=> Coming(kinds)' \/ Head(answers).kind \in kinds
         /\ NoneTwice => /\ NoneTwice'
                         /\ \A k : Head(answers).kind = k /\ k \notin {"confirm", "select"} => ~Coming({k})'
<1> USE DEF AnswersTyped
<1>1. /\ Head(answers) \in Answer /\ Head(answers) = answers[1] /\ 1 \in 1..Len(answers)
      /\ answers' \in Seq(Answer)
      /\ Len(answers') = Len(answers) - 1 /\ Len(answers) \in Nat
      /\ \A n \in 1..Len(answers') : answers'[n] = answers[n + 1] /\ n + 1 \in 1..Len(answers)
  OBVIOUS
<1>2. \A n \in 1..Len(answers) : n = 1 \/ (n - 1 \in 1..Len(answers') /\ answers'[n - 1] = answers[n])
  BY <1>1
<1>3. \A kinds : Coming(kinds) <=> Coming(kinds)' \/ Head(answers).kind \in kinds
  BY <1>1, <1>2 DEF Coming
<1>4. ASSUME NoneTwice
      PROVE  /\ NoneTwice'
             /\ \A k : Head(answers).kind = k /\ k \notin {"confirm", "select"} => ~Coming({k})'
  <2>1. NoneTwice'
    BY <1>1, <1>4 DEF NoneTwice
  <2>2. ASSUME NEW n \in 1..Len(answers'), answers'[n].kind = Head(answers).kind
        PROVE  Head(answers).kind \in {"confirm", "select"}
    <3>1. n + 1 \in 1..Len(answers) /\ n + 1 # 1 /\ answers[n + 1].kind = answers[1].kind
      BY <1>1, <2>2
    <3>2. QED
      BY <1>1, <1>4, <3>1 DEF NoneTwice
  <2>3. QED
    BY <2>1, <2>2 DEF Coming
<1>5. QED
  BY <1>1, <1>3, <1>4

(* The answers that are given. *)
LEMMA AnswersAre ==
  ASSUME AnswersTyped, VariablesTyped
  PROVE  /\ \A d \in candidates :
              [kind |-> "select", from |-> candidates, choice |-> d, ok |-> TRUE] \in Answer
         /\ \A S \in SUBSET Candidates : \A d \in S \cup {None} :
              [kind |-> "discover", from |-> S, choice |-> d, ok |-> TRUE] \in Answer
         /\ \A ok \in BOOLEAN : [kind |-> "test", from |-> {}, choice |-> None, ok |-> ok] \in Answer
         /\ [kind |-> "confirm", from |-> {}, choice |-> None, ok |-> TRUE] \in Answer
BY DEF VariablesTyped, Answer, Chooses, Choosing

(* A set with one element holds what is chosen of it. *)
LEMMA SingleChosen ==
  ASSUME NEW S \in SUBSET Candidates, Cardinality(S) = 1
  PROVE  S = {CHOOSE d \in S : TRUE}
<1>1. IsFiniteSet(S)
  BY DiscoveryAssumption, FS_Subset
<1>2. PICK only : S = {only}
  BY <1>1, FS_Singleton
<1>3. QED
  BY <1>2

(* The types of the initial states. *)
LEMMA DiscoveryTypedInit == DiscoveryInit => DiscoveryTyped
<1> SUFFICES ASSUME DiscoveryInit
             PROVE  DiscoveryTyped
  OBVIOUS
<1> USE DEF DiscoveryInit, Nothing, NoTest
<1>1. VariablesTyped
  BY DEF VariablesTyped
<1>2. answers \in Seq(Answer) /\ Len(answers) = 0
  OBVIOUS
<1>3. AnswersTyped
  BY <1>2, DiscoveryAssumption DEF AnswersTyped
<1>4. OneAnswerEach
  BY <1>2 DEF OneAnswerEach, NoneTwice, Coming
<1>5. QED
  BY <1>1, <1>3, <1>4 DEF DiscoveryTyped

(* The types of the steps, one case per action. *)
LEMMA DiscoveryTypedStep == DiscoveryTyped /\ [DiscoveryNext]_discoveryVars => DiscoveryTyped'
<1> SUFFICES ASSUME DiscoveryTyped, DiscoveryNext
             PROVE  DiscoveryTyped'
  BY
     DEF discoveryVars, main, window, DiscoveryTyped, VariablesTyped, AnswersTyped,
         OneAnswerEach, NoneTwice, Coming
<1> USE DEF DiscoveryTyped, main, window

<1>1. ASSUME ClickDiscover
      PROVE  DiscoveryTyped'
  <2> USE DiscoveryAssumption DEF VariablesTyped
  <2>1. VariablesTyped'
    BY <1>1 DEF ClickDiscover, Spends, Places, Configuration, Device, configurationFor
  <2>2. AnswersTyped'
    BY <1>1 DEF ClickDiscover, Spends, AnswersTyped
  <2>3. OneAnswerEach'
    BY <1>1 DEF ClickDiscover, Spends, OneAnswerEach, NoneTwice, Coming
  <2>4. QED
    BY <1>1, <2>1, <2>2, <2>3 DEF ClickDiscover, Spends
<1>2. ASSUME NEW d \in Candidates, ClickSelect(d)
      PROVE  DiscoveryTyped'
  <2> USE DiscoveryAssumption DEF VariablesTyped
  <2>1. CASE d \in candidates
    <3> DEFINE reply == [kind |-> "select", from |-> candidates, choice |-> d, ok |-> TRUE]
    <3>1. reply \in Answer
      BY <2>1, AnswersAre
    <3>2. answers' = Append(answers, reply) /\ NoneTwice
      BY <1>2, <2>1 DEF ClickSelect, Answers, OneAnswerEach
    <3>3. /\ answers' \in Seq(Answer) /\ NoneTwice'
          /\ \A kinds : Coming(kinds)' <=> Coming(kinds) \/ reply.kind \in kinds
      BY <3>1, <3>2, AnswerGiven
    <3>4. QED
      BY <1>2, <2>1, <3>3 DEF ClickSelect, AnswersTyped, OneAnswerEach
  <2>2. CASE d \notin candidates
    BY <1>2, <2>2 DEF ClickSelect, AnswersTyped, OneAnswerEach, NoneTwice, Coming
  <2>3. QED
    BY <2>1, <2>2
<1>3. ASSUME ClickTest
      PROVE  DiscoveryTyped'
  <2> USE DiscoveryAssumption DEF VariablesTyped
  <2>0. /\ left' \in [{"tests", "searches", "confirms", "changes"} -> Nat]
        /\ left'.changes <= MaxChanges
    BY <1>3 DEF ClickTest, Spends, AnswersTyped
  <2>1. CASE selected = None
    <3> DEFINE reply == [kind |-> "test", from |-> {}, choice |-> None, ok |-> FALSE]
    <3>1. reply \in Answer
      BY AnswersAre
    <3>2. answers' = Append(answers, reply) /\ ~Coming({"test"}) /\ NoneTwice
      BY <1>3, <2>1 DEF ClickTest, Answers, OneAnswerEach
    <3>3. /\ answers' \in Seq(Answer) /\ NoneTwice'
          /\ \A kinds : Coming(kinds)' <=> Coming(kinds) \/ reply.kind \in kinds
      BY <3>1, <3>2, AnswerGiven
    <3>4. test.of = None
      BY <1>3 DEF ClickTest
    <3>5. QED
      BY <1>3, <2>0, <2>1, <3>3, <3>4 DEF ClickTest, AnswersTyped, OneAnswerEach
  <2>2. CASE selected # None
    <3>1. test' = [of |-> selected, on |-> None] /\ UNCHANGED answers
      BY <1>3, <2>2 DEF ClickTest
    <3>2. ~Coming({"test"})
      BY <1>3 DEF ClickTest, OneAnswerEach
    <3>3. QED
      BY <1>3, <2>0, <2>2, <3>1, <3>2
         DEF ClickTest, AnswersTyped, OneAnswerEach, NoneTwice, Coming
  <2>3. QED
    BY <2>1, <2>2
<1>4. ASSUME ClickConfirm
      PROVE  DiscoveryTyped'
  <2> USE DiscoveryAssumption DEF VariablesTyped
  <2>0. shown.choice \in Candidates
    BY <1>4 DEF ClickConfirm, Spends
  <2>01. ASSUME selected # None
         PROVE  [of |-> selected, seen |-> shown.choice, as |-> None] \in
                  [of : Candidates, seen : Candidates, as : Configuration \cup {None}]
    BY <2>0, <2>01
  <2>1. VariablesTyped'
    BY <1>4, <2>01 DEF ClickConfirm, Spends
  <2>2. AnswersTyped'
    BY <1>4 DEF ClickConfirm, Spends, AnswersTyped
  <2>3. OneAnswerEach'
    BY <1>4 DEF ClickConfirm, Spends, OneAnswerEach, NoneTwice, Coming
  <2>4. QED
    BY <1>4, <2>1, <2>2, <2>3 DEF ClickConfirm, Spends
<1>5. ASSUME renderSetupSummary
      PROVE  DiscoveryTyped'
  <2> USE DiscoveryAssumption DEF VariablesTyped
  <2>1. VariablesTyped'
    BY <1>5 DEF renderSetupSummary, Places, Configuration, Device, configurationFor
  <2>2. AnswersTyped'
    BY <1>5 DEF renderSetupSummary, AnswersTyped
  <2>3. OneAnswerEach'
    BY <1>5 DEF renderSetupSummary, OneAnswerEach, NoneTwice, Coming
  <2>4. QED
    BY <1>5, <2>1, <2>2, <2>3 DEF renderSetupSummary
<1>6. ASSUME openPrinterSetup
      PROVE  DiscoveryTyped'
  <2> USE DiscoveryAssumption DEF VariablesTyped
  <2>1. VariablesTyped'
    BY <1>6 DEF openPrinterSetup, Nothing, Places, Configuration, Device, configurationFor
  <2>2. AnswersTyped'
    BY <1>6 DEF openPrinterSetup, Nothing, AnswersTyped
  <2>3. OneAnswerEach'
    BY <1>6 DEF openPrinterSetup, Nothing, OneAnswerEach, NoneTwice, Coming
  <2>4. QED
    BY <1>6, <2>1, <2>2, <2>3 DEF openPrinterSetup, Nothing
<1>7. ASSUME NEW S \in SUBSET Candidates, discoverLocalPrinters(S)
      PROVE  DiscoveryTyped'
  <2>0. /\ selected' \in S \cup {None}
        /\ [kind |-> "discover", from |-> S, choice |-> selected', ok |-> TRUE] \in Answer
    BY <1>7, SingleChosen, AnswersAre DEF discoverLocalPrinters, Answers
  <2> USE DiscoveryAssumption DEF VariablesTyped
  <2>1. VariablesTyped'
    BY <1>7, <2>0
       DEF discoverLocalPrinters, Answers, Places, Configuration, Device, configurationFor
  <2>2. AnswersTyped'
    BY <1>7, <2>0, AnswerGiven DEF discoverLocalPrinters, Answers, AnswersTyped
  <2>3. OneAnswerEach'
    <3> DEFINE reply == [kind |-> "discover", from |-> S, choice |-> selected', ok |-> TRUE]
    <3>1. reply \in Answer
      BY <2>0
    <3>2. answers' = Append(answers, reply)
      BY <1>7 DEF discoverLocalPrinters, Answers
    <3>3. ~Coming({"discover"}) /\ NoneTwice
      BY <1>7 DEF discoverLocalPrinters, Answers, OneAnswerEach
    <3>4. /\ NoneTwice'
          /\ \A kinds : Coming(kinds)' <=> Coming(kinds) \/ reply.kind \in kinds
      BY <3>1, <3>2, <3>3, AnswerGiven
    <3>5. QED
      BY <1>7, <3>4 DEF discoverLocalPrinters, Answers, OneAnswerEach
  <2>4. QED
    BY <1>7, <2>1, <2>2, <2>3 DEF discoverLocalPrinters, Answers
<1>8. ASSUME testPrints
      PROVE  DiscoveryTyped'
  <2> USE DiscoveryAssumption DEF VariablesTyped
  <2>1. VariablesTyped'
    BY <1>8 DEF testPrints, Places, Configuration, Device, configurationFor
  <2>2. AnswersTyped'
    BY <1>8 DEF testPrints, AnswersTyped
  <2>3. OneAnswerEach'
    BY <1>8 DEF testPrints, OneAnswerEach, NoneTwice, Coming
  <2>4. QED
    BY <1>8, <2>1, <2>2, <2>3 DEF testPrints
<1>9. ASSUME NEW ok \in BOOLEAN, testEnds(ok)
      PROVE  DiscoveryTyped'
  <2> USE DiscoveryAssumption DEF VariablesTyped
  <2>1. VariablesTyped'
    BY <1>9, AnswerGiven, AnswersAre, SingleChosen
       DEF testEnds, NoTest, Answers, Places, Configuration, Device, configurationFor
  <2>2. AnswersTyped'
    BY <1>9, AnswerGiven, AnswersAre, SingleChosen DEF testEnds, NoTest, Answers, AnswersTyped
  <2>3. OneAnswerEach'
    BY <1>9, AnswerGiven, AnswersAre, SingleChosen DEF testEnds, NoTest, Answers, OneAnswerEach
  <2>4. QED
    BY <1>9, <2>1, <2>2, <2>3 DEF testEnds, NoTest, Answers
<1>10. ASSUME NEW k \in confirms, confirmReads(k)
      PROVE  DiscoveryTyped'
  <2> USE DiscoveryAssumption DEF VariablesTyped
  <2>1. VariablesTyped'
    BY <1>10 DEF confirmReads, Places, Configuration, Device, configurationFor
  <2>2. AnswersTyped'
    BY <1>10 DEF confirmReads, AnswersTyped
  <2>3. OneAnswerEach'
    BY <1>10 DEF confirmReads, OneAnswerEach, NoneTwice, Coming
  <2>4. QED
    BY <1>10, <2>1, <2>2, <2>3 DEF confirmReads
<1>11. ASSUME NEW k \in confirms, confirmWrites(k)
      PROVE  DiscoveryTyped'
  <2> USE DiscoveryAssumption DEF VariablesTyped
  <2>1. VariablesTyped'
    BY <1>11, AnswerGiven, AnswersAre, SingleChosen
       DEF confirmWrites, Answers, Places, Configuration, Device, configurationFor
  <2>2. AnswersTyped'
    BY <1>11, AnswerGiven, AnswersAre, SingleChosen DEF confirmWrites, Answers, AnswersTyped
  <2>3. OneAnswerEach'
    BY <1>11, AnswerGiven, AnswersAre, SingleChosen DEF confirmWrites, Answers, OneAnswerEach
  <2>4. QED
    BY <1>11, <2>1, <2>2, <2>3 DEF confirmWrites, Answers
<1>12. ASSUME NEW d \in Configuration \cup {None}, settingsChange(d)
      PROVE  DiscoveryTyped'
  <2> USE DiscoveryAssumption DEF VariablesTyped
  <2>1. VariablesTyped'
    BY <1>12 DEF settingsChange, Spends, Places, Configuration, Device, configurationFor
  <2>2. AnswersTyped'
    BY <1>12 DEF settingsChange, Spends, AnswersTyped
  <2>3. OneAnswerEach'
    BY <1>12 DEF settingsChange, Spends, OneAnswerEach, NoneTwice, Coming
  <2>4. QED
    BY <1>12, <2>1, <2>2, <2>3 DEF settingsChange, Spends
<1>13. ASSUME Answered
      PROVE  DiscoveryTyped'
  <2> USE DiscoveryAssumption DEF VariablesTyped
  <2>0. /\ Head(answers).kind = "discover" => ~search
        /\ Head(answers).kind = "test" => test.of = None
    BY <1>13, AnswerTaken DEF Answered, OneAnswerEach
  <2>1. VariablesTyped'
    <3>1. shown'.from \subseteq Candidates /\ shown'.choice \in shown'.from \cup {None}
      BY <1>13, AnswerTaken DEF Answered, Answer, Chooses, Choosing
    <3>2. searching' \in BOOLEAN /\ testing' \in BOOLEAN /\ succeeded' \in BOOLEAN /\ confirmable' \in BOOLEAN
      BY <1>13 DEF Answered
    <3>3. (search' => searching') /\ (test'.of # None => testing')
      BY <1>13, <2>0 DEF Answered
    <3>4. QED
      BY <1>13, <3>1, <3>2, <3>3 DEF Answered
  <2>2. AnswersTyped'
    BY <1>13, AnswerTaken DEF Answered, AnswersTyped, Answer, Chooses, Choosing
  <2>3. OneAnswerEach'
    BY <1>13, AnswerTaken DEF Answered, OneAnswerEach
  <2>4. QED
    BY <1>13, <2>1, <2>2, <2>3 DEF Answered
<1>14. QED
  BY <1>1, <1>2, <1>3, <1>4, <1>5, <1>6, <1>7, <1>8, <1>9, <1>10, <1>11, <1>12, <1>13 DEF
      DiscoveryNext

(* An answer that chooses becomes the last one. *)
LEMMA ChoiceGiven ==
  ASSUME AnswersTyped, NEW new \in Answer, answers' = Append(answers, new), Chooses(new),
         new.from = candidates', new.choice = selected', tested' = None
  PROVE  /\ LastChoiceIsSelected' /\ ChoiceEndsTest' /\ SettledIsShown'
         /\ Coming(Choosing)'
<1>1. LastChoiceIsSelected'
  BY AnswerGiven DEF LastChoiceIsSelected, Chooses
<1>2. Coming(Choosing)'
  BY AnswerGiven DEF Chooses
<1>3. QED
  BY <1>1, <1>2 DEF ChoiceEndsTest, SettledIsShown

(* An answer that does not choose leaves the choices alone. *)
LEMMA OtherGiven ==
  ASSUME AnswersTyped, NEW new \in Answer, answers' = Append(answers, new), ~Chooses(new),
         UNCHANGED <<candidates, selected, shown>>,
         LastChoiceIsSelected, SearchIsLatest, SettledIsShown, ChoiceEndsTest,
         UNCHANGED tested \/ ~Coming({"test"})
  PROVE  /\ LastChoiceIsSelected' /\ SearchIsLatest' /\ SettledIsShown' /\ ChoiceEndsTest'
         /\ Coming(Choosing)' <=> Coming(Choosing)
<1>1. LastChoiceIsSelected'
  BY AnswerGiven DEF LastChoiceIsSelected, Chooses
<1>2. SearchIsLatest'
  BY AnswerGiven DEF SearchIsLatest, Chooses, Choosing
<1>3. Coming(Choosing)' <=> Coming(Choosing)
  BY AnswerGiven DEF Chooses
<1>4. ASSUME NEW m \in 1..Len(answers'), NEW n \in 1..Len(answers'),
             answers'[m].kind = "test", Chooses(answers'[n]), m < n
      PROVE  tested' = None
  <2>1. n \in 1..Len(answers) /\ m \in 1..Len(answers) /\ Chooses(answers[n])
        /\ answers[m].kind = "test"
    BY <1>4, AnswerGiven
  <2>2. Coming({"test"})
    BY <2>1 DEF Coming
  <2>3. QED
    BY <1>4, <2>1, <2>2 DEF ChoiceEndsTest
<1>5. QED
  BY <1>1, <1>2, <1>3, <1>4 DEF SettledIsShown, ChoiceEndsTest

(* What the answers that are left say is what it was; the answer taken is  *)
(* the last choice or one that another choice follows.                     *)
LEMMA ChoiceTaken ==
  ASSUME AnswersTyped, answers # <<>>, answers' = Tail(answers),
         UNCHANGED <<candidates, selected, tested>>,
         LastChoiceIsSelected, SearchIsLatest, ChoiceEndsTest
  PROVE  /\ LastChoiceIsSelected' /\ SearchIsLatest' /\ ChoiceEndsTest'
         /\ Chooses(Head(answers)) /\ ~Coming(Choosing)' =>
              Head(answers).from = candidates /\ Head(answers).choice = selected
         /\ Head(answers).kind = "discover" =>
              /\ Head(answers).from = candidates
              /\ Head(answers).choice # None => candidates = {Head(answers).choice}
         /\ Head(answers).kind = "test" /\ Coming(Choosing)' => tested = None
<1>1. /\ Len(answers) \in Nat /\ Len(answers') = Len(answers) - 1
      /\ \A n \in 1..Len(answers') : answers'[n] = answers[n + 1] /\ n + 1 \in 1..Len(answers)
      /\ Head(answers) = answers[1] /\ 1 \in 1..Len(answers)
  BY AnswerTaken DEF AnswersTyped
<1>2. \A n \in 1..Len(answers) : n # 1 => n - 1 \in 1..Len(answers') /\ answers'[n - 1] = answers[n]
  BY <1>1
<1>3. LastChoiceIsSelected'
  <2> SUFFICES ASSUME NEW n \in 1..Len(answers'), Chooses(answers'[n]),
                      \A m \in 1..Len(answers') : m > n => ~Chooses(answers'[m])
               PROVE  answers'[n].from = candidates /\ answers'[n].choice = selected
    BY DEF LastChoiceIsSelected
  <2>1. ASSUME NEW m \in 1..Len(answers), m > n + 1
        PROVE  ~Chooses(answers[m])
    <3>1. m - 1 \in 1..Len(answers') /\ m - 1 > n /\ answers'[m - 1] = answers[m]
      BY <1>1, <1>2, <2>1
    <3>2. QED
      BY <3>1
  <2>2. QED
    BY <1>1, <2>1 DEF LastChoiceIsSelected
<1>4. SearchIsLatest'
  BY <1>1 DEF SearchIsLatest
<1>5. ChoiceEndsTest'
  <2> SUFFICES ASSUME NEW m \in 1..Len(answers'), NEW n \in 1..Len(answers'),
                      answers'[m].kind = "test", Chooses(answers'[n]), m < n
               PROVE  tested = None
    BY DEF ChoiceEndsTest
  <2>1. m + 1 < n + 1
    OBVIOUS
  <2>2. QED
    BY <1>1, <2>1 DEF ChoiceEndsTest
<1>6. ASSUME Chooses(Head(answers)), ~Coming(Choosing)'
      PROVE  Head(answers).from = candidates /\ Head(answers).choice = selected
  <2>1. ASSUME NEW m \in 1..Len(answers), m > 1
        PROVE  ~Chooses(answers[m])
    <3>1. m - 1 \in 1..Len(answers') /\ answers'[m - 1] = answers[m]
      BY <1>1, <1>2, <2>1
    <3>2. QED
      BY <1>6, <3>1 DEF Coming, Chooses
  <2>2. QED
    BY <1>1, <1>6, <2>1 DEF LastChoiceIsSelected
<1>7. ASSUME Head(answers).kind = "test", Coming(Choosing)'
      PROVE  tested = None
  <2>1. PICK n \in 1..Len(answers') : answers'[n].kind \in Choosing
    BY <1>7 DEF Coming
  <2>2. n + 1 \in 1..Len(answers) /\ Chooses(answers[n + 1]) /\ 1 < n + 1
    BY <1>1, <2>1 DEF Chooses
  <2>3. QED
    BY <1>1, <1>7, <2>2 DEF ChoiceEndsTest
<1>8. QED
  BY <1>1, <1>3, <1>4, <1>5, <1>6, <1>7 DEF SearchIsLatest

(* The window opens with nothing to show and no answer coming. *)
LEMMA WindowInit == DiscoveryInit => WindowInv
<1> SUFFICES ASSUME DiscoveryInit
             PROVE  WindowInv
  OBVIOUS
<1>1. DiscoveryTyped
  BY DiscoveryTypedInit
<1>2. Len(answers) = 0
  BY DEF DiscoveryInit
<1>3. QED
  BY <1>1, <1>2
     DEF WindowInv, DiscoveryInit, LastChoiceIsSelected, SearchIsLatest, SettledIsShown,
         Coming, ChoiceEndsTest, UnderTest, SucceededIsShown, StoredWasShown, NoTest

(* The window and the main process stay in step, one case per action. *)
LEMMA WindowStep == WindowInv /\ [DiscoveryNext]_discoveryVars => WindowInv'
<1> SUFFICES ASSUME WindowInv, DiscoveryNext
             PROVE  WindowInv'
  BY DiscoveryTypedStep DEF discoveryVars, main, window, WindowInv, LastChoiceIsSelected,
     SearchIsLatest, SettledIsShown, Coming, ChoiceEndsTest, UnderTest, SucceededIsShown,
     StoredWasShown
<1>0. DiscoveryTyped /\ DiscoveryTyped' /\ AnswersTyped /\ VariablesTyped
  BY DiscoveryTypedStep DEF WindowInv, DiscoveryTyped
<1> USE <1>0 DEF main, window

<1>1. ASSUME ClickDiscover
      PROVE  WindowInv'
  <2>1. LastChoiceIsSelected' /\ SearchIsLatest' /\ ChoiceEndsTest'
    BY <1>1
       DEF ClickDiscover, Spends, WindowInv, LastChoiceIsSelected, SearchIsLatest,
           ChoiceEndsTest
  <2>2. \A kinds : Coming(kinds)' <=> Coming(kinds)
    BY <1>1 DEF ClickDiscover, Spends, Coming
  <2>3. SettledIsShown'
    BY <1>1, <2>2 DEF ClickDiscover, Spends, WindowInv, SettledIsShown
  <2>4. UnderTest'
    BY <1>1, <2>2 DEF ClickDiscover, Spends, WindowInv, UnderTest
  <2>5. SucceededIsShown'
    BY <1>1, <2>2 DEF ClickDiscover, Spends, WindowInv, SucceededIsShown
  <2>6. StoredWasShown' /\ \A k \in confirms' : k.of = k.seen
    BY <1>1 DEF ClickDiscover, Spends, WindowInv, StoredWasShown
  <2>7. QED
    BY <1>0, <2>1, <2>3, <2>4, <2>5, <2>6 DEF WindowInv
<1>2. ASSUME NEW d \in Candidates, ClickSelect(d)
      PROVE  WindowInv'
  <2>1. CASE d \in candidates
    <3> DEFINE reply == [kind |-> "select", from |-> candidates, choice |-> d, ok |-> TRUE]
    <3>1. reply \in Answer /\ answers' = Append(answers, reply)
      BY <1>2, <2>1, AnswersAre DEF ClickSelect, Answers
    <3>2. /\ LastChoiceIsSelected' /\ ChoiceEndsTest' /\ SettledIsShown'
          /\ Coming(Choosing)'
      BY <1>2, <2>1, <3>1, ChoiceGiven DEF ClickSelect, Chooses, Choosing
    <3>3. SearchIsLatest'
      BY <1>2, <2>1, <3>1, AnswerGiven DEF ClickSelect, WindowInv, SearchIsLatest
    <3>4. Coming({"select"})' /\ (Coming({"discover"})' <=> Coming({"discover"}))
      BY <3>1, AnswerGiven
    <3>5. UnderTest'
      BY <1>2, <2>1, <3>4 DEF ClickSelect, WindowInv, UnderTest
    <3>6. ASSUME succeeded, shown.choice # None, test.on # None, test.of = d
          PROVE  shown.choice = d
      BY <1>2, <3>6 DEF ClickSelect, WindowInv, UnderTest
    <3>7. SucceededIsShown'
      BY <1>2, <2>1, <3>6 DEF ClickSelect, SucceededIsShown
    <3>8. QED
      BY <1>0, <1>2, <2>1, <3>2, <3>3, <3>5, <3>7 DEF ClickSelect, WindowInv, StoredWasShown
  <2>2. CASE d \notin candidates
    <3>1. LastChoiceIsSelected' /\ SearchIsLatest' /\ ChoiceEndsTest'
      BY <1>2, <2>2
         DEF ClickSelect, WindowInv, LastChoiceIsSelected, SearchIsLatest, ChoiceEndsTest
    <3>2. \A kinds : Coming(kinds)' <=> Coming(kinds)
      BY <1>2, <2>2 DEF ClickSelect, Coming
    <3>3. SettledIsShown'
      BY <1>2, <2>2, <3>2 DEF ClickSelect, WindowInv, SettledIsShown
    <3>4. UnderTest'
      BY <1>2, <2>2, <3>2 DEF ClickSelect, WindowInv, UnderTest
    <3>5. SucceededIsShown'
      BY <1>2, <2>2, <3>2 DEF ClickSelect, WindowInv, SucceededIsShown
    <3>6. StoredWasShown' /\ \A k \in confirms' : k.of = k.seen
      BY <1>2, <2>2 DEF ClickSelect, WindowInv, StoredWasShown
    <3>7. QED
      BY <1>0, <3>1, <3>3, <3>4, <3>5, <3>6 DEF WindowInv
  <2>3. QED
    BY <2>1, <2>2
<1>3. ASSUME ClickTest
      PROVE  WindowInv'
  <2>1. CASE selected = None
    <3> DEFINE reply == [kind |-> "test", from |-> {}, choice |-> None, ok |-> FALSE]
    <3>0. reply \in Answer /\ ~Chooses(reply) /\ answers' = Append(answers, reply)
      BY <1>3, <2>1, AnswersAre DEF ClickTest, Spends, Answers, Chooses, Choosing
    <3>1. /\ LastChoiceIsSelected' /\ SearchIsLatest' /\ SettledIsShown' /\ ChoiceEndsTest'
          /\ Coming(Choosing)' <=> Coming(Choosing)
      BY <1>3, <2>1, <3>0, OtherGiven
         DEF ClickTest, Spends, Answers, WindowInv, DiscoveryTyped, OneAnswerEach,
             VariablesTyped
    <3>2. \A kind \in Choosing : Coming({kind})' <=> Coming({kind})
      BY <3>0, AnswerGiven DEF Chooses
    <3>4. UnderTest'
      BY <1>3, <2>1, <3>2 DEF ClickTest, Spends, Answers, WindowInv, UnderTest, Choosing
    <3>5. SucceededIsShown'
      BY <1>3, <2>1, <3>1 DEF ClickTest, Spends, Answers, WindowInv, SucceededIsShown
    <3>6. StoredWasShown' /\ \A k \in confirms' : k.of = k.seen
      BY <1>3, <2>1 DEF ClickTest, Spends, Answers, WindowInv, StoredWasShown
    <3>7. QED
      BY <1>0, <3>1, <3>4, <3>5, <3>6 DEF WindowInv
  <2>2. CASE selected # None
    <3>1. LastChoiceIsSelected' /\ SearchIsLatest' /\ ChoiceEndsTest'
      BY <1>3, <2>2
         DEF ClickTest, Spends, Answers, WindowInv, LastChoiceIsSelected, SearchIsLatest,
             ChoiceEndsTest
    <3>2. \A kinds : Coming(kinds)' <=> Coming(kinds)
      BY <1>3, <2>2 DEF ClickTest, Spends, Answers, Coming
    <3>3. SettledIsShown'
      BY <1>3, <2>2, <3>2 DEF ClickTest, Spends, Answers, WindowInv, SettledIsShown
    <3>4. UnderTest'
      BY <1>3, <2>2, <3>2 DEF ClickTest, Spends, Answers, WindowInv, UnderTest
    <3>5. SucceededIsShown'
      BY <1>3, <2>2, <3>2 DEF ClickTest, Spends, Answers, WindowInv, SucceededIsShown
    <3>6. StoredWasShown' /\ \A k \in confirms' : k.of = k.seen
      BY <1>3, <2>2 DEF ClickTest, Spends, Answers, WindowInv, StoredWasShown
    <3>7. QED
      BY <1>0, <3>1, <3>3, <3>4, <3>5, <3>6 DEF WindowInv
  <2>3. QED
    BY <2>1, <2>2
<1>4. ASSUME ClickConfirm
      PROVE  WindowInv'
  <2>1. LastChoiceIsSelected' /\ SearchIsLatest' /\ ChoiceEndsTest'
    BY <1>4
       DEF ClickConfirm, Spends, WindowInv, LastChoiceIsSelected, SearchIsLatest,
           ChoiceEndsTest
  <2>2. \A kinds : Coming(kinds)' <=> Coming(kinds)
    BY <1>4 DEF ClickConfirm, Spends, Coming
  <2>3. SettledIsShown'
    BY <1>4, <2>2 DEF ClickConfirm, Spends, WindowInv, SettledIsShown
  <2>4. UnderTest'
    BY <1>4, <2>2 DEF ClickConfirm, Spends, WindowInv, UnderTest
  <2>5. SucceededIsShown'
    BY <1>4, <2>2 DEF ClickConfirm, Spends, WindowInv, SucceededIsShown
  <2>6. StoredWasShown' /\ \A k \in confirms' : k.of = k.seen
    <3>1. ASSUME selected # None, tested = selected
          PROVE  shown.choice = selected
      BY <1>4, <3>1 DEF ClickConfirm, WindowInv, SettledIsShown, SucceededIsShown, Nothing
    <3>2. QED
      BY <1>4, <3>1 DEF ClickConfirm, WindowInv, StoredWasShown
  <2>7. QED
    BY <1>0, <2>1, <2>3, <2>4, <2>5, <2>6 DEF WindowInv
<1>5. ASSUME renderSetupSummary
      PROVE  WindowInv'
  <2>1. LastChoiceIsSelected' /\ SearchIsLatest' /\ ChoiceEndsTest'
    BY <1>5
       DEF renderSetupSummary, WindowInv, LastChoiceIsSelected, SearchIsLatest,
           ChoiceEndsTest
  <2>2. \A kinds : Coming(kinds)' <=> Coming(kinds)
    BY <1>5 DEF renderSetupSummary, Coming
  <2>3. SettledIsShown'
    BY <1>5, <2>2 DEF renderSetupSummary, WindowInv, SettledIsShown
  <2>4. UnderTest'
    BY <1>5, <2>2 DEF renderSetupSummary, WindowInv, UnderTest
  <2>5. SucceededIsShown'
    BY <1>5, <2>2 DEF renderSetupSummary, WindowInv, SucceededIsShown
  <2>6. StoredWasShown' /\ \A k \in confirms' : k.of = k.seen
    BY <1>5 DEF renderSetupSummary, WindowInv, StoredWasShown
  <2>7. QED
    BY <1>0, <2>1, <2>3, <2>4, <2>5, <2>6 DEF WindowInv
<1>6. ASSUME openPrinterSetup
      PROVE  WindowInv'
  <2>1. LastChoiceIsSelected' /\ SearchIsLatest' /\ ChoiceEndsTest'
    BY <1>6
       DEF openPrinterSetup, Nothing, WindowInv, LastChoiceIsSelected, SearchIsLatest,
           ChoiceEndsTest
  <2>2. \A kinds : Coming(kinds)' <=> Coming(kinds)
    BY <1>6 DEF openPrinterSetup, Nothing, Coming
  <2>3. SettledIsShown'
    BY <1>6, <2>2 DEF openPrinterSetup, Nothing, WindowInv, SettledIsShown
  <2>4. UnderTest'
    BY <1>6, <2>2 DEF openPrinterSetup, Nothing, WindowInv, UnderTest
  <2>5. SucceededIsShown'
    BY <1>6, <2>2 DEF openPrinterSetup, Nothing, WindowInv, SucceededIsShown
  <2>6. StoredWasShown' /\ \A k \in confirms' : k.of = k.seen
    BY <1>6 DEF openPrinterSetup, Nothing, WindowInv, StoredWasShown
  <2>7. QED
    BY <1>0, <2>1, <2>3, <2>4, <2>5, <2>6 DEF WindowInv
<1>7. ASSUME NEW S \in SUBSET Candidates, discoverLocalPrinters(S)
      PROVE  WindowInv'
  <2> DEFINE reply == [kind |-> "discover", from |-> S, choice |-> selected', ok |-> TRUE]
  <2>0. selected' \in S \cup {None} /\ (selected' # None => S = {selected'})
    BY <1>7, SingleChosen DEF discoverLocalPrinters
  <2>1. reply \in Answer /\ answers' = Append(answers, reply)
    BY <1>7, <2>0, AnswersAre DEF discoverLocalPrinters, Answers
  <2>2. /\ LastChoiceIsSelected' /\ ChoiceEndsTest' /\ SettledIsShown'
        /\ Coming(Choosing)'
    BY <1>7, <2>1, ChoiceGiven DEF discoverLocalPrinters, Chooses, Choosing
  <2>3. ~Coming({"discover"})
    BY <1>7 DEF discoverLocalPrinters, DiscoveryTyped, OneAnswerEach
  <2>4. SearchIsLatest'
    <3>1. \A n \in 1..Len(answers) : answers[n].kind # "discover"
      BY <2>3 DEF Coming
    <3>2. QED
      BY <1>7, <2>0, <2>1, <3>1, AnswerGiven DEF discoverLocalPrinters, SearchIsLatest
  <2>5. Coming({"select"})' <=> Coming({"select"})
    BY <2>1, AnswerGiven
  <2>6. UnderTest'
    BY <1>7, <2>0, <2>5 DEF discoverLocalPrinters, WindowInv, UnderTest
  <2>7. SucceededIsShown'
    BY <1>7 DEF discoverLocalPrinters, WindowInv, UnderTest, SucceededIsShown, VariablesTyped
  <2>8. QED
    BY <1>0, <1>7, <2>2, <2>4, <2>6, <2>7 DEF discoverLocalPrinters, WindowInv, StoredWasShown
<1>8. ASSUME testPrints
      PROVE  WindowInv'
  <2>1. LastChoiceIsSelected' /\ SearchIsLatest' /\ ChoiceEndsTest'
    BY <1>8 DEF testPrints, WindowInv, LastChoiceIsSelected, SearchIsLatest, ChoiceEndsTest
  <2>2. \A kinds : Coming(kinds)' <=> Coming(kinds)
    BY <1>8 DEF testPrints, Coming
  <2>3. SettledIsShown'
    BY <1>8, <2>2 DEF testPrints, WindowInv, SettledIsShown
  <2>4. UnderTest'
    <3>1. ~Coming({"select"}) /\ ~Coming({"discover"}) /\ ~Coming(Choosing)
      BY <1>8 DEF testPrints, Coming
    <3>2. test'.of = test.of
      BY <1>8 DEF testPrints, VariablesTyped
    <3>3. shown.choice = None \/ (shown.from = candidates /\ shown.choice = selected)
      BY <3>1 DEF WindowInv, SettledIsShown, Nothing
    <3>4. QED
      BY <1>8, <2>2, <3>1, <3>2, <3>3 DEF testPrints, WindowInv, UnderTest
  <2>5. SucceededIsShown'
    BY <1>8, <2>2 DEF testPrints, Coming, SucceededIsShown
  <2>6. StoredWasShown' /\ \A k \in confirms' : k.of = k.seen
    BY <1>8 DEF testPrints, WindowInv, StoredWasShown
  <2>7. QED
    BY <1>0, <2>1, <2>3, <2>4, <2>5, <2>6 DEF WindowInv
<1>9. ASSUME NEW ok \in BOOLEAN, testEnds(ok)
      PROVE  WindowInv'
  <2> DEFINE reply == [kind |-> "test", from |-> {}, choice |-> None, ok |-> ok]
  <2>0. reply \in Answer /\ ~Chooses(reply) /\ answers' = Append(answers, reply)
    BY <1>9, AnswersAre DEF testEnds, NoTest, Answers, Chooses, Choosing
  <2>1. /\ LastChoiceIsSelected' /\ SearchIsLatest' /\ SettledIsShown' /\ ChoiceEndsTest'
        /\ Coming(Choosing)' <=> Coming(Choosing)
    BY <1>9, <2>0, OtherGiven
       DEF testEnds, NoTest, Answers, WindowInv, DiscoveryTyped, OneAnswerEach,
           VariablesTyped
  <2>2. \A kind \in Choosing : Coming({kind})' <=> Coming({kind})
    BY <2>0, AnswerGiven DEF Chooses
  <2>4. UnderTest'
    BY <1>9, <2>2 DEF testEnds, NoTest, Answers, WindowInv, UnderTest, Choosing
  <2>5. SucceededIsShown'
    BY <1>9, <2>1 DEF testEnds, NoTest, Answers, WindowInv, SucceededIsShown
  <2>6. StoredWasShown' /\ \A k \in confirms' : k.of = k.seen
    BY <1>9 DEF testEnds, NoTest, Answers, WindowInv, StoredWasShown
  <2>7. QED
    BY <1>0, <2>1, <2>4, <2>5, <2>6 DEF WindowInv
<1>10. ASSUME NEW k \in confirms, confirmReads(k)
      PROVE  WindowInv'
  <2>1. LastChoiceIsSelected' /\ SearchIsLatest' /\ ChoiceEndsTest'
    BY <1>10 DEF confirmReads, WindowInv, LastChoiceIsSelected, SearchIsLatest, ChoiceEndsTest
  <2>2. \A kinds : Coming(kinds)' <=> Coming(kinds)
    BY <1>10 DEF confirmReads, Coming
  <2>3. SettledIsShown'
    BY <1>10, <2>2 DEF confirmReads, WindowInv, SettledIsShown
  <2>4. UnderTest'
    BY <1>10, <2>2 DEF confirmReads, WindowInv, UnderTest
  <2>5. SucceededIsShown'
    BY <1>10, <2>2 DEF confirmReads, WindowInv, SucceededIsShown
  <2>6. StoredWasShown' /\ \A k1 \in confirms' : k1.of = k1.seen
    <3>1. LET read == [k EXCEPT !.as = configurationFor(k.of)] IN read.of = k.of /\ read.seen = k.seen
      BY DEF VariablesTyped
    <3>2. QED
      BY <1>10, <3>1 DEF confirmReads, WindowInv, StoredWasShown
  <2>7. QED
    BY <1>0, <2>1, <2>3, <2>4, <2>5, <2>6 DEF WindowInv
<1>11. ASSUME NEW k \in confirms, confirmWrites(k)
      PROVE  WindowInv'
  <2> DEFINE reply == [kind |-> "confirm", from |-> {}, choice |-> None, ok |-> TRUE]
  <2>0. reply \in Answer /\ ~Chooses(reply) /\ answers' = Append(answers, reply)
    BY <1>11, AnswersAre DEF confirmWrites, Answers, Chooses, Choosing
  <2>1. /\ LastChoiceIsSelected' /\ SearchIsLatest' /\ SettledIsShown' /\ ChoiceEndsTest'
        /\ Coming(Choosing)' <=> Coming(Choosing)
    BY <1>11, <2>0, OtherGiven
       DEF confirmWrites, Answers, WindowInv, DiscoveryTyped, OneAnswerEach, VariablesTyped
  <2>2. \A kind \in Choosing : Coming({kind})' <=> Coming({kind})
    BY <2>0, AnswerGiven DEF Chooses
  <2>4. UnderTest'
    BY <1>11, <2>2 DEF confirmWrites, Answers, WindowInv, UnderTest, Choosing
  <2>5. SucceededIsShown'
    BY <1>11, <2>1 DEF confirmWrites, Answers, WindowInv, SucceededIsShown
  <2>6. StoredWasShown' /\ \A k1 \in confirms' : k1.of = k1.seen
    BY <1>11 DEF confirmWrites, Answers, WindowInv, StoredWasShown
  <2>7. QED
    BY <1>0, <2>1, <2>4, <2>5, <2>6 DEF WindowInv
<1>12. ASSUME NEW d \in Configuration \cup {None}, settingsChange(d)
      PROVE  WindowInv'
  <2>1. LastChoiceIsSelected' /\ SearchIsLatest' /\ ChoiceEndsTest'
    BY <1>12
       DEF settingsChange, Spends, WindowInv, LastChoiceIsSelected, SearchIsLatest,
           ChoiceEndsTest
  <2>2. \A kinds : Coming(kinds)' <=> Coming(kinds)
    BY <1>12 DEF settingsChange, Spends, Coming
  <2>3. SettledIsShown'
    BY <1>12, <2>2 DEF settingsChange, Spends, WindowInv, SettledIsShown
  <2>4. UnderTest'
    BY <1>12, <2>2 DEF settingsChange, Spends, WindowInv, UnderTest
  <2>5. SucceededIsShown'
    BY <1>12, <2>2 DEF settingsChange, Spends, WindowInv, SucceededIsShown
  <2>6. StoredWasShown' /\ \A k \in confirms' : k.of = k.seen
    BY <1>12 DEF settingsChange, Spends, WindowInv, StoredWasShown
  <2>7. QED
    BY <1>0, <2>1, <2>3, <2>4, <2>5, <2>6 DEF WindowInv
<1>13. ASSUME Answered
      PROVE  WindowInv'
  <2> DEFINE answer == Head(answers)
  <2>1. /\ answers # <<>> /\ answers' = Tail(answers) /\ answer \in Answer
        /\ UNCHANGED <<candidates, selected, tested, test, confirms, kept, search>>
    BY <1>13, AnswerTaken DEF Answered
  <2>2. /\ LastChoiceIsSelected' /\ SearchIsLatest' /\ ChoiceEndsTest'
        /\ Chooses(answer) /\ ~Coming(Choosing)' =>
             answer.from = candidates /\ answer.choice = selected
        /\ answer.kind = "discover" =>
             /\ answer.from = candidates
             /\ answer.choice # None => candidates = {answer.choice}
        /\ answer.kind = "test" /\ Coming(Choosing)' => tested = None
    BY <2>1, ChoiceTaken DEF WindowInv
  <2>3. \A kinds : Coming(kinds) <=> Coming(kinds)' \/ answer.kind \in kinds
    BY <2>1, AnswerTaken
  <2>4. SettledIsShown'
    BY <1>13, <2>2, <2>3 DEF Answered, WindowInv, SettledIsShown, Chooses, Choosing
  <2>5. answer.kind = "test" => test.of = None /\ test.on = None
    BY <2>3 DEF DiscoveryTyped, OneAnswerEach
  <2>6. answer.kind = "discover" => ~search /\ ~Coming({"discover"})'
    BY <2>1, <2>3, AnswerTaken DEF DiscoveryTyped, OneAnswerEach
  <2>7. UnderTest'
    <3>1. CASE answer.kind = "test"
      BY <2>1, <2>5, <3>1 DEF UnderTest
    <3>2. CASE answer.kind = "discover"
      BY <1>13, <2>1, <2>2, <2>3, <2>6, <3>2
         DEF Answered, WindowInv, UnderTest, VariablesTyped, Answer, Chooses, Choosing
    <3>3. CASE answer.kind \notin {"test", "discover"}
      BY <1>13, <3>3 DEF Answered, UnderTest
    <3>4. QED
      BY <3>1, <3>2, <3>3
  <2>8. SucceededIsShown'
    <3>1. CASE answer.kind = "test"
      BY <2>1, <2>2, <2>5, <3>1 DEF SucceededIsShown
    <3>2. CASE answer.kind = "discover"
      BY <1>13, <2>1, <2>2, <3>2
         DEF Answered, SucceededIsShown, VariablesTyped, DiscoveryTyped
    <3>3. CASE answer.kind \notin {"test", "discover"}
      BY <1>13, <3>3 DEF Answered, SucceededIsShown
    <3>4. QED
      BY <3>1, <3>2, <3>3
  <2>9. QED
    BY <1>0, <2>1, <2>2, <2>4, <2>7, <2>8 DEF WindowInv, StoredWasShown
<1>14. QED
  BY <1>1, <1>2, <1>3, <1>4, <1>5, <1>6, <1>7, <1>8, <1>9, <1>10, <1>11, <1>12, <1>13 DEF
      DiscoveryNext

(* No page has come out before the first test. *)
LEMMA PaperInit == DiscoveryInit => PaperInv
<1> SUFFICES ASSUME DiscoveryInit
             PROVE  PaperInv
  OBVIOUS
<1>1. DiscoveryTyped
  BY DiscoveryTypedInit
<1>2. QED
  BY <1>1 DEF PaperInv, StoredWasPrinted, PrintedWhereStored, DiscoveryInit, NoTest

(* The transport stays the one the pages came out on, one case per action. *)
LEMMA PaperStep == PaperInv /\ [DiscoveryNext]_discoveryVars => PaperInv'
<1> SUFFICES ASSUME PaperInv, DiscoveryNext
             PROVE  PaperInv'
  BY DiscoveryTypedStep DEF discoveryVars, main, window, PaperInv, StoredWasPrinted,
     PrintedWhereStored, WasPrinted, Where, Way
<1>0. DiscoveryTyped /\ DiscoveryTyped' /\ VariablesTyped /\ AnswersTyped
  BY DiscoveryTypedStep DEF PaperInv, DiscoveryTyped
<1> USE <1>0 DEF main, window

<1>1. ASSUME ClickDiscover
      PROVE  PaperInv'
  <2>1. (current' = current => Way' = Way) /\ \A h : WasPrinted(h) => WasPrinted(h)'
    BY <1>1 DEF ClickDiscover, Spends, Way, WasPrinted
  <2>2. left'.changes = left.changes
    BY <1>1 DEF ClickDiscover, Spends, AnswersTyped
  <2>3. StoredWasPrinted'
    BY <1>1, <2>1 DEF ClickDiscover, Spends, PaperInv, StoredWasPrinted
  <2>4. ASSUME PrintedWhereStored
        PROVE  PrintedWhereStored'
    BY <1>1, <2>1, <2>4 DEF ClickDiscover, Spends, PrintedWhereStored, Where
  <2>5. QED
    BY <1>0, <2>2, <2>3, <2>4 DEF PaperInv
<1>2. ASSUME NEW d \in Candidates, ClickSelect(d)
      PROVE  PaperInv'
  <2>1. (current' = current => Way' = Way) /\ \A h : WasPrinted(h) => WasPrinted(h)'
    BY <1>2 DEF ClickSelect, Answers, Way, WasPrinted
  <2>2. left'.changes = left.changes
    BY <1>2 DEF ClickSelect, Answers, AnswersTyped
  <2>3. StoredWasPrinted'
    BY <1>2, <2>1 DEF ClickSelect, Answers, PaperInv, StoredWasPrinted
  <2>4. ASSUME PrintedWhereStored
        PROVE  PrintedWhereStored'
    BY <1>2, <2>1, <2>4 DEF ClickSelect, Answers, PrintedWhereStored, Where
  <2>5. QED
    BY <1>0, <2>2, <2>3, <2>4 DEF PaperInv
<1>3. ASSUME ClickTest
      PROVE  PaperInv'
  <2>1. (current' = current => Way' = Way) /\ \A h : WasPrinted(h) => WasPrinted(h)'
    BY <1>3 DEF ClickTest, Spends, Answers, Way, WasPrinted
  <2>2. left'.changes = left.changes
    BY <1>3 DEF ClickTest, Spends, Answers, AnswersTyped
  <2>3. StoredWasPrinted'
    BY <1>3, <2>1 DEF ClickTest, Spends, Answers, PaperInv, StoredWasPrinted
  <2>4. ASSUME PrintedWhereStored
        PROVE  PrintedWhereStored'
    BY <1>3, <2>1, <2>4 DEF ClickTest, Spends, Answers, PrintedWhereStored, Where
  <2>5. QED
    BY <1>0, <2>2, <2>3, <2>4 DEF PaperInv
<1>4. ASSUME ClickConfirm
      PROVE  PaperInv'
  <2>1. (current' = current => Way' = Way) /\ \A h : WasPrinted(h) => WasPrinted(h)'
    BY <1>4 DEF ClickConfirm, Spends, Way, WasPrinted
  <2>2. left'.changes = left.changes
    BY <1>4 DEF ClickConfirm, Spends, AnswersTyped
  <2>3. StoredWasPrinted'
    BY <1>4, <2>1 DEF ClickConfirm, Spends, PaperInv, StoredWasPrinted
  <2>4. ASSUME PrintedWhereStored
        PROVE  PrintedWhereStored'
    BY <1>4, <2>1, <2>4 DEF ClickConfirm, Spends, PrintedWhereStored, Where
  <2>5. QED
    BY <1>0, <2>2, <2>3, <2>4 DEF PaperInv
<1>5. ASSUME renderSetupSummary
      PROVE  PaperInv'
  <2>1. (current' = current => Way' = Way) /\ \A h : WasPrinted(h) => WasPrinted(h)'
    BY <1>5 DEF renderSetupSummary, Way, WasPrinted
  <2>2. left'.changes = left.changes
    BY <1>5 DEF renderSetupSummary, AnswersTyped
  <2>3. StoredWasPrinted'
    BY <1>5, <2>1 DEF renderSetupSummary, PaperInv, StoredWasPrinted
  <2>4. ASSUME PrintedWhereStored
        PROVE  PrintedWhereStored'
    BY <1>5, <2>1, <2>4 DEF renderSetupSummary, PrintedWhereStored, Where
  <2>5. QED
    BY <1>0, <2>2, <2>3, <2>4 DEF PaperInv
<1>6. ASSUME openPrinterSetup
      PROVE  PaperInv'
  <2>1. (current' = current => Way' = Way) /\ \A h : WasPrinted(h) => WasPrinted(h)'
    BY <1>6 DEF openPrinterSetup, Nothing, Way, WasPrinted
  <2>2. left'.changes = left.changes
    BY <1>6 DEF openPrinterSetup, Nothing, AnswersTyped
  <2>3. StoredWasPrinted'
    BY <1>6, <2>1 DEF openPrinterSetup, Nothing, PaperInv, StoredWasPrinted
  <2>4. ASSUME PrintedWhereStored
        PROVE  PrintedWhereStored'
    BY <1>6, <2>1, <2>4 DEF openPrinterSetup, Nothing, PrintedWhereStored, Where
  <2>5. QED
    BY <1>0, <2>2, <2>3, <2>4 DEF PaperInv
<1>7. ASSUME NEW S \in SUBSET Candidates, discoverLocalPrinters(S)
      PROVE  PaperInv'
  <2>1. (current' = current => Way' = Way) /\ \A h : WasPrinted(h) => WasPrinted(h)'
    BY <1>7 DEF discoverLocalPrinters, Answers, Way, WasPrinted
  <2>2. left'.changes = left.changes
    BY <1>7 DEF discoverLocalPrinters, Answers, AnswersTyped
  <2>3. StoredWasPrinted'
    BY <1>7, <2>1 DEF discoverLocalPrinters, Answers, PaperInv, StoredWasPrinted
  <2>4. ASSUME PrintedWhereStored
        PROVE  PrintedWhereStored'
    BY <1>7, <2>1, <2>4 DEF discoverLocalPrinters, Answers, PrintedWhereStored, Where
  <2>5. QED
    BY <1>0, <2>2, <2>3, <2>4 DEF PaperInv
<1>8. ASSUME testPrints
      PROVE  PaperInv'
  <2>1. (current' = current => Way' = Way) /\ \A h : WasPrinted(h) => WasPrinted(h)'
    BY <1>8 DEF testPrints, Way, WasPrinted
  <2>2. left'.changes = left.changes
    BY <1>8 DEF testPrints, AnswersTyped
  <2>3. StoredWasPrinted'
    BY <1>8, <2>1 DEF testPrints, PaperInv, StoredWasPrinted
  <2>4. ASSUME PrintedWhereStored
        PROVE  PrintedWhereStored'
    <3>1. /\ test'.of = test.of
          /\ test'.on = Device(configurationFor(test.of))
      BY <1>8 DEF testPrints, VariablesTyped
    <3>2. Device(configurationFor(test.of)) = Where(test.of)
      BY DEF Device, configurationFor, Where, Way, VariablesTyped, Configuration
    <3>3. QED
      BY <1>8, <2>1, <2>4, <3>1, <3>2 DEF testPrints, PrintedWhereStored, Where
  <2>5. QED
    BY <1>0, <2>2, <2>3, <2>4 DEF PaperInv
<1>9. ASSUME NEW ok \in BOOLEAN, testEnds(ok)
      PROVE  PaperInv'
  <2>1. (current' = current => Way' = Way) /\ \A h : WasPrinted(h) => WasPrinted(h)'
    BY <1>9 DEF testEnds, NoTest, Answers, Way, WasPrinted
  <2>2. left'.changes = left.changes
    BY <1>9 DEF testEnds, NoTest, Answers, AnswersTyped
  <2>3. StoredWasPrinted'
    <3>1. tested' # None => WasPrinted(tested)'
      BY <1>9 DEF testEnds, WasPrinted
    <3>2. QED
      BY <1>9, <2>1, <3>1 DEF testEnds, PaperInv, StoredWasPrinted
  <2>4. ASSUME PrintedWhereStored
        PROVE  PrintedWhereStored'
    BY <1>9, <2>1, <2>4 DEF testEnds, NoTest, PrintedWhereStored, Where
  <2>5. QED
    BY <1>0, <2>2, <2>3, <2>4 DEF PaperInv
<1>10. ASSUME NEW k \in confirms, confirmReads(k)
      PROVE  PaperInv'
  <2>1. (current' = current => Way' = Way) /\ \A h : WasPrinted(h) => WasPrinted(h)'
    BY <1>10 DEF confirmReads, Way, WasPrinted
  <2>2. left'.changes = left.changes
    BY <1>10 DEF confirmReads, AnswersTyped
  <2>0. /\ [k EXCEPT !.as = configurationFor(k.of)].of = k.of
        /\ [k EXCEPT !.as = configurationFor(k.of)].as = configurationFor(k.of)
        /\ configurationFor(k.of).host = k.of
        /\ configurationFor(k.of).transport = Way
    BY DEF VariablesTyped, configurationFor, Configuration, Way
  <2>3. StoredWasPrinted'
    BY <1>10, <2>0, <2>1 DEF confirmReads, PaperInv, StoredWasPrinted
  <2>4. ASSUME PrintedWhereStored
        PROVE  PrintedWhereStored'
    BY <1>10, <2>0, <2>1, <2>4 DEF confirmReads, PrintedWhereStored, Where
  <2>5. QED
    BY <1>0, <2>2, <2>3, <2>4 DEF PaperInv
<1>11. ASSUME NEW k \in confirms, confirmWrites(k)
      PROVE  PaperInv'
  <2>1. \A h : WasPrinted(h) => WasPrinted(h)'
    BY <1>11 DEF confirmWrites, Answers, Way, WasPrinted
  <2>2. left'.changes = left.changes
    BY <1>11 DEF confirmWrites, Answers, AnswersTyped
  <2>3. StoredWasPrinted'
    BY <1>11, <2>1 DEF confirmWrites, Answers, PaperInv, StoredWasPrinted
  <2>0. ASSUME PrintedWhereStored
        PROVE  Way' = Way /\ Device(k.as) = Where(k.of)
    BY <1>11, <2>0
       DEF confirmWrites, PaperInv, PrintedWhereStored, StoredWasPrinted, Way, Where,
           Device, VariablesTyped, Configuration
  <2>4. ASSUME PrintedWhereStored
        PROVE  PrintedWhereStored'
    BY <1>11, <2>0, <2>1, <2>4 DEF confirmWrites, Answers, PrintedWhereStored, Where
  <2>5. QED
    BY <1>0, <2>2, <2>3, <2>4 DEF PaperInv
<1>12. ASSUME NEW d \in Configuration \cup {None}, settingsChange(d)
      PROVE  PaperInv'
  <2>1. \A h : WasPrinted(h) => WasPrinted(h)'
    BY <1>12 DEF settingsChange, WasPrinted
  <2>2. left.changes \in Nat /\ left.changes <= MaxChanges /\ left'.changes = left.changes - 1
    BY <1>12 DEF settingsChange, Spends, AnswersTyped
  <2>3. left'.changes # MaxChanges
    BY <2>2, DiscoveryAssumption
  <2>4. StoredWasPrinted'
    BY <1>12, <2>1 DEF settingsChange, PaperInv, StoredWasPrinted
  <2>5. QED
    BY <1>0, <2>3, <2>4 DEF PaperInv
<1>13. ASSUME Answered
      PROVE  PaperInv'
  <2>1. (current' = current => Way' = Way) /\ \A h : WasPrinted(h) => WasPrinted(h)'
    BY <1>13 DEF Answered, Way, WasPrinted
  <2>2. left'.changes = left.changes
    BY <1>13 DEF Answered, AnswersTyped
  <2>3. StoredWasPrinted'
    BY <1>13, <2>1 DEF Answered, PaperInv, StoredWasPrinted
  <2>4. ASSUME PrintedWhereStored
        PROVE  PrintedWhereStored'
    BY <1>13, <2>1, <2>4 DEF Answered, PrintedWhereStored, Where
  <2>5. QED
    BY <1>0, <2>2, <2>3, <2>4 DEF PaperInv
<1>14. QED
  BY <1>1, <1>2, <1>3, <1>4, <1>5, <1>6, <1>7, <1>8, <1>9, <1>10, <1>11, <1>12, <1>13 DEF
      DiscoveryNext

(* The invariants say what is promised of a stored printer. *)
LEMMA StoredSafe == WindowInv /\ PaperInv => StoredAsShownAndTested
<1> SUFFICES ASSUME WindowInv, PaperInv
             PROVE  StoredAsShownAndTested
  OBVIOUS
<1>1. printed \subseteq [of : Candidates, on : Places]
  BY DEF PaperInv, DiscoveryTyped, VariablesTyped
<1>2. ASSUME NEW k \in kept
      PROVE  \E p \in printed : p.of = k.of
  BY DEF PaperInv, StoredWasPrinted, WasPrinted
<1>3. ASSUME NEW k \in kept, left.changes = MaxChanges
      PROVE  [of |-> k.of, on |-> k.on] \in printed
  <2>1. PICK p \in printed : p.of = k.of
    BY <1>2
  <2>2. p.on = k.on
    BY <1>3, <2>1 DEF PaperInv, PrintedWhereStored
  <2>3. p = [of |-> k.of, on |-> k.on]
    BY <1>1, <2>1, <2>2
  <2>4. QED
    BY <2>1, <2>3
<1>4. StoredWasTested
  BY <1>2, <1>3 DEF StoredWasTested
<1>5. QED
  BY <1>4 DEF StoredAsShownAndTested, WindowInv

(* Every variable of the discovery has its type in every state; what is    *)
(* selected was found, and one search and one test at most are under way   *)
(* (selectDiscoveredPrinter, testSelectedDiscoveredPrinter).               *)
THEOREM DiscoveryTypeCorrect == DiscoverySpec => []DiscoveryTypeOK
<1>1. DiscoveryTyped => DiscoveryTypeOK
  BY DEF DiscoveryTyped, DiscoveryTypeOK
<1>2. QED
  BY <1>1, DiscoveryTypedInit, DiscoveryTypedStep, PTL DEF DiscoverySpec

(* confirmSelectedDiscoveredPrinter stores what the window showed when the *)
(* button was clicked and what a test page came out for, on the device it  *)
(* came out on, however clicks, searches, tests and answers overlap.       *)
THEOREM StoredAsShownAndTestedHolds == DiscoverySpec => []StoredAsShownAndTested
<1>1. DiscoveryInit => WindowInv /\ PaperInv
  BY WindowInit, PaperInit
<1>2. WindowInv /\ PaperInv /\ [DiscoveryNext]_discoveryVars => WindowInv' /\ PaperInv'
  BY WindowStep, PaperStep
<1>3. QED
  BY <1>1, <1>2, StoredSafe, PTL DEF DiscoverySpec
-----------------------------------------------------------------------------
(***************************************************************************)
(* The inductive invariants of the health.  Before the file is read only   *)
(* heartbeats run, and nothing is believed.                                *)
(***************************************************************************)
Checking(t) == doing[t] \in {"measure", "record"}

TasksFit ==
  \A t \in Tasks :
    /\ doing[t] # "idle" => task[t].id \in Printers
    /\ Checking(t) => task[t].kind \in {"monitor", "direct"} /\ task[t].edit \in 1..MaxEdits
    /\ doing[t] = "forget" => task[t].kind \in {"save", "delete"}
    /\ task[t].lost => task[t].kind \in {"monitor", "direct"}

UnreadIsUnknown ==
  ~loaded => /\ health = Unknown /\ queue = <<>>
             /\ \A i \in Printers : failures[i] = 0
             /\ \A t \in Tasks : doing[t] = "idle" \/ Checking(t)

ReadyFailedOnce == \A i \in Printers : IsReady(i) => failures[i] <= 1

HealthTyped == HealthTypeOK /\ TasksFit /\ UnreadIsUnknown /\ ReadyFailedOnce

(***************************************************************************)
(* A check that is not late measures what is stored, and a health file     *)
(* that is not read yet is what a crash left of the settings.              *)
(***************************************************************************)
ChecksFit ==
  \A t \in Tasks : Checking(t) /\ ~task[t].late => task[t].edit = stored[task[t].id]

UnreadFits ==
  ~loaded => \A i \in Printers : disk[i] # NoPrinter /\ ~crossed[i] => disk[i].edit = stored[i]

Forgetting(i) == \E t \in Tasks : doing[t] = "forget" /\ task[t].id = i

FitInv == HealthTyped /\ ChecksFit /\ UnreadFits /\ HealthFitsSettings

(***************************************************************************)
(* What is written last is what is believed, until a task that has changed *)
(* it joins the queue.                                                     *)
(***************************************************************************)
WrittenLast == IF queue = <<>> THEN disk ELSE queue[Len(queue)].printers

LastFollows ==
  ~fileFailed /\ loaded /\ (\A t \in Tasks : doing[t] # "persist") =>
    \A i \in Printers : Believed(WrittenLast)[i] = Believed(health)[i]

Losing(i) ==
  \E t \in Tasks :
    task[t].id = i /\ task[t].lost /\ doing[t] \in {"persist", "queued", "tell"}

CountedFailed == \A i \in Printers : failures[i] # 0 => lastFailed[i]

BeliefInv == HealthTyped /\ LastFollows /\ LossIsTold /\ CountedFailed

(* The conjuncts of the type invariant about the variables one by one, and *)
(* those about the queue.                                                  *)
Awaits == {"idle", "measure", "record", "persist", "queued", "tell", "forget"}

Write == [owner : Tasks, printers : Table]

Task == [kind : {"none", "monitor", "direct", "save", "delete"},
         id : Printers \cup {NoPrinter}, edit : 0..MaxEdits, status : Statuses,
         lost : BOOLEAN, late : BOOLEAN]

HealthVarsTyped ==
  /\ stored \in [Printers -> 0..MaxEdits] /\ active \in Printers \cup {NoPrinter}
  /\ health \in Table /\ disk \in Table
  /\ failures \in [Printers -> 0..2] /\ loaded \in BOOLEAN
  /\ queue \in Seq(Write)
  /\ doing \in [Tasks -> Awaits]
  /\ task \in [Tasks -> Task]
  /\ healthFaultsLeft \in 0..MaxHealthFaults
  /\ lastFailed \in [Printers -> BOOLEAN] /\ crossed \in [Printers -> BOOLEAN]
  /\ untold \in [Printers -> BOOLEAN] /\ hindered \in [Printers -> BOOLEAN]
  /\ fileFailed \in BOOLEAN

ActiveIsStored ==
  /\ active = NoPrinter <=> \A i \in Printers : stored[i] = 0
  /\ active # NoPrinter => stored[active] # 0

InQueue(t) == \E n \in 1..Len(queue) : queue[n].owner = t

QueuedOnce ==
  /\ \A t \in Tasks : doing[t] = "queued" <=> InQueue(t)
  /\ \A m, n \in 1..Len(queue) : queue[m].owner = queue[n].owner => m = n

(* The type invariant by the variables, the active printer and the queue of *)
(* writes                                                                  *)
LEMMA HealthTypeParts == HealthTypeOK <=> HealthVarsTyped /\ ActiveIsStored /\ QueuedOnce
<1>1. HealthTypeOK => HealthVarsTyped /\ ActiveIsStored
  BY DEF HealthTypeOK, HealthVarsTyped, ActiveIsStored, Awaits, Task, Write
<1>2. queue \in Seq(Write) => DOMAIN queue = 1..Len(queue)
  OBVIOUS
<1>3. HealthVarsTyped /\ ActiveIsStored => (HealthTypeOK <=> QueuedOnce)
  BY <1>2
     DEF HealthTypeOK, HealthVarsTyped, ActiveIsStored, QueuedOnce, InQueue, Awaits, Task,
         Write
<1>4. QED
  BY <1>1, <1>3

(* The same of the state after a step *)
LEMMA HealthTypePartsNext ==
  HealthVarsTyped' /\ ActiveIsStored' /\ QueuedOnce' => HealthTypeOK'
<1>1. HealthVarsTyped /\ ActiveIsStored /\ QueuedOnce => HealthTypeOK
  BY HealthTypeParts
<1>2. QED
  BY <1>1, PTL

(* Where a task goes, and what becomes of it when it ends. *)
LEMMA Moves ==
  ASSUME HealthVarsTyped, NEW t \in Tasks
  PROVE  /\ NoTask \in Task
         /\ \A at \in Awaits : Goes(t, at) =>
              /\ doing' \in [Tasks -> Awaits]
              /\ \A u \in Tasks : doing'[u] = IF u = t THEN at ELSE doing[u]
         /\ Ends(t) =>
              /\ doing' \in [Tasks -> Awaits] /\ task' \in [Tasks -> Task]
              /\ \A u \in Tasks : doing'[u] = IF u = t THEN "idle" ELSE doing[u]
              /\ \A u \in Tasks : task'[u] = IF u = t THEN NoTask ELSE task[u]
<1>1. NoTask \in Task
  BY HealthAssumption DEF NoTask, Task, Statuses
<1>2. \A at \in Awaits : Goes(t, at) =>
        /\ doing' \in [Tasks -> Awaits]
        /\ \A u \in Tasks : doing'[u] = IF u = t THEN at ELSE doing[u]
  BY DEF Goes, HealthVarsTyped
<1>3. "idle" \in Awaits
  BY DEF Awaits
<1>4. Ends(t) => /\ task' \in [Tasks -> Task]
                 /\ \A u \in Tasks : task'[u] = IF u = t THEN NoTask ELSE task[u]
  BY <1>1 DEF Ends, HealthVarsTyped
<1>5. QED
  BY <1>1, <1>2, <1>3, <1>4 DEF Ends

(* The call that throws hinders its own loss, if it has one, and no other. *)
LEMMA Hindered ==
  ASSUME HealthVarsTyped, NEW t \in Tasks, Hinders(t)
  PROVE  /\ hindered' \in [Printers -> BOOLEAN]
         /\ \A j \in Printers :
              ~hindered'[j] => ~hindered[j] /\ ~(task[t].id = j /\ task[t].lost)
<1>1. hindered \in [Printers -> BOOLEAN]
  BY DEF HealthVarsTyped
<1>2. CASE task[t].lost
  BY <1>1, <1>2 DEF Hinders
<1>3. CASE ~task[t].lost
  BY <1>1, <1>3 DEF Hinders
<1>4. QED
  BY <1>2, <1>3

(* What may change in a task keeps the rest of it. *)
LEMMA TaskChanges ==
  ASSUME HealthVarsTyped, NEW t \in Tasks
  PROVE  /\ \A s \in Statuses :
              /\ [task EXCEPT ![t].status = s] \in [Tasks -> Task]
              /\ [task EXCEPT ![t].status = s][t] = [task[t] EXCEPT !.status = s]
              /\ \A u \in Tasks \ {t} : [task EXCEPT ![t].status = s][u] = task[u]
         /\ \A lost \in BOOLEAN :
              /\ [task EXCEPT ![t].lost = lost] \in [Tasks -> Task]
              /\ [task EXCEPT ![t].lost = lost][t] = [task[t] EXCEPT !.lost = lost]
              /\ \A u \in Tasks \ {t} : [task EXCEPT ![t].lost = lost][u] = task[u]
         /\ [task[t] EXCEPT !.late = TRUE] \in Task
<1>1. task \in [Tasks -> Task] /\ task[t] \in Task
  BY DEF HealthVarsTyped
<1>2. \A s \in Statuses : [task[t] EXCEPT !.status = s] \in Task
  BY <1>1 DEF Task
<1>3. \A lost \in BOOLEAN : [task[t] EXCEPT !.lost = lost] \in Task
  BY <1>1 DEF Task
<1>4. [task[t] EXCEPT !.late = TRUE] \in Task
  BY <1>1 DEF Task
<1>5. QED
  BY <1>1, <1>2, <1>3, <1>4

(* A write joins the queue at its end and leaves it at its head. *)
LEMMA QueueGrows ==
  ASSUME HealthVarsTyped, NEW e \in Write, queue' = Append(queue, e)
  PROVE  /\ queue' \in Seq(Write)
         /\ Len(queue) \in Nat /\ Len(queue') = Len(queue) + 1
         /\ \A n \in 1..Len(queue) : queue'[n] = queue[n]
         /\ queue'[Len(queue')] = e
         /\ queue' # <<>>
         /\ \A t \in Tasks : InQueue(t)' <=> InQueue(t) \/ t = e.owner
         /\ QueuedOnce /\ ~InQueue(e.owner) =>
              \A m, n \in 1..Len(queue') : queue'[m].owner = queue'[n].owner => m = n
<1>1. /\ queue' \in Seq(Write)
      /\ Len(queue) \in Nat /\ Len(queue') = Len(queue) + 1
      /\ \A n \in 1..Len(queue) : queue'[n] = queue[n]
      /\ queue'[Len(queue')] = e
      /\ queue' # <<>>
  <2>1. queue \in Seq(Write) /\ Len(queue) \in Nat
    BY DEF HealthVarsTyped
  <2>2. queue' \in Seq(Write) /\ Len(queue') = Len(queue) + 1
    BY <2>1
  <2>3. \A n \in 1..Len(queue) : queue'[n] = queue[n]
    BY <2>1
  <2>4. queue'[Len(queue')] = e /\ queue' # <<>>
    BY <2>1, <2>2
  <2>5. QED
    BY <2>1, <2>2, <2>3, <2>4
<1>2. 1..Len(queue') = 1..Len(queue) \cup {Len(queue')}
  BY <1>1
<1>3. \A t \in Tasks : InQueue(t)' <=> InQueue(t) \/ t = e.owner
  BY <1>1, <1>2 DEF InQueue
<1>4. QueuedOnce /\ ~InQueue(e.owner) =>
        \A m, n \in 1..Len(queue') : queue'[m].owner = queue'[n].owner => m = n
  BY <1>1, <1>2 DEF InQueue, QueuedOnce
<1>5. QED
  BY <1>1, <1>3, <1>4

(* The first write of the queue leaves it with its task and no other. *)
LEMMA QueueShrinks ==
  ASSUME HealthVarsTyped, QueuedOnce, queue # <<>>, queue' = Tail(queue)
  PROVE  /\ Head(queue) \in Write /\ Head(queue).owner \in Tasks /\ Head(queue).printers \in Table
         /\ queue' \in Seq(Write)
         /\ InQueue(Head(queue).owner)
         /\ \A t \in Tasks : InQueue(t)' <=> InQueue(t) /\ t # Head(queue).owner
         /\ \A m, n \in 1..Len(queue') : queue'[m].owner = queue'[n].owner => m = n
         /\ queue' # <<>> => queue'[Len(queue')] = queue[Len(queue)]
         /\ queue' = <<>> => queue[Len(queue)] = Head(queue)
<1>1. /\ Head(queue) \in Write
      /\ queue' \in Seq(Write)
      /\ Len(queue) \in Nat /\ Len(queue') = Len(queue) - 1 /\ 1 \in 1..Len(queue)
      /\ Head(queue) = queue[1]
      /\ \A n \in 1..Len(queue') : queue'[n] = queue[n + 1] /\ n + 1 \in 1..Len(queue)
      /\ queue' # <<>> <=> Len(queue') # 0
  <2>1. queue \in Seq(Write) /\ Len(queue) \in Nat
    BY DEF HealthVarsTyped
  <2>2. Len(queue) # 0 /\ 1 \in 1..Len(queue)
    BY <2>1, EmptySeq
  <2>3. Head(queue) = queue[1] /\ Head(queue) \in Write
    BY <2>1, <2>2
  <2>4. queue' \in Seq(Write) /\ Len(queue') = Len(queue) - 1
    BY <2>1, <2>2
  <2>5. \A n \in 1..Len(queue') : queue'[n] = queue[n + 1] /\ n + 1 \in 1..Len(queue)
    BY <2>1, <2>2, <2>4
  <2>6. queue' # <<>> <=> Len(queue') # 0
    BY <2>4, EmptySeq
  <2>7. QED
    BY <2>1, <2>2, <2>3, <2>4, <2>5, <2>6
<1>2. \A n \in 1..Len(queue) : n # 1 => n - 1 \in 1..Len(queue') /\ queue'[n - 1] = queue[n]
  BY <1>1
<1>3. InQueue(Head(queue).owner)
  BY <1>1 DEF InQueue
<1>4. ASSUME NEW t \in Tasks
      PROVE  InQueue(t)' <=> InQueue(t) /\ t # Head(queue).owner
  <2>1. ASSUME NEW n \in 1..Len(queue'), queue'[n].owner = t
        PROVE  InQueue(t) /\ t # Head(queue).owner
    <3>1. n + 1 \in 1..Len(queue) /\ n + 1 # 1 /\ queue[n + 1].owner = t
      BY <1>1, <2>1
    <3>2. QED
      BY <1>1, <3>1 DEF InQueue, QueuedOnce
  <2>2. ASSUME NEW n \in 1..Len(queue), queue[n].owner = t, t # Head(queue).owner
        PROVE  InQueue(t)'
    <3>1. n - 1 \in 1..Len(queue') /\ queue'[n - 1].owner = t
      BY <1>1, <1>2, <2>2
    <3>2. QED
      BY <3>1 DEF InQueue
  <2>3. QED
    BY <2>1, <2>2 DEF InQueue
<1>5. ASSUME NEW m \in 1..Len(queue'), NEW n \in 1..Len(queue'), queue'[m].owner = queue'[n].owner
      PROVE  m = n
  <2>1. m + 1 = n + 1
    BY <1>1, <1>5 DEF QueuedOnce
  <2>2. QED
    BY <2>1
<1>6. /\ queue' # <<>> => queue'[Len(queue')] = queue[Len(queue)]
      /\ queue' = <<>> => queue[Len(queue)] = Head(queue)
  BY <1>1
<1>7. QED
  BY <1>1, <1>3, <1>4, <1>5, <1>6 DEF Write

(* The types of the initial states. *)
LEMMA HealthTypedInit == HealthInit => HealthTyped
<1> SUFFICES ASSUME HealthInit
             PROVE  HealthTyped
  OBVIOUS
<1> USE HealthAssumption DEF HealthInit, Unknown, NoTask
<1>1. Len(queue) = 0 /\ queue \in Seq(Write)
  OBVIOUS
<1>2. HealthVarsTyped
  <2>1. health \in Table /\ disk \in Table
    BY DEF Table
  <2>2. "ready" \in Statuses
    BY DEF Statuses
  <2>3. stored \in [Printers -> 0..MaxEdits] /\ healthFaultsLeft \in 0..MaxHealthFaults
    OBVIOUS
  <2>4. task \in [Tasks -> Task] /\ doing \in [Tasks -> Awaits]
    BY <2>2 DEF Task, Awaits
  <2>5. failures \in [Printers -> 0..2] /\ lastFailed \in [Printers -> BOOLEAN]
    OBVIOUS
  <2>6. QED
    BY <1>1, <2>1, <2>3, <2>4, <2>5 DEF HealthVarsTyped
<1>3. ActiveIsStored
  BY DEF ActiveIsStored
<1>4. QueuedOnce
  BY <1>1 DEF QueuedOnce, InQueue
<1>5. TasksFit /\ UnreadIsUnknown /\ ReadyFailedOnce
  BY DEF TasksFit, UnreadIsUnknown, ReadyFailedOnce, IsReady, Checking
<1>6. QED
  BY <1>2, <1>3, <1>4, <1>5, HealthTypeParts DEF HealthTyped

(* The types of the steps, one case per action. *)
LEMMA HealthTypedStep == HealthTyped /\ [HealthNext]_healthVars => HealthTyped'
<1> SUFFICES ASSUME HealthTyped, HealthNext
             PROVE  HealthTyped'
  <2> SUFFICES ASSUME HealthTyped, UNCHANGED healthVars
               PROVE  HealthTyped'
    OBVIOUS
  <2>1. HealthTypeOK'
    BY DEF healthVars, HealthTyped, HealthTypeOK
  <2>2. QED
    BY <2>1
       DEF healthVars, HealthTyped, TasksFit, UnreadIsUnknown, ReadyFailedOnce, IsReady,
           Checking
<1>0. HealthVarsTyped /\ ActiveIsStored /\ QueuedOnce /\ TasksFit /\ UnreadIsUnknown /\ ReadyFailedOnce
  BY HealthTypeParts DEF HealthTyped
<1> USE <1>0, HealthAssumption DEF settings, memory, resultsSeen

<1>1. ASSUME NEW t \in Tasks, NEW i \in Printers, NEW kind \in {"monitor", "direct"}, Check(t, i, kind)
      PROVE  HealthTyped'
  <2>1. HealthVarsTyped'
    <3>1. task' \in [Tasks -> Task]
      BY <1>1, Moves DEF Check, HealthVarsTyped, Task, NoTask
    <3>2. doing' \in [Tasks -> Awaits]
      BY <1>1, Moves DEF Check, HealthVarsTyped, Awaits
    <3>3. healthFaultsLeft' \in 0..MaxHealthFaults
      BY <1>1 DEF Check, HealthVarsTyped
    <3>4. health' \in Table /\ failures' \in [Printers -> 0..2]
      BY <1>1 DEF Check, HealthVarsTyped
    <3>5. /\ lastFailed' \in [Printers -> BOOLEAN] /\ crossed' \in [Printers -> BOOLEAN]
          /\ untold' \in [Printers -> BOOLEAN] /\ hindered' \in [Printers -> BOOLEAN]
      BY <1>1 DEF Check, HealthVarsTyped
    <3>6. /\ stored' \in [Printers -> 0..MaxEdits] /\ active' \in Printers \cup {NoPrinter}
          /\ disk' \in Table /\ loaded' \in BOOLEAN /\ queue' \in Seq(Write)
          /\ fileFailed' \in BOOLEAN
      BY <1>1 DEF Check, HealthVarsTyped
    <3>7. QED
      BY <3>1, <3>2, <3>3, <3>4, <3>5, <3>6 DEF HealthVarsTyped
  <2>2. ActiveIsStored'
    BY <1>1 DEF Check, ActiveIsStored, HealthVarsTyped
  <2>3. QueuedOnce'
    <3>1. UNCHANGED queue /\ doing[t] = "idle"
      BY <1>1 DEF Check
    <3>2. \A u \in Tasks : doing'[u] = IF u = t THEN "measure" ELSE doing[u]
      BY <1>1, Moves DEF Check, Awaits
    <3>3. QED
      BY <3>1, <3>2 DEF QueuedOnce, InQueue
  <2>4. TasksFit'
    BY <1>1, Moves DEF Check, TasksFit, Checking, HealthVarsTyped, Awaits, NoTask, Task
  <2>5. UnreadIsUnknown'
    BY <1>1, Moves DEF Check, UnreadIsUnknown, Checking, HealthVarsTyped, Awaits
  <2>6. ReadyFailedOnce'
    BY <1>1 DEF Check, ReadyFailedOnce, IsReady, HealthVarsTyped, Table
  <2>7. QED
    BY <2>1, <2>2, <2>3, <2>4, <2>5, <2>6, HealthTypePartsNext DEF HealthTyped
<1>2. ASSUME NEW t \in Tasks, NEW s \in Statuses, Measured(t, s)
      PROVE  HealthTyped'
  <2>1. HealthVarsTyped'
    <3>1. task' \in [Tasks -> Task]
      BY <1>2, Moves, TaskChanges DEF Measured, HealthVarsTyped
    <3>2. doing' \in [Tasks -> Awaits]
      BY <1>2, Moves DEF Measured, HealthVarsTyped, Awaits
    <3>3. healthFaultsLeft' \in 0..MaxHealthFaults
      BY <1>2 DEF Measured, HealthVarsTyped
    <3>4. health' \in Table /\ failures' \in [Printers -> 0..2]
      BY <1>2 DEF Measured, HealthVarsTyped
    <3>5. /\ lastFailed' \in [Printers -> BOOLEAN] /\ crossed' \in [Printers -> BOOLEAN]
          /\ untold' \in [Printers -> BOOLEAN] /\ hindered' \in [Printers -> BOOLEAN]
      BY <1>2 DEF Measured, HealthVarsTyped
    <3>6. /\ stored' \in [Printers -> 0..MaxEdits] /\ active' \in Printers \cup {NoPrinter}
          /\ disk' \in Table /\ loaded' \in BOOLEAN /\ queue' \in Seq(Write)
          /\ fileFailed' \in BOOLEAN
      BY <1>2 DEF Measured, HealthVarsTyped
    <3>7. QED
      BY <3>1, <3>2, <3>3, <3>4, <3>5, <3>6 DEF HealthVarsTyped
  <2>2. ActiveIsStored'
    BY <1>2 DEF Measured, ActiveIsStored, HealthVarsTyped
  <2>3. QueuedOnce'
    BY <1>2, Moves DEF Measured, QueuedOnce, HealthVarsTyped, Awaits, InQueue
  <2>4. TasksFit'
    BY <1>2, Moves DEF Measured, TasksFit, Checking, HealthVarsTyped, Awaits, NoTask, Task
  <2>5. UnreadIsUnknown'
    BY <1>2, Moves DEF Measured, UnreadIsUnknown, Checking, HealthVarsTyped, Awaits
  <2>6. ReadyFailedOnce'
    BY <1>2 DEF Measured, ReadyFailedOnce, IsReady, HealthVarsTyped, Table
  <2>7. QED
    BY <2>1, <2>2, <2>3, <2>4, <2>5, <2>6, HealthTypePartsNext DEF HealthTyped
<1>3. ASSUME NEW t \in Tasks, recordHealth(t)
      PROVE  HealthTyped'
  <2>1. HealthVarsTyped'
    <3>1. task' \in [Tasks -> Task]
      <4> DEFINE lost == IsReady(task[t].id) /\ task[t].status # "ready"
      <4>1. lost \in BOOLEAN /\ [task EXCEPT ![t].lost = lost] \in [Tasks -> Task]
        BY TaskChanges
      <4>2. Ends(t) \/ task' = [task EXCEPT ![t].lost = lost]
        BY <1>3 DEF recordHealth
      <4>3. QED
        BY <4>1, <4>2, Moves
    <3>2. doing' \in [Tasks -> Awaits]
      BY <1>3, Moves DEF recordHealth, HealthVarsTyped, Awaits
    <3>3. healthFaultsLeft' \in 0..MaxHealthFaults
      BY <1>3 DEF recordHealth, HealthVarsTyped
    <3>4. health' \in Table /\ failures' \in [Printers -> 0..2]
      <4>1. [status |-> task[t].status, edit |-> task[t].edit] \in Health
        BY <1>3 DEF recordHealth, HealthVarsTyped, Task, TasksFit, Checking, Health
      <4>2. health' \in Table
        BY <1>3, <4>1 DEF recordHealth, HealthVarsTyped, Table
      <4>3. Counted(task[t]) \in 0..2
        <5>1. task[t].id \in Printers
          BY <1>3 DEF recordHealth, TasksFit
        <5>2. failures[task[t].id] \in 0..2 /\ (IsReady(task[t].id) => failures[task[t].id] <= 1)
          BY <5>1 DEF HealthVarsTyped, ReadyFailedOnce
        <5>3. QED
          BY <5>2 DEF Counted
      <4>4. failures' \in [Printers -> 0..2]
        BY <1>3, <4>3 DEF recordHealth, HealthVarsTyped
      <4>5. QED
        BY <4>2, <4>4
    <3>5. /\ lastFailed' \in [Printers -> BOOLEAN] /\ crossed' \in [Printers -> BOOLEAN]
          /\ untold' \in [Printers -> BOOLEAN] /\ hindered' \in [Printers -> BOOLEAN]
      <4>1. CASE Spared(task[t])
        BY <1>3, <4>1 DEF recordHealth, HealthVarsTyped
      <4>2. CASE ~Spared(task[t])
        <5>1. task[t].late \in BOOLEAN
          BY DEF HealthVarsTyped, Task
        <5>2. lastFailed' \in [Printers -> BOOLEAN] /\ crossed' \in [Printers -> BOOLEAN]
          BY <1>3, <4>2, <5>1 DEF recordHealth, HealthVarsTyped
        <5>3. untold' \in [Printers -> BOOLEAN]
          BY <1>3, <4>2 DEF recordHealth, HealthVarsTyped
        <5>4. hindered' \in [Printers -> BOOLEAN]
          BY <1>3, <4>2 DEF recordHealth, HealthVarsTyped
        <5>5. QED
          BY <5>2, <5>3, <5>4
      <4>3. QED
        BY <4>1, <4>2
    <3>6. /\ stored' \in [Printers -> 0..MaxEdits] /\ active' \in Printers \cup {NoPrinter}
          /\ disk' \in Table /\ loaded' \in BOOLEAN /\ queue' \in Seq(Write)
          /\ fileFailed' \in BOOLEAN
      BY <1>3 DEF recordHealth, HealthVarsTyped
    <3>7. QED
      BY <3>1, <3>2, <3>3, <3>4, <3>5, <3>6 DEF HealthVarsTyped
  <2>2. ActiveIsStored'
    BY <1>3 DEF recordHealth, ActiveIsStored, HealthVarsTyped
  <2>3. QueuedOnce'
    <3>1. UNCHANGED queue /\ doing[t] = "record" /\ (Ends(t) \/ Goes(t, "persist"))
      BY <1>3 DEF recordHealth
    <3>2. /\ doing'[t] \in {"idle", "persist"}
          /\ \A u \in Tasks \ {t} : doing'[u] = doing[u]
      BY <3>1, Moves DEF Awaits
    <3>3. QED
      BY <3>1, <3>2 DEF QueuedOnce, InQueue
  <2>4. TasksFit'
    <3> DEFINE lost == IsReady(task[t].id) /\ task[t].status # "ready"
    <3>1. lost \in BOOLEAN
      OBVIOUS
    <3>2. CASE Ends(t)
      BY <1>3, <3>2, Moves DEF TasksFit, Checking, NoTask
    <3>3. CASE Goes(t, "persist") /\ task' = [task EXCEPT ![t].lost = lost]
      <4>1. /\ task'[t].id = task[t].id /\ task'[t].kind = task[t].kind /\ doing'[t] = "persist"
            /\ \A u \in Tasks \ {t} : task'[u] = task[u] /\ doing'[u] = doing[u]
        BY <3>1, <3>3, TaskChanges, Moves DEF Task, Awaits, HealthVarsTyped
      <4>2. task[t].id \in Printers /\ task[t].kind \in {"monitor", "direct"}
        BY <1>3 DEF recordHealth, TasksFit, Checking
      <4>3. QED
        BY <4>1, <4>2 DEF TasksFit, Checking
    <3>4. QED
      BY <1>3, <3>2, <3>3 DEF recordHealth
  <2>5. UnreadIsUnknown'
    BY <1>3, Moves DEF recordHealth, UnreadIsUnknown, Checking, HealthVarsTyped, Awaits
  <2>6. ReadyFailedOnce'
    <3> DEFINE i == task[t].id
    <3>1. i \in Printers
      BY <1>3 DEF recordHealth, TasksFit
    <3>2. failures' = [failures EXCEPT ![i] = Counted(task[t])]
      BY <1>3 DEF recordHealth
    <3>3. CASE Spared(task[t])
      BY <1>3, <3>1, <3>2, <3>3
         DEF recordHealth, ReadyFailedOnce, IsReady, HealthVarsTyped, Counted, Spared
    <3>4. CASE ~Spared(task[t])
      <4>1. health' = [health EXCEPT ![i] = [status |-> task[t].status, edit |-> task[t].edit]]
        BY <1>3, <3>4 DEF recordHealth
      <4>2. QED
        BY <3>1, <3>2, <3>4, <4>1
           DEF ReadyFailedOnce, IsReady, HealthVarsTyped, Table, Counted, Spared
    <3>5. QED
      BY <3>3, <3>4
  <2>7. QED
    BY <2>1, <2>2, <2>3, <2>4, <2>5, <2>6, HealthTypePartsNext DEF HealthTyped
<1>4. ASSUME NEW t \in Tasks, persistHealth(t)
      PROVE  HealthTyped'
  <2> DEFINE entry == [owner |-> t, printers |-> health]
  <2>0. entry \in Write /\ queue' = Append(queue, entry)
    BY <1>4 DEF persistHealth, HealthVarsTyped, Write
  <2>1. HealthVarsTyped'
    BY <1>4, Moves, <2>0, QueueGrows DEF persistHealth, HealthVarsTyped, Awaits
  <2>2. ActiveIsStored'
    BY <1>4 DEF persistHealth, ActiveIsStored, HealthVarsTyped
  <2>3. QueuedOnce'
    <3>1. ~InQueue(t)
      BY <1>4 DEF persistHealth, QueuedOnce
    <3>2. /\ \A u \in Tasks : InQueue(u)' <=> InQueue(u) \/ u = t
          /\ \A m, n \in 1..Len(queue') : queue'[m].owner = queue'[n].owner => m = n
      BY <2>0, <3>1, QueueGrows
    <3>3. QED
      BY <1>4, <3>2, Moves DEF persistHealth, QueuedOnce, Awaits
  <2>4. TasksFit'
    BY <1>4, Moves, <2>0, QueueGrows
       DEF persistHealth, TasksFit, Checking, HealthVarsTyped, Awaits, NoTask
  <2>5. UnreadIsUnknown'
    BY <1>4, Moves, <2>0, QueueGrows
       DEF persistHealth, UnreadIsUnknown, Checking, HealthVarsTyped, Awaits
  <2>6. ReadyFailedOnce'
    BY <1>4 DEF persistHealth, ReadyFailedOnce, IsReady, HealthVarsTyped, Table
  <2>7. QED
    BY <2>1, <2>2, <2>3, <2>4, <2>5, <2>6, HealthTypePartsNext DEF HealthTyped
<1>5. ASSUME NEW t \in Tasks, Tell(t)
      PROVE  HealthTyped'
  <2>1. HealthVarsTyped'
    <3>1. task' \in [Tasks -> Task]
      BY <1>5, Moves DEF Tell, HealthVarsTyped
    <3>2. doing' \in [Tasks -> Awaits]
      BY <1>5, Moves DEF Tell, HealthVarsTyped, Awaits
    <3>3. healthFaultsLeft' \in 0..MaxHealthFaults
      BY <1>5 DEF Tell, HealthVarsTyped
    <3>4. health' \in Table /\ failures' \in [Printers -> 0..2]
      BY <1>5 DEF Tell, HealthVarsTyped
    <3>5. /\ lastFailed' \in [Printers -> BOOLEAN] /\ crossed' \in [Printers -> BOOLEAN]
          /\ untold' \in [Printers -> BOOLEAN] /\ hindered' \in [Printers -> BOOLEAN]
      BY <1>5 DEF Tell, HealthVarsTyped
    <3>6. /\ stored' \in [Printers -> 0..MaxEdits] /\ active' \in Printers \cup {NoPrinter}
          /\ disk' \in Table /\ loaded' \in BOOLEAN /\ queue' \in Seq(Write)
          /\ fileFailed' \in BOOLEAN
      BY <1>5 DEF Tell, HealthVarsTyped
    <3>7. QED
      BY <3>1, <3>2, <3>3, <3>4, <3>5, <3>6 DEF HealthVarsTyped
  <2>2. ActiveIsStored'
    BY <1>5 DEF Tell, ActiveIsStored, HealthVarsTyped
  <2>3. QueuedOnce'
    BY <1>5, Moves DEF Tell, QueuedOnce, HealthVarsTyped, Awaits, InQueue
  <2>4. TasksFit'
    BY <1>5, Moves DEF Tell, TasksFit, Checking, NoTask
  <2>5. UnreadIsUnknown'
    BY <1>5, Moves DEF Tell, UnreadIsUnknown, Checking, HealthVarsTyped, Awaits
  <2>6. ReadyFailedOnce'
    BY <1>5 DEF Tell, ReadyFailedOnce, IsReady, HealthVarsTyped, Table
  <2>7. QED
    BY <2>1, <2>2, <2>3, <2>4, <2>5, <2>6, HealthTypePartsNext DEF HealthTyped
<1>15. ASSUME NEW t \in Tasks, TellFails(t)
      PROVE  HealthTyped'
  <2>1. HealthVarsTyped'
    <3>1. task' \in [Tasks -> Task]
      BY <1>15, Moves DEF TellFails, Fails, HealthVarsTyped
    <3>2. doing' \in [Tasks -> Awaits]
      BY <1>15, Moves DEF TellFails, Fails, HealthVarsTyped, Awaits
    <3>3. healthFaultsLeft' \in 0..MaxHealthFaults
      BY <1>15 DEF TellFails, Fails, HealthVarsTyped
    <3>4. health' \in Table /\ failures' \in [Printers -> 0..2]
      BY <1>15 DEF TellFails, Fails, HealthVarsTyped
    <3>5. /\ lastFailed' \in [Printers -> BOOLEAN] /\ crossed' \in [Printers -> BOOLEAN]
          /\ untold' \in [Printers -> BOOLEAN] /\ hindered' \in [Printers -> BOOLEAN]
      BY <1>15, Hindered DEF TellFails, Fails, HealthVarsTyped
    <3>6. /\ stored' \in [Printers -> 0..MaxEdits] /\ active' \in Printers \cup {NoPrinter}
          /\ disk' \in Table /\ loaded' \in BOOLEAN /\ queue' \in Seq(Write)
          /\ fileFailed' \in BOOLEAN
      BY <1>15 DEF TellFails, Fails, HealthVarsTyped
    <3>7. QED
      BY <3>1, <3>2, <3>3, <3>4, <3>5, <3>6 DEF HealthVarsTyped
  <2>2. ActiveIsStored'
    BY <1>15 DEF TellFails, Fails, ActiveIsStored, HealthVarsTyped
  <2>3. QueuedOnce'
    BY <1>15, Moves DEF TellFails, Fails, QueuedOnce, HealthVarsTyped, Awaits, InQueue
  <2>4. TasksFit'
    BY <1>15, Moves DEF TellFails, Fails, TasksFit, Checking, NoTask
  <2>5. UnreadIsUnknown'
    BY <1>15, Moves DEF TellFails, Fails, UnreadIsUnknown, Checking, HealthVarsTyped, Awaits
  <2>6. ReadyFailedOnce'
    BY <1>15 DEF TellFails, Fails, ReadyFailedOnce, IsReady, HealthVarsTyped, Table
  <2>7. QED
    BY <2>1, <2>2, <2>3, <2>4, <2>5, <2>6, HealthTypePartsNext DEF HealthTyped
<1>6. ASSUME NEW t \in Tasks, NEW i \in Printers, Save(t, i)
      PROVE  HealthTyped'
  <2>1. HealthVarsTyped'
    <3>1. task' \in [Tasks -> Task]
      <4>1. [NoTask EXCEPT !.kind = "save", !.id = i] \in Task
        BY Moves DEF NoTask, Task
      <4>2. \A u \in Tasks : [task[u] EXCEPT !.late = TRUE] \in Task /\ task[u] \in Task
        BY TaskChanges DEF HealthVarsTyped
      <4>3. QED
        BY <1>6, <4>1, <4>2 DEF Save, Edits
    <3>2. doing' \in [Tasks -> Awaits]
      BY <1>6, Moves DEF Save, Edits, HealthVarsTyped, Awaits
    <3>3. healthFaultsLeft' \in 0..MaxHealthFaults
      BY <1>6 DEF Save, Edits, HealthVarsTyped
    <3>4. health' \in Table /\ failures' \in [Printers -> 0..2]
      BY <1>6 DEF Save, Edits, HealthVarsTyped
    <3>5. /\ lastFailed' \in [Printers -> BOOLEAN] /\ crossed' \in [Printers -> BOOLEAN]
          /\ untold' \in [Printers -> BOOLEAN] /\ hindered' \in [Printers -> BOOLEAN]
      BY <1>6 DEF Save, Edits, HealthVarsTyped
    <3>6. /\ stored' \in [Printers -> 0..MaxEdits] /\ active' \in Printers \cup {NoPrinter}
          /\ disk' \in Table /\ loaded' \in BOOLEAN /\ queue' \in Seq(Write)
          /\ fileFailed' \in BOOLEAN
      BY <1>6 DEF Save, Edits, HealthVarsTyped
    <3>7. QED
      BY <3>1, <3>2, <3>3, <3>4, <3>5, <3>6 DEF HealthVarsTyped
  <2>2. ActiveIsStored'
    BY <1>6 DEF Save, Edits, ActiveIsStored, HealthVarsTyped
  <2>3. QueuedOnce'
    BY <1>6, Moves DEF Save, Edits, QueuedOnce, HealthVarsTyped, Awaits, InQueue
  <2>4. TasksFit'
    BY <1>6, Moves DEF Save, Edits, TasksFit, Checking, HealthVarsTyped, Awaits, NoTask
  <2>5. UnreadIsUnknown'
    BY <1>6, Moves DEF Save, Edits, UnreadIsUnknown, Checking, HealthVarsTyped, Awaits
  <2>6. ReadyFailedOnce'
    BY <1>6 DEF Save, Edits, ReadyFailedOnce, IsReady, HealthVarsTyped, Table
  <2>7. QED
    BY <2>1, <2>2, <2>3, <2>4, <2>5, <2>6, HealthTypePartsNext DEF HealthTyped
<1>7. ASSUME NEW t \in Tasks, NEW i \in Printers, Delete(t, i)
      PROVE  HealthTyped'
  <2>1. HealthVarsTyped'
    <3>1. task' \in [Tasks -> Task]
      <4>1. [NoTask EXCEPT !.kind = "delete", !.id = i] \in Task
        BY Moves DEF NoTask, Task
      <4>2. \A u \in Tasks : [task[u] EXCEPT !.late = TRUE] \in Task /\ task[u] \in Task
        BY TaskChanges DEF HealthVarsTyped
      <4>3. QED
        BY <1>7, <4>1, <4>2 DEF Delete, Edits
    <3>2. doing' \in [Tasks -> Awaits]
      BY <1>7, Moves DEF Delete, Edits, HealthVarsTyped, Awaits
    <3>3. healthFaultsLeft' \in 0..MaxHealthFaults
      BY <1>7 DEF Delete, Edits, HealthVarsTyped
    <3>4. health' \in Table /\ failures' \in [Printers -> 0..2]
      BY <1>7 DEF Delete, Edits, HealthVarsTyped
    <3>5. /\ lastFailed' \in [Printers -> BOOLEAN] /\ crossed' \in [Printers -> BOOLEAN]
          /\ untold' \in [Printers -> BOOLEAN] /\ hindered' \in [Printers -> BOOLEAN]
      BY <1>7 DEF Delete, Edits, HealthVarsTyped
    <3>6. /\ stored' \in [Printers -> 0..MaxEdits] /\ active' \in Printers \cup {NoPrinter}
          /\ disk' \in Table /\ loaded' \in BOOLEAN /\ queue' \in Seq(Write)
          /\ fileFailed' \in BOOLEAN
      BY <1>7 DEF Delete, Edits, HealthVarsTyped
    <3>7. QED
      BY <3>1, <3>2, <3>3, <3>4, <3>5, <3>6 DEF HealthVarsTyped
  <2>2. ActiveIsStored'
    BY <1>7 DEF Delete, Edits, ActiveIsStored, HealthVarsTyped
  <2>3. QueuedOnce'
    BY <1>7, Moves DEF Delete, Edits, QueuedOnce, HealthVarsTyped, Awaits, InQueue
  <2>4. TasksFit'
    BY <1>7, Moves DEF Delete, Edits, TasksFit, Checking, HealthVarsTyped, Awaits, NoTask
  <2>5. UnreadIsUnknown'
    BY <1>7, Moves DEF Delete, Edits, UnreadIsUnknown, Checking, HealthVarsTyped, Awaits
  <2>6. ReadyFailedOnce'
    BY <1>7 DEF Delete, Edits, ReadyFailedOnce, IsReady, HealthVarsTyped, Table
  <2>7. QED
    BY <2>1, <2>2, <2>3, <2>4, <2>5, <2>6, HealthTypePartsNext DEF HealthTyped
<1>8. ASSUME NEW t \in Tasks, Forget(t)
      PROVE  HealthTyped'
  <2>1. HealthVarsTyped'
    <3>1. task' \in [Tasks -> Task]
      BY <1>8, Moves DEF Forget, HealthVarsTyped
    <3>2. doing' \in [Tasks -> Awaits]
      BY <1>8, Moves DEF Forget, HealthVarsTyped, Awaits
    <3>3. healthFaultsLeft' \in 0..MaxHealthFaults
      BY <1>8 DEF Forget, HealthVarsTyped
    <3>4. health' \in Table /\ failures' \in [Printers -> 0..2]
      <4>1. health' \in Table
        BY <1>8 DEF Forget, HealthVarsTyped, Table
      <4>2. failures' \in [Printers -> 0..2]
        <5>1. failures \in [Printers -> 0..2] /\ 0 \in 0..2
          BY DEF HealthVarsTyped
        <5>2. QED
          BY <1>8, <5>1 DEF Forget
      <4>3. QED
        BY <4>1, <4>2
    <3>5. /\ lastFailed' \in [Printers -> BOOLEAN] /\ crossed' \in [Printers -> BOOLEAN]
          /\ untold' \in [Printers -> BOOLEAN] /\ hindered' \in [Printers -> BOOLEAN]
      BY <1>8 DEF Forget, HealthVarsTyped
    <3>6. /\ stored' \in [Printers -> 0..MaxEdits] /\ active' \in Printers \cup {NoPrinter}
          /\ disk' \in Table /\ loaded' \in BOOLEAN /\ queue' \in Seq(Write)
          /\ fileFailed' \in BOOLEAN
      BY <1>8 DEF Forget, HealthVarsTyped
    <3>7. QED
      BY <3>1, <3>2, <3>3, <3>4, <3>5, <3>6 DEF HealthVarsTyped
  <2>2. ActiveIsStored'
    BY <1>8 DEF Forget, ActiveIsStored, HealthVarsTyped
  <2>3. QueuedOnce'
    BY <1>8, Moves DEF Forget, QueuedOnce, HealthVarsTyped, Awaits, InQueue
  <2>4. TasksFit'
    BY <1>8, Moves DEF Forget, TasksFit, Checking, HealthVarsTyped, Awaits, NoTask
  <2>5. UnreadIsUnknown'
    BY <1>8, Moves DEF Forget, UnreadIsUnknown, Checking, HealthVarsTyped, Awaits
  <2>6. ReadyFailedOnce'
    BY <1>8 DEF Forget, ReadyFailedOnce, IsReady, HealthVarsTyped, Table
  <2>7. QED
    BY <2>1, <2>2, <2>3, <2>4, <2>5, <2>6, HealthTypePartsNext DEF HealthTyped
<1>9. ASSUME NEW i \in Printers, activatePrinter(i)
      PROVE  HealthTyped'
  <2>1. HealthVarsTyped'
    <3>1. task' \in [Tasks -> Task]
      BY <1>9, Moves DEF activatePrinter, HealthVarsTyped
    <3>2. doing' \in [Tasks -> Awaits]
      BY <1>9, Moves DEF activatePrinter, HealthVarsTyped, Awaits
    <3>3. healthFaultsLeft' \in 0..MaxHealthFaults
      BY <1>9 DEF activatePrinter, HealthVarsTyped
    <3>4. health' \in Table /\ failures' \in [Printers -> 0..2]
      BY <1>9 DEF activatePrinter, HealthVarsTyped
    <3>5. /\ lastFailed' \in [Printers -> BOOLEAN] /\ crossed' \in [Printers -> BOOLEAN]
          /\ untold' \in [Printers -> BOOLEAN] /\ hindered' \in [Printers -> BOOLEAN]
      BY <1>9 DEF activatePrinter, HealthVarsTyped
    <3>6. /\ stored' \in [Printers -> 0..MaxEdits] /\ active' \in Printers \cup {NoPrinter}
          /\ disk' \in Table /\ loaded' \in BOOLEAN /\ queue' \in Seq(Write)
          /\ fileFailed' \in BOOLEAN
      BY <1>9 DEF activatePrinter, HealthVarsTyped
    <3>7. QED
      BY <3>1, <3>2, <3>3, <3>4, <3>5, <3>6 DEF HealthVarsTyped
  <2>2. ActiveIsStored'
    BY <1>9 DEF activatePrinter, ActiveIsStored, HealthVarsTyped
  <2>3. QueuedOnce'
    BY <1>9, Moves DEF activatePrinter, QueuedOnce, HealthVarsTyped, Awaits, InQueue
  <2>4. TasksFit'
    BY <1>9, Moves DEF activatePrinter, TasksFit, Checking, HealthVarsTyped, Awaits, NoTask
  <2>5. UnreadIsUnknown'
    BY <1>9, Moves DEF activatePrinter, UnreadIsUnknown, Checking, HealthVarsTyped, Awaits
  <2>6. ReadyFailedOnce'
    BY <1>9 DEF activatePrinter, ReadyFailedOnce, IsReady, HealthVarsTyped, Table
  <2>7. QED
    BY <2>1, <2>2, <2>3, <2>4, <2>5, <2>6, HealthTypePartsNext DEF HealthTyped
<1>10. ASSUME loadHealth
      PROVE  HealthTyped'
  <2>1. HealthVarsTyped'
    <3>1. task' \in [Tasks -> Task]
      BY <1>10, Moves DEF loadHealth, FileFails, Fails, HealthVarsTyped
    <3>2. doing' \in [Tasks -> Awaits]
      BY <1>10, Moves DEF loadHealth, FileFails, Fails, HealthVarsTyped, Awaits
    <3>3. healthFaultsLeft' \in 0..MaxHealthFaults
      BY <1>10 DEF loadHealth, FileFails, Fails, HealthVarsTyped
    <3>4. health' \in Table /\ failures' \in [Printers -> 0..2]
      BY <1>10 DEF loadHealth, FileFails, Fails, HealthVarsTyped
    <3>5. /\ lastFailed' \in [Printers -> BOOLEAN] /\ crossed' \in [Printers -> BOOLEAN]
          /\ untold' \in [Printers -> BOOLEAN] /\ hindered' \in [Printers -> BOOLEAN]
      BY <1>10 DEF loadHealth, FileFails, Fails, HealthVarsTyped
    <3>6. /\ stored' \in [Printers -> 0..MaxEdits] /\ active' \in Printers \cup {NoPrinter}
          /\ disk' \in Table /\ loaded' \in BOOLEAN /\ queue' \in Seq(Write)
          /\ fileFailed' \in BOOLEAN
      BY <1>10 DEF loadHealth, FileFails, Fails, HealthVarsTyped
    <3>7. QED
      BY <3>1, <3>2, <3>3, <3>4, <3>5, <3>6 DEF HealthVarsTyped
  <2>2. ActiveIsStored'
    BY <1>10 DEF loadHealth, FileFails, Fails, ActiveIsStored, HealthVarsTyped
  <2>3. QueuedOnce'
    BY <1>10, Moves
       DEF loadHealth, FileFails, Fails, QueuedOnce, HealthVarsTyped, Awaits, InQueue
  <2>4. TasksFit'
    BY <1>10, Moves
       DEF loadHealth, FileFails, Fails, TasksFit, Checking, HealthVarsTyped, Awaits, NoTask
  <2>5. UnreadIsUnknown'
    BY <1>10, Moves
       DEF loadHealth, FileFails, Fails, UnreadIsUnknown, Checking, HealthVarsTyped, Awaits
  <2>6. ReadyFailedOnce'
    BY <1>10
       DEF loadHealth, FileFails, Fails, UnreadIsUnknown, ReadyFailedOnce, IsReady,
           HealthVarsTyped, Table
  <2>7. QED
    BY <2>1, <2>2, <2>3, <2>4, <2>5, <2>6, HealthTypePartsNext DEF HealthTyped
<1>11. ASSUME Written
      PROVE  HealthTyped'
  <2>1. HealthVarsTyped'
    BY <1>11, Moves, QueueShrinks DEF Written, HealthVarsTyped, Awaits
  <2>2. ActiveIsStored'
    BY <1>11 DEF Written, ActiveIsStored, HealthVarsTyped
  <2>3. QueuedOnce'
    BY <1>11, Moves, QueueShrinks DEF Written, QueuedOnce, HealthVarsTyped, Awaits
  <2>4. TasksFit'
    <3> DEFINE u == Head(queue).owner
    <3>1. u \in Tasks /\ InQueue(u) /\ doing[u] = "queued"
      BY <1>11, QueueShrinks DEF Written, QueuedOnce
    <3>2. CASE Ends(u)
      BY <1>11, <3>1, <3>2, Moves DEF TasksFit, Checking, NoTask
    <3>3. CASE Goes(u, "tell") /\ UNCHANGED task
      BY <1>11, <3>1, <3>3, Moves DEF TasksFit, Checking, Awaits
    <3>4. QED
      BY <1>11, <3>2, <3>3 DEF Written
  <2>5. UnreadIsUnknown'
    BY <1>11, Moves, QueueShrinks
       DEF Written, UnreadIsUnknown, Checking, HealthVarsTyped, Awaits
  <2>6. ReadyFailedOnce'
    BY <1>11 DEF Written, ReadyFailedOnce, IsReady, HealthVarsTyped, Table
  <2>7. QED
    BY <2>1, <2>2, <2>3, <2>4, <2>5, <2>6, HealthTypePartsNext DEF HealthTyped
<1>12. ASSUME NotWritten
      PROVE  HealthTyped'
  <2>1. HealthVarsTyped'
    <3>1. Head(queue).owner \in Tasks
      BY <1>12, QueueShrinks DEF NotWritten
    <3>2. hindered' \in [Printers -> BOOLEAN]
      BY <1>12, <3>1, Hindered DEF NotWritten
    <3>3. QED
      BY <1>12, <3>1, <3>2, Moves, QueueShrinks
         DEF NotWritten, FileFails, Fails, HealthVarsTyped, Awaits
  <2>2. ActiveIsStored'
    BY <1>12 DEF NotWritten, FileFails, Fails, ActiveIsStored, HealthVarsTyped
  <2>3. QueuedOnce'
    <3> DEFINE u == Head(queue).owner
    <3>1. u \in Tasks /\ Ends(u)
      BY <1>12, QueueShrinks DEF NotWritten, FileFails, Fails
    <3>2. \A v \in Tasks : doing'[v] = IF v = u THEN "idle" ELSE doing[v]
      BY <3>1, Moves
    <3>3. /\ \A v \in Tasks : InQueue(v)' <=> InQueue(v) /\ v # u
          /\ \A m, n \in 1..Len(queue') : queue'[m].owner = queue'[n].owner => m = n
      BY <1>12, QueueShrinks DEF NotWritten, FileFails, Fails
    <3>4. QED
      BY <3>2, <3>3 DEF QueuedOnce
  <2>4. TasksFit'
    BY <1>12, Moves, QueueShrinks
       DEF NotWritten, FileFails, Fails, TasksFit, Checking, HealthVarsTyped, Awaits, NoTask
  <2>5. UnreadIsUnknown'
    BY <1>12, Moves, QueueShrinks
       DEF NotWritten, FileFails, Fails, UnreadIsUnknown, Checking, HealthVarsTyped, Awaits
  <2>6. ReadyFailedOnce'
    BY <1>12 DEF NotWritten, FileFails, Fails, ReadyFailedOnce, IsReady, HealthVarsTyped, Table
  <2>7. QED
    BY <2>1, <2>2, <2>3, <2>4, <2>5, <2>6, HealthTypePartsNext DEF HealthTyped
<1>13. ASSUME HealthCrash
      PROVE  HealthTyped'
  <2>1. HealthVarsTyped'
    <3>1. task' \in [Tasks -> Task]
      BY <1>13, Moves DEF HealthCrash, Fails, NoTask, Unknown, HealthVarsTyped
    <3>2. doing' \in [Tasks -> Awaits]
      BY <1>13, Moves DEF HealthCrash, Fails, NoTask, Unknown, HealthVarsTyped, Awaits
    <3>3. healthFaultsLeft' \in 0..MaxHealthFaults
      BY <1>13 DEF HealthCrash, Fails, NoTask, Unknown, HealthVarsTyped
    <3>4. health' \in Table /\ failures' \in [Printers -> 0..2]
      BY <1>13 DEF HealthCrash, Fails, NoTask, Unknown, HealthVarsTyped, Table
    <3>5. /\ lastFailed' \in [Printers -> BOOLEAN] /\ crossed' \in [Printers -> BOOLEAN]
          /\ untold' \in [Printers -> BOOLEAN] /\ hindered' \in [Printers -> BOOLEAN]
      BY <1>13 DEF HealthCrash, Fails, NoTask, Unknown, HealthVarsTyped
    <3>51. queue' \in Seq(Write)
      BY <1>13 DEF HealthCrash, Fails, NoTask, Unknown
    <3>6. /\ stored' \in [Printers -> 0..MaxEdits] /\ active' \in Printers \cup {NoPrinter}
          /\ disk' \in Table /\ loaded' \in BOOLEAN /\ queue' \in Seq(Write)
          /\ fileFailed' \in BOOLEAN
      BY <1>13, <3>51 DEF HealthCrash, HealthVarsTyped
    <3>7. QED
      BY <3>1, <3>2, <3>3, <3>4, <3>5, <3>6 DEF HealthVarsTyped
  <2>2. ActiveIsStored'
    BY <1>13 DEF HealthCrash, Fails, NoTask, Unknown, ActiveIsStored, HealthVarsTyped
  <2>3. QueuedOnce'
    BY <1>13, Moves
       DEF HealthCrash, Fails, NoTask, Unknown, QueuedOnce, HealthVarsTyped, Awaits, InQueue
  <2>4. TasksFit'
    BY <1>13, Moves
       DEF HealthCrash, Fails, NoTask, Unknown, TasksFit, Checking, HealthVarsTyped, Awaits,
           NoTask
  <2>5. UnreadIsUnknown'
    BY <1>13, Moves
       DEF HealthCrash, Fails, NoTask, Unknown, UnreadIsUnknown, Checking, HealthVarsTyped,
           Awaits
  <2>6. ReadyFailedOnce'
    BY <1>13
       DEF HealthCrash, Fails, NoTask, Unknown, ReadyFailedOnce, IsReady, HealthVarsTyped,
           Table
  <2>7. QED
    BY <2>1, <2>2, <2>3, <2>4, <2>5, <2>6, HealthTypePartsNext DEF HealthTyped
<1>14. QED
  BY <1>1, <1>2, <1>3, <1>4, <1>5, <1>6, <1>7, <1>8, <1>9, <1>10, <1>11, <1>12, <1>13, <1>15
     DEF HealthNext

(* Nothing is believed before the first check. *)
LEMMA HealthInvInit == HealthInit => FitInv /\ BeliefInv
<1> SUFFICES ASSUME HealthInit
             PROVE  FitInv /\ BeliefInv
  OBVIOUS
<1>1. HealthTyped
  BY HealthTypedInit
<1>2. QED
  BY <1>1 DEF HealthInit, Unknown, NoTask, FitInv, ChecksFit, Checking, UnreadFits,
     HealthFitsSettings, BeliefInv, LastFollows, LossIsTold, CountedFailed

(* What is believed of a printer was measured with its configuration, one *)
(* case per action.                                                        *)
LEMMA FitStep == FitInv /\ [HealthNext]_healthVars => FitInv'
<1> SUFFICES ASSUME FitInv, HealthNext
             PROVE  FitInv'
  BY HealthTypedStep
     DEF healthVars, FitInv, ChecksFit, Checking, UnreadFits, HealthFitsSettings
<1>0. /\ HealthVarsTyped /\ ActiveIsStored /\ QueuedOnce /\ TasksFit /\ UnreadIsUnknown
      /\ HealthTyped'
  BY HealthTypeParts, HealthTypedStep DEF HealthTyped, FitInv
<1> USE <1>0, HealthAssumption DEF settings, memory, resultsSeen

<1>1. ASSUME NEW t \in Tasks, NEW i \in Printers, NEW kind \in {"monitor", "direct"}, Check(t, i, kind)
      PROVE  FitInv'
  <2>01. doing[t] = "idle" /\ doing'[t] = "measure"
    BY <1>1, Moves DEF Check, Awaits, QueuedOnce
  <2>02. ASSUME NEW u \in Tasks \ {t}
         PROVE  /\ doing'[u] = doing[u] /\ task'[u].id = task[u].id
                /\ task'[u].lost = task[u].lost /\ task'[u].edit = task[u].edit
                /\ task[u].late => task'[u].late
    BY <1>1, Moves, TaskChanges DEF Check, Awaits
  <2>03. \A j \in Printers : Forgetting(j) => Forgetting(j)'
    BY <1>1, <2>01, <2>02 DEF Forgetting
  <2>1. ChecksFit'
    BY <1>1, <2>01, <2>02 DEF Check, FitInv, ChecksFit, Checking, HealthVarsTyped, TasksFit
  <2>2. UnreadFits'
    BY <1>1 DEF Check, FitInv, UnreadFits, UnreadIsUnknown, HealthVarsTyped
  <2>3. HealthFitsSettings'
    BY <1>1, <2>01, <2>02, <2>03
       DEF Check, FitInv, HealthFitsSettings, Forgetting, ChecksFit, Checking, TasksFit,
           HealthVarsTyped, Table
  <2>4. QED
    BY <1>0, <2>1, <2>2, <2>3 DEF FitInv
<1>2. ASSUME NEW t \in Tasks, NEW s \in Statuses, Measured(t, s)
      PROVE  FitInv'
  <2>01. doing[t] = "measure" /\ doing'[t] = "record"
    BY <1>2, Moves DEF Measured, Awaits, QueuedOnce
  <2>02. ASSUME NEW u \in Tasks \ {t}
         PROVE  /\ doing'[u] = doing[u] /\ task'[u].id = task[u].id
                /\ task'[u].lost = task[u].lost /\ task'[u].edit = task[u].edit
                /\ task[u].late => task'[u].late
    BY <1>2, Moves, TaskChanges DEF Measured, Awaits
  <2>03. \A j \in Printers : Forgetting(j) => Forgetting(j)'
    BY <1>2, <2>01, <2>02 DEF Forgetting
  <2>1. ChecksFit'
    BY <1>2, <2>01, <2>02 DEF Measured, FitInv, ChecksFit, Checking, HealthVarsTyped, TasksFit
  <2>2. UnreadFits'
    BY <1>2 DEF Measured, FitInv, UnreadFits, UnreadIsUnknown, HealthVarsTyped
  <2>3. HealthFitsSettings'
    BY <1>2, <2>01, <2>02, <2>03
       DEF Measured, FitInv, HealthFitsSettings, Forgetting, ChecksFit, Checking, TasksFit,
           HealthVarsTyped, Table
  <2>4. QED
    BY <1>0, <2>1, <2>2, <2>3 DEF FitInv
<1>3. ASSUME NEW t \in Tasks, recordHealth(t)
      PROVE  FitInv'
  <2> DEFINE lost == IsReady(task[t].id) /\ task[t].status # "ready"
  <2>00. /\ doing[t] = "record"
         /\ Ends(t) \/ (Goes(t, "persist") /\ task' = [task EXCEPT ![t].lost = lost])
         /\ lost \in BOOLEAN
    BY <1>3 DEF recordHealth
  <2>01. doing[t] = "record" /\ doing'[t] \in {"idle", "persist"}
    BY <2>00, Moves DEF Awaits
  <2>02. ASSUME NEW u \in Tasks \ {t}
         PROVE  /\ doing'[u] = doing[u] /\ task'[u].id = task[u].id
                /\ task'[u].lost = task[u].lost /\ task'[u].edit = task[u].edit
                /\ task[u].late => task'[u].late
    <3>1. CASE Ends(t)
      BY <3>1, Moves
    <3>2. CASE Goes(t, "persist") /\ task' = [task EXCEPT ![t].lost = lost]
      <4>1. task'[u] = task[u]
        BY <2>00, <3>2, TaskChanges
      <4>2. doing'[u] = doing[u]
        BY <3>2, Moves DEF Awaits
      <4>3. QED
        BY <4>1, <4>2
    <3>3. QED
      BY <2>00, <3>1, <3>2
  <2>03. \A j \in Printers : Forgetting(j) => Forgetting(j)'
    BY <1>3, <2>01, <2>02 DEF Forgetting
  <2>1. ChecksFit'
    <3>1. UNCHANGED stored
      BY <1>3 DEF recordHealth
    <3>2. ~Checking(t)'
      BY <2>01 DEF Checking
    <3>3. ASSUME NEW u \in Tasks \ {t}, Checking(u)', ~task'[u].late
          PROVE  task'[u].edit = stored'[task'[u].id]
      <4>1. Checking(u) /\ ~task[u].late
        BY <2>02, <3>3 DEF Checking
      <4>2. QED
        BY <2>02, <3>1, <4>1 DEF FitInv, ChecksFit
    <3>4. QED
      BY <3>2, <3>3 DEF ChecksFit
  <2>2. UnreadFits'
    BY <1>3 DEF recordHealth, FitInv, UnreadFits, UnreadIsUnknown, HealthVarsTyped
  <2>3. HealthFitsSettings'
    <3> DEFINE i == task[t].id
    <3>1. i \in Printers /\ (~task[t].late => task[t].edit = stored[i])
      BY <2>01 DEF TasksFit, FitInv, ChecksFit, Checking
    <3>2. \A j \in Printers \ {i} : health'[j] = health[j] /\ crossed'[j] = crossed[j]
      <4>1. CASE Spared(task[t])
        BY <1>3, <4>1 DEF recordHealth
      <4>2. CASE ~Spared(task[t])
        BY <1>3, <4>2 DEF recordHealth, HealthVarsTyped, Table
      <4>3. QED
        BY <4>1, <4>2
    <3>3. \/ UNCHANGED <<health, crossed>>
          \/ crossed'[i] = task[t].late /\ health'[i].edit = task[t].edit
      <4>1. CASE Spared(task[t])
        BY <1>3, <4>1 DEF recordHealth
      <4>2. CASE ~Spared(task[t])
        <5>1. /\ health' = [health EXCEPT ![i] = [status |-> task[t].status, edit |-> task[t].edit]]
              /\ crossed' = [crossed EXCEPT ![i] = task[t].late]
          BY <1>3, <4>2 DEF recordHealth
        <5>2. QED
          BY <3>1, <5>1 DEF HealthVarsTyped, Table
      <4>3. QED
        BY <4>1, <4>2
    <3>4. UNCHANGED stored
      BY <1>3 DEF recordHealth
    <3>5. QED
      BY <2>03, <3>1, <3>2, <3>3, <3>4 DEF FitInv, HealthFitsSettings, Forgetting
  <2>4. QED
    BY <1>0, <2>1, <2>2, <2>3 DEF FitInv
<1>4. ASSUME NEW t \in Tasks, persistHealth(t)
      PROVE  FitInv'
  <2>01. doing[t] = "persist" /\ doing'[t] = "queued" /\ UNCHANGED task
    BY <1>4, Moves DEF persistHealth, Awaits, QueuedOnce
  <2>02. ASSUME NEW u \in Tasks \ {t}
         PROVE  /\ doing'[u] = doing[u] /\ task'[u].id = task[u].id
                /\ task'[u].lost = task[u].lost /\ task'[u].edit = task[u].edit
                /\ task[u].late => task'[u].late
    BY <1>4, Moves, TaskChanges DEF persistHealth, Awaits
  <2>03. \A j \in Printers : Forgetting(j) => Forgetting(j)'
    BY <1>4, <2>01, <2>02 DEF Forgetting
  <2>1. ChecksFit'
    <3>1. UNCHANGED stored
      BY <1>4 DEF persistHealth
    <3>2. ~Checking(t)'
      BY <2>01 DEF Checking
    <3>3. ASSUME NEW u \in Tasks \ {t}, Checking(u)', ~task'[u].late
          PROVE  task'[u].edit = stored'[task'[u].id]
      <4>1. Checking(u) /\ ~task[u].late
        BY <2>02, <3>3 DEF Checking
      <4>2. QED
        BY <2>02, <3>1, <4>1 DEF FitInv, ChecksFit
    <3>4. QED
      BY <3>2, <3>3 DEF ChecksFit
  <2>2. UnreadFits'
    BY <1>4 DEF persistHealth, FitInv, UnreadFits, UnreadIsUnknown, HealthVarsTyped
  <2>3. HealthFitsSettings'
    BY <1>4, <2>01, <2>02, <2>03
       DEF persistHealth, FitInv, HealthFitsSettings, Forgetting, ChecksFit, Checking,
           TasksFit, HealthVarsTyped, Table
  <2>4. QED
    BY <1>0, <2>1, <2>2, <2>3 DEF FitInv
<1>5. ASSUME NEW t \in Tasks, Tell(t)
      PROVE  FitInv'
  <2>01. doing[t] = "tell" /\ doing'[t] = "idle"
    BY <1>5, Moves DEF Tell, Awaits, QueuedOnce
  <2>02. ASSUME NEW u \in Tasks \ {t}
         PROVE  /\ doing'[u] = doing[u] /\ task'[u].id = task[u].id
                /\ task'[u].lost = task[u].lost /\ task'[u].edit = task[u].edit
                /\ task[u].late => task'[u].late
    BY <1>5, Moves, TaskChanges DEF Tell, Awaits
  <2>03. \A j \in Printers : Forgetting(j) => Forgetting(j)'
    BY <1>5, <2>01, <2>02 DEF Forgetting
  <2>1. ChecksFit'
    <3>1. UNCHANGED stored
      BY <1>5 DEF Tell
    <3>2. ~Checking(t)'
      BY <2>01 DEF Checking
    <3>3. ASSUME NEW u \in Tasks \ {t}, Checking(u)', ~task'[u].late
          PROVE  task'[u].edit = stored'[task'[u].id]
      <4>1. Checking(u) /\ ~task[u].late
        BY <2>02, <3>3 DEF Checking
      <4>2. QED
        BY <2>02, <3>1, <4>1 DEF FitInv, ChecksFit
    <3>4. QED
      BY <3>2, <3>3 DEF ChecksFit
  <2>2. UnreadFits'
    BY <1>5 DEF Tell, FitInv, UnreadFits, UnreadIsUnknown, HealthVarsTyped
  <2>3. HealthFitsSettings'
    BY <1>5, <2>01, <2>02, <2>03
       DEF Tell, FitInv, HealthFitsSettings, Forgetting, ChecksFit, Checking, TasksFit,
           HealthVarsTyped, Table
  <2>4. QED
    BY <1>0, <2>1, <2>2, <2>3 DEF FitInv
<1>15. ASSUME NEW t \in Tasks, TellFails(t)
      PROVE  FitInv'
  <2>01. doing[t] = "tell" /\ doing'[t] = "idle"
    BY <1>15, Moves DEF TellFails, Fails, Awaits, QueuedOnce
  <2>02. ASSUME NEW u \in Tasks \ {t}
         PROVE  /\ doing'[u] = doing[u] /\ task'[u].id = task[u].id
                /\ task'[u].lost = task[u].lost /\ task'[u].edit = task[u].edit
                /\ task[u].late => task'[u].late
    BY <1>15, Moves, TaskChanges DEF TellFails, Fails, Awaits
  <2>03. \A j \in Printers : Forgetting(j) => Forgetting(j)'
    BY <1>15, <2>01, <2>02 DEF Forgetting
  <2>1. ChecksFit'
    <3>1. UNCHANGED stored
      BY <1>15 DEF TellFails, Fails
    <3>2. ~Checking(t)'
      BY <2>01 DEF Checking
    <3>3. ASSUME NEW u \in Tasks \ {t}, Checking(u)', ~task'[u].late
          PROVE  task'[u].edit = stored'[task'[u].id]
      <4>1. Checking(u) /\ ~task[u].late
        BY <2>02, <3>3 DEF Checking
      <4>2. QED
        BY <2>02, <3>1, <4>1 DEF FitInv, ChecksFit
    <3>4. QED
      BY <3>2, <3>3 DEF ChecksFit
  <2>2. UnreadFits'
    BY <1>15 DEF TellFails, Fails, FitInv, UnreadFits, UnreadIsUnknown, HealthVarsTyped
  <2>3. HealthFitsSettings'
    BY <1>15, <2>01, <2>02, <2>03
       DEF TellFails, Fails, FitInv, HealthFitsSettings, Forgetting, ChecksFit, Checking,
           TasksFit, HealthVarsTyped, Table
  <2>4. QED
    BY <1>0, <2>1, <2>2, <2>3 DEF FitInv
<1>6. ASSUME NEW t \in Tasks, NEW i \in Printers, Save(t, i)
      PROVE  FitInv'
  <2>01. doing[t] = "idle" /\ doing'[t] = "forget"
    BY <1>6, Moves DEF Save, Edits, Awaits, QueuedOnce
  <2>02. ASSUME NEW u \in Tasks \ {t}
         PROVE  /\ doing'[u] = doing[u] /\ task'[u].id = task[u].id
                /\ task'[u].lost = task[u].lost /\ task'[u].edit = task[u].edit
                /\ task[u].late => task'[u].late
    BY <1>6, Moves, TaskChanges DEF Save, Edits, Awaits, HealthVarsTyped, Task
  <2>03. \A j \in Printers : Forgetting(j) => Forgetting(j)'
    BY <1>6, <2>01, <2>02 DEF Forgetting
  <2>1. ChecksFit'
    BY <1>6, <2>01, <2>02
       DEF Save, Edits, FitInv, ChecksFit, Checking, HealthVarsTyped, TasksFit
  <2>2. UnreadFits'
    BY <1>6 DEF Save, Edits, FitInv, UnreadFits, UnreadIsUnknown, HealthVarsTyped
  <2>3. HealthFitsSettings'
    <3>1. UNCHANGED <<health, crossed>>
      BY <1>6 DEF Save, Edits
    <3>2. \A j \in Printers \ {i} : stored'[j] = stored[j]
      BY <1>6 DEF Save, HealthVarsTyped
    <3>3. Forgetting(i)'
      <4>1. task'[t] = [NoTask EXCEPT !.kind = "save", !.id = i]
        BY <1>6 DEF Save, Edits
      <4>2. task'[t].id = i
        BY <4>1 DEF NoTask
      <4>3. QED
        BY <2>01, <4>2 DEF Forgetting
    <3>4. QED
      BY <2>03, <3>1, <3>2, <3>3 DEF FitInv, HealthFitsSettings, Forgetting
  <2>4. QED
    BY <1>0, <2>1, <2>2, <2>3 DEF FitInv
<1>7. ASSUME NEW t \in Tasks, NEW i \in Printers, Delete(t, i)
      PROVE  FitInv'
  <2>01. doing[t] = "idle" /\ doing'[t] = "forget"
    BY <1>7, Moves DEF Delete, Edits, Awaits, QueuedOnce
  <2>02. ASSUME NEW u \in Tasks \ {t}
         PROVE  /\ doing'[u] = doing[u] /\ task'[u].id = task[u].id
                /\ task'[u].lost = task[u].lost /\ task'[u].edit = task[u].edit
                /\ task[u].late => task'[u].late
    BY <1>7, Moves, TaskChanges DEF Delete, Edits, Awaits, HealthVarsTyped, Task
  <2>03. \A j \in Printers : Forgetting(j) => Forgetting(j)'
    BY <1>7, <2>01, <2>02 DEF Forgetting
  <2>1. ChecksFit'
    BY <1>7, <2>01, <2>02
       DEF Delete, Edits, FitInv, ChecksFit, Checking, HealthVarsTyped, TasksFit
  <2>2. UnreadFits'
    BY <1>7 DEF Delete, Edits, FitInv, UnreadFits, UnreadIsUnknown, HealthVarsTyped
  <2>3. HealthFitsSettings'
    <3>1. UNCHANGED <<health, crossed>>
      BY <1>7 DEF Delete, Edits
    <3>2. \A j \in Printers \ {i} : stored'[j] = stored[j]
      BY <1>7 DEF Delete, HealthVarsTyped
    <3>3. Forgetting(i)'
      <4>1. task'[t] = [NoTask EXCEPT !.kind = "delete", !.id = i]
        BY <1>7 DEF Delete, Edits
      <4>2. task'[t].id = i
        BY <4>1 DEF NoTask
      <4>3. QED
        BY <2>01, <4>2 DEF Forgetting
    <3>4. QED
      BY <2>03, <3>1, <3>2, <3>3 DEF FitInv, HealthFitsSettings, Forgetting
  <2>4. QED
    BY <1>0, <2>1, <2>2, <2>3 DEF FitInv
<1>8. ASSUME NEW t \in Tasks, Forget(t)
      PROVE  FitInv'
  <2>01. doing[t] = "forget" /\ doing'[t] = "persist" /\ UNCHANGED task
    BY <1>8, Moves DEF Forget, Awaits, QueuedOnce
  <2>02. ASSUME NEW u \in Tasks \ {t}
         PROVE  /\ doing'[u] = doing[u] /\ task'[u].id = task[u].id
                /\ task'[u].lost = task[u].lost /\ task'[u].edit = task[u].edit
                /\ task[u].late => task'[u].late
    BY <1>8, Moves, TaskChanges DEF Forget, Awaits
  <2>1. ChecksFit'
    <3>1. UNCHANGED stored
      BY <1>8 DEF Forget
    <3>2. ~Checking(t)'
      BY <2>01 DEF Checking
    <3>3. ASSUME NEW u \in Tasks \ {t}, Checking(u)', ~task'[u].late
          PROVE  task'[u].edit = stored'[task'[u].id]
      <4>1. Checking(u) /\ ~task[u].late
        BY <2>02, <3>3 DEF Checking
      <4>2. QED
        BY <2>02, <3>1, <4>1 DEF FitInv, ChecksFit
    <3>4. QED
      BY <3>2, <3>3 DEF ChecksFit
  <2>2. UnreadFits'
    BY <1>8, <2>01 DEF Forget, FitInv, UnreadFits, UnreadIsUnknown, Checking
  <2>3. HealthFitsSettings'
    <3> DEFINE i == task[t].id
    <3>1. i \in Printers
      BY <2>01 DEF TasksFit
    <3>2. \A j \in Printers \ {i} : Forgetting(j) => Forgetting(j)'
      BY <2>01, <2>02 DEF Forgetting
    <3>3. health'[i] = NoPrinter /\ \A j \in Printers \ {i} : health'[j] = health[j] /\ crossed'[j] = crossed[j]
      BY <1>8, <3>1 DEF Forget, HealthVarsTyped, Table
    <3>4. UNCHANGED stored
      BY <1>8 DEF Forget
    <3>5. QED
      BY <3>2, <3>3, <3>4 DEF FitInv, HealthFitsSettings, Forgetting
  <2>4. QED
    BY <1>0, <2>1, <2>2, <2>3 DEF FitInv
<1>9. ASSUME NEW i \in Printers, activatePrinter(i)
      PROVE  FitInv'
  <2>03. \A j \in Printers : Forgetting(j) => Forgetting(j)'
    BY <1>9 DEF activatePrinter, Forgetting
  <2>1. ChecksFit'
    BY <1>9 DEF activatePrinter, FitInv, ChecksFit, Checking, HealthVarsTyped, TasksFit
  <2>2. UnreadFits'
    BY <1>9 DEF activatePrinter, FitInv, UnreadFits, UnreadIsUnknown, HealthVarsTyped
  <2>3. HealthFitsSettings'
    BY <1>9, <2>03
       DEF activatePrinter, FitInv, HealthFitsSettings, Forgetting, ChecksFit, Checking,
           TasksFit, HealthVarsTyped, Table
  <2>4. QED
    BY <1>0, <2>1, <2>2, <2>3 DEF FitInv
<1>10. ASSUME loadHealth
      PROVE  FitInv'
  <2>03. \A j \in Printers : Forgetting(j) => Forgetting(j)'
    BY <1>10 DEF loadHealth, FileFails, Fails, Forgetting
  <2>1. ChecksFit'
    BY <1>10
       DEF loadHealth, FileFails, Fails, FitInv, ChecksFit, Checking, HealthVarsTyped,
           TasksFit
  <2>2. UnreadFits'
    BY <1>10
       DEF loadHealth, FileFails, Fails, FitInv, UnreadFits, UnreadIsUnknown,
           HealthVarsTyped
  <2>3. HealthFitsSettings'
    BY <1>10, <2>03
       DEF loadHealth, FileFails, Fails, FitInv, UnreadFits, HealthFitsSettings, Forgetting,
           ChecksFit, Checking, TasksFit, HealthVarsTyped, Table
  <2>4. QED
    BY <1>0, <2>1, <2>2, <2>3 DEF FitInv
<1>11. ASSUME Written
      PROVE  FitInv'
  <2>00. PICK t \in Tasks : t = Head(queue).owner /\ InQueue(t)
    BY <1>11, QueueShrinks DEF Written
  <2>01. doing[t] = "queued" /\ doing'[t] \in {"idle", "tell"}
    BY <1>11, <2>00, Moves DEF Written, Awaits, QueuedOnce
  <2>02. ASSUME NEW u \in Tasks \ {t}
         PROVE  /\ doing'[u] = doing[u] /\ task'[u].id = task[u].id
                /\ task'[u].lost = task[u].lost /\ task'[u].edit = task[u].edit
                /\ task[u].late => task'[u].late
    BY <1>11, <2>00, Moves, TaskChanges DEF Written, Awaits
  <2>03. \A j \in Printers : Forgetting(j) => Forgetting(j)'
    BY <1>11, <2>01, <2>02 DEF Forgetting
  <2>1. ChecksFit'
    <3>1. UNCHANGED stored
      BY <1>11 DEF Written
    <3>2. ~Checking(t)'
      BY <2>01 DEF Checking
    <3>3. ASSUME NEW u \in Tasks \ {t}, Checking(u)', ~task'[u].late
          PROVE  task'[u].edit = stored'[task'[u].id]
      <4>1. Checking(u) /\ ~task[u].late
        BY <2>02, <3>3 DEF Checking
      <4>2. QED
        BY <2>02, <3>1, <4>1 DEF FitInv, ChecksFit
    <3>4. QED
      BY <3>2, <3>3 DEF ChecksFit
  <2>2. UnreadFits'
    BY <1>11 DEF Written, FitInv, UnreadFits, UnreadIsUnknown, HealthVarsTyped
  <2>3. HealthFitsSettings'
    BY <1>11, <2>01, <2>02, <2>03
       DEF Written, FitInv, HealthFitsSettings, Forgetting, ChecksFit, Checking, TasksFit,
           HealthVarsTyped, Table
  <2>4. QED
    BY <1>0, <2>1, <2>2, <2>3 DEF FitInv
<1>12. ASSUME NotWritten
      PROVE  FitInv'
  <2>00. PICK t \in Tasks : t = Head(queue).owner /\ InQueue(t)
    BY <1>12, QueueShrinks DEF NotWritten, FileFails, Fails
  <2>01. doing[t] = "queued" /\ doing'[t] = "idle"
    BY <1>12, <2>00, Moves DEF NotWritten, FileFails, Fails, Awaits, QueuedOnce
  <2>02. ASSUME NEW u \in Tasks \ {t}
         PROVE  /\ doing'[u] = doing[u] /\ task'[u].id = task[u].id
                /\ task'[u].lost = task[u].lost /\ task'[u].edit = task[u].edit
                /\ task[u].late => task'[u].late
    BY <1>12, <2>00, Moves, TaskChanges DEF NotWritten, FileFails, Fails, Awaits
  <2>03. \A j \in Printers : Forgetting(j) => Forgetting(j)'
    BY <1>12, <2>01, <2>02 DEF Forgetting
  <2>1. ChecksFit'
    <3>1. UNCHANGED stored
      BY <1>12 DEF NotWritten, FileFails, Fails
    <3>2. ~Checking(t)'
      BY <2>01 DEF Checking
    <3>3. ASSUME NEW u \in Tasks \ {t}, Checking(u)', ~task'[u].late
          PROVE  task'[u].edit = stored'[task'[u].id]
      <4>1. Checking(u) /\ ~task[u].late
        BY <2>02, <3>3 DEF Checking
      <4>2. QED
        BY <2>02, <3>1, <4>1 DEF FitInv, ChecksFit
    <3>4. QED
      BY <3>2, <3>3 DEF ChecksFit
  <2>2. UnreadFits'
    BY <1>12
       DEF NotWritten, FileFails, Fails, FitInv, UnreadFits, UnreadIsUnknown,
           HealthVarsTyped
  <2>3. HealthFitsSettings'
    BY <1>12, <2>01, <2>02, <2>03
       DEF NotWritten, FileFails, Fails, FitInv, HealthFitsSettings, Forgetting, ChecksFit,
           Checking, TasksFit, HealthVarsTyped, Table
  <2>4. QED
    BY <1>0, <2>1, <2>2, <2>3 DEF FitInv
<1>13. ASSUME HealthCrash
      PROVE  FitInv'
  <2>1. ChecksFit'
    BY <1>13
       DEF HealthCrash, Fails, NoTask, Unknown, FitInv, ChecksFit, Checking,
           HealthVarsTyped, TasksFit
  <2>2. UnreadFits'
    BY <1>13
       DEF HealthCrash, Fails, NoTask, Unknown, FitInv, UnreadFits, UnreadIsUnknown,
           HealthVarsTyped
  <2>3. HealthFitsSettings'
    BY <1>13
       DEF HealthCrash, Fails, NoTask, Unknown, FitInv, HealthFitsSettings, Forgetting,
           ChecksFit, Checking, TasksFit, HealthVarsTyped, Table
  <2>4. QED
    BY <1>0, <2>1, <2>2, <2>3 DEF FitInv
<1>14. QED
  BY <1>1, <1>2, <1>3, <1>4, <1>5, <1>6, <1>7, <1>8, <1>9, <1>10, <1>11, <1>12, <1>13, <1>15
     DEF HealthNext

(* What is believed reaches the file and the staff, one case per action. *)
LEMMA BeliefStep == BeliefInv /\ [HealthNext]_healthVars => BeliefInv'
<1> SUFFICES ASSUME BeliefInv, HealthNext
             PROVE  BeliefInv'
  BY HealthTypedStep DEF healthVars, BeliefInv, LastFollows, WrittenLast, Believed, LossIsTold,
     CountedFailed
<1>0. /\ HealthVarsTyped /\ ActiveIsStored /\ QueuedOnce /\ TasksFit /\ UnreadIsUnknown
      /\ HealthTyped'
  BY HealthTypeParts, HealthTypedStep DEF HealthTyped, BeliefInv
<1> USE <1>0, HealthAssumption DEF settings, memory, resultsSeen

<1>1. ASSUME NEW t \in Tasks, NEW i \in Printers, NEW kind \in {"monitor", "direct"}, Check(t, i, kind)
      PROVE  BeliefInv'
  <2>01. doing[t] = "idle" /\ doing'[t] = "measure"
    BY <1>1, Moves DEF Check, Awaits, QueuedOnce
  <2>02. ASSUME NEW u \in Tasks \ {t}
         PROVE  /\ doing'[u] = doing[u] /\ task'[u].id = task[u].id
                /\ task'[u].lost = task[u].lost /\ task'[u].edit = task[u].edit
                /\ task[u].late => task'[u].late
    BY <1>1, Moves, TaskChanges DEF Check, Awaits
  <2>03. \A j \in Printers : Losing(j) => Losing(j)'
    BY <2>01, <2>02 DEF Losing
  <2>1. LastFollows'
    BY <1>1, <2>01, <2>02 DEF Check, BeliefInv, LastFollows, WrittenLast, Believed
  <2>2. LossIsTold'
    <3>1. ASSUME NEW j \in Printers, ~hindered[j], untold[j]
          PROVE  Losing(j)
      BY <3>1 DEF BeliefInv, LossIsTold, Losing
    <3>2. ASSUME NEW j \in Printers, ~hindered'[j], untold'[j]
          PROVE  Losing(j)'
      BY <1>1, <2>01, <2>02, <2>03, <3>1, <3>2 DEF Check, HealthVarsTyped
    <3>3. QED
      BY <3>2 DEF LossIsTold, Losing
  <2>3. CountedFailed'
    BY <1>1 DEF Check, BeliefInv, CountedFailed, HealthVarsTyped
  <2>4. QED
    BY <1>0, <2>1, <2>2, <2>3 DEF BeliefInv
<1>2. ASSUME NEW t \in Tasks, NEW s \in Statuses, Measured(t, s)
      PROVE  BeliefInv'
  <2>01. doing[t] = "measure" /\ doing'[t] = "record"
    BY <1>2, Moves DEF Measured, Awaits, QueuedOnce
  <2>02. ASSUME NEW u \in Tasks \ {t}
         PROVE  /\ doing'[u] = doing[u] /\ task'[u].id = task[u].id
                /\ task'[u].lost = task[u].lost /\ task'[u].edit = task[u].edit
                /\ task[u].late => task'[u].late
    BY <1>2, Moves, TaskChanges DEF Measured, Awaits
  <2>03. \A j \in Printers : Losing(j) => Losing(j)'
    BY <2>01, <2>02 DEF Losing
  <2>1. LastFollows'
    BY <1>2, <2>01, <2>02 DEF Measured, BeliefInv, LastFollows, WrittenLast, Believed
  <2>2. LossIsTold'
    <3>1. ASSUME NEW j \in Printers, ~hindered[j], untold[j]
          PROVE  Losing(j)
      BY <3>1 DEF BeliefInv, LossIsTold, Losing
    <3>2. ASSUME NEW j \in Printers, ~hindered'[j], untold'[j]
          PROVE  Losing(j)'
      BY <1>2, <2>01, <2>02, <2>03, <3>1, <3>2 DEF Measured, HealthVarsTyped
    <3>3. QED
      BY <3>2 DEF LossIsTold, Losing
  <2>3. CountedFailed'
    BY <1>2 DEF Measured, BeliefInv, CountedFailed, HealthVarsTyped
  <2>4. QED
    BY <1>0, <2>1, <2>2, <2>3 DEF BeliefInv
<1>3. ASSUME NEW t \in Tasks, recordHealth(t)
      PROVE  BeliefInv'
  <2> DEFINE lost == IsReady(task[t].id) /\ task[t].status # "ready"
  <2>00. /\ doing[t] = "record"
         /\ Ends(t) \/ (Goes(t, "persist") /\ task' = [task EXCEPT ![t].lost = lost])
         /\ lost \in BOOLEAN
    BY <1>3 DEF recordHealth
  <2>01. doing[t] = "record" /\ doing'[t] \in {"idle", "persist"}
    BY <2>00, Moves DEF Awaits
  <2>02. ASSUME NEW u \in Tasks \ {t}
         PROVE  /\ doing'[u] = doing[u] /\ task'[u].id = task[u].id
                /\ task'[u].lost = task[u].lost /\ task'[u].edit = task[u].edit
                /\ task[u].late => task'[u].late
    <3>1. CASE Ends(t)
      BY <3>1, Moves
    <3>2. CASE Goes(t, "persist") /\ task' = [task EXCEPT ![t].lost = lost]
      <4>1. task'[u] = task[u]
        BY <2>00, <3>2, TaskChanges
      <4>2. doing'[u] = doing[u]
        BY <3>2, Moves DEF Awaits
      <4>3. QED
        BY <4>1, <4>2
    <3>3. QED
      BY <2>00, <3>1, <3>2
  <2>1. LastFollows'
    <3> DEFINE i == task[t].id
    <3>1. i \in Printers /\ UNCHANGED <<disk, queue, loaded, fileFailed>>
      BY <1>3 DEF recordHealth, TasksFit
    <3>2. \A u \in Tasks : doing[u] = "persist" => doing'[u] = "persist"
      BY <2>01, <2>02
    <3>3. \/ UNCHANGED health
          \/ Goes(t, "persist")
          \/ /\ health' = [health EXCEPT ![i] = [status |-> task[t].status, edit |-> task[t].edit]]
             /\ health[i] # NoPrinter /\ health[i].status = task[t].status
      BY <1>3 DEF recordHealth
    <3>4. CASE UNCHANGED health
      BY <3>1, <3>2, <3>4 DEF BeliefInv, LastFollows, WrittenLast, Believed
    <3>5. CASE Goes(t, "persist")
      BY <3>5, Moves DEF LastFollows, Awaits
    <3>6. CASE /\ health' = [health EXCEPT ![i] = [status |-> task[t].status, edit |-> task[t].edit]]
               /\ health[i] # NoPrinter /\ health[i].status = task[t].status
      <4>1. [status |-> task[t].status, edit |-> task[t].edit] # NoPrinter
        <5>1. [status |-> task[t].status, edit |-> task[t].edit] \in Health
          BY <2>01 DEF HealthVarsTyped, Task, TasksFit, Checking, Health
        <5>2. QED
          BY <5>1
      <4>2. \A j \in Printers : Believed(health)'[j] = Believed(health)[j]
        BY <3>1, <3>6, <4>1 DEF Believed, HealthVarsTyped, Table
      <4>3. WrittenLast' = WrittenLast
        BY <3>1 DEF WrittenLast
      <4>4. QED
        BY <3>1, <3>2, <4>2, <4>3 DEF BeliefInv, LastFollows, Believed
    <3>7. QED
      BY <3>3, <3>4, <3>5, <3>6
  <2>2. LossIsTold'
    <3>1. ASSUME NEW j \in Printers, ~hindered[j], untold[j]
          PROVE  Losing(j)
      BY <3>1 DEF BeliefInv, LossIsTold, Losing
    <3>2. ASSUME NEW j \in Printers, ~hindered'[j], untold'[j]
          PROVE  Losing(j)'
      <4> DEFINE i == task[t].id
      <4>1. i \in Printers /\ task[t].kind \in {"monitor", "direct"}
        BY <1>3, <2>01, <3>2 DEF recordHealth, TasksFit, Checking
      <4>2. ASSUME Losing(j)
            PROVE  Losing(j)'
        BY <2>01, <2>02, <4>2 DEF Losing
      <4>3. CASE IsReady(i) /\ task[t].status # "ready" /\ ~Spared(task[t]) /\ j = i
        <5>1. lost /\ health[i] # NoPrinter /\ health[i].status # task[t].status
          BY <4>1, <4>3 DEF HealthVarsTyped, IsReady
        <5>2. Goes(t, "persist") /\ task' = [task EXCEPT ![t].lost = lost]
          BY <1>3, <4>3, <5>1 DEF recordHealth
        <5>3. task'[t].id = i /\ task'[t].lost /\ doing'[t] = "persist"
          <6>1. task'[t] = [task[t] EXCEPT !.lost = lost] /\ task[t] \in Task
            BY <2>00, <5>2, TaskChanges DEF HealthVarsTyped
          <6>2. doing'[t] = "persist"
            BY <5>2, Moves DEF Awaits
          <6>3. QED
            BY <5>1, <6>1, <6>2 DEF Task
        <5>4. QED
          BY <4>3, <5>3 DEF Losing
      <4>4. CASE untold[j] /\ ~hindered[j]
        BY <3>1, <4>2, <4>4
      <4>5. CASE ~(untold[j] /\ ~hindered[j])
        <5>1. ~Spared(task[t])
          BY <1>3, <3>2, <4>5 DEF recordHealth
        <5>2. untold' = [untold EXCEPT ![i] = (lost \/ @) /\ task[t].status # "ready"]
          BY <1>3, <5>1 DEF recordHealth
        <5>3. hindered' = [hindered EXCEPT ![i] = IF lost THEN FALSE ELSE @]
          BY <1>3, <5>1 DEF recordHealth
        <5>4. j = i /\ lost
          BY <3>2, <4>1, <4>5, <5>2, <5>3 DEF HealthVarsTyped
        <5>5. QED
          BY <4>3, <5>1, <5>4
      <4>6. QED
        BY <4>4, <4>5
    <3>3. QED
      BY <3>2 DEF LossIsTold, Losing
  <2>3. CountedFailed'
    <3> DEFINE i == task[t].id
    <3>1. i \in Printers
      BY <1>3 DEF recordHealth, TasksFit
    <3>2. Counted(task[t]) # 0 => task[t].status # "ready"
      BY DEF Counted
    <3>3. QED
      BY <1>3, <3>1, <3>2 DEF recordHealth, BeliefInv, CountedFailed, HealthVarsTyped
  <2>4. QED
    BY <1>0, <2>1, <2>2, <2>3 DEF BeliefInv
<1>4. ASSUME NEW t \in Tasks, persistHealth(t)
      PROVE  BeliefInv'
  <2>01. doing[t] = "persist" /\ doing'[t] = "queued" /\ UNCHANGED task
    BY <1>4, Moves DEF persistHealth, Awaits, QueuedOnce
  <2>02. ASSUME NEW u \in Tasks \ {t}
         PROVE  /\ doing'[u] = doing[u] /\ task'[u].id = task[u].id
                /\ task'[u].lost = task[u].lost /\ task'[u].edit = task[u].edit
                /\ task[u].late => task'[u].late
    BY <1>4, Moves, TaskChanges DEF persistHealth, Awaits
  <2>03. \A j \in Printers : Losing(j) => Losing(j)'
    BY <2>01, <2>02 DEF Losing
  <2>1. LastFollows'
    BY <1>4, <2>01, <2>02 DEF persistHealth, BeliefInv, LastFollows, WrittenLast, Believed
  <2>2. LossIsTold'
    <3>1. ASSUME NEW j \in Printers, ~hindered[j], untold[j]
          PROVE  Losing(j)
      BY <3>1 DEF BeliefInv, LossIsTold, Losing
    <3>2. ASSUME NEW j \in Printers, ~hindered'[j], untold'[j]
          PROVE  Losing(j)'
      BY <1>4, <2>01, <2>02, <2>03, <3>1, <3>2 DEF persistHealth, HealthVarsTyped
    <3>3. QED
      BY <3>2 DEF LossIsTold, Losing
  <2>3. CountedFailed'
    BY <1>4 DEF persistHealth, BeliefInv, CountedFailed, HealthVarsTyped
  <2>4. QED
    BY <1>0, <2>1, <2>2, <2>3 DEF BeliefInv
<1>5. ASSUME NEW t \in Tasks, Tell(t)
      PROVE  BeliefInv'
  <2>01. doing[t] = "tell" /\ doing'[t] = "idle"
    BY <1>5, Moves DEF Tell, Awaits, QueuedOnce
  <2>02. ASSUME NEW u \in Tasks \ {t}
         PROVE  /\ doing'[u] = doing[u] /\ task'[u].id = task[u].id
                /\ task'[u].lost = task[u].lost /\ task'[u].edit = task[u].edit
                /\ task[u].late => task'[u].late
    BY <1>5, Moves, TaskChanges DEF Tell, Awaits
  <2>1. LastFollows'
    BY <1>5, <2>01, <2>02 DEF Tell, BeliefInv, LastFollows, WrittenLast, Believed
  <2>2. LossIsTold'
    <3>1. ASSUME NEW j \in Printers, ~hindered[j], untold[j]
          PROVE  Losing(j)
      BY <3>1 DEF BeliefInv, LossIsTold, Losing
    <3>2. ASSUME NEW j \in Printers, ~hindered'[j], untold'[j]
          PROVE  Losing(j)'
      <4>1. j # task[t].id /\ untold[j] /\ ~hindered[j]
        BY <1>5, <3>2, <2>01 DEF Tell, HealthVarsTyped, TasksFit
      <4>2. QED
        BY <2>01, <2>02, <3>1, <4>1 DEF Losing
    <3>3. QED
      BY <3>2 DEF LossIsTold, Losing
  <2>3. CountedFailed'
    BY <1>5 DEF Tell, BeliefInv, CountedFailed, HealthVarsTyped
  <2>4. QED
    BY <1>0, <2>1, <2>2, <2>3 DEF BeliefInv
<1>15. ASSUME NEW t \in Tasks, TellFails(t)
      PROVE  BeliefInv'
  <2>01. doing[t] = "tell" /\ doing'[t] = "idle"
    BY <1>15, Moves DEF TellFails, Fails, Awaits, QueuedOnce
  <2>02. ASSUME NEW u \in Tasks \ {t}
         PROVE  /\ doing'[u] = doing[u] /\ task'[u].id = task[u].id
                /\ task'[u].lost = task[u].lost /\ task'[u].edit = task[u].edit
                /\ task[u].late => task'[u].late
    BY <1>15, Moves, TaskChanges DEF TellFails, Fails, Awaits
  <2>1. LastFollows'
    BY <1>15, <2>01, <2>02 DEF TellFails, Fails, BeliefInv, LastFollows, WrittenLast, Believed
  <2>2. LossIsTold'
    <3>1. ASSUME NEW j \in Printers, ~hindered[j], untold[j]
          PROVE  Losing(j)
      BY <3>1 DEF BeliefInv, LossIsTold, Losing
    <3>2. ASSUME NEW j \in Printers, ~hindered'[j], untold'[j]
          PROVE  Losing(j)'
      <4>1. ~hindered[j] /\ untold[j] /\ ~(task[t].id = j /\ task[t].lost)
        BY <1>15, <3>2, Hindered DEF TellFails
      <4>2. QED
        BY <2>01, <2>02, <3>1, <4>1 DEF Losing
    <3>3. QED
      BY <3>2 DEF LossIsTold, Losing
  <2>3. CountedFailed'
    BY <1>15 DEF TellFails, Fails, BeliefInv, CountedFailed, HealthVarsTyped
  <2>4. QED
    BY <1>0, <2>1, <2>2, <2>3 DEF BeliefInv
<1>6. ASSUME NEW t \in Tasks, NEW i \in Printers, Save(t, i)
      PROVE  BeliefInv'
  <2>01. doing[t] = "idle" /\ doing'[t] = "forget"
    BY <1>6, Moves DEF Save, Edits, Awaits, QueuedOnce
  <2>02. ASSUME NEW u \in Tasks \ {t}
         PROVE  /\ doing'[u] = doing[u] /\ task'[u].id = task[u].id
                /\ task'[u].lost = task[u].lost /\ task'[u].edit = task[u].edit
                /\ task[u].late => task'[u].late
    BY <1>6, Moves, TaskChanges DEF Save, Edits, Awaits, HealthVarsTyped, Task
  <2>03. \A j \in Printers : Losing(j) => Losing(j)'
    BY <2>01, <2>02 DEF Losing
  <2>1. LastFollows'
    BY <1>6, <2>01, <2>02 DEF Save, Edits, BeliefInv, LastFollows, WrittenLast, Believed
  <2>2. LossIsTold'
    <3>1. ASSUME NEW j \in Printers, ~hindered[j], untold[j]
          PROVE  Losing(j)
      BY <3>1 DEF BeliefInv, LossIsTold, Losing
    <3>2. ASSUME NEW j \in Printers, ~hindered'[j], untold'[j]
          PROVE  Losing(j)'
      BY <1>6, <2>01, <2>02, <2>03, <3>1, <3>2 DEF Save, Edits, HealthVarsTyped
    <3>3. QED
      BY <3>2 DEF LossIsTold, Losing
  <2>3. CountedFailed'
    BY <1>6 DEF Save, Edits, BeliefInv, CountedFailed, HealthVarsTyped
  <2>4. QED
    BY <1>0, <2>1, <2>2, <2>3 DEF BeliefInv
<1>7. ASSUME NEW t \in Tasks, NEW i \in Printers, Delete(t, i)
      PROVE  BeliefInv'
  <2>01. doing[t] = "idle" /\ doing'[t] = "forget"
    BY <1>7, Moves DEF Delete, Edits, Awaits, QueuedOnce
  <2>02. ASSUME NEW u \in Tasks \ {t}
         PROVE  /\ doing'[u] = doing[u] /\ task'[u].id = task[u].id
                /\ task'[u].lost = task[u].lost /\ task'[u].edit = task[u].edit
                /\ task[u].late => task'[u].late
    BY <1>7, Moves, TaskChanges DEF Delete, Edits, Awaits, HealthVarsTyped, Task
  <2>03. \A j \in Printers : Losing(j) => Losing(j)'
    BY <2>01, <2>02 DEF Losing
  <2>1. LastFollows'
    BY <1>7, <2>01, <2>02 DEF Delete, Edits, BeliefInv, LastFollows, WrittenLast, Believed
  <2>2. LossIsTold'
    <3>1. ASSUME NEW j \in Printers, ~hindered[j], untold[j]
          PROVE  Losing(j)
      BY <3>1 DEF BeliefInv, LossIsTold, Losing
    <3>2. ASSUME NEW j \in Printers, ~hindered'[j], untold'[j]
          PROVE  Losing(j)'
      BY <1>7, <2>01, <2>02, <2>03, <3>1, <3>2 DEF Delete, Edits, HealthVarsTyped
    <3>3. QED
      BY <3>2 DEF LossIsTold, Losing
  <2>3. CountedFailed'
    BY <1>7 DEF Delete, Edits, BeliefInv, CountedFailed, HealthVarsTyped
  <2>4. QED
    BY <1>0, <2>1, <2>2, <2>3 DEF BeliefInv
<1>8. ASSUME NEW t \in Tasks, Forget(t)
      PROVE  BeliefInv'
  <2>01. doing[t] = "forget" /\ doing'[t] = "persist" /\ UNCHANGED task
    BY <1>8, Moves DEF Forget, Awaits, QueuedOnce
  <2>02. ASSUME NEW u \in Tasks \ {t}
         PROVE  /\ doing'[u] = doing[u] /\ task'[u].id = task[u].id
                /\ task'[u].lost = task[u].lost /\ task'[u].edit = task[u].edit
                /\ task[u].late => task'[u].late
    BY <1>8, Moves, TaskChanges DEF Forget, Awaits
  <2>03. \A j \in Printers : Losing(j) => Losing(j)'
    BY <2>01, <2>02 DEF Losing
  <2>1. LastFollows'
    BY <1>8, <2>01, <2>02 DEF Forget, BeliefInv, LastFollows, WrittenLast, Believed
  <2>2. LossIsTold'
    <3>1. ASSUME NEW j \in Printers, ~hindered[j], untold[j]
          PROVE  Losing(j)
      BY <3>1 DEF BeliefInv, LossIsTold, Losing
    <3>2. ASSUME NEW j \in Printers, ~hindered'[j], untold'[j]
          PROVE  Losing(j)'
      BY <1>8, <2>01, <2>02, <2>03, <3>1, <3>2 DEF Forget, HealthVarsTyped
    <3>3. QED
      BY <3>2 DEF LossIsTold, Losing
  <2>3. CountedFailed'
    BY <1>8 DEF Forget, BeliefInv, CountedFailed, HealthVarsTyped
  <2>4. QED
    BY <1>0, <2>1, <2>2, <2>3 DEF BeliefInv
<1>9. ASSUME NEW i \in Printers, activatePrinter(i)
      PROVE  BeliefInv'
  <2>03. \A j \in Printers : Losing(j) => Losing(j)'
    BY <1>9 DEF activatePrinter, Losing
  <2>1. LastFollows'
    BY <1>9 DEF activatePrinter, BeliefInv, LastFollows, WrittenLast, Believed
  <2>2. LossIsTold'
    <3>1. ASSUME NEW j \in Printers, ~hindered[j], untold[j]
          PROVE  Losing(j)
      BY <3>1 DEF BeliefInv, LossIsTold, Losing
    <3>2. ASSUME NEW j \in Printers, ~hindered'[j], untold'[j]
          PROVE  Losing(j)'
      BY <1>9, <2>03, <3>1, <3>2 DEF activatePrinter, HealthVarsTyped
    <3>3. QED
      BY <3>2 DEF LossIsTold, Losing
  <2>3. CountedFailed'
    BY <1>9 DEF activatePrinter, BeliefInv, CountedFailed, HealthVarsTyped
  <2>4. QED
    BY <1>0, <2>1, <2>2, <2>3 DEF BeliefInv
<1>10. ASSUME loadHealth
      PROVE  BeliefInv'
  <2>03. \A j \in Printers : Losing(j) => Losing(j)'
    BY <1>10 DEF loadHealth, FileFails, Fails, Losing
  <2>1. LastFollows'
    <3>1. queue = <<>> /\ queue' = <<>> /\ UNCHANGED disk
      BY <1>10 DEF loadHealth, FileFails, Fails, UnreadIsUnknown
    <3>2. fileFailed' \/ health' = disk
      BY <1>10 DEF loadHealth, FileFails, Fails
    <3>3. QED
      BY <3>1, <3>2 DEF LastFollows, WrittenLast, Believed
  <2>2. LossIsTold'
    <3>1. ASSUME NEW j \in Printers, ~hindered[j], untold[j]
          PROVE  Losing(j)
      BY <3>1 DEF BeliefInv, LossIsTold, Losing
    <3>2. ASSUME NEW j \in Printers, ~hindered'[j], untold'[j]
          PROVE  Losing(j)'
      BY <1>10, <2>03, <3>1, <3>2 DEF loadHealth, FileFails, Fails, HealthVarsTyped
    <3>3. QED
      BY <3>2 DEF LossIsTold, Losing
  <2>3. CountedFailed'
    BY <1>10 DEF loadHealth, FileFails, Fails, BeliefInv, CountedFailed, HealthVarsTyped
  <2>4. QED
    BY <1>0, <2>1, <2>2, <2>3 DEF BeliefInv
<1>11. ASSUME Written
      PROVE  BeliefInv'
  <2>00. PICK t \in Tasks : t = Head(queue).owner /\ InQueue(t)
    BY <1>11, QueueShrinks DEF Written
  <2>01. doing[t] = "queued" /\ doing'[t] \in {"idle", "tell"}
    BY <1>11, <2>00, Moves DEF Written, Awaits, QueuedOnce
  <2>02. ASSUME NEW u \in Tasks \ {t}
         PROVE  /\ doing'[u] = doing[u] /\ task'[u].id = task[u].id
                /\ task'[u].lost = task[u].lost /\ task'[u].edit = task[u].edit
                /\ task[u].late => task'[u].late
    BY <1>11, <2>00, Moves, TaskChanges DEF Written, Awaits
  <2>1. LastFollows'
    <3>1. WrittenLast' = WrittenLast
      BY <1>11, QueueShrinks DEF Written, WrittenLast
    <3>2. \A u \in Tasks : doing[u] = "persist" => doing'[u] = "persist"
      BY <2>01, <2>02
    <3>3. UNCHANGED <<health, loaded, fileFailed>>
      BY <1>11 DEF Written
    <3>4. QED
      BY <3>1, <3>2, <3>3 DEF BeliefInv, LastFollows, Believed
  <2>2. LossIsTold'
    <3>1. ASSUME NEW j \in Printers, ~hindered[j], untold[j]
          PROVE  Losing(j)
      BY <3>1 DEF BeliefInv, LossIsTold, Losing
    <3>2. ASSUME NEW j \in Printers, ~hindered'[j], untold'[j]
          PROVE  Losing(j)'
      <4>1. PICK u \in Tasks : /\ task[u].id = j /\ task[u].lost
                               /\ doing[u] \in {"persist", "queued", "tell"}
        BY <1>11, <3>1, <3>2 DEF Written, Losing
      <4>2. CASE u = t
        <5>1. doing'[t] = "tell" /\ UNCHANGED task
          BY <1>11, <2>00, <4>1, <4>2, Moves DEF Written, TasksFit, Awaits
        <5>2. QED
          BY <4>1, <4>2, <5>1 DEF Losing
      <4>3. CASE u # t
        BY <2>02, <4>1, <4>3 DEF Losing
      <4>4. QED
        BY <4>2, <4>3
    <3>3. QED
      BY <3>2 DEF LossIsTold, Losing
  <2>3. CountedFailed'
    BY <1>11 DEF Written, BeliefInv, CountedFailed, HealthVarsTyped
  <2>4. QED
    BY <1>0, <2>1, <2>2, <2>3 DEF BeliefInv
<1>12. ASSUME NotWritten
      PROVE  BeliefInv'
  <2>00. PICK t \in Tasks : t = Head(queue).owner /\ InQueue(t)
    BY <1>12, QueueShrinks DEF NotWritten, FileFails, Fails
  <2>01. doing[t] = "queued" /\ doing'[t] = "idle"
    BY <1>12, <2>00, Moves DEF NotWritten, FileFails, Fails, Awaits, QueuedOnce
  <2>02. ASSUME NEW u \in Tasks \ {t}
         PROVE  /\ doing'[u] = doing[u] /\ task'[u].id = task[u].id
                /\ task'[u].lost = task[u].lost /\ task'[u].edit = task[u].edit
                /\ task[u].late => task'[u].late
    BY <1>12, <2>00, Moves, TaskChanges DEF NotWritten, FileFails, Fails, Awaits
  <2>1. LastFollows'
    BY <1>12, <2>01, <2>02
       DEF NotWritten, FileFails, Fails, BeliefInv, LastFollows, WrittenLast, Believed
  <2>2. LossIsTold'
    <3>1. ASSUME NEW j \in Printers, ~hindered[j], untold[j]
          PROVE  Losing(j)
      BY <3>1 DEF BeliefInv, LossIsTold, Losing
    <3>2. ASSUME NEW j \in Printers, ~hindered'[j], untold'[j]
          PROVE  Losing(j)'
      <4>1. ~hindered[j] /\ untold[j] /\ ~(task[t].id = j /\ task[t].lost)
        BY <1>12, <2>00, <3>2, Hindered DEF NotWritten
      <4>2. QED
        BY <2>01, <2>02, <3>1, <4>1 DEF Losing
    <3>3. QED
      BY <3>2 DEF LossIsTold, Losing
  <2>3. CountedFailed'
    BY <1>12 DEF NotWritten, FileFails, Fails, BeliefInv, CountedFailed, HealthVarsTyped
  <2>4. QED
    BY <1>0, <2>1, <2>2, <2>3 DEF BeliefInv
<1>13. ASSUME HealthCrash
      PROVE  BeliefInv'
  <2>1. LastFollows'
    BY <1>13
       DEF HealthCrash, Fails, NoTask, Unknown, BeliefInv, LastFollows, WrittenLast,
           Believed
  <2>2. LossIsTold'
    <3>1. ASSUME NEW j \in Printers, ~hindered[j], untold[j]
          PROVE  Losing(j)
      BY <3>1 DEF BeliefInv, LossIsTold, Losing
    <3>2. ASSUME NEW j \in Printers, ~hindered'[j], untold'[j]
          PROVE  Losing(j)'
      BY <1>13, <3>1, <3>2 DEF HealthCrash, Fails, NoTask, Unknown, HealthVarsTyped
    <3>3. QED
      BY <3>2 DEF LossIsTold, Losing
  <2>3. CountedFailed'
    BY <1>13 DEF HealthCrash, Fails, NoTask, Unknown, BeliefInv, CountedFailed, HealthVarsTyped
  <2>4. QED
    BY <1>0, <2>1, <2>2, <2>3 DEF BeliefInv
<1>14. QED
  BY <1>1, <1>2, <1>3, <1>4, <1>5, <1>6, <1>7, <1>8, <1>9, <1>10, <1>11, <1>12, <1>13, <1>15
     DEF HealthNext

(* A file that no write is under way to is the one written last. *)
LEMMA BeliefSafe == BeliefInv => BeliefIsKept
<1> SUFFICES ASSUME BeliefInv
             PROVE  BeliefIsKept
  OBVIOUS
<1>1. HealthVarsTyped /\ QueuedOnce
  BY HealthTypeParts DEF BeliefInv, HealthTyped
<1>2. ASSUME \A t \in Tasks : doing[t] # "queued"
      PROVE  queue = <<>>
  <2>1. \A n \in 1..Len(queue) : queue[n].owner \in Tasks
    <3>1. queue \in Seq(Write)
      BY <1>1 DEF HealthVarsTyped
    <3>2. \A n \in 1..Len(queue) : queue[n] \in Write
      BY <3>1
    <3>3. QED
      BY <3>2 DEF Write
  <2>2. Len(queue) \in Nat
    BY <1>1 DEF HealthVarsTyped
  <2>3. 1 \notin 1..Len(queue)
    BY <1>1, <1>2, <2>1 DEF QueuedOnce, InQueue
  <2>4. QED
    BY <1>1, <2>2, <2>3, EmptySeq DEF HealthVarsTyped
<1>3. FileFollows
  BY <1>2 DEF FileFollows, BeliefInv, LastFollows, WrittenLast, Believed
<1>4. QED
  BY <1>3 DEF BeliefIsKept, BeliefInv

(* A heartbeat spares a ready printer its first failure. *)
LEMMA SparedOnce ==
  ASSUME BeliefInv, NEW t \in Tasks, recordHealth(t), task[t].kind = "monitor",
         task[t].id = active, adapterHealth = "ready"
  PROVE  adapterHealth' = "ready" \/ lastFailed[active]
<1>1. HealthVarsTyped /\ active \in Printers /\ active # NoPrinter
  BY HealthTypeParts, HealthAssumption DEF BeliefInv, HealthTyped, TasksFit, recordHealth
<1>2. IsReady(active) /\ UNCHANGED active
  BY <1>1 DEF adapterHealth, IsReady, recordHealth, settings
<1>3. CASE Spared(task[t])
  BY <1>1, <1>2, <1>3 DEF recordHealth, adapterHealth
<1>4. CASE task[t].status = "ready"
  <2>1. [status |-> task[t].status, edit |-> task[t].edit] \in Health
    BY <1>1
       DEF BeliefInv, HealthTyped, TasksFit, Checking, HealthVarsTyped, Task, Health,
           recordHealth
  <2>2. health' = [health EXCEPT ![active] = [status |-> task[t].status, edit |-> task[t].edit]]
    BY <1>4 DEF recordHealth, Spared
  <2>3. health'[active].status = "ready" /\ health'[active] # NoPrinter
    BY <1>1, <1>4, <2>1, <2>2, HealthAssumption DEF HealthVarsTyped, Table
  <2>4. QED
    BY <1>1, <1>2, <2>3 DEF adapterHealth
<1>5. CASE ~Spared(task[t]) /\ task[t].status # "ready"
  BY <1>1, <1>2, <1>5 DEF Spared, BeliefInv, CountedFailed
<1>6. QED
  BY <1>3, <1>4, <1>5

(* Every variable of the health has its type in every state, a task waits  *)
(* in the queue once at most, and the active printer is a stored one.      *)
THEOREM HealthTypeCorrect == HealthSpec => []HealthTypeOK
<1>1. HealthTyped => HealthTypeOK
  BY DEF HealthTyped
<1>2. QED
  BY <1>1, HealthTypedInit, HealthTypedStep, PTL DEF HealthSpec

(* healthByPrinterId holds of a stored printer what was measured with the  *)
(* configuration it has, and nothing of a deleted one, for any number of   *)
(* printers and overlapping checks, unless one overlapped the change.      *)
THEOREM HealthFitsSettingsHolds == HealthSpec => []HealthFitsSettings
<1>1. FitInv => HealthFitsSettings
  BY DEF FitInv
<1>2. QED
  BY <1>1, HealthInvInit, FitStep, PTL DEF HealthSpec

(* healthWriteQueue brings the file to what is believed, and the listener  *)
(* hears of every printer that is lost, however checks interleave: but for *)
(* a failed read or write of the file, of a call whose write of it or read *)
(* of the settings fails, and what was not told when the process died.     *)
THEOREM BeliefIsKeptHolds == HealthSpec => []BeliefIsKept
BY HealthInvInit, BeliefStep, BeliefSafe, PTL DEF HealthSpec

(* A heartbeat never takes back readiness after a single failure: a        *)
(* failure counted in consecutiveHealthFailures was the last result.       *)
THEOREM KeptThroughOneFailureHolds == HealthSpec => KeptThroughOneFailure
<1> DEFINE Kept ==
      \A t \in Tasks :
        recordHealth(t) /\ task[t].kind = "monitor" /\ task[t].id = active /\ adapterHealth = "ready"
          => adapterHealth' = "ready" \/ lastFailed[active]
<1>1. BeliefInv /\ [HealthNext]_healthVars => [Kept]_healthVars
  BY SparedOnce
<1>2. QED
  BY <1>1, HealthInvInit, BeliefStep, PTL DEF HealthSpec, KeptThroughOneFailure
-----------------------------------------------------------------------------
(* In a behaviour of the route service the settings, health and discovery  *)
(* each behave as they do by themselves.                                   *)
LEMMA RouteRunsAll == RouteSpec => SettingsSpec /\ HealthSpec /\ DiscoverySpec
<1>1. RouteInit => SettingsInit /\ HealthInit /\ DiscoveryInit
  BY DEF RouteInit
<1>2. [RouteNext]_<<settingsVars, healthVars, discoveryVars>> =>
        /\ [SettingsNext]_settingsVars /\ [HealthNext]_healthVars
        /\ [DiscoveryNext]_discoveryVars
  BY DEF RouteNext, MCSettingsNext, MCHealthNext, MCDiscoveryNext
<1>3. QED
  BY <1>1, <1>2, PTL DEF RouteSpec, SettingsSpec, HealthSpec, DiscoverySpec

(* The variables of all three keep their types in a route service that has *)
(* them all.                                                               *)
THEOREM RouteTypeCorrect == RouteSpec => []RouteTypeOK
<1>1. SettingsTypeOK /\ HealthTypeOK /\ DiscoveryTypeOK => RouteTypeOK
  BY DEF RouteTypeOK
<1>2. QED
  BY <1>1, RouteRunsAll, SettingsTypeCorrect, HealthTypeCorrect, DiscoveryTypeCorrect, PTL
=============================================================================
