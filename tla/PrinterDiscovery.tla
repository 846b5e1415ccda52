-------------------------- MODULE PrinterDiscovery --------------------------
(***************************************************************************)
(* Finding a printer in the network and storing it: the search, the        *)
(* choice, the test page and the confirmation of                           *)
(* main/kitchen-route-service.ts, with the window that asks for them       *)
(* (renderer/renderer.ts).                                                 *)
(*                                                                         *)
(* The window asks without waiting: requests reach the main process in     *)
(* order, and its answers reach the window in the order they are given.    *)
(* A candidate stands for its host; what a configuration prints on is the  *)
(* host or, when it goes through the Windows spooler, a Windows printer.   *)
(***************************************************************************)
EXTENDS Naturals, Sequences, SequencesExt, FiniteSets

CONSTANTS Candidates,
          None, Spooled,   \* Spooled: the Windows printer of the active printer
          MaxTests, MaxSearches, MaxConfirms, MaxChanges,   \* bounds: how often
          MaxUnanswered   \* bound: selections that are not answered yet

ASSUME DiscoveryAssumption ==
  /\ {MaxTests, MaxSearches, MaxConfirms, MaxChanges, MaxUnanswered} \subseteq Nat
  /\ {None, Spooled} \cap Candidates = {} /\ None # Spooled
  /\ IsFiniteSet(Candidates)

Configuration == [transport : {"raw_tcp", "windows_spooler"}, host : Candidates]

VARIABLES
  candidates, selected, tested,   \* discoveredCandidates, selectedCandidateId,
                                  \*   testedCandidateId of the main process
  current,      \* the configuration of the active printer, None without one
  shown,        \* printerDiscovery of the window
  searching, testing, succeeded,  \* discoveryInProgress, discoveryTestInProgress,
                                  \*   discoveryTestSucceeded of the window
  confirmable,  \* the button to confirm is not disabled by a click
  search,       \* a search is under way
  test,         \* the test page under way: its candidate, its configuration
  confirms,     \* the confirmations under way
  answers,      \* answers on their way to the window
  printed,      \* observation: which candidate's test page came out where
  kept,         \* observation: what was stored, for which candidate, and
                \*   which candidate the window showed when it was asked
  left          \* how often each thing may still happen

main == <<candidates, selected, tested>>
window == <<shown, searching, testing, succeeded, confirmable>>
discoveryVars == <<candidates, selected, tested, current, shown, searching, testing, succeeded,
          confirmable, search, test, confirms, answers, printed, kept, left>>

Nothing == [from |-> {}, choice |-> None]
NoTest == [of |-> None, on |-> None]

DiscoveryInit ==
  /\ candidates = {} /\ selected = None /\ tested = None
  /\ current \in Configuration \cup {None}
  /\ shown = Nothing
  /\ searching = FALSE /\ testing = FALSE /\ succeeded = FALSE /\ confirmable = TRUE
  /\ search = FALSE /\ test = NoTest /\ confirms = {} /\ answers = <<>>
  /\ printed = {} /\ kept = {}
  /\ left = [tests |-> MaxTests, searches |-> MaxSearches, confirms |-> MaxConfirms,
             changes |-> MaxChanges]
-----------------------------------------------------------------------------
(* configurationForCandidate: the active printer's configuration with the  *)
(* host of the candidate, or the defaults.                                 *)
configurationFor(c) ==
  IF current = None THEN [transport |-> "raw_tcp", host |-> c] ELSE [current EXCEPT !.host = c]

Device(cfg) == IF cfg.transport = "raw_tcp" THEN cfg.host ELSE Spooled

Spends(what) == left[what] > 0 /\ left' = [left EXCEPT ![what] = @ - 1]

Answers(a) == answers' = Append(answers, a)

(* The window: renderSetupSummary and renderPrinterDiscovery say which     *)
(* buttons can be clicked.  That of a candidate is disabled only while a   *)
(* search or a test is known to have been running when it was drawn, so it *)
(* can be clicked during both.                                             *)
ClickDiscover ==
  /\ ~searching /\ Spends("searches")
  /\ searching' = TRUE /\ succeeded' = FALSE /\ search' = TRUE
  /\ confirmable' = TRUE
  /\ UNCHANGED <<main, current, shown, testing, test, confirms, answers, printed, kept>>

(* selectDiscoveredPrinter is answered at once; it throws for a candidate  *)
(* that a newer search has not found.                                      *)
ClickSelect(c) ==
  /\ c \in shown.from
  /\ Cardinality({n \in DOMAIN answers : answers[n].kind = "select"}) < MaxUnanswered
  /\ IF c \in candidates
     THEN /\ selected' = c /\ tested' = None
          /\ Answers([kind |-> "select", from |-> candidates, choice |-> c, ok |-> TRUE])
     ELSE UNCHANGED <<selected, tested, answers>>
  /\ UNCHANGED <<candidates, current, window, search, test, confirms, printed, kept, left>>

ClickTest ==
  /\ shown.choice # None /\ ~testing /\ Spends("tests")
  /\ testing' = TRUE /\ confirmable' = TRUE
  /\ IF selected = None
     THEN Answers([kind |-> "test", from |-> {}, choice |-> None, ok |-> FALSE]) /\ UNCHANGED test
     ELSE test' = [of |-> selected, on |-> None] /\ UNCHANGED answers
  /\ UNCHANGED <<main, current, shown, searching, succeeded, search, confirms, printed, kept>>

(* confirmSelectedDiscoveredPrinter asks for a test of the selected one. *)
ClickConfirm ==
  /\ shown.choice # None /\ succeeded /\ confirmable /\ Spends("confirms")
  /\ confirmable' = FALSE
  /\ IF selected = None \/ tested # selected
     THEN UNCHANGED confirms
     ELSE confirms' = confirms \cup {[of |-> selected, seen |-> shown.choice, as |-> None]}
  /\ UNCHANGED <<main, current, shown, searching, testing, succeeded, search, test, answers,
                 printed, kept>>

(* Some other reason to draw the window enables the button again. *)
renderSetupSummary ==
  /\ ~confirmable /\ confirmable' = TRUE
  /\ UNCHANGED <<main, current, shown, searching, testing, succeeded, search, test, confirms,
                 answers, printed, kept, left>>

openPrinterSetup ==
  /\ shown # Nothing /\ shown' = Nothing
  /\ succeeded' = FALSE
  /\ UNCHANGED <<main, current, searching, testing, confirmable, search, test, confirms,
                 answers, printed, kept, left>>
-----------------------------------------------------------------------------
(* The search ends: a single candidate is selected. *)
discoverLocalPrinters(S) ==
  /\ search /\ search' = FALSE
  /\ candidates' = S /\ tested' = None
  /\ selected' = IF Cardinality(S) = 1 THEN CHOOSE c \in S : TRUE ELSE None
  /\ Answers([kind |-> "discover", from |-> S, choice |-> selected', ok |-> TRUE])
  /\ UNCHANGED <<current, window, test, confirms, printed, kept, left>>

(* The test reads the active configuration, and prints.  Printing takes    *)
(* longer than an answer that is already on its way to the window.         *)
testPrints ==
  /\ test.of # None /\ test.on = None /\ answers = <<>>
  /\ test' = [test EXCEPT !.on = Device(configurationFor(test.of))]
  /\ UNCHANGED <<main, current, window, search, confirms, answers, printed, kept, left>>

(* Mutant: the candidate selected by now counts as tested. *)
testEndsSelected(ok) ==
  /\ test.on # None
  /\ tested' = IF ok THEN selected ELSE None
  /\ printed' = IF ok THEN printed \cup {test} ELSE printed
  /\ test' = NoTest
  /\ Answers([kind |-> "test", from |-> {}, choice |-> None, ok |-> ok])
  /\ UNCHANGED <<candidates, selected, current, window, search, confirms, kept, left>>

testEnds(ok) ==
  /\ test.on # None
  /\ tested' = IF ok THEN test.of ELSE None
  /\ printed' = IF ok THEN printed \cup {test} ELSE printed
  /\ test' = NoTest
  /\ Answers([kind |-> "test", from |-> {}, choice |-> None, ok |-> ok])
  /\ UNCHANGED <<candidates, selected, current, window, search, confirms, kept, left>>

(* A confirmation reads the active configuration again ... *)
confirmReads(k) ==
  /\ k.as = None
  /\ confirms' = (confirms \ {k}) \cup {[k EXCEPT !.as = configurationFor(k.of)]}
  /\ UNCHANGED <<main, current, window, search, test, answers, printed, kept, left>>

(* ... and stores the printer, which is active if it is new or was so. *)
confirmWrites(k) ==
  /\ k.as # None
  /\ confirms' = confirms \ {k}
  /\ current' \in {k.as} \cup (IF current = None THEN {} ELSE {current})
  /\ kept' = kept \cup {[of |-> k.of, seen |-> k.seen, on |-> Device(k.as)]}
  /\ Answers([kind |-> "confirm", from |-> {}, choice |-> None, ok |-> TRUE])
  /\ UNCHANGED <<main, window, search, test, printed, left>>

(* Another printer is saved, activated or deleted. *)
settingsChange(c) ==
  /\ c # current /\ current' = c /\ Spends("changes")
  /\ UNCHANGED <<main, window, search, test, confirms, answers, printed, kept>>
-----------------------------------------------------------------------------
(* The window takes an answer; a search does not take back a success. *)
Answered ==
  /\ answers # <<>>
  /\ LET answer == Head(answers) IN
     /\ shown' = IF answer.kind \in {"discover", "select"}
                 THEN [from |-> answer.from, choice |-> answer.choice] ELSE shown
     /\ searching' = (searching /\ answer.kind # "discover")
     /\ testing' = (testing /\ answer.kind # "test")
     /\ succeeded' = \/ answer.kind = "test" /\ answer.ok
                     \/ answer.kind = "discover" /\ succeeded
  /\ confirmable' = TRUE
  /\ answers' = Tail(answers)
  /\ UNCHANGED <<main, current, search, test, confirms, printed, kept, left>>

DiscoveryNext ==
  \/ ClickDiscover
  \/ \E c \in Candidates : ClickSelect(c)
  \/ ClickTest
  \/ ClickConfirm
  \/ renderSetupSummary
  \/ openPrinterSetup
  \/ \E S \in SUBSET Candidates : discoverLocalPrinters(S)
  \/ testPrints
  \/ \E ok \in BOOLEAN : testEnds(ok)
  \/ \E k \in confirms : confirmReads(k)
  \/ \E k \in confirms : confirmWrites(k)
  \/ \E c \in Configuration \cup {None} : settingsChange(c)
  \/ Answered

DiscoverySpec == DiscoveryInit /\ [][DiscoveryNext]_discoveryVars
-----------------------------------------------------------------------------
Places == Candidates \cup {Spooled}

Choosing == {"discover", "select"}

Chooses(answer) == answer.kind \in Choosing

Coming(kinds) == \E n \in 1..Len(answers) : answers[n].kind \in kinds

(* An answer that says what is selected names a candidate that was found. *)
Answer ==
  {h \in [kind : {"discover", "select", "test", "confirm"}, from : SUBSET Candidates,
          choice : Candidates \cup {None}, ok : BOOLEAN] :
     Chooses(h) => h.choice \in h.from \cup {None}}

AnswersTyped ==
  /\ answers \in Seq(Answer)
  /\ shown \in [from : SUBSET Candidates, choice : Candidates \cup {None}]
  /\ left \in [{"tests", "searches", "confirms", "changes"} -> Nat]
  /\ left.changes <= MaxChanges

NoneTwice ==
  \A m, n \in 1..Len(answers) :
    m # n /\ answers[m].kind = answers[n].kind => answers[m].kind \in {"confirm", "select"}

OneAnswerEach ==
  /\ NoneTwice
  /\ Coming({"discover"}) => searching /\ ~search
  /\ Coming({"test"}) => testing /\ test.of = None

VariablesTyped ==
  /\ candidates \subseteq Candidates /\ selected \in candidates \cup {None}
  /\ tested \in Candidates \cup {None}
  /\ current \in Configuration \cup {None}
  /\ shown.from \subseteq Candidates /\ shown.choice \in shown.from \cup {None}
  /\ \A v \in {searching, testing, succeeded, confirmable, search} : v \in BOOLEAN
  /\ test \in [of : Candidates \cup {None}, on : Places \cup {None}]
  /\ confirms \subseteq
       [of : Candidates, seen : Candidates, as : Configuration \cup {None}]
  /\ printed \subseteq [of : Candidates, on : Places]
  /\ kept \subseteq [of : Candidates, seen : Candidates, on : Places]
  /\ search => searching
  /\ test.of # None => testing

(* Every variable has its type; what is selected was found, in the main    *)
(* process, in the window and in the answers between them; at most one     *)
(* search and one test page run, or wait with their answer, at a time.     *)
DiscoveryTypeOK == VariablesTyped /\ AnswersTyped /\ OneAnswerEach

(* A discovered printer is stored only after a test page for it came out,  *)
(* and as what the test page was printed on, unless the settings of the    *)
(* active printer were changed in between.                                 *)
StoredWasTested ==
  \A k \in kept :
    /\ \E p \in printed : p.of = k.of
    /\ left.changes = MaxChanges => [of |-> k.of, on |-> k.on] \in printed

(* What is stored is what the window showed as selected when the button    *)
(* was clicked, although the request does not name it.                     *)
StoredWasShown == \A k \in kept : k.of = k.seen

(* A click on confirm stores what the window showed and the tester saw on  *)
(* paper, however searches, tests and confirmations overlap.               *)
StoredAsShownAndTested == StoredWasShown /\ StoredWasTested
=============================================================================
