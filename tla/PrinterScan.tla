---------------------------- MODULE PrinterScan ----------------------------
(***************************************************************************)
(* A search for printers in the network: discover, mapWithConcurrency and  *)
(* probePrinterPort of star-tsp1000-lan.ts.                                *)
(*                                                                         *)
(* The hosts are asked by a few workers that take the next one from a      *)
(* shared index; the ones that answer are then asked for their names in    *)
(* the same way.  Answers come in any order.                               *)
(***************************************************************************)
EXTENDS Naturals, Sequences, Selection

CONSTANTS Hosts,        \* discoverPrivateIpv4Hosts
          Concurrency,  \* workers
          NoHost        \* null

ASSUME ScanAssumption ==
  /\ Concurrency \in Nat \ {0}
  /\ Hosts \in Seq({Hosts[i] : i \in DOMAIN Hosts})
  /\ \A i, j \in DOMAIN Hosts : i # j => Hosts[i] # Hosts[j]
  /\ \A i \in DOMAIN Hosts : Hosts[i] # NoHost

VARIABLES
  phase,       \* "idle", "probe", "name" or "done"
  values,      \* what mapWithConcurrency goes through
  taken,       \* values that have been taken
  work,        \* the value a worker waits for, by its index; 0 when it ended
  result,      \* of mapWithConcurrency, in the order of the answers
  scanAborted, \* the signal of the search
  answered     \* observation: the hosts that answered

scanVars == <<phase, values, taken, work, result, scanAborted, answered>>

Workers == 1..Concurrency

Fewer(a, b) == IF a <= b THEN a ELSE b

(* Every worker of mapWithConcurrency takes a value at once. *)
Workload(list) ==
  [values |-> list, taken |-> Fewer(Concurrency, Len(list)),
   work |-> [w \in Workers |-> IF w <= Len(list) THEN w ELSE 0], result |-> <<>>]

Starts(list) ==
  /\ values' = list
  /\ taken' = Workload(list).taken /\ work' = Workload(list).work /\ result' = <<>>

ScanInit ==
  /\ phase = "idle" /\ values = <<>>
  /\ taken = 0 /\ work = Workload(<<>>).work /\ result = <<>>
  /\ scanAborted = FALSE /\ answered = {}

discover ==
  /\ phase = "idle" /\ phase' = "probe" /\ Starts(Hosts)
  /\ UNCHANGED <<scanAborted, answered>>

(* Mutant: the index is read before it is counted up. *)
TakesStale(w, output) ==
  /\ work[w] # 0
  /\ result' = Append(result, output)
  /\ taken' = IF taken < Len(values) THEN taken + 1 ELSE taken
  /\ work' = [work EXCEPT ![w] = IF taken < Len(values) THEN taken ELSE 0]

(* A worker adds what it waited for and takes the next value. *)
Takes(w, output) ==
  /\ work[w] # 0
  /\ result' = Append(result, output)
  /\ taken' = IF taken < Len(values) THEN taken + 1 ELSE taken
  /\ work' = [work EXCEPT ![w] = IF taken < Len(values) THEN taken + 1 ELSE 0]

(* probePrinterPort: a refusal, 350 ms without an answer, or the signal *)
unreachable(w) ==
  /\ phase = "probe" /\ Takes(w, NoHost)
  /\ UNCHANGED <<phase, values, scanAborted, answered>>

(* A connection; there is none after the signal. *)
reachable(w) ==
  /\ phase = "probe" /\ ~scanAborted /\ Takes(w, values[work[w]])
  /\ answered' = answered \cup {values[work[w]]}
  /\ UNCHANGED <<phase, values, scanAborted>>

Idle == \A w \in Workers : work[w] = 0

(* All probes have ended: the names of those that answered are asked for. *)
probed ==
  /\ phase = "probe" /\ Idle
  /\ phase' = "name" /\ Starts(Selected(result, {result[i] : i \in DOMAIN result} \ {NoHost}))
  /\ UNCHANGED <<scanAborted, answered>>

(* discoveredPrinterName: a name, none, or half a second without an answer *)
named(w) ==
  /\ phase = "name" /\ Takes(w, values[work[w]])
  /\ UNCHANGED <<phase, values, scanAborted, answered>>

(* The candidates, sorted by their addresses, are what is returned. *)
found ==
  /\ phase = "name" /\ Idle /\ phase' = "done"
  /\ UNCHANGED <<values, taken, work, result, scanAborted, answered>>

AbortScan ==
  /\ phase \in {"probe", "name"} /\ ~scanAborted /\ scanAborted' = TRUE
  /\ UNCHANGED <<phase, values, taken, work, result, answered>>

Worker(w) == unreachable(w) \/ reachable(w) \/ named(w)

ScanNext == discover \/ (\E w \in Workers : Worker(w)) \/ probed \/ found \/ AbortScan

(* Every probe and every question for a name has a timer. *)
ScanFairness == (\A w \in Workers : WF_scanVars(Worker(w))) /\ WF_scanVars(probed \/ found)

ScanSpec == ScanInit /\ [][ScanNext]_scanVars /\ ScanFairness
-----------------------------------------------------------------------------
(* Every variable has its type, and the workers are at values that have    *)
(* been taken.                                                             *)
ScanTypeOK ==
  /\ phase \in {"idle", "probe", "name", "done"}
  /\ values \in Seq({Hosts[i] : i \in DOMAIN Hosts})
  /\ taken \in 0..Len(values)
  /\ work \in [Workers -> 0..Len(values)]
  /\ result \in Seq({Hosts[i] : i \in DOMAIN Hosts} \cup {NoHost})
  /\ scanAborted \in BOOLEAN
  /\ answered \subseteq {Hosts[i] : i \in DOMAIN Hosts}

(* No printer is listed twice, although the workers share the index.       *)
FoundOnce ==
  phase = "done" => \A i, j \in DOMAIN result : i # j => result[i] # result[j]

(* What answered is listed, and nothing else, also after a signal.         *)
AnsweredIsFound == phase = "done" => {result[i] : i \in DOMAIN result} = answered

(* Every host is asked: the workers end only after the last one.           *)
EveryHostAsked ==
  phase = "probe" /\ Idle => taken = Len(values) /\ Len(result) = Len(values)

(* A search ends, whatever answers.                                        *)
ScanEnds == phase = "probe" ~> phase = "done"

(* A search finds what answers: every host is asked, and each that answers *)
(* is listed once.                                                         *)
FindsAll == FoundOnce /\ AnsweredIsFound /\ EveryHostAsked
=============================================================================
