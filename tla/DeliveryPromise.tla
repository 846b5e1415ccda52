-------------------------- MODULE DeliveryPromise --------------------------
(***************************************************************************)
(* What the bridge promises about print jobs, without saying how: bons are *)
(* written at least once before a job is acknowledged, and a job whose     *)
(* acknowledgement the bridge remembers is never written again.            *)
(***************************************************************************)
EXTENDS Naturals

CONSTANT Jobs

VARIABLES bonCount,   \* bonCount[j]: bons on paper
          delivered,  \* jobs the service has had acknowledged
          closed      \* jobs the bridge remembers as acknowledged

promised == <<bonCount, delivered, closed>>

Init ==
  /\ bonCount = [j \in Jobs |-> 0]
  /\ delivered = {}
  /\ closed = {}

PrintBon(j) ==
  /\ j \notin closed
  /\ bonCount' = [bonCount EXCEPT ![j] = @ + 1]
  /\ UNCHANGED <<delivered, closed>>

Acknowledge(j) ==
  /\ bonCount[j] > 0
  /\ delivered' = delivered \cup {j}
  /\ UNCHANGED <<bonCount, closed>>

Remember(j) ==
  /\ j \in delivered
  /\ closed' = closed \cup {j}
  /\ UNCHANGED <<bonCount, delivered>>

Next == \E j \in Jobs : PrintBon(j) \/ Acknowledge(j) \/ Remember(j)

Spec == Init /\ [][Next]_promised
=============================================================================
