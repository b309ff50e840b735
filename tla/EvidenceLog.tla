---------------------------- MODULE EvidenceLog ----------------------------
(***************************************************************************)
(* What NQ promises of its generations: they are numbered from 1 without   *)
(* reuse, the newest is never forgotten, and the oldest are forgotten only *)
(* against a receipt that names them.                                      *)
(***************************************************************************)
EXTENDS Naturals

VARIABLES
  issued,   \* how many generations were ever committed
  live,     \* the ones that are still kept
  receipts  \* the ranges that were forgotten

vars == <<issued, live, receipts>>

Init ==
  /\ issued = 0
  /\ live = {}
  /\ receipts = {}

Append ==
  /\ issued' = issued + 1
  /\ live' = live \cup {issued + 1}
  /\ UNCHANGED receipts

Forget(low, high) ==
  /\ high < issued
  /\ \A g \in live : low <= g
  /\ live' = {g \in live : g > high}
  /\ receipts' = receipts \cup {[low |-> low, high |-> high]}
  /\ UNCHANGED issued

Next == Append \/ \E low, high \in live : Forget(low, high)

Spec == Init /\ [][Next]_vars
=============================================================================
