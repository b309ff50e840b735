------------------------------ MODULE MCStore ------------------------------
(***************************************************************************)
(* The generations of the store (GenerationStore) and the sentinel on the  *)
(* artifact that is written after each of them (Sentinel), for TLC.  The   *)
(* two share no state, and a behaviour is one of one of them: machine says *)
(* which, and the other stands still.                                      *)
(***************************************************************************)
EXTENDS GenerationStore, Sentinel

VARIABLE machine

bothVars == <<machine, storeVars, sentinelVars>>

\* A sentinel that is started over an artifact just written, and does nothing.
SentinelIdle == SentinelInit /\ reach = "ok" /\ age = 0

BothInit ==
  /\ StoreInit
  /\ \/ machine = "store" /\ SentinelIdle
     \/ machine = "sentinel" /\ SentinelInit

BothNext ==
  /\ UNCHANGED machine
  /\ \/ machine = "store" /\ StoreNext /\ UNCHANGED sentinelVars
     \/ machine = "sentinel" /\ SentinelNext /\ UNCHANGED storeVars

\* Time passes, and a sentinel whose sleep is over polls.
SentinelFairness ==
  LET Alone == machine = "sentinel" /\ UNCHANGED <<machine, storeVars>>
  IN  WF_sentinelVars(Tick /\ Alone) /\ WF_sentinelVars(Poll /\ Alone)

BothSpec == BothInit /\ [][BothNext]_bothVars /\ SentinelFairness
-----------------------------------------------------------------------------
(***************************************************************************)
(* Properties.                                                             *)
(***************************************************************************)

\* Once the publisher writes no more and the sentinel is left running, it ends in
\* an unhealthy state for good, whatever happens to the file and even if the clock
\* is set back over and over (classify: the stuck rule covers what the age rule
\* then misses).
SilenceNoticed == machine = "sentinel" => SilenceIsNoticed

\* And the operator's last message says so, if the channel always accepts messages
\* (run: alert on state transition).
SilenceHeard == machine = "sentinel" => SilenceIsHeard
=============================================================================
