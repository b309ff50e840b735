----------------------------- MODULE MCEvidence -----------------------------
(***************************************************************************)
(* Evidence from outside the publication cycle, for TLC: what probes bring *)
(* in (MCProbes) and what goes in and out as a document (MCDocuments).     *)
(* Each of the two is a sum of machines already, and this is the sum of    *)
(* both: all variables of the one that does not run are off.               *)
(***************************************************************************)
EXTENDS MCDocuments, MCProbes

evidenceVars == <<documentVars, probeVars>>

ProbesOff == NotRun(probe) /\ BoxOff /\ DnsOff /\ SweepOff
DocumentsOff == IsOff(part) /\ DashOff /\ ImportOff /\ SetOff /\ ExchangeOff

EvidenceInit ==
  \/ ProbesInit /\ DocumentsOff
  \/ DocumentsInit /\ ProbesOff

EvidenceNext ==
  \/ ProbesNext /\ UNCHANGED documentVars
  \/ DocumentsNext /\ UNCHANGED probeVars

EvidenceSpec == EvidenceInit /\ [][EvidenceNext]_evidenceVars
=============================================================================
