------------------------- MODULE MCFindingLifecycle -------------------------
(***************************************************************************)
(* Instances of FindingLifecycle for TLC.  Every run fixes one slice of    *)
(* the inputs: which kinds exist, what sources may report, and what the    *)
(* declarations file may say.                                              *)
(***************************************************************************)
EXTENDS FindingLifecycle

CONSTANTS h1, d1

\* None of the modelled detectors names a basis source but the witness ones,
\* and no source is retired in this machine.
MCSourceOf == [k \in Keys |-> None]

Report(s, h, z, m) == [source |-> s, host |-> h, zfs |-> z, metrics |-> m]

\* A host collector that works or not, under a source that answers, fails or is
\* no longer polled.
HostReports ==
  {Report("ok", h, None, None) : h \in {"fine", "full", None}}
    \cup {Report(s, None, None, None) : s \in {"error", "unpolled"}}

\* A ZFS witness beside a working or failing source.
WitnessReports ==
  {Report("ok", "fine", z, None) : z \in {"online", "degraded", "failed", "overdue"}}
    \cup {Report("error", None, z, None) : z \in {None, "overdue"}}

\* A source that never delivers a host row, at most metrics.
HeadlessReports ==
  {Report("error", None, None, None), Report("ok", None, "degraded", None),
   Report("ok", None, "online", "some"), Report("ok", None, None, "empty")}

AnyReports == HostReports \cup WitnessReports \cup HeadlessReports

Withdrawn == [id |-> d1, host |-> h1, mode |-> "withdrawn"]
Quiesced == [id |-> d1, host |-> h1, mode |-> "quiesced"]
EditedFiles == {<<>>, <<Withdrawn>>, <<Quiesced>>}
=============================================================================
