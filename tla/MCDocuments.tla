---------------------------- MODULE MCDocuments ----------------------------
(***************************************************************************)
(* What leaves and enters the store as a document, for TLC: the pages of   *)
(* the dashboard (Dashboard), imported projections (ProjectionImport),     *)
(* sets of witness packets (WitnessSet) and findings exchanged with other  *)
(* tools (FindingExchange).  They share no state here, so a behaviour is   *)
(* one of one of them: part says which, and the variables of the others    *)
(* are off.                                                                *)
(***************************************************************************)
EXTENDS Dashboard, TLC

CONSTANTS
  Importers, Documents, MaxRuns,                     \* of ProjectionImport
  FileNames, Files, PacketManifests, MaxFileEdits,   \* of WitnessSet
  Exchanged, Parent, Manifests, Modes, GoneAfter, Kept, MaxExchanged  \* of FindingExchange

VARIABLES
  part,
  importer, names, inodes, receipts, runs, raced,
  directory, manifest, toolPc, listed, queue, packets, refusal, edits, beheld,
  committed, passDue, table, inbox, reading, consumer, observations, pruned, found

Projections == INSTANCE ProjectionImport
Packets == INSTANCE WitnessSet WITH Manifests <- PacketManifests, MaxEdits <- MaxFileEdits
Exchange == INSTANCE FindingExchange WITH
  Findings <- Exchanged, RecoveryGens <- GoneAfter, MaxGenerations <- MaxExchanged,
  due <- passDue

ASSUME ImportAssumption == Projections!ImportAssumption
ASSUME WitnessSetAssumption == Packets!WitnessSetAssumption
ASSUME ExchangeAssumption == Exchange!ExchangeAssumption

importVars == <<importer, names, inodes, receipts, runs, raced>>
setVars == <<directory, manifest, toolPc, listed, queue, packets, refusal, edits, beheld>>
exchangeVars == <<committed, passDue, table, inbox, reading, consumer, observations, pruned, found>>
documentVars == <<part, dashVars, importVars, setVars, exchangeVars>>

\* A variable of a machine that does not run.
IsOff(x) == x = "off"
DashOff ==
  /\ IsOff(now) /\ IsOff(latest) /\ IsOff(due) /\ IsOff(rows) /\ IsOff(observed)
  /\ IsOff(moved) /\ IsOff(evidence) /\ IsOff(firedIn) /\ IsOff(page) /\ IsOff(dialog)
ImportOff ==
  /\ IsOff(importer) /\ IsOff(names) /\ IsOff(inodes) /\ IsOff(receipts) /\ IsOff(runs)
  /\ IsOff(raced)
SetOff ==
  /\ IsOff(directory) /\ IsOff(manifest) /\ IsOff(toolPc) /\ IsOff(listed) /\ IsOff(queue)
  /\ IsOff(packets) /\ IsOff(refusal) /\ IsOff(edits) /\ IsOff(beheld)
ExchangeOff ==
  /\ IsOff(committed) /\ IsOff(passDue) /\ IsOff(table) /\ IsOff(inbox) /\ IsOff(reading)
  /\ IsOff(consumer) /\ IsOff(observations) /\ IsOff(pruned) /\ IsOff(found)

DocumentsInit ==
  \/ part = "dashboard" /\ DashInit /\ ImportOff /\ SetOff /\ ExchangeOff
  \/ part = "import" /\ Projections!Init /\ DashOff /\ SetOff /\ ExchangeOff
  \/ part = "packets" /\ Packets!Init /\ DashOff /\ ImportOff /\ ExchangeOff
  \/ part = "exchange" /\ Exchange!ExchangeInit /\ DashOff /\ ImportOff /\ SetOff

DocumentsNext ==
  /\ UNCHANGED part
  /\ \/ part = "dashboard" /\ DashNext /\ UNCHANGED <<importVars, setVars, exchangeVars>>
     \/ part = "import" /\ Projections!Next /\ UNCHANGED <<dashVars, setVars, exchangeVars>>
     \/ part = "packets" /\ Packets!Next /\ UNCHANGED <<dashVars, importVars, exchangeVars>>
     \/ part = "exchange" /\ Exchange!ExchangeNext /\ UNCHANGED <<dashVars, importVars, setVars>>

DocumentsSpec == DocumentsInit /\ [][DocumentsNext]_documentVars
-----------------------------------------------------------------------------
\* Projected documents.
Dossier ==
  [system |-> "docket", format |-> "dossier.v3", json |-> TRUE, strict |-> TRUE,
   key |-> "attempt", version |-> 1, core |-> 1, rest |-> 1, identity |-> "repository_id",
   commitment |-> "own_ref", subject |-> "derived", committed |-> TRUE, premises |-> "limits",
   qualification |-> "asserted", code |-> None, wire |-> TRUE]
Rely ==
  [Dossier EXCEPT !.system = "continuity", !.format = "rely_export.v0", !.key = "memory",
                  !.identity = None, !.commitment = None, !.subject = None,
                  !.committed = FALSE, !.qualification = None, !.code = "known"]
MCProjected ==
  {Dossier, [Dossier EXCEPT !.core = 2], [Dossier EXCEPT !.rest = 2],
   [Dossier EXCEPT !.version = 2], [Dossier EXCEPT !.qualification = "verified"],
   [Dossier EXCEPT !.subject = "other"], Rely, [Rely EXCEPT !.core = 2],
   [Rely EXCEPT !.wire = FALSE]}

\* Packet files: one packet in two layouts, two projections, a broken file.
Packet ==
  [schema |-> "nq.witness.v1", blank |-> FALSE, times |-> TRUE, claim |-> FALSE,
   basis |-> None, ref |-> FALSE, limits |-> {}, id |-> 1]
Legacy ==
  [Packet EXCEPT !.basis = "legacy_projection", !.ref = TRUE,
                 !.limits = {"native_witness_custody"}]
File(p, layout) == [form |-> "packet", packet |-> p, layout |-> layout]
MCFiles ==
  {File(Packet, 1), File(Packet, 2), File(Legacy, 1),
   File([Packet EXCEPT !.basis = "external_projection", !.ref = TRUE, !.limits = {"other"}], 1),
   [File(Packet, 1) EXCEPT !.form = "json"], [File(Packet, 1) EXCEPT !.form = "text"]}
MCPacketManifests ==
  {(1 :> File(Packet, 1)), (1 :> File(Packet, 1)) @@ (2 :> File(Legacy, 1))}

\* Findings of another producer: twice of one identity; and, under the same run
\* id, of another identity with a mode that is refused.
Sent(mode) == [key |-> <<"wal_bloat", "a">>, mode |-> mode]
MCParent == <<"stale_host", "">>
MCIdentities == {MCParent, <<"wal_bloat", "a">>}
MCManifests ==
  {[run |-> "r1", shape |-> "ok", findings |-> <<Sent("drill"), Sent(None)>>, old |-> TRUE],
   [run |-> "r1", shape |-> "ok", findings |-> <<Sent("drill"), [key |-> MCParent, mode |-> "bogus"]>>,
    old |-> FALSE]}
-----------------------------------------------------------------------------
(***************************************************************************)
(* Properties.                                                             *)
(***************************************************************************)

\* A page calls a finding ongoing only if it is, offers only a control the server
\* would accept at that moment, and nothing can be confirmed on it once the timer
\* has found it too old (load_dashboard_overview, render_actions, page_script).
PageTellsTheStore ==
  /\ [](part = "dashboard" => NotOnceStale)
  /\ [][part = "dashboard" => TellsTheStore]_dashVars

\* A receipt of an import names the packet of the bytes that were presented, a
\* refusal names none (projection_receipt), and the packets stored of one
\* snapshot agree on its immutable core, unless two imports of it overlapped
\* (import_dossier_packet, import_record_packet).
ReceiptNamesItsPacket ==
  part = "import" => Projections!ReceiptNamesItsPacket /\ Projections!OneCorePerSnapshot

\* An accepted set is the packets of exactly the bytes its manifest names
\* (validate_set).
SetIsTheManifest == part = "packets" => Packets!SetIsTheManifest

\* A consumer that keeps the newest last_seen_gen it got misses no finding that
\* fires, a snapshot agrees with itself though its observations may be deleted, and
\* a refused manifest leaves none of its findings (export_findings, prune,
\* ingest_finding_import).
WatermarkMissesNoFiring ==
  part = "exchange" => /\ Exchange!WatermarkMissesNoFiring
                        /\ Exchange!SnapshotAgrees
                        /\ Exchange!RefusedLeavesNothing
=============================================================================
