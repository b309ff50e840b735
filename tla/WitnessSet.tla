----------------------------- MODULE WitnessSet -----------------------------
(***************************************************************************)
(* nq-witness-tool validate-set (crates/nq-witness/src/bin/                *)
(* nq-witness-tool.rs) with the packet validation of witness.rs and the    *)
(* set adoption of adoption.rs.  The tool lists a directory, reads a       *)
(* manifest of raw digests if it is given one, and reads the packets one by*)
(* one, while others go on writing in the directory.  Digests are injective*)
(* here: the raw digest of a file is its bytes, the digest of a packet the *)
(* packet.                                                                 *)
(***************************************************************************)
EXTENDS Naturals, FiniteSets, Sequences, SequencesExt

CONSTANTS
  None,
  FileNames,     \* portable packet file names, in order of their text
  Files,         \* what a file may hold: [form, packet, layout], its bytes
  Manifests,     \* manifests: functions from some file names to files
  MaxEdits       \* bound: changes others make in the directory

WitnessSetAssumption ==
  /\ FileNames \subseteq Nat /\ IsFiniteSet(FileNames) /\ MaxEdits \in Nat
  /\ \A mf \in Manifests : DOMAIN mf \subseteq FileNames

VARIABLES
  directory,     \* name -> bytes, of the files present
  manifest,      \* the manifest given, None without one
  toolPc,        \* "list", "manifest", "read", "adopt", "accepted", "refused"
  listed,        \* names read_dir returned
  queue,         \* names still to read
  packets,       \* packets read, in order
  refusal,       \* code of the refusal
  edits,         \* history: changes made
  beheld         \* history: the bytes each name had when it was read

setVars ==
  <<directory, manifest, toolPc, listed, queue, packets, refusal, edits, beheld>>
-----------------------------------------------------------------------------
Projections == {"legacy_projection", "external_projection"}

\* WitnessPacket::validate_typed: the first thing wrong with a packet.
Failure(p) ==
  CASE p.schema # "nq.witness.v1"                  -> "witness.unsupported_schema"
    [] p.blank                                     -> "witness.empty_field"
    [] ~p.times                                    -> "witness.invalid_timestamp"
    [] p.claim                                     -> "witness.claim_key_forbidden"
    [] p.basis \in {None, "native_observation"} /\ p.ref ->
         "witness.native_source_ref_forbidden"
    [] p.basis \in {None, "native_observation"} /\ p.limits # {} ->
         "witness.native_projection_limits_forbidden"
    [] p.basis \in Projections /\ ~p.ref           -> "witness.projection_source_ref_required"
    [] p.basis \in Projections /\ p.limits = {}    -> "witness.projection_limits_required"
    [] p.basis \in Projections /\ "" \in p.limits  -> "witness.empty_projection_limit"
    [] p.basis \in Projections /\ "native_witness_custody" \notin p.limits ->
         "witness.native_custody_limit_required"
    [] p.basis \notin Projections \cup {None, "native_observation"} ->
         "witness.unsupported_custody_basis"
    [] OTHER                                       -> None

Refuse(code) == /\ toolPc' = "refused" /\ refusal' = code
                /\ UNCHANGED <<listed, queue, packets, beheld>>

\* The file names are read in order.
Foremost(n) == \A m \in queue : n <= m

\* Input the values of the model do not tell apart: what cannot be read, an entry
\* of the directory that is no regular file or has not the name of a packet, a
\* manifest that is no list of names in order with their digests.
RefuseInput ==
  /\ \E code \in {"witness.tool.io_error", "witness.packet_filename_invalid"} \cup
                 (IF toolPc = "list" THEN {"witness.packet_directory_entry_invalid"}
                  ELSE {"witness.manifest_malformed"}) : Refuse(code)
  /\ toolPc = "list" \/ (toolPc = "manifest" /\ manifest # None)
  /\ UNCHANGED <<directory, manifest, edits>>

\* packet_directory_files.
ListDirectory ==
  /\ toolPc = "list"
  /\ IF DOMAIN directory = {} THEN Refuse("witness.packet_set_empty")
     ELSE /\ listed' = DOMAIN directory
          /\ toolPc' = "manifest"
          /\ UNCHANGED <<queue, packets, refusal, beheld>>
  /\ UNCHANGED <<directory, manifest, edits>>

\* read_manifest and verify_manifest_membership: the manifest names every file
\* that was listed and no other, or there is no manifest.
ReadManifest ==
  /\ toolPc = "manifest"
  /\ CASE manifest = None -> /\ queue' = listed /\ toolPc' = "read"
                             /\ UNCHANGED <<listed, packets, refusal, beheld>>
       [] manifest # None /\ DOMAIN manifest = {} -> Refuse("witness.packet_set_empty")
       [] manifest # None /\ DOMAIN manifest # {} /\ DOMAIN manifest # listed ->
            Refuse("witness.manifest_set_mismatch")
       [] OTHER -> /\ queue' = DOMAIN manifest /\ toolPc' = "read"
                   /\ UNCHANGED <<listed, packets, refusal, beheld>>
  /\ UNCHANGED <<directory, manifest, edits>>

\* Mutant: the manifest is held to vouch for the names only.
DigestAgreesByName(n, bytes) == TRUE

DigestAgrees(n, bytes) == manifest = None \/ manifest[n] = bytes

\* packet_decode: no JSON, or JSON of another shape.
DecodeFailure(form) ==
  IF form = "json" THEN "witness.packet_shape_invalid" ELSE "witness.malformed_json"

\* One packet: its bytes against the manifest, then decoded and validated.
ReadPacket ==
  /\ toolPc = "read"
  /\ \E n \in queue :
       /\ Foremost(n)
       /\ IF n \notin DOMAIN directory THEN Refuse("witness.tool.io_error")
          ELSE LET bytes == directory[n] IN
               CASE ~DigestAgrees(n, bytes) -> Refuse("witness.manifest_digest_mismatch")
                 [] DigestAgrees(n, bytes) /\ bytes.form # "packet" -> Refuse(DecodeFailure(bytes.form))
                 [] DigestAgrees(n, bytes) /\ bytes.form = "packet" /\ Failure(bytes.packet) # None ->
                      Refuse(Failure(bytes.packet))
                 [] OTHER -> /\ packets' = Append(packets, bytes.packet)
                             /\ beheld' = beheld \cup {<<n, bytes>>}
                             /\ queue' = queue \ {n}
                             /\ UNCHANGED <<listed, toolPc, refusal>>
  /\ UNCHANGED <<directory, manifest, edits>>

\* adopt_packet_set: no packet twice, whatever the bytes it was written in.
Adopt ==
  /\ toolPc = "read" /\ queue = {}
  /\ IF Cardinality(Range(packets)) < Len(packets) THEN Refuse("witness.duplicate_packet")
     ELSE /\ toolPc' = "accepted"
          /\ UNCHANGED <<listed, queue, packets, refusal, beheld>>
  /\ UNCHANGED <<directory, manifest, edits>>

\* Others write, replace and remove files.
Edit ==
  /\ edits < MaxEdits /\ toolPc \in {"list", "manifest", "read"}
  /\ edits' = edits + 1
  /\ \E n \in FileNames :
       \/ \E b \in Files :
            directory' = [k \in DOMAIN directory \cup {n} |-> IF k = n THEN b ELSE directory[k]]
       \/ directory' = [k \in DOMAIN directory \ {n} |-> directory[k]]
  /\ UNCHANGED <<manifest, toolPc, listed, queue, packets, refusal, beheld>>

Init ==
  /\ directory \in UNION {[s -> Files] : s \in SUBSET FileNames}
  /\ manifest \in Manifests \cup {None}
  /\ toolPc = "list" /\ listed = {} /\ queue = {} /\ packets = <<>> /\ refusal = None
  /\ edits = 0 /\ beheld = {}

Next == RefuseInput \/ ListDirectory \/ ReadManifest \/ ReadPacket \/ Adopt \/ Edit

Spec == Init /\ [][Next]_setVars
-----------------------------------------------------------------------------
(***************************************************************************)
(* Properties.                                                             *)
(***************************************************************************)
\* An accepted set is sound and whole: every packet passes the wire validation,
\* none is there twice, there is one for each file listed, and under a manifest
\* they are the packets of exactly the bytes it names, whatever was written in
\* the directory between the listing and the reads (validate_set).
SetIsTheManifest ==
  toolPc = "accepted" =>
    /\ \A i \in DOMAIN packets : Failure(packets[i]) = None
    /\ Len(packets) = Cardinality(listed) /\ Cardinality(Range(packets)) = Len(packets)
    /\ manifest # None => beheld = {<<n, manifest[n]>> : n \in DOMAIN manifest}
=============================================================================
