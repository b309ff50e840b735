-------------------------- MODULE ProjectionImport --------------------------
(***************************************************************************)
(* Import of foreign documents as witness packets (crates/nq-monitor/src/  *)
(* docket_dossier.rs, continuity_record.rs, projection_import.rs;          *)
(* crates/nq-witness/src/witness.rs, projection_receipt.rs).  A document is*)
(* checked, compared with the snapshots the store already holds, written as*)
(* a packet through the one temporary name of its directory, read back, and*)
(* receipted.  Several `nq-monitor witness ...` processes may run at once  *)
(* on one store, and each may stop anywhere.                               *)
(***************************************************************************)
EXTENDS Naturals

CONSTANTS
  None,
  Importers,     \* processes
  Documents,     \* the documents they are given
  MaxRuns        \* bound: imports begun

VARIABLES
  importer,      \* importer -> what it has in hand
  names,         \* directory entries: a file name -> an inode
  inodes,        \* inode -> what the file holds
  receipts,      \* .projection-receipts, each published once by its identity
  runs,          \* imports begun
  raced          \* history: snapshots two imports worked on at the same time

importVars == <<importer, names, inodes, receipts, runs, raced>>

\* A document: its system and format, whether it is JSON and of the strict shape,
\* the snapshot it is of, its immutable core, the rest (what makes its bytes its
\* own), and what the checks below look at.
DocumentFields ==
  {"system", "format", "json", "strict", "key", "version", "core", "rest", "identity",
   "commitment", "subject", "committed", "premises", "qualification", "code", "wire"}

ImportAssumption ==
  /\ \A d \in Documents : DOMAIN d = DocumentFields
  /\ None \notin Documents
  /\ MaxRuns \in Nat

\* File names: the temporary name of a directory, and the name a packet of a
\* document is published under (version and the head of the raw digest).
TmpName(key) == [key |-> key, doc |-> None]
FinalName(d) == [key |-> d.key, doc |-> d]

\* What a file may hold: nothing yet, a mixture of two writers, a packet.
Empty == [what |-> "empty"]
Torn == [what |-> "torn"]
Packet(d, run) == [what |-> "packet", doc |-> d, run |-> run]
-----------------------------------------------------------------------------
(***************************************************************************)
(* The checks.                                                             *)
(***************************************************************************)
Legacy == {"dossier.v1", "dossier.v2"}
Supported == [docket |-> Legacy \cup {"dossier.v3"}, continuity |-> {"rely_export.v0"}]

\* validate_identity_contract: which keys the identity block carries, and whether
\* the supplied continuity subject is the one its parts spell.
IdentityHolds(d) ==
  IF d.format \in Legacy THEN d.identity = "repository"
  ELSE /\ d.identity = "repository_id"
       /\ \/ d.commitment = "own_ref" /\ d.subject = "derived"
          \/ d.commitment = None /\ d.subject = None /\ ~d.committed

\* premise_coverage: every premise becomes a limit of the packet or refuses it.
PremiseRefusal(d) ==
  IF d.premises = "unenforceable" THEN "refused:unenforceable_premise"
  ELSE CASE d.qualification \in {"no_premise", "unstated"} -> "refused:missing_premise"
         [] d.qualification = "verified"                   -> "refused:unenforceable_premise"
         [] OTHER                                          -> None

\* What refuses the document before the store is looked at.
EarlyRefusal(d) ==
  IF ~d.json THEN "refused:malformed"
  ELSE IF d.format \notin Supported[d.system] THEN "refused:unsupported_schema"
  ELSE IF ~d.strict THEN "refused:malformed"
  ELSE IF d.system = "docket"
       THEN IF IdentityHolds(d) THEN None ELSE "refused:malformed"
       ELSE IF d.code = "known" THEN None ELSE "refused:unknown_rely_code"

\* build_packet, with the wire validation of what it built; after the store was
\* looked at.
LateRefusal(d) ==
  IF PremiseRefusal(d) # None THEN PremiseRefusal(d)
  ELSE IF d.wire THEN None ELSE "refused:malformed"

\* core_consistency_digest: of the immutable keys only.
Core(d) == <<d.format, d.key, d.version, d.core>>

Held(key) == {n \in DOMAIN names : n.key = key /\ n.doc # None}

\* read_store: the packets of the directory; one that cannot be read back refuses
\* the import.
Unreadable(key) == \E n \in Held(key) : inodes[names[n]].what # "packet"
Stored(key) == {n \in Held(key) : inodes[names[n]].what = "packet"}
Duplicates(d) == {n \in Stored(d.key) : inodes[names[n]].doc = d}
Conflicts(d) ==
  {n \in Stored(d.key) :
     /\ inodes[names[n]].doc.version = d.version
     /\ Core(inodes[names[n]].doc) # Core(d)}

StoreVerdict(d) ==
  IF Unreadable(d.key) THEN "refused:store"
  ELSE IF Duplicates(d) # {} THEN "duplicate"
  ELSE IF Conflicts(d) # {} THEN "refused:snapshot_substitution"
  ELSE IF LateRefusal(d) # None THEN LateRefusal(d) ELSE "imported"
-----------------------------------------------------------------------------
(***************************************************************************)
(* The steps of one import.                                                *)
(***************************************************************************)
Idle == [pc |-> "idle"]
Busy(i, pc) == importer[i].pc = pc
AtWork(key) ==
  {i \in Importers : importer[i].pc \in {"open", "write", "publish"} /\ importer[i].doc.key = key}
Step(i, pc) == importer' = [importer EXCEPT ![i].pc = pc]

\* The document is read, checked, and compared with the store.
Begin(i) ==
  /\ Busy(i, "idle") /\ runs < MaxRuns
  /\ \E d \in Documents :
       LET verdict == IF EarlyRefusal(d) # None THEN EarlyRefusal(d) ELSE StoreVerdict(d)
           base == [doc |-> d, run |-> runs + 1, outcome |-> verdict, file |-> None,
                    pc |-> IF verdict = "imported" THEN "open" ELSE "receipt", path |-> None]
       IN /\ IF verdict = "duplicate"
             THEN \E n \in Duplicates(d) : importer' = [importer EXCEPT ![i] = [base EXCEPT !.path = n]]
             ELSE importer' = [importer EXCEPT ![i] = base]
          /\ raced' = IF verdict = "imported" /\ AtWork(d.key) # {}
                      THEN raced \cup {d.key} ELSE raced
  /\ runs' = runs + 1
  /\ UNCHANGED <<names, inodes, receipts>>

\* fs::write, first half: the temporary name is created, or what it names is
\* truncated, whoever wrote it.  A new inode goes by the run that made it.
OpenTmp(i) ==
  /\ Busy(i, "open")
  /\ LET t == TmpName(importer[i].doc.key)
         f == IF t \in DOMAIN names THEN names[t] ELSE importer[i].run
     IN /\ names' = [n \in DOMAIN names \cup {t} |-> IF n = t THEN f ELSE names[n]]
        /\ inodes' = [g \in DOMAIN inodes \cup {f} |-> IF g = f THEN Empty ELSE inodes[g]]
        /\ importer' = [importer EXCEPT ![i].pc = "write", ![i].file = f]
  /\ UNCHANGED <<receipts, runs, raced>>

\* Second half: the bytes, into the file that was opened, over what another
\* writer may have put there.
WriteTmp(i) ==
  /\ Busy(i, "write")
  /\ LET p == Packet(importer[i].doc, importer[i].run)
     IN \E c \in {p} \cup (IF inodes[importer[i].file] = Empty THEN {} ELSE {Torn}) :
          inodes' = [inodes EXCEPT ![importer[i].file] = c]
  /\ Step(i, "publish")
  /\ UNCHANGED <<names, receipts, runs, raced>>

\* fs::rename onto the final name; an error when the temporary name is gone.
PublishPacket(i) ==
  /\ Busy(i, "publish")
  /\ LET d == importer[i].doc
         t == TmpName(d.key)
     IN IF t \in DOMAIN names
        THEN /\ names' = [n \in (DOMAIN names \ {t}) \cup {FinalName(d)} |->
                             IF n = FinalName(d) THEN names[t] ELSE names[n]]
             /\ importer' = [importer EXCEPT ![i].pc = "receipt", ![i].path = FinalName(d)]
        ELSE /\ importer' = [importer EXCEPT ![i].pc = "receipt", ![i].outcome = "refused:store"]
             /\ UNCHANGED names
  /\ UNCHANGED <<inodes, receipts, runs, raced>>

\* Mutant: the packet read back is not compared with the one written.
ReceiptableLoosely(i, file) ==
  importer[i].outcome \in {"imported", "duplicate"} => file.what = "packet"

\* projection_receipt: the packet is read back and, after an import, has the
\* digest of the one that was built.
Receiptable(i, file) ==
  /\ importer[i].outcome \in {"imported", "duplicate"} => file.what = "packet"
  /\ importer[i].outcome = "imported" => file = Packet(importer[i].doc, importer[i].run)

\* The identity of a receipt is everything in it but the time of the import.
ReceiptOf(i, file) ==
  LET d == importer[i].doc
      bound == importer[i].outcome \in {"imported", "duplicate"}
  IN [raw |-> d, outcome |-> importer[i].outcome, packet |-> IF bound THEN file ELSE Empty,
      limits |-> bound]

\* persist_projection_receipt links the receipt under its identity; a second one
\* of the same identity leaves the first.  Without a receipt the import fails.
Receipt(i) ==
  /\ Busy(i, "receipt")
  /\ LET path == importer[i].path
         file == IF path \in DOMAIN names THEN inodes[names[path]] ELSE Empty
     IN receipts' = IF Receiptable(i, file) THEN receipts \cup {ReceiptOf(i, file)} ELSE receipts
  /\ importer' = [importer EXCEPT ![i] = Idle]
  /\ UNCHANGED <<names, inodes, runs, raced>>

\* The process stops; what it wrote stays.
Crash(i) ==
  /\ ~Busy(i, "idle")
  /\ importer' = [importer EXCEPT ![i] = Idle]
  /\ UNCHANGED <<names, inodes, receipts, runs, raced>>

Init ==
  /\ importer = [i \in Importers |-> Idle]
  /\ names = [n \in {} |-> 0] /\ inodes = [f \in {} |-> Empty]
  /\ receipts = {} /\ runs = 0 /\ raced = {}

Next ==
  \E i \in Importers :
    Begin(i) \/ OpenTmp(i) \/ WriteTmp(i) \/ PublishPacket(i) \/ Receipt(i) \/ Crash(i)

Spec == Init /\ [][Next]_importVars
-----------------------------------------------------------------------------
(***************************************************************************)
(* Properties.                                                             *)
(***************************************************************************)
\* A receipt of an import names the packet of the very bytes that were presented,
\* built by that run, whatever another import did to the temporary file in
\* between; a refusal names none and carries no limits (projection_receipt,
\* ProjectionReceipt::validate_typed).
ReceiptNamesItsPacket ==
  \A r \in receipts :
    /\ r.outcome = "imported" => r.packet.what = "packet" /\ r.packet.doc = r.raw
    /\ r.packet.what = "packet" <=> r.outcome \in {"imported", "duplicate"}

OneCore(key) ==
  \A m, n \in Stored(key) :
    LET a == inodes[names[m]].doc b == inodes[names[n]].doc
    IN a.version = b.version => Core(a) = Core(b)

\* The packets stored of one snapshot agree on its immutable core, however imports
\* and crashes follow one another, unless two imports of that key overlapped
\* (import_dossier_packet, import_record_packet: substitution refuses).
OneCorePerSnapshot == \A d \in Documents : d.key \notin raced => OneCore(d.key)
=============================================================================
