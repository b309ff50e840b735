--------------------------- MODULE EvidenceProofs ---------------------------
(***************************************************************************)
(* Theorems about how evidence is taken and handed on: about what leaves   *)
(* and enters the store as a document (MCDocuments), for every set of      *)
(* findings, importers, documents, files and manifests; and about the      *)
(* probes (MCProbes), for every number of queries and every list of        *)
(* evaluators.  No theorem relates the two.                                *)
(***************************************************************************)
EXTENDS MCDocuments, MCProbes, Sequences, FiniteSetTheorems, WellFoundedInduction, TLAPS
-----------------------------------------------------------------------------
(***************************************************************************)
(* The dashboard.                                                          *)
(***************************************************************************)
Generations == [id : Nat, at : Nat, complete : BOOLEAN]
RowFields == {"last", "at", "absent", "visible", "basis", "work"}
DialogFields == {"open", "input", "confirm", "asked", "told"}

DashType ==
  /\ now \in Nat
  /\ latest \in {None} \cup Generations
  /\ due => latest # None
  /\ DOMAIN rows = Findings /\ DOMAIN firedIn = Findings
  /\ \A f \in Findings : rows[f] # None =>
       /\ DOMAIN rows[f] = RowFields
       /\ rows[f].absent \in Nat /\ rows[f].basis \in {"live", "retired", "unknown"}
  /\ DOMAIN dialog = DialogFields

\* A row is of the generation its finding was last seen in, and there is one.
RowsAreSeen ==
  \A f \in Findings : rows[f] # None => latest # None /\ rows[f].last = firedIn[f]

\* A page is an overview or of a finding, and one that was found too old has no
\* open dialog.
PageShape ==
  page # None =>
    \/ page.of = "overview"
    \/ page.of = "finding" /\ {"of", "offered", "stale"} \subseteq DOMAIN page
StaleIsClosed == page # None /\ page.of = "finding" /\ page.stale => ~dialog.open

DashInv == DashType /\ RowsAreSeen /\ PageShape /\ StaleIsClosed
DocumentDashInv == part = "dashboard" => DashInv

\* A finding that is called ongoing is: its row is of the latest generation, which
\* is the one it was last seen in (classify_finding_status).
LEMMA OngoingIsTrue ==
  ASSUME DashInv, NEW f \in Findings, rows[f] # None, Status(f) = "ongoing"
  PROVE  /\ TrulyOngoing(f) /\ Coherent(f) /\ InAge(SeenAt(f), now)
         /\ latest # None /\ latest.id = rows[f].last /\ latest.id \in Nat
<1>1. /\ Coherent(f) /\ rows[f].basis \notin {"retired", "unknown"}
      /\ rows[f].visible /\ InAge(SeenAt(f), now) /\ ~(rows[f].absent > 0)
  BY DEF Status
<1>2. rows[f].absent = 0 /\ rows[f].basis = "live"
  BY <1>1 DEF DashInv, DashType
<1>3. latest # None /\ latest.id = rows[f].last /\ rows[f].last = firedIn[f] /\ latest.id \in Nat
  BY <1>1 DEF DashInv, DashType, RowsAreSeen, Coherent, Generations
<1>4. f \in WithEvidence => evidence[f].gen = latest.id
  BY <1>1, <1>3 DEF Coherent, HasEvidence
<1> QED BY <1>1, <1>2, <1>3, <1>4 DEF TrulyOngoing

\* Nothing is known and nothing is shown.
LEMMA DashStart == DashInit => DashInv
BY DEF DashInit, DashInv, DashType, RowsAreSeen, PageShape, StaleIsClosed, NoDialog, DialogFields

\* A generation is published; its rows are those of the one before.
LEMMA DashPublish ==
  ASSUME DashInv, Publish
  PROVE  DashInv'
<1>1. UNCHANGED <<now, rows, firedIn, page, dialog>>
  BY DEF Publish
<1>2. latest' \in Generations
  BY DashAssumption DEF DashAssumption, DashInv, DashType, Generations, Publish
<1>3. latest' # None
  BY <1>2, DashAssumption DEF DashAssumption, Generations
<1> QED BY <1>1, <1>2, <1>3 DEF DashInv, DashType, RowsAreSeen, PageShape, StaleIsClosed

\* The pass: a row that fires is of the new generation, another keeps its own.
LEMMA DashPass ==
  ASSUME DashInv, Pass
  PROVE  DashInv'
<1>1. UNCHANGED <<now, latest, page, dialog>> /\ latest # None /\ due' = FALSE
  BY DEF Pass, DashInv, DashType
<1>2. PICK fires, masked \in SUBSET Findings :
        /\ rows' = [f \in Findings |-> IF f \in fires THEN FiredRow(f) ELSE MissingRow(f, f \in masked)]
        /\ firedIn' = [f \in Findings |-> IF f \in fires THEN latest.id ELSE firedIn[f]]
  BY DEF Pass
<1>3. ASSUME NEW f \in Findings, rows'[f] # None
      PROVE  /\ DOMAIN rows'[f] = RowFields
             /\ rows'[f].absent \in Nat /\ rows'[f].basis \in {"live", "retired", "unknown"}
             /\ rows'[f].last = firedIn'[f]
  <2>1. CASE f \in fires /\ rows[f] = None
    <3>1. rows'[f] = [last |-> latest.id, at |-> latest.at, absent |-> 0, visible |-> TRUE,
                      basis |-> "live", work |-> "new"]
      BY <1>2, <2>1 DEF FiredRow
    <3> QED BY <1>2, <2>1, <3>1 DEF RowFields
  <2>2. CASE f \in fires /\ rows[f] # None
    <3>1. rows'[f] = [rows[f] EXCEPT !.last = latest.id, !.at = latest.at, !.absent = 0,
                                     !.visible = TRUE, !.basis = IF @ = "retired" THEN @ ELSE "live"]
      BY <1>2, <2>2 DEF FiredRow
    <3>2. DOMAIN rows[f] = RowFields /\ rows[f].basis \in {"live", "retired", "unknown"}
      BY <2>2 DEF DashInv, DashType
    <3>3. firedIn'[f] = latest.id
      BY <1>2, <2>2
    <3> QED BY <3>1, <3>2, <3>3 DEF RowFields
  <2>3. CASE f \notin fires
    <3>1. rows'[f] = MissingRow(f, f \in masked) /\ firedIn'[f] = firedIn[f]
      BY <1>2, <2>3
    <3>2. rows[f] # None
      BY <1>3, <3>1 DEF MissingRow
    <3>3. \/ rows'[f] = [rows[f] EXCEPT !.visible = FALSE]
          \/ rows'[f] = [rows[f] EXCEPT !.absent = @ + 1]
      BY <1>3, <3>1, <3>2 DEF MissingRow
    <3>4. /\ DOMAIN rows[f] = RowFields /\ rows[f].absent \in Nat
          /\ rows[f].basis \in {"live", "retired", "unknown"} /\ rows[f].last = firedIn[f]
      BY <3>2 DEF DashInv, DashType, RowsAreSeen
    <3> QED BY <3>1, <3>3, <3>4 DEF RowFields
  <2> QED BY <2>1, <2>2, <2>3
<1> QED BY <1>1, <1>2, <1>3 DEF DashInv, DashType, RowsAreSeen, PageShape, StaleIsClosed

\* An import, retention, a lost basis and the clock touch rows or times only.
LEMMA DashStore ==
  ASSUME DashInv,
         (\E f \in Findings : Import(f) \/ Prune(f) \/ LoseBasis(f)) \/ Tick \/ SetBack
  PROVE  DashInv'
<1>1. UNCHANGED <<latest, due, page, dialog>>
  BY DEF Import, Prune, LoseBasis, Tick, SetBack, storeVars
<1>2. ASSUME NEW f \in Findings, Import(f) PROVE DashInv'
  BY <1>1, <1>2 DEF Import, DashInv, DashType, RowFields, RowsAreSeen, PageShape, StaleIsClosed
<1>3. ASSUME NEW f \in Findings, Prune(f) PROVE DashInv'
  BY <1>1, <1>3 DEF Prune, DashInv, DashType, RowsAreSeen, PageShape, StaleIsClosed
<1>4. ASSUME NEW f \in Findings, LoseBasis(f) PROVE DashInv'
  BY <1>1, <1>4 DEF LoseBasis, DashInv, DashType, RowFields, RowsAreSeen, PageShape, StaleIsClosed
<1>5. CASE Tick
  BY <1>1, <1>5 DEF Tick, storeVars, DashInv, DashType, RowsAreSeen, PageShape, StaleIsClosed
<1>6. CASE SetBack
  BY <1>1, <1>6
  DEF SetBack, storeVars, DashInv, DashType, Generations, RowsAreSeen, PageShape, StaleIsClosed
<1> QED BY <1>2, <1>3, <1>4, <1>5, <1>6

\* A page is loaded without a dialog.
LEMMA DashLoad ==
  ASSUME DashInv, LoadOverview \/ \E f \in Findings : LoadDetail(f)
  PROVE  DashInv'
<1>1. UNCHANGED <<now, storeVars>> /\ dialog' = NoDialog
  BY DEF LoadOverview, LoadDetail
<1>2. PageShape'
  BY DEF PageShape, LoadOverview, LoadDetail, CurrentDetail
<1> QED BY <1>1, <1>2
    DEF storeVars, NoDialog, DialogFields, DashInv, DashType, RowsAreSeen, StaleIsClosed

\* The script: only a preview opens a dialog, and not on a page found too old.
LEMMA DashScript ==
  ASSUME DashInv,
         \/ RefreshOpenPageFreshness \/ Preview \/ AnswerPreview \/ ShowPreview
         \/ EditInput \/ Cancel
  PROVE  DashInv'
<1>1. UNCHANGED <<now, storeVars>>
  BY DEF RefreshOpenPageFreshness, Preview, AnswerPreview, ShowPreview, EditInput, Cancel
<1>2. DOMAIN dialog' = DialogFields
  BY DEF RefreshOpenPageFreshness, Preview, AnswerPreview, ShowPreview, EditInput, Cancel,
         CloseDialog, DashInv, DashType
<1>3. PageShape' /\ StaleIsClosed'
  <2>1. CASE RefreshOpenPageFreshness
    BY <2>1 DEF RefreshOpenPageFreshness, OnDetail, CloseDialog, DashInv, DashType, DialogFields,
                PageShape, StaleIsClosed
  <2>2. CASE Preview
    BY <2>2 DEF Preview, OnDetail, DashInv, DashType, PageShape, StaleIsClosed
  <2>3. CASE AnswerPreview \/ ShowPreview \/ EditInput \/ Cancel
    <3>1. UNCHANGED page /\ (dialog'.open => dialog.open)
      BY <2>3 DEF AnswerPreview, ShowPreview, EditInput, Cancel, DashInv, DashType, DialogFields
    <3> QED BY <3>1 DEF DashInv, PageShape, StaleIsClosed
  <2> QED BY <2>1, <2>2, <2>3
<1> QED BY <1>1, <1>2, <1>3 DEF storeVars, DashInv, DashType, RowsAreSeen

\* An action changes the work state of a row and nothing else of it.
LEMMA DashConfirm ==
  ASSUME DashInv, Confirm
  PROVE  DashInv'
<1>1. UNCHANGED <<now, latest, due, firedIn, page>> /\ dialog' = [dialog EXCEPT !.confirm = FALSE]
  BY DEF Confirm
<1>2. \/ UNCHANGED rows
      \/ rows[page.finding] # None /\ \E w \in Targets : rows' = [rows EXCEPT ![page.finding].work = w]
  BY DEF Confirm, Actionable
<1>3. DashType' /\ RowsAreSeen'
  BY <1>1, <1>2 DEF DashInv, DashType, RowFields, RowsAreSeen
<1> QED BY <1>1, <1>3 DEF DashInv, DashType, DialogFields, PageShape, StaleIsClosed

\* Every step of the dashboard.
LEMMA DashStep ==
  ASSUME DashInv, DashNext
  PROVE  DashInv'
BY DashPublish, DashPass, DashStore, DashLoad, DashScript, DashConfirm DEF DashNext

\* A page that is shown tells the store it was loaded from.
LEMMA DashTells ==
  ASSUME DashInv, DashNext
  PROVE  TellsTheStore
<1> SUFFICES ASSUME page' # page, page' # None PROVE TellsTheStore
  BY DEF TellsTheStore
<1>1. CASE LoadOverview
  <2>1. page'.of = "overview" /\ page'.cards = Cards /\ page'.inventory = Inventory
    BY <1>1 DEF LoadOverview
  <2>2. ASSUME NEW f \in DOMAIN Cards, Cards[f].status = "ongoing"
        PROVE  /\ TrulyOngoing(f)
               /\ f \in WithEvidence => f \in DOMAIN Inventory /\ ~Inventory[f].old
    <3>1. f \in Findings /\ rows[f] # None /\ Status(f) = "ongoing"
      BY <2>2 DEF Cards
    <3>2. TrulyOngoing(f) /\ Coherent(f) /\ latest.id = rows[f].last /\ latest.id \in Nat
      BY <3>1, OngoingIsTrue
    <3>3. ASSUME f \in WithEvidence PROVE f \in DOMAIN Inventory /\ ~Inventory[f].old
      <4>1. evidence[f] # None /\ evidence[f].gen = latest.id
        BY <3>2, <3>3 DEF Coherent, HasEvidence
      <4>2. latest.id - evidence[f].gen \in 0 .. DisplayLag
        BY <3>2, <4>1, DashAssumption DEF DashAssumption
      <4> QED BY <3>1, <4>1, <4>2 DEF Inventory
    <3> QED BY <3>2, <3>3
  <2> QED BY <2>1, <2>2 DEF TellsTheStore
<1>2. ASSUME NEW f \in Findings, LoadDetail(f) PROVE TellsTheStore
  <2>1. CASE DetailKind(f) = "current"
    <3>1. page' = CurrentDetail(f) /\ rows[f] # None
      BY <1>2, <2>1 DEF LoadDetail, DetailKind
    <3>2. /\ page'.of = "finding" /\ page'.finding = f /\ page'.offered = Offered(f)
          /\ page'.request.work = rows[f].work /\ page'.request.gen = rows[f].last
      BY <3>1 DEF CurrentDetail
    <3>3. ASSUME Offered(f) PROVE TrulyOngoing(f) /\ Actionable(f, page'.request)
      <4>1. Status(f) = "ongoing"
        BY <3>3 DEF Offered
      <4>2. TrulyOngoing(f) /\ Coherent(f) /\ InAge(SeenAt(f), now)
        BY <3>1, <4>1, OngoingIsTrue
      <4> QED BY <3>1, <3>2, <3>3, <4>2 DEF Offered, TrulyOngoing, Coherent, Actionable
    <3> QED BY <3>2, <3>3 DEF TellsTheStore
  <2>2. CASE DetailKind(f) # "current"
    <3>1. page'.of = "finding" /\ page'.offered = FALSE
      BY <1>2, <2>2 DEF LoadDetail
    <3> QED BY <3>1 DEF TellsTheStore
  <2> QED BY <2>1, <2>2
<1>3. CASE RefreshOpenPageFreshness
  <2>1. page'.of = "finding" /\ page'.stale = TRUE
    BY <1>3 DEF RefreshOpenPageFreshness, OnDetail, DashInv, PageShape
  <2> QED BY <2>1 DEF TellsTheStore
<1> QED BY <1>1, <1>2, <1>3
    DEF DashNext, Publish, Pass, Tick, SetBack, Import, Prune, LoseBasis, Preview, AnswerPreview,
        ShowPreview, EditInput, Cancel, Confirm

\* Whatever commits between a generation and its pass, and whatever the clock
\* does: a page calls a finding ongoing only if it was seen in the generation of
\* the page, with evidence of it, it offers only what the server would accept at
\* that moment, and once its timer found it too old nothing on it can be confirmed
\* (load_dashboard_overview, render_actions, page_script).
THEOREM PagesTellTheStore == DocumentsSpec => PageTellsTheStore
<1>1. DocumentsInit => DocumentDashInv
  BY DashStart DEF DocumentsInit, DocumentDashInv
<1>2. ASSUME DocumentDashInv, [DocumentsNext]_documentVars, part = "dashboard"
      PROVE  DashInv /\ (DashNext \/ UNCHANGED dashVars)
  BY <1>2 DEF DocumentDashInv, DocumentsNext, documentVars
<1>3. DocumentDashInv /\ [DocumentsNext]_documentVars => DocumentDashInv'
  <2> SUFFICES ASSUME DocumentDashInv, [DocumentsNext]_documentVars, part' = "dashboard"
               PROVE  DashInv'
    BY DEF DocumentDashInv
  <2>1. part = "dashboard"
    BY DEF DocumentsNext, documentVars
  <2>2. CASE UNCHANGED dashVars
    BY <1>2, <2>1, <2>2 DEF dashVars, DashInv, DashType, RowsAreSeen, PageShape, StaleIsClosed
  <2> QED BY <1>2, <2>1, <2>2, DashStep
<1>4. DocumentDashInv => (part = "dashboard" => NotOnceStale)
  BY DEF DocumentDashInv, DashInv, StaleIsClosed, NotOnceStale, CanConfirm
<1>5. DocumentDashInv /\ [DocumentsNext]_documentVars => [part = "dashboard" => TellsTheStore]_dashVars
  BY <1>2, DashTells
<1> QED BY <1>1, <1>3, <1>4, <1>5, PTL DEF DocumentsSpec, PageTellsTheStore
-----------------------------------------------------------------------------
(***************************************************************************)
(* Sets of witness packets.                                                *)
(***************************************************************************)
SetType ==
  /\ DOMAIN directory \subseteq FileNames
  /\ manifest \in PacketManifests \cup {None}
  /\ toolPc \in {"list", "manifest", "read", "accepted", "refused"}
  /\ queue \subseteq listed /\ listed \subseteq FileNames
  /\ packets \in Seq(Packets!Range(packets))

\* Before the reads nothing was read; from then on there is a packet for each file
\* listed that is no longer queued, a sound one, and under a manifest it is of the
\* bytes the manifest names.
ReadSoFar ==
  /\ toolPc \in {"list", "manifest"} => queue = {} /\ packets = <<>> /\ beheld = {}
  /\ toolPc \in {"read", "accepted"} =>
       /\ \A i \in DOMAIN packets : Packets!Failure(packets[i]) = None
       /\ Len(packets) + Cardinality(queue) = Cardinality(listed)
       /\ manifest # None =>
            /\ DOMAIN manifest = listed
            /\ beheld = {<<n, manifest[n]>> : n \in listed \ queue}
  /\ toolPc = "accepted" => queue = {} /\ ~(Cardinality(Packets!Range(packets)) < Len(packets))

SetInv == SetType /\ ReadSoFar
DocumentSetInv == part = "packets" => SetInv

\* The operators of FiniteSets are the same wherever they are instantiated.
LEMMA SameFinite ==
  ASSUME NEW S
  PROVE  Packets!IsFiniteSet(S) = IsFiniteSet(S) /\ Packets!Cardinality(S) = Cardinality(S)
<1>1. Packets!IsFiniteSet(S) = IsFiniteSet(S)
  BY DEF Packets!IsFiniteSet, IsFiniteSet
<1>2. Packets!Cardinality(S) = Cardinality(S)
  BY Zenon DEF Packets!Cardinality, Cardinality
<1> QED BY <1>1, <1>2

\* Every set of file names is finite.
LEMMA NamesFinite ==
  ASSUME NEW S \in SUBSET FileNames
  PROVE  IsFiniteSet(S) /\ Cardinality(S) \in Nat
<1>1. IsFiniteSet(FileNames)
  BY WitnessSetAssumption, SameFinite DEF Packets!WitnessSetAssumption
<1>2. IsFiniteSet(S)
  BY <1>1, FS_Subset
<1> QED BY <1>2, FS_CardinalityType

\* A sequence has no more different elements than places.
LEMMA RangeBound ==
  ASSUME NEW s, s \in Seq(Packets!Range(s))
  PROVE  Cardinality(Packets!Range(s)) \in Nat /\ Cardinality(Packets!Range(s)) <= Len(s)
<1> DEFINE n == Len(s)
<1>1. n \in Nat /\ s \in [1..n -> Packets!Range(s)] /\ DOMAIN s = 1..n
  OBVIOUS
<1> HIDE DEF n
<1>2. s \in Surjection(1..n, Packets!Range(s))
  BY <1>1 DEF Surjection, Packets!Range
<1>3. IsFiniteSet(1..n) /\ Cardinality(1..n) = n
  BY <1>1, FS_Interval
<1>4. IsFiniteSet(Packets!Range(s)) /\ Cardinality(Packets!Range(s)) <= Cardinality(1..n)
  BY <1>2, <1>3, FS_Surjection
<1> QED BY <1>3, <1>4, FS_CardinalityType DEF n

\* The tool begins with nothing read.
LEMMA SetStart == Packets!Init => SetInv
<1> SUFFICES ASSUME Packets!Init PROVE SetInv
  OBVIOUS
<1>1. PICK s \in SUBSET FileNames : directory \in [s -> Files]
  BY DEF Packets!Init
<1>2. <<>> \in Seq(Packets!Range(<<>>))
  OBVIOUS
<1> QED BY <1>1, <1>2 DEF Packets!Init, SetInv, SetType, ReadSoFar

\* A refusal keeps what was read and accepts nothing.
LEMMA SetRefuse ==
  ASSUME SetInv, NEW code, Packets!Refuse(code), UNCHANGED <<directory, manifest>>
  PROVE  SetInv'
BY DEF Packets!Refuse, SetInv, SetType, ReadSoFar

\* The directory is listed, and others go on writing in it.
LEMMA SetList ==
  ASSUME SetInv, Packets!ListDirectory \/ Packets!RefuseInput \/ Packets!Edit
  PROVE  SetInv'
<1>1. CASE Packets!ListDirectory
  <2>1. CASE DOMAIN directory = {}
    BY <1>1, <2>1, SetRefuse DEF Packets!ListDirectory
  <2>2. CASE DOMAIN directory # {}
    BY <1>1, <2>2 DEF Packets!ListDirectory, SetInv, SetType, ReadSoFar
  <2> QED BY <2>1, <2>2
<1>2. CASE Packets!Edit
  <2>1. UNCHANGED <<manifest, toolPc, listed, queue, packets, beheld>>
    BY <1>2 DEF Packets!Edit
  <2>2. DOMAIN directory' \subseteq FileNames
    BY <1>2 DEF Packets!Edit, SetInv, SetType
  <2> QED BY <2>1, <2>2 DEF SetInv, SetType, ReadSoFar
<1>3. CASE Packets!RefuseInput
  BY <1>3, SetRefuse DEF Packets!RefuseInput
<1> QED BY <1>1, <1>2, <1>3

\* The manifest is read: its names are the ones listed.
LEMMA SetManifest ==
  ASSUME SetInv, Packets!ReadManifest
  PROVE  SetInv'
<1>1. UNCHANGED <<directory, manifest>> /\ toolPc = "manifest"
  BY DEF Packets!ReadManifest
<1>2. ASSUME NEW code, Packets!Refuse(code) PROVE SetInv'
  BY <1>1, <1>2, SetRefuse
<1>3. ASSUME toolPc' = "read", queue' = listed, UNCHANGED <<listed, packets, refusal, beheld>>,
             manifest # None => DOMAIN manifest = listed
      PROVE  SetInv'
  <2>1. Len(<<>>) = 0 /\ DOMAIN <<>> = {}
    OBVIOUS
  <2>2. packets = <<>> /\ beheld = {}
    BY <1>1 DEF SetInv, ReadSoFar
  <2>3. Cardinality(listed) \in Nat
    BY NamesFinite DEF SetInv, SetType
  <2>4. SetType'
    BY <1>1, <1>3 DEF SetInv, SetType
  <2>5. ReadSoFar'
    BY <1>1, <1>3, <2>1, <2>2, <2>3 DEF ReadSoFar
  <2> QED BY <2>4, <2>5 DEF SetInv
<1>4. CASE manifest = None
  BY <1>3, <1>4 DEF Packets!ReadManifest
<1>5. CASE manifest # None /\ DOMAIN manifest = {}
  BY <1>2, <1>5 DEF Packets!ReadManifest
<1>6. CASE manifest # None /\ DOMAIN manifest # {} /\ DOMAIN manifest # listed
  BY <1>2, <1>6 DEF Packets!ReadManifest
<1>7. CASE manifest # None /\ DOMAIN manifest # {} /\ DOMAIN manifest = listed
  BY <1>3, <1>7 DEF Packets!ReadManifest
<1> QED BY <1>4, <1>5, <1>6, <1>7

\* One file is read: its packet is added, or the set is refused.
LEMMA SetRead ==
  ASSUME SetInv, Packets!ReadPacket
  PROVE  SetInv'
<1>1. UNCHANGED <<directory, manifest>> /\ toolPc = "read"
  BY DEF Packets!ReadPacket
<1>2. ASSUME NEW code, Packets!Refuse(code) PROVE SetInv'
  BY <1>1, <1>2, SetRefuse
<1>3. ASSUME NEW n \in queue, NEW bytes, Packets!DigestAgrees(n, bytes),
             Packets!Failure(bytes.packet) = None,
             packets' = Append(packets, bytes.packet), beheld' = beheld \cup {<<n, bytes>>},
             queue' = queue \ {n}, UNCHANGED <<listed, toolPc, refusal>>
      PROVE  SetInv'
  <2> DEFINE p == bytes.packet
             k == Len(packets)
             S == Packets!Range(packets)
  <2>1. packets \in Seq(S) /\ k \in Nat /\ DOMAIN packets = 1..k
    BY DEF SetInv, SetType
  <2> HIDE DEF p, S
  <2>2. packets \in Seq(S \cup {p})
    BY <2>1
  <2>3. /\ packets' \in Seq(S \cup {p}) /\ Len(packets') = k + 1 /\ DOMAIN packets' = 1..(k + 1)
        /\ packets'[k + 1] = p /\ \A i \in 1..k : packets'[i] = packets[i]
    BY <1>3, <2>1, <2>2 DEF p
  <2>4. packets' \in Seq(Packets!Range(packets)')
    <3>1. Packets!Range(packets)' = {packets'[i] : i \in DOMAIN packets'}
      BY DEF Packets!Range
    <3> QED BY <2>1, <2>3, <3>1
  <2>5. SetType'
    BY <1>1, <1>3, <2>4 DEF SetInv, SetType
  <2>6. \A i \in DOMAIN packets' : Packets!Failure(packets'[i]) = None
    <3>1. \A i \in 1..k : Packets!Failure(packets[i]) = None
      BY <1>1, <2>1 DEF SetInv, ReadSoFar
    <3>2. Packets!Failure(p) = None
      BY <1>3 DEF p
    <3>3. \A i \in 1..(k + 1) : i = k + 1 \/ i \in 1..k
      BY <2>1
    <3> QED BY <2>3, <3>1, <3>2, <3>3
  <2>7. Len(packets') + Cardinality(queue') = Cardinality(listed)
    <3>1. k + Cardinality(queue) = Cardinality(listed)
      BY <1>1 DEF SetInv, ReadSoFar
    <3>2. IsFiniteSet(queue) /\ Cardinality(queue) \in Nat /\ Cardinality(listed) \in Nat
      BY NamesFinite DEF SetInv, SetType
    <3>3. Cardinality(queue \ {n}) = Cardinality(queue) - 1
      BY <1>3, <3>2, FS_RemoveElement
    <3> QED BY <1>3, <2>1, <2>3, <3>1, <3>2, <3>3
  <2>8. ASSUME manifest # None
        PROVE  /\ DOMAIN manifest = listed
               /\ beheld' = {<<m, manifest[m]>> : m \in listed \ queue'}
    <3>1. DOMAIN manifest = listed /\ beheld = {<<m, manifest[m]>> : m \in listed \ queue}
      BY <1>1, <2>8 DEF SetInv, ReadSoFar
    <3>2. manifest[n] = bytes
      BY <1>3, <2>8 DEF Packets!DigestAgrees
    <3>3. listed \ queue' = (listed \ queue) \cup {n}
      BY <1>3 DEF SetInv, SetType
    <3> QED BY <1>3, <3>1, <3>2, <3>3
  <2>9. ReadSoFar'
    BY <1>1, <1>3, <2>6, <2>7, <2>8 DEF ReadSoFar
  <2> QED BY <2>5, <2>9 DEF SetInv
<1>4. PICK n \in queue :
        IF n \notin DOMAIN directory THEN Packets!Refuse("witness.tool.io_error")
        ELSE LET bytes == directory[n] IN
             CASE ~Packets!DigestAgrees(n, bytes) -> Packets!Refuse("witness.manifest_digest_mismatch")
               [] Packets!DigestAgrees(n, bytes) /\ bytes.form # "packet" ->
                    Packets!Refuse(Packets!DecodeFailure(bytes.form))
               [] Packets!DigestAgrees(n, bytes) /\ bytes.form = "packet" /\ Packets!Failure(bytes.packet) # None ->
                    Packets!Refuse(Packets!Failure(bytes.packet))
               [] OTHER -> /\ packets' = Append(packets, bytes.packet)
                           /\ beheld' = beheld \cup {<<n, bytes>>}
                           /\ queue' = queue \ {n}
                           /\ UNCHANGED <<listed, toolPc, refusal>>
  BY DEF Packets!ReadPacket
<1> DEFINE bytes == directory[n]
<1>5. CASE n \notin DOMAIN directory
  BY <1>2, <1>4, <1>5
<1>6. CASE n \in DOMAIN directory /\ ~Packets!DigestAgrees(n, bytes)
  BY <1>2, <1>4, <1>6
<1>7. CASE n \in DOMAIN directory /\ Packets!DigestAgrees(n, bytes) /\ bytes.form # "packet"
  BY <1>2, <1>4, <1>7
<1>8. CASE /\ n \in DOMAIN directory /\ Packets!DigestAgrees(n, bytes) /\ bytes.form = "packet"
           /\ Packets!Failure(bytes.packet) # None
  BY <1>2, <1>4, <1>8
<1>9. CASE /\ n \in DOMAIN directory /\ Packets!DigestAgrees(n, bytes) /\ bytes.form = "packet"
           /\ Packets!Failure(bytes.packet) = None
  BY <1>3, <1>4, <1>9
<1> QED BY <1>5, <1>6, <1>7, <1>8, <1>9

\* A set with a packet twice is refused, another one is accepted.
LEMMA SetAdopt ==
  ASSUME SetInv, Packets!Adopt
  PROVE  SetInv'
<1>1. UNCHANGED <<directory, manifest>> /\ toolPc = "read" /\ queue = {}
  BY DEF Packets!Adopt
<1>2. Packets!Cardinality(Packets!Range(packets)) = Cardinality(Packets!Range(packets))
  BY SameFinite
<1>3. CASE Packets!Cardinality(Packets!Range(packets)) < Len(packets)
  BY <1>1, <1>3, SetRefuse DEF Packets!Adopt
<1>4. CASE ~(Packets!Cardinality(Packets!Range(packets)) < Len(packets))
  <2>1. toolPc' = "accepted" /\ UNCHANGED <<listed, queue, packets, refusal, beheld>>
    BY <1>4 DEF Packets!Adopt
  <2>2. SetType'
    BY <1>1, <2>1 DEF SetInv, SetType, Packets!Range
  <2>3. ReadSoFar'
    BY <1>1, <1>2, <1>4, <2>1 DEF SetInv, ReadSoFar, Packets!Range
  <2> QED BY <2>2, <2>3 DEF SetInv
<1> QED BY <1>3, <1>4

\* Whatever is written in the directory between the listing and the reads, an
\* accepted set is sound and whole, and under a manifest it is the packets of
\* exactly the bytes the manifest names (validate_set, adopt_packet_set).
THEOREM SetsAreTheManifest == DocumentsSpec => []SetIsTheManifest
<1>1. DocumentsInit => DocumentSetInv
  BY SetStart DEF DocumentsInit, DocumentSetInv
<1>2. DocumentSetInv /\ [DocumentsNext]_documentVars => DocumentSetInv'
  <2> SUFFICES ASSUME DocumentSetInv, [DocumentsNext]_documentVars, part' = "packets"
               PROVE  SetInv'
    BY DEF DocumentSetInv
  <2>1. part = "packets" /\ SetInv /\ (Packets!Next \/ UNCHANGED setVars)
    BY DEF DocumentSetInv, DocumentsNext, documentVars
  <2>2. CASE UNCHANGED setVars
    BY <2>1, <2>2 DEF setVars, SetInv, SetType, ReadSoFar, Packets!Range
  <2> QED BY <2>1, <2>2, SetList, SetManifest, SetRead, SetAdopt DEF Packets!Next
<1>3. DocumentSetInv => SetIsTheManifest
  <2> SUFFICES ASSUME SetInv, toolPc = "accepted"
               PROVE  Packets!SetIsTheManifest
    BY DEF DocumentSetInv, SetIsTheManifest, Packets!SetIsTheManifest
  <2>1. /\ Packets!Cardinality(listed) = Cardinality(listed)
        /\ Packets!Cardinality(Packets!Range(packets)) = Cardinality(Packets!Range(packets))
    BY SameFinite
  <2>2. packets \in Seq(Packets!Range(packets)) /\ Len(packets) \in Nat
    BY DEF SetInv, SetType
  <2>3. Cardinality(Packets!Range(packets)) = Len(packets)
    BY <2>2, RangeBound DEF SetInv, ReadSoFar
  <2>4. Cardinality(queue) = 0
    BY FS_EmptySet DEF SetInv, ReadSoFar
  <2>5. Len(packets) = Cardinality(listed)
    BY <2>2, <2>4 DEF SetInv, ReadSoFar
  <2>6. manifest # None => beheld = {<<n, manifest[n]>> : n \in DOMAIN manifest}
    BY DEF SetInv, ReadSoFar
  <2> QED BY <2>1, <2>3, <2>5, <2>6 DEF SetInv, ReadSoFar, Packets!SetIsTheManifest
<1> QED BY <1>1, <1>2, <1>3, PTL DEF DocumentsSpec
-----------------------------------------------------------------------------
(***************************************************************************)
(* Imports.  The temporary name of a directory is shared, so what an       *)
(* import wrote is its own only while no other works on the same snapshot. *)
(***************************************************************************)
HandFields == {"doc", "run", "outcome", "file", "pc", "path"}
Working(i) == importer[i].pc # "idle"
Writing(i) == importer[i].pc \in {"write", "publish"}

ImportType ==
  /\ runs \in Nat
  /\ DOMAIN importer = Importers
  /\ \A i \in Importers : Working(i) =>
       /\ DOMAIN importer[i] = HandFields
       /\ importer[i].doc \in Documents /\ importer[i].run \in 1..runs
  /\ DOMAIN inodes \subseteq 1..runs
  /\ \A n \in DOMAIN names : names[n] \in DOMAIN inodes

\* Each import is a run of its own, and makes its file when it opens it.
RunsDiffer ==
  /\ \A i, j \in Importers :
       Working(i) /\ Working(j) /\ importer[i].run = importer[j].run => i = j
  /\ \A i \in Importers :
       importer[i].pc = "open" => importer[i].run \notin DOMAIN inodes
  /\ \A i \in Importers : Writing(i) => importer[i].file \in DOMAIN inodes

\* A file has one name, and a file that is being written has a name of its own
\* snapshot only.
FilesKeepTheirKey ==
  /\ \A m, n \in DOMAIN names : names[m] = names[n] => m = n
  /\ \A n \in DOMAIN names, i \in Importers :
       Writing(i) /\ names[n] = importer[i].file => n.key = importer[i].doc.key
  /\ \A i, j \in Importers :
       Writing(i) /\ Writing(j) /\ importer[i].file = importer[j].file =>
         importer[i].doc.key = importer[j].doc.key

\* On a snapshot no two imports worked on at once there is one writer, the
\* temporary name is its file, which holds what it wrote, and no stored packet
\* contradicts it.
Undisturbed(key) ==
  /\ \A i, j \in Projections!AtWork(key) : i = j
  /\ \A i \in Projections!AtWork(key) :
       /\ Projections!Conflicts(importer[i].doc) = {}
       /\ Writing(i) => /\ Projections!TmpName(key) \in DOMAIN names
                         /\ names[Projections!TmpName(key)] = importer[i].file
       /\ importer[i].pc = "publish" =>
            inodes[importer[i].file] = Projections!Packet(importer[i].doc, importer[i].run)
       /\ importer[i].pc = "write" => inodes[importer[i].file] = Projections!Empty
  /\ Projections!OneCore(key)
UndisturbedKeys == \A d \in Documents : d.key \notin raced => Undisturbed(d.key)

ImportInv == /\ ImportType /\ RunsDiffer /\ FilesKeepTheirKey /\ UndisturbedKeys
             /\ Projections!ReceiptNamesItsPacket
DocumentImportInv == part = "import" => ImportInv

\* The packets stored of a snapshot are those of the same names with the same
\* contents.
LEMMA StoredKept ==
  ASSUME NEW key,
         Projections!Held(key)' = Projections!Held(key),
         \A n \in Projections!Held(key) : inodes'[names'[n]] = inodes[names[n]]
  PROVE  /\ Projections!OneCore(key) => Projections!OneCore(key)'
         /\ \A d \in Documents : d.key = key =>
              Projections!Conflicts(d)' = Projections!Conflicts(d)
<1>1. Projections!Stored(key)' = Projections!Stored(key)
  BY DEF Projections!Stored
<1>2. \A n \in Projections!Stored(key) : inodes'[names'[n]] = inodes[names[n]]
  BY DEF Projections!Stored
<1>3. Projections!OneCore(key) => Projections!OneCore(key)'
  BY <1>1, <1>2 DEF Projections!OneCore
<1>4. ASSUME NEW d \in Documents, d.key = key
      PROVE  Projections!Conflicts(d)' = Projections!Conflicts(d)
  BY <1>1, <1>2, <1>4 DEF Projections!Conflicts
<1> QED BY <1>3, <1>4

\* The store is empty and nobody works on it.
LEMMA ImportStart == Projections!Init => ImportInv
<1> SUFFICES ASSUME Projections!Init PROVE ImportInv
  OBVIOUS
<1>1. /\ importer = [i \in Importers |-> Projections!Idle] /\ DOMAIN names = {} /\ DOMAIN inodes = {}
      /\ receipts = {} /\ runs = 0 /\ raced = {}
  BY DEF Projections!Init
<1>2. ImportType /\ RunsDiffer /\ FilesKeepTheirKey
  BY <1>1 DEF ImportType, RunsDiffer, FilesKeepTheirKey, Working, Writing, Projections!Idle
<1>3. \A key : Projections!AtWork(key) = {} /\ Projections!Stored(key) = {}
  BY <1>1 DEF Projections!AtWork, Projections!Stored, Projections!Held, Projections!Idle
<1>4. UndisturbedKeys
  BY <1>3 DEF UndisturbedKeys, Undisturbed, Projections!OneCore
<1> QED BY <1>1, <1>2, <1>4 DEF ImportInv, Projections!ReceiptNamesItsPacket

\* An import begins: with what it read checked against the store.  One that
\* overlaps another of the same snapshot disturbs it.
LEMMA ImportBegin ==
  ASSUME ImportInv, NEW i \in Importers, Projections!Begin(i)
  PROVE  ImportInv'
<1>1. ~Working(i) /\ runs' = runs + 1 /\ UNCHANGED <<names, inodes, receipts>>
  BY DEF Projections!Begin, Projections!Busy, Working
<1> DEFINE Ruling(d) == IF Projections!EarlyRefusal(d) # None THEN Projections!EarlyRefusal(d)
                         ELSE Projections!StoreVerdict(d)
           Hand(d, path) ==
             [doc |-> d, run |-> runs + 1, outcome |-> Ruling(d), file |-> None,
              pc |-> IF Ruling(d) = "imported" THEN "open" ELSE "receipt", path |-> path]
<1>2. PICK d \in Documents :
        /\ \E path : importer' = [importer EXCEPT ![i] = Hand(d, path)]
        /\ raced' = IF Ruling(d) = "imported" /\ Projections!AtWork(d.key) # {}
                    THEN raced \cup {d.key} ELSE raced
  <2>1. PICK d \in Documents :
          /\ IF Ruling(d) = "duplicate"
             THEN \E n \in Projections!Duplicates(d) :
                    importer' = [importer EXCEPT ![i] = [Hand(d, None) EXCEPT !.path = n]]
             ELSE importer' = [importer EXCEPT ![i] = Hand(d, None)]
          /\ raced' = IF Ruling(d) = "imported" /\ Projections!AtWork(d.key) # {}
                      THEN raced \cup {d.key} ELSE raced
    BY DEF Projections!Begin
  <2>2. \A n : [Hand(d, None) EXCEPT !.path = n] = Hand(d, n)
    OBVIOUS
  <2>3. \E path : importer' = [importer EXCEPT ![i] = Hand(d, path)]
    <3>1. CASE Ruling(d) = "duplicate"
      <4>1. PICK n : importer' = [importer EXCEPT ![i] = [Hand(d, None) EXCEPT !.path = n]]
        BY <2>1, <3>1
      <4> QED BY <4>1, <2>2
    <3>2. CASE Ruling(d) # "duplicate"
      BY <2>1, <3>2
    <3> QED BY <3>1, <3>2
  <2> HIDE DEF Ruling, Hand
  <2> QED BY <2>1, <2>3
<1>3. PICK path : importer' = [importer EXCEPT ![i] = Hand(d, path)]
  BY <1>2
<1> DEFINE verdict == Ruling(d)
<1>4. /\ runs \in Nat /\ DOMAIN importer = Importers
      /\ \A j \in Importers \ {i} : importer'[j] = importer[j]
      /\ DOMAIN importer'[i] = HandFields
      /\ importer'[i].doc = d /\ importer'[i].run = runs + 1
      /\ importer'[i].pc = IF verdict = "imported" THEN "open" ELSE "receipt"
      /\ DOMAIN importer' = Importers
  BY <1>3 DEF ImportInv, ImportType, HandFields
<1>5. ImportType'
  BY <1>1, <1>4 DEF ImportInv, ImportType, Working
<1>6. RunsDiffer' /\ FilesKeepTheirKey'
  BY <1>1, <1>4 DEF ImportInv, ImportType, RunsDiffer, FilesKeepTheirKey, Working, Writing
<1>7. verdict = "imported" => Projections!Conflicts(d) = {}
  BY DEF Projections!StoreVerdict, Projections!EarlyRefusal
<1> HIDE DEF Ruling, Hand
<1>8. ASSUME NEW e \in Documents, e.key \notin raced' PROVE Undisturbed(e.key)'
  <2>1. Undisturbed(e.key) /\ e.key \notin raced
    BY <1>2, <1>8 DEF ImportInv, UndisturbedKeys
  <2>2. Projections!OneCore(e.key)'
        /\ \A f \in Documents : f.key = e.key => Projections!Conflicts(f)' = Projections!Conflicts(f)
    BY <1>1, <2>1, StoredKept DEF Undisturbed, Projections!Held
  <2>3. CASE verdict = "imported" /\ d.key = e.key
    <3>1. Projections!AtWork(e.key) = {}
      BY <1>2, <1>8, <2>3
    <3>2. Projections!AtWork(e.key)' = {i}
      BY <1>4, <2>3, <3>1 DEF Projections!AtWork
    <3> QED BY <1>4, <1>7, <2>2, <2>3, <3>2 DEF Undisturbed, Writing
  <2>4. CASE ~(verdict = "imported" /\ d.key = e.key)
    <3>1. i \notin Projections!AtWork(e.key)'
      BY <1>4, <2>4 DEF Projections!AtWork
    <3>2. i \notin Projections!AtWork(e.key)
      BY <1>1 DEF Projections!AtWork, Working
    <3>3. Projections!AtWork(e.key)' = Projections!AtWork(e.key)
      BY <1>4, <3>1, <3>2 DEF Projections!AtWork
    <3>4. \A j \in Projections!AtWork(e.key) :
            j # i /\ j \in Importers /\ importer'[j] = importer[j]
            /\ importer[j].doc \in Documents /\ importer[j].doc.key = e.key
      BY <1>4, <3>2 DEF Projections!AtWork, ImportInv, ImportType, Working
    <3> QED BY <1>1, <2>1, <2>2, <3>3, <3>4 DEF Undisturbed, Writing
  <2> QED BY <2>3, <2>4
<1> QED BY <1>1, <1>5, <1>6, <1>8 DEF ImportInv, UndisturbedKeys, Projections!ReceiptNamesItsPacket

\* The temporary file is opened: an old one is truncated, a new one has the number
\* of the run.
LEMMA ImportOpen ==
  ASSUME ImportInv, NEW i \in Importers, Projections!OpenTmp(i)
  PROVE  ImportInv'
<1> DEFINE d == importer[i].doc
           t == Projections!TmpName(d.key)
           f == IF t \in DOMAIN names THEN names[t] ELSE importer[i].run
<1>1. /\ importer[i].pc = "open" /\ Working(i) /\ ~Writing(i) /\ d \in Documents
      /\ i \in Projections!AtWork(d.key)
      /\ UNCHANGED <<receipts, runs, raced>>
  BY DEF Projections!OpenTmp, Projections!Busy, Projections!AtWork, ImportInv, ImportType,
         Working, Writing
<1>2. /\ names' = [n \in DOMAIN names \cup {t} |-> IF n = t THEN f ELSE names[n]]
      /\ inodes' = [g \in DOMAIN inodes \cup {f} |->
                      IF g = f THEN Projections!Empty ELSE inodes[g]]
      /\ importer' = [importer EXCEPT ![i].pc = "write", ![i].file = f]
  BY DEF Projections!OpenTmp
<1>3. /\ DOMAIN importer' = Importers
      /\ \A j \in Importers \ {i} : importer'[j] = importer[j]
      /\ DOMAIN importer'[i] = HandFields /\ importer'[i].pc = "write" /\ importer'[i].file = f
      /\ importer'[i].doc = d /\ importer'[i].run = importer[i].run
  BY <1>1, <1>2 DEF ImportInv, ImportType, HandFields
<1>4. /\ t.doc = None /\ t.key = d.key
      /\ \A k : Projections!TmpName(k) = t => k = d.key
  BY DEF Projections!TmpName
<1>5. /\ f \in 1..runs
      /\ f \in DOMAIN inodes \/ f = importer[i].run
      /\ \A n \in DOMAIN names : names[n] = f => n = t
      /\ \A j \in Importers \ {i} : Writing(j) /\ importer[j].file = f => importer[j].doc.key = d.key
  BY <1>1, <1>4 DEF ImportInv, ImportType, RunsDiffer, FilesKeepTheirKey
<1>6. /\ DOMAIN names' = DOMAIN names \cup {t} /\ names'[t] = f
      /\ \A n \in DOMAIN names : names'[n] = names[n]
      /\ DOMAIN inodes' = DOMAIN inodes \cup {f} /\ inodes'[f] = Projections!Empty
      /\ \A g \in DOMAIN inodes : g # f => inodes'[g] = inodes[g]
  BY <1>2
<1> HIDE DEF f, t
<1>7. ImportType'
  BY <1>1, <1>3, <1>5, <1>6 DEF ImportInv, ImportType, Working
<1>8. RunsDiffer'
  <2>1. ASSUME NEW j \in Importers, Writing(j)' PROVE (importer[j].file \in DOMAIN inodes)'
    BY <1>3, <1>6, <2>1 DEF ImportInv, RunsDiffer, Writing
  <2>2. ASSUME NEW j \in Importers, importer'[j].pc = "open"
        PROVE  importer'[j].run \notin DOMAIN inodes'
    <3>1. j # i /\ importer[j].pc = "open" /\ importer'[j] = importer[j]
      BY <1>3, <2>2
    <3>2. importer[j].run \notin DOMAIN inodes /\ importer[j].run # importer[i].run
      BY <1>1, <3>1 DEF ImportInv, RunsDiffer, Working
    <3> QED BY <1>5, <1>6, <3>1, <3>2
  <2>3. ASSUME NEW j \in Importers, NEW k \in Importers, Working(j)', Working(k)',
               importer'[j].run = importer'[k].run
        PROVE  j = k
    BY <1>1, <1>3, <2>3 DEF ImportInv, RunsDiffer, Working
  <2> QED BY <2>1, <2>2, <2>3 DEF RunsDiffer
<1>9. FilesKeepTheirKey'
  <2>1. ASSUME NEW n \in DOMAIN names', NEW j \in Importers, Writing(j)',
               names'[n] = importer'[j].file
        PROVE  n.key = importer'[j].doc.key
    BY <1>3, <1>4, <1>5, <1>6, <2>1 DEF ImportInv, FilesKeepTheirKey, Writing
  <2>2. ASSUME NEW j \in Importers, NEW k \in Importers, Writing(j)', Writing(k)',
               importer'[j].file = importer'[k].file
        PROVE  importer'[j].doc.key = importer'[k].doc.key
    BY <1>3, <1>5, <2>2 DEF ImportInv, FilesKeepTheirKey, Writing
  <2>3. ASSUME NEW m \in DOMAIN names', NEW n \in DOMAIN names', names'[m] = names'[n]
        PROVE  m = n
    BY <1>5, <1>6, <2>3 DEF ImportInv, FilesKeepTheirKey
  <2> QED BY <2>1, <2>2, <2>3 DEF FilesKeepTheirKey
<1>10. ASSUME NEW e \in Documents, e.key \notin raced' PROVE Undisturbed(e.key)'
  <2>1. Undisturbed(e.key)
    BY <1>1, <1>10 DEF ImportInv, UndisturbedKeys
  <2>2. Projections!AtWork(e.key)' = Projections!AtWork(e.key)
    BY <1>1, <1>3 DEF Projections!AtWork
  <2>3. Projections!Held(e.key)' = Projections!Held(e.key)
    BY <1>4, <1>6 DEF Projections!Held
  <2>4. \A n \in Projections!Held(e.key) : inodes'[names'[n]] = inodes[names[n]]
    BY <1>4, <1>5, <1>6 DEF Projections!Held, ImportInv, ImportType
  <2>5. Projections!OneCore(e.key)'
        /\ \A g \in Documents : g.key = e.key => Projections!Conflicts(g)' = Projections!Conflicts(g)
    BY <2>1, <2>3, <2>4, StoredKept DEF Undisturbed
  <2>6. CASE e.key = d.key
    <3>1. \A j \in Projections!AtWork(e.key) : j = i
      BY <1>1, <2>1, <2>6 DEF Undisturbed
    <3>2. Projections!Conflicts(d)' = {}
      BY <1>1, <1>3, <2>1, <2>5, <2>6 DEF Undisturbed
    <3>3. Projections!TmpName(e.key) = t
      BY <2>6 DEF t
    <3> QED BY <1>3, <1>6, <2>2, <2>5, <3>1, <3>2, <3>3 DEF Undisturbed
  <2>7. CASE e.key # d.key
    <3>1. ASSUME NEW j \in Projections!AtWork(e.key)
          PROVE  /\ j \in Importers /\ j # i /\ importer'[j] = importer[j]
                 /\ importer[j].doc \in Documents /\ importer[j].doc.key = e.key
                 /\ Writing(j) => importer[j].file # f /\ importer[j].file \in DOMAIN inodes
      BY <1>3, <1>5, <2>7
      DEF Projections!AtWork, ImportInv, ImportType, RunsDiffer, Working, Writing
    <3>2. Projections!TmpName(e.key) # t
      BY <1>4, <2>7
    <3> QED BY <1>6, <2>1, <2>2, <2>5, <3>1, <3>2 DEF Undisturbed, Writing
  <2> QED BY <2>6, <2>7
<1> QED BY <1>1, <1>7, <1>8, <1>9, <1>10
    DEF ImportInv, UndisturbedKeys, Projections!ReceiptNamesItsPacket

\* The bytes are written over what the file holds: its own emptiness, where the
\* import is undisturbed.
LEMMA ImportWrite ==
  ASSUME ImportInv, NEW i \in Importers, Projections!WriteTmp(i)
  PROVE  ImportInv'
<1> DEFINE d == importer[i].doc
           f == importer[i].file
<1>1. /\ importer[i].pc = "write" /\ Working(i) /\ Writing(i) /\ d \in Documents
      /\ i \in Projections!AtWork(d.key) /\ f \in DOMAIN inodes
      /\ UNCHANGED <<names, receipts, runs, raced>>
      /\ importer' = [importer EXCEPT ![i].pc = "publish"]
  BY DEF Projections!WriteTmp, Projections!Busy, Projections!Step, Projections!AtWork,
         ImportInv, ImportType, RunsDiffer, Working, Writing
<1>2. PICK c : /\ inodes' = [inodes EXCEPT ![f] = c]
               /\ inodes[f] = Projections!Empty => c = Projections!Packet(d, importer[i].run)
  BY DEF Projections!WriteTmp
<1>3. /\ DOMAIN importer' = Importers
      /\ \A j \in Importers \ {i} : importer'[j] = importer[j]
      /\ DOMAIN importer'[i] = HandFields /\ importer'[i].pc = "publish" /\ importer'[i].file = f
      /\ importer'[i].doc = d /\ importer'[i].run = importer[i].run
  BY <1>1 DEF ImportInv, ImportType, HandFields
<1>4. /\ DOMAIN inodes' = DOMAIN inodes /\ inodes'[f] = c
      /\ \A g \in DOMAIN inodes : g # f => inodes'[g] = inodes[g]
  BY <1>1, <1>2
<1>5. ImportType'
  BY <1>1, <1>3, <1>4 DEF ImportInv, ImportType, Working
<1>6. RunsDiffer' /\ FilesKeepTheirKey'
  BY <1>1, <1>3, <1>4 DEF ImportInv, RunsDiffer, FilesKeepTheirKey, Working, Writing
<1>7. ASSUME NEW e \in Documents, e.key \notin raced' PROVE Undisturbed(e.key)'
  <2>1. Undisturbed(e.key)
    BY <1>1, <1>7 DEF ImportInv, UndisturbedKeys
  <2>2. Projections!AtWork(e.key)' = Projections!AtWork(e.key)
    BY <1>1, <1>3 DEF Projections!AtWork
  <2>3. \A n \in Projections!Held(e.key) : inodes'[names'[n]] = inodes[names[n]]
    <3>1. SUFFICES ASSUME NEW n \in Projections!Held(e.key) PROVE names[n] # f
      BY <1>1, <1>4 DEF Projections!Held, ImportInv, ImportType
    <3>2. SUFFICES ASSUME names[n] = f PROVE FALSE
      OBVIOUS
    <3>3. n \in DOMAIN names /\ n.key = e.key /\ n.doc # None
      BY DEF Projections!Held
    <3>4. d.key = e.key
      BY <1>1, <3>2, <3>3 DEF ImportInv, FilesKeepTheirKey
    <3>5. Projections!TmpName(e.key) \in DOMAIN names /\ names[Projections!TmpName(e.key)] = f
      BY <1>1, <2>1, <3>4 DEF Undisturbed
    <3>6. n = Projections!TmpName(e.key)
      BY <3>2, <3>3, <3>5 DEF ImportInv, FilesKeepTheirKey
    <3> QED BY <3>3, <3>6 DEF Projections!TmpName
  <2>4. Projections!OneCore(e.key)'
        /\ \A g \in Documents : g.key = e.key => Projections!Conflicts(g)' = Projections!Conflicts(g)
    BY <1>1, <2>1, <2>3, StoredKept DEF Undisturbed, Projections!Held
  <2>5. CASE e.key = d.key
    <3>1. \A j \in Projections!AtWork(e.key) : j = i
      BY <1>1, <2>1, <2>5 DEF Undisturbed
    <3>2. Projections!Conflicts(d)' = {}
      BY <1>1, <2>1, <2>4, <2>5 DEF Undisturbed
    <3>3. inodes'[f] = Projections!Packet(d, importer[i].run)
      BY <1>1, <1>2, <1>4, <2>1, <2>5 DEF Undisturbed
    <3>4. /\ Projections!TmpName(e.key) \in DOMAIN names'
          /\ names'[Projections!TmpName(e.key)] = f
      BY <1>1, <2>1, <2>5 DEF Undisturbed
    <3> QED BY <1>3, <2>2, <2>4, <3>1, <3>2, <3>3, <3>4 DEF Undisturbed
  <2>6. CASE e.key # d.key
    <3>1. ASSUME NEW j \in Projections!AtWork(e.key)
          PROVE  /\ j \in Importers /\ j # i /\ importer'[j] = importer[j]
                 /\ importer[j].doc \in Documents /\ importer[j].doc.key = e.key
                 /\ Writing(j) => importer[j].file # f /\ importer[j].file \in DOMAIN inodes
      BY <1>1, <1>3, <2>6
      DEF Projections!AtWork, ImportInv, ImportType, RunsDiffer, FilesKeepTheirKey, Working, Writing
    <3> QED BY <1>1, <1>4, <2>1, <2>2, <2>4, <3>1 DEF Undisturbed, Writing
  <2> QED BY <2>5, <2>6
<1> QED BY <1>1, <1>5, <1>6, <1>7
    DEF ImportInv, UndisturbedKeys, Projections!ReceiptNamesItsPacket

\* An import leaves the store as it is, and works on it no more.
LEMMA ImportLeave ==
  ASSUME ImportInv, NEW i \in Importers, Working(i),
         NEW hand, importer' = [importer EXCEPT ![i] = hand],
         \/ hand.pc = "idle"
         \/ /\ hand.pc = "receipt" /\ DOMAIN hand = HandFields
            /\ hand.doc = importer[i].doc /\ hand.run = importer[i].run,
         UNCHANGED <<names, inodes, runs, raced>>
  PROVE  (ImportType /\ RunsDiffer /\ FilesKeepTheirKey /\ UndisturbedKeys)'
<1>1. /\ DOMAIN importer' = Importers /\ importer'[i] = hand
      /\ \A j \in Importers \ {i} : importer'[j] = importer[j]
      /\ importer[i].doc \in Documents /\ importer[i].run \in 1..runs
  BY DEF ImportInv, ImportType
<1>2. ImportType'
  BY <1>1 DEF ImportInv, ImportType, Working
<1>3. RunsDiffer' /\ FilesKeepTheirKey'
  BY <1>1 DEF ImportInv, RunsDiffer, FilesKeepTheirKey, Working, Writing
<1>4. ASSUME NEW e \in Documents, e.key \notin raced' PROVE Undisturbed(e.key)'
  <2>1. Undisturbed(e.key)
    BY <1>4 DEF ImportInv, UndisturbedKeys
  <2>2. Projections!OneCore(e.key)'
        /\ \A g \in Documents : g.key = e.key => Projections!Conflicts(g)' = Projections!Conflicts(g)
    BY <2>1, StoredKept DEF Undisturbed, Projections!Held
  <2>3. ASSUME NEW j \in Projections!AtWork(e.key)'
        PROVE  /\ j \in Projections!AtWork(e.key) /\ importer'[j] = importer[j]
               /\ importer[j].doc \in Documents /\ importer[j].doc.key = e.key
    BY <1>1, <2>3 DEF Projections!AtWork, ImportInv, ImportType, Working
  <2> QED BY <2>1, <2>2, <2>3 DEF Undisturbed, Writing
<1> QED BY <1>2, <1>3, <1>4 DEF UndisturbedKeys

\* The packet gets its final name.  Where the import is undisturbed it is what was
\* written, and no stored one of its version has another core.
LEMMA ImportPublish ==
  ASSUME ImportInv, NEW i \in Importers, Projections!PublishPacket(i)
  PROVE  ImportInv'
<1> DEFINE d == importer[i].doc
           t == Projections!TmpName(d.key)
           fin == Projections!FinalName(d)
<1>1. /\ importer[i].pc = "publish" /\ Working(i) /\ Writing(i) /\ d \in Documents
      /\ i \in Projections!AtWork(d.key) /\ DOMAIN importer = Importers
      /\ DOMAIN importer[i] = HandFields
      /\ UNCHANGED <<inodes, receipts, runs, raced>>
  BY DEF Projections!PublishPacket, Projections!Busy, Projections!AtWork,
         ImportInv, ImportType, Working, Writing
<1>2. Projections!ReceiptNamesItsPacket'
  BY <1>1 DEF ImportInv, Projections!ReceiptNamesItsPacket
<1>3. CASE t \notin DOMAIN names
  <2>1. /\ importer' = [importer EXCEPT ![i].pc = "receipt", ![i].outcome = "refused:store"]
        /\ UNCHANGED names
    BY <1>3 DEF Projections!PublishPacket
  <2> DEFINE hand == [importer[i] EXCEPT !.pc = "receipt", !.outcome = "refused:store"]
  <2>2. importer' = [importer EXCEPT ![i] = hand]
    BY <1>1, <2>1
  <2>3. hand.pc = "receipt" /\ DOMAIN hand = HandFields /\ hand.doc = d /\ hand.run = importer[i].run
    BY <1>1 DEF HandFields
  <2> HIDE DEF hand
  <2> QED BY <1>1, <1>2, <2>1, <2>2, <2>3, ImportLeave DEF ImportInv
<1>4. CASE t \in DOMAIN names
  <2>1. /\ names' = [n \in (DOMAIN names \ {t}) \cup {fin} |-> IF n = fin THEN names[t] ELSE names[n]]
        /\ importer' = [importer EXCEPT ![i].pc = "receipt", ![i].path = fin]
    BY <1>4 DEF Projections!PublishPacket
  <2>2. /\ DOMAIN importer' = Importers
        /\ \A j \in Importers \ {i} : importer'[j] = importer[j]
        /\ DOMAIN importer'[i] = HandFields /\ importer'[i].pc = "receipt"
        /\ importer'[i].doc = d /\ importer'[i].run = importer[i].run
    BY <1>1, <2>1 DEF HandFields
  <2>3. /\ t.key = d.key /\ t.doc = None /\ fin.key = d.key /\ fin.doc = d /\ d # None
        /\ \A k : Projections!TmpName(k) = t => k = d.key
        /\ \A k : Projections!TmpName(k) # fin
    BY <1>1, ImportAssumption
    DEF Projections!TmpName, Projections!FinalName, Projections!ImportAssumption
  <2>4. /\ DOMAIN names' = (DOMAIN names \ {t}) \cup {fin} /\ names'[fin] = names[t]
        /\ \A n \in DOMAIN names' : n # fin => n # t /\ n \in DOMAIN names /\ names'[n] = names[n]
        /\ \A n \in DOMAIN names : n # fin /\ n # t => n \in DOMAIN names' /\ names'[n] = names[n]
    BY <2>1
  <2> HIDE DEF t, fin
  <2>5. ImportType'
    BY <1>1, <1>4, <2>2, <2>4 DEF ImportInv, ImportType, Working
  <2>6. RunsDiffer'
    BY <1>1, <2>2 DEF ImportInv, RunsDiffer, Working, Writing
  <2>7. FilesKeepTheirKey'
    <3>1. ASSUME NEW n \in DOMAIN names', NEW j \in Importers, Writing(j)',
                 names'[n] = importer'[j].file
          PROVE  n.key = importer'[j].doc.key
      BY <1>4, <2>2, <2>3, <2>4, <3>1 DEF ImportInv, FilesKeepTheirKey, Writing
    <3>2. ASSUME NEW j \in Importers, NEW k \in Importers, Writing(j)', Writing(k)',
                 importer'[j].file = importer'[k].file
          PROVE  importer'[j].doc.key = importer'[k].doc.key
      BY <2>2, <3>2 DEF ImportInv, FilesKeepTheirKey, Writing
    <3>3. ASSUME NEW m \in DOMAIN names', NEW n \in DOMAIN names', names'[m] = names'[n]
          PROVE  m = n
      BY <1>4, <2>4, <3>3 DEF ImportInv, FilesKeepTheirKey
    <3> QED BY <3>1, <3>2, <3>3 DEF FilesKeepTheirKey
  <2>8. ASSUME NEW e \in Documents, e.key \notin raced' PROVE Undisturbed(e.key)'
    <3>1. Undisturbed(e.key)
      BY <1>1, <2>8 DEF ImportInv, UndisturbedKeys
    <3>2. CASE e.key = d.key
      <4>1. \A j \in Projections!AtWork(e.key) : j = i
        BY <1>1, <3>1, <3>2 DEF Undisturbed
      <4>2. Projections!AtWork(e.key)' = {}
        BY <2>2, <4>1 DEF Projections!AtWork
      <4>3. inodes[names[t]] = Projections!Packet(d, importer[i].run)
        BY <1>1, <3>1, <3>2 DEF Undisturbed, t
      <4>4. inodes'[names'[fin]].doc = d
        BY <1>1, <2>4, <4>3 DEF Projections!Packet
      <4>5. ASSUME NEW n \in Projections!Stored(e.key)', n # fin
            PROVE  n \in Projections!Stored(e.key) /\ inodes'[names'[n]] = inodes[names[n]]
        BY <1>1, <2>4, <4>5 DEF Projections!Stored, Projections!Held
      <4>6. ASSUME NEW n \in Projections!Stored(e.key)', n # fin,
                   inodes'[names'[n]].doc.version = d.version
            PROVE  Projections!Core(inodes'[names'[n]].doc) = Projections!Core(d)
        BY <1>1, <3>1, <3>2, <4>5, <4>6 DEF Undisturbed, Projections!Conflicts
      <4>7. Projections!OneCore(e.key)
        BY <3>1 DEF Undisturbed
      <4>8. ASSUME NEW m \in Projections!Stored(e.key)', NEW n \in Projections!Stored(e.key)',
                   inodes'[names'[m]].doc.version = inodes'[names'[n]].doc.version
            PROVE  Projections!Core(inodes'[names'[m]].doc) = Projections!Core(inodes'[names'[n]].doc)
        <5>1. CASE m = fin \/ n = fin
          BY <4>4, <4>6, <4>8, <5>1
        <5>2. CASE m # fin /\ n # fin
          BY <4>5, <4>7, <4>8, <5>2 DEF Projections!OneCore
        <5> QED BY <5>1, <5>2
      <4>9. Projections!OneCore(e.key)'
        BY <4>8 DEF Projections!OneCore
      <4> QED BY <4>2, <4>9 DEF Undisturbed
    <3>3. CASE e.key # d.key
      <4>1. Projections!Held(e.key)' = Projections!Held(e.key)
        BY <2>3, <2>4, <3>3 DEF Projections!Held
      <4>2. \A n \in Projections!Held(e.key) : inodes'[names'[n]] = inodes[names[n]]
        BY <1>1, <2>3, <2>4, <3>3 DEF Projections!Held
      <4>3. Projections!OneCore(e.key)'
            /\ \A g \in Documents : g.key = e.key => Projections!Conflicts(g)' = Projections!Conflicts(g)
        BY <3>1, <4>1, <4>2, StoredKept DEF Undisturbed
      <4>4. ASSUME NEW j \in Projections!AtWork(e.key)'
            PROVE  /\ j \in Projections!AtWork(e.key) /\ importer'[j] = importer[j]
                   /\ importer[j].doc \in Documents /\ importer[j].doc.key = e.key
        BY <2>2, <4>4 DEF Projections!AtWork, ImportInv, ImportType, Working
      <4>5. Projections!TmpName(e.key) # t /\ Projections!TmpName(e.key) # fin
        BY <2>3, <3>3
      <4> QED BY <1>1, <2>4, <3>1, <4>3, <4>4, <4>5 DEF Undisturbed, Writing
    <3> QED BY <3>2, <3>3
  <2> QED BY <1>2, <2>5, <2>6, <2>7, <2>8 DEF ImportInv, UndisturbedKeys
<1> QED BY <1>3, <1>4

\* A receipt binds what is read back, and only where it is what was written.
LEMMA ImportReceipt ==
  ASSUME ImportInv, NEW i \in Importers, Projections!Receipt(i)
  PROVE  ImportInv'
<1>1. /\ Working(i) /\ UNCHANGED <<names, inodes, runs, raced>>
      /\ importer' = [importer EXCEPT ![i] = Projections!Idle]
  BY DEF Projections!Receipt, Projections!Busy, Working
<1>2. Projections!Idle.pc = "idle"
  BY DEF Projections!Idle
<1>3. PICK file : receipts' = IF Projections!Receiptable(i, file)
                              THEN receipts \cup {Projections!ReceiptOf(i, file)} ELSE receipts
  BY DEF Projections!Receipt
<1>4. ASSUME Projections!Receiptable(i, file), NEW r, r = Projections!ReceiptOf(i, file)
      PROVE  /\ r.outcome = "imported" => r.packet.what = "packet" /\ r.packet.doc = r.raw
             /\ r.packet.what = "packet" <=> r.outcome \in {"imported", "duplicate"}
  BY <1>4 DEF Projections!Receiptable, Projections!ReceiptOf, Projections!Packet, Projections!Empty
<1>5. Projections!ReceiptNamesItsPacket'
  BY <1>3, <1>4 DEF ImportInv, Projections!ReceiptNamesItsPacket
<1> QED BY <1>1, <1>2, <1>5, ImportLeave DEF ImportInv

\* A process stops with what it wrote in place.
LEMMA ImportCrash ==
  ASSUME ImportInv, NEW i \in Importers, Projections!Crash(i)
  PROVE  ImportInv'
<1>1. /\ Working(i) /\ UNCHANGED <<names, inodes, runs, raced, receipts>>
      /\ importer' = [importer EXCEPT ![i] = Projections!Idle]
  BY DEF Projections!Crash, Projections!Busy, Working
<1>2. Projections!Idle.pc = "idle"
  BY DEF Projections!Idle
<1>3. Projections!ReceiptNamesItsPacket'
  BY <1>1 DEF ImportInv, Projections!ReceiptNamesItsPacket
<1> QED BY <1>1, <1>2, <1>3, ImportLeave DEF ImportInv

\* A receipt of an import names the packet of the bytes that were presented, a
\* refusal names none, and the packets stored of one snapshot agree on its
\* immutable core unless two imports of it overlapped: for any number of importers
\* and documents, whoever stops where (projection_receipt, import_dossier_packet,
\* import_record_packet).
THEOREM ReceiptsNameTheirPackets == DocumentsSpec => []ReceiptNamesItsPacket
<1>1. DocumentsInit => DocumentImportInv
  BY ImportStart DEF DocumentsInit, DocumentImportInv
<1>2. DocumentImportInv /\ [DocumentsNext]_documentVars => DocumentImportInv'
  <2> SUFFICES ASSUME DocumentImportInv, [DocumentsNext]_documentVars, part' = "import"
               PROVE  ImportInv'
    BY DEF DocumentImportInv
  <2>1. part = "import" /\ ImportInv
    BY DEF DocumentImportInv, DocumentsNext, documentVars
  <2>2. CASE UNCHANGED documentVars
    BY <2>1, <2>2
    DEF documentVars, importVars, ImportInv, ImportType, RunsDiffer, FilesKeepTheirKey,
        UndisturbedKeys, Undisturbed, Working, Writing, Projections!ReceiptNamesItsPacket,
        Projections!AtWork, Projections!Conflicts, Projections!Stored, Projections!Held,
        Projections!OneCore
  <2>3. CASE DocumentsNext
    <3>1. PICK i \in Importers :
            \/ Projections!Begin(i) \/ Projections!OpenTmp(i) \/ Projections!WriteTmp(i)
            \/ Projections!PublishPacket(i) \/ Projections!Receipt(i) \/ Projections!Crash(i)
      BY <2>1, <2>3 DEF DocumentsNext, Projections!Next
    <3> QED BY <2>1, <3>1, ImportBegin, ImportOpen, ImportWrite, ImportPublish, ImportReceipt,
               ImportCrash
  <2> QED BY <2>2, <2>3
<1>3. DocumentImportInv => ReceiptNamesItsPacket
  BY DEF DocumentImportInv, ImportInv, ReceiptNamesItsPacket, Projections!OneCorePerSnapshot,
         UndisturbedKeys, Undisturbed
<1> QED BY <1>1, <1>2, <1>3, PTL DEF DocumentsSpec
-----------------------------------------------------------------------------
(***************************************************************************)
(* Findings exchanged with other tools.                                    *)
(***************************************************************************)
Admitted == {mf \in Manifests : Exchange!Acceptable(mf)}

ExchangeType ==
  /\ committed \in Nat
  /\ DOMAIN table = Exchange!Identities
  /\ \A k \in Exchange!Identities : table[k] # None =>
       table[k] \in Exchange!Rows /\ 1 <= table[k].last /\ table[k].last <= committed
  /\ consumer.mark \in Nat /\ consumer.mark <= committed
  /\ pruned \in Nat
  /\ DOMAIN found = Exchange!Identities
  /\ \A k \in Exchange!Identities : found[k] \subseteq 1..committed
  /\ \A k \in Exchange!Own : found[k] = {}
  /\ reading # None => reading.since = consumer.mark

\* Until the pass of a generation is written no row is of that generation, and so
\* neither is the watermark; nothing is imported meanwhile.
PassIsAhead ==
  passDue # None =>
    /\ passDue.fires \subseteq Exchanged /\ passDue.mode \in {"observed", "drill"}
    /\ inbox = None /\ consumer.mark < committed
    /\ \A k \in Exchange!Identities : table[k] # None => table[k].last < committed

\* What is left of an import are findings of a manifest that was accepted.
ImportIsAccepted ==
  inbox # None =>
    /\ committed > 0 /\ DOMAIN inbox = {"manifest", "left"}
    /\ inbox.manifest \in Admitted
    /\ inbox.left \in Seq({inbox.manifest.findings[n] : n \in DOMAIN inbox.manifest.findings})

\* The rows and what was found: a finding found in the latest generation has a row
\* of it, one that no producer sent was last seen when it was last found, and every
\* row was found or sent.
RowsAreObserved ==
  /\ \A k \in Exchange!Identities : committed \in found[k] =>
       table[k] # None /\ table[k].last = committed
  /\ \A k \in Exchanged : table[k] # None =>
       /\ table[k].source # "import" =>
            table[k].last \in found[k] /\ \A g \in found[k] : g <= table[k].last
       /\ found[k] # {} \/ k \in Exchange!Sendable
       /\ table[k].why = "host_unreachable" => found[Parent] # {} \/ Parent \in Exchange!Sendable

\* What is stored of what was found: all but what went with its generation, and
\* the latest generation does not go.
ObservationsAreKept ==
  /\ pruned <= committed /\ (passDue # None => pruned < committed)
  /\ \A k \in Exchange!Identities : observations[k] = {g \in found[k] : g > pruned}

\* The findings a manifest carries.
Carried(mf) == {mf.findings[n] : n \in DOMAIN mf.findings}
Carries(mf, k) == \E f \in Carried(mf) : f.key = k

\* Rows of producers are of accepted manifests.
OriginsAreAccepted ==
  \A k \in Exchange!Identities : table[k] # None /\ table[k].source = "import" =>
    \E mf \in Admitted : table[k].run = mf.run /\ Carries(mf, k)

ExchangeInv ==
  /\ ExchangeType /\ PassIsAhead /\ ImportIsAccepted /\ RowsAreObserved /\ ObservationsAreKept
  /\ OriginsAreAccepted
  /\ Exchange!WatermarkMissesNoFiring
DocumentExchangeInv == part = "exchange" => ExchangeInv

\* A bounded set of numbers has a largest one, and Max is it.
LEMMA MaxIsLargest ==
  ASSUME NEW n \in Nat, NEW S \in SUBSET (0..n), S # {}
  PROVE  Exchange!Max(S) \in S /\ \A y \in S : y <= Exchange!Max(S)
<1> DEFINE T == {n - x : x \in S}
<1>1. T \subseteq Nat /\ T # {}
  <2>1. \A x \in S : n - x \in Nat
    OBVIOUS
  <2> QED BY <2>1
<1>2. PICK m \in T : \A y \in T : ~(<<y, m>> \in OpToRel(<, Nat))
  BY <1>1, WFMin, NatLessThanWellFounded
<1>3. \A y \in T : m <= y
  <2>1. \A y, z \in Nat : y < z => <<y, z>> \in OpToRel(<, Nat)
    BY DEF OpToRel
  <2>2. \A y \in T : y \in Nat /\ m \in Nat /\ ~(y < m)
    BY <1>1, <1>2, <2>1
  <2> QED BY <2>2
<1>4. PICK x \in S : m = n - x
  OBVIOUS
<1>5. \A y \in S : n - x <= n - y
  BY <1>3, <1>4
<1>6. \A y \in S : x >= y
  BY <1>5
<1>7. Exchange!Max(S) \in S /\ \A y \in S : Exchange!Max(S) >= y
  BY <1>6 DEF Exchange!Max
<1> QED BY <1>7

\* The newest observation of a finding is one of them, and 0 without any.
LEMMA NewestObservation ==
  ASSUME ExchangeType, ObservationsAreKept, NEW k \in Exchange!Identities
  PROVE  /\ observations[k] = {} => Exchange!Observations(k).newest = 0
         /\ observations[k] # {} =>
              /\ Exchange!Observations(k).newest \in observations[k]
              /\ \A g \in observations[k] : g <= Exchange!Observations(k).newest
<1>1. Exchange!Observations(k).newest =
        IF observations[k] = {} THEN 0 ELSE Exchange!Max(observations[k])
  BY DEF Exchange!Observations
<1>2. committed \in Nat /\ observations[k] \in SUBSET (0..committed)
  BY DEF ExchangeType, ObservationsAreKept
<1> QED BY <1>1, <1>2, MaxIsLargest

\* Identities are findings and NQ's own rows, never both.
LEMMA IdentitiesSplit ==
  /\ Parent \in Exchanged /\ Exchange!Sendable \subseteq Exchanged
  /\ \A k \in Exchange!Own : k \notin Exchanged
  /\ \A k \in Exchange!Identities : k \in Exchanged \/ k \in Exchange!Own
  /\ \A k \in Exchanged : k \in Exchange!Identities
  /\ \A k \in Exchange!Own : k \in Exchange!Identities
  /\ \A mf \in Manifests : Exchange!Refusal(mf.run) \in Exchange!Own
                           /\ Exchange!Staleness(mf.run) \in Exchange!Own
BY ExchangeAssumption
DEF Exchange!ExchangeAssumption, Exchange!Identities, Exchange!Own, Exchange!Runs

\* What a row is after the pass of a generation.
LEMMA PassedRow ==
  ASSUME ExchangeInv, passDue # None, NEW k \in Exchange!Identities,
         NEW row, row = Exchange!Passed(table, passDue)[k]
  PROVE  /\ row # None => row \in Exchange!Rows
         /\ k \in passDue.fires =>
              /\ row # None /\ row.last = committed /\ row.why # "host_unreachable"
              /\ row.source = "import" =>
                   table[k] # None /\ table[k].source = "import" /\ row.run = table[k].run
         /\ k \notin passDue.fires /\ row # None =>
              /\ table[k] # None /\ row.last = table[k].last
              /\ row.source = table[k].source /\ row.run = table[k].run
              /\ row.absent # 0 \/ row.why # None
              /\ row.why = "host_unreachable" =>
                   \/ table[k].why = "host_unreachable"
                   \/ table[Parent] # None \/ Parent \in passDue.fires
<1> DEFINE fired(j) == IF j \in passDue.fires THEN Exchange!Fired(table[j], passDue.mode)
                       ELSE table[j]
           masked == k \in Exchanged \ {Parent} /\ Exchange!Observed(fired(Parent))
           aged == IF k \in passDue.fires THEN fired(k) ELSE Exchange!NotFired(fired(k), masked)
<1>1. row = IF k \in Exchanged THEN Exchange!Overlaid(aged, passDue.withdrawn) ELSE aged
  BY IdentitiesSplit DEF Exchange!Passed
<1>2. /\ None \notin Exchange!Rows
      /\ None # "host_unreachable" /\ None # "operator_declaration"
      /\ GoneAfter \in Nat
  BY ExchangeAssumption DEF Exchange!ExchangeAssumption
<1>3. /\ committed \in Nat /\ passDue.mode \in {"observed", "drill"}
      /\ table[k] # None => table[k] \in Exchange!Rows
  BY DEF ExchangeInv, ExchangeType, PassIsAhead
<1>4. ASSUME k \in passDue.fires
      PROVE  /\ aged \in Exchange!Rows /\ aged.last = committed /\ aged.why = None
             /\ aged.source = "import" =>
                  table[k] # None /\ table[k].source = "import" /\ aged.run = table[k].run
  <2>1. aged = Exchange!Fired(table[k], passDue.mode)
    BY <1>4
  <2>2. CASE table[k] = None
    BY <1>3, <2>1, <2>2 DEF Exchange!Fired, Exchange!NewRow, Exchange!Rows
  <2>3. CASE table[k] # None
    <3>1. aged = [table[k] EXCEPT !.last = committed, !.absent = 0, !.why = None,
                                  !.mode = passDue.mode]
      BY <2>1, <2>3 DEF Exchange!Fired
    <3> HIDE DEF aged
    <3> QED BY <1>3, <2>3, <3>1 DEF Exchange!Rows
  <2> QED BY <2>2, <2>3
<1>5. ASSUME k \notin passDue.fires, aged # None
      PROVE  /\ table[k] # None /\ aged \in Exchange!Rows /\ aged.last = table[k].last
             /\ aged.source = table[k].source /\ aged.run = table[k].run
             /\ \/ masked /\ aged.why = "host_unreachable"
                \/ aged.absent \in Nat \ {0} /\ aged.why = table[k].why
  <2>1. aged = Exchange!NotFired(table[k], masked)
    BY <1>5
  <2>2. table[k] # None
    BY <1>5, <2>1 DEF Exchange!NotFired
  <2>3. \/ masked /\ aged = [table[k] EXCEPT !.why = "host_unreachable"]
        \/ aged = [table[k] EXCEPT !.absent = @ + 1]
    BY <1>5, <2>1, <2>2 DEF Exchange!NotFired
  <2> HIDE DEF aged, masked
  <2> QED BY <1>3, <2>2, <2>3 DEF Exchange!Rows
<1>6. masked => table[Parent] # None \/ Parent \in passDue.fires
  BY DEF Exchange!Observed
<1> HIDE DEF aged, masked
<1>7. row # None => aged # None
  BY <1>1 DEF Exchange!Overlaid
<1>8. ASSUME aged \in Exchange!Rows
      PROVE  /\ row # None /\ row \in Exchange!Rows /\ row.last = aged.last /\ row.absent = aged.absent
             /\ row.source = aged.source /\ row.run = aged.run
             /\ \/ row.why = aged.why \/ row.why = "operator_declaration"
                \/ aged.why = "operator_declaration" /\ row.why = None
  <2>1. aged # None
    BY <1>2, <1>8
  <2>2. \/ row = aged
        \/ row = [aged EXCEPT !.why = "operator_declaration"]
        \/ aged.why = "operator_declaration" /\ row = [aged EXCEPT !.why = None]
    BY <1>1, <2>1 DEF Exchange!Overlaid
  <2>3. row \in Exchange!Rows /\ row.last = aged.last /\ row.absent = aged.absent
        /\ row.source = aged.source /\ row.run = aged.run
    BY <1>8, <2>2 DEF Exchange!Rows
  <2>4. \/ row.why = aged.why \/ row.why = "operator_declaration"
        \/ aged.why = "operator_declaration" /\ row.why = None
    BY <1>8, <2>2 DEF Exchange!Rows
  <2> QED BY <1>2, <2>3, <2>4
<1>9. CASE k \in passDue.fires
  BY <1>2, <1>4, <1>8, <1>9
<1>10. CASE k \notin passDue.fires
  <2> SUFFICES ASSUME row # None
               PROVE  /\ row \in Exchange!Rows
                      /\ table[k] # None /\ row.last = table[k].last
                      /\ row.source = table[k].source /\ row.run = table[k].run
                      /\ row.absent # 0 \/ row.why # None
                      /\ row.why = "host_unreachable" =>
                           \/ table[k].why = "host_unreachable"
                           \/ table[Parent] # None \/ Parent \in passDue.fires
    BY <1>10
  <2>1. aged # None /\ aged \in Exchange!Rows
    BY <1>5, <1>7, <1>10
  <2>2. row.why = "host_unreachable" => aged.why = "host_unreachable"
    BY <1>2, <1>8, <2>1
  <2> QED BY <1>2, <1>5, <1>6, <1>8, <1>10, <2>1, <2>2
<1> QED BY <1>9, <1>10

\* Nothing is published, sent or asked for.
LEMMA ExchangeStart == Exchange!ExchangeInit => ExchangeInv
<1> SUFFICES ASSUME Exchange!ExchangeInit PROVE ExchangeInv
  OBVIOUS
<1>1. /\ committed = 0 /\ passDue = None /\ inbox = None /\ reading = None /\ pruned = 0
      /\ table = [k \in Exchange!Identities |-> None]
      /\ consumer.mark = 0
      /\ observations = [k \in Exchange!Identities |-> {}]
      /\ found = [k \in Exchange!Identities |-> {}]
  BY DEF Exchange!ExchangeInit
<1>2. ExchangeType
  BY <1>1, IdentitiesSplit DEF ExchangeType
<1>3. PassIsAhead /\ ImportIsAccepted /\ RowsAreObserved /\ OriginsAreAccepted /\ ObservationsAreKept
  BY <1>1, IdentitiesSplit
  DEF PassIsAhead, ImportIsAccepted, RowsAreObserved, OriginsAreAccepted, ObservationsAreKept
<1>4. Exchange!WatermarkMissesNoFiring
  BY <1>1 DEF Exchange!WatermarkMissesNoFiring, Exchange!Observed
<1> QED BY <1>2, <1>3, <1>4 DEF ExchangeInv

\* A generation is committed: every row and the watermark are of an earlier one.
LEMMA ExchangePublish ==
  ASSUME ExchangeInv, Exchange!PublishBatch
  PROVE  ExchangeInv'
<1>1. /\ committed' = committed + 1 /\ inbox = None
      /\ UNCHANGED <<table, inbox, reading, consumer, observations, pruned, found>>
  BY DEF Exchange!PublishBatch
<1>2. passDue'.fires \subseteq Exchanged /\ passDue'.mode \in {"observed", "drill"}
  BY DEF Exchange!PublishBatch
<1>3. \A k \in Exchange!Identities : table[k] # None =>
        table[k].last \in Nat /\ 1 <= table[k].last /\ table[k].last <= committed
  BY DEF ExchangeInv, ExchangeType, Exchange!Rows
<1>4. /\ ExchangeType' /\ PassIsAhead' /\ ImportIsAccepted' /\ OriginsAreAccepted'
  <2>1. committed \in Nat /\ consumer.mark \in Nat /\ consumer.mark <= committed
    BY DEF ExchangeInv, ExchangeType
  <2>2. ExchangeType'
    BY <1>1, <1>3, <2>1 DEF ExchangeInv, ExchangeType
  <2>3. PassIsAhead'
    BY <1>1, <1>2, <1>3, <2>1 DEF PassIsAhead
  <2> QED BY <1>1, <2>2, <2>3 DEF ExchangeInv, ImportIsAccepted, OriginsAreAccepted
<1>5. RowsAreObserved' /\ ObservationsAreKept'
  BY <1>1 DEF ExchangeInv, ExchangeType, RowsAreObserved, ObservationsAreKept
<1>6. Exchange!WatermarkMissesNoFiring'
  BY <1>1 DEF ExchangeInv, Exchange!WatermarkMissesNoFiring
<1> QED BY <1>4, <1>5, <1>6 DEF ExchangeInv

\* The oldest generations go: no row changes, and of what was found what is newer
\* stays.
LEMMA ExchangePrune ==
  ASSUME ExchangeInv, Exchange!Prune
  PROVE  ExchangeInv'
<1>1. /\ committed - pruned > Kept /\ pruned' = committed - Kept
      /\ UNCHANGED <<committed, passDue, table, inbox, reading, consumer, found>>
      /\ \A k \in Exchange!Identities : observations'[k] = {g \in observations[k] : g > pruned'}
  BY DEF Exchange!Prune
<1>2. pruned' \in Nat /\ pruned <= pruned' /\ pruned' < committed
  BY <1>1, ExchangeAssumption DEF Exchange!ExchangeAssumption, ExchangeInv, ExchangeType
<1>3. ExchangeType' /\ PassIsAhead' /\ ImportIsAccepted'
  BY <1>1, <1>2 DEF ExchangeInv, ExchangeType, PassIsAhead, ImportIsAccepted
<1>4. RowsAreObserved' /\ OriginsAreAccepted'
  BY <1>1 DEF ExchangeInv, RowsAreObserved, OriginsAreAccepted
<1>5. ObservationsAreKept'
  <2>1. ASSUME NEW k \in Exchange!Identities
        PROVE  observations'[k] = {g \in found[k] : g > pruned'}
    <3>1. observations[k] = {g \in found[k] : g > pruned} /\ found[k] \subseteq Nat
      BY DEF ExchangeInv, ExchangeType, ObservationsAreKept
    <3>2. \A g \in found[k] : g > pruned' => g > pruned
      BY <1>2, <3>1 DEF ExchangeInv, ExchangeType
    <3> QED BY <1>1, <3>1, <3>2
  <2> QED BY <1>1, <1>2, <2>1 DEF ObservationsAreKept, ExchangeInv, ExchangeType
<1>6. Exchange!WatermarkMissesNoFiring'
  BY <1>1 DEF ExchangeInv, Exchange!WatermarkMissesNoFiring
<1> QED BY <1>3, <1>4, <1>5, <1>6 DEF ExchangeInv

\* The pass: what fires is newer than the watermark, what does not fire is absent
\* or suppressed.
LEMMA ExchangePass ==
  ASSUME ExchangeInv, Exchange!UpdateWarningState
  PROVE  ExchangeInv'
<1>1. /\ passDue # None /\ passDue' = None /\ table' = Exchange!Passed(table, passDue)
      /\ UNCHANGED <<committed, inbox, reading, consumer, pruned>>
      /\ DOMAIN found' = Exchange!Identities
      /\ \A k \in Exchange!Identities : found'[k] =
           IF k \in passDue.fires THEN found[k] \cup {committed} ELSE found[k]
  BY DEF Exchange!UpdateWarningState, Exchange!Written
<1>0. \A k \in Exchange!Identities : observations'[k] =
        IF k \in passDue.fires THEN observations[k] \cup {committed} ELSE observations[k]
  BY DEF Exchange!UpdateWarningState, Exchange!Written
<1>2. /\ passDue.fires \subseteq Exchanged /\ inbox = None
      /\ consumer.mark \in Nat /\ consumer.mark < committed /\ committed \in Nat
      /\ \A k \in Exchange!Identities : table[k] # None =>
           table[k].last < committed /\ table[k].last \in Nat
           /\ 1 <= table[k].last
  BY <1>1 DEF ExchangeInv, ExchangeType, PassIsAhead, Exchange!Rows
<1>3. ASSUME NEW k \in Exchange!Identities
      PROVE  /\ table'[k] # None => table'[k] \in Exchange!Rows
             /\ k \in passDue.fires =>
                  /\ table'[k] # None /\ table'[k].last = committed /\ table'[k].why # "host_unreachable"
                  /\ table'[k].source = "import" =>
                       table[k] # None /\ table[k].source = "import" /\ table'[k].run = table[k].run
             /\ k \notin passDue.fires /\ table'[k] # None =>
                  /\ table[k] # None /\ table'[k].last = table[k].last
                  /\ table'[k].source = table[k].source /\ table'[k].run = table[k].run
                  /\ table'[k].absent # 0 \/ table'[k].why # None
                  /\ table'[k].why = "host_unreachable" =>
                       \/ table[k].why = "host_unreachable"
                       \/ table[Parent] # None \/ Parent \in passDue.fires
  BY <1>1, PassedRow
<1>4. ExchangeType'
  <2>1. DOMAIN table' = Exchange!Identities
    BY <1>1 DEF Exchange!Passed
  <2>2. \A k \in Exchange!Identities : table'[k] # None =>
          table'[k] \in Exchange!Rows /\ 1 <= table'[k].last /\ table'[k].last <= committed
    BY <1>2, <1>3
  <2>3. \A k \in Exchange!Identities : found'[k] \subseteq 1..committed
    BY <1>1, <1>2 DEF ExchangeInv, ExchangeType
  <2>4. \A k \in Exchange!Own : found'[k] = {}
    BY <1>1, <1>2, IdentitiesSplit DEF ExchangeInv, ExchangeType
  <2> QED BY <1>1, <2>1, <2>2, <2>3, <2>4 DEF ExchangeInv, ExchangeType
<1>5. PassIsAhead' /\ ImportIsAccepted'
  BY <1>1, <1>2 DEF PassIsAhead, ImportIsAccepted
<1>6. RowsAreObserved'
  <2>1. ASSUME NEW k \in Exchange!Identities, committed \in found'[k]
        PROVE  table'[k] # None /\ table'[k].last = committed
    BY <1>1, <1>2, <1>3, <2>1 DEF ExchangeInv, RowsAreObserved
  <2>2. ASSUME NEW k \in Exchanged, table'[k] # None, k \in passDue.fires
        PROVE  /\ table'[k].last \in found'[k] /\ \A g \in found'[k] : g <= table'[k].last
               /\ table'[k].why # "host_unreachable"
    BY <1>1, <1>2, <1>3, <2>2, IdentitiesSplit DEF ExchangeInv, ExchangeType
  <2>3. ASSUME NEW k \in Exchanged, table'[k] # None, k \notin passDue.fires
        PROVE  /\ table'[k].source # "import" =>
                    table'[k].last \in found'[k] /\ \A g \in found'[k] : g <= table'[k].last
               /\ found'[k] # {} \/ k \in Exchange!Sendable
               /\ table'[k].why = "host_unreachable" =>
                    found'[Parent] # {} \/ Parent \in Exchange!Sendable
    <3>1. k \in Exchange!Identities /\ Parent \in Exchange!Identities /\ Parent \in Exchanged
          /\ found'[k] = found[k] /\ table[k] # None
      BY <1>1, <1>3, <2>3, IdentitiesSplit
    <3>2. found[Parent] # {} \/ Parent \in passDue.fires => found'[Parent] # {}
      BY <1>1, <3>1
    <3> QED BY <1>3, <2>3, <3>1, <3>2 DEF ExchangeInv, RowsAreObserved
  <2> QED BY <1>1, <2>1, <2>2, <2>3 DEF RowsAreObserved
<1>7. OriginsAreAccepted' /\ ObservationsAreKept'
  <2>1. OriginsAreAccepted'
    BY <1>1, <1>3 DEF ExchangeInv, OriginsAreAccepted
  <2>2. pruned < committed /\ pruned \in Nat
        /\ \A k \in Exchange!Identities : observations[k] = {g \in found[k] : g > pruned}
    BY <1>1 DEF ExchangeInv, ExchangeType, ObservationsAreKept
  <2>3. \A k \in Exchange!Identities : observations'[k] = {g \in found'[k] : g > pruned}
    BY <1>0, <1>1, <1>2, <2>2
  <2> QED BY <1>1, <1>2, <2>1, <2>2, <2>3 DEF ObservationsAreKept
<1>8. Exchange!WatermarkMissesNoFiring'
  <2>1. ASSUME NEW k \in Exchange!Identities, Exchange!Observed(table[k])', table'[k].absent = 0,
               table'[k].last <= consumer.mark
        PROVE  FALSE
    BY <1>2, <1>3, <2>1 DEF Exchange!Observed
  <2> QED BY <1>1, <2>1 DEF Exchange!WatermarkMissesNoFiring
<1> QED BY <1>4, <1>5, <1>6, <1>7, <1>8 DEF ExchangeInv

\* A row of NQ's own about a producer is no finding and has no observation.
LEMMA ExchangeOwnRow ==
  ASSUME ExchangeInv, NEW k \in Exchange!Own, committed > 0, passDue = None,
         table' = [table EXCEPT ![k] = Exchange!OwnRow(@)],
         UNCHANGED <<committed, passDue, reading, consumer, observations, pruned, found>>
  PROVE  /\ (ExchangeType /\ PassIsAhead /\ RowsAreObserved /\ ObservationsAreKept)'
         /\ Exchange!WatermarkMissesNoFiring'
         /\ \A j \in Exchange!Identities : table'[j] # None /\ table'[j].source = "import" =>
              \E mf \in Admitted : table'[j].run = mf.run /\ Carries(mf, j)
<1>1. /\ k \in Exchange!Identities /\ k \notin Exchanged /\ DOMAIN table' = Exchange!Identities
      /\ table'[k] = Exchange!OwnRow(table[k])
      /\ \A j \in Exchange!Identities : j # k => table'[j] = table[j]
  BY IdentitiesSplit DEF ExchangeInv, ExchangeType
<1>2. /\ None \notin Exchange!Rows /\ committed \in Nat /\ found[k] = {}
      /\ table[k] # None => table[k] \in Exchange!Rows
  BY <1>1, ExchangeAssumption DEF Exchange!ExchangeAssumption, ExchangeInv, ExchangeType
<1>3. /\ table'[k] \in Exchange!Rows /\ table'[k].last = committed
      /\ table'[k].source = "import" =>
           table[k] # None /\ table[k].source = "import" /\ table'[k].run = table[k].run
  <2>1. CASE table[k] = None
    BY <1>1, <1>2, <2>1 DEF Exchange!OwnRow, Exchange!NewRow, Exchange!Rows
  <2>2. CASE table[k] # None
    <3>1. table'[k] = [table[k] EXCEPT !.last = committed]
      BY <1>1, <2>2 DEF Exchange!OwnRow
    <3> QED BY <1>2, <2>2, <3>1 DEF Exchange!Rows
  <2> QED BY <2>1, <2>2
<1>4. ExchangeType'
  BY <1>1, <1>2, <1>3 DEF ExchangeInv, ExchangeType
<1>5. PassIsAhead'
  BY DEF PassIsAhead
<1>6. RowsAreObserved' /\ ObservationsAreKept'
  BY <1>1, <1>2, <1>3, IdentitiesSplit DEF ExchangeInv, RowsAreObserved, ObservationsAreKept
<1>7. Exchange!WatermarkMissesNoFiring'
  <2> SUFFICES ASSUME NEW j \in Exchange!Identities, Exchange!Observed(table[j])',
                      (table[j].absent = 0)', (table[j].last \in found[j])',
                      (table[j].last <= consumer.mark)'
               PROVE  consumer'.has[j] = table'[j].last
    BY DEF Exchange!WatermarkMissesNoFiring
  <2>1. j # k
    BY <1>2
  <2> QED BY <1>1, <2>1 DEF ExchangeInv, Exchange!WatermarkMissesNoFiring, Exchange!Observed
<1>8. \A j \in Exchange!Identities : table'[j] # None /\ table'[j].source = "import" =>
        \E mf \in Admitted : table'[j].run = mf.run /\ Carries(mf, j)
  BY <1>1, <1>3 DEF ExchangeInv, OriginsAreAccepted
<1> QED BY <1>4, <1>5, <1>6, <1>7, <1>8

\* A manifest is refused, an import begins, ends or stops.
LEMMA ExchangeRefuse ==
  ASSUME ExchangeInv, Exchange!IngestRefuse
  PROVE  ExchangeInv'
<1>1. PICK mf \in Manifests :
        /\ ~Exchange!Acceptable(mf)
        /\ table' = [table EXCEPT ![Exchange!Refusal(mf.run)] = Exchange!OwnRow(@)]
  BY DEF Exchange!IngestRefuse
<1>2. /\ committed > 0 /\ passDue = None
      /\ UNCHANGED <<committed, passDue, inbox, reading, consumer, observations, pruned, found>>
  BY DEF Exchange!IngestRefuse
<1>3. Exchange!Refusal(mf.run) \in Exchange!Own
  BY IdentitiesSplit
<1>4. /\ (ExchangeType /\ PassIsAhead /\ RowsAreObserved /\ ObservationsAreKept)'
      /\ Exchange!WatermarkMissesNoFiring'
      /\ \A j \in Exchange!Identities : table'[j] # None /\ table'[j].source = "import" =>
           \E other \in Admitted : table'[j].run = other.run /\ Carries(other, j)
  BY <1>1, <1>2, <1>3, ExchangeOwnRow
<1>5. ImportIsAccepted'
  BY <1>2 DEF ExchangeInv, ImportIsAccepted
<1> QED BY <1>4, <1>5 DEF ExchangeInv, OriginsAreAccepted

\* An ingestion that begins, stops or ends, and an export that begins, leave the
\* rows as they are.
LEMMA ExchangeEnds ==
  ASSUME ExchangeInv,
         Exchange!IngestBegin \/ Exchange!IngestEnd \/ Exchange!IngestStops \/ Exchange!ExportBegin
  PROVE  ExchangeInv'
<1>1. CASE table' = table /\ UNCHANGED <<committed, passDue, consumer, observations, pruned, found>>
      /\ ImportIsAccepted' /\ (passDue # None => inbox' = None)
      /\ (reading' # None => reading'.since = consumer.mark)
  <2>1. ExchangeType' /\ PassIsAhead'
    BY <1>1 DEF ExchangeInv, ExchangeType, PassIsAhead
  <2>2. RowsAreObserved' /\ OriginsAreAccepted' /\ ObservationsAreKept'
    BY <1>1 DEF ExchangeInv, RowsAreObserved, OriginsAreAccepted, ObservationsAreKept
  <2>3. Exchange!WatermarkMissesNoFiring'
    BY <1>1 DEF ExchangeInv, Exchange!WatermarkMissesNoFiring
  <2> QED BY <1>1, <2>1, <2>2, <2>3 DEF ExchangeInv
<1>2. CASE Exchange!IngestBegin
  <2>1. PICK mf \in Manifests :
          Exchange!Acceptable(mf) /\ inbox' = [manifest |-> mf, left |-> mf.findings]
    BY <1>2 DEF Exchange!IngestBegin
  <2>2. mf.findings \in Seq({mf.findings[n] : n \in DOMAIN mf.findings})
    BY ExchangeAssumption DEF Exchange!ExchangeAssumption, Exchange!Range
  <2>3. committed' > 0 /\ passDue = None
        /\ UNCHANGED <<committed, passDue, table, reading, consumer, observations, pruned, found>>
    BY <1>2 DEF Exchange!IngestBegin
  <2>4. ImportIsAccepted'
    BY <2>1, <2>2, <2>3 DEF ImportIsAccepted, Admitted
  <2> QED BY <1>1, <2>3, <2>4 DEF ExchangeInv, ExchangeType
<1>3. CASE Exchange!IngestStops
  <2>1. inbox' = None
        /\ UNCHANGED <<committed, passDue, table, reading, consumer, observations, pruned, found>>
    BY <1>3 DEF Exchange!IngestStops
  <2> QED BY <1>1, <2>1 DEF ExchangeInv, ExchangeType, ImportIsAccepted
<1>4. CASE Exchange!ExportBegin
  <2>1. reading'.since = consumer.mark
        /\ UNCHANGED <<committed, passDue, table, inbox, consumer, observations, pruned, found>>
    BY <1>4 DEF Exchange!ExportBegin
  <2> QED BY <1>1, <2>1 DEF ExchangeInv, PassIsAhead, ImportIsAccepted
<1>5. CASE Exchange!IngestEnd
  <2>1. /\ inbox # None /\ inbox' = None
        /\ UNCHANGED <<committed, passDue, reading, consumer, observations, pruned, found>>
        /\ \/ table' = [table EXCEPT ![Exchange!Staleness(inbox.manifest.run)] = Exchange!OwnRow(@)]
           \/ table' = table
    BY <1>5 DEF Exchange!IngestEnd
  <2>2. ImportIsAccepted'
    BY <2>1 DEF ImportIsAccepted
  <2>3. CASE table' = table
    BY <1>1, <2>1, <2>2, <2>3 DEF ExchangeInv, ExchangeType
  <2>4. CASE table' = [table EXCEPT ![Exchange!Staleness(inbox.manifest.run)] = Exchange!OwnRow(@)]
    <3>1. passDue = None /\ committed > 0 /\ inbox.manifest \in Manifests
      BY <2>1 DEF ExchangeInv, PassIsAhead, ImportIsAccepted, Admitted
    <3>2. Exchange!Staleness(inbox.manifest.run) \in Exchange!Own
      BY <3>1, IdentitiesSplit
    <3>3. /\ (ExchangeType /\ PassIsAhead /\ RowsAreObserved /\ ObservationsAreKept)'
          /\ Exchange!WatermarkMissesNoFiring'
          /\ \A j \in Exchange!Identities : table'[j] # None /\ table'[j].source = "import" =>
               \E mf \in Admitted : table'[j].run = mf.run /\ Carries(mf, j)
      BY <2>1, <2>4, <3>1, <3>2, ExchangeOwnRow
    <3> QED BY <2>1, <2>2, <3>3 DEF ExchangeInv, OriginsAreAccepted
  <2> QED BY <2>1, <2>3, <2>4
<1> QED BY <1>2, <1>3, <1>4, <1>5

\* A finding is inserted as of the latest generation.  If its pass found it too,
\* the row is of that generation already and stays as visible as it was.
LEMMA ExchangeInsert ==
  ASSUME ExchangeInv, Exchange!IngestInsert
  PROVE  ExchangeInv'
<1> DEFINE mf == inbox.manifest
           f == Head(inbox.left)
           carried == Carried(mf)
<1>1. /\ inbox # None /\ inbox.left # <<>>
      /\ table' = [table EXCEPT ![f.key] = Exchange!Imported(@, mf, f)]
      /\ inbox' = [inbox EXCEPT !.left = Tail(@)]
      /\ UNCHANGED <<committed, passDue, reading, consumer, observations, pruned, found>>
  BY DEF Exchange!IngestInsert
<1>2. /\ committed > 0 /\ committed \in Nat /\ DOMAIN inbox = {"manifest", "left"}
      /\ mf \in Manifests /\ mf \in Admitted /\ Exchange!Acceptable(mf)
      /\ inbox.left \in Seq(carried) /\ passDue = None
  BY <1>1 DEF ExchangeInv, ExchangeType, PassIsAhead, ImportIsAccepted, Admitted, Carried
<1>3. f \in carried /\ Tail(inbox.left) \in Seq(carried)
  BY <1>1, <1>2
<1>4. f.key \in Exchange!Sendable /\ Carries(mf, f.key)
  BY <1>2, <1>3 DEF Exchange!Sendable, Carries, Carried
<1>5. f.mode \in Modes \cup {None}
  BY <1>2, <1>3 DEF Exchange!Acceptable, Carried
<1>6. PICK k \in Exchanged : k = f.key /\ k \in Exchange!Sendable /\ k \in Exchange!Identities
                             /\ Carries(mf, k)
  BY <1>4, IdentitiesSplit
<1>7. PICK row : row = Exchange!Imported(table[k], mf, f)
  OBVIOUS
<1>8. /\ DOMAIN table' = Exchange!Identities /\ table'[k] = row
      /\ \A j \in Exchange!Identities : j # k => table'[j] = table[j]
  BY <1>1, <1>6, <1>7 DEF ExchangeInv, ExchangeType
<1>9. ImportIsAccepted'
  BY <1>1, <1>2, <1>3 DEF ImportIsAccepted, Carried
<1>10. /\ None \notin Exchange!Rows /\ mf.run \in Exchange!Runs
       /\ table[k] # None => table[k] \in Exchange!Rows
  BY <1>2, <1>6, ExchangeAssumption
  DEF Exchange!ExchangeAssumption, Exchange!Runs, ExchangeInv, ExchangeType
<1> HIDE DEF f, mf, carried
<1>11. /\ row \in Exchange!Rows /\ row.last = committed /\ row.source = "import" /\ row.run = mf.run
       /\ IF table[k] = None THEN row.why = None
          ELSE row.why = table[k].why /\ row.absent = table[k].absent
  <2>1. CASE table[k] = None
    BY <1>2, <1>5, <1>7, <1>10, <2>1 DEF Exchange!Imported, Exchange!NewRow, Exchange!Rows
  <2>2. CASE table[k] # None
    <3> DEFINE mode == IF f.mode = None THEN "observed" ELSE f.mode
    <3>1. row = [table[k] EXCEPT !.last = committed, !.source = "import", !.run = mf.run, !.mode = mode]
      BY <1>7, <2>2 DEF Exchange!Imported
    <3>2. mode \in Modes \cup {"observed", "drill"}
      BY <1>5
    <3> HIDE DEF mode
    <3> QED BY <1>2, <1>10, <2>2, <3>1, <3>2 DEF Exchange!Rows
  <2> QED BY <2>1, <2>2
<1>12. None # "host_unreachable"
  BY ExchangeAssumption DEF Exchange!ExchangeAssumption
<1>13. ExchangeType'
  BY <1>1, <1>2, <1>8, <1>11 DEF ExchangeInv, ExchangeType
<1>14. PassIsAhead'
  BY <1>1, <1>2 DEF PassIsAhead
<1>15. RowsAreObserved'
  BY <1>1, <1>6, <1>8, <1>10, <1>11, <1>12, IdentitiesSplit DEF ExchangeInv, RowsAreObserved
<1>16. OriginsAreAccepted' /\ ObservationsAreKept'
  BY <1>1, <1>2, <1>6, <1>8, <1>11 DEF ExchangeInv, OriginsAreAccepted, ObservationsAreKept
<1>17. Exchange!WatermarkMissesNoFiring'
  <2> SUFFICES ASSUME NEW j \in Exchange!Identities, Exchange!Observed(table[j])',
                      (table[j].absent = 0)', (table[j].last \in found[j])',
                      (table[j].last <= consumer.mark)'
               PROVE  consumer'.has[j] = table'[j].last
    BY DEF Exchange!WatermarkMissesNoFiring
  <2>1. CASE j = k
    <3>1. committed \in found[j]
      BY <1>1, <1>8, <1>11, <2>1
    <3>2. table[j] # None /\ table[j].last = committed
      BY <3>1 DEF ExchangeInv, RowsAreObserved
    <3>3. table'[j].why = table[j].why /\ table'[j].absent = table[j].absent
          /\ table'[j].last = table[j].last
      BY <1>8, <1>11, <2>1, <3>2
    <3> QED BY <1>1, <3>2, <3>3
        DEF ExchangeInv, Exchange!WatermarkMissesNoFiring, Exchange!Observed
  <2>2. CASE j # k
    BY <1>1, <1>8, <2>2 DEF ExchangeInv, Exchange!WatermarkMissesNoFiring, Exchange!Observed
  <2> QED BY <2>1, <2>2
<1> QED BY <1>9, <1>13, <1>14, <1>15, <1>16, <1>17 DEF ExchangeInv

\* The rows are read: one that was not sent and is observed is no newer than the
\* watermark they were asked for with.
LEMMA ExchangeExport ==
  ASSUME ExchangeInv, Exchange!ExportRows
  PROVE  ExchangeInv'
<1> DEFINE changed == {k \in Exchange!Identities : Exchange!ChangedSince(table[k], reading)}
           lasts == {table[k].last : k \in changed}
<1>1. /\ reading # None /\ reading' = None /\ reading.since = consumer.mark
      /\ UNCHANGED <<committed, passDue, table, inbox, observations, pruned, found>>
  BY DEF Exchange!ExportRows, ExchangeInv, ExchangeType
<1>2. /\ consumer'.mark = Exchange!Max({consumer.mark} \cup lasts)
      /\ \A k \in Exchange!Identities :
           consumer'.has[k] = IF k \in changed THEN table[k].last ELSE consumer.has[k]
  <2> DEFINE shots == [k \in changed |-> Exchange!Snapshot(k)]
  <2>1. consumer' = [mark |-> Exchange!Max({consumer.mark} \cup {shots[k].last : k \in changed}),
                     has |-> [k \in Exchange!Identities |->
                                IF k \in changed THEN shots[k].last ELSE consumer.has[k]]]
    BY DEF Exchange!ExportRows
  <2>2. \A k \in changed : shots[k].last = table[k].last
    BY DEF Exchange!Snapshot
  <2>3. {shots[k].last : k \in changed} = lasts
    BY <2>2
  <2> HIDE DEF shots, changed
  <2> QED BY <2>1, <2>2, <2>3
<1>3. \A k \in changed : table[k] # None /\ table[k].last \in 0..committed
  BY DEF ExchangeInv, ExchangeType, Exchange!ChangedSince, Exchange!Rows
<1>4. committed \in Nat /\ consumer.mark \in 0..committed
  BY DEF ExchangeInv, ExchangeType
<1>5. consumer'.mark \in {consumer.mark} \cup lasts
  <2>1. {consumer.mark} \cup lasts \in SUBSET (0..committed)
    BY <1>3, <1>4
  <2>2. {consumer.mark} \cup lasts # {}
    OBVIOUS
  <2> HIDE DEF lasts
  <2> QED BY <1>2, <1>4, <2>1, <2>2, MaxIsLargest
<1>6. consumer'.mark \in Nat /\ consumer'.mark <= committed
  BY <1>3, <1>4, <1>5
<1>7. passDue # None => consumer'.mark < committed
  BY <1>3, <1>5 DEF ExchangeInv, PassIsAhead
<1>8. ExchangeType' /\ PassIsAhead' /\ ImportIsAccepted'
  BY <1>1, <1>6, <1>7 DEF ExchangeInv, ExchangeType, PassIsAhead, ImportIsAccepted
<1>9. RowsAreObserved' /\ OriginsAreAccepted' /\ ObservationsAreKept'
  BY <1>1 DEF ExchangeInv, RowsAreObserved, OriginsAreAccepted, ObservationsAreKept
<1>10. Exchange!WatermarkMissesNoFiring'
  <2> SUFFICES ASSUME NEW k \in Exchange!Identities, Exchange!Observed(table[k]),
                      table[k].absent = 0, table[k].last \in found[k], k \notin changed
               PROVE  consumer.has[k] = table[k].last
    BY <1>1, <1>2 DEF Exchange!WatermarkMissesNoFiring, Exchange!Observed
  <2>1. table[k] # None /\ table[k].why = None /\ table[k].last \in Nat
    BY DEF Exchange!Observed, ExchangeInv, ExchangeType, Exchange!Rows
  <2>2. table[k].last <= consumer.mark
    BY <1>1, <1>4, <2>1 DEF Exchange!ChangedSince
  <2> QED BY <2>2 DEF ExchangeInv, Exchange!WatermarkMissesNoFiring
<1> QED BY <1>8, <1>9, <1>10 DEF ExchangeInv

\* What an export tells of one finding agrees with itself.
LEMMA SnapshotsAgree ==
  ASSUME ExchangeInv
  PROVE  Exchange!SnapshotAgrees
<1>1. SUFFICES ASSUME NEW k \in Exchanged, table[k] # None
               PROVE  /\ Exchange!Snapshot(k).origin = None =>
                           Exchange!Snapshot(k).observations.newest =
                             IF Exchange!Snapshot(k).last > pruned THEN Exchange!Snapshot(k).last ELSE 0
                      /\ Exchange!Snapshot(k).condition = "open" <=>
                           Exchange!ChangedSince(table[k], [since |-> 0, suppressed |-> FALSE])
                      /\ Exchange!Snapshot(k).admissibility.state = "suppressed_by_ancestor" =>
                           /\ found[Parent] # {} \/ Parent \in Exchange!Sendable
                           /\ Exchange!Snapshot(k).admissibility.ancestor # None =>
                                Exchange!Snapshot(Parent).condition = "open"
  BY DEF Exchange!SnapshotAgrees
<1>2. /\ Exchange!Snapshot(k).origin = IF table[k].source = "import" THEN table[k].run ELSE None
      /\ Exchange!Snapshot(k).observations = Exchange!Observations(k)
      /\ Exchange!Snapshot(k).last = table[k].last
      /\ Exchange!Snapshot(k).condition = Exchange!ConditionState(table[k])
      /\ Exchange!Snapshot(k).admissibility = Exchange!Admissibility(table[k])
      /\ Exchange!Snapshot(Parent).condition = Exchange!ConditionState(table[Parent])
  BY DEF Exchange!Snapshot
<1>3. /\ k \in Exchange!Identities /\ Parent \in Exchange!Identities
      /\ table[k] \in Exchange!Rows /\ 1 <= table[k].last /\ table[k].last \in Nat
      /\ table[k].why \in {None, "host_unreachable", "operator_declaration"}
      /\ None # "host_unreachable" /\ None # "operator_declaration" /\ None \notin Exchange!Runs
  BY <1>1, IdentitiesSplit, ExchangeAssumption
  DEF Exchange!ExchangeAssumption, ExchangeInv, ExchangeType, Exchange!Rows
<1>4. ASSUME Exchange!Snapshot(k).origin = None
      PROVE  Exchange!Observations(k).newest = IF table[k].last > pruned THEN table[k].last ELSE 0
  <2>1. table[k].source # "import"
    BY <1>1, <1>2, <1>3, <1>4 DEF ExchangeInv, OriginsAreAccepted, Exchange!Runs, Admitted
  <2>2. table[k].last \in found[k] /\ \A g \in found[k] : g <= table[k].last
    BY <1>1, <2>1 DEF ExchangeInv, RowsAreObserved
  <2>3. /\ observations[k] = {g \in found[k] : g > pruned} /\ found[k] \subseteq Nat /\ pruned \in Nat
        /\ ExchangeType /\ ObservationsAreKept
    BY <1>3 DEF ExchangeInv, ExchangeType, ObservationsAreKept
  <2>4. CASE table[k].last > pruned
    <3>1. table[k].last \in observations[k]
      BY <2>2, <2>3, <2>4
    <3>2. /\ Exchange!Observations(k).newest \in observations[k]
          /\ table[k].last <= Exchange!Observations(k).newest
      BY <1>3, <2>3, <3>1, NewestObservation
    <3> QED BY <1>3, <2>2, <2>3, <2>4, <3>2
  <2>5. CASE ~(table[k].last > pruned)
    <3>1. \A g \in found[k] : ~(g > pruned)
      BY <1>3, <2>2, <2>3, <2>5
    <3>2. observations[k] = {}
      BY <2>3, <3>1
    <3> QED BY <1>3, <2>3, <2>5, <3>2, NewestObservation
  <2> QED BY <2>4, <2>5
<1>5. Exchange!ConditionState(table[k]) = "open" <=>
        Exchange!ChangedSince(table[k], [since |-> 0, suppressed |-> FALSE])
  BY <1>1, <1>3 DEF Exchange!ConditionState, Exchange!ChangedSince
<1>6. ASSUME Exchange!Admissibility(table[k]).state = "suppressed_by_ancestor"
      PROVE  table[k].why = "host_unreachable"
             /\ Exchange!Admissibility(table[k]).ancestor = Exchange!ResolveAncestor
  BY <1>3, <1>6 DEF Exchange!Admissibility
<1>7. table[k].why = "host_unreachable" => found[Parent] # {} \/ Parent \in Exchange!Sendable
  BY <1>1 DEF ExchangeInv, RowsAreObserved
<1>8. Exchange!ResolveAncestor # None => Exchange!ConditionState(table[Parent]) = "open"
  BY DEF Exchange!ResolveAncestor, Exchange!Observed, Exchange!ConditionState
<1> QED BY <1>2, <1>4, <1>5, <1>6, <1>7, <1>8

\* A consumer that keeps the newest last_seen_gen it got misses no finding that
\* fires, a snapshot agrees with itself whatever retention has deleted, and a
\* refused manifest leaves none of its findings: for any findings, manifests, run
\* ids, recovery windows and retention, however exports, passes, prunings and
\* imports interleave or stop (export_findings, prune, ingest_finding_import).
THEOREM WatermarksMissNoFiring == DocumentsSpec => []WatermarkMissesNoFiring
<1>1. DocumentsInit => DocumentExchangeInv
  BY ExchangeStart DEF DocumentsInit, DocumentExchangeInv
<1>2. DocumentExchangeInv /\ [DocumentsNext]_documentVars => DocumentExchangeInv'
  <2> SUFFICES ASSUME DocumentExchangeInv, [DocumentsNext]_documentVars, part' = "exchange"
               PROVE  ExchangeInv'
    BY DEF DocumentExchangeInv
  <2>1. part = "exchange" /\ ExchangeInv
    BY DEF DocumentExchangeInv, DocumentsNext, documentVars
  <2>2. CASE UNCHANGED documentVars
    BY <2>1, <2>2
    DEF documentVars, exchangeVars, ExchangeInv, ExchangeType, PassIsAhead, ImportIsAccepted,
        RowsAreObserved, ObservationsAreKept, OriginsAreAccepted,
        Exchange!WatermarkMissesNoFiring, Exchange!Observed
  <2>3. CASE DocumentsNext
    <3>1. Exchange!ExchangeNext
      BY <2>1, <2>3 DEF DocumentsNext
    <3> QED BY <2>1, <3>1, ExchangePublish, ExchangePrune, ExchangePass, ExchangeRefuse, ExchangeEnds,
               ExchangeInsert, ExchangeExport
            DEF Exchange!ExchangeNext
  <2> QED BY <2>2, <2>3
<1>3. DocumentExchangeInv => WatermarkMissesNoFiring
  <2> SUFFICES ASSUME ExchangeInv PROVE Exchange!RefusedLeavesNothing
    BY SnapshotsAgree DEF DocumentExchangeInv, ExchangeInv, WatermarkMissesNoFiring
  <2> QED BY DEF ExchangeInv, OriginsAreAccepted, Admitted, Carries, Carried,
                 Exchange!Acceptable, Exchange!RefusedLeavesNothing
<1> QED BY <1>1, <1>2, <1>3, PTL DEF DocumentsSpec
-----------------------------------------------------------------------------
(***************************************************************************)
(* The DNS probe.                                                          *)
(***************************************************************************)

DnsType ==
  /\ query \in 0..Queries /\ dnsPc \in {"idle", "sent"}
  /\ wire \subseteq [id : Ids, reply : Dns!Replies, damage : Dns!Damage]
  /\ idOf \in [1..Queries -> {Nil} \cup Ids] /\ \A q \in 1..query : idOf[q] \in Ids
  /\ open \subseteq 1..query
  /\ truth \in [1..Queries -> {Nil} \cup Dns!Replies]
  /\ DOMAIN dnsRows = 1..Queries
  /\ dnsPc = "sent" => query # 0

\* A datagram that carries the id of a probe carries what the resolver said to
\* that probe; nothing was said to a query still open, or not yet asked.
DatagramsTrue ==
  /\ \A d \in wire : \E q \in 1..query :
       d.id = idOf[q] /\ truth[q] = d.reply /\ q \notin open
  /\ \A q \in open : truth[q] = Nil
  /\ \A q \in 1..Queries : q > query => truth[q] = Nil /\ dnsRows[q] = Nil

DnsInv == DnsType /\ DatagramsTrue /\ Dns!RowTellsTheReply
ProbeDnsInv == probe = "dns" => DnsInv

\* A datagram with the id that was asked for, read as anything but an error, is
\* read as what its reply means (parse_response).
LEMMA ParsedIsMeant ==
  ASSUME NEW d, NEW id, Dns!ParseResponse(d, id) # "transport_error"
  PROVE  d.id = id /\ Dns!ParseResponse(d, id) = Dns!Meaning(d.reply)
<1>1. d.id = id
  BY DEF Dns!ParseResponse
<1>2. CASE d.reply.rcode # 0
  BY <1>2 DEF Dns!ParseResponse, Dns!Meaning
<1>3. CASE d.reply.rcode = 0 /\ d.reply.answers = {}
  BY <1>3 DEF Dns!ParseResponse, Dns!Meaning
<1>4. CASE d.reply.rcode = 0 /\ d.reply.answers # {}
  BY <1>4 DEF Dns!ParseResponse, Dns!Meaning
<1> QED BY <1>1, <1>2, <1>3, <1>4

\* Before the first query there is nothing on the wire.
LEMMA DnsInit == Dns!Init => DnsInv
BY DnsAssumption
DEF Dns!DnsAssumption, Dns!Init, DnsInv, DnsType, DatagramsTrue, Dns!RowTellsTheReply

\* A query is sent, or its failure is recorded.
LEMMA DnsSend ==
  ASSUME DnsInv, Dns!SendQuery
  PROVE  DnsInv'
<1> USE DnsAssumption DEF Dns!DnsAssumption
<1>1. query' = query + 1 /\ query + 1 \in 1..Queries /\ wire' = wire /\ truth' = truth
  BY DEF DnsInv, DnsType, Dns!SendQuery
<1>2. open' \subseteq open \cup {query + 1} /\ truth[query + 1] = Nil
  BY <1>1 DEF DnsInv, DnsType, DatagramsTrue, Dns!SendQuery
<1>0. /\ \A q \in 1..Queries : q # query + 1 => idOf'[q] = idOf[q]
      /\ idOf' \in [1..Queries -> {Nil} \cup Ids] /\ idOf'[query + 1] \in Ids
  BY <1>1 DEF DnsInv, DnsType, Dns!SendQuery
<1>3. DnsType'
  <2>1. \A q \in 1..query' : idOf'[q] \in Ids
    BY <1>0, <1>1 DEF DnsInv, DnsType
  <2> QED BY <1>0, <1>1, <1>2, <2>1 DEF DnsInv, DnsType, Dns!SendQuery
<1>4. \A q \in 1..Queries : q # query + 1 => dnsRows'[q] = dnsRows[q]
  BY DEF DnsInv, DnsType, Dns!SendQuery
<1>5. dnsRows'[query + 1] \in {Nil, "transport_error"}
  BY <1>1 DEF DnsInv, DnsType, DatagramsTrue, Dns!SendQuery
<1>6. DatagramsTrue'
  <2>1. ASSUME NEW d \in wire
        PROVE  \E q \in 1..query' : d.id = idOf'[q] /\ truth[q] = d.reply /\ q \notin open'
    <3>1. PICK q \in 1..query : d.id = idOf[q] /\ truth[q] = d.reply /\ q \notin open
      BY DEF DnsInv, DatagramsTrue
    <3>2. q \in 1..query' /\ q # query + 1 /\ idOf'[q] = idOf[q]
      BY <1>0, <1>1, <3>1 DEF DnsInv, DnsType
    <3> QED BY <1>2, <3>1, <3>2
  <2>2. \A q \in open' : truth'[q] = Nil
    BY <1>1, <1>2 DEF DnsInv, DatagramsTrue
  <2>3. \A q \in 1..Queries : q > query' => truth'[q] = Nil /\ dnsRows'[q] = Nil
    BY <1>1, <1>4 DEF DnsInv, DnsType, DatagramsTrue
  <2> QED BY <1>1, <2>1, <2>2, <2>3 DEF DatagramsTrue
<1>7. Dns!RowTellsTheReply'
  <2> SUFFICES ASSUME NEW q \in 1..Queries, dnsRows'[q] \notin {Nil, "transport_error", "timeout"}
               PROVE  \E p \in 1..q : idOf'[p] = idOf'[q] /\ truth'[p] # Nil
                                      /\ dnsRows'[q] = Dns!Meaning(truth'[p])
    BY DEF Dns!RowTellsTheReply
  <2>1. q # query + 1 /\ dnsRows'[q] = dnsRows[q] /\ ~(q > query)
    BY <1>1, <1>4, <1>5 DEF DnsInv, DnsType, DatagramsTrue
  <2>2. PICK p \in 1..q : idOf[p] = idOf[q] /\ truth[p] # Nil /\ dnsRows[q] = Dns!Meaning(truth[p])
    BY <2>1 DEF DnsInv, Dns!RowTellsTheReply
  <2>3. idOf'[p] = idOf[p] /\ idOf'[q] = idOf[q]
    BY <1>0, <1>1, <2>1 DEF DnsInv, DnsType
  <2> QED BY <1>1, <2>1, <2>2, <2>3
<1> QED BY <1>3, <1>6, <1>7 DEF DnsInv

\* The resolver answers an open query, which has no row that claims an answer.
LEMMA DnsAnswer ==
  ASSUME DnsInv, Dns!Answer
  PROVE  DnsInv'
<1> USE DnsAssumption DEF Dns!DnsAssumption
<1>1. PICK q \in open, r \in Dns!Replies, d \in Dns!Damage :
        /\ wire' = wire \cup {[id |-> idOf[q], reply |-> r, damage |-> d]}
        /\ truth' = [truth EXCEPT ![q] = r]
        /\ open' = open \ {q}
        /\ UNCHANGED <<query, idOf, dnsPc, dnsRows>>
  BY DEF Dns!Answer
<1>2. q \in 1..query /\ q \in 1..Queries /\ q \in Nat /\ truth[q] = Nil
  BY DEF DnsInv, DnsType, DatagramsTrue
<1>3. [id |-> idOf[q], reply |-> r, damage |-> d]
        \in [id : Ids, reply : Dns!Replies, damage : Dns!Damage]
  BY <1>2 DEF DnsInv, DnsType
<1>4. DnsType'
  BY <1>1, <1>2, <1>3 DEF DnsInv, DnsType
<1>5. truth'[q] = r /\ \A p \in 1..Queries : p # q => truth'[p] = truth[p]
  BY <1>1, <1>2 DEF DnsInv, DnsType
<1>6. DatagramsTrue'
  <2>1. ASSUME NEW e \in wire'
        PROVE  \E p \in 1..query' : e.id = idOf[p] /\ truth'[p] = e.reply /\ p \notin open'
    <3>1. CASE e \in wire
      <4>1. PICK p \in 1..query : e.id = idOf[p] /\ truth[p] = e.reply /\ p \notin open
        BY <3>1 DEF DnsInv, DatagramsTrue
      <4>2. p \in 1..Queries /\ p # q
        BY <4>1 DEF DnsInv, DnsType
      <4> QED BY <1>1, <1>5, <4>1, <4>2
    <3>2. CASE e = [id |-> idOf[q], reply |-> r, damage |-> d]
      BY <1>1, <1>2, <1>5, <3>2
    <3> QED BY <1>1, <2>1, <3>1, <3>2
  <2>2. \A p \in open' : truth'[p] = Nil
    BY <1>1, <1>5 DEF DnsInv, DnsType, DatagramsTrue
  <2>3. \A p \in 1..Queries : p > query' => truth'[p] = Nil /\ dnsRows'[p] = Nil
    BY <1>1, <1>2, <1>5 DEF DnsInv, DnsType, DatagramsTrue
  <2> QED BY <1>1, <2>1, <2>2, <2>3 DEF DatagramsTrue
<1>7. Dns!RowTellsTheReply'
  <2> SUFFICES ASSUME NEW t \in 1..Queries, dnsRows[t] \notin {Nil, "transport_error", "timeout"}
               PROVE  \E p \in 1..t : idOf[p] = idOf[t] /\ truth'[p] # Nil
                                      /\ dnsRows[t] = Dns!Meaning(truth'[p])
    BY <1>1 DEF Dns!RowTellsTheReply
  <2>1. PICK p \in 1..t : idOf[p] = idOf[t] /\ truth[p] # Nil /\ dnsRows[t] = Dns!Meaning(truth[p])
    BY DEF DnsInv, Dns!RowTellsTheReply
  <2>2. truth'[p] = truth[p]
    BY <1>2, <1>5, <2>1
  <2> QED BY <2>1, <2>2
<1> QED BY <1>4, <1>6, <1>7 DEF DnsInv

\* A datagram or a query gets lost.
LEMMA DnsLose ==
  ASSUME DnsInv, Dns!Loses
  PROVE  DnsInv'
<1>1. wire' \subseteq wire /\ open' \subseteq open /\ UNCHANGED <<query, idOf, dnsPc, dnsRows, truth>>
  BY DEF Dns!Loses, Dns!Lose
<1>2. DnsType'
  BY <1>1 DEF DnsInv, DnsType
<1>3. DatagramsTrue'
  BY <1>1 DEF DnsInv, DatagramsTrue
<1>4. Dns!RowTellsTheReply'
  BY <1>1 DEF DnsInv, Dns!RowTellsTheReply
<1> QED BY <1>2, <1>3, <1>4 DEF DnsInv

\* One datagram is read, or none came in time.
LEMMA DnsRow ==
  ASSUME DnsInv, Dns!Receive \/ Dns!GiveUp
  PROVE  DnsInv'
<1> USE DnsAssumption DEF Dns!DnsAssumption
<1>1. query \in 1..Queries /\ wire' \subseteq wire /\ dnsPc' = "idle"
  BY DEF DnsInv, DnsType, Dns!Receive, Dns!GiveUp
<1>2. UNCHANGED <<query, idOf, open, truth>>
  BY DEF Dns!Receive, Dns!GiveUp
<1>3. DOMAIN dnsRows' = 1..Queries /\ \A q \in 1..Queries : q # query => dnsRows'[q] = dnsRows[q]
  BY DEF DnsInv, DnsType, Dns!Receive, Dns!GiveUp, Dns!Record
<1>4. \/ dnsRows'[query] \in {"transport_error", "timeout"}
      \/ \E p \in 1..query : idOf[p] = idOf[query] /\ truth[p] # Nil
                             /\ dnsRows'[query] = Dns!Meaning(truth[p])
  <2>1. CASE Dns!GiveUp
    BY <1>1, <2>1 DEF DnsInv, DnsType, Dns!GiveUp, Dns!Record
  <2>2. CASE Dns!Receive
    <3>1. PICK d \in wire : dnsRows' = [dnsRows EXCEPT ![query] = Dns!ParseResponse(d, idOf[query])]
      BY <2>2 DEF Dns!Receive, Dns!Record
    <3>2. dnsRows'[query] = Dns!ParseResponse(d, idOf[query])
      BY <1>1, <3>1 DEF DnsInv, DnsType
    <3>3. PICK q \in 1..query : d.id = idOf[q] /\ truth[q] = d.reply /\ q \notin open
      BY DEF DnsInv, DatagramsTrue
    <3>4. q \in 1..Queries /\ d.reply \in Dns!Replies
      BY <1>1 DEF DnsInv, DnsType
    <3>5. CASE Dns!ParseResponse(d, idOf[query]) # "transport_error"
      <4>1. d.id = idOf[query] /\ Dns!ParseResponse(d, idOf[query]) = Dns!Meaning(d.reply)
        BY <3>5, ParsedIsMeant
      <4> QED BY <3>2, <3>3, <3>4, <4>1, NoneAssumption
    <3> QED BY <3>2, <3>5
  <2> QED BY <2>1, <2>2
<1>5. DnsType'
  BY <1>1, <1>2, <1>3 DEF DnsInv, DnsType
<1>6. DatagramsTrue'
  <2>1. \A q \in 1..Queries : q > query => q # query
    BY <1>1
  <2> QED BY <1>1, <1>2, <1>3, <2>1 DEF DnsInv, DatagramsTrue
<1>7. Dns!RowTellsTheReply'
  BY <1>2, <1>3, <1>4 DEF DnsInv, Dns!RowTellsTheReply
<1> QED BY <1>5, <1>6, <1>7 DEF DnsInv

\* However many queries are sent, of whatever ids, and whatever is lost, late,
\* damaged or comes for an earlier query: a row that claims an answer or a clean
\* negative claims what the resolver said to that query or to an earlier one of the
\* same id (UdpDnsClient::query, parse_response).
THEOREM RowsTellTheReply == ProbesSpec => []RowTellsTheReply
<1>1. ProbesInit => ProbeDnsInv
  BY DnsInit DEF ProbesInit, ProbeDnsInv
<1>2. ProbeDnsInv /\ [ProbesNext]_probeVars => ProbeDnsInv'
  <2> SUFFICES ASSUME ProbeDnsInv, [ProbesNext]_probeVars, probe' = "dns"
               PROVE  DnsInv'
    BY DEF ProbeDnsInv
  <2>1. probe = "dns" /\ DnsInv /\ (Dns!Next \/ UNCHANGED dnsVars)
    BY DEF ProbeDnsInv, ProbesNext, probeVars
  <2>2. CASE UNCHANGED dnsVars
    BY <2>1, <2>2 DEF dnsVars, DnsInv, DnsType, DatagramsTrue, Dns!RowTellsTheReply
  <2> QED BY <2>1, <2>2, DnsSend, DnsAnswer, DnsLose, DnsRow DEF Dns!Next
<1>3. ProbeDnsInv => RowTellsTheReply
  BY DEF ProbeDnsInv, DnsInv, RowTellsTheReply
<1> QED BY <1>1, <1>2, <1>3, PTL DEF ProbesSpec
-----------------------------------------------------------------------------
(***************************************************************************)
(* The probes of boxes.                                                    *)
(***************************************************************************)
Attempted == {"reached", "not_reached"}
Tried == {Nil, "reached", "not_reached", "not_attempted"}

\* The steps a kind of probe takes, and those after which it has a receipt.
StepsOf ==
  [deny |-> {"policy", "control", "subject"},
   gateway |-> {"list", "status", "monitor", "anchor"},
   lease |-> {"backend", "leases", "arp", "probe"}]
Receipted == {"combine", "done", "failed"}

BoxType ==
  /\ kind \in {"deny", "gateway", "lease"}
  /\ pc \in {"start", "emit"} \cup Receipted \cup StepsOf[kind]
  /\ DOMAIN got = Box!Steps
  /\ kind = "deny" => world \in Box!DenyWorlds
  /\ kind = "gateway" => world \in Box!GatewayWorlds
  /\ kind = "lease" =>
       /\ "host" \in DOMAIN world /\ world.host \in Box!Answers
       /\ options.probe \in {Nil, "icmp", "tcp"}

\* The world is looked at from the start of the probe to its end.
FactsSeen == pc # "start" => Box!Facts(world, at) \subseteq seen

\* What a host answered was so at some moment; whoever was sent something counts
\* as tried, and who was reached was sent something.
ProbeWitnessed(step, host) ==
  /\ got[step] \in Tried
  /\ got[step] = "reached" => Box!Was(host, TRUE)
  /\ got[step] = "not_reached" => Box!Was(host, FALSE)
  /\ host \in sent => got[step] \in Attempted
  /\ got[step] = "reached" => host \in sent

DenyGot ==
  /\ pc \in {"start", "policy", "control"} => got["control"] = Nil
  /\ pc \in {"start", "policy", "control", "subject"} => got["subject"] = Nil
  /\ sent \subseteq {"control", "subject"}
  /\ got["policy"] = "present" => Box!Was("dump", "block")
  /\ got["policy"] = "absent" => Box!Was("dump", "other") \/ Box!Was("dump", "pass")
  /\ got["control"] \in Tried /\ got["subject"] \in Tried
  /\ got["control"] = "reached" => Box!Was("control", TRUE)
  /\ got["subject"] = "reached" => Box!Was("handshake", TRUE)
  /\ got["subject"] = "not_reached" => Box!Was("handshake", FALSE)
  /\ "control" \in sent => got["control"] \in Attempted
  /\ "subject" \in sent => got["subject"] \in Attempted
  /\ pc = "subject" \/ got["subject"] # Nil => options.subject

GatewayGot ==
  /\ pc \in {"start", "list", "status", "monitor"} => got["monitor"] = Nil
  /\ pc \in {"start", "list", "status", "monitor", "anchor"} => got["anchor"] = Nil
  /\ sent \subseteq {"monitor", "anchor"}
  /\ pc \notin {"start", "list"} => Box!Was("socket", got["list"] # Nil)
  /\ got["status"] = "absent" => Box!Was("socket", FALSE)
  /\ got["status"] = "fine" => Box!Was("line", "fine")
  /\ got["status"] = "lost" => Box!Was("line", "lost")
  /\ ProbeWitnessed("monitor", "monitor") /\ ProbeWitnessed("anchor", "anchor")

\* A lease that was printed and had not ended was held.
Holds(e) == e # Nil /\ e.state = "active" /\ (e.ends = Nil \/ ~(e.ends <= at))

LeaseGot ==
  /\ pc \in {"start", "backend", "leases", "arp", "probe"} => got["probe"] = Nil
  /\ sent \subseteq {"host"}
  /\ pc \in {"arp", "probe", "emit", "combine", "done"} =>
       \A b \in {"isc", "kea"} :
         Holds(Box!CurrentLease(got["leases"][b])) => Box!Was("lease", TRUE)
  /\ pc \in {"probe", "emit", "combine", "done"} =>
       /\ got["backend"] \in {"isc", "kea"}
       /\ Box!CurrentLease(got["leases"][got["backend"]]) # Nil
       /\ got["arp"] \in Attempted
  /\ pc \in {"leases", "arp"} => got["backend"] \in {"isc", "kea", "unknown"}
  /\ pc = "probe" \/ got["probe"] # Nil => options.probe # Nil
  /\ got["arp"] = "reached" => Box!Was("arp", TRUE)
  /\ got["arp"] = "not_reached" => Box!Was("arp", FALSE)
  /\ ProbeWitnessed("probe", "host")

\* The receipt is what was judged from what was brought.
ReceiptJudged ==
  /\ pc = "start" => got = [s \in Box!Steps |-> Nil] /\ sent = {}
  /\ receipt # Nil => pc \in Receipted
  /\ pc \notin {"done", "failed"} => combined = Nil
  /\ kind # "gateway" => combined = Nil
  /\ Box!VerdictIsWitnessed

BoxInv ==
  /\ BoxType /\ FactsSeen /\ ReceiptJudged
  /\ kind = "deny" => DenyGot
  /\ kind = "gateway" => GatewayGot
  /\ kind = "lease" => LeaseGot
ProbeBoxInv == probe = "box" => BoxInv

\* A probe starts with nothing brought and nothing sent.
LEMMA BoxInit == Box!Init => BoxInv
<1> SUFFICES ASSUME Box!Init PROVE BoxInv
  OBVIOUS
<1>1. BoxType
  BY BoxAssumption DEF Box!BoxAssumption, Box!Init, BoxType, StepsOf, Receipted, Box!LeaseWorlds
<1>2. FactsSeen
  BY DEF Box!Init, FactsSeen
<1>3. ReceiptJudged
  BY DEF Box!Init, ReceiptJudged, Box!VerdictIsWitnessed
<1>4. \A s \in Box!Steps : got[s] = Nil
  BY DEF Box!Init
<1>6. DenyGot /\ GatewayGot /\ LeaseGot
  BY <1>4, NoneAssumption
  DEF Box!Init, DenyGot, GatewayGot, LeaseGot, ProbeWitnessed, Tried, Attempted, Box!Steps
<1> QED BY <1>1, <1>2, <1>3, <1>6 DEF BoxInv

\* The world changes before the receipt: what was seen is still seen, and the new
\* state of the world is seen as well.
LEMMA BoxChange ==
  ASSUME BoxInv, Box!Change
  PROVE  BoxInv'
<1>1. /\ UNCHANGED <<kind, options, pc, at, got, receipt, combined, sent>>
      /\ seen \subseteq seen' /\ receipt = Nil
      /\ world' \in Box!Changed(world)
  BY DEF Box!Change
<1>2. BoxType'
  <2>1. CASE kind = "deny"
    BY <1>1, <2>1 DEF BoxInv, BoxType, Box!Changed, Box!DenyWorlds
  <2>2. CASE kind = "gateway"
    BY <1>1, <2>2 DEF BoxInv, BoxType, Box!Changed, Box!GatewayWorlds
  <2>3. CASE kind = "lease"
    BY <1>1, <2>3 DEF BoxInv, BoxType, Box!Changed
  <2> QED BY <2>1, <2>2, <2>3 DEF BoxInv, BoxType
<1>3. FactsSeen'
  <2> SUFFICES ASSUME pc # "start" PROVE Box!Facts(world, at)' \subseteq seen'
    BY <1>1 DEF FactsSeen
  <2>1. seen' = seen \cup Box!Facts(world', at)
    BY DEF Box!Change
  <2>2. Box!Facts(world', at) = Box!Facts(world, at)'
    BY <1>1 DEF Box!Facts, Box!ChosenSocket
  <2> QED BY <2>1, <2>2
<1>4. ReceiptJudged'
  BY <1>1 DEF BoxInv, ReceiptJudged, Box!VerdictIsWitnessed
<1>5. kind = "deny" => DenyGot'
  BY <1>1 DEF BoxInv, DenyGot, Box!Was
<1>6. kind = "gateway" => GatewayGot'
  BY <1>1 DEF BoxInv, GatewayGot, ProbeWitnessed, Box!Was
<1>7. kind = "lease" => LeaseGot'
  BY <1>1 DEF BoxInv, LeaseGot, Holds, ProbeWitnessed, Box!Was
<1> QED BY <1>1, <1>2, <1>3, <1>4, <1>5, <1>6, <1>7 DEF BoxInv

\* The clock is read, and the first look at the world counts.
LEMMA BoxStart ==
  ASSUME BoxInv, Box!Start
  PROVE  BoxInv'
<1>1. /\ UNCHANGED <<kind, options, world, got, receipt, combined, sent>>
      /\ pc = "start" /\ pc' = Box!First[kind]
      /\ seen' = Box!Facts(world, at')
  BY DEF Box!Start
<1>2. /\ kind = "deny" => pc' = "policy"
      /\ kind = "gateway" => pc' = "list"
      /\ kind = "lease" => pc' = "backend"
  BY <1>1 DEF Box!First
<1>3. BoxType'
  BY <1>1, <1>2 DEF BoxInv, BoxType, StepsOf
<1>4. FactsSeen'
  <2>1. Box!Facts(world, at') = Box!Facts(world, at)'
    BY <1>1 DEF Box!Facts, Box!ChosenSocket
  <2> QED BY <1>1, <2>1 DEF FactsSeen
<1>5. receipt = Nil /\ sent = {} /\ \A s \in Box!Steps : got[s] = Nil
  BY <1>1 DEF BoxInv, ReceiptJudged, Receipted
<1>6. pc' # "start" /\ pc' \notin {"arp", "probe", "emit", "combine", "done", "leases"}
  BY <1>2 DEF BoxInv, BoxType
<1>7. ReceiptJudged'
  BY <1>1, <1>5, <1>6 DEF BoxInv, ReceiptJudged, Box!VerdictIsWitnessed
<1>8. kind = "deny" => DenyGot'
  BY <1>1, <1>2, <1>5, NoneAssumption DEF DenyGot, Tried, Attempted, Box!Steps
<1>9. kind = "gateway" => GatewayGot'
  BY <1>1, <1>2, <1>5, NoneAssumption
  DEF GatewayGot, ProbeWitnessed, Tried, Attempted, Box!Steps
<1>10. kind = "lease" => LeaseGot'
  BY <1>1, <1>5, <1>6, NoneAssumption
  DEF LeaseGot, ProbeWitnessed, Tried, Attempted, Box!Steps
<1> QED BY <1>1, <1>3, <1>4, <1>7, <1>8, <1>9, <1>10 DEF BoxInv

\* A session fails: nothing is claimed.
LEMMA BoxFails ==
  ASSUME BoxInv, Box!SshFails
  PROVE  BoxInv'
<1>1. /\ UNCHANGED <<kind, options, world, at, got, receipt, combined, seen, sent>>
      /\ pc' = "failed" /\ pc \in {"policy", "status", "arp"}
  BY DEF Box!SshFails
<1>2. BoxType'
  BY <1>1 DEF BoxInv, BoxType, Receipted
<1>3. FactsSeen'
  <2>1. Box!Facts(world, at)' = Box!Facts(world, at)
    BY <1>1 DEF Box!Facts, Box!ChosenSocket
  <2> QED BY <1>1, <2>1 DEF BoxInv, FactsSeen
<1>4. receipt = Nil
  BY <1>1 DEF BoxInv, ReceiptJudged, Receipted
<1>5. ReceiptJudged'
  BY <1>1, <1>4 DEF BoxInv, ReceiptJudged, Box!VerdictIsWitnessed
<1>6. kind = "deny" => DenyGot'
  BY <1>1 DEF BoxInv, DenyGot, Box!Was
<1>7. kind = "gateway" => GatewayGot'
  BY <1>1 DEF BoxInv, GatewayGot, ProbeWitnessed, Box!Was
<1>8. kind = "lease" => LeaseGot'
  BY <1>1 DEF BoxInv, LeaseGot, ProbeWitnessed, Box!Was
<1> QED BY <1>1, <1>2, <1>3, <1>5, <1>6, <1>7, <1>8 DEF BoxInv

\* A step brings something: what does not depend on what it brings.
LEMMA BoxBring ==
  ASSUME BoxInv, NEW step \in Box!Steps, NEW v, NEW next_, NEW hosts,
         Box!Bring(step, v, next_, hosts),
         next_ \in {"emit", "failed"} \cup StepsOf[kind]
  PROVE  /\ UNCHANGED <<kind, options, world, changes, at, receipt, combined, seen>>
         /\ pc = step /\ pc' = next_ /\ sent' = sent \cup hosts
         /\ got'[step] = v /\ \A s \in Box!Steps : s # step => got'[s] = got[s]
         /\ Box!Facts(world, at) \subseteq seen
         /\ BoxType' /\ FactsSeen' /\ ReceiptJudged'
         /\ step \in StepsOf[kind]
<1>1. /\ UNCHANGED <<kind, options, world, changes, at, receipt, combined, seen>>
      /\ pc = step /\ pc' = next_ /\ sent' = sent \cup hosts
      /\ got' = [got EXCEPT ![step] = v]
  BY DEF Box!Bring
<1>2. DOMAIN got = Box!Steps
  BY DEF BoxInv, BoxType
<1>3. DOMAIN got' = Box!Steps /\ got'[step] = v /\ \A s \in Box!Steps : s # step => got'[s] = got[s]
  BY <1>1, <1>2
<1>4. step \notin {"start", "emit"} \cup Receipted
  BY DEF Box!Steps, Receipted
<1>5. step \in StepsOf[kind]
  BY <1>1, <1>4 DEF BoxInv, BoxType
<1>6. next_ # "start"
  BY DEF BoxInv, BoxType, StepsOf
<1>7. BoxType'
  BY <1>1, <1>3 DEF BoxInv, BoxType, Receipted
<1>8. Box!Facts(world, at) \subseteq seen
  BY <1>1, <1>4 DEF BoxInv, FactsSeen
<1>9. FactsSeen'
  <2>1. Box!Facts(world, at)' = Box!Facts(world, at)
    BY <1>1 DEF Box!Facts, Box!ChosenSocket
  <2> QED BY <1>1, <1>8, <2>1 DEF FactsSeen
<1>10. receipt = Nil
  BY <1>1, <1>4 DEF BoxInv, ReceiptJudged
<1>11. ReceiptJudged'
  BY <1>1, <1>4, <1>6, <1>10 DEF BoxInv, ReceiptJudged, Receipted, Box!VerdictIsWitnessed
<1> QED BY <1>1, <1>3, <1>5, <1>7, <1>8, <1>9, <1>11

\* The deny probe: the rules, the control, the subject.
LEMMA DenySteps ==
  ASSUME BoxInv, Box!ReadPolicy \/ Box!Control \/ Box!Subject
  PROVE  BoxInv'
<1>0. StepsOf["deny"] = {"policy", "control", "subject"} /\ StepsOf["deny"] \subseteq Box!Steps
  BY DEF StepsOf, Box!Steps
<1>1. kind = "deny"
  BY DEF BoxInv, BoxType, Receipted, StepsOf, Box!Bring, Box!ReadPolicy, Box!Control, Box!Subject
<1>2. DenyGot /\ world \in Box!DenyWorlds
  BY <1>1 DEF BoxInv, BoxType
<1>3. CASE Box!ReadPolicy
  <2> DEFINE v == Box!FindDeclaredDeny(world.dump)
  <2>0. Box!Bring("policy", v, "control", {})
    BY <1>3 DEF Box!ReadPolicy
  <2>1. /\ UNCHANGED <<kind, options, seen>> /\ pc = "policy" /\ pc' = "control" /\ sent' = sent \cup {}
        /\ got'["policy"] = v /\ \A s \in Box!Steps : s # "policy" => got'[s] = got[s]
        /\ Box!Facts(world, at) \subseteq seen
        /\ BoxType' /\ FactsSeen' /\ ReceiptJudged'
    BY <1>0, <1>1, <2>0, BoxBring
  <2>2. Box!Was("dump", world.dump)
    BY <1>1, <2>1 DEF Box!Facts, Box!Was
  <2>3. /\ v = "present" => world.dump = "block"
        /\ v = "absent" => world.dump \in {"other", "pass"}
    BY <1>2 DEF Box!DenyWorlds, Box!FindDeclaredDeny
  <2>4. DenyGot'
    BY <1>2, <2>1, <2>2, <2>3 DEF DenyGot, Box!Was, Box!Steps
  <2> QED BY <1>1, <2>1, <2>4 DEF BoxInv
<1>4. CASE Box!Control
  <2> DEFINE v == Box!ControlProbe(world.control)
             to == IF options.subject THEN "subject" ELSE "emit"
             hosts == Box!Traffic(world.control, "control")
  <2>0. Box!Bring("control", v, to, hosts) /\ to \in {"subject", "emit"}
        /\ (to = "subject" => options.subject)
    BY <1>4 DEF Box!Control
  <2> HIDE DEF to
  <2>1. /\ UNCHANGED <<kind, options, seen>> /\ pc = "control" /\ pc' = to /\ sent' = sent \cup hosts
        /\ got'["control"] = v /\ \A s \in Box!Steps : s # "control" => got'[s] = got[s]
        /\ Box!Facts(world, at) \subseteq seen
        /\ BoxType' /\ FactsSeen' /\ ReceiptJudged'
    BY <1>0, <1>1, <2>0, BoxBring
  <2>2. Box!Was("control", Box!Answered(world.control))
    BY <1>1, <2>1 DEF Box!Facts, Box!Was
  <2>3. /\ v \in Tried
        /\ v = "reached" => Box!Answered(world.control) = TRUE
        /\ hosts \subseteq {"control"} /\ (hosts # {} => v \in Attempted)
    BY <1>2 DEF Box!DenyWorlds, Box!Answers, Box!Answered, Box!ControlProbe, Box!Traffic, Tried, Attempted
  <2>4. v = "reached" => Box!Was("control", TRUE)
    BY <2>2, <2>3
  <2>5. "control" \notin sent
    BY <1>2, <2>1, NoneAssumption DEF DenyGot, Attempted
  <2> HIDE DEF v, hosts
  <2>6. DenyGot'
    BY <1>2, <2>0, <2>1, <2>3, <2>4, <2>5 DEF DenyGot, Box!Was, Box!Steps
  <2> QED BY <1>1, <2>1, <2>6 DEF BoxInv
<1>5. CASE Box!Subject
  <2> DEFINE v == Box!SubjectProbe(world.subject)
             hosts == Box!Traffic(world.subject, "subject")
  <2>0. Box!Bring("subject", v, "emit", hosts)
    BY <1>5 DEF Box!Subject
  <2>1. /\ UNCHANGED <<kind, options, seen>> /\ pc = "subject" /\ pc' = "emit" /\ sent' = sent \cup hosts
        /\ got'["subject"] = v /\ \A s \in Box!Steps : s # "subject" => got'[s] = got[s]
        /\ Box!Facts(world, at) \subseteq seen
        /\ BoxType' /\ FactsSeen' /\ ReceiptJudged'
    BY <1>0, <1>1, <2>0, BoxBring
  <2>2. Box!Was("handshake", world.subject = "connected")
    BY <1>1, <2>1 DEF Box!Facts, Box!Was
  <2>3. /\ v \in Tried
        /\ v = "reached" => (world.subject = "connected") = TRUE
        /\ v = "not_reached" => (world.subject = "connected") = FALSE
        /\ hosts \subseteq {"subject"} /\ (hosts # {} => v \in Attempted)
    BY <1>2 DEF Box!DenyWorlds, Box!Answers, Box!SubjectProbe, Box!Traffic, Tried, Attempted
  <2>4. /\ v = "reached" => Box!Was("handshake", TRUE)
        /\ v = "not_reached" => Box!Was("handshake", FALSE)
    BY <2>2, <2>3
  <2>5. "subject" \notin sent
    BY <1>2, <2>1, NoneAssumption DEF DenyGot, Attempted
  <2> HIDE DEF v, hosts
  <2>6. DenyGot'
    BY <1>2, <2>1, <2>3, <2>4, <2>5 DEF DenyGot, Box!Was, Box!Steps
  <2> QED BY <1>1, <2>1, <2>6 DEF BoxInv
<1> QED BY <1>3, <1>4, <1>5

\* A host is pinged, or connected to where there is no ping: what that brings, and
\* whether a packet was sent (path_probe).
LEMMA PathProbed ==
  ASSUME NEW ping \in BOOLEAN, NEW a \in Box!Answers, NEW host
  PROVE  LET v == Box!PathProbe(ping, a) IN
         /\ v \in Tried
         /\ v = "reached" => Box!Answered(a) = TRUE
         /\ v = "not_reached" => Box!Answered(a) = FALSE
         /\ Box!Traffic(a, host) \subseteq {host}
         /\ Box!Traffic(a, host) # {} => v \in Attempted
         /\ v = "reached" => Box!Traffic(a, host) = {host}
BY DEF Box!PathProbe, Box!Answers, Box!Answered, Box!ControlProbe, Box!Traffic, Tried, Attempted

\* The gateway probe: the sockets, the line of the chosen one, the two hosts.
LEMMA GatewaySteps ==
  ASSUME BoxInv,
         Box!ListSockets \/ Box!ReadSocket \/ Box!ProbeMonitor \/ Box!ProbeAnchor
  PROVE  BoxInv'
<1>0. /\ StepsOf["gateway"] = {"list", "status", "monitor", "anchor"}
      /\ StepsOf["gateway"] \subseteq Box!Steps
  BY DEF StepsOf, Box!Steps
<1>1. kind = "gateway"
  BY DEF BoxInv, BoxType, Receipted, StepsOf, Box!Bring,
         Box!ListSockets, Box!ReadSocket, Box!ProbeMonitor, Box!ProbeAnchor
<1>2. GatewayGot /\ world \in Box!GatewayWorlds
  BY <1>1 DEF BoxInv, BoxType
<1>3. CASE Box!ListSockets
  <2> DEFINE v == Box!ChosenSocket(world.socks)
             to == IF v = "refused" THEN "failed" ELSE "status"
  <2>0. Box!Bring("list", v, to, {}) /\ to \in {"failed", "status"}
    BY <1>3 DEF Box!ListSockets
  <2> HIDE DEF to, v
  <2>1. /\ UNCHANGED <<kind, seen>> /\ pc = "list" /\ pc' = to /\ sent' = sent \cup {}
        /\ got'["list"] = v /\ \A s \in Box!Steps : s # "list" => got'[s] = got[s]
        /\ Box!Facts(world, at) \subseteq seen
        /\ BoxType' /\ FactsSeen' /\ ReceiptJudged'
    BY <1>0, <1>1, <2>0, BoxBring
  <2>2. Box!Was("socket", v # Nil)
    BY <1>1, <2>1 DEF Box!Facts, Box!Was, v
  <2>3. GatewayGot'
    BY <1>2, <2>0, <2>1, <2>2 DEF GatewayGot, ProbeWitnessed, Box!Was, Box!Steps
  <2> QED BY <1>1, <2>1, <2>3 DEF BoxInv
<1>4. CASE Box!ReadSocket
  <2> DEFINE line == IF got["list"] \in world.socks THEN world.line ELSE "mute"
             v == Box!Reconcile(got["list"], line)
             to == IF got["list"] \in {Nil, "odd"} THEN "anchor" ELSE "monitor"
  <2>0. Box!Bring("status", v, to, {}) /\ to \in {"anchor", "monitor"}
    BY <1>4 DEF Box!ReadSocket
  <2> HIDE DEF to, v
  <2>1. /\ UNCHANGED <<kind, seen>> /\ pc = "status" /\ pc' = to /\ sent' = sent \cup {}
        /\ got'["status"] = v /\ \A s \in Box!Steps : s # "status" => got'[s] = got[s]
        /\ Box!Facts(world, at) \subseteq seen
        /\ BoxType' /\ FactsSeen' /\ ReceiptJudged'
    BY <1>0, <1>1, <2>0, BoxBring
  <2>2. Box!Was("line", world.line)
    BY <1>1, <2>1 DEF Box!Facts, Box!Was
  <2>3. /\ v = "absent" => (got["list"] # Nil) = FALSE
        /\ v = "fine" => world.line = "fine"
        /\ v = "lost" => world.line = "lost"
    BY <1>2 DEF Box!Reconcile, Box!GatewayWorlds, Box!Lines, v
  <2>4. /\ v = "absent" => Box!Was("socket", FALSE)
        /\ v = "fine" => Box!Was("line", "fine")
        /\ v = "lost" => Box!Was("line", "lost")
    BY <1>2, <2>1, <2>2, <2>3 DEF GatewayGot
  <2>5. GatewayGot'
    BY <1>2, <2>0, <2>1, <2>4 DEF GatewayGot, ProbeWitnessed, Box!Was, Box!Steps
  <2> QED BY <1>1, <2>1, <2>5 DEF BoxInv
<1>5. CASE Box!ProbeMonitor
  <2> DEFINE v == Box!PathProbe(world.ping, world.monitor)
             hosts == Box!Traffic(world.monitor, "monitor")
  <2>0. Box!Bring("monitor", v, "anchor", hosts)
    BY <1>5 DEF Box!ProbeMonitor
  <2> HIDE DEF hosts, v
  <2>1. /\ UNCHANGED <<kind, seen>> /\ pc = "monitor" /\ pc' = "anchor" /\ sent' = sent \cup hosts
        /\ got'["monitor"] = v /\ \A s \in Box!Steps : s # "monitor" => got'[s] = got[s]
        /\ Box!Facts(world, at) \subseteq seen
        /\ BoxType' /\ FactsSeen' /\ ReceiptJudged'
    BY <1>0, <1>1, <2>0, BoxBring
  <2>2. Box!Was("monitor", Box!Answered(world.monitor))
    BY <1>1, <2>1 DEF Box!Facts, Box!Was
  <2>3. /\ v \in Tried
        /\ v = "reached" => Box!Answered(world.monitor) = TRUE
        /\ v = "not_reached" => Box!Answered(world.monitor) = FALSE
        /\ hosts \subseteq {"monitor"} /\ (hosts # {} => v \in Attempted)
        /\ v = "reached" => hosts = {"monitor"}
    BY <1>2, PathProbed DEF Box!GatewayWorlds, v, hosts
  <2>4. /\ v = "reached" => Box!Was("monitor", TRUE)
        /\ v = "not_reached" => Box!Was("monitor", FALSE)
    BY <2>2, <2>3
  <2>5. "monitor" \notin sent
    BY <1>2, <2>1, NoneAssumption DEF GatewayGot, ProbeWitnessed, Attempted
  <2>6. GatewayGot'
    BY <1>2, <2>1, <2>3, <2>4, <2>5 DEF GatewayGot, ProbeWitnessed, Box!Was, Box!Steps
  <2> QED BY <1>1, <2>1, <2>6 DEF BoxInv
<1>6. CASE Box!ProbeAnchor
  <2> DEFINE v == Box!PathProbe(world.ping, world.anchor)
             hosts == Box!Traffic(world.anchor, "anchor")
  <2>0. Box!Bring("anchor", v, "emit", hosts)
    BY <1>6 DEF Box!ProbeAnchor
  <2> HIDE DEF hosts, v
  <2>1. /\ UNCHANGED <<kind, seen>> /\ pc = "anchor" /\ pc' = "emit" /\ sent' = sent \cup hosts
        /\ got'["anchor"] = v /\ \A s \in Box!Steps : s # "anchor" => got'[s] = got[s]
        /\ Box!Facts(world, at) \subseteq seen
        /\ BoxType' /\ FactsSeen' /\ ReceiptJudged'
    BY <1>0, <1>1, <2>0, BoxBring
  <2>2. Box!Was("anchor", Box!Answered(world.anchor))
    BY <1>1, <2>1 DEF Box!Facts, Box!Was
  <2>3. /\ v \in Tried
        /\ v = "reached" => Box!Answered(world.anchor) = TRUE
        /\ v = "not_reached" => Box!Answered(world.anchor) = FALSE
        /\ hosts \subseteq {"anchor"} /\ (hosts # {} => v \in Attempted)
        /\ v = "reached" => hosts = {"anchor"}
    BY <1>2, PathProbed DEF Box!GatewayWorlds, v, hosts
  <2>4. /\ v = "reached" => Box!Was("anchor", TRUE)
        /\ v = "not_reached" => Box!Was("anchor", FALSE)
    BY <2>2, <2>3
  <2>5. "anchor" \notin sent
    BY <1>2, <2>1, NoneAssumption DEF GatewayGot, ProbeWitnessed, Attempted
  <2>6. GatewayGot'
    BY <1>2, <2>1, <2>3, <2>4, <2>5 DEF GatewayGot, ProbeWitnessed, Box!Was, Box!Steps
  <2> QED BY <1>1, <2>1, <2>6 DEF BoxInv
<1> QED BY <1>3, <1>4, <1>5, <1>6

\* The lease probe: the server, its files, the ARP table, the host.
LEMMA LeaseSteps ==
  ASSUME BoxInv,
         Box!DetectBackend \/ Box!ReadLeases \/ Box!ReadArp \/ Box!ProbeHost
  PROVE  BoxInv'
<1>0. /\ StepsOf["lease"] = {"backend", "leases", "arp", "probe"}
      /\ StepsOf["lease"] \subseteq Box!Steps
  BY DEF StepsOf, Box!Steps
<1>1. kind = "lease"
  BY DEF BoxInv, BoxType, Receipted, StepsOf, Box!Bring,
         Box!DetectBackend, Box!ReadLeases, Box!ReadArp, Box!ProbeHost
<1>2. LeaseGot /\ world.host \in Box!Answers /\ options.probe \in {Nil, "icmp", "tcp"}
  BY <1>1 DEF BoxInv, BoxType
<1>3. CASE Box!DetectBackend
  <2> DEFINE v == Box!Backend(world)
             hosts == {}
  <2>0. Box!Bring("backend", v, "leases", hosts) /\ v \in {"isc", "kea", "unknown"}
    BY <1>3 DEF Box!DetectBackend, Box!Backend
  <2> HIDE DEF v
  <2>1. /\ UNCHANGED <<kind, options, at, seen>> /\ pc = "backend" /\ pc' = "leases" /\ sent' = sent \cup hosts
        /\ got'["backend"] = v /\ \A s \in Box!Steps : s # "backend" => got'[s] = got[s]
        /\ Box!Facts(world, at) \subseteq seen
        /\ BoxType' /\ FactsSeen' /\ ReceiptJudged'
    BY <1>0, <1>1, <2>0, BoxBring
  <2>2. LeaseGot'
    BY <1>2, <2>0, <2>1 DEF LeaseGot, ProbeWitnessed, Box!Was, Box!Steps
  <2> QED BY <1>1, <2>1, <2>2 DEF BoxInv
<1>4. CASE Box!ReadLeases
  <2> DEFINE v == Box!Printed(world)
             hosts == {}
  <2>0. Box!Bring("leases", v, "arp", hosts)
    BY <1>4 DEF Box!ReadLeases
  <2> HIDE DEF v
  <2>1. /\ UNCHANGED <<kind, options, at, seen>> /\ pc = "leases" /\ pc' = "arp" /\ sent' = sent \cup hosts
        /\ got'["leases"] = v /\ \A s \in Box!Steps : s # "leases" => got'[s] = got[s]
        /\ Box!Facts(world, at) \subseteq seen
        /\ BoxType' /\ FactsSeen' /\ ReceiptJudged'
    BY <1>0, <1>1, <2>0, BoxBring
  <2>2. \A b \in {"isc", "kea"} : Holds(Box!CurrentLease(v[b])) => Box!LeaseHeld(world, at) = TRUE
    <3>1. \A b \in {"isc", "kea"} : v[b] \in {Box!Printed(world).isc, Box!Printed(world).kea}
      BY DEF v
    <3> QED BY <3>1 DEF Box!LeaseHeld, Holds
  <2>3. Box!Was("lease", Box!LeaseHeld(world, at))
    BY <1>1, <2>1 DEF Box!Facts, Box!Was
  <2>4. \A b \in {"isc", "kea"} : Holds(Box!CurrentLease(v[b])) => Box!Was("lease", TRUE)
    BY <2>2, <2>3
  <2>5. LeaseGot'
    BY <1>2, <2>1, <2>4 DEF LeaseGot, Holds, ProbeWitnessed, Box!Was, Box!Steps
  <2> QED BY <1>1, <2>1, <2>5 DEF BoxInv
<1>5. CASE Box!ReadArp
  <2> DEFINE v == Box!ArpPresence(world.arp)
             lease == Box!CurrentLease(got["leases"][got["backend"]])
             to == IF got["backend"] = "unknown" \/ lease = Nil THEN "failed"
                   ELSE IF options.probe = Nil THEN "emit" ELSE "probe"
             hosts == {}
  <2>0. /\ Box!Bring("arp", v, to, hosts) /\ v \in Attempted
        /\ to \in {"failed", "emit", "probe"}
        /\ to # "failed" => got["backend"] # "unknown" /\ lease # Nil
        /\ to = "probe" => options.probe # Nil
    BY <1>5 DEF Box!ReadArp, Box!ArpPresence, Attempted
  <2> HIDE DEF v, to
  <2>1. /\ UNCHANGED <<kind, options, at, seen>> /\ pc = "arp" /\ pc' = to /\ sent' = sent \cup hosts
        /\ got'["arp"] = v /\ \A s \in Box!Steps : s # "arp" => got'[s] = got[s]
        /\ Box!Facts(world, at) \subseteq seen
        /\ BoxType' /\ FactsSeen' /\ ReceiptJudged'
    BY <1>0, <1>1, <2>0, BoxBring
  <2>2. Box!Was("arp", world.arp = "mac")
    BY <1>1, <2>1 DEF Box!Facts, Box!Was
  <2>3. /\ v = "reached" => (world.arp = "mac") = TRUE
        /\ v = "not_reached" => (world.arp = "mac") = FALSE
    BY DEF Box!ArpPresence, v
  <2>4. /\ v = "reached" => Box!Was("arp", TRUE)
        /\ v = "not_reached" => Box!Was("arp", FALSE)
    BY <2>2, <2>3
  <2>5. got["backend"] \in {"isc", "kea", "unknown"}
    BY <1>2, <2>1 DEF LeaseGot
  <2>6. LeaseGot'
    BY <1>2, <2>0, <2>1, <2>4, <2>5 DEF LeaseGot, Holds, ProbeWitnessed, Box!Was, Box!Steps
  <2> QED BY <1>1, <2>1, <2>6 DEF BoxInv
<1>6. CASE Box!ProbeHost
  <2> DEFINE v == Box!ProbePresence(world)
             hosts == IF options.probe = "icmp" /\ ~world.ping THEN {}
                      ELSE Box!Traffic(world.host, "host")
  <2>0. Box!Bring("probe", v, "emit", hosts)
    BY <1>6 DEF Box!ProbeHost
  <2> HIDE DEF v, hosts
  <2>1. /\ UNCHANGED <<kind, options, at, seen>> /\ pc = "probe" /\ pc' = "emit" /\ sent' = sent \cup hosts
        /\ got'["probe"] = v /\ \A s \in Box!Steps : s # "probe" => got'[s] = got[s]
        /\ Box!Facts(world, at) \subseteq seen
        /\ BoxType' /\ FactsSeen' /\ ReceiptJudged'
    BY <1>0, <1>1, <2>0, BoxBring
  <2>2. Box!Was("host", Box!Answered(world.host))
    BY <1>1, <2>1 DEF Box!Facts, Box!Was
  <2>3. options.probe \in {"icmp", "tcp"}
    BY <1>2, <2>1 DEF LeaseGot
  <2>4. /\ v \in Tried
        /\ v = "reached" => Box!Answered(world.host) = TRUE
        /\ v = "not_reached" => Box!Answered(world.host) = FALSE
        /\ hosts \subseteq {"host"} /\ (hosts # {} => v \in Attempted)
        /\ v = "reached" => hosts = {"host"}
    BY <1>2, <2>3
    DEF v, hosts, Box!ProbePresence, Box!PathProbe, Box!Answers, Box!Answered, Box!ControlProbe,
        Box!Traffic, Tried, Attempted
  <2>5. /\ v = "reached" => Box!Was("host", TRUE)
        /\ v = "not_reached" => Box!Was("host", FALSE)
    BY <2>2, <2>4
  <2>6. "host" \notin sent
    BY <1>2, <2>1, NoneAssumption DEF LeaseGot, ProbeWitnessed, Attempted
  <2>7. LeaseGot'
    BY <1>2, <2>1, <2>4, <2>5, <2>6 DEF LeaseGot, Holds, ProbeWitnessed, Box!Was, Box!Steps
  <2> QED BY <1>1, <2>1, <2>7 DEF BoxInv
<1> QED BY <1>3, <1>4, <1>5, <1>6

\* The verdict of the deny probe rests on what its steps brought (compute_verdict).
LEMMA DenyJudged ==
  ASSUME BoxInv, kind = "deny", pc = "emit", receipt' = Box!Judged,
         UNCHANGED <<kind, options, sent, seen>>
  PROVE  Box!DenyWitnessed'
<1>1. DenyGot
  BY DEF BoxInv
<1>2. /\ receipt'.verdict = Box!DenyVerdict(got["policy"], got["control"], got["subject"])
      /\ receipt'.class = Box!DenyClass(got["control"], got["subject"])
  BY DEF Box!Judged
<1>3. /\ receipt'.verdict = "observed_blocked" =>
           got["policy"] = "present" /\ got["control"] = "reached" /\ got["subject"] = "not_reached"
      /\ receipt'.verdict = "observed_reachable" =>
           got["policy"] = "present" /\ got["subject"] = "reached"
      /\ receipt'.verdict = "policy_absent" => got["policy"] = "absent"
  BY <1>1, <1>2 DEF DenyGot, Tried, Box!DenyVerdict
<1>4. receipt'.class = IF got["subject"] \in Attempted THEN "subject"
                       ELSE IF got["control"] \in Attempted THEN "control" ELSE "passive"
  BY <1>1, <1>2, NoneAssumption DEF DenyGot, Tried, Attempted, Box!DenyClass
<1>5. /\ "subject" \in sent => receipt'.class = "subject"
      /\ receipt'.class = "passive" => sent = {}
      /\ receipt'.class = "subject" => options.subject
  BY <1>1, <1>4, NoneAssumption DEF DenyGot, Attempted
<1> QED BY <1>1, <1>3, <1>5 DEF DenyGot, Box!DenyWitnessed, Box!Was

\* The verdict of the gateway probe rests on the line and on every host asked.
LEMMA GatewayJudged ==
  ASSUME BoxInv, kind = "gateway", pc = "emit", receipt' = Box!Judged,
         UNCHANGED <<kind, sent, seen, combined>>
  PROVE  Box!GatewayWitnessed'
<1> DEFINE probes == {got["monitor"], got["anchor"]} \ {Nil}
<1>1. GatewayGot
  BY DEF BoxInv
<1>2. /\ receipt'.verdict = Box!GatewayVerdict(got["status"], probes)
      /\ receipt'.class = Box!GatewayClass({got["monitor"], got["anchor"]})
  BY DEF Box!Judged
<1>3. /\ receipt'.verdict = "corroborated" =>
           got["status"] = "fine" /\ {o \in probes : o \in {"reached", "not_reached"}} = {"reached"}
      /\ receipt'.verdict = "egress_trouble" =>
           got["status"] = "lost" /\ {o \in probes : o \in {"reached", "not_reached"}} = {"not_reached"}
      /\ receipt'.verdict = "socket_absent" => got["status"] = "absent"
  <2> HIDE DEF probes
  <2> QED BY <1>2 DEF Box!GatewayVerdict
<1>4. receipt'.class = "passive" => sent = {}
  BY <1>1, <1>2 DEF GatewayGot, ProbeWitnessed, Attempted, Box!GatewayClass
<1>5. receipt'.verdict = "corroborated" =>
        /\ sent # {}
        /\ \A h \in sent : got[h] = "reached" /\ Box!Was(h, TRUE)
  BY <1>1, <1>3, NoneAssumption DEF GatewayGot, ProbeWitnessed, Attempted
<1>6. receipt'.verdict = "egress_trouble" =>
        /\ Box!Was("monitor", FALSE) \/ Box!Was("anchor", FALSE)
        /\ \A h \in sent : got[h] = "not_reached" /\ Box!Was(h, FALSE)
  BY <1>1, <1>3, NoneAssumption DEF GatewayGot, ProbeWitnessed, Attempted
<1>7. combined' = Nil
  BY DEF BoxInv, ReceiptJudged, Receipted
<1> QED BY <1>1, <1>3, <1>4, <1>5, <1>6, <1>7, NoneAssumption
    DEF GatewayGot, Box!GatewayWitnessed, Box!SentWere, Box!Was

\* The verdict of the lease probe rests on a lease that was held and on presence.
LEMMA LeaseJudged ==
  ASSUME BoxInv, kind = "lease", pc = "emit", receipt' = Box!Judged,
         UNCHANGED <<kind, options, sent, seen>>
  PROVE  Box!LeaseWitnessed'
<1> DEFINE probes == {got["arp"], got["probe"]} \ {Nil}
<1>1. LeaseGot
  BY DEF BoxInv
<1>2. /\ receipt'.verdict = Box!LeaseVerdict(Box!LeaseReported, probes)
      /\ receipt'.class = Box!LeaseClass(got["probe"])
  BY DEF Box!Judged
<1>3. /\ receipt'.verdict \in {"corroborated", "uncorroborated"} => Box!LeaseReported = "active"
      /\ receipt'.verdict = "corroborated" => "reached" \in probes
      /\ receipt'.verdict = "uncorroborated" => "reached" \notin probes
  <2> HIDE DEF probes
  <2> QED BY <1>2 DEF Box!LeaseVerdict
<1>4. ASSUME Box!LeaseReported = "active" PROVE Box!Was("lease", TRUE)
  <2> DEFINE e == Box!CurrentLease(got["leases"][got["backend"]])
  <2>1. got["backend"] \in {"isc", "kea"} /\ e # Nil
    BY <1>1 DEF LeaseGot
  <2>2. Holds(e)
    BY <1>4, <2>1 DEF Box!LeaseReported, Box!IscLeaseState, Box!KeaLeaseState, Holds
  <2> QED BY <1>1, <2>1, <2>2 DEF LeaseGot
<1>5. /\ receipt'.class = "passive" => sent = {}
      /\ receipt'.class = "active" => options.probe # Nil
  BY <1>1, <1>2, NoneAssumption DEF LeaseGot, ProbeWitnessed, Attempted, Box!LeaseClass
<1>6. receipt'.verdict = "corroborated" => Box!Was("arp", TRUE) \/ ("host" \in sent /\ Box!Was("host", TRUE))
  BY <1>1, <1>3 DEF LeaseGot, ProbeWitnessed, Attempted
<1>7. receipt'.verdict = "uncorroborated" => Box!Was("arp", FALSE) /\ (sent = {} \/ Box!Was("host", FALSE))
  BY <1>1, <1>3, NoneAssumption DEF LeaseGot, ProbeWitnessed, Attempted
<1> QED BY <1>3, <1>4, <1>5, <1>6, <1>7 DEF Box!LeaseWitnessed, Box!Was

\* The receipt is printed.
LEMMA BoxEmit ==
  ASSUME BoxInv, Box!Emit
  PROVE  BoxInv'
<1>1. /\ UNCHANGED <<kind, options, world, at, got, combined, seen, sent>>
      /\ pc = "emit" /\ pc' = "combine" /\ receipt' = Box!Judged
  BY DEF Box!Emit
<1>2. BoxType'
  BY <1>1 DEF BoxInv, BoxType, Receipted
<1>3. FactsSeen'
  <2>1. Box!Facts(world, at)' = Box!Facts(world, at)
    BY <1>1 DEF Box!Facts, Box!ChosenSocket
  <2> QED BY <1>1, <2>1 DEF BoxInv, FactsSeen
<1>4. Box!VerdictIsWitnessed'
  BY <1>1, DenyJudged, GatewayJudged, LeaseJudged DEF Box!VerdictIsWitnessed, BoxInv, BoxType
<1>5. ReceiptJudged'
  BY <1>1, <1>4 DEF BoxInv, ReceiptJudged, Receipted
<1>6. kind = "deny" => DenyGot'
  BY <1>1 DEF BoxInv, DenyGot, Box!Was
<1>7. kind = "gateway" => GatewayGot'
  BY <1>1 DEF BoxInv, GatewayGot, ProbeWitnessed, Box!Was
<1>8. kind = "lease" => LeaseGot'
  BY <1>1 DEF BoxInv, LeaseGot, Holds, ProbeWitnessed, Box!Was
<1> QED BY <1>1, <1>2, <1>3, <1>5, <1>6, <1>7, <1>8 DEF BoxInv

\* The report of a gateway probe is combined with the one from outside: an open
\* basis inside is not decided by the outside (combine_gateway_path_with_external).
LEMMA BoxCombine ==
  ASSUME BoxInv, Box!CombineReport
  PROVE  BoxInv'
<1>1. /\ UNCHANGED <<kind, options, world, at, got, receipt, seen, sent>>
      /\ pc = "combine" /\ pc' \in {"done", "failed"}
      /\ \/ UNCHANGED combined
         \/ kind = "gateway" /\ \E b \in Box!Beacons : combined' = Box!Combine(receipt.verdict, b)
  BY DEF Box!CombineReport
<1>2. BoxType'
  BY <1>1 DEF BoxInv, BoxType, Receipted
<1>3. FactsSeen'
  <2>1. Box!Facts(world, at)' = Box!Facts(world, at)
    BY <1>1 DEF Box!Facts, Box!ChosenSocket
  <2> QED BY <1>1, <2>1 DEF BoxInv, FactsSeen
<1>5. Box!VerdictIsWitnessed'
  <2>1. CASE UNCHANGED combined
    BY <1>1, <2>1
    DEF BoxInv, ReceiptJudged, Box!VerdictIsWitnessed, Box!DenyWitnessed, Box!GatewayWitnessed,
        Box!LeaseWitnessed, Box!SentWere, Box!Was
  <2>2. ASSUME kind = "gateway", NEW b \in Box!Beacons, combined' = Box!Combine(receipt.verdict, b)
        PROVE  Box!VerdictIsWitnessed'
    <3>1. combined' \in {"corroborated", "divergent"} =>
            receipt.verdict \in {"corroborated", "egress_trouble"}
      BY <2>2 DEF Box!Combine, Box!LanBasis
    <3> QED BY <1>1, <2>2, <3>1
        DEF BoxInv, ReceiptJudged, Box!VerdictIsWitnessed, Box!GatewayWitnessed, Box!SentWere, Box!Was
  <2> QED BY <1>1, <2>1, <2>2
<1>6. ReceiptJudged'
  BY <1>1, <1>5 DEF BoxInv, ReceiptJudged, Receipted
<1>7. kind = "deny" => DenyGot'
  BY <1>1 DEF BoxInv, DenyGot, Box!Was
<1>8. kind = "gateway" => GatewayGot'
  BY <1>1 DEF BoxInv, GatewayGot, ProbeWitnessed, Box!Was
<1>9. kind = "lease" => LeaseGot'
  BY <1>1 DEF BoxInv, LeaseGot, Holds, ProbeWitnessed, Box!Was
<1> QED BY <1>1, <1>2, <1>3, <1>6, <1>7, <1>8, <1>9 DEF BoxInv

\* Whatever changes while a firewall box is probed, and however often, the verdict
\* rests on what was so at some moment of the probe, and the class of disturbance
\* owns up to every packet sent (compute_verdict and evaluate_* of the three
\* probes, combine_gateway_path_with_external).
THEOREM VerdictsAreWitnessed == ProbesSpec => []VerdictIsWitnessed
<1>1. ProbesInit => ProbeBoxInv
  BY BoxInit DEF ProbesInit, ProbeBoxInv
<1>2. ProbeBoxInv /\ [ProbesNext]_probeVars => ProbeBoxInv'
  <2> SUFFICES ASSUME ProbeBoxInv, [ProbesNext]_probeVars, probe' = "box"
               PROVE  BoxInv'
    BY DEF ProbeBoxInv
  <2>1. probe = "box" /\ BoxInv /\ (Box!Next \/ UNCHANGED boxVars)
    BY DEF ProbeBoxInv, ProbesNext, probeVars
  <2>2. CASE UNCHANGED boxVars
    <3>1. BoxType' /\ FactsSeen'
      BY <2>1, <2>2 DEF boxVars, BoxInv, BoxType, FactsSeen, Box!Facts, Box!ChosenSocket
    <3>2. ReceiptJudged'
      BY <2>1, <2>2
      DEF boxVars, BoxInv, ReceiptJudged, Box!VerdictIsWitnessed, Box!DenyWitnessed,
          Box!GatewayWitnessed, Box!LeaseWitnessed, Box!SentWere, Box!Was
    <3> QED BY <2>1, <2>2, <3>1, <3>2
        DEF boxVars, BoxInv, DenyGot, GatewayGot, LeaseGot, Holds, ProbeWitnessed, Box!Was
  <2>3. CASE Box!Next
    BY <2>1, <2>3, BoxChange, BoxStart, BoxFails, DenySteps, GatewaySteps, LeaseSteps, BoxEmit, BoxCombine
    DEF Box!Next
  <2> QED BY <2>1, <2>2, <2>3
<1>3. ProbeBoxInv => VerdictIsWitnessed
  BY DEF ProbeBoxInv, BoxInv, ReceiptJudged, VerdictIsWitnessed
<1> QED BY <1>1, <1>2, <1>3, PTL DEF ProbesSpec
-----------------------------------------------------------------------------
(***************************************************************************)
(* The sweep over NQ's own evaluators.                                     *)
(***************************************************************************)
SweepType ==
  /\ cycle \in 0..MaxCycles /\ time \in 0..MaxClock /\ sweepAt \in 0..MaxClock
  /\ next \in 0..Len(Fixtures)
  /\ next # 0 => cycle # 0
  /\ evaluations \in Seq(TableRows)
  /\ ran \in [Kinds -> {Nil} \cup Runs]
  /\ \A k \in Kinds : ran[k] # Nil => ran[k].cycle <= cycle

\* Row i is the latest of its kind and tells what the run r did.
LatestTells(i, k, r) ==
  /\ evaluations[i].kind = k
  /\ \A j \in DOMAIN evaluations : evaluations[j].kind = k => j <= i
  /\ evaluations[i].outcome = Classify(r.did) /\ evaluations[i].at = r.at

\* The latest row of a kind is about its latest run, unless that was not stored.
RowsTell ==
  \A k \in Kinds \ unstored :
    ran[k] # Nil => \E i \in DOMAIN evaluations : LatestTells(i, k, ran[k])

\* The kinds before the one the sweep is at were run in this sweep, and after a
\* sweep all were, or are known to be lost.
EachIsRun ==
  /\ next # 0 => \A i \in 1..(next - 1) :
       Fixtures[i] \notin Refused => ran[Fixtures[i]] # Nil /\ ran[Fixtures[i]].cycle = cycle
  /\ next = 0 /\ cycle # 0 => \A k \in Kinds \ (Refused \cup unstored) :
       ran[k] # Nil /\ ran[k].cycle = cycle

SweepInv == SweepType /\ RowsTell /\ EachIsRun
ProbeSweepInv == probe = "sweep" => SweepInv

\* The fixtures are not none, and each is of a kind.
LEMMA FixturesTyped ==
  /\ Len(Fixtures) \in Nat \ {0} /\ DOMAIN Fixtures = 1..Len(Fixtures)
  /\ \A i \in 1..Len(Fixtures) : Fixtures[i] \in Kinds
  /\ \A k \in Kinds : \E i \in 1..Len(Fixtures) : Fixtures[i] = k
BY SweepAssumption DEF SweepAssumption, Kinds

\* What was run is classified into an outcome, and only a sound run is in shape
\* (classify_outcome).
LEMMA ClassifySound ==
  ASSUME NEW b \in Behaviours
  PROVE  Classify(b) \in Outcomes /\ ((Classify(b) = "shape_valid") <=> Sound(b))
BY DEF Behaviours, Classify, Outcomes, Sound

\* The sweep goes on, or is over after the last fixture.
LEMMA SweepGoesOn ==
  ASSUME SweepType, next # 0, NEW outcome, NEW f, DOMAIN f = Kinds,
         \A i \in 1..next : Fixtures[i] \notin Refused => f[Fixtures[i]] # Nil /\ f[Fixtures[i]].cycle = cycle
  PROVE  /\ AfterFixture(outcome) \in 0..Len(Fixtures)
         /\ AfterFixture(outcome) # 0 => \A i \in 1..(AfterFixture(outcome) - 1) :
              Fixtures[i] \notin Refused => f[Fixtures[i]] # Nil /\ f[Fixtures[i]].cycle = cycle
         /\ AfterFixture(outcome) = 0 => \A k \in Kinds \ Refused : f[k] # Nil /\ f[k].cycle = cycle
<1>1. next \in 1..Len(Fixtures) /\ next \in Nat /\ Len(Fixtures) \in Nat
  BY FixturesTyped DEF SweepType
<1>2. CASE next = Len(Fixtures)
  <2>1. AfterFixture(outcome) = 0
    BY <1>2 DEF AfterFixture
  <2> QED BY <1>1, <1>2, <2>1, FixturesTyped
<1>3. CASE next # Len(Fixtures)
  <2>1. AfterFixture(outcome) = next + 1
    BY <1>3 DEF AfterFixture
  <2> QED BY <1>1, <1>3, <2>1
<1> QED BY <1>2, <1>3

\* Before the first sweep nothing was run.
LEMMA SweepInit == Init => SweepInv
<1> SUFFICES ASSUME Init PROVE SweepInv
  OBVIOUS
<1>1. \A k \in Kinds : ran[k] = Nil
  BY DEF Init
<1>2. SweepType
  BY <1>1, SweepAssumption, FixturesTyped DEF SweepAssumption, Init, SweepType
<1> QED BY <1>1, <1>2 DEF Init, SweepInv, RowsTell, EachIsRun

\* A sweep begins: earlier runs are still told by their rows.
LEMMA SweepBegin ==
  ASSUME SweepInv, BeginSweep
  PROVE  SweepInv'
<1>1. /\ UNCHANGED <<time, evaluations, ran, unstored>> /\ sweepAt' = time
      /\ cycle' = cycle + 1 /\ next' = 1 /\ cycle \in Nat /\ cycle < MaxCycles
  BY SweepAssumption DEF SweepAssumption, BeginSweep, SweepInv, SweepType
<1>2. \A k \in Kinds : ran[k] # Nil => ran[k].cycle \in Nat
  BY DEF SweepInv, SweepType, Runs
<1>3. SweepType'
  BY <1>1, <1>2, SweepAssumption, FixturesTyped DEF SweepAssumption, SweepInv, SweepType
<1>4. RowsTell'
  BY <1>1 DEF SweepInv, RowsTell, LatestTells
<1>5. EachIsRun'
  BY <1>1 DEF EachIsRun
<1> QED BY <1>3, <1>4, <1>5 DEF SweepInv

\* A kind without an adapter is passed over.
LEMMA SweepSkip ==
  ASSUME SweepInv, SkipFixture
  PROVE  SweepInv'
<1>1. /\ UNCHANGED <<cycle, sweepAt, time, evaluations, ran, unstored>>
      /\ next # 0 /\ Fixtures[next] \in Refused /\ next' = AfterFixture("refused")
  BY DEF SkipFixture, SweepInv, SweepType
<1>2. next \in Nat /\ \A i \in 1..next : i # next => i \in 1..(next - 1)
  BY FixturesTyped DEF SweepInv, SweepType
<1>3. \A i \in 1..next : Fixtures[i] \notin Refused => ran[Fixtures[i]] # Nil /\ ran[Fixtures[i]].cycle = cycle
  BY <1>1, <1>2 DEF SweepInv, EachIsRun
<1>4. SweepType /\ DOMAIN ran = Kinds
  BY DEF SweepInv, SweepType
<1>5. /\ next' \in 0..Len(Fixtures)
      /\ next' # 0 => \A i \in 1..(next' - 1) :
           Fixtures[i] \notin Refused => ran[Fixtures[i]] # Nil /\ ran[Fixtures[i]].cycle = cycle
      /\ next' = 0 => \A k \in Kinds \ Refused : ran[k] # Nil /\ ran[k].cycle = cycle
  BY <1>1, <1>3, <1>4, SweepGoesOn
<1>6. SweepType'
  BY <1>1, <1>5 DEF SweepInv, SweepType
<1>7. RowsTell'
  BY <1>1 DEF SweepInv, RowsTell, LatestTells
<1>8. EachIsRun'
  BY <1>1, <1>5 DEF EachIsRun
<1> QED BY <1>6, <1>7, <1>8 DEF SweepInv

\* A kind is run, whatever becomes of it, and its row is inserted or lost.
LEMMA SweepProbe ==
  ASSUME SweepInv, ProbeFixture
  PROVE  SweepInv'
<1> DEFINE k == Fixtures[next]
           row(b) == [kind |-> k, outcome |-> Classify(b), at |-> sweepAt, cycle |-> cycle,
                      timed |-> Classify(b) \in {"shape_valid", "kind_mismatch", "timed_out"}]
           run(b) == [did |-> b, at |-> sweepAt, cycle |-> cycle]
<1>1. PICK b \in Behaviours, stored \in BOOLEAN :
        /\ evaluations' = IF stored THEN Append(evaluations, row(b)) ELSE evaluations
        /\ ran' = [ran EXCEPT ![k] = run(b)]
        /\ unstored' = IF stored THEN unstored \ {k} ELSE unstored \cup {k}
        /\ next' = AfterFixture(IF stored THEN Classify(b) ELSE "uninserted")
  BY DEF ProbeFixture
<1>2. UNCHANGED <<cycle, sweepAt, time>> /\ next # 0 /\ k \notin Refused
  BY DEF ProbeFixture, SweepInv, SweepType
<1>3. next \in Nat /\ k \in Kinds /\ \A i \in 1..next : i # next => i \in 1..(next - 1)
  BY <1>2, FixturesTyped DEF SweepInv, SweepType
<1>4. row(b) \in TableRows /\ run(b) \in Runs
  BY <1>3, ClassifySound DEF SweepInv, SweepType, TableRows, Runs
<1>5. run(b) # Nil /\ run(b).cycle = cycle
  BY <1>4, NoneAssumption
<1>6. /\ DOMAIN ran' = Kinds /\ ran'[k] = run(b)
      /\ \A l \in Kinds : l # k => ran'[l] = ran[l]
      /\ ran' \in [Kinds -> {Nil} \cup Runs]
  BY <1>1, <1>3, <1>4 DEF SweepInv, SweepType
<1>7. \A i \in 1..next : Fixtures[i] \notin Refused => ran'[Fixtures[i]] # Nil /\ ran'[Fixtures[i]].cycle = cycle
  <2> SUFFICES ASSUME NEW i \in 1..next, Fixtures[i] \notin Refused
               PROVE  ran'[Fixtures[i]] # Nil /\ ran'[Fixtures[i]].cycle = cycle
    OBVIOUS
  <2>1. CASE Fixtures[i] = k
    BY <1>5, <1>6, <2>1
  <2>2. CASE Fixtures[i] # k
    <3>1. i \in 1..(next - 1) /\ Fixtures[i] \in Kinds
      BY <1>2, <1>3, <2>2, FixturesTyped DEF SweepInv, SweepType
    <3>2. ran'[Fixtures[i]] = ran[Fixtures[i]]
      BY <1>6, <2>2, <3>1
    <3> QED BY <1>2, <3>1, <3>2 DEF SweepInv, EachIsRun
  <2> QED BY <2>1, <2>2
<1>8. /\ next' \in 0..Len(Fixtures)
      /\ next' # 0 => \A i \in 1..(next' - 1) :
           Fixtures[i] \notin Refused => ran'[Fixtures[i]] # Nil /\ ran'[Fixtures[i]].cycle = cycle
      /\ next' = 0 => \A l \in Kinds \ Refused : ran'[l] # Nil /\ ran'[l].cycle = cycle
  <2>1. SweepType
    BY DEF SweepInv
  <2>2. PICK outcome : next' = AfterFixture(outcome)
    BY <1>1
  <2>3. PICK f : f = ran'
    OBVIOUS
  <2> QED BY <1>2, <1>6, <1>7, <2>1, <2>2, <2>3, SweepGoesOn
<1>9. SweepType'
  <2>1. evaluations' \in Seq(TableRows)
    BY <1>1, <1>4 DEF SweepInv, SweepType
  <2>2. \A l \in Kinds : ran'[l] # Nil => ran'[l].cycle <= cycle
    BY <1>3, <1>5, <1>6 DEF SweepInv, SweepType
  <2> QED BY <1>2, <1>6, <1>8, <2>1, <2>2 DEF SweepInv, SweepType
<1>10. RowsTell'
  <2> SUFFICES ASSUME NEW l \in Kinds, l \notin unstored', ran'[l] # Nil
               PROVE  \E i \in DOMAIN evaluations' : LatestTells(i, l, ran[l])'
    BY DEF RowsTell
  <2>1. PICK n \in Nat : n = Len(evaluations) /\ DOMAIN evaluations = 1..n
    BY DEF SweepInv, SweepType
  <2>2. CASE ~stored
    <3>1. l # k /\ l \notin unstored /\ evaluations' = evaluations /\ ran'[l] = ran[l]
      BY <1>1, <1>6, <2>2
    <3> QED BY <3>1 DEF SweepInv, RowsTell, LatestTells
  <2>3. CASE stored
    <3>1. /\ DOMAIN evaluations' = 1..(n + 1) /\ evaluations'[n + 1] = row(b)
          /\ \A i \in DOMAIN evaluations : evaluations'[i] = evaluations[i]
      BY <1>1, <2>1, <2>3 DEF SweepInv, SweepType
    <3> HIDE DEF row
    <3>2. CASE l = k
      <4>1. row(b).kind = k /\ row(b).outcome = Classify(b) /\ row(b).at = sweepAt
        BY DEF row
      <4>2. ran'[l].did = b /\ ran'[l].at = sweepAt
        BY <1>6, <3>2
      <4>3. LatestTells(n + 1, l, ran[l])'
        BY <2>1, <3>1, <3>2, <4>1, <4>2 DEF LatestTells
      <4> QED BY <2>1, <3>1, <4>3
    <3>3. CASE l # k
      <4>1. l \notin unstored /\ ran'[l] = ran[l]
        BY <1>1, <1>6, <2>3, <3>3
      <4>2. PICK i \in DOMAIN evaluations : LatestTells(i, l, ran[l])
        BY <4>1 DEF SweepInv, RowsTell
      <4>3. row(b).kind = k
        BY DEF row
      <4>4. LatestTells(i, l, ran[l])'
        BY <2>1, <3>1, <3>3, <4>1, <4>2, <4>3 DEF LatestTells
      <4> QED BY <2>1, <3>1, <4>2, <4>4
    <3> QED BY <3>2, <3>3
  <2> QED BY <2>2, <2>3
<1>11. EachIsRun'
  BY <1>2, <1>8 DEF EachIsRun
<1> QED BY <1>9, <1>10, <1>11 DEF SweepInv

\* The process stops inside a sweep: what it did not come to is lost.
LEMMA SweepCrash ==
  ASSUME SweepInv, Crash
  PROVE  SweepInv'
<1>1. /\ UNCHANGED <<cycle, sweepAt, time, evaluations, ran>> /\ next' = 0
      /\ unstored' = unstored \cup {k \in Kinds \ Refused : ran[k] = Nil \/ ran[k].cycle < cycle}
  BY DEF Crash
<1>2. SweepType'
  BY <1>1 DEF SweepInv, SweepType
<1>3. RowsTell'
  BY <1>1 DEF SweepInv, RowsTell, LatestTells
<1>4. \A k \in Kinds : ran[k] # Nil => ran[k].cycle \in Nat /\ ran[k].cycle <= cycle
  BY DEF SweepInv, SweepType, Runs
<1>5. EachIsRun'
  BY <1>1, <1>4 DEF SweepInv, SweepType, EachIsRun
<1> QED BY <1>2, <1>3, <1>5 DEF SweepInv

\* What the preflight reads of a kind is the row the invariant speaks of.
LEMMA VerdictReads ==
  ASSUME SweepType, NEW k \in Kinds, NEW i \in DOMAIN evaluations, ran[k] # Nil, LatestTells(i, k, ran[k])
  PROVE  (Verdict(k) = "admissible_with_scope") <=> (Sound(ran[k].did) /\ time <= ran[k].at + Stale)
<1> DEFINE own == {j \in DOMAIN evaluations : evaluations[j].kind = k}
<1>1. DOMAIN evaluations \subseteq Nat /\ evaluations[i] \in TableRows
  BY DEF SweepType
<1>2. i \in own /\ \A j \in own : j <= i
  BY DEF LatestTells
<1>3. \A m \in own : (\A j \in own : j <= m) => m = i
  BY <1>1, <1>2
<1>4. LatestRow(k) = evaluations[i]
  BY <1>2, <1>3 DEF LatestRow
<1>5. evaluations[i] # Nil /\ evaluations[i].at \in Nat /\ time \in Nat /\ Stale \in Nat
  BY <1>1, NoneAssumption, SweepAssumption DEF SweepType, TableRows, SweepAssumption
<1>6. ran[k].did \in Behaviours
  BY DEF SweepType, Runs
<1>7. evaluations[i].outcome = "shape_valid" <=> Sound(ran[k].did)
  BY <1>6, ClassifySound DEF LatestTells
<1> QED BY <1>4, <1>5, <1>7 DEF Verdict, LatestTells

\* Whatever an evaluator does, whatever insert fails and wherever the process
\* stops: between two sweeps the verdict on a kind is about its latest run, and
\* that run was in the latest sweep (run_probe_sweep, classify_outcome,
\* evaluate_nq_evaluator_state_preflight_at).
THEOREM SweepsTellEach == ProbesSpec => []SweepTellsEach
<1>1. ProbesInit => ProbeSweepInv
  BY SweepInit DEF ProbesInit, ProbeSweepInv
<1>2. ProbeSweepInv /\ [ProbesNext]_probeVars => ProbeSweepInv'
  <2> SUFFICES ASSUME ProbeSweepInv, [ProbesNext]_probeVars, probe' = "sweep"
               PROVE  SweepInv'
    BY DEF ProbeSweepInv
  <2>1. probe = "sweep" /\ SweepInv /\ (Next \/ UNCHANGED sweepVars)
    BY DEF ProbeSweepInv, ProbesNext, probeVars
  <2>2. CASE UNCHANGED sweepVars
    BY <2>1, <2>2 DEF sweepVars, SweepInv, SweepType, RowsTell, LatestTells, EachIsRun
  <2>3. CASE Clock
    <3>1. /\ UNCHANGED <<cycle, next, sweepAt, evaluations, ran, unstored>> /\ time' \in 0..MaxClock
      BY <2>3 DEF Clock
    <3> QED BY <2>1, <3>1 DEF SweepInv, SweepType, RowsTell, LatestTells, EachIsRun
  <2> QED BY <2>1, <2>2, <2>3, SweepBegin, SweepSkip, SweepProbe, SweepCrash DEF Next
<1>3. ProbeSweepInv => SweepTellsEach
  <2> SUFFICES ASSUME SweepInv, next = 0, cycle > 0, NEW k \in Kinds \ Refused, k \notin unstored
               PROVE  /\ ran[k] # Nil /\ ran[k].cycle = cycle
                      /\ (Verdict(k) = "admissible_with_scope")
                           <=> (Sound(ran[k].did) /\ time <= ran[k].at + Stale)
    BY DEF ProbeSweepInv, SweepTellsEach, VerdictsAreLatest
  <2>1. ran[k] # Nil /\ ran[k].cycle = cycle
    BY DEF SweepInv, SweepType, EachIsRun
  <2>2. PICK i \in DOMAIN evaluations : LatestTells(i, k, ran[k])
    BY <2>1 DEF SweepInv, RowsTell
  <2> QED BY <2>1, <2>2, VerdictReads DEF SweepInv
<1> QED BY <1>1, <1>2, <1>3, PTL DEF ProbesSpec
=============================================================================
