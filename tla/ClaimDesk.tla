----------------------------- MODULE ClaimDesk ------------------------------
(***************************************************************************)
(* Receipts over time.  One desk either verifies claims over packet files  *)
(* (nq-monitor verify), or answers preflights of one kind over the rows of *)
(* one target.  Files are collected, rows are written, the clock           *)
(* runs and is set back, and receipt files are altered on disk, with their *)
(* hash left as it was or computed again.  Readers - check, replay, a      *)
(* reliance decision - change nothing, so they are not actions: the        *)
(* properties ask what each of them would answer in every state.           *)
(*                                                                         *)
(* book is the receipts written so far.  Of an entry, supply, from and     *)
(* edited are history: the packets it was evaluated over, how many rows    *)
(* there were, and whether its file was altered since.                     *)
(***************************************************************************)
EXTENDS Preflights

CONSTANTS
  Desks,        \* what the desk may be: "claim_registry" and preflight kinds
  Drafts,       \* packets that may be collected
  Subject,      \* the subject that is asked about
  Questions,    \* claims that are asked
  Says,         \* [preflight kind -> what a row of it may say]
  Profiles, Contexts,
  Requests,     \* claim and purpose of reliance requests, beside a receipt's own
  MaxTime, MaxBack, MaxRows, MaxFiles,
  MaxReceipts,  \* receipts of a registry desk
  MaxAnswers,   \* and of a preflight desk
  MaxNamed      \* most files of a command line that names one of them twice

ASSUME ClaimDeskAssumption ==
  /\ {MaxTime, MaxBack, MaxRows, MaxFiles, MaxReceipts, MaxAnswers, MaxNamed} \subseteq Nat
  /\ Desks \subseteq {"claim_registry"} \cup Timed \cup Untimed
  /\ \A p \in Drafts : p.obs \subseteq {"holds", "fails"} /\ p.at \in Nat /\ "basis" \in DOMAIN p
  /\ \A profile \in Profiles : profile.maxAge \in Nat
  /\ \A context \in Contexts : context.age \in Nat \cup {None}

VARIABLES
  desk,    \* what this desk is
  now,     \* wall clock
  back,    \* how often it was set back
  rows,    \* rows of the target, in the order of their ids
  files,   \* packet files on disk
  book     \* receipts on disk

vars == <<desk, now, back, rows, files, book>>

Init ==
  /\ desk \in Desks
  /\ now = 0 /\ back = 0
  /\ rows = <<>> /\ files = {} /\ book = {}

Registry == desk = "claim_registry"

-----------------------------------------------------------------------------
(* The clock, and the rows of a preflight target.                          *)

Tick ==
  /\ ~Registry /\ now < MaxTime
  /\ now' = now + 1
  /\ UNCHANGED <<desk, back, rows, files, book>>

SetBack ==
  /\ ~Registry /\ now > 0 /\ back < MaxBack
  /\ now' = now - 1 /\ back' = back + 1
  /\ UNCHANGED <<desk, rows, files, book>>

\* The second time of a row.  A failed source of a generation was received
\* before the cycle completed, or, when the clock was set back in between,
\* after it; a main file was written at some earlier time, or by a clock ahead.
Got(says) ==
  IF desk = "sqlite_wal_state" /\ says \cap Unobserved = {} THEN {now - 1, now + 1} \cap 0..MaxTime
  ELSE IF desk = "ingest_state" /\ "partial" \in says THEN {now - 1, now, now + 1} \cap 0..MaxTime
  ELSE {None}

\* A row is stamped with the time it was taken.
Observe ==
  /\ ~Registry /\ Len(rows) < MaxRows
  /\ \E says \in Says[desk] : \E got \in Got(says) :
         rows' = Append(rows, [at |-> now, says |-> says, got |-> got])
  /\ UNCHANGED <<desk, now, back, files, book>>

Entry(r, supply) ==
  [body |-> r.body, hash |-> r.hash, supply |-> supply, from |-> Len(rows), edited |-> FALSE]

\* An evaluator's answer, as a receipt.
Answer ==
  /\ ~Registry /\ Cardinality(book) < MaxAnswers
  /\ \E res \in Preflight(desk, rows, now) :
       book' = book \cup {Entry(FromPreflight(desk, res, now), EmptyBag)}
  /\ UNCHANGED <<desk, now, back, rows, files>>

-----------------------------------------------------------------------------
(* Packet files and verify.                                                *)

Collect ==
  /\ Registry /\ Cardinality(files) < MaxFiles
  /\ \E p \in Drafts \ files : files' = files \cup {p}
  /\ UNCHANGED <<desk, now, back, rows, book>>

\* What may be named on a command line: files, one of them perhaps twice.
Supplies(ps) ==
  {SetToBag(ps)}
  \cup (IF Cardinality(ps) > MaxNamed THEN {}
        ELSE {[q \in ps |-> IF q = p THEN 2 ELSE 1] : p \in ps})

\* verify: all files of the directory, one perhaps named twice.
Verify ==
  /\ Registry /\ Cardinality(book) < MaxReceipts
  /\ \E c \in Questions, supply \in Supplies(files) :
       book' = book \cup {Entry(Evaluate(c, Subject, supply, now), supply)}
  /\ UNCHANGED <<desk, now, back, rows, files>>

\* A receipt file of a registry desk is altered to say verified; at most one
\* is.
Alter ==
  \E e \in book, reseal \in BOOLEAN :
    LET body == [e.body EXCEPT !.finding = Verified({e.body.claim})] IN
    /\ Registry /\ e.body # body /\ \A x \in book : ~x.edited
    /\ book' = (book \ {e}) \cup
               {[e EXCEPT !.body = body, !.hash = IF reseal THEN body ELSE @, !.edited = TRUE]}
    /\ UNCHANGED <<desk, now, back, rows, files>>

Next == Tick \/ SetBack \/ Observe \/ Answer \/ Collect \/ Verify \/ Alter

Spec == Init /\ [][Next]_vars

-----------------------------------------------------------------------------
(* Properties.                                                             *)

\* A receipt that check --fresh still passes is never one its own evaluator,
\* asked again now over the rows it was made from, would call stale, and one
\* that is past its horizon is never verified by it: the two thresholds, which
\* are computed in different crates at different times, agree to the second at
\* which they meet.  A generation whose failed source carries a later stamp
\* than the generation is left out: its horizon runs from the source.
StaleTogether ==
  \A e \in book :
    LET then == SubSeq(rows, 1, e.from)
        again == {res.verdict : res \in Preflight(desk, then, now)}
    IN (e.body.horizon # None /\ \A i \in DOMAIN then : then[i].got <= then[i].at) =>
       /\ FreshOutcome(e.body, now) = "ok" => "stale_testimony" \notin again
       /\ now > e.body.horizon => "admissible_with_scope" \notin again

\* A receipt evaluated over distinct packets replays with exactly the packets
\* of its subject, in any number of copies and with any of other subjects
\* beside them; with one of them missing or one more of the subject it does
\* not.  And whatever is in the file, a replay that says ok means that the
\* packets it names, and no others, yield what it says.
ReplayReproduces ==
  \A e \in book : \A ps \in SUBSET files : \A supply \in Supplies(ps) :
    LET mine == {p \in ps : p.subject = e.body.subject}
        ok == ReplayExit(e, supply, None) = 0
    IN /\ (/\ ~e.edited
           /\ e.body.evaluator = "claim_registry"
           /\ \A p \in BagToSet(e.supply) : e.supply[p] = 1
           /\ \A p \in ps : p.valid) => (ok <=> mine = Anchored(e.body))
       /\ ok => Evaluate(e.body.claim, e.body.subject, SetToBag(Anchored(e.body)), None).body.finding
                  = e.body.finding

\* check tells a file that was altered and not sealed again from every other,
\* whatever packets are at hand, and a strict check passes only a receipt
\* that is as it was sealed against exactly the packets of its subject that
\* were evaluated, each named once.
CheckTellsTheFiles ==
  \A e \in book : \A ps \in SUBSET files : \A supply \in Supplies(ps) :
    LET mine == {p \in BagToSet(e.supply) : p.subject = e.body.subject}
        altered == e.edited /\ e.hash # e.body /\ e.hash # Unsealed
    IN (\A p \in ps : p.valid) =>
       /\ CheckExit(e, supply, None, TRUE) = 2 <=> altered
       /\ e.body.evaluator = "claim_registry" =>
            (CheckExit(e, supply, None, TRUE) = 0 <=> (~altered /\ supply = SetToBag(mine)))

\* What is asked of a receipt: its own claim for review, and other requests.
RequestsOf(e) == {[claim |-> e.body.claim, purpose |-> "review"]} \cup Requests

LeavesOf(c) == IF c \in Composites THEN Requires[c] ELSE {c}

\* What a receipt as it was written stands on.
Grounded(e) ==
  IF e.body.evaluator = "claim_registry"
  THEN LET mine == {p \in BagToSet(e.supply) : p.subject = e.body.subject} IN
       /\ e.body.claim \in Leaves \cup Composites
       /\ \A leaf \in LeavesOf(e.body.claim) :
            LET heard == {p \in mine : p.type = WitnessType[leaf]} IN
            /\ \E p \in heard : "holds" \in p.obs
            /\ \A p \in heard : "fails" \notin p.obs
  ELSE \E res \in Preflight(desk, SubSeq(rows, 1, e.from), e.body.made) :
         res.target = e.body.subject /\ res.verdict = "admissible_with_scope"

\* A request about a receipt, with the supporting receipts it binds.
RequestFor(e, q, supporting) ==
  [claim |-> q.claim, purpose |-> q.purpose, receipt |-> e.hash,
   bound |-> {s.hash : s \in supporting}]

\* Whatever claim was asked about, reliance is authorised only on a receipt that,
\* unless its file was altered, stands on packets (or rows) that all support
\* every leaf of the claim it carries, of accepted custody, with the age within
\* the limit if the caller stated one, and with a supporting receipt about the
\* same subject that stands the same way for each claim the profile requires.
\* The claim asked about is one the profile allows and the receipt does not
\* refuse; that it is the claim the receipt carries is not required (the run
\* relied).  A WAL receipt relied on has a classified band.
AuthorizedStands ==
  \A e \in {e \in book : ~e.edited} :
   \A profile \in Profiles, context \in Contexts, q \in RequestsOf(e), supporting \in SUBSET book :
    LET mine == {p \in BagToSet(e.supply) : p.subject = e.body.subject}
    IN Decide(RequestFor(e, q, supporting), e, supporting, context, profile)
         = "authorized_reliance" =>
       /\ Grounded(e)
       /\ e.body.evaluator = "sqlite_wal_state" => e.body.signals.band # "unclassified"
       /\ \A p \in mine : p.basis \in profile.bases
       /\ context.age = None \/ context.age <= profile.maxAge
       /\ q.claim \in profile.claims /\ q.claim \notin e.body.refuses.names
       /\ \A c \in profile.required : \E s \in supporting :
            /\ s.body.claim = c /\ s.body.subject = e.body.subject
            /\ s.edited \/ Grounded(s)
-----------------------------------------------------------------------------
(* What a document says and the code does not do.                          *)

\* CONSUMER_RELIANCE.md: "authorized_reliance requires all of: the claim is
\* verified; ...".  Here: what is authorised is a request about the claim that
\* the receipt carries as verified.
AuthorizedClaimIsVerified ==
  \A e \in {e \in book : ~e.edited} :
   \A profile \in Profiles, context \in Contexts, q \in RequestsOf(e), supporting \in SUBSET book :
     Decide(RequestFor(e, q, supporting), e, supporting, context, profile) = "authorized_reliance"
     => e.body.claim = q.claim /\ e.body.finding.status = "verified"
=============================================================================
