------------------------------ MODULE Dashboard ------------------------------
(***************************************************************************)
(* The operator dashboard: the pages dashboard.rs loads in one read        *)
(* transaction and operator_dashboard.rs renders, the script those pages   *)
(* run in a browser, and the two action routes (http/routes.rs) it calls.  *)
(*                                                                         *)
(* The store moves on under an open page: a generation and its lifecycle   *)
(* pass are two transactions, retention deletes observations, sources are  *)
(* retired, an import touches rows without observing anything, and the     *)
(* clock goes on or is set back.  The page's script disables its controls  *)
(* from a timer while a preview it asked for may still be on its way.      *)
(***************************************************************************)
EXTENDS Integers, FiniteSets

CONSTANTS
  None,
  Findings,      \* identities of warning_state
  WithEvidence,  \* those of kinds error_shift and smart_status_lies
  SelfHealth,    \* those about NQ itself
  Watched,       \* those whose action_bias is "watch"
  Fresh,         \* DASHBOARD_STALE_AFTER_SECONDS and FINDING_ACTION_MAX_AGE_SECONDS
  RecoveryGens,  \* absences after which a row is deleted
  DisplayLag,    \* generations a row may be behind its page (2 in the code)
  Targets,       \* target_work_state of the actions an operator takes
  MaxGenerations, MaxTime, MaxEdits \* bounds

ASSUME DashAssumption ==
  /\ Fresh \in Nat /\ RecoveryGens \in Nat /\ DisplayLag \in Nat
  /\ MaxGenerations \in Nat /\ MaxTime \in Nat /\ MaxEdits \in Nat
  /\ None \notin [id : Nat, at : Nat, complete : BOOLEAN]

VARIABLES
  now,           \* the clock of the server and of the browser's machine
  latest,        \* the latest generation: [id, at, complete]
  due,           \* its lifecycle pass has not run
  rows,          \* warning_state: identity -> row, None without one
  observed,      \* finding_observations: latest retained [gen, at], or None
  moved,         \* identities with a row in finding_transitions
  evidence,      \* the current row evidence is read from: [gen, at], or None
  firedIn,       \* history: generation each identity was last seen in, 0 before
  page,          \* what the browser shows, or None
  dialog         \* the action dialog of a detail page

dashVars == <<now, latest, due, rows, observed, moved, evidence, firedIn, page, dialog>>
storeVars == <<latest, due, rows, observed, moved, evidence, firedIn>>
-----------------------------------------------------------------------------
Muted == {"quiesced", "closed", "suppressed"}

\* observation_is_stale and validate_action_timestamp draw the same boundary;
\* a time stamp from the future is on the far side of it.
InAge(at, t) == t - at \in 0 .. Fresh

\* load_latest_observation, kept only if it is the row's own.
CurrentObservation(f) ==
  IF observed[f] # None /\ observed[f].gen = rows[f].last THEN observed[f] ELSE None

\* load_finding_evidence: the current row, if it is of the row's generation.
HasEvidence(f) ==
  f \in WithEvidence => evidence[f] # None /\ evidence[f].gen = rows[f].last

\* Mutant: a row of an earlier generation is no issue.
CoherentAnyGen(f) ==
  /\ observed[f] # None => observed[f].gen = rows[f].last
  /\ HasEvidence(f)
\* dashboard_finding_from_raw: no coherence issue was found.
Coherent(f) ==
  /\ observed[f] # None => observed[f].gen = rows[f].last
  /\ latest # None => latest.id = rows[f].last
  /\ HasEvidence(f)

\* The time a finding is judged by: its observation's, or the row's.
SeenAt(f) == IF CurrentObservation(f) # None THEN observed[f].at ELSE rows[f].at

\* classify_finding_status.  stability is "recovering" exactly while
\* absent_gens is positive, so the column is left out.
Status(f) ==
  LET r == rows[f] IN
  IF ~Coherent(f) THEN "unknown"
  ELSE IF r.basis = "retired" THEN "retired"
  ELSE IF ~r.visible THEN "suppressed"
  ELSE IF r.basis = "unknown" THEN "unknown"
  ELSE IF ~InAge(SeenAt(f), now) THEN "stale"
  ELSE IF r.absent > 0 THEN "recovering" ELSE "ongoing"

\* render_overview.  The section "Recently changed" asks for an ongoing
\* finding that is neither muted, watched nor in need of attention: there is
\* none, and it is left out.
Section(f) ==
  LET work == rows[f].work IN
  IF f \in SelfHealth THEN "self_health"
  ELSE IF Status(f) # "ongoing" THEN "unknowns"
  ELSE IF work \in Muted THEN "coordinated"
  ELSE IF work = "watching" \/ f \in Watched THEN "watching" ELSE "attention"

\* render_actions, of a server with write access.
Offered(f) ==
  /\ latest # None /\ latest.complete
  /\ latest.id = rows[f].last
  /\ InAge(latest.at, now)
  /\ Status(f) = "ongoing"
  /\ rows[f].basis = "live"

\* resolve_and_validate of finding_actions.rs, for what a dialog sends.
Actionable(f, request) ==
  /\ rows[f] # None
  /\ rows[f].work = request.work
  /\ rows[f].last = request.gen
  /\ observed[f] # None => observed[f].gen = rows[f].last
  /\ rows[f].visible /\ rows[f].absent = 0 /\ rows[f].basis = "live"
  /\ latest # None /\ latest.complete /\ latest.id = rows[f].last
  /\ InAge(latest.at, now) /\ InAge(SeenAt(f), now)
-----------------------------------------------------------------------------
NoDialog == [open |-> FALSE, input |-> 0, confirm |-> FALSE, asked |-> None, told |-> None]

DashInit ==
  /\ now = 0 /\ latest = None /\ due = FALSE
  /\ rows = [f \in Findings |-> None] /\ observed = [f \in Findings |-> None]
  /\ moved = {} /\ evidence = [f \in Findings |-> None]
  /\ firedIn = [f \in Findings |-> 0]
  /\ page = None /\ dialog = NoDialog

\* The server.

\* publish_batch: the current rows of the sources that reported are replaced.
Publish ==
  /\ latest # None => latest.id < MaxGenerations
  /\ \E complete \in BOOLEAN, reporting \in SUBSET WithEvidence :
       LET id == IF latest = None THEN 1 ELSE latest.id + 1 IN
       /\ latest' = [id |-> id, at |-> now, complete |-> complete]
       /\ evidence' = [f \in Findings |-> IF f \in reporting
                         THEN [gen |-> id, at |-> now] ELSE evidence[f]]
  /\ due' = TRUE
  /\ UNCHANGED <<now, rows, observed, moved, firedIn, page, dialog>>

FiredRow(f) ==
  IF rows[f] = None
  THEN [last |-> latest.id, at |-> latest.at, absent |-> 0, visible |-> TRUE,
        basis |-> "live", work |-> "new"]
  ELSE [rows[f] EXCEPT !.last = latest.id, !.at = latest.at, !.absent = 0,
                       !.visible = TRUE, !.basis = IF @ = "retired" THEN @ ELSE "live"]

MissingRow(f, masked) ==
  IF rows[f] = None THEN None
  ELSE IF masked THEN [rows[f] EXCEPT !.visible = FALSE]
  ELSE IF rows[f].absent + 1 >= RecoveryGens THEN None
  ELSE [rows[f] EXCEPT !.absent = @ + 1]

\* The lifecycle pass: a finding with evidence fires only on the rows of its
\* generation (its detector reads the current tables).
Pass ==
  /\ due
  /\ due' = FALSE
  /\ \E fires, masked \in SUBSET Findings :
       /\ \A f \in fires \cap WithEvidence :
            evidence[f] # None /\ evidence[f].gen = latest.id
       /\ rows' = [f \in Findings |-> IF f \in fires THEN FiredRow(f)
                                       ELSE MissingRow(f, f \in masked)]
       /\ observed' = [f \in Findings |-> IF f \in fires
                         THEN [gen |-> latest.id, at |-> latest.at] ELSE observed[f]]
       /\ firedIn' = [f \in Findings |-> IF f \in fires THEN latest.id ELSE firedIn[f]]
  /\ UNCHANGED <<now, latest, moved, evidence, page, dialog>>

\* insert_imported_finding over an existing row: no observation is written.
Import(f) ==
  /\ rows[f] # None /\ latest # None
  /\ rows' = [rows EXCEPT ![f].last = latest.id, ![f].at = now]
  /\ firedIn' = [firedIn EXCEPT ![f] = latest.id]
  /\ UNCHANGED <<now, latest, due, observed, moved, evidence, page, dialog>>

\* Retention deletes a generation and its observations with it.
Prune(f) ==
  /\ observed[f] # None /\ observed[f].gen < latest.id
  /\ observed' = [observed EXCEPT ![f] = None]
  /\ UNCHANGED <<now, latest, due, rows, moved, evidence, firedIn, page, dialog>>

\* nq source retire, or the basis of a finding that is lost otherwise.
LoseBasis(f) ==
  /\ rows[f] # None /\ rows[f].basis = "live"
  /\ \E b \in {"retired", "unknown"} : rows' = [rows EXCEPT ![f].basis = b]
  /\ UNCHANGED <<now, latest, due, observed, moved, evidence, firedIn, page, dialog>>

Tick ==
  /\ now < MaxTime /\ now' = now + 1
  /\ UNCHANGED <<storeVars, page, dialog>>

SetBack ==
  /\ now > 0 /\ latest # None /\ now' = latest.at - 1 /\ now' >= 0
  /\ UNCHANGED <<storeVars, page, dialog>>
-----------------------------------------------------------------------------
\* The browser.

\* load_current_findings: every row of warning_state.
Cards == [f \in {g \in Findings : rows[g] # None} |->
            [section |-> Section(f), status |-> Status(f)]]

\* load_inventory: how a row of a current table is shown.  Its standing is a
\* matter of time, its place in the display of generations.
Inventory ==
  [f \in {g \in Findings : evidence[g] # None} |->
     [standing |-> CASE evidence[f].at > now        -> "clock_skew"
                     [] InAge(evidence[f].at, now)  -> "admissible"
                     [] OTHER                       -> "stale",
      old |-> latest.id - evidence[f].gen \notin 0 .. DisplayLag]]

\* GET /: all of it from one snapshot.
LoadOverview ==
  /\ page' = [of |-> "overview", cards |-> Cards, inventory |-> Inventory]
  /\ dialog' = NoDialog
  /\ UNCHANGED <<now, storeVars>>

\* resolve_finding_identity: an observation, a row or a transition names it.
Known(f) == observed[f] # None \/ rows[f] # None \/ f \in moved

\* render_finding_detail.  Only a current finding can be acted on.
DetailKind(f) ==
  CASE ~Known(f)          -> "missing"
    [] rows[f] # None     -> "current"
    [] OTHER              -> "historical"

\* render_current_detail: a dialog's data attributes are those of the row.
CurrentDetail(f) ==
  [of |-> "finding", finding |-> f, kind |-> "current", offered |-> Offered(f),
   current |-> Status(f) = "ongoing", seenAt |-> SeenAt(f), stale |-> FALSE,
   request |-> [work |-> rows[f].work, gen |-> rows[f].last]]

\* GET /finding?key=...
LoadDetail(f) ==
  /\ page' = IF DetailKind(f) = "current" THEN CurrentDetail(f)
             ELSE [of |-> "finding", finding |-> f, kind |-> DetailKind(f),
                   offered |-> FALSE, stale |-> FALSE]
  /\ dialog' = NoDialog
  /\ UNCHANGED <<now, storeVars>>

OnDetail == page # None /\ page.of = "finding" /\ page.offered

\* The controls are disabled and an open dialog is closed.
CloseDialog == [dialog EXCEPT !.confirm = FALSE, !.open = FALSE]

\* refreshOpenPageFreshness, from its timer.
RefreshOpenPageFreshness ==
  /\ OnDetail /\ page.current
  /\ ~InAge(page.seenAt, now)
  /\ page' = [page EXCEPT !.stale = TRUE]
  /\ dialog' = CloseDialog
  /\ UNCHANGED <<now, storeVars>>

\* previewFindingAction, from the button that opens the dialog or the one in
\* it.  One preview at a time is a bound.
Preview ==
  /\ OnDetail /\ ~page.stale
  /\ dialog.asked = None
  /\ dialog' = [dialog EXCEPT !.open = TRUE, !.confirm = FALSE,
                              !.asked = [input |-> dialog.input, verdict |-> None]]
  /\ UNCHANGED <<now, storeVars, page>>

\* api_finding_action_preview, at a moment of the server's.
AnswerPreview ==
  /\ dialog.asked # None /\ dialog.asked.verdict = None
  /\ \E lost \in BOOLEAN :
       dialog' = [dialog EXCEPT !.asked.verdict =
                    IF ~lost /\ Actionable(page.finding, page.request) THEN "ok" ELSE "no"]
  /\ UNCHANGED <<now, storeVars, page>>

\* The answer reaches the script, whatever happened to the page meanwhile.
ShowPreview ==
  /\ dialog.asked # None /\ dialog.asked.verdict # None
  /\ dialog' = [dialog EXCEPT !.asked = None,
                  !.confirm = IF dialog.asked.verdict = "ok" THEN TRUE ELSE @,
                  !.told = IF dialog.asked.verdict = "ok" THEN dialog.asked.input ELSE @]
  /\ UNCHANGED <<now, storeVars, page>>

\* invalidateActionPreview.
EditInput ==
  /\ dialog.open /\ dialog.input < MaxEdits
  /\ dialog' = [dialog EXCEPT !.input = @ + 1, !.confirm = FALSE]
  /\ UNCHANGED <<now, storeVars, page>>

Cancel ==
  /\ dialog.open
  /\ dialog' = [dialog EXCEPT !.open = FALSE]
  /\ UNCHANGED <<now, storeVars, page>>

CanConfirm == dialog.open /\ dialog.confirm

\* applyFindingAction and api_finding_action; the answer may be lost, and the
\* page is loaded again by hand or by the script.
Confirm ==
  /\ CanConfirm
  /\ LET f == page.finding IN
       IF Actionable(f, page.request)
       THEN \E w \in Targets :
              /\ rows' = [rows EXCEPT ![f].work = w]
              /\ moved' = moved \cup {f}
       ELSE UNCHANGED <<rows, moved>>
  /\ dialog' = [dialog EXCEPT !.confirm = FALSE]
  /\ UNCHANGED <<now, latest, due, observed, evidence, firedIn, page>>

DashNext ==
  \/ Publish \/ Pass \/ Tick \/ SetBack
  \/ \E f \in Findings : Import(f) \/ Prune(f) \/ LoseBasis(f) \/ LoadDetail(f)
  \/ LoadOverview \/ RefreshOpenPageFreshness
  \/ Preview \/ AnswerPreview \/ ShowPreview \/ EditInput \/ Cancel \/ Confirm

DashSpec == DashInit /\ [][DashNext]_dashVars
-----------------------------------------------------------------------------
\* What was so of a finding that a page calls ongoing.
TrulyOngoing(f) ==
  /\ firedIn[f] = latest.id
  /\ rows[f].visible /\ rows[f].absent = 0 /\ rows[f].basis = "live"
  /\ f \in WithEvidence => evidence[f].gen = latest.id

\* A page calls a finding ongoing only if it was seen in the generation the
\* page is of, with evidence of that generation, and a control that is offered
\* is one the server would accept: load_dashboard_overview and render_actions
\* agree with the lifecycle and with resolve_and_validate, whatever commits
\* between a generation and its pass.
TellsTheStore ==
  page' # page /\ page' # None =>
    IF page'.of = "overview"
    THEN /\ \A f \in DOMAIN page'.cards :
                page'.cards[f].status = "ongoing" => TrulyOngoing(f)
         /\ \A f \in WithEvidence \cap DOMAIN page'.cards :
                page'.cards[f].status = "ongoing" =>
                  f \in DOMAIN page'.inventory /\ ~page'.inventory[f].old
    ELSE page'.offered /\ ~page'.stale =>
           TrulyOngoing(page'.finding) /\ Actionable(page'.finding, page'.request)

\* Once the timer has found an open page too old, nothing on it can be
\* confirmed, even when the answer to a preview arrives after the controls were
\* disabled (page_script).
NotOnceStale == page # None /\ page.of = "finding" /\ page.stale => ~CanConfirm

\* What can be confirmed is what was previewed, as the dialog tells the operator
\* (operator_dashboard.rs, "Inputs changed. Validate the preview again before
\* confirming.").
ConfirmedWasPreviewed == CanConfirm => dialog.told = dialog.input
=============================================================================
