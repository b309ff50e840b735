# A TLA+ verification of NQ

NQ pulls evidence from hosts, publishes it as numbered *generations* in one
SQLite database, lets detectors derive *findings* from it, keeps a lifecycle row
per finding, pages operators, prunes old generations against tombstones, and is
watched from outside by a sentinel. It testifies about itself (heartbeats under
declared coverage rules), answers inquiries about findings and about TLS
certificates under metered grants, and seals receipts for claims that others may
rely on. This directory models the parts of that in which order, failure and
concurrency matter, checks them with TLC on small instances, and proves the safety
properties with TLAPS for all values of the constants.

`PROJECT.json` lists components, runs, mutants, the map from definitions to
source lines, findings, hazards and theorems. Source paths below are relative
to `src/crates/`.

## 1. Inventory

### Processes

| process | writes | coordination |
|---|---|---|
| serve loop, `nq-monitor/src/cmd/serve.rs` | everything below, once per cycle | holds the mutex of the write connection from publication to pruning, across awaited sends |
| HTTP handlers, `nq-monitor/src/http/routes.rs` | work states of findings | the same mutex |
| `nq-monitor source retire/unretire` | `sources_retired`, basis of rows | own process and connection; only SQLite's transactions |
| `nq-monitor probe` | one observation row | own process; reads a generation id, waits for the network, inserts |
| `nq-monitor inquire` | a receipt on its output | own process; a read-only snapshot, or the network under a grant |
| `nq-monitor verify`, `receipt check/replay`, `reliance` | receipt files | own processes; files only |
| agent, `nq-monitor-agent` | nothing; answers `/state` | a thread per request, which goes on when the one who asked is gone; helper programs on pipes |
| `nq-monitor witness ...`, `nq-witness-tool` | packet and receipt files | own processes on one directory; no lock |
| browser with a dashboard page | through the action routes only | a timer, and answers on their way to a dialog that may be edited |
| sentinel, `nq-monitor/src/cmd/sentinel.rs` | alerts | reads the liveness artifact only; state in memory |

### Components

| component | state | operations | what makes it correct |
|---|---|---|---|
| generation store (`nq-db/src/publish.rs`, `retention.rs`) | `generations`, history tables, current-state tables, `evidence_tombstones` | `publish_batch`, `prune`, `record_probe` | no purge without an exact receipt; ids never reused; current rows resolve |
| detectors (`detect.rs`, views) | none | `run_all` | stop trusting a row when it goes stale, and say so |
| finding lifecycle (`publish.rs`) | `warning_state` | `update_warning_state_with_origin_mode` | silence is never recovery; persistence survives blindness; withdrawals end when revoked |
| declarations, maintenance (`declarations.rs`) | a file; maintenance rows | load, overlay | as above |
| operator actions (`finding_actions.rs`) | work state, expiry | review, transition | an action lands on what was reviewed; dates expire |
| source retirement (`source_retirement.rs`) | `sources_retired` | retire, unretire | rows and list agree at every commit |
| notifications (`notify.rs`, `serve.rs`) | `notification_history`, `notified_severity` | `find_pending`, rollups, `mark_notified` | no page for a paused finding; no repeat below the recorded severity within the cooldown |
| liveness and sentinel (`liveness.rs`, `sentinel.rs`) | artifact file; the sentinel's variables | write, poll, alert | silence is noticed and heard; no false recovery |
| report inquiry (`nq-db/src/inquiry.rs`) | none; reads a sealed snapshot | execute, classify | an active answer is about the current sealed generation; nothing answerable is refused |
| TLS inquiry and grants (`inquiry.rs` of nq-core and nq-monitor, `tls_cert_transport.rs`) | spend and deadlines of one invocation; position under a grant | admit, acquire, seal, transition | no work outside the grant; the receipt tells the work; the ratchet runs down |
| coverage rules, component testimony (`coverage_rules.rs`, `component_testimony.rs`) | `coverage_rules`, heartbeats, absence finding and detail | reconcile, emit, classify, record | the rules in force are the declared ones; absence is recorded when and only when it is one |
| regime features (`regime.rs`) | newest feature row per subject | `compute_features`, annotation | features describe the history they are computed from, and a badge is as new as its finding |
| claims, preflights (`claim_registry.rs`, `preflight.rs`, `dns.rs`, `service_state.rs`, `sqlite_wal_state.rs`, ...) | observation rows; packet files | evaluate | a verified claim rests on evidence that all supports it |
| receipts (`receipt.rs`, `receipt_check.rs`, `receipt_replay.rs`) | receipt files | seal, check, replay | the readers agree with the evaluator and with each other |
| reliance (`nq/src/reliance.rs`) | none | decide | authorised only on a grounded receipt within the profile |
| pull and agent (`nq-monitor/src/pull`, `nq-monitor-agent`, the packs) | threads of the agent; current-state rows | `pull_all`, collect, helper runs | what is stored was sampled for its generation; what is missing is told; every cycle ends |
| probes (`declared_deny_*`, `gateway_path_*`, `lease_presence_*`, `probe.rs`, `nq_evaluator_probe.rs`) | one receipt or row each | read the box, try the network, judge | a verdict rests on what was so during the probe; a row is about the reply to its own query |
| plans and intents (`cmd/inquire.rs`, `cmd/intent.rs`, `cmd/emit_escalation.rs`) | plan, catalog and grant files | preflight, execute, compile, escalate | a preflight foretells its inquiry |
| suite and configuration (`nq-suite`, `nq-monitor-check`, `nq-core/src/config.rs`) | the selection document | plan, resolve, validate | what was selected, and nothing else, is planned and would start |
| dashboard (`dashboard.rs`, `operator_dashboard.rs`, `routes.rs`) | a page and its dialog | load, preview, confirm | a page tells the store of its moment; nothing stale can be confirmed |
| exchange of findings (`export.rs`, `import.rs`) | a consumer's watermark | export, ingest | no firing is missed, a snapshot agrees with itself |
| foreign documents and packets (`docket_dossier.rs`, `continuity_record.rs`, `nq-witness`) | a directory | import, validate-set | a receipt names the packet of its bytes; an accepted set is its manifest |
| migrations, queries, frames, fleet view | see `PROJECT.json` | | start-up code and rendering; not modelled |

### What is hard here

* A cycle is several transactions. A crash or a failed stage between them leaves
  a published generation whose lifecycle pass never ran, a pass without its seal
  or its features, or a page that was sent and not recorded.
* Detectors read latest-known-good rows, so the absence of a finding has three
  meanings (condition gone, host dark, witness silent), and masking must tell
  them apart in the generation in which the detector stops firing.
* Rows are deleted on recovery and created again on a flap; history and work
  state go with them.
* Pages leave under `await`, from a snapshot.
* Retirement, probes and inquiries come from other processes between any two
  transactions.
* Pruning deletes by range while foreign keys from the collectors' current-state
  rows hold some of the range, those of the witnesses do not, and a probe may add
  to it.
* A TLS inquiry spends seven budgets against two deadlines, and what it says it
  spent is verified only after the network was used.
* Stamps of generations, rows, heartbeats, questions and horizons come from
  separate readings of a wall clock that may be set back.
* An agent goes on collecting for a request that timed out, and looks at files
  while others checkpoint, replace and delete them.
* Probes read a box first and try the network afterwards; files of an inquiry and
  packets of a directory are read one after another; nothing locks any of them.
* The sentinel has a grace period and an alert that goes out once.

`PROJECT.json` lists these as hazards at their lines.

## 2. Modules

```
FindingRows --> FindingLifecycle -----> MCFindingLifecycle, ServeProofs
            --> OperatorWork ---------> OperatorWorkProofs
            --> FindingRowsProofs (lemmas for all of these)
            --> DetectorFleet (with Detectors), RegimeFeatures (with Regime)
                                    --> MCDetection, DetectionProofs
            --> ReportInquiry; TlsInquiry and InquiryPlans (with Grants)
                                    --> MCInquiry, InquiryProofs
            --> ComponentTestimony; Claims --> Preflights --> ClaimDesk
                                    --> MCClaims, ClaimsProofs

Collection, SubstrateProbes, HelperRun, Assembly         --> MCAgent, AgentProofs
BoxProbes, DnsProbe, EvaluatorSweep                      --> MCProbes
Dashboard, ProjectionImport, WitnessSet, FindingExchange --> MCDocuments
MCProbes, MCDocuments --> MCEvidence, EvidenceProofs

EvidenceLog <== GenerationStore, Sentinel --> MCStore, ServeProofs
 (abstract)      (refines it)
```

**FindingRows** is the lifecycle transaction as operators on a table (a function
from identities to rows): `Upserted`, `Aged` (masking and recovery), `ExpireRow`,
`Collected` (entity GC), `DeclarationOverlay`, `MaintenanceOverlay`, composed by
`Lifecycle` in the order of the code. Five machines use it, so it is a module of
its own. An identity is `<<host, kind>>`; the subject column only separates rows
of one host and kind and is left out. A kind prefix of a masking rule is the set
of modelled kinds that has it.

**FindingLifecycle** has the evidence tables, `Publish`, five detectors, the
lifecycle pass (`UpdateWarningState`), its loss (`LoseUpdate`) and edits of the
declarations file. A batch is a choice per host from `Reports`. `cut` is a
history variable: whether a condition was seen absent, or a pass was lost, since
its row last fired.

**Detectors** has the detectors of `run_all` as operators over the rows they
read; **DetectorFleet** writes the histories those rows come from and runs the
lifecycle pass over what fires. The collectors of a host do not read each
other's tables, so a behaviour has the host collector and one other family
(services, SQLite, metrics, logs, ZFS, SMART, saved checks). `heard` and
`collected` are history: which collectors have testified since their findings
last fired, and which rows entity GC took since then.

**OperatorWork** has the same table under three processes. `phase` is the serve
loop's program counter; `WriteDbFree` is the mutex; `form` is the row an operator
looked at; `RetireSource` and `UnretireSource` may come at any moment. Marking a
page is one action per finding with three outcomes (both statements, the first
only, none). What fires is arbitrary. The clock counts hours; the five minutes
of `FINDING_ACTION_MAX_AGE` become "stamped in the current hour". A channel is
configured, and a send counts whether or not it is accepted, as in the code.
`lastPage` and `born` are history variables.

**GenerationStore** has one action per stage of a cycle that touches the store, a
probe, and crashes. `current` are the current-state rows of collectors, whose
`as_of_generation` is a foreign key, `witnessed` those of the ZFS, SMART and GPU
witnesses (migrations 031, 034, 064), whose is not: they pin nothing and outlive
their generation. A generation's history rows are a number, and the run records
written with every generation count as one row; `inserted` is the history of
these numbers. `sweep` is the snapshot of the
pruning transaction: in WAL mode a transaction that has read and then writes
fails if another process committed in between, which is `SnapshotCurrent`.
`CommitSweep` deletes tombstone-first in one transaction; `FailSweep` rolls back.
The probe may start on any generation because the code orders by `completed_at`,
a wall-clock time.

**EvidenceLog** is what the store promises: `Append` and `Forget` of an oldest
range against a receipt. The refinement mapping takes `live` to the ids in the
store and `receipts` to the ranges on the tombstones.

**Sentinel** has the publisher's `Write`, faults (`Disturb`, `ClockStep`,
`ChannelFlips`, `Restart`), time, and `Poll`, the body of the loop. Counters are
capped where the code only compares them with a threshold (`age` at `MaxAge + 1`,
`run` at `StuckAfter`, `elapsed` at `Grace`).

**ReportInquiry** has the three transactions of a generation (row, lifecycle
pass, seal), either of the last two of which may be lost, retirement between
them, and a clock finer than a second that may step back. An inquiry changes
nothing, so it is an operator (`Disposition`) that the properties ask in every
state and at every `as_of`. `passes` is history.

**Grants** is the arithmetic of grants: spend, admission, the transition a holder
may be authorised to make. **TlsInquiry** runs one invocation through admission,
resolution, connection, handshake and validation of each target, with the
monotonic clock running in every step, then seals and verifies the receipt, then
lets the holder ask for further positions. `wire` is the network work really
begun, `admitted` and `moves` are history too. A handshake is charged as soon as
the socket is connected, and begins with the first write (`BeginHandshake`): a name
that is no valid SNI, or a deadline, may end it before.

**ComponentTestimony** reconciles the file of coverage rules, with and without
an end, into the table,
emits a heartbeat under the rule in force, classifies and records absence; the
lifecycle pass ages the absence finding and retention deletes heartbeats. Each
stage may fail alone. `heard` and `applied` are history: until when the last
heartbeat really written holds, and what the last reconcile committed.

**Regime** has the features as operators on series and sets of generations,
**RegimeFeatures** the cycle that computes and stores them and the annotation a
page reads.

**InquiryPlans** has what comes before and after the work of an inquiry: plan,
catalog and grant are files that anybody may edit between a preflight and the
execution; an authority outside mints a grant for what the preflight asks; an
intent is compiled into a plan, and a receipt into a request for more.

**Claims** has the claim registry, the sealed receipt, check and replay;
**Preflights** the evaluators of all eight kinds, the receipt made of a result and
the witness projection of it;
the decision on reliance is in Claims too. **ClaimDesk** lets time pass: packet files are
collected and rows written, the clock is set back, receipts are made and altered.
Check, replay and decide change nothing and are operators; the properties ask
each of them in every state. A digest is the document itself.

**Collection** has what an agent answers, as operators over what its targets let
it read (every collector has a policy of its own for a target that fails), and
the pull cycle: a task per source under its timeout, an agent
with as many threads as it has, late answers, restarts, and the batch that
replaces the rows of the collectors that succeeded; the samples of an agent that
does not yet name its targets match a series by labels alone. **SubstrateProbes** takes the
WAL and binary collectors one system call at a time against the owner of the
files, who may also rename another database over the path; inode numbers are given
out again, and `/proc/locks` may tell less than all locks. A row keeps, per field,
the path and the file it was read from. **HelperRun** is the
helper program on a bounded pipe, the look for its exit, the look at the time, the
kill, the grace and the reads, each a step of its own between which the program
may end; another process may hold the write end.

**Assembly** resolves a selection of packs and validates both configurations.
Hosts and texts are the classes of them that the three validations tell apart.

**BoxProbes** has the three probes of a firewall box: one session of commands on
the box, attempts on the network, a verdict, with the world changing and time
passing between any two. `sent` is the traffic that left: none for a name without
an address or a host without a route. **DnsProbe** is one query and the first
datagram that comes back; its id is drawn from `Ids`, and may come again. **EvaluatorSweep** runs every fixture, classifies and inserts, with
panics, late answers, failed inserts and stops.

**Dashboard** has the store under a page (generation, pass, retention, retirement,
import, clock), the page with its timer and dialog, and the two routes.
**ProjectionImport** runs several importers on one directory entry by entry, with
the shared temporary name and stops anywhere. **WitnessSet** lists, reads the
manifest and reads packets while others write, and refuses what cannot be read or
decoded. **FindingExchange** has the table
behind exports with masking, declarations and the retention that takes observations
with their generation, a consumer's watermark and a
producer's manifests; `ingest_finding_import` has no caller yet and is called
between two cycles.

## 3. Runs

| run | states | bounds | checks |
|---|---|---|---|
| `host_dark` | 3.5 M | 1 host, 5 kinds, 5 generations, any report, edited declarations; window of 2, staleness of 1, entity GC after 1 | `ReleasedWithDeclaration`, `ClearedOnlyOnEvidence`, `BlindnessKeepsStreak` |
| `detection` | 0.4 M | detectors: 8 families, 4 generations, one subject each, freshness of 1, the host called stale after 2, window of 2, entity GC after 1; features: every history of 8 generations and 2 more, 1 metric | `NoReportNoRecovery`, `UnobservableHasCause`, `FeaturesAsDefined` |
| `pages` | 2.5 M | 1 finding of an edited check, 1 source, 3 generations, clock to 2, cooldown 2 | `RetiredBasisAgrees`, `ExpiryIsHonoured`, `NoPageForPaused`, `PagesClimb`, `ActsOnReviewedRow` |
| `store` | 0.75 M | store: 2 hosts, 1 of them with a witness, keep 1, prune every 2nd cycle, 4 generations, probes up to 3 rows; sentinel: age 2, grace 3, stuck after 2, all faults | `Accounted`, `ReceiptsExact`, `CurrentResolves`, `RefinesLog`, `NoFalseRecovery`, `SilenceNoticed`, `SilenceHeard` |
| `inquiry` | 1.4 M | reports: 1 finding, 1 source, 2 generations, half seconds with clock steps; TLS: 3 targets, budgets at their limits, half milliseconds; plans: the files edited between preflight and execution | `AnswerIsRight`, `WireWithinGrant`, `ReceiptTellsTheWire`, `InvocationEnds`, `PreflightForetells` |
| `claims` | 2.2 M | desk: 6 drafts of packets, at most 3 files and 2 receipts, 2 rows, clock set back once, the preflight kinds; testimony: 2 tuples, rules with and without an end, 3 rule rows, 4 generations, clock to 6, keep 2 | `HorizonAgrees`, `ReceiptsAgree`, `RelianceIsGrounded`, `RulesAreKept`, `TestimonyIsJust` |
| `agent` | 0.98 M | 2 hosts of different platforms, 2 threads per agent, 2 cycles, 1 restart; 2 databases at 2 paths behind the declared one, one renamed over another; a scrape target of an agent that names none; reports shorter and longer than the pipe; 43 suite documents, edited once | `StoredIsTold`, `CycleEnds`, `SubstrateRowsTrue`, `HelperOutcomeIsJust`, `PlanIsWhatWasSelected` |
| `evidence` | 6.5 M | probes: 1 change of the world and 1 tick during a probe of a box; 2 DNS queries of one id or two; 2 sweeps over 3 evaluators; documents: a page over 2 generations; 2 importers and 3 imports; 2 file names and 2 edits; 2 identities over 2 generations of which 1 is kept | `VerdictIsWitnessed`, `RowTellsTheReply`, `SweepTellsEach`, `PageTellsTheStore`, `ReceiptNamesItsPacket`, `SetIsTheManifest`, `WatermarkMissesNoFiring` |

Six runs are sums: their MC module instantiates several machines that share no
state, and the variable `part` (`probe` in MCProbes, `machine` in MCStore) says of
which one a behaviour is, while the variables of the others hold the value "off",
or in MCStore their initial one. The state space is the sum and not the product. A property of a sum names its part, and is made of the component's
own properties: `AnswerIsRight` of `ActiveIsCurrent`, `AnswersWhenItCan` and
`StandingBeginsSealed`; `WireWithinGrant` also of `RatchetRunsDown` and
`NoWorkAfterRefusedBound`; `ReceiptTellsTheWire` also of `SealFailsOnlyLate`;
`RulesAreKept` of `InForceAsDeclared` and `RulesAreHistory`; `TestimonyIsJust` of
`AdmissibleWasHeard`, `AlarmIsJust` and `SilenceIsRecorded`; `ReceiptsAgree` of
`ReplayReproduces` and `CheckTellsTheFiles`; `FeaturesAsDefined` of
`LagsAreEpisodes`, `SeriesIsRead`, `DominantIsBest` and `AnnotatedFresh`;
`SilenceNoticed` and `SilenceHeard` of the sentinel's `SilenceIsNoticed` and
`SilenceIsHeard`; `StoredIsTold` of `SampledInCycle`, `AbsentIsTold` and `SeriesHonest`;
`SubstrateRowsTrue` of `UnpinnedWasTrue`, `MissingWasMissing`, `WalRowIsOneFile`
and `DigestNotOlder`; `HelperOutcomeIsJust` of `ReportIsWhole` and
`TimeoutIsJust`.

Why these bounds. Masking never crosses hosts, so one host suffices for the
lifecycle. With a staleness of 1 and a window of 2, five generations hold the
outage that matters: the condition fires, the host goes dark, the parent fires
and hides it, the host returns, and the child ages or fires again. In `pages`
three generations and a recovery window of 1 allow page, clear, re-creation and
page again, on both sides of the cooldown, with the thresholds set so that
severity climbs twice. In `store` two hosts are needed for one to pin what
the other lets go. The thresholds of the sentinel are the smallest at which every
rule can fire before and after every other. In `inquiry` the second generation
may lose its pass or its seal while the first stands, and three targets are one
more than the tightest grants allow. In `detection` eight generations hold two
episodes with a gap on either side of the minimal run length. In `claims` two
receipts are a receipt and the one that supports it, three files an evidence set,
a contradiction and a stranger. In `agent` the second cycle is the one a late
answer of the first could reach; a report longer than the pipe blocks its
program. In `evidence` one change falls between any two readings of a probe, and a
second query can meet the answer to the first; two importers are
enough to put one's bytes under the other's name, and the third import meets what
they left. Where there are theorems they hold for all
values, and the bounds matter only for what is checked and not proved (section 5).

`AtBound` lets a behaviour end at its bound without counting as a deadlock;
where a configuration says `CHECK_DEADLOCK FALSE` the system may stop: an inquiry
is over, a desk has no more to do, the clock is at its bound.

Every property of a passing run has a mutant, a plausible mistake in one
definition that TLC finds through that property. They stand before the
definitions they replace and are marked *Mutant*.

### Fairness

The sentinel's liveness properties assume `WF(Tick)` (time passes) and `WF(Poll)`
(a process whose sleep is over runs). Nothing is assumed of the publisher, the
file, the clock or the channel. The premise of each property says from when on
the publisher is silent and the sentinel left running. `InvocationEnds` assumes
`WF(Execute)`: the executor goes on, because every wait of it has a timeout; of
the network and the clock nothing is assumed. `CycleEnds` assumes `WF` of
`Timeout` for each source (the timer of a request fires) and of the publication
once all tasks have ended; of the agents, which may never answer, nothing. Weak fairness is enough because
these actions, once enabled, stay enabled.

### Runs that end in a violation

Each shows a disagreement between a document or comment and the code. `relied` and
`coverage` take the instance of the run `claims`.

* `pinned`: a host that stopped reporting keeps a current-state row, its
  generation cannot be deleted, and from then on every sweep fails and
  `retention.max_generations` bounds nothing.
* `confirmed`: an operator who edits the action dialog while a preview is on its
  way sees "Inputs changed. Validate the preview again before confirming."; the
  answer then enables the confirm button again (`operator_dashboard.rs:1073`), and
  what is confirmed is what was typed, not what was previewed. The server checks
  the request as it would any other.
* `relied`: `evaluate` compares the claim of the request with the profile and with
  the receipt's refusals, never with the claim the receipt carries
  (`reliance.rs:508`; CONSUMER_RELIANCE.md:69: "the claim is verified"). Reliance on
  one claim is authorised by a verified receipt about another. `RelianceIsGrounded`
  says what an authorisation does establish.
* `coverage`: a coverage rule declared with `valid_until` is never in force for the
  reconcile, which looks for open rows, so each cycle inserts it again
  (`coverage_rules.rs:289`), and several rows of one tuple are active at once
  (migration 051: "at most one ACTIVE rule"). `RulesAreKept` says what is kept in
  spite of this.

Read from the code while modelling, and without a run of their own. About
findings and pages:

* `detectors.stale_generations` is configurable; the view that silences
  `disk_pressure` uses a literal 2. With a larger setting a dark host is not yet
  called dark when its disk finding stops firing, and the row is cleared
  (migration 024: "loss of observability must reduce confidence, not fabricate
  health"). Two theorems of section 4 say what excludes this: `AgreedFreshness`
  keeps even the streak of such a row, and for the row itself it is enough that
  `stale_generations` is less than the freshness plus the recovery window. With 3,
  1 and 2 TLC clears a disk finding of a host that merely went dark. In the code
  the freshness is 2 and the window 3, so a setting of 5 or more does it.
* Entity GC looks for a host in four tables; one that is known through a ZFS or
  SMART witness alone counts as gone, and its findings are deleted while they fire
  (`publish.rs:1932`; the comment at 1923 has "any current-state table").
* Two scrape targets of one name that deliver the same series count as one target,
  with `collision` 0 (`publish.rs:371`; migration 058 calls that "attributed to one
  target").
* A source that has only ever failed loses its `source_error` row to entity GC
  every eleven generations and never reaches `warning`.
* A source retired after `find_pending` and before the send still pages
  (EVIDENCE_RETIREMENT_GAP.md:5).
* A quiesced or suppressed finding that clears and returns is `new`, and pages,
  although the contract shown to the operator says "until Reset or an optional
  expiry".
* A row withdrawn by a declaration, seen again and then masked is suppressed for
  `ancestor_loss` with the old `suppression_declaration_id` still set
  (`publish.rs:1841`; migration 043 says NULL except in the declaration case).
* `findings_suppressed` of a generation is counted before the declaration overlay
  (`publish.rs:1966`; GENERATION_LINEAGE_GAP.md:92 has it taken when visibility
  is final).
* When a parent finding clears, its children stay `suppressed` through their
  recovery window (`publish.rs:1880`; GLOSSARY.md:173).
* Findings are marked notified whether or not any channel took the page
  (`serve.rs:480`, a stated choice). The cycle counter of pruning is in memory, so
  a process restarted often never prunes (`serve.rs:347`).
* Edge detectors compare the two newest history rows, not generations: while the
  witness is stalled the same edge fires again in every pass
  (TESTIMONY_DEPENDENCY_GAP.md:128 knows of it). Five trend detectors
  (`Forgetful` in DetectorFleet) forget a silent host as their window moves on,
  and a partial report counts as one.

About the sentinel and NQ's own testimony:

* the grace period excuses a missing artifact only, the comment at
  `sentinel.rs:185` also a malformed one; a missing artifact within it takes an
  unhealthy sentinel through `Starting`, after which the recovery message is
  skipped (`sentinel.rs:216`); a new state is recorded although its alert was not
  accepted, and the alert is never sent again;
* a coverage rule that starts in the future cannot be closed, and the CHECK that
  refuses it fails the whole reconcile (`coverage_rules.rs:366`);
* the absence finding is deleted at the end of each recovery window and recorded
  again in the same cycle, so it never escalates; its old detail row stays,
  against the comment at `component_testimony.rs:616`;
* the resolution feature is written only under prior pressure and read from any
  generation, so its badge may tell of a pressure long past
  (`regime.rs:1637`; `AnnotatedFresh` leaves it out).

About inquiries, receipts and reliance:

* `as_of latest` is the completion of the newest generation, and the rows of the
  pass are stamped later: once the pass falls into another second the inquiry is
  refused with `snapshot_after_as_of` (`nq-db/src/inquiry.rs:58`; the test at
  line 1152 seeds equal stamps);
* a grant file is admitted by every invocation with its whole envelope, as
  `authorize_same_grant_transition` has no caller outside tests;
* a receipt evaluated over the same packet twice never replays as `ok` and fails
  the strict check against its own files; replay ignores `--strict`, which the
  comment at `receipt_replay.rs:580` mentions;
* `decide` recomputes no hash; an age that is not stated passes (`reliance.rs:725`;
  CONSUMER_RELIANCE.md:70: "freshness holds"); `evaluate` returns at the first
  ground although the comment in `decide` has every conjunct evaluated;
* at the very second of the threshold the evaluator says fresh and
  `check --fresh` stale; evaluator, binary and disk receipts carry no horizon and
  are never stale; evaluator and binary receipts have no witness references and
  pass every custody policy;
* the horizon of an ingest receipt runs from a failed source's stamp, which is
  later than the generation's when the clock was set back (`HorizonAgrees` leaves
  this out);
* one unreadable row makes a WAL verdict `cannot_testify` for the whole window of
  12 hours, and `severe_sustained` needs samples that span 12 hours of it
  (`sqlite_wal_state.rs:321`);
* a `disk_state` preflight narrowed to a target never sees the loss of standing:
  the silence findings and `node_unobservable` have the witness as their subject
  (`detect.rs:2854`; the comment at `nq-db/src/preflight.rs:257` has an empty one);
* only the evaluator and SQL-contract receipts name a claim in `cannot_testify`,
  so for the other kinds the refusal at `reliance.rs:530` cannot fire;
* a grant binds scope, depth, envelope and classes and not the digest of the
  profile; a compiled intent carries its `as_of` verbatim.

About agents and probes:

* the binary collector stats and hashes the cached path on every collection, so a
  replaced file is reported as the running binary's, and size and hash may be of
  two files (`nq_binary.rs:142`, against lines 7-9);
* after the helper exits its pipe is read to the end, which does not come while a
  process it started holds it: the bound of the timeout is not one
  (`zfs.rs:190`, against line 8);
* a helper that ends well between the look for its exit and the kill is told as a
  timeout (`zfs.rs:137`);
* query ids of the DNS probe have 15 bits, and neither the sender nor the question of
  a reply is compared: an answer to an earlier query of the same id passes for that
  of the probe (`probe.rs:328`);
* a rule removed between the reading of the rules and the attempt looks like one
  that does not hold; a beacon is not checked for freshness; two probes that write
  one receipt path race between `exists` and the write;
* the suite accepts hosts longer than 253 bytes, and metric URLs with a fragment,
  that the publisher refuses at start; `max_generations` 0 and a `critical_after`
  below `warn_after` are accepted by the aggregator.

About documents:

* all importers of a directory write through `.tmp-import`; a torn packet makes
  later imports refuse, and a stop between packet and receipt leaves a receipt that
  says "duplicate" as the only one;
* `diff_scope.rs` reads the head before it runs `git diff`;
* a consumer whose watermark is the current generation misses rows imported at it;
  a native firing of an imported finding keeps `origin_source` "import"; a
  masked child whose parent is deleted stays `suppressed_by_ancestor`, without an
  ancestor, until it ages out; `condition_state` "clear" is never exported;
* a page loaded between a publication and its pass shows every finding as unknown,
  and "Recently changed" is always empty.

## 4. Proofs

All theorems have the form `Spec => []Inv`, `Spec => [][A]_vars` or
`Spec => AbstractSpec`, for arbitrary constants within the named assumptions.
The type invariants of FindingLifecycle, OperatorWork, GenerationStore and
Sentinel are proved and no longer part of a run.

A proof module may cover machines that have nothing to do with each other; its
theorems are about one of them each.

**FindingRowsProofs** holds the lemmas: for each stage, what it returns for a
well-typed table and which columns it leaves alone, composed into
`LifecycleFacts` (visibility, streaks, deletion), `LifecycleWork` (work state,
expiry, basis), `LifecycleShown` (what a row that fires looks like after the
pass) and `LifecycleUnseen` (one that does not fire is masked, ages or goes).

**ServeProofs**, about FindingLifecycle

* `TypeCorrect`: `TypeOK` is inductive.
* `DeclarationsLetGo`: the overlay's release step re-establishes the invariant in
  each pass, whatever the upsert left.
* `SilenceIsNotRecovery` (`ClearedOnlyOnEvidence`) and `StreakSurvivesBlindness`
  (`BlindnessKeepsStreak`) assume `AgreedFreshness`: the host is called stale no
  later than its readings, and the detectors of lost observability run. Both rest
  on `Support`: the evidence of every row is still in a current-state table
  (`RowsHaveEvidence`) and GC leaves no row past its threshold (`GoneBound`). The
  key lemma is `BlindIsMasked`: a row that does not fire, and whose condition is
  not seen absent, is masked in this very pass. The streak theorem adds
  `SeenOrHidden`: an uninterrupted row was seen by the latest pass or is
  suppressed, so that its next firing continues the streak by one rule or the
  other.

**OperatorWorkProofs**

* `TypeCorrect`; `RetirementSticks` and `ExpiryDatesHonoured`, both inductive with
  `TypeOK`.
* `PauseStopsPages` needs `PendingUnpaused`: every finding in the snapshot is
  unpaused as long as pages are being sent. It is inductive because only the
  lifecycle pass and the handlers change a work state, and both are shut out.
* `ReviewedRowOnly` needs `RowAges` and `FormAges`: a row re-created after the
  review was born in a later generation than the one the form carries, so its
  `last_seen_gen` cannot match.
* `RecordedPagesClimb` needs `PageInv`: one page per finding in a snapshot; a
  rollup under way has been sent; pages lie in the past; the durable history
  knows every recorded page; and the pending ones exceed it in severity or age.

**ServeProofs**, about GenerationStore: `StoreInv` is `StoreTypeOK` (which
`StoreTypeCorrect` proves), `Newest` (the largest id in the
store is the last one issued, which is why `INTEGER PRIMARY KEY` never reuses an
id) and `Accounted`. `SweepRange` proves the comment of `prune`: the range from
the smallest to the largest doomed id selects exactly the doomed set.
`NoSilentPurge`, `CurrentRowsResolve` and `ImplementsLog` follow. A collector's
current-state row resolves because its foreign key holds up the sweep; a witness's
row resolves, or names a generation older than all kept, which a tombstone
accounts for, since a sweep takes a prefix. All of it is with the
assumption that at least one generation is kept (`MaxGenerations \in Nat \ {0}`).
`ReceiptsCountAll` (`ReceiptsExact`) shows that the set of rows a sweep counts is
the set ever written with its generations: rows go only to generations above all
tombstones, and the snapshot a sweep commits on is still the store.

The same module proves the watcher of the store's artifact, Sentinel, whose
constants and variables are its own: `SilenceStaysNoticed` needs `StillStalled`,
that while the id that stalled is still the last one read, the age rule or the
stuck rule holds of it. The run counter must outlive failed reads for this. Its
`SentinelAssumption` is what `SentinelConfig::validate` enforces.

**EvidenceProofs**, over MCProbes

* `RowsTellTheReply`: `DatagramsTrue`, every datagram on the wire, copied, late or
  damaged, still carries the id of the query it answers and what the resolver
  said to it. Ids are arbitrary and may repeat: the row tells what was said to its
  query or to an earlier one of the same id, and no more holds of the code.
* `VerdictsAreWitnessed`: `FactsSeen` (what holds now is in the history of the
  probe) and, per kind of probe, what each step of the program counter has got so
  far and of which moment it was true (`DenyGot`, `GatewayGot`, `LeaseGot`). What the
  receipt says was disturbed is compared with the traffic that left, which the world
  decides and not the outcome the probe recorded.
* `SweepsTellEach`: `RowsTell` (the latest row of a kind is the classification of
  its latest run) and `EachIsRun` (fixtures before the next one have been run in
  this sweep). The list of fixtures is arbitrary but not empty.

**EvidenceProofs**, over MCDocuments

* `PagesTellTheStore`: rows are of generations that exist (`RowsAreSeen`), a page
  that is stale has no dialog open (`StaleIsClosed`).
* `SetsAreTheManifest`: `ReadSoFar`, the packets read plus those still to be read
  are those listed, each with the digest the manifest gives its name.
* `ReceiptsNameTheirPackets`: temporary names belong to one run (`RunsDiffer`),
  a file's contents keep the key in its name (`FilesKeepTheirKey`), and a snapshot
  whose imports have not overlapped is undisturbed (`UndisturbedKeys`): at most
  one importer works on it and all of its packets have one core.
* `WatermarksMissNoFiring`: a pass writes a generation newer than every watermark
  given out (`PassIsAhead`), a row was last seen when its finding was last found
  (`RowsAreObserved`), of what was found all is stored but what went with its
  generation (`ObservationsAreKept`), rows of producers come from accepted manifests
  (`OriginsAreAccepted`). The newest observation of an export is the row's
  `last_seen_gen` unless retention took that generation: a suppressed row outlives
  its observations. Of a producer's run ids nothing is assumed.

**ClaimsProofs** (over MCClaims)

* `TestimonyStands`: heartbeats are stored in the order of their generations
  (`BeatsInOrder`), and if the newest one is still stored it is the one really
  heard last (`NewestIsHeard`), although retention takes the oldest away and the
  rule it was emitted under may have been replaced.
* `RulesStand`: by `RulesInv` the rows in force are the open-ended ones among the
  declarations last committed, one of a tuple, whatever bounded ones stand in the
  file beside them; those are never in force (section 3).
* `RelianceStands`, `ReceiptsStand`, `HorizonsAgree` share `DeskInv`: what each
  entry of the desk says of its own making, `VerifiedEntry` for receipts over
  packet files and `AnsweredEntry` for receipts over the rows of a preflight.
  The rest is about operators: `Decide` and each of its grounds, `Replay` and
  `Check` against the bag of the files they are given, and per kind the boundary
  of the evaluator against `FreshnessHorizon`, for rows and clock readings in any
  order. Maxima and bags over arbitrary finite sets are taken by a minimal
  counterexample (`WFMin`).

**AgentProofs** (over MCAgent)

* `StoredIsAlwaysTold`: a collection under way for the current cycle was begun
  after the cycle (`ServingHolds`), so an answer that is heard was (`PullHolds`),
  and what is stored is not younger than the cycle under way (`CurrentHolds`).
  Completeness of a generation (`LatestTells`) rests on `CollectorsTell`: each
  collector either fails, or gives every declared target a row or names it.
  `AttributeHonest` shows that the upsert of the series dictionary keeps the name
  of a series honest for any set of names, of samples without one too.
  `CollectionAssumption`: scrape targets are finitely many.
* `SubstrateRowsAreTrue`: `ProbeHolds`, the probe under way is about one path, and
  about one database unless another was renamed over it, and
  the inode it saw is still that of the file's `-shm` or the file was free of locks
  at some moment since; `BinaryHolds`, executables are numbered as installed. A row
  that says no reader pins the WAL was true at some moment, if the lock table told
  every lock. Of the binary row only this much holds: its digest is not of an older
  file than its size and time.
* `HelperOutcomesAreJust`: `FitsThePipe` (what is written and not read fits the
  pipe) and `StageTells` (what each stage of the parent knows of the child: in particular that it has not
  ended before the last look that found it running).
* `PlansAreWhatWasSelected` is about operators: `EnabledEntries` and
  `ChecksOfPacks` (a check belongs to one pack and a pack to one entry) give what is
  planned, `LabelwatchStarts` and `HelpersStart` compare what a pack accepts with
  what the publisher accepts, `Reordered` reverses the selection. `SuiteShape`
  is what deserialisation has made sure of; the documents are otherwise arbitrary.

**InquiryProofs** (over MCInquiry)

* `NetworkWorkGranted` (`WireWithinGrant`) and `ReceiptExact`
  (`ReceiptTellsTheWire`) share `TlsInv`, for every set of targets, grant, deadline
  and answer of the network. Its parts: what is planned is the admitted targets,
  each once (`Planned`), within a grant that covers it (`Covered`); each
  observation charges what was begun for its target (`Charges`, `Observed`), also
  while one is on its way (`Flying`), a handshake that never wrote excepted
  (`Tells`); a bound that could not be honoured ends the
  list (`HaltedLast`). Sealing compares sums over the observations with the bounds
  (`Counted`); `SumExists` and the lemmas after it say what such a sum is for
  a sequence of any length, by a minimal counterexample (`WFMin`).
* `AnswerTrue` (`AnswerIsRight`): `ReportInv` says of every cycle which of its three
  transactions have committed (`CyclesOk`), of the evidence that it is in the order
  of its generations and tells each pass (`EvidenceOk`), and of the rows that those
  fired by the newest pass carry its stamps (`RowsOk`). Both directions follow for
  every `as_of`, in spite of clock steps, lost passes and lost seals.
* `Foretold` (`PreflightForetells`): `PlansInv` keeps of each document what it was
  checked for when it was made, never of the files, which may change at any step.
  The main lemmas: a catalog that validates resolves a name to one profile at most,
  what is admitted for it passes both checks of the bounds, and an intent compiles
  to a plan that is admitted. `PlansAssumption` says that the documents parse.

**DetectionProofs** (over MCDetection; the detectors' part)

* `DetectionCorrect`: `FleetInv`, which TLC checks on the run's instance, is
  inductive for all families, reports and histories. `RowsHeld` is the core: while
  the collector behind a row is silent, what it wrote last still holds the
  condition, so the detector goes on firing or has stopped only because the host
  or the witness has fallen silent, which masks the row.
* `CauseKnown` (`UnobservableHasCause`): by `CausesKept` the silence and the
  unobservable node age together, so one does not outlive the other. Only
  entity GC takes the cause alone, which the property allows.
* `SilenceClearsNothing` (`NoReportNoRecovery`) is proved under
  `Config.stale < Config.fresh + RecoveryWindow`: the views stop firing a level of a
  dark host after `fresh` generations, `stale_host` masks it after `stale`, and
  between the two it ages (`LevelsMissed`). The condition is necessary (section 3),
  and the defaults satisfy it. Rows of a host that no current table knows are left
  to entity GC.

## 5. Only model-checked

* `SilenceNoticed`, `SilenceHeard`, `InvocationEnds`, `CycleEnds`: liveness
  under fairness is outside the proof system's reach.
* `FeaturesAsDefined` of the run detection: dwells, slopes and co-occurrences are
  nested folds over series, and what they compute for every series needs induction
  over data. The run takes every history of the bounded length.

## 6. Assumptions and what is not modelled

* A transaction is atomic, and a crash of the process loses nothing committed.
  Power loss under `synchronous=NORMAL` is not modelled.
* The clocks of the serve loop in OperatorWork and ComponentTestimony do not go
  back; those of the sentinel, the probe, report inquiries and preflights may.
* `max_generations` is at least 1 (`StoreAssumption`, and `Kept` of FindingExchange);
  the configuration accepts 0, with which a sweep would empty the table and ids
  start again at 1.
* Renames put a new executable in the place of the old; an upgrade that writes into
  the running file is not modelled.
* Stability labels, lineage counters, transition history, owner and note: written
  by the modelled handlers, read by no modelled step.
* The coverage-composition pre-pass of the lifecycle adds findings to those that
  fire; no modelled detector raises one of its kinds.
* Maintenance windows: the overlay is modelled and its lemmas are proved; no run
  declares a window.
* Digests, signatures and canonical encodings are outside a model checker's
  reach; a digest stands for its document and is injective.
* Thresholds on real-valued measures (percentages, slopes, z-scores) are compared
  over small integers; floating-point rounding is not modelled.
* Documents of other schema versions, malformed digests and unparseable times:
  the error arms of single functions, without state.
* The Kea control channel of the lease probe, the GPU witness's rows, and the parsing
  of single lines of a program's output: a reading is what it means to the
  collector.
* Query console, frames, fleet view and rendering of pages; the regime and
  generation context an export carries; the liveness export: read-only, and no
  modelled step reads what they produce.
* Migrations run once before the modelled states; the schema they leave is what the
  modules model. Emission of unit and configuration files by the suite planner is
  formatting.

## 7. Plan

1. **Declarations**: validation of the file, expiry and revocation by date,
   hygiene findings, maintenance windows with a clock, composed with
   FindingLifecycle.
2. **Power loss**: commits lost from the end of the log while the liveness
   artifact survives, composed from GenerationStore and Sentinel.
3. **The rest of the lifecycle pass**: the coverage-composition pre-pass.
4. **Proofs**: an abstract budget that TlsInquiry and its positions refine.
