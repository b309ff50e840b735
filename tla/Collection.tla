----------------------------- MODULE Collection -----------------------------
(***************************************************************************)
(* A pull cycle and its publication.  pull_all                             *)
(* (crates/nq-monitor/src/pull/mod.rs) spawns a task per source, each asks *)
(* its agent for /state under the timeout of the source, and the batch is  *)
(* made when all of them have ended; publish_batch (crates/nq-db) writes   *)
(* it as one generation, replacing the rows of every collector that        *)
(* succeeded and leaving the others as they were.                          *)
(*                                                                         *)
(* An agent has no state of its own but its threads: a request collects on *)
(* the thread that took it, and goes on when the one who asked is gone.    *)
(* Time is the number of collections begun anywhere.                       *)
(*                                                                         *)
(* What an agent answers to GET /state (crates/nq-monitor-agent and the    *)
(* host and storage packs) is an operator over what its targets let it     *)
(* read.  Every collector has a policy of its own for a target that cannot *)
(* be read: a row that says so, a name in the error message, a failed run. *)
(* cfg.targets[c] is what the publisher's configuration declares for the   *)
(* collector; a reading says which of them could be read.  Values, texts   *)
(* and counters of the rows are left out.                                  *)
(***************************************************************************)
EXTENDS Naturals, FiniteSets, FiniteSetsExt

CONSTANTS
  Nothing,      \* data: None
  Sources,      \* configured sources, by name
  Config,       \* [Sources -> configuration of the publisher]
  NameOf,       \* name a target's samples carry; Nothing from an older agent
  Readings,     \* what an agent may find when it collects
  Workers,      \* threads of an agent
  MaxCycle,     \* bound: cycles
  MaxCrashes    \* bound: restarts of agents

CollectorKinds ==
  {"host", "services", "sqlite_health", "prometheus", "logs",
   "zfs_witness", "smart_witness", "gpu_witness", "nq_binary", "sqlite_wal"}

\* CollectorPayload: rows is the data, named the targets of the error message.
Payload(status, rows, named) == [status |-> status, rows |-> rows, named |-> named]

\* A collector that could not read `bad` of its targets and got `rows` from the
\* others: failed when nothing is left, otherwise ok with the failures named.
Gathered(rows, bad) ==
  IF rows = {} /\ bad # {} THEN Payload("error", Nothing, bad)
  ELSE Payload("ok", rows, bad)

CollectHost(cfg, reading) ==
  CASE cfg.platform = "other"   -> Payload("not_supported", Nothing, {})
    [] cfg.platform = "linux" /\ ~reading.proc -> Payload("error", Nothing, {"host"})
    [] OTHER                    -> Payload("ok", {"host"}, {})

\* A check always yields a row, whatever it finds; systemd checks are skipped
\* where there is no systemd.
Unsupported(cfg, adapter) ==
  IF cfg.platform = "linux" THEN {}
  ELSE {t \in cfg.targets["services"] \cup cfg.targets["logs"] : cfg.adapter[t] = adapter}

CollectServices(cfg) ==
  LET skipped == Unsupported(cfg, "systemd") \cap cfg.targets["services"]
      rows == cfg.targets["services"] \ skipped
  IN  IF rows = {} /\ skipped # {} THEN Payload("not_supported", Nothing, {})
      ELSE Payload("ok", rows, skipped)

CollectDbs(cfg, reading) ==
  Gathered(cfg.targets["sqlite_health"] \cap reading.readable,
           cfg.targets["sqlite_health"] \ reading.readable)

\* A scrape that answers without a sample fails nobody and adds nothing: the
\* status of the response is not looked at.  A sample carries its target;
\* reading.common are series that every exporter has at the moment.
CollectMetrics(cfg, reading) ==
  LET targets == cfg.targets["prometheus"]
      scraped == targets \cap reading.readable
      samples == UNION {{[target |-> t, series |-> s] : s \in cfg.exports[t] \cup reading.common} :
                          t \in scraped \ reading.blank}
  IN  IF targets = {} THEN Payload("skipped", Nothing, {})
      ELSE Gathered(samples, targets \ scraped)

\* A journald source has a row of its own where there is no journald.
CollectLogs(cfg, reading) ==
  LET targets == cfg.targets["logs"]
      refused == Unsupported(cfg, "journald") \cap targets
      tailed == (targets \ refused) \cap reading.readable
  IN  IF targets = {} THEN Payload("skipped", Nothing, {})
      ELSE Gathered(refused \cup tailed, targets \ (refused \cup tailed))

\* zfs and smart: the helper's outcome decides (HelperRun has the helper).
CollectWitness(cfg, collector, outcome) ==
  CASE cfg.targets[collector] = {} -> Payload("skipped", Nothing, {})
    [] outcome = "report"          -> Payload("ok", cfg.targets[collector], {})
    [] outcome = "timeout"         -> Payload("timeout", Nothing, cfg.targets[collector])
    [] OTHER                       -> Payload("error", Nothing, cfg.targets[collector])

\* gpu: a missing binary is incapacity; rows of which none parses are a failed
\* testimony; the query for processes only makes the report partial.
CollectGpu(cfg, outcome) ==
  IF cfg.targets["gpu_witness"] # {} /\ outcome = "absent"
  THEN Payload("not_supported", Nothing, cfg.targets["gpu_witness"])
  ELSE CollectWitness(cfg, "gpu_witness", IF outcome = "partial" THEN "report" ELSE outcome)

\* One row for every declared target, readable or not (SubstrateProbes has the
\* rows).
CollectWal(cfg) == Payload("ok", cfg.targets["sqlite_wal"], {})
CollectBinary == Payload("ok", {"binary"}, {})

\* collect_state, in the order of the fields.
CollectState(cfg, reading) ==
  [host          |-> CollectHost(cfg, reading),
   services      |-> CollectServices(cfg),
   sqlite_health |-> CollectDbs(cfg, reading),
   prometheus    |-> CollectMetrics(cfg, reading),
   logs          |-> CollectLogs(cfg, reading),
   zfs_witness   |-> CollectWitness(cfg, "zfs_witness", reading.helper),
   smart_witness |-> CollectWitness(cfg, "smart_witness", reading.helper),
   gpu_witness   |-> CollectGpu(cfg, reading.smi),
   sqlite_wal    |-> CollectWal(cfg),
   nq_binary     |-> CollectBinary]

ASSUME CollectionAssumption ==
  /\ Workers \in Nat \ {0} /\ MaxCycle \in Nat /\ MaxCrashes \in Nat
  /\ IsFiniteSet(DOMAIN NameOf)
  /\ \A s \in Sources :
       /\ DOMAIN Config[s].targets = CollectorKinds
       /\ Config[s].targets["prometheus"] \subseteq DOMAIN NameOf
       /\ \A c \in CollectorKinds : \A rows \in SUBSET Config[s].targets[c] : rows # Nothing

AllSeries ==
  UNION {UNION {Config[s].exports[t] : t \in Config[s].targets["prometheus"]} : s \in Sources}
  \cup UNION {r.common : r \in Readings}

VARIABLES
  phase,      \* "idle" or "pulling"
  cycle,      \* cycles begun
  began,      \* time at which the current cycle began
  time,       \* collections begun
  pull,       \* [Sources -> outcome of the task of this cycle]
  asked,      \* requests an agent has not taken yet: {[source, cycle]}
  serving,    \* collections under way: {[source, cycle, at]}
  crashes,
  gen,        \* latest generation
  runs,       \* collector_runs and source_runs of the latest generation
  current,    \* [Sources -> [CollectorKinds -> rows with their generation]]
  series,     \* series dictionary, with its scrape-target columns
  lent        \* history: the targets whose samples went into a series

vars == <<phase, cycle, began, time, pull, asked, serving, crashes, gen, runs, current,
          series, lent>>

Pending == [status |-> "waiting"]
Failed(status) == [status |-> status]
Answered(at, state) == [status |-> "ok", at |-> at, state |-> state]
NoRows == [gen |-> 0, at |-> 0, rows |-> {}]
-----------------------------------------------------------------------------
(***************************************************************************)
(* pull_all and the agents.                                                *)
(***************************************************************************)
StartCycle ==
  /\ phase = "idle" /\ cycle < MaxCycle
  /\ phase' = "pulling"
  /\ cycle' = cycle + 1
  /\ began' = time
  /\ pull' = [s \in Sources |-> Pending]
  /\ asked' = asked \cup {[source |-> s, cycle |-> cycle + 1] : s \in Sources}
  /\ UNCHANGED <<time, serving, crashes, gen, runs, current, series, lent>>

\* A free thread takes a request and stamps collected_at.
Take(s) ==
  /\ Cardinality({x \in serving : x.source = s}) < Workers
  /\ \E r \in asked :
       /\ r.source = s
       /\ asked' = asked \ {r}
       /\ serving' = serving \cup {[source |-> s, cycle |-> r.cycle, at |-> time + 1]}
  /\ time' = time + 1
  /\ UNCHANGED <<phase, cycle, began, pull, crashes, gen, runs, current, series, lent>>

\* The connection of a request lives as long as its task.
Heard(x) == phase = "pulling" /\ x.cycle = cycle /\ pull[x.source] = Pending

\* collect_state ends; the answer reaches the task that asked, or nobody.  A
\* /state of another schema version is refused, with its stamp.
Answer(s) ==
  \E x \in serving, reading \in Readings, understood \in BOOLEAN :
    /\ x.source = s
    /\ serving' = serving \ {x}
    /\ pull' = IF ~Heard(x) THEN pull
               ELSE [pull EXCEPT ![s] =
                       IF understood THEN Answered(x.at, CollectState(Config[s], reading))
                       ELSE Failed("error")]
    /\ UNCHANGED <<phase, cycle, began, time, asked, crashes, gen, runs, current, series, lent>>

\* Mutant: the timer runs only while the agent is at work on the request.
TimeoutServed(s) ==
  /\ phase = "pulling" /\ pull[s] = Pending
  /\ [source |-> s, cycle |-> cycle] \notin asked
  /\ pull' = [pull EXCEPT ![s] = Failed("timeout")]
  /\ UNCHANGED <<phase, cycle, began, time, asked, serving, crashes, gen, runs, current,
                 series, lent>>

\* The client's timeout: the request is given up, the agent does not notice.
Timeout(s) ==
  /\ phase = "pulling" /\ pull[s] = Pending
  /\ pull' = [pull EXCEPT ![s] = Failed("timeout")]
  /\ UNCHANGED <<phase, cycle, began, time, asked, serving, crashes, gen, runs, current,
                 series, lent>>

\* The agent's process ends and is started again: connections break.
Crash(s) ==
  /\ crashes < MaxCrashes
  /\ crashes' = crashes + 1
  /\ asked' = {r \in asked : r.source # s}
  /\ serving' = {x \in serving : x.source # s}
  /\ pull' = IF phase = "pulling" /\ pull[s] = Pending
             THEN [pull EXCEPT ![s] = Failed("error")] ELSE pull
  /\ UNCHANGED <<phase, cycle, began, time, gen, runs, current, series, lent>>
-----------------------------------------------------------------------------
(***************************************************************************)
(* publish_batch.                                                          *)
(***************************************************************************)
Ready == phase = "pulling" /\ \A s \in Sources : pull[s] # Pending
Up(s) == pull[s].status = "ok"

\* Mutant: rows of a failed collector are replaced by nothing.
ReplacesEvenFailed(s, c) == Up(s)

\* Only a collector that succeeded has a set in the batch.
Replaces(s, c) == Up(s) /\ pull[s].state[c].status = "ok"

NewRows(s, c) == IF pull[s].state[c].rows = Nothing THEN {} ELSE pull[s].state[c].rows

\* Batch::generation_status
GenerationStatus ==
  CASE \A s \in Sources : Up(s) -> "complete"
    [] \A s \in Sources : ~Up(s) -> "failed"
    [] OTHER -> "partial"

\* The samples of the batch, source by source in the order of the
\* configuration, which is the order of the loop; order matters to the series.
Samples(s) == IF Replaces(s, "prometheus") THEN NewRows(s, "prometheus") ELSE {}

\* metrics_current has one row per host and series.
Conflict == \E s \in Sources : \E a, b \in Samples(s) : a # b /\ a.series = b.series

Senders(x) == {m.target : m \in {n \in UNION {Samples(s) : s \in Sources} : n.series = x}}

NamesOf(targets) == {NameOf[t] : t \in targets} \ {Nothing}

\* The upsert of the series dictionary: a second target name nulls the
\* attribution for good, and a sample without a name leaves it as it is.
Attribute(old, names) ==
  IF old.collision \/ Cardinality(names \cup ({old.name} \ {Nothing})) > 1
  THEN [name |-> Nothing, collision |-> TRUE]
  ELSE [name |-> IF names = {} THEN old.name ELSE CHOOSE n \in names : TRUE, collision |-> FALSE]

UpdateSeries ==
  series' = [x \in AllSeries |->
               IF Senders(x) = {} THEN series[x] ELSE Attribute(series[x], NamesOf(Senders(x)))]

\* The rows of a collector that succeeded, replaced or appended with the
\* generation and the stamp of the collection; witness tables are replaced
\* with the devices and errors of the report.
Stored(s, c) == [gen |-> gen + 1, at |-> pull[s].at, rows |-> NewRows(s, c)]

\* One transaction: it lands whole, or a duplicate in it loses the batch.
Publish ==
  /\ Ready
  /\ ~Conflict
  /\ phase' = "idle"
  /\ gen' = gen + 1
  /\ runs' = [status |-> GenerationStatus,
              of |-> [s \in Sources |-> IF Up(s) THEN pull[s].state ELSE Nothing]]
  /\ current' = [s \in Sources |-> [c \in CollectorKinds |->
                   IF Replaces(s, c) THEN Stored(s, c) ELSE current[s][c]]]
  /\ UpdateSeries
  /\ lent' = [x \in AllSeries |-> lent[x] \cup Senders(x)]
  /\ UNCHANGED <<cycle, began, time, pull, asked, serving, crashes>>

PublishFails ==
  /\ Ready
  /\ Conflict
  /\ phase' = "idle"
  /\ UNCHANGED <<cycle, began, time, pull, asked, serving, crashes, gen, runs, current,
                 series, lent>>

Init ==
  /\ phase = "idle" /\ cycle = 0 /\ began = 0 /\ time = 0
  /\ pull = [s \in Sources |-> Failed("error")]
  /\ asked = {} /\ serving = {} /\ crashes = 0
  /\ gen = 0
  /\ runs = [status |-> "none", of |-> [s \in Sources |-> Nothing]]
  /\ current = [s \in Sources |-> [c \in CollectorKinds |-> NoRows]]
  /\ series = [x \in AllSeries |-> [name |-> Nothing, collision |-> FALSE]]
  /\ lent = [x \in AllSeries |-> {}]

Next ==
  \/ StartCycle \/ Publish \/ PublishFails
  \/ \E s \in Sources : Take(s) \/ Answer(s) \/ Timeout(s) \/ Crash(s)

\* A task ends by an answer or by its timer, and the loop goes on; an agent is
\* promised nothing.
Spec ==
  /\ Init /\ [][Next]_vars
  /\ WF_vars(Publish \/ PublishFails)
  /\ \A s \in Sources : WF_vars(Timeout(s))
-----------------------------------------------------------------------------
(***************************************************************************)
(* Properties.                                                             *)
(***************************************************************************)

\* What a generation replaces was collected for it: rows stamped with the
\* generation a step publishes were sampled after its cycle began, so an agent
\* that answers late, or twice, never brings older rows back over newer ones
\* (pull_one gives up the connection with the task).
SampledInCycle ==
  \A s \in Sources, c \in CollectorKinds :
    current'[s][c] # current[s][c] =>
      /\ current'[s][c].gen = gen'
      /\ current'[s][c].at > began
      /\ current'[s][c].at > current[s][c].at

\* Failure and partial failure are told apart from recovery: when the latest
\* generation heard from a source, every declared target of a collector that
\* lists its targets either has a row of this generation, or its collector did
\* not succeed and the rows it had are kept as they were, or the error message
\* of the run names it.  A scrape that answers nothing is the exception, and
\* for that reason metrics are not in this list.
AbsentIsTold ==
  phase = "idle" /\ gen > 0 =>
    \A s \in Sources, c \in CollectorKinds \ {"prometheus", "host", "nq_binary"} :
      runs.of[s] # Nothing =>
        LET run == runs.of[s][c]
            row == current[s][c]
        IN  IF run.status # "ok"
            THEN row.gen < gen
            ELSE row.gen = gen /\ Config[s].targets[c] \subseteq row.rows \cup run.named

\* scrape_target_name is never a lie by name (publish.rs, the collision guard):
\* a series names a target only if no target of another name ever gave it a
\* sample, over all hosts and generations, and it stays ambiguous once it was;
\* samples that carry no name change nothing.
SeriesHonest ==
  \A x \in AllSeries :
    LET names == NamesOf(lent[x])
    IN  /\ series[x].collision <=> Cardinality(names) > 1
        /\ series[x].name # Nothing <=> Cardinality(names) = 1
        /\ series[x].name # Nothing => names = {series[x].name}


\* A cycle ends whatever the agents do: their threads may all be stuck in a
\* collection, the timers of the sources let the batch go.
CycleEnds == phase = "pulling" ~> phase = "idle"
=============================================================================
