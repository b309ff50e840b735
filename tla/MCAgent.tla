------------------------------ MODULE MCAgent ------------------------------
(***************************************************************************)
(* The agent's side of the system for TLC: the pull cycle (Collection),    *)
(* the collectors that look at changing files (SubstrateProbes), the       *)
(* programs collectors run (HelperRun) and how a deployment is planned     *)
(* (Assembly).  They share no state, so a behaviour is one of one of them: *)
(* part says which, and the variables of the others are off.               *)
(***************************************************************************)
EXTENDS Collection, Sequences, TLC

CONSTANTS
  Files, Nobody, MaxInode, MaxDatabase, MaxBinary, MaxProbes,   \* of SubstrateProbes
  Capacity, Sizes, PollLimit, KillGrace, MaxPolls,  \* of HelperRun
  Suites, MaxSuiteEdits                            \* of Assembly

VARIABLES
  part,
  link, holds, shm, locked, procLocks, legible, wprobe, wrow, probes, free, gone, swapped,
  running, installed, versions, override, cached, bstat, brow,
  size, document, written, pipe, child, heir, parent, got, clock, killedAt, polledAt,
  endedAt, result,
  suiteFile, verdict, planned, suiteEdits

Substrate == INSTANCE SubstrateProbes
Helper == INSTANCE HelperRun WITH MaxTime <- MaxPolls
Suite == INSTANCE Assembly WITH None <- Nothing

ASSUME SubstrateAssumption == Substrate!SubstrateAssumption
ASSUME HelperAssumption == Helper!HelperAssumption
ASSUME SuiteAssumption == Suite!AssemblyAssumption

substrateVars == <<link, holds, shm, locked, procLocks, legible, wprobe, wrow, probes, free, gone,
                   swapped, running, installed, versions, override, cached, bstat, brow>>
helperVars == <<size, document, written, pipe, child, heir, parent, got, clock, killedAt,
                polledAt, endedAt, result>>
assemblyVars == <<suiteFile, verdict, planned, suiteEdits>>
agentVars == <<part, vars, substrateVars, helperVars, assemblyVars>>

\* A variable of a machine that does not run.
IsOff(x) == x = "off"
CollectionOff ==
  /\ IsOff(phase) /\ IsOff(cycle) /\ IsOff(began) /\ IsOff(time) /\ IsOff(pull)
  /\ IsOff(asked) /\ IsOff(serving) /\ IsOff(crashes) /\ IsOff(gen) /\ IsOff(runs)
  /\ IsOff(current) /\ IsOff(series) /\ IsOff(lent)
SubstrateOff ==
  /\ IsOff(link) /\ IsOff(holds) /\ IsOff(shm) /\ IsOff(locked) /\ IsOff(procLocks)
  /\ IsOff(legible) /\ IsOff(wprobe) /\ IsOff(wrow) /\ IsOff(probes) /\ IsOff(free)
  /\ IsOff(gone) /\ IsOff(swapped) /\ IsOff(running) /\ IsOff(installed) /\ IsOff(versions)
  /\ IsOff(override) /\ IsOff(cached) /\ IsOff(bstat) /\ IsOff(brow)
HelperOff ==
  /\ IsOff(size) /\ IsOff(document) /\ IsOff(written) /\ IsOff(pipe) /\ IsOff(child)
  /\ IsOff(heir) /\ IsOff(parent) /\ IsOff(got) /\ IsOff(clock) /\ IsOff(killedAt)
  /\ IsOff(polledAt) /\ IsOff(endedAt) /\ IsOff(result)
AssemblyOff == IsOff(suiteFile) /\ IsOff(verdict) /\ IsOff(planned) /\ IsOff(suiteEdits)

AgentInit ==
  \/ part = "collection" /\ Init /\ SubstrateOff /\ HelperOff /\ AssemblyOff
  \/ part \in {"wal", "binary"} /\ Substrate!Init /\ CollectionOff /\ HelperOff /\ AssemblyOff
  \/ part = "helper" /\ Helper!Init /\ CollectionOff /\ SubstrateOff /\ AssemblyOff
  \/ part = "assembly" /\ Suite!AssemblyInit /\ CollectionOff /\ SubstrateOff /\ HelperOff

AgentNext ==
  /\ UNCHANGED part
  /\ \/ part = "collection" /\ Next /\ UNCHANGED <<substrateVars, helperVars, assemblyVars>>
     \/ part = "wal" /\ Substrate!WalNext /\ UNCHANGED <<vars, helperVars, assemblyVars>>
     \/ part = "binary" /\ Substrate!BinaryNext /\ UNCHANGED <<vars, helperVars, assemblyVars>>
     \/ part = "helper" /\ Helper!Next /\ UNCHANGED <<vars, substrateVars, assemblyVars>>
     \/ part = "assembly" /\ Suite!AssemblyNext /\ UNCHANGED <<vars, substrateVars, helperVars>>

\* The fairness of Collection.
AgentSpec ==
  /\ AgentInit /\ [][AgentNext]_agentVars
  /\ WF_vars(part = "collection" /\ (Publish \/ PublishFails))
  /\ \A s \in Sources : WF_vars(part = "collection" /\ Timeout(s))
-----------------------------------------------------------------------------
\* Values.

Empty == [c \in CollectorKinds |-> {}]

\* Two exporters of one host, and one of another that exports a series of the
\* first and whose agent is too old to name it.
MCNameOf == ("node@a" :> "node" @@ "cache@a" :> "cache" @@ "box@b" :> Nothing)

Alpha ==
  [platform |-> "linux",
   targets |-> [Empty EXCEPT !["sqlite_health"] = {"db1", "db2"},
                             !["prometheus"] = {"node@a", "cache@a"},
                             !["logs"] = {"file"},
                             !["zfs_witness"] = {"pool"}],
   adapter |-> [t \in {"file"} |-> "file"],
   exports |-> ("node@a" :> {"up"} @@ "cache@a" :> {"hits"})]

Beta ==
  [platform |-> "freebsd",
   targets |-> [Empty EXCEPT !["services"] = {"unit", "box"},
                             !["logs"] = {"journal", "file"},
                             !["prometheus"] = {"box@b"},
                             !["gpu_witness"] = {"gpu"}],
   adapter |-> ("unit" :> "systemd" @@ "box" :> "docker"
                @@ "journal" :> "journald" @@ "file" :> "file"),
   exports |-> ("box@b" :> {"up"})]

MCConfig == [s \in {"alpha", "beta"} |-> IF s = "alpha" THEN Alpha ELSE Beta]

All == {"db1", "db2", "file"} \cup DOMAIN MCNameOf
Fine == [proc |-> TRUE, readable |-> All, blank |-> {}, common |-> {},
         helper |-> "report", smi |-> "report"]

MCReadings ==
  {Fine,
   [Fine EXCEPT !.common = {"info"}],
   [Fine EXCEPT !.proc = FALSE, !.readable = All \ {"db1", "cache@a"},
                !.helper = "timeout", !.common = {"info"}],
   [Fine EXCEPT !.readable = All \ {"db1", "db2", "file", "box@b"}, !.blank = {"node@a"},
                !.common = {"info"}, !.helper = "exit", !.smi = "absent"]}

\* A full deployment with every pack, and what may be wrong with one: each
\* variant is at a place where the rules of the validators differ or end.
Url(host, port) ==
  [scheme |-> "http", host |-> host, port |-> port, query |-> FALSE, fragment |-> FALSE, slashes |-> 0]
Addr(host, port) == [host |-> host, port |-> port]
Entry(pack, checks, config) == [pack |-> pack, checks |-> checks, config |-> config]
Witness(path, wrapper, timeout) == [path |-> path, wrapper |-> wrapper, timeout |-> timeout]
Target(url) == [name |-> "m", url |-> url, timeout |-> 1]
Service(name, adapter, target) == [name |-> name, adapter |-> adapter, target |-> target]
Labels ==
  [services |-> <<Service("s", "systemd", "unit"), Service("p", "pid_file", "absolute")>>,
   databases |-> <<"absolute", "absolute2">>, logs |-> <<>>, metrics |-> <<Target(Url("name", 1))>>]
HostEntry == Entry("host", <<"host.resources">>, <<>>)
LabelEntry ==
  Entry("labelwatch", <<"labelwatch.metric_signal", "labelwatch.service_state", "labelwatch.sqlite_state">>,
        Labels)
StorageEntry ==
  Entry("storage", <<"storage.zfs", "accelerator.nvidia">>,
        "storage.zfs" :> Witness("absolute", <<"command", "argument">>, 1)
        @@ "accelerator.nvidia" :> Witness("command", <<>>, 1))
Aggregator ==
  [interval |-> 1, pruneEvery |-> 1, maxGenerations |-> 0, bind |-> Addr("v6", 65535),
   sources |-> <<[name |-> "a", url |-> Url("name", 1), timeout |-> 1],
                 [name |-> "b", url |-> Url("absolute", Nothing), timeout |-> 1]>>,
   thresholds |-> <<1, 0>>, instance |-> "i", dbPath |-> "path", liveness |-> "path",
   declarations |-> Nothing, coverage |-> "path",
   notifications |->
     [min |-> "warning", external |-> Url("name", 1),
      channels |-> <<[url |-> [Url("name", 1) EXCEPT !.query = TRUE],
                      headers |-> <<[valid |-> TRUE, lower |-> "x"]>>]>>]]
Whole ==
  [features |-> {"host", "storage", "labelwatch", "aggregator"}, versions |-> TRUE, mode |-> "full",
   publisher |-> [bind |-> Addr("name", 1), url |-> [Url("name", 1) EXCEPT !.slashes = 1]],
   source |-> "a", aggregator |-> Aggregator, packs |-> <<HostEntry, LabelEntry, StorageEntry>>]
With(entry) == [Whole EXCEPT !.packs = <<entry, HostEntry>>]
Labelled(config) == With([LabelEntry EXCEPT !.config = config])
Alone == [Whole EXCEPT !.mode = "publisher_only"]
Served(aggregator) == [Whole EXCEPT !.aggregator = aggregator]
MCSuites ==
  {Whole, [Whole EXCEPT !.versions = FALSE], [Whole EXCEPT !.packs = Nothing],
   [Whole EXCEPT !.features = @ \ {"labelwatch"}], [Whole EXCEPT !.features = @ \ {"aggregator"}],
   [Alone EXCEPT !.features = @ \ {"aggregator"}], [Whole EXCEPT !.mode = "monitor_only", !.packs = Nothing],
   [Whole EXCEPT !.mode = "monitor_only"], [Whole EXCEPT !.packs = <<>>],
   With(HostEntry), With([HostEntry EXCEPT !.pack = "typo"]), With([LabelEntry EXCEPT !.checks = <<>>]),
   With([StorageEntry EXCEPT !.checks = <<"storage.zfs">>]),
   With([StorageEntry EXCEPT !.checks = <<"storage.zfs", "storage.smart", "accelerator.nvidia">>]),
   With([StorageEntry EXCEPT !.config = [@ EXCEPT !["storage.zfs"] = Witness("command", <<>>, 1)]]),
   With([StorageEntry EXCEPT !.config = [@ EXCEPT !["accelerator.nvidia"] = Witness("absolute", <<>>, 0)]]),
   With([LabelEntry EXCEPT !.checks = @ \o <<"labelwatch.service_state">>]),
   \* the same pack twice, with other checks of it
   [Whole EXCEPT !.packs = <<LabelEntry,
     Entry("labelwatch", <<"labelwatch.sqlite_state">>,
           [Labels EXCEPT !.services = <<>>, !.metrics = <<>>])>>],
   Labelled([Labels EXCEPT !.databases = <<"absolute", "absolute">>]),
   Labelled([Labels EXCEPT !.services = <<Service("s", "docker", "padded")>>]),
   Labelled([Labels EXCEPT !.services = <<Service("s", "pid_file", "relative")>>]),
   Labelled([Labels EXCEPT !.logs = <<[id |-> "l", adapter |-> "file", target |-> "absolute", maxLines |-> 1]>>]),
   With(Entry("labelwatch", <<"labelwatch.log_signal">>,
              [services |-> <<>>, databases |-> <<>>, metrics |-> <<>>,
               logs |-> <<[id |-> "l", adapter |-> "journald", target |-> "padded", maxLines |-> 1]>>])),
   Labelled([Labels EXCEPT !.metrics = <<Target([Url("name", 65536) EXCEPT !.query = TRUE])>>]),
   Labelled([Labels EXCEPT !.metrics = <<Target([Url("v6", Nothing) EXCEPT !.fragment = TRUE])>>]),
   Labelled([Labels EXCEPT !.metrics = <<Target(Url("absolute", 1))>>]),
   [Alone EXCEPT !.publisher.bind = Addr("long", 1)], [Alone EXCEPT !.publisher.bind = Addr("absolute", 1)],
   [Alone EXCEPT !.publisher.bind = Addr("name", 0)], [Alone EXCEPT !.publisher.url = Url("keyed", 0)],
   [Whole EXCEPT !.publisher.url = Url("keyed", 0), !.source = "b"], [Whole EXCEPT !.source = "b"],
   [Whole EXCEPT !.source = "c"],
   [Whole EXCEPT !.source = "padded", !.aggregator.dbPath = "blank"],
   Served([Aggregator EXCEPT !.dbPath = "blank"]), Served([Aggregator EXCEPT !.coverage = "blank"]),
   Served([Aggregator EXCEPT !.sources = @ \o @]), Served([Aggregator EXCEPT !.liveness = Nothing]),
   Served([Aggregator EXCEPT !.notifications.external = Nothing]),
   Served([Aggregator EXCEPT !.thresholds = <<-1>>]),
   Served([Aggregator EXCEPT !.notifications.channels[1].headers = @ \o @])}
-----------------------------------------------------------------------------
(***************************************************************************)
(* Properties.                                                             *)
(***************************************************************************)

\* What a generation stores was sampled for it, and what it lacks it tells:
\* rows are never replaced by those of a late answer, a target without a row
\* has a failed collector or is named by it, and no series names a target that
\* was not its only one (pull_all, publish_batch).
StoredIsTold ==
  /\ [][part = "collection" => SampledInCycle]_vars
  /\ [](part = "collection" => AbsentIsTold /\ SeriesHonest)

\* Whatever the owner of the files does between the system calls of a collector:
\* a WAL row is of one path, and of one database unless another was renamed over
\* it; that no reader is pinned, or no database there, was so at some moment of
\* the probe; and a binary row's digest is not of an older executable than its
\* size and time (sqlite_wal_probe.rs, nq_binary.rs).
SubstrateRowsTrue ==
  /\ [][part = "wal" =>
           /\ Substrate!WalRowIsOneFile
           /\ Substrate!UnpinnedWasTrue
           /\ Substrate!MissingWasMissing]_substrateVars
  /\ [](part = "binary" => Substrate!DigestNotOlder)

\* A report is taken only whole and from a program that ended well, a timeout is
\* told only of one that had not ended when it was last looked at, and a failure
\* is the program's own (collectors of the storage pack).
HelperOutcomeIsJust ==
  part = "helper" => Helper!ReportIsWhole /\ Helper!TimeoutIsJust

\* A plan that is accepted collects what was selected and no more, would start
\* but for two known leniencies, is polled by its aggregator, and does not
\* depend on the order of the selection (plan, resolve, validate_config,
\* Config::validate, PublisherConfig::validate).
PlanIsWhatWasSelected ==
  part = "assembly" =>
    /\ Suite!OnlySelectedIsPlanned
    /\ Suite!PlannedWouldStart
    /\ Suite!PublisherIsPolled
    /\ Suite!PlanIsDetermined
=============================================================================
