------------------------------ MODULE Assembly ------------------------------
(***************************************************************************)
(* How a deployment is put together before anything of it runs: the suite  *)
(* planner resolves a versioned selection of check packs into a plan       *)
(* (crates/nq-suite/src/lib.rs over nq-monitor-check/src/pack.rs and the   *)
(* packs), and the aggregator and the publisher validate the configuration *)
(* they are started with (nq-core/src/config.rs).                          *)
(*                                                                         *)
(* Three modules validate hosts and URLs, each by its own rules.  A host   *)
(* is here the class of hosts that the rules tell apart, and so is a text: *)
(* blank, padded with spaces, or itself.  A document comes with the        *)
(* features of the build that reads it.                                    *)
(***************************************************************************)
EXTENDS Integers, Sequences, FiniteSets, SequencesExt

CONSTANTS
  None,            \* a model value: a field that is left out
  Suites,          \* suite documents
  MaxSuiteEdits    \* bound on edits of the document

VARIABLES
  suiteFile,       \* the document
  verdict,         \* what `nq-suite config validate` last said, of which document
  planned,         \* the last plan, or the refusal of it, of which document
  suiteEdits

assemblyVars == <<suiteFile, verdict, planned, suiteEdits>>
-----------------------------------------------------------------------------
(***************************************************************************)
(* Texts, hosts, URLs.                                                     *)
(***************************************************************************)
NonEmpty(text) == text # "blank"
Identity(text) == text \notin {"blank", "padded"}
Distinct(list, Key(_)) == \A i, j \in DOMAIN list : Key(list[i]) = Key(list[j]) => i = j

PortOk(port) == port \in 1 .. 65535

\* validate_hostname of config.rs: "absolute" ends in a dot, "long" has more
\* than 253 bytes in good labels, "keyed" has credentials before the host.
HostnameOk(host) == host \in {"name", "absolute", "v6"}
\* validate_host of the suite, which has no limit and knows no final dot.
SuiteHostOk(host) == host \in {"name", "long", "v6"}
\* validate_http_host of the labelwatch pack.
PackHostOk(host) == host \in {"name", "v6"}

SocketAddrOk(a) == HostnameOk(a.host) /\ PortOk(a.port)
SuiteAddrOk(a) == SuiteHostOk(a.host) /\ PortOk(a.port)

\* validate_http_url; paths are appended to a base.
UrlOk(u, allowQuery) ==
  /\ u.scheme \in {"http", "https"}
  /\ ~u.fragment
  /\ u.query => allowQuery
  /\ HostnameOk(u.host) /\ (u.port # None => PortOk(u.port))

\* validate_base_url of the suite: any authority that is not empty.
SuiteUrlOk(u) == u.scheme \in {"http", "https"} /\ ~u.fragment /\ ~u.query /\ u.host # "empty"

\* validate_http_url of the labelwatch pack.
PackUrlOk(u) ==
  u.scheme \in {"http", "https"} /\ PackHostOk(u.host) /\ (u.port # None => PortOk(u.port))
-----------------------------------------------------------------------------
(***************************************************************************)
(* Configurations of the two processes.                                    *)
(***************************************************************************)

\* validate_http_header_name and validate_http_header_value: visible characters.
HeaderOk(h) == h.valid

\* NotificationChannel::validate; names of headers differ in more than case.
ChannelOk(c) ==
  /\ UrlOk(c.url, TRUE)
  /\ \A i \in DOMAIN c.headers : HeaderOk(c.headers[i])
  /\ Distinct(c.headers, LAMBDA h : h.lower)

NotificationsOk(n) ==
  /\ n.min \in {"info", "warning", "critical"}
  /\ n.channels # <<>> => n.external # None
  /\ n.external # None => UrlOk(n.external, FALSE)
  /\ \A i \in DOMAIN n.channels : ChannelOk(n.channels[i])

\* validate_detector_thresholds, validate_escalation_thresholds: none negative;
\* how they compare is not looked at.
ThresholdsOk(c) == \A i \in DOMAIN c.thresholds : c.thresholds[i] >= 0

\* Config::validate.  The number of generations to keep may be nought.
ConfigOk(c) ==
  /\ c.interval > 0 /\ c.pruneEvery > 0 /\ c.maxGenerations \in Nat
  /\ NonEmpty(c.dbPath)
  /\ \A path \in {c.liveness, c.declarations, c.coverage} : path # None => NonEmpty(path)
  /\ SocketAddrOk(c.bind)
  /\ \A i \in DOMAIN c.sources :
       /\ Identity(c.sources[i].name) /\ UrlOk(c.sources[i].url, FALSE)
       /\ c.sources[i].timeout > 0
  /\ Distinct(c.sources, LAMBDA s : s.name)
  /\ ThresholdsOk(c)
  /\ NotificationsOk(c.notifications)
  /\ c.instance # None => Identity(c.instance) /\ c.liveness # None

\* PublisherConfig::validate, of a configuration with the fields a plan has.
ServiceOk(s) ==
  /\ Identity(s.name)
  /\ \/ s.type \in {"systemd", "docker"} /\ s.pidFile = None /\ (s.unit # None => NonEmpty(s.unit))
     \/ s.type = "pid_file" /\ s.unit = None /\ s.pidFile # None /\ NonEmpty(s.pidFile)
LogOk(l) ==
  Identity(l.id) /\ l.adapter \in {"journald", "file"} /\ NonEmpty(l.target) /\ l.maxLines > 0
WitnessOk(w) == NonEmpty(w.path) /\ w.timeout > 0 /\ \A i \in DOMAIN w.wrapper : NonEmpty(w.wrapper[i])

PublisherOk(p) ==
  /\ SocketAddrOk(p.bind)
  /\ \A i \in DOMAIN p.databases : NonEmpty(p.databases[i])
  /\ Distinct(p.databases, LAMBDA d : d)
  /\ \A i \in DOMAIN p.services : ServiceOk(p.services[i])
  /\ Distinct(p.services, LAMBDA s : s.name)
  /\ \A i \in DOMAIN p.metrics :
       Identity(p.metrics[i].name) /\ UrlOk(p.metrics[i].url, TRUE) /\ p.metrics[i].timeout > 0
  /\ Distinct(p.metrics, LAMBDA m : m.name)
  /\ \A i \in DOMAIN p.logs : LogOk(p.logs[i])
  /\ Distinct(p.logs, LAMBDA l : l.id)
  /\ \A check \in DOMAIN p.witnesses : WitnessOk(p.witnesses[check])
-----------------------------------------------------------------------------
(***************************************************************************)
(* Packs.                                                                  *)
(***************************************************************************)

\* The descriptors of the packs: the checks of each.
HostChecks == {"host.resources"}
StorageChecks == {"storage.zfs", "storage.smart", "accelerator.nvidia"}
LabelwatchChecks ==
  {"labelwatch.service_state", "labelwatch.sqlite_state", "labelwatch.log_signal",
   "labelwatch.metric_signal"}
KnownChecks == [host |-> HostChecks, storage |-> StorageChecks, labelwatch |-> LabelwatchChecks]

\* validate_descriptor: what register asks of every pack.
DescriptorOk(checks) == checks # {} /\ IsFiniteSet(checks)

\* build_registry: the packs of the build's features; the other packs of
\* KNOWN_PACK_FEATURES are refused by a name of their own.
Registry(features) == DOMAIN KnownChecks \cap features

\* CheckPackRegistry::register: one bad descriptor, and there is no registry.
Registers(features) == \A p \in Registry(features) : DescriptorOk(KnownChecks[p])

\* validate_executable_reference: absolute, or one name that PATH resolves.
ExecutableOk(path) == path \in {"absolute", "command"}

\* validate_helper and validate_gpu.
HelperOk(check, w) ==
  /\ w.timeout > 0
  /\ IF check = "accelerator.nvidia" THEN ExecutableOk(w.path) /\ w.wrapper = <<>>
     ELSE /\ w.path = "absolute"
          /\ \A i \in DOMAIN w.wrapper : Identity(w.wrapper[i])
          /\ w.wrapper # <<>> => ExecutableOk(w.wrapper[1])

\* validate_selected_config: a check has its settings when and only when it is
\* enabled.
StorageConfigOk(config, checks) ==
  DOMAIN config = checks /\ \A check \in checks : HelperOk(check, config[check])

\* require_absolute_path: two of them, to tell one from another.
AbsolutePath(path) == path \in {"absolute", "absolute2"}

\* validate_enabled_targets and the rest of the labelwatch pack's validate_config.
LabelwatchConfigOk(config, checks) ==
  /\ config.services # <<>> <=> "labelwatch.service_state" \in checks
  /\ config.databases # <<>> <=> "labelwatch.sqlite_state" \in checks
  /\ config.logs # <<>> <=> "labelwatch.log_signal" \in checks
  /\ config.metrics # <<>> <=> "labelwatch.metric_signal" \in checks
  /\ Distinct(config.services, LAMBDA s : s.name)
  /\ \A i \in DOMAIN config.services :
       LET s == config.services[i] IN
       /\ Identity(s.name)
       /\ IF s.adapter = "pid_file" THEN AbsolutePath(s.target) ELSE Identity(s.target)
  /\ Distinct(config.databases, LAMBDA d : d)
  /\ \A i \in DOMAIN config.databases : AbsolutePath(config.databases[i])
  /\ Distinct(config.logs, LAMBDA l : l.id)
  /\ \A i \in DOMAIN config.logs :
       LET l == config.logs[i] IN
       /\ Identity(l.id) /\ NonEmpty(l.target) /\ l.maxLines > 0
       /\ l.adapter = "file" => AbsolutePath(l.target)
  /\ Distinct(config.metrics, LAMBDA m : m.name)
  /\ \A i \in DOMAIN config.metrics :
       LET m == config.metrics[i] IN Identity(m.name) /\ PackUrlOk(m.url) /\ m.timeout > 0

PackConfigOk(pack, config, checks) ==
  CASE pack = "host" -> checks = HostChecks
    [] pack = "storage" -> StorageConfigOk(config, checks)
    [] pack = "labelwatch" -> LabelwatchConfigOk(config, checks)

\* Mutant: a second selection of a pack takes the place of the first.
SelectionRefusalLastWins(selection, features) ==
  LET bad == {i \in DOMAIN selection :
               \/ selection[i].pack \notin Registry(features)
               \/ selection[i].checks = <<>>
               \/ ~(ToSet(selection[i].checks) \subseteq KnownChecks[selection[i].pack])
               \/ ~PackConfigOk(selection[i].pack, selection[i].config, ToSet(selection[i].checks))}
  IN IF bad = {} THEN None ELSE "selection"

\* CheckPackRegistry::resolve: every entry names an available pack that no other
\* entry names, known checks, each once, and a configuration the pack accepts for
\* them.
EntryOk(e, features) ==
  /\ e.pack \in Registry(features)
  /\ e.checks # <<>> /\ Distinct(e.checks, LAMBDA c : c)
  /\ ToSet(e.checks) \subseteq KnownChecks[e.pack]
  /\ PackConfigOk(e.pack, e.config, ToSet(e.checks))

SelectionOk(selection, features) ==
  /\ Distinct(selection, LAMBDA e : e.pack)
  /\ \A i \in DOMAIN selection : EntryOk(selection[i], features)

\* refuse_known_unavailable_packs comes first.
SelectionRefusal(selection, features) ==
  LET packs == {selection[i].pack : i \in DOMAIN selection}
  IN IF (packs \ Registry(features)) \cap DOMAIN KnownChecks # {} THEN "unavailable"
     ELSE IF SelectionOk(selection, features) THEN None
     ELSE "selection"

Enabled(selection) ==
  [p \in {selection[i].pack : i \in DOMAIN selection} |->
     selection[CHOOSE i \in DOMAIN selection : selection[i].pack = p]]
-----------------------------------------------------------------------------
(***************************************************************************)
(* The planner.                                                            *)
(***************************************************************************)

\* map_labelwatch_plan: the target of a service is a unit or a file.
ServiceTarget(s) ==
  [name |-> s.name, type |-> s.adapter,
   unit |-> IF s.adapter = "pid_file" THEN None ELSE s.target,
   pidFile |-> IF s.adapter = "pid_file" THEN s.target ELSE None]

\* What the labelwatch pack adds, if it is enabled.
Labelwatch(enabled, field) ==
  IF "labelwatch" \in DOMAIN enabled THEN enabled["labelwatch"].config[field] ELSE <<>>

\* PublisherAssemblyPlan: what each enabled pack adds to the publisher.
PublisherPlan(endpoint, enabled) ==
  LET services == Labelwatch(enabled, "services")
  IN [bind |-> endpoint.bind, url |-> endpoint.url,
      host |-> "host" \in DOMAIN enabled,
      databases |-> Labelwatch(enabled, "databases"),
      services |-> [i \in DOMAIN services |-> ServiceTarget(services[i])],
      logs |-> Labelwatch(enabled, "logs"), metrics |-> Labelwatch(enabled, "metrics"),
      witnesses |-> IF "storage" \in DOMAIN enabled THEN enabled["storage"].config ELSE <<>>]

\* normalize_base_url: slashes at the end do not count.
SameBase(u, v) == [u EXCEPT !.slashes = 0] = [v EXCEPT !.slashes = 0]

\* The aggregator of a full runtime polls this publisher under the name given.
Polled(s) ==
  \E i \in DOMAIN s.aggregator.sources :
    /\ s.aggregator.sources[i].name = s.source
    /\ SameBase(s.aggregator.sources[i].url, s.publisher.url)

\* resolve_runtime: the text of the name first, then the aggregator, then that
\* its sources have one of that name and address.
RuntimeRefusal(s) ==
  IF s.mode = "publisher_only" THEN None
  ELSE IF "aggregator" \notin s.features THEN "aggregator_unavailable"
  ELSE IF s.mode = "full" /\ ~Identity(s.source) THEN "publisher_source"
  ELSE IF ~ConfigOk(s.aggregator) THEN "aggregator"
  ELSE IF s.mode = "full" /\ ~Polled(s) THEN "publisher_source"
  ELSE None

\* validate_versions, the presence of packs, validate_publisher, the selection,
\* then the runtime: the first that refuses.
Refusal(s) ==
  LET selection == IF s.packs = None THEN <<>> ELSE s.packs IN
  IF ~s.versions THEN "version"
  ELSE IF (s.mode = "monitor_only") # (s.packs = None) THEN "packs"
  ELSE IF s.mode # "monitor_only" /\ ~(SuiteAddrOk(s.publisher.bind) /\ SuiteUrlOk(s.publisher.url))
  THEN "publisher"
  ELSE IF ~Registers(s.features) THEN "registry"
  ELSE IF SelectionRefusal(selection, s.features) # None THEN SelectionRefusal(selection, s.features)
  ELSE RuntimeRefusal(s)

\* plan, without side effects.
Plan(s) ==
  LET enabled == IF s.packs = None THEN <<>> ELSE Enabled(s.packs) IN
  IF Refusal(s) # None THEN [of |-> s, refused |-> Refusal(s)]
  ELSE [of |-> s, refused |-> None, mode |-> s.mode,
        enabled |-> [p \in DOMAIN enabled |-> ToSet(enabled[p].checks)],
        publisher |-> IF s.mode = "monitor_only" THEN None ELSE PublisherPlan(s.publisher, enabled),
        aggregator |-> IF s.mode = "publisher_only" THEN None ELSE s.aggregator,
        source |-> IF s.mode = "full" THEN s.source ELSE None]

\* What parsing has made sure of: a document has its fields, lists are lists, and
\* an adapter is one of its enumeration.
UrlShape(u) == DOMAIN u = {"scheme", "host", "port", "query", "fragment", "slashes"}
IsList(list) == list \in Seq({list[i] : i \in DOMAIN list})
EntryShape(e) ==
  e.pack = "labelwatch" =>
    /\ IsList(e.config.services) /\ IsList(e.config.databases)
    /\ IsList(e.config.logs) /\ IsList(e.config.metrics)
    /\ \A i \in DOMAIN e.config.services :
         /\ e.config.services[i].adapter \in {"systemd", "docker", "pid_file"}
         /\ e.config.services[i].target # None
    /\ \A i \in DOMAIN e.config.logs : e.config.logs[i].adapter \in {"journald", "file"}
SuiteShape(s) ==
  /\ DOMAIN s = {"features", "versions", "mode", "publisher", "source", "aggregator", "packs"}
  /\ s.mode \in {"full", "publisher_only", "monitor_only"}
  /\ s.packs # None =>
       /\ IsList(s.packs) /\ Reverse(s.packs) # None
       /\ \A i \in DOMAIN s.packs : EntryShape(s.packs[i])
  /\ s.mode = "full" =>
       /\ UrlShape(s.publisher.url)
       /\ \A i \in DOMAIN s.aggregator.sources : UrlShape(s.aggregator.sources[i].url)

AssemblyAssumption ==
  /\ None \notin {"version", "packs", "publisher", "registry", "unavailable", "selection",
                  "aggregator_unavailable", "aggregator", "publisher_source"}
  /\ \A s \in Suites : SuiteShape(s)

AssemblyInit ==
  suiteFile \in Suites /\ verdict = None /\ planned = None /\ suiteEdits = 0

\* nq-suite config validate: the same planning, whose plan is not shown.
ValidateSuite ==
  /\ verdict' = [of |-> suiteFile, valid |-> Plan(suiteFile).refused = None]
  /\ UNCHANGED <<suiteFile, planned, suiteEdits>>

\* nq-suite plan.
PlanSuite ==
  /\ planned' = Plan(suiteFile)
  /\ UNCHANGED <<suiteFile, verdict, suiteEdits>>

\* An operator edits the document.
EditSuite ==
  /\ suiteEdits < MaxSuiteEdits
  /\ suiteEdits' = suiteEdits + 1
  /\ suiteFile' \in Suites \ {suiteFile}
  /\ UNCHANGED <<verdict, planned>>

AssemblyNext == ValidateSuite \/ PlanSuite \/ EditSuite
-----------------------------------------------------------------------------
(***************************************************************************)
(* Properties.                                                             *)
(***************************************************************************)
Accepted == planned # None /\ planned.refused = None

\* A plan collects what was selected and no more: a check that is not enabled
\* has no target, and one that is has some (lib.rs: "Only a versioned
\* configuration selection makes it enabled").
OnlySelectedIsPlanned ==
  Accepted /\ planned.publisher # None =>
    LET p == planned.publisher
        checks == UNION {planned.enabled[k] : k \in DOMAIN planned.enabled}
    IN /\ checks = UNION {ToSet(planned.of.packs[i].checks) : i \in DOMAIN planned.of.packs}
       /\ p.host <=> "host.resources" \in checks
       /\ p.services # <<>> <=> "labelwatch.service_state" \in checks
       /\ p.databases # <<>> <=> "labelwatch.sqlite_state" \in checks
       /\ p.logs # <<>> <=> "labelwatch.log_signal" \in checks
       /\ p.metrics # <<>> <=> "labelwatch.metric_signal" \in checks
       /\ DOMAIN p.witnesses = checks \cap StorageChecks

\* A planned publisher is one that the publisher would start with, but for the
\* two places where the suite and a pack are more lenient: a host of more than
\* 253 bytes, and a fragment in the URL of a metric.
PlannedWouldStart ==
  Accepted /\ planned.publisher # None =>
    \/ PublisherOk(planned.publisher)
    \/ planned.publisher.bind.host = "long"
    \/ \E i \in DOMAIN planned.publisher.metrics : planned.publisher.metrics[i].url.fragment

\* In a full runtime one source of the aggregator is this publisher, and its URL
\* is one that the aggregator can append to.
PublisherIsPolled ==
  Accepted /\ planned.mode = "full" =>
    LET of == {i \in DOMAIN planned.aggregator.sources :
                 planned.aggregator.sources[i].name = planned.source}
    IN /\ Cardinality(of) = 1
       /\ \A i \in of : /\ SameBase(planned.aggregator.sources[i].url, planned.publisher.url)
                        /\ UrlOk(planned.publisher.url, FALSE)

\* The order of the selection does not matter, and what was said valid is planned.
PlanIsDetermined ==
  /\ Accepted /\ planned.of.packs # None =>
       [Plan([planned.of EXCEPT !.packs = Reverse(@)]) EXCEPT !.of = planned.of] = planned
  /\ verdict # None /\ planned # None /\ verdict.of = planned.of =>
       (verdict.valid <=> planned.refused = None)
=============================================================================
