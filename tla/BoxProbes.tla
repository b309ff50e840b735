----------------------------- MODULE BoxProbes -----------------------------
(***************************************************************************)
(* The probes that compare what a firewall box says of itself with what    *)
(* can be observed from elsewhere (crates/nq-monitor/src/declared_deny_*,  *)
(* gateway_path_*, lease_presence_*, cmd/probe.rs): a declared block rule  *)
(* against connections, the gateway monitor's figures against pings, a     *)
(* DHCP lease against the presence of a host.                              *)
(*                                                                         *)
(* A probe reads the box over SSH in one session of several commands, then *)
(* tries the network, then judges and prints a receipt.  Nothing stands    *)
(* still meanwhile: rules are reloaded, links go down, leases are written. *)
(* A behaviour has one kind of probe and the part of the world it looks at.*)
(***************************************************************************)
EXTENDS Naturals, Sequences

CONSTANTS
  None,
  Kinds,         \* subset of {"deny", "gateway", "lease"}
  MaxTime,       \* bound: readings of the clock
  MaxChanges     \* bound: changes of the world

BoxAssumption ==
  /\ Kinds \subseteq {"deny", "gateway", "lease"}
  /\ MaxTime \in Nat /\ MaxChanges \in Nat

VARIABLES
  kind, options,   \* what is probed and how, from the command line
  world, changes,
  pc,              \* next step of the probe
  at,              \* "now" of the probe, read once
  got,             \* what each step brought
  receipt,         \* what was printed, None before
  combined,        \* the combined report of a gateway probe, None before
  seen, sent       \* history: see below

vars == <<kind, options, world, changes, pc, at, got, receipt, combined,
          seen, sent>>
-----------------------------------------------------------------------------
(***************************************************************************)
(* The world.  An answer is that of a TCP connection attempt; a host that  *)
(* answers one also answers a ping.  A name may have no address, and there *)
(* may be no route to it: then nothing leaves this host.                   *)
(***************************************************************************)
Answers == {"connected", "refused", "silent", "unroutable", "unresolved"}
Answered(a) == a \in {"connected", "refused"}

\* The rule dump, and the hosts behind and beside the rule.
DenyWorlds ==
  [dump : {"empty", "other", "pass", "block"}, control : Answers, subject : Answers]

Lines == {"mute", "garbled", "other", "fine", "lost"}

\* The sockets there are, by their file: of the gateway, of another one, and one
\* whose name has no addresses.
Sockets == {{}, {"own"}, {"other"}, {"odd"}, {"own", "other"}}

GatewayWorlds ==
  [socks : Sockets, line : Lines, ping : BOOLEAN,
   monitor : Answers, anchor : Answers]

\* The status file of the beacon outside.
Beacons == {"arrival", "absence", "none", "bad", "missing"}

Entries == [state : {"active", "free", "expired", "odd"}, ends : {None, 1}, whole : BOOLEAN]
LeaseFiles == {None, <<>>} \cup {<<e>> : e \in {x \in Entries : x.whole}}
Bare == {None, <<>>}

\* Lease files of the two servers (kea has two places), at first at most one of
\* them with an entry; the ARP entry; the host.
LeaseWorlds ==
  {w \in [isc : LeaseFiles, kea : LeaseFiles, lib : LeaseFiles,
           arp : {"none", "incomplete", "mac"}, ping : BOOLEAN, host : Answers] :
     \E f \in {"isc", "kea", "lib"} : \A g \in {"isc", "kea", "lib"} \ {f} : w[g] \in Bare}

\* A server appends; an entry being written is not whole until the next step.
Appended(file) ==
  IF file = None THEN {}
  ELSE IF file # <<>> /\ ~file[Len(file)].whole
       THEN {[file EXCEPT ![Len(file)].whole = TRUE]}
       ELSE {Append(file, e) : e \in {x \in Entries : ~x.whole}}

Changed(w) ==
  CASE kind = "deny" ->
         {[w EXCEPT !.dump = d] : d \in {"empty", "other", "pass", "block"}}
           \cup {[w EXCEPT !.control = a] : a \in Answers}
           \cup {[w EXCEPT !.subject = a] : a \in Answers}
    [] kind = "gateway" ->
         {[w EXCEPT !.socks = s] : s \in Sockets}
           \cup {[w EXCEPT !.line = l] : l \in Lines}
           \cup {[w EXCEPT !.monitor = a] : a \in Answers}
           \cup {[w EXCEPT !.anchor = a] : a \in Answers}
    [] kind = "lease" ->
         {[w EXCEPT !.isc = f] : f \in Appended(w.isc)}
           \cup {[w EXCEPT !.kea = f] : f \in Appended(w.kea)}
           \cup {[w EXCEPT !.arp = a] : a \in {"none", "incomplete", "mac"}}
           \cup {[w EXCEPT !.host = a] : a \in Answers}
-----------------------------------------------------------------------------
(***************************************************************************)
(* The declared-deny probe.                                                *)
(***************************************************************************)
\* find_declared_deny: an empty dump is no policy surface, a dump without a
\* matching block rule no declaration.
FindDeclaredDeny(dump) ==
  CASE dump = "empty" -> "unknown_surface"
    [] dump = "block" -> "present"
    [] OTHER -> "absent"

\* Any answer to the control proves egress.
ControlProbe(a) ==
  IF Answered(a) THEN "reached" ELSE IF a = "unresolved" THEN "not_attempted" ELSE "not_reached"

\* Only a handshake with the subject counts: the box may send the refusal.
SubjectProbe(a) ==
  IF a = "connected" THEN "reached" ELSE IF a = "unresolved" THEN "not_attempted" ELSE "not_reached"

\* Mutant: the control is not asked for.
DenyVerdictUncontrolled(rule, control, subject) ==
  CASE rule = "unknown_surface" -> "unknown_custody"
    [] rule = "absent" -> "policy_absent"
    [] subject = "reached" -> "observed_reachable"
    [] subject = "not_reached" -> "observed_blocked"
    [] OTHER -> "target_unbound"

\* compute_verdict: custody, then the subject, then the control.
DenyVerdict(rule, control, subject) ==
  CASE rule = "unknown_surface" -> "unknown_custody"
    [] rule = "absent" -> "policy_absent"
    [] rule = "present" /\ subject \in {None, "not_attempted"} -> "target_unbound"
    [] rule = "present" /\ subject = "reached" -> "observed_reachable"
    [] rule = "present" /\ subject = "not_reached" /\ control = "reached" -> "observed_blocked"
    [] rule = "present" /\ subject = "not_reached" /\ control = "not_reached" -> "vantage_unbound"
    [] OTHER -> "inconclusive"

\* What evaluate_declared_deny says was disturbed.
DenyClass(control, subject) ==
  IF subject \notin {None, "not_attempted"} THEN "subject"
  ELSE IF control \notin {None, "not_attempted"} THEN "control" ELSE "passive"
-----------------------------------------------------------------------------
(***************************************************************************)
(* The gateway-path probe.                                                 *)
(***************************************************************************)
\* Which socket is meant: the named one, or the only one.  Two sockets and no
\* name are refused.
ChosenSocket(socks) ==
  CASE options.named /\ socks \cap {"own", "odd"} # {} -> CHOOSE p \in socks \cap {"own", "odd"} : TRUE
    [] ~options.named /\ socks = {"own", "other"} -> "refused"
    [] ~options.named /\ \E p \in socks : socks = {p} -> CHOOSE p \in socks : TRUE
    [] OTHER -> None

\* reconcile_report, reaches_monitor: identity from the name of the file against
\* the line read from it.
Reconcile(socket, line) ==
  IF socket = None THEN "absent"
  ELSE CASE line = "mute" -> "unreadable"
         [] line \in {"garbled", "other"} -> "unknown"
         [] OTHER -> line

\* path_probe: ping if there is one, else a connection that any answer fulfils.
\* A ping that runs and sends nothing is still a host not reached.
PathProbe(ping, a) ==
  IF ping THEN (IF Answered(a) THEN "reached" ELSE "not_reached") ELSE ControlProbe(a)

GatewayVerdict(report, probes) ==
  LET attempted == {o \in probes : o \in {"reached", "not_reached"}} IN
  CASE report = "absent" -> "socket_absent"
    [] report = "unreadable" -> "socket_unreadable"
    [] report = "unknown" -> "unknown_custody"
    [] report \in {"fine", "lost"} /\ attempted = {} -> "no_path_basis"
    [] report = "fine" /\ attempted = {"reached"} -> "corroborated"
    [] report = "lost" /\ attempted = {"not_reached"} -> "egress_trouble"
    [] OTHER -> "ambiguous"

GatewayClass(probes) ==
  IF probes \cap {"reached", "not_reached"} # {} THEN "active" ELSE "passive"

LanBasis(verdict) ==
  CASE verdict = "corroborated" -> "alive"
    [] verdict = "egress_trouble" -> "not_alive"
    [] OTHER -> "unknown"

\* combine_gateway_path_with_external: an unknown basis on either side combines
\* to nothing.
Combine(verdict, beacon) ==
  LET lan == LanBasis(verdict) IN
  CASE beacon \notin {"arrival", "absence"} \/ lan = "unknown" -> "cannot_classify"
    [] <<lan, beacon>> \in {<<"alive", "arrival">>, <<"not_alive", "absence">>} -> "corroborated"
    [] OTHER -> "divergent"
-----------------------------------------------------------------------------
(***************************************************************************)
(* The lease-presence probe.                                               *)
(***************************************************************************)
\* The remote script looks in two places and prints three files.
Backend(w) == IF w.isc # None THEN "isc" ELSE IF w.kea # None THEN "kea" ELSE "unknown"
Printed(w) ==
  LET text(f) == IF f = None THEN <<>> ELSE f IN
  [isc |-> text(w.isc), kea |-> text(w.kea) \o text(w.lib)]

\* parse_isc_leases, parse_kea_leases: the last whole entry is the lease.
CurrentLease(text) ==
  LET whole == SelectSeq(text, LAMBDA e : e.whole)
  IN  IF whole = <<>> THEN None ELSE whole[Len(whole)]

IscLeaseState(e, now) ==
  CASE e.state = "active" -> IF e.ends # None /\ e.ends <= now THEN "expired" ELSE "active"
    [] e.state = "free" -> "released"
    [] e.state = "expired" -> "expired"
    [] OTHER -> "unknown"

\* States 0, 1 (declined), 2 (reclaimed) of the memfile are the same classes.
KeaLeaseState(e, now) ==
  LET lapsed == e.ends # None /\ e.ends <= now IN
  CASE e.state = "active" /\ ~lapsed -> "active"
    [] e.state = "active" /\ lapsed -> "expired"
    [] e.state = "free" -> "released"
    [] e.state = "expired" -> "expired"
    [] OTHER -> "unknown"

ArpPresence(arp) == IF arp = "mac" THEN "reached" ELSE "not_reached"

\* An ICMP or a TCP probe from this host, whichever was asked for.
ProbePresence(w) ==
  CASE options.probe = "icmp" -> IF w.ping THEN PathProbe(TRUE, w.host) ELSE "not_attempted"
    [] options.probe = "tcp" -> ControlProbe(w.host)
    [] OTHER -> None

\* compute_verdict: only a lease that claims an occupant can be corroborated.
LeaseVerdict(lease, probes) ==
  CASE lease # "active" -> "expired_or_absent"
    [] lease = "active" /\ "reached" \in probes -> "corroborated"
    [] lease = "active" /\ "reached" \notin probes /\ "not_reached" \in probes -> "uncorroborated"
    [] OTHER -> "no_presence_basis"

LeaseClass(probe) == IF probe \in {"reached", "not_reached"} THEN "active" ELSE "passive"
-----------------------------------------------------------------------------
(***************************************************************************)
(* History.  seen: what was true at some moment of the run.  sent: the     *)
(* hosts a packet left for, whatever the probe made of it.                 *)
(***************************************************************************)
LeaseHeld(w, now) ==
  \E text \in {Printed(w).isc, Printed(w).kea} :
    /\ CurrentLease(text) # None
    /\ CurrentLease(text).state = "active"
    /\ \/ CurrentLease(text).ends = None
       \/ ~(CurrentLease(text).ends <= now)

Facts(w, now) ==
  CASE kind = "deny" ->
         {<<"dump", w.dump>>, <<"control", Answered(w.control)>>, <<"handshake", w.subject = "connected">>}
    [] kind = "gateway" ->
         {<<"socket", ChosenSocket(w.socks) # None>>, <<"monitor", Answered(w.monitor)>>,
          <<"anchor", Answered(w.anchor)>>, <<"line", w.line>>}
    [] kind = "lease" ->
         {<<"lease", LeaseHeld(w, now)>>, <<"arp", w.arp = "mac">>, <<"host", Answered(w.host)>>}
-----------------------------------------------------------------------------
Steps == {"policy", "control", "subject", "list", "status", "monitor", "anchor",
          "backend", "leases", "arp", "probe"}
First == [deny |-> "policy", gateway |-> "list", lease |-> "backend"]

Init ==
  /\ kind \in Kinds
  /\ options \in (CASE kind = "deny" -> [subject : BOOLEAN]
                    [] kind = "gateway" -> [named : BOOLEAN, beacon : BOOLEAN]
                    [] kind = "lease" -> [probe : {None, "icmp", "tcp"}])
  /\ world \in (CASE kind = "deny" -> DenyWorlds
                  [] kind = "gateway" -> GatewayWorlds
                  [] kind = "lease" -> LeaseWorlds)
  /\ changes = 0
  /\ pc = "start" /\ at = None
  /\ got = [s \in Steps |-> None]
  /\ receipt = None /\ combined = None
  /\ seen = {} /\ sent = {}

\* The world changes.
Change ==
  /\ changes < MaxChanges /\ receipt = None
  /\ \E w \in Changed(world) : w # world /\ world' = w
  /\ changes' = changes + 1
  /\ seen' = IF pc = "start" THEN seen ELSE seen \cup Facts(world', at)
  /\ UNCHANGED <<kind, options, pc, at, got, receipt, combined, sent>>

\* run_declared_deny, run_gateway_path, run_lease_presence: the wall clock first.
Start ==
  /\ pc = "start"
  /\ at' \in 0..MaxTime
  /\ pc' = First[kind]
  /\ seen' = Facts(world, at')
  /\ UNCHANGED <<kind, options, world, changes, got, receipt, combined, sent>>

\* A step that brings v and goes on to next; hosts are those it sends to.
Bring(step, v, next, hosts) ==
  /\ pc = step
  /\ got' = [got EXCEPT ![step] = v]
  /\ pc' = next
  /\ sent' = sent \cup hosts
  /\ UNCHANGED <<kind, options, world, changes, at, receipt, combined, seen>>

\* The hosts a connection attempt or a ping sends to.
Traffic(a, host) == IF a \in {"unresolved", "unroutable"} THEN {} ELSE {host}

\* A session that fails ends the probe without a receipt.
SshFails ==
  /\ pc \in {"policy", "status", "arp"}
  /\ pc' = "failed"
  /\ UNCHANGED <<kind, options, world, changes, at, got, receipt, combined, seen, sent>>

ReadPolicy == Bring("policy", FindDeclaredDeny(world.dump), "control", {})
Control ==
  Bring("control", ControlProbe(world.control),
        IF options.subject THEN "subject" ELSE "emit", Traffic(world.control, "control"))
Subject == Bring("subject", SubjectProbe(world.subject), "emit", Traffic(world.subject, "subject"))

\* ls, and then nc on each socket: one may be gone by then.
ListSockets ==
  Bring("list", ChosenSocket(world.socks), IF ChosenSocket(world.socks) = "refused" THEN "failed" ELSE "status", {})
ReadSocket ==
  Bring("status", Reconcile(got["list"], IF got["list"] \in world.socks THEN world.line ELSE "mute"),
        IF got["list"] \in {None, "odd"} THEN "anchor" ELSE "monitor", {})
ProbeMonitor ==
  Bring("monitor", PathProbe(world.ping, world.monitor), "anchor", Traffic(world.monitor, "monitor"))
ProbeAnchor ==
  Bring("anchor", PathProbe(world.ping, world.anchor), "emit", Traffic(world.anchor, "anchor"))

DetectBackend == Bring("backend", Backend(world), "leases", {})
ReadLeases == Bring("leases", Printed(world), "arp", {})
\* The session is over: an unknown backend or no lease is an error.
ReadArp ==
  Bring("arp", ArpPresence(world.arp),
        IF got["backend"] = "unknown" \/ CurrentLease(got["leases"][got["backend"]]) = None
        THEN "failed" ELSE IF options.probe = None THEN "emit" ELSE "probe", {})
ProbeHost ==
  Bring("probe", ProbePresence(world), "emit",
        IF options.probe = "icmp" /\ ~world.ping THEN {} ELSE Traffic(world.host, "host"))

LeaseReported ==
  LET e == CurrentLease(got["leases"][got["backend"]])
  IN  IF got["backend"] = "isc" THEN IscLeaseState(e, at) ELSE KeaLeaseState(e, at)

Judged ==
  CASE kind = "deny" ->
         [verdict |-> DenyVerdict(got["policy"], got["control"], got["subject"]),
          class |-> DenyClass(got["control"], got["subject"])]
    [] kind = "gateway" ->
         [verdict |-> GatewayVerdict(got["status"], {got["monitor"], got["anchor"]} \ {None}),
          class |-> GatewayClass({got["monitor"], got["anchor"]})]
    [] kind = "lease" ->
         [verdict |-> LeaseVerdict(LeaseReported, {got["arp"], got["probe"]} \ {None}),
          class |-> LeaseClass(got["probe"])]

\* The receipt is printed; keeping it in a directory changes nothing here.
Emit ==
  /\ pc = "emit"
  /\ receipt' = Judged
  /\ pc' = "combine"
  /\ UNCHANGED <<kind, options, world, changes, at, got, combined, seen, sent>>

\* The status file of the beacon is read at the very end, however old it is.
CombineReport ==
  /\ pc = "combine"
  /\ IF kind # "gateway" \/ ~options.beacon THEN pc' = "done" /\ UNCHANGED combined
     ELSE \E b \in Beacons :
            IF b = "missing" THEN pc' = "failed" /\ UNCHANGED combined
            ELSE pc' = "done" /\ combined' = Combine(receipt.verdict, b)
  /\ UNCHANGED <<kind, options, world, changes, at, got, receipt, seen, sent>>

Next ==
  \/ Change \/ Start \/ SshFails
  \/ ReadPolicy \/ Control \/ Subject
  \/ ListSockets \/ ReadSocket \/ ProbeMonitor \/ ProbeAnchor
  \/ DetectBackend \/ ReadLeases \/ ReadArp \/ ProbeHost
  \/ Emit \/ CombineReport

Spec == Init /\ [][Next]_vars
-----------------------------------------------------------------------------
(***************************************************************************)
(* Properties.                                                             *)
(***************************************************************************)
Was(name, v) == <<name, v>> \in seen
SentWere(v) == \A h \in sent : Was(h, v)

DenyWitnessed ==
  /\ receipt.verdict = "observed_blocked" =>
       Was("dump", "block") /\ Was("control", TRUE) /\ Was("handshake", FALSE)
  /\ receipt.verdict = "observed_reachable" => Was("dump", "block") /\ Was("handshake", TRUE)
  /\ receipt.verdict = "policy_absent" => Was("dump", "other") \/ Was("dump", "pass")
  /\ "subject" \in sent => receipt.class = "subject"
  /\ receipt.class = "passive" => sent = {}
  /\ receipt.class = "subject" => options.subject

GatewayWitnessed ==
  /\ receipt.verdict = "corroborated" => Was("line", "fine") /\ sent # {} /\ SentWere(TRUE)
  /\ receipt.verdict = "egress_trouble" =>
       Was("line", "lost") /\ SentWere(FALSE) /\ (Was("monitor", FALSE) \/ Was("anchor", FALSE))
  /\ receipt.verdict = "socket_absent" => Was("socket", FALSE)
  /\ receipt.class = "passive" => sent = {}
  /\ combined \in {"corroborated", "divergent"} => receipt.verdict \in {"corroborated", "egress_trouble"}

LeaseWitnessed ==
  /\ receipt.verdict \in {"corroborated", "uncorroborated"} => Was("lease", TRUE)
  /\ receipt.verdict = "corroborated" => Was("arp", TRUE) \/ ("host" \in sent /\ Was("host", TRUE))
  /\ receipt.verdict = "uncorroborated" => Was("arp", FALSE) /\ (sent = {} \/ Was("host", FALSE))
  /\ receipt.class = "passive" => sent = {}
  /\ receipt.class = "active" => options.probe # None

\* Whatever changes while a probe is under way, its verdict rests on what was so
\* at some moment of it, not always the same one: "blocked" on a loaded rule, a
\* working path and a failed handshake, "reachable" on a handshake and not on a
\* refusal, "corroborated" on answers of every host a packet was sent to, and of
\* one at least, or on a lease that had not ended, a refusal to testify on the
\* missing thing; no outside position decides what the inside leaves open.  The
\* class of disturbance owns up to all traffic: "passive" only if no packet was
\* sent, and to the subject none unless the class names it.  It may own up to
\* traffic that never left, to a name without address or a host without route
\* (compute_verdict and evaluate_* of the three probes, live_*).
VerdictIsWitnessed ==
  receipt # None =>
    CASE kind = "deny" -> DenyWitnessed
      [] kind = "gateway" -> GatewayWitnessed
      [] kind = "lease" -> LeaseWitnessed
=============================================================================
