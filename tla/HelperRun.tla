----------------------------- MODULE HelperRun -----------------------------
(***************************************************************************)
(* How a collector of the storage pack runs a program                      *)
(* (crates/nq-check-pack-storage/src/zfs.rs, smart.rs, gpu.rs): spawn it   *)
(* with pipes, poll for its exit, kill it when the time is up, and read    *)
(* the pipes once it has ended.  Nobody reads while it runs, so what it    *)
(* has to say must fit the pipe; and a read ends when the last holder of   *)
(* the write end is gone, which need not be the program itself.            *)
(*                                                                         *)
(* try_wait, the look at the time and the kill are calls of their own, and *)
(* the helper may end between any two of them.  Sizes are in units of the  *)
(* smallest write.                                                         *)
(***************************************************************************)
EXTENDS Naturals

CONSTANTS
  Capacity,     \* of a pipe
  Sizes,        \* how long a report may be
  PollLimit,    \* timeout_ms, in polls
  KillGrace,    \* KILL_GRACE, in polls
  MaxTime       \* bound: the clock

HelperAssumption ==
  /\ Capacity \in Nat /\ Sizes \subseteq Nat
  /\ PollLimit \in Nat /\ KillGrace \in Nat /\ MaxTime \in Nat

VARIABLES
  size,      \* length of the report the helper is about to write
  document,  \* what it is: "report", "garbage", "schema" or "profile"
  written,   \* how much of it is in the pipe or beyond
  pipe,      \* what is in the pipe
  child,     \* "none", "running", "killed", "ok" or "failed"
  heir,      \* a process it started still holds the write end
  parent,    \* "spawning", "polling", "timing", "killing", "grace", "reading" or "done"
  got,       \* what was read
  clock,
  killedAt,
  polledAt,  \* history: when try_wait last found it running
  endedAt,   \* history: when it ended
  result     \* outcome of the collection, "none" before

vars == <<size, document, written, pipe, child, heir, parent, got, clock, killedAt, polledAt,
          endedAt, result>>
times == <<clock, killedAt, polledAt, endedAt>>
helperVars == <<size, document, written, pipe, child, heir>>

Exited == child \in {"ok", "failed"}
-----------------------------------------------------------------------------
(***************************************************************************)
(* The helper (external).                                                  *)
(***************************************************************************)
Write ==
  /\ child = "running" /\ written < size /\ pipe < Capacity
  /\ written' = written + 1 /\ pipe' = pipe + 1
  /\ UNCHANGED <<size, document, child, heir, parent, got, times, result>>

Exit ==
  /\ \/ child = "running" /\ child' \in (IF written = size THEN {"ok", "failed"} ELSE {"failed"})
     \/ child = "killed" /\ child' = "failed"
  /\ endedAt' = clock
  /\ UNCHANGED <<size, document, written, pipe, heir, parent, got, clock, killedAt, polledAt, result>>

HeirEnds ==
  /\ heir /\ Exited
  /\ heir' = FALSE
  /\ UNCHANGED <<size, document, written, pipe, child, parent, got, times, result>>

\* Time passes while the collector sleeps, is blocked in a read, or is not
\* scheduled.
Tick ==
  /\ parent \notin {"spawning", "done"} /\ clock < MaxTime
  /\ clock' = clock + 1
  /\ UNCHANGED <<helperVars, parent, got, killedAt, polledAt, endedAt, result>>
-----------------------------------------------------------------------------
(***************************************************************************)
(* run_witness, run_query.                                                 *)
(***************************************************************************)
\* A program that cannot be started ends the collection.
Spawn ==
  /\ parent = "spawning"
  /\ \/ parent' = "polling" /\ child' = "running" /\ UNCHANGED result
     \/ parent' = "done" /\ result' = "spawn" /\ UNCHANGED child
  /\ UNCHANGED <<size, document, written, pipe, heir, got, times>>

\* try_wait.  When it fails, the collection ends as a failed spawn and the
\* helper is left alone.
Poll ==
  /\ parent = "polling"
  /\ \/ Exited /\ parent' = "reading" /\ UNCHANGED <<polledAt, result>>
     \/ ~Exited /\ parent' = "timing" /\ polledAt' = clock /\ UNCHANGED result
     \/ parent' = "done" /\ result' = "spawn" /\ UNCHANGED polledAt
  /\ UNCHANGED <<helperVars, got, clock, killedAt, endedAt>>

\* started.elapsed() >= timeout, after a try_wait that found it running; else
\* the collector sleeps and polls again.
Elapsed ==
  /\ parent = "timing"
  /\ parent' = IF clock >= PollLimit THEN "killing" ELSE "polling"
  /\ UNCHANGED <<helperVars, got, times, result>>

\* kill, which does nothing to a helper that has ended since.
Kill ==
  /\ parent = "killing"
  /\ parent' = "grace"
  /\ child' = IF Exited THEN child ELSE "killed"
  /\ killedAt' = clock
  /\ UNCHANGED <<size, document, written, pipe, heir, got, clock, polledAt, endedAt, result>>

\* The grace after a kill: until it has exited, or the time is up again.
Grace ==
  /\ parent = "grace"
  /\ Exited \/ clock >= killedAt + KillGrace
  /\ parent' = "done" /\ result' = "timeout"
  /\ UNCHANGED <<helperVars, got, times>>

\* read_to_string takes what is there, and blocks while a writer is left.
Read ==
  /\ parent = "reading" /\ pipe > 0
  /\ pipe' = pipe - 1 /\ got' = got + 1
  /\ UNCHANGED <<size, document, written, child, heir, parent, times, result>>

\* Mutant: what was printed is judged before how the program ended.
OutcomeParsed ==
  IF got < size \/ document = "garbage" THEN "parse_json"
  ELSE IF document # "report" THEN document
  ELSE "report"

\* Exit status first, then the document, its schema and its profile.
Outcome ==
  IF child = "failed" THEN "exit"
  ELSE IF got < size \/ document = "garbage" THEN "parse_json"
  ELSE IF document # "report" THEN document
  ELSE "report"

Finish ==
  /\ parent = "reading" /\ pipe = 0 /\ ~heir /\ Exited
  /\ parent' = "done"
  /\ result' = Outcome
  /\ UNCHANGED <<helperVars, got, times>>

Init ==
  /\ size \in Sizes /\ document \in {"report", "garbage", "schema", "profile"}
  /\ written = 0 /\ pipe = 0 /\ child = "none" /\ heir \in BOOLEAN
  /\ parent = "spawning" /\ got = 0 /\ clock = 0 /\ killedAt = 0
  /\ polledAt = 0 /\ endedAt = 0 /\ result = "none"

Next ==
  \/ Write \/ Exit \/ HeirEnds \/ Tick
  \/ Spawn \/ Poll \/ Elapsed \/ Kill \/ Grace \/ Read \/ Finish

Spec == Init /\ [][Next]_vars
-----------------------------------------------------------------------------
(***************************************************************************)
(* Properties.                                                             *)
(***************************************************************************)

\* A report that reaches the store is whole and comes from a helper that ended
\* well in its time; one that does not fit the pipe is never read in part: the
\* helper blocks, and what is told is a timeout (or that it failed by itself).
ReportIsWhole ==
  /\ result = "report" => got = size /\ child = "ok" /\ size <= Capacity /\ killedAt = 0
  /\ (result # "none" /\ size > Capacity) => result \in {"timeout", "exit", "spawn"}

\* A timeout is told only when the time was up, of a helper that ended, if it
\* did, no sooner than the last look at it: it may have ended well, even before
\* the time was up, if that was between the look and the kill.  That it failed is
\* told only of one that was not killed.
TimeoutIsJust ==
  /\ result = "timeout" => killedAt >= PollLimit /\ (Exited => endedAt >= polledAt)
  /\ result = "exit" => child = "failed" /\ killedAt = 0
=============================================================================
