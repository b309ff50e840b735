----------------------------- MODULE Sentinel -----------------------------
(***************************************************************************)
(* The out-of-band watcher (nq-monitor sentinel) and the liveness artifact *)
(* that the serve loop replaces after each committed generation.           *)
(*                                                                         *)
(* Generation ids only matter by comparison with the last one the sentinel *)
(* read; the store never issues one twice (GenerationStore), so every      *)
(* artifact that is written carries a new one.  A tick is a second.        *)
(*                                                                         *)
(* The artifact is written to a temporary file and renamed, so no reader   *)
(* sees half of it; what can happen to the file on its way to the sentinel *)
(* (a mount that goes, a mirror caught in the middle) is Disturb.          *)
(***************************************************************************)
EXTENDS Naturals

CONSTANTS
  MaxAge,      \* max_age_seconds
  PollEvery,   \* poll_interval_seconds
  Grace,       \* grace_period_seconds
  StuckAfter   \* stuck_after_polls

ASSUME SentinelAssumption ==
  /\ MaxAge \in Nat
  /\ PollEvery \in Nat \ {0}
  /\ Grace \in Nat
  /\ StuckAfter \in Nat \ {0}

VARIABLES
  reach,    \* what a read of artifact_path finds
  age,      \* seconds since generated_at by the sentinel's clock, up to MaxAge + 1
  new,      \* its generation_id is not last_generation_id
  state,    \* last_state
  run,      \* same_gen_run, up to StuckAfter
  elapsed,  \* seconds since started_at, up to Grace
  wait,     \* seconds left to sleep
  channel,  \* the alert channel accepts messages
  told,     \* history: the last message that was delivered
  stalled   \* history: Stale or Stuck was observed, and since then no new id was
            \* read, the clock was not set and the process not restarted

sentinelVars == <<reach, age, new, state, run, elapsed, wait, channel, told, stalled>>

Found == {"ok", "absent", "unreadable", "malformed"}
Ages == 0 .. MaxAge + 1
Unhealthy == {"Stale", "Stuck", "Missing", "Malformed"}
States == Unhealthy \cup {"Healthy", "Starting"}

SentinelTypeOK ==
  /\ reach \in Found
  /\ age \in Ages
  /\ new \in BOOLEAN
  /\ state \in States
  /\ run \in 0 .. StuckAfter
  /\ elapsed \in 0 .. Grace
  /\ wait \in 0 .. PollEvery
  /\ channel \in BOOLEAN
  /\ told \in {"nothing", "red", "green"}
  /\ stalled \in BOOLEAN

\* An artifact may be there from an earlier run of the publisher.
SentinelInit ==
  /\ reach \in Found
  /\ age \in Ages
  /\ new = TRUE
  /\ state = "Starting"
  /\ run = 0
  /\ elapsed = 0
  /\ wait = 0
  /\ channel = TRUE
  /\ told = "nothing"
  /\ stalled = FALSE
-----------------------------------------------------------------------------
(***************************************************************************)
(* The publisher, the file, the clock and the channel.                     *)
(***************************************************************************)

\* write_liveness after a committed generation.
Write ==
  /\ reach' = "ok"
  /\ age' = 0
  /\ new' = TRUE
  /\ UNCHANGED <<state, run, elapsed, wait, channel, told, stalled>>

\* The file is lost, damaged or unreachable, or is there again.
Disturb(found) ==
  /\ reach' = found
  /\ UNCHANGED <<age, new, state, run, elapsed, wait, channel, told, stalled>>

\* The wall clock is set; the grace period and the sleep run on another one.
ClockStep(a) ==
  /\ age' = a
  /\ stalled' = FALSE
  /\ UNCHANGED <<reach, new, state, run, elapsed, wait, channel, told>>

ChannelFlips ==
  /\ channel' = ~channel
  /\ UNCHANGED <<reach, age, new, state, run, elapsed, wait, told, stalled>>

Tick ==
  /\ age' = IF age > MaxAge THEN age ELSE age + 1
  /\ elapsed' = IF elapsed < Grace THEN elapsed + 1 ELSE elapsed
  /\ wait' = IF wait = 0 THEN 0 ELSE wait - 1
  /\ UNCHANGED <<reach, new, state, run, channel, told, stalled>>
-----------------------------------------------------------------------------
(***************************************************************************)
(* The sentinel.                                                           *)
(***************************************************************************)

\* Mutant: a missing artifact is a start-up condition for ever.
InGraceAlways == reach = "absent"

\* Only NotFound is excused, and only at first.
InGrace == elapsed < Grace /\ reach = "absent"

\* Mutant: same_gen_run is never incremented.
RunAfterNever == 0

\* Mutant: a poll that reads nothing forgets how often the id was the same.
RunAfterGap ==
  IF reach # "ok" \/ new THEN 0 ELSE IF run < StuckAfter THEN run + 1 ELSE run

\* Polls in a row that read the same id; unsuccessful reads do not count.
RunAfter ==
  CASE reach # "ok" -> run
    [] reach = "ok" /\ new -> 0
    [] OTHER -> IF run < StuckAfter THEN run + 1 ELSE run

Classify ==
  CASE reach \in {"absent", "unreadable"} -> "Missing"
    [] reach = "malformed" -> "Malformed"
    [] reach = "ok" /\ age > MaxAge -> "Stale"
    [] reach = "ok" /\ age <= MaxAge /\ RunAfter >= StuckAfter -> "Stuck"
    [] OTHER -> "Healthy"

Observed == IF InGrace THEN "Starting" ELSE Classify

\* What a change of state sends; nothing is sent while it stays the same.
Alert(prev, next) ==
  CASE next = prev \/ next = "Starting" -> "nothing"
    [] next = "Healthy" -> IF prev = "Starting" THEN "nothing" ELSE "green"
    [] OTHER -> "red"

\* A poll: read, classify, alert, remember.  last_state is set whether or not
\* the channel took the message.
Poll ==
  /\ wait = 0
  /\ run' = RunAfter
  /\ new' = IF reach = "ok" THEN FALSE ELSE new
  /\ state' = Observed
  /\ told' = IF channel /\ Alert(state, Observed) # "nothing"
             THEN Alert(state, Observed)
             ELSE told
  /\ stalled' = \/ Observed \in {"Stale", "Stuck"}
                \/ stalled /\ ~(reach = "ok" /\ new)
  /\ wait' = PollEvery
  /\ UNCHANGED <<reach, age, elapsed, channel>>

\* systemd restarts it; all it knew was in memory.
Restart ==
  /\ state' = "Starting"
  /\ new' = TRUE
  /\ run' = 0
  /\ elapsed' = 0
  /\ wait' = 0
  /\ stalled' = FALSE
  /\ UNCHANGED <<reach, age, channel, told>>

SentinelNext ==
  \/ Write
  \/ \E found \in Found : Disturb(found)
  \/ \E a \in Ages : ClockStep(a)
  \/ ChannelFlips
  \/ Tick
  \/ Poll
  \/ Restart

SentinelSpec == SentinelInit /\ [][SentinelNext]_sentinelVars
-----------------------------------------------------------------------------
(***************************************************************************)
(* Properties that hold.                                                   *)
(***************************************************************************)

\* Silence is noticed: once the publisher writes no more and the sentinel is
\* left running, it ends in an unhealthy state for good, whatever happens to the
\* file and even if the clock is set back over and over (classify: the stuck rule
\* covers what the age rule then misses).
SilenceIsNoticed ==
  <>[][~Write /\ ~Restart]_sentinelVars => <>[](state \in Unhealthy)

\* Silence is heard: then the operator's last message says so, if the channel
\* always accepts messages (run: alert on state transition).
SilenceIsHeard ==
  (<>[][~Write /\ ~Restart]_sentinelVars /\ []channel) => <>[](told = "red")

\* No false recovery: after Stale or Stuck the sentinel does not take itself for
\* healthy before it has read a new generation id, also when reads fail or the
\* grace period runs in between (run: same_gen_run and last_generation_id outlive
\* failed reads).  A clock that is set back makes an old artifact young and ends
\* what this promises.
NoFalseRecovery == stalled => state # "Healthy"
=============================================================================
