---------------------------- MODULE AgentProofs ----------------------------
(***************************************************************************)
(* Theorems about the machines of MCAgent: the helper programs of the      *)
(* storage pack (HelperRun), the collectors that look at changing files    *)
(* (SubstrateProbes), the pull cycle (Collection) and the suite planner    *)
(* (Assembly), for every value of their constants.                         *)
(***************************************************************************)
EXTENDS MCAgent, FiniteSetTheorems, TLAPS

(***************************************************************************)
(* Helper programs.                                                        *)
(***************************************************************************)
Children == {"none", "running", "killed", "ok", "failed"}
Stages == {"spawning", "polling", "timing", "killing", "grace", "reading", "done"}
Verdicts == {"none", "spawn", "timeout", "exit", "parse_json", "schema", "profile", "report"}

HelperType ==
  /\ size \in Nat /\ written \in Nat /\ pipe \in Nat /\ got \in Nat
  /\ clock \in Nat /\ killedAt \in Nat /\ polledAt \in Nat /\ endedAt \in Nat /\ heir \in BOOLEAN
  /\ document \in {"report", "garbage", "schema", "profile"}
  /\ child \in Children /\ parent \in Stages /\ result \in Verdicts

\* Nobody reads while the helper writes: all it ever wrote went through one
\* filling of the pipe.
FitsThePipe ==
  /\ written = pipe + got /\ written <= size /\ written <= Capacity
  /\ got # 0 => Helper!Exited
  /\ child = "ok" => written = size

\* What the collector knows of the helper in each of its stages: once a look has
\* found it running, it has not ended before that look.
StageTells ==
  /\ polledAt <= clock
  /\ parent = "spawning" => child = "none"
  /\ parent \in {"polling", "timing", "killing"} => child \in {"running", "ok", "failed"}
  /\ parent \in {"spawning", "polling", "timing", "killing"} => killedAt = 0
  /\ parent \in {"timing", "killing", "grace"} /\ Helper!Exited => endedAt >= polledAt
  /\ parent = "killing" => clock >= PollLimit
  /\ parent = "grace" => child # "none" /\ killedAt >= PollLimit
  /\ parent = "reading" => Helper!Exited /\ killedAt = 0
  /\ result # "none" <=> parent = "done"

HelperInv == HelperType /\ FitsThePipe /\ StageTells /\ Helper!ReportIsWhole /\ Helper!TimeoutIsJust
AgentHelperInv == part = "helper" => HelperInv

LEMMA HelperStart ==
  ASSUME Helper!Init
  PROVE  HelperInv
BY HelperAssumption
   DEF Helper!Init, Helper!HelperAssumption, HelperInv, HelperType, FitsThePipe, StageTells, Children,
       Stages, Verdicts, Helper!ReportIsWhole, Helper!TimeoutIsJust, Helper!Exited

\* The helper writes, ends, what it started ends, and time passes.
LEMMA HelperWorks ==
  ASSUME HelperInv, Helper!Write \/ Helper!Exit \/ Helper!HeirEnds \/ Helper!Tick
  PROVE  HelperInv'
<1>1. CASE Helper!Write
  BY <1>1, HelperAssumption
     DEF Helper!Write, Helper!times, Helper!HelperAssumption, HelperInv, HelperType, FitsThePipe, StageTells,
         Helper!ReportIsWhole, Helper!TimeoutIsJust, Helper!Exited
<1>2. CASE Helper!Exit
  BY <1>2
     DEF Helper!Exit, Helper!times, HelperInv, HelperType, FitsThePipe, StageTells, Children,
         Helper!ReportIsWhole, Helper!TimeoutIsJust, Helper!Exited
<1>3. CASE Helper!HeirEnds
  BY <1>3
     DEF Helper!HeirEnds, Helper!times, HelperInv, HelperType, FitsThePipe, StageTells,
         Helper!ReportIsWhole, Helper!TimeoutIsJust, Helper!Exited
<1>4. CASE Helper!Tick
  BY <1>4, HelperAssumption
     DEF Helper!Tick, Helper!HelperAssumption, Helper!helperVars, HelperInv, HelperType, FitsThePipe,
         StageTells, Helper!ReportIsWhole, Helper!TimeoutIsJust, Helper!Exited
<1> QED BY <1>1, <1>2, <1>3, <1>4

\* The collector waits for it.
LEMMA HelperAwaited ==
  ASSUME HelperInv, Helper!Spawn \/ Helper!Poll \/ Helper!Elapsed \/ Helper!Kill \/ Helper!Grace
  PROVE  HelperInv'
<1> USE HelperAssumption
    DEF Helper!HelperAssumption, HelperInv, HelperType, FitsThePipe, StageTells, Children, Stages,
        Verdicts, Helper!ReportIsWhole, Helper!TimeoutIsJust, Helper!Exited, Helper!times,
        Helper!helperVars
<1>1. CASE Helper!Spawn
  BY <1>1 DEF Helper!Spawn
<1>2. CASE Helper!Poll
  BY <1>2 DEF Helper!Poll
<1>3. CASE Helper!Elapsed
  BY <1>3 DEF Helper!Elapsed
<1>4. CASE Helper!Kill
  BY <1>4 DEF Helper!Kill
<1>5. CASE Helper!Grace
  BY <1>5 DEF Helper!Grace
<1> QED BY <1>1, <1>2, <1>3, <1>4, <1>5

\* The collector reads what is there and judges it.
LEMMA HelperRead ==
  ASSUME HelperInv, Helper!Read \/ Helper!Finish
  PROVE  HelperInv'
<1> USE HelperAssumption DEF Helper!HelperAssumption
<1>1. CASE Helper!Read
  BY <1>1
     DEF Helper!Read, Helper!times, HelperInv, HelperType, FitsThePipe, StageTells,
         Helper!ReportIsWhole, Helper!TimeoutIsJust, Helper!Exited
<1>2. CASE Helper!Finish
  BY <1>2
     DEF Helper!Finish, Helper!times, Helper!Outcome, Helper!helperVars, HelperInv, HelperType, FitsThePipe, StageTells,
         Stages, Verdicts, Helper!ReportIsWhole, Helper!TimeoutIsJust, Helper!Exited
<1> QED BY <1>1, <1>2

\* A report is taken only whole, from a helper that ended well in its time; a
\* timeout is told only when the time was up, of one that did not end before it
\* was last looked at, and a failure only of one that was not killed: for every
\* size of report and pipe, every limit, whoever holds the pipe, and wherever the
\* helper ends between two calls (run_witness, run_query).
THEOREM HelperOutcomesAreJust == AgentSpec => []HelperOutcomeIsJust
<1>1. AgentInit => AgentHelperInv
  BY HelperStart DEF AgentInit, AgentHelperInv
<1>2. AgentHelperInv /\ [AgentNext]_agentVars => AgentHelperInv'
  <2> SUFFICES ASSUME AgentHelperInv, [AgentNext]_agentVars, part' = "helper"
               PROVE  HelperInv'
    BY DEF AgentHelperInv
  <2>1. part = "helper" /\ HelperInv
    BY DEF AgentNext, agentVars, AgentHelperInv
  <2>2. CASE UNCHANGED agentVars
    BY <2>1, <2>2
       DEF agentVars, helperVars, HelperInv, HelperType, FitsThePipe, StageTells,
           Helper!ReportIsWhole, Helper!TimeoutIsJust, Helper!Exited
  <2>3. CASE AgentNext
    <3>1. Helper!Next
      BY <2>1, <2>3 DEF AgentNext
    <3> QED BY <2>1, <3>1, HelperWorks, HelperAwaited, HelperRead DEF Helper!Next
  <2> QED BY <2>2, <2>3
<1>3. AgentHelperInv => HelperOutcomeIsJust
  BY DEF AgentHelperInv, HelperInv, HelperOutcomeIsJust
<1> QED BY <1>1, <1>2, <1>3, PTL DEF AgentSpec
-----------------------------------------------------------------------------
(***************************************************************************)
(* Collectors that look at files others are changing.                      *)
(***************************************************************************)
SubstrateType ==
  /\ link \in Files \cup {Nobody} /\ shm \in [Files -> Nat] /\ holds \in [Files -> Nat]
  /\ free \subseteq Files /\ gone \in BOOLEAN /\ swapped \subseteq Files

Fields == {"at", "file", "db", "wal", "ino"}

\* What the probe under way holds: the database at one path and its sidecar there,
\* the same unless it was replaced, and an inode that is still the one of its -shm
\* or was let go since.
ProbeHolds ==
  /\ wprobe.at \in {"idle", "stat", "wal", "shm", "locks"}
  /\ wprobe.at = "idle" => wprobe = Substrate!Idle
  /\ wprobe.at # "idle" =>
       /\ DOMAIN wprobe = Fields
       /\ wprobe.file \in Files
       /\ {f \in Files : ~Substrate!Held(f)} \subseteq free
  /\ wprobe.at \in {"wal", "shm", "locks"} =>
       /\ wprobe.db.path = wprobe.file
       /\ wprobe.db.db = holds[wprobe.file] \/ wprobe.file \in swapped
  /\ wprobe.at \in {"shm", "locks"} =>
       /\ wprobe.wal.path = wprobe.file
       /\ wprobe.wal.db = wprobe.db.db \/ wprobe.file \in swapped
  /\ wprobe.at = "locks" => wprobe.ino # 0 /\ (shm[wprobe.file] = wprobe.ino \/ wprobe.file \in free)

\* Executables are numbered as they are installed.
BinaryHolds ==
  /\ versions \in 1 .. MaxBinary
  /\ installed # Nobody => installed \in 1 .. versions
  /\ bstat # Nobody => bstat \in 1 .. versions
  /\ bstat # Nobody /\ installed # Nobody => bstat <= installed
  /\ Substrate!DigestNotOlder

SubstrateInv == SubstrateType /\ ProbeHolds /\ BinaryHolds
AgentSubstrateInv == part \in {"wal", "binary"} => SubstrateInv

LEMMA SubstrateStart ==
  ASSUME Substrate!Init
  PROVE  SubstrateInv
<1>1. SubstrateType
  <2>1. holds \in [Files -> Nat]
    <3>1. holds \in [Files -> 0 .. MaxDatabase] /\ 0 .. MaxDatabase \subseteq Nat
      BY SubstrateAssumption DEF Substrate!SubstrateAssumption, Substrate!Init
    <3> QED BY <3>1
  <2> QED BY <2>1 DEF Substrate!Init, SubstrateType
<1>2. ProbeHolds
  <2>1. wprobe = Substrate!Idle /\ wprobe.at = "idle"
    BY DEF Substrate!Init, Substrate!Idle
  <2> QED BY <2>1 DEF ProbeHolds
<1>3. BinaryHolds
  BY SubstrateAssumption
     DEF Substrate!SubstrateAssumption, Substrate!Init, BinaryHolds, Substrate!DigestNotOlder
<1> QED BY <1>1, <1>2, <1>3 DEF SubstrateInv

\* Whatever the owner does: an inode of -shm that is gone was let go, and a
\* database that is another was replaced.
LEMMA OwnerSteps ==
  ASSUME SubstrateInv, Substrate!Owner
  PROVE  SubstrateInv' /\ UNCHANGED <<wprobe, probes>>
<1>1. /\ link' \in Files \cup {Nobody} /\ shm' \in [Files -> Nat] /\ holds' \in [Files -> Nat]
      /\ \A f \in Files : shm'[f] # shm[f] => shm[f] = 0 \/ shm'[f] = 0
  BY SubstrateAssumption
     DEF Substrate!SubstrateAssumption, Substrate!Owner, SubstrateInv, SubstrateType
<1>2. /\ free' = free \cup {f \in Files : ~(shm'[f] # 0 /\ shm'[f] \in locked')}
      /\ swapped' = swapped \cup {f \in Files : holds'[f] # holds[f]}
      /\ gone' \in BOOLEAN
      /\ UNCHANGED <<wprobe, probes>> /\ UNCHANGED <<versions, installed, bstat, brow>>
  BY DEF Substrate!Owner, Substrate!Remember, Substrate!binVars
<1>3. SubstrateType'
  BY <1>1, <1>2 DEF SubstrateInv, SubstrateType
<1>4. ProbeHolds'
  <2>1. {f \in Files : ~Substrate!Held(f)}' \subseteq free'
    BY <1>2 DEF Substrate!Held
  <2>2. ASSUME wprobe.at = "locks" PROVE shm'[wprobe.file] = wprobe.ino \/ wprobe.file \in free'
    <3>1. /\ wprobe.file \in Files /\ wprobe.ino # 0
          /\ shm[wprobe.file] = wprobe.ino \/ wprobe.file \in free
      BY <2>2 DEF SubstrateInv, ProbeHolds
    <3> QED BY <1>1, <1>2, <3>1
  <2>3. ASSUME wprobe.at \in {"wal", "shm", "locks"}
        PROVE  wprobe.db.db = holds'[wprobe.file] \/ wprobe.file \in swapped'
    <3>1. wprobe.file \in Files /\ (wprobe.db.db = holds[wprobe.file] \/ wprobe.file \in swapped)
      BY <2>3 DEF SubstrateInv, ProbeHolds
    <3> QED BY <1>2, <3>1
  <2> QED BY <1>2, <2>1, <2>2, <2>3 DEF SubstrateInv, ProbeHolds, Substrate!Idle
<1>5. BinaryHolds'
  BY <1>2 DEF SubstrateInv, BinaryHolds, Substrate!DigestNotOlder
<1> QED BY <1>2, <1>3, <1>4, <1>5 DEF SubstrateInv

\* A row that is written is of the path the probe resolved, and what it says was
\* so at some moment of the probe.
RowIsTrue ==
  /\ Substrate!WalRowIsOneFile
  /\ Substrate!UnpinnedWasTrue
  /\ Substrate!MissingWasMissing

LEMMA ProbeBegins ==
  ASSUME SubstrateInv, Substrate!Begin
  PROVE  SubstrateInv' /\ RowIsTrue
<1>1. /\ UNCHANGED <<link, holds, shm, locked, versions, installed, bstat, brow>>
      /\ free' = {f \in Files : ~Substrate!Held(f)} /\ gone' = ~Substrate!Resolves /\ swapped' = {}
      /\ wprobe.at = "idle"
  BY DEF Substrate!Begin, Substrate!filesVars, Substrate!binVars, Substrate!Idle
<1>2. SubstrateType' /\ BinaryHolds'
  BY <1>1 DEF SubstrateInv, SubstrateType, BinaryHolds, Substrate!DigestNotOlder, Substrate!Resolves
<1>3. {f \in Files : ~Substrate!Held(f)}' = free'
  BY <1>1 DEF Substrate!Held
<1>4. CASE Substrate!Resolves /\ wprobe' = [Substrate!Idle EXCEPT !.at = "stat", !.file = link]
           /\ UNCHANGED wrow
  <2>1. wprobe'.at = "stat" /\ wprobe'.file = link /\ DOMAIN wprobe' = Fields
    BY <1>4 DEF Substrate!Idle, Fields
  <2>2. link \in Files
    BY <1>4 DEF Substrate!Resolves, SubstrateInv, SubstrateType
  <2>3. ProbeHolds'
    BY <1>3, <2>1, <2>2 DEF ProbeHolds
  <2>4. ~Substrate!RowTold
    BY <2>1 DEF Substrate!RowTold
  <2>5. RowIsTrue
    BY <2>4
    DEF RowIsTrue, Substrate!WalRowIsOneFile, Substrate!UnpinnedWasTrue, Substrate!MissingWasMissing
  <2> QED BY <1>2, <2>3, <2>5 DEF SubstrateInv
<1>5. ASSUME NEW r \in {"target_missing", "permission_denied", "stat_error"},
             r = "target_missing" => ~Substrate!Resolves,
             Substrate!Done(Substrate!ErrorRow(r))
      PROVE  SubstrateInv' /\ RowIsTrue
  <2>1. wprobe' = Substrate!Idle /\ wprobe'.at = "idle" /\ wrow'.status = r
    BY <1>5 DEF Substrate!Done, Substrate!ErrorRow, Substrate!Row, Substrate!Idle
  <2>2. ProbeHolds'
    BY <2>1 DEF ProbeHolds, Substrate!Idle
  <2>3. RowIsTrue
    BY <1>1, <1>5, <2>1
    DEF RowIsTrue, Substrate!WalRowIsOneFile, Substrate!UnpinnedWasTrue, Substrate!MissingWasMissing
  <2> QED BY <1>2, <2>2, <2>3 DEF SubstrateInv
<1> QED BY <1>4, <1>5 DEF Substrate!Begin, Substrate!Refusals

\* What a call of the probe leaves as it is.
Left == UNCHANGED <<Substrate!filesVars, Substrate!binVars, probes, Substrate!memory>>

\* A call of the probe leaves the files and what the histories say of them.
LEMMA ProbeLeaves ==
  ASSUME SubstrateInv, Left
  PROVE  /\ SubstrateType' /\ BinaryHolds'
         /\ {f \in Files : ~Substrate!Held(f)}' = {f \in Files : ~Substrate!Held(f)}
         /\ shm' = shm /\ holds' = holds /\ free' = free /\ swapped' = swapped
BY DEF Left, SubstrateInv, SubstrateType, BinaryHolds, Substrate!DigestNotOlder, Substrate!Held,
       Substrate!filesVars, Substrate!binVars, Substrate!memory

\* A probe that ends with a row of its own path.
LEMMA ProbeEnds ==
  ASSUME SubstrateInv, wprobe.at # "idle", Left,
         NEW status, NEW proc, NEW pinned, NEW sidecar, NEW db,
         Substrate!Done(Substrate!Row(status, db, sidecar, proc, pinned)),
         status = "observed" =>
           /\ db.path = wprobe.file /\ sidecar.path = wprobe.file
           /\ sidecar.db = db.db \/ wprobe.file \in swapped,
         (status = "observed" /\ pinned = FALSE /\ (legible \/ wprobe.at = "shm"))
           => wprobe.file \in free,
         status = "target_missing" => holds[wprobe.file] = 0
  PROVE  SubstrateInv' /\ RowIsTrue
<1>1. /\ wprobe' = Substrate!Idle /\ wprobe'.at = "idle"
      /\ wrow'.status = status /\ wrow'.db = db /\ wrow'.sidecar = sidecar /\ wrow'.pinned = pinned
  BY DEF Substrate!Done, Substrate!Row, Substrate!Idle
<1>2. wprobe.file \in Files /\ wprobe.file # Nobody
  BY SubstrateAssumption DEF Substrate!SubstrateAssumption, SubstrateInv, ProbeHolds
<1>3. ProbeHolds'
  BY <1>1 DEF ProbeHolds, Substrate!Idle
<1>4. Substrate!WalRowIsOneFile
  BY <1>1, <1>2 DEF Substrate!WalRowIsOneFile
<1>5. Substrate!UnpinnedWasTrue
  BY <1>1, <1>2 DEF Substrate!UnpinnedWasTrue
<1>6. Substrate!MissingWasMissing
  BY <1>1, <1>2 DEF Substrate!MissingWasMissing
<1> QED BY <1>3, <1>4, <1>5, <1>6, ProbeLeaves DEF SubstrateInv, RowIsTrue

\* An error row.
LEMMA ProbeErrs ==
  ASSUME SubstrateInv, wprobe.at # "idle", Left,
         NEW r \in {"target_missing", "permission_denied", "stat_error"},
         r = "target_missing" => holds[wprobe.file] = 0,
         Substrate!Done(Substrate!ErrorRow(r))
  PROVE  SubstrateInv' /\ RowIsTrue
<1>1. Substrate!Done(Substrate!Row(r, Nobody, Nobody, "not_attempted", Nobody))
  BY Zenon DEF Substrate!ErrorRow
<1>2. r # "observed"
  OBVIOUS
<1> QED BY <1>1, <1>2, ProbeEnds

\* A probe that goes on, with what it has found so far.
LEMMA ProbeGoesOn ==
  ASSUME SubstrateInv, wprobe.at # "idle", Left,
         wprobe'.at \in {"wal", "shm", "locks"}, wprobe'.file = wprobe.file,
         DOMAIN wprobe' = DOMAIN wprobe,
         /\ wprobe'.db.path = wprobe.file
         /\ wprobe'.db.db = holds[wprobe.file] \/ wprobe.file \in swapped,
         wprobe'.at \in {"shm", "locks"} =>
           /\ wprobe'.wal.path = wprobe.file
           /\ wprobe'.wal.db = wprobe'.db.db \/ wprobe.file \in swapped,
         wprobe'.at = "locks" => wprobe'.ino # 0 /\ wprobe'.ino = shm[wprobe.file]
  PROVE  SubstrateInv' /\ RowIsTrue
<1>1. ProbeHolds'
  BY ProbeLeaves DEF SubstrateInv, ProbeHolds
<1>2. ~Substrate!RowTold
  BY DEF Substrate!RowTold
<1>3. RowIsTrue
  BY <1>2
  DEF RowIsTrue, Substrate!WalRowIsOneFile, Substrate!UnpinnedWasTrue, Substrate!MissingWasMissing
<1> QED BY <1>1, <1>3, ProbeLeaves DEF SubstrateInv

LEMMA StatDbStep ==
  ASSUME SubstrateInv, Substrate!StatDb
  PROVE  SubstrateInv' /\ RowIsTrue
<1>1. wprobe.at = "stat" /\ DOMAIN wprobe = Fields /\ Left
  BY DEF Substrate!StatDb, SubstrateInv, ProbeHolds, Left
<1>2. CASE wprobe' = [wprobe EXCEPT !.at = "wal", !.db = Substrate!Look(wprobe.file)]
  <2>1. /\ wprobe'.at = "wal" /\ wprobe'.file = wprobe.file /\ DOMAIN wprobe' = DOMAIN wprobe
        /\ wprobe'.db = Substrate!Look(wprobe.file)
    BY <1>1, <1>2 DEF Fields
  <2>2. wprobe'.db.path = wprobe.file /\ wprobe'.db.db = holds[wprobe.file]
    BY <2>1 DEF Substrate!Look
  <2> QED BY <1>1, <2>1, <2>2, ProbeGoesOn
<1>3. ASSUME NEW r \in {"target_missing", "permission_denied", "stat_error"},
             r = "target_missing" => holds[wprobe.file] = 0,
             Substrate!Done(Substrate!ErrorRow(r))
      PROVE  SubstrateInv' /\ RowIsTrue
  BY <1>1, <1>3, ProbeErrs
<1> QED BY <1>2, <1>3 DEF Substrate!StatDb, Substrate!Refusals

LEMMA StatWalStep ==
  ASSUME SubstrateInv, Substrate!StatWal
  PROVE  SubstrateInv' /\ RowIsTrue
<1> DEFINE found == Substrate!Look(Substrate!Sidecar)
<1>1. /\ wprobe.at = "wal" /\ DOMAIN wprobe = Fields /\ Left
      /\ wprobe.db.path = wprobe.file
      /\ wprobe.db.db = holds[wprobe.file] \/ wprobe.file \in swapped
  BY DEF Substrate!StatWal, SubstrateInv, ProbeHolds, Left
<1>2. found.path = wprobe.file /\ found.db = holds[wprobe.file]
  BY DEF Substrate!Look, Substrate!Sidecar
<1> HIDE DEF found
<1>3. CASE wprobe' = [wprobe EXCEPT !.at = "shm", !.wal = found]
  <2>1. /\ wprobe'.at = "shm" /\ wprobe'.file = wprobe.file /\ wprobe'.wal = found
        /\ wprobe'.db = wprobe.db /\ DOMAIN wprobe' = DOMAIN wprobe
    BY <1>1, <1>3 DEF Fields
  <2> QED BY <1>1, <1>2, <2>1, ProbeGoesOn
<1>4. CASE Substrate!Done(Substrate!Row("observed", wprobe.db, found, "not_attempted", Nobody))
  <2>1. Nobody # FALSE
    BY SubstrateAssumption DEF Substrate!SubstrateAssumption
  <2> QED BY <1>1, <1>2, <1>4, <2>1, ProbeEnds
<1>5. ASSUME NEW r \in {"permission_denied", "stat_error"}, Substrate!Done(Substrate!ErrorRow(r))
      PROVE  SubstrateInv' /\ RowIsTrue
  BY <1>1, <1>5, ProbeErrs
<1> QED BY <1>3, <1>4, <1>5 DEF Substrate!StatWal, Substrate!Refusals, found

LEMMA StatShmStep ==
  ASSUME SubstrateInv, Substrate!StatShm
  PROVE  SubstrateInv' /\ RowIsTrue
<1>1. /\ wprobe.at = "shm" /\ DOMAIN wprobe = Fields /\ Left
      /\ wprobe.db.path = wprobe.file /\ wprobe.wal.path = wprobe.file
      /\ wprobe.db.db = holds[wprobe.file] \/ wprobe.file \in swapped
      /\ wprobe.wal.db = wprobe.db.db \/ wprobe.file \in swapped
  BY DEF Substrate!StatShm, SubstrateInv, ProbeHolds, Left
<1>2. /\ wprobe.file \in Files /\ Nobody # FALSE
      /\ {f \in Files : ~Substrate!Held(f)} \subseteq free
  BY <1>1, SubstrateAssumption DEF Substrate!SubstrateAssumption, SubstrateInv, ProbeHolds
<1>3. Substrate!ShmInode = shm[wprobe.file]
  BY DEF Substrate!ShmInode, Substrate!Sidecar
<1>4. CASE /\ Substrate!ShmInode # 0
           /\ wprobe' = [wprobe EXCEPT !.at = "locks", !.ino = Substrate!ShmInode]
  <2>1. /\ wprobe'.at = "locks" /\ wprobe'.file = wprobe.file
        /\ wprobe'.db = wprobe.db /\ wprobe'.wal = wprobe.wal
        /\ wprobe'.ino = shm[wprobe.file] /\ wprobe'.ino # 0 /\ DOMAIN wprobe' = DOMAIN wprobe
    BY <1>1, <1>3, <1>4 DEF Fields
  <2> QED BY <1>1, <2>1, ProbeGoesOn
<1>5. CASE Substrate!ShmInode = 0 /\ Substrate!Done(Substrate!ShmOutcome("not_found"))
  <2>1. Substrate!Done(Substrate!Row("observed", wprobe.db, wprobe.wal, "observed", FALSE))
    BY <1>5 DEF Substrate!ShmOutcome, Substrate!Observed
  <2>2. wprobe.file \in free
    BY <1>2, <1>3, <1>5 DEF Substrate!Held
  <2> QED BY <1>1, <2>1, <2>2, ProbeEnds
<1>6. ASSUME NEW k \in {"denied", "other"}, Substrate!Done(Substrate!ShmOutcome(k))
      PROVE  SubstrateInv' /\ RowIsTrue
  <2>1. PICK p : Substrate!Done(Substrate!Row("observed", wprobe.db, wprobe.wal, p, Nobody))
    BY <1>6 DEF Substrate!ShmOutcome, Substrate!Observed
  <2> QED BY <1>1, <1>2, <2>1, ProbeEnds
<1> QED BY <1>4, <1>5, <1>6 DEF Substrate!StatShm

LEMMA ReadLocksStep ==
  ASSUME SubstrateInv, Substrate!ReadLocks
  PROVE  SubstrateInv' /\ RowIsTrue
<1>1. /\ wprobe.at = "locks" /\ Left
      /\ wprobe.db.path = wprobe.file /\ wprobe.wal.path = wprobe.file
      /\ wprobe.wal.db = wprobe.db.db \/ wprobe.file \in swapped
  BY DEF Substrate!ReadLocks, SubstrateInv, ProbeHolds, Left
<1>2. /\ wprobe.file \in Files /\ Nobody # FALSE
      /\ {f \in Files : ~Substrate!Held(f)} \subseteq free
      /\ shm[wprobe.file] = wprobe.ino \/ wprobe.file \in free
  BY <1>1, SubstrateAssumption DEF Substrate!SubstrateAssumption, SubstrateInv, ProbeHolds
<1>3. ASSUME NEW told, legible => told = locked,
             Substrate!Done(Substrate!Observed("observed", wprobe.ino \in told))
      PROVE  SubstrateInv' /\ RowIsTrue
  <2>1. PICK pinned : pinned = (wprobe.ino \in told)
    BY Zenon
  <2>2. Substrate!Done(Substrate!Row("observed", wprobe.db, wprobe.wal, "observed", pinned))
    BY <1>3, <2>1, Zenon DEF Substrate!Observed
  <2>3. pinned = FALSE => wprobe.ino \notin told
    BY <2>1, Zenon
  <2>4. pinned = FALSE /\ legible => wprobe.file \in free
    BY <1>2, <1>3, <2>3 DEF Substrate!Held
  <2>5. wprobe.at # "idle" /\ wprobe.at # "shm"
    BY <1>1
  <2> HIDE <2>1
  <2> QED BY <1>1, <2>2, <2>4, <2>5, ProbeEnds
<1>4. ASSUME NEW p, Substrate!Done(Substrate!Observed(p, Nobody))
      PROVE  SubstrateInv' /\ RowIsTrue
  <2>1. Substrate!Done(Substrate!Row("observed", wprobe.db, wprobe.wal, p, Nobody))
    BY <1>4, Zenon DEF Substrate!Observed
  <2> QED BY <1>1, <1>2, <2>1, ProbeEnds
<1> QED BY <1>3, <1>4 DEF Substrate!ReadLocks

LEMMA BinarySteps ==
  ASSUME SubstrateInv, Substrate!BinaryNext
  PROVE  SubstrateInv'
<1>1. UNCHANGED <<Substrate!filesVars, Substrate!walVars>>
  BY DEF Substrate!BinaryNext, Substrate!Upgrade, Substrate!Restart, Substrate!StatBinary,
         Substrate!ReadBinary
<1>2. SubstrateType' /\ ProbeHolds'
  BY <1>1 DEF SubstrateInv, SubstrateType, ProbeHolds, Substrate!Held, Substrate!Idle,
              Substrate!filesVars, Substrate!walVars, Substrate!memory
<1>3. BinaryHolds'
  <2>1. CASE Substrate!Upgrade
    BY <2>1, SubstrateAssumption
       DEF SubstrateInv, BinaryHolds, Substrate!DigestNotOlder, Substrate!Upgrade,
           Substrate!SubstrateAssumption
  <2>2. CASE Substrate!Restart
    BY <2>2 DEF SubstrateInv, BinaryHolds, Substrate!DigestNotOlder, Substrate!Restart
  <2>3. CASE Substrate!StatBinary
    <3>1. brow' # brow => brow'.status # "observed"
      BY <2>3 DEF Substrate!StatBinary, Substrate!BinaryError, Substrate!BinaryRow, Substrate!Refusals
    <3>2. /\ UNCHANGED <<versions, installed>>
          /\ bstat' = Nobody \/ (installed # Nobody /\ bstat' = installed)
      BY <2>3 DEF Substrate!StatBinary, Substrate!BinaryError
    <3> QED BY <3>1, <3>2 DEF SubstrateInv, BinaryHolds, Substrate!DigestNotOlder
  <2>4. CASE Substrate!ReadBinary
    <3>1. brow'.status = "observed" => installed # Nobody /\ brow'.file = bstat /\ brow'.content = installed
      BY <2>4 DEF Substrate!ReadBinary, Substrate!BinaryError, Substrate!BinaryRow
    <3>2. UNCHANGED <<versions, installed>> /\ bstat # Nobody /\ bstat' = Nobody
      BY <2>4 DEF Substrate!ReadBinary, Substrate!BinaryError
    <3> QED BY <3>1, <3>2 DEF SubstrateInv, BinaryHolds, Substrate!DigestNotOlder
  <2> QED BY <2>1, <2>2, <2>3, <2>4 DEF Substrate!BinaryNext
<1> QED BY <1>2, <1>3 DEF SubstrateInv

LEMMA WalSteps ==
  ASSUME SubstrateInv, Substrate!WalNext
  PROVE  SubstrateInv' /\ RowIsTrue
<1>1. CASE Substrate!Owner
  <2>1. SubstrateInv' /\ UNCHANGED <<wprobe, probes>>
    BY <1>1, OwnerSteps
  <2>2. ~Substrate!RowTold
    BY <2>1 DEF Substrate!RowTold
  <2> QED BY <2>1, <2>2
      DEF RowIsTrue, Substrate!WalRowIsOneFile, Substrate!UnpinnedWasTrue, Substrate!MissingWasMissing
<1> QED BY <1>1, ProbeBegins, StatDbStep, StatWalStep, StatShmStep, ReadLocksStep
        DEF Substrate!WalNext

\* A WAL row is of one path, and of one database unless another was renamed over
\* the path meanwhile; that no reader is pinned (by a lock table that tells every
\* lock) or no database there was so at some moment of the probe; and a binary
\* row's digest is of no older executable than its size and time: for any number
\* of paths and databases the declared path may be made to lead to, and of
\* sidecars, inodes and executables that come and go between two system calls
\* (sqlite_wal_probe.rs, nq_binary.rs).
THEOREM SubstrateRowsAreTrue == AgentSpec => SubstrateRowsTrue
<1>1. AgentInit => AgentSubstrateInv
  BY SubstrateStart DEF AgentInit, AgentSubstrateInv
<1>2. AgentSubstrateInv /\ [AgentNext]_agentVars
        => AgentSubstrateInv' /\ [part = "wal" => RowIsTrue]_substrateVars
  <2> SUFFICES ASSUME AgentSubstrateInv, [AgentNext]_agentVars
               PROVE  AgentSubstrateInv' /\ [part = "wal" => RowIsTrue]_substrateVars
    OBVIOUS
  <2>1. CASE part = "wal" /\ Substrate!WalNext /\ UNCHANGED part
    BY <2>1, WalSteps DEF AgentSubstrateInv
  <2>2. CASE part = "binary" /\ Substrate!BinaryNext /\ UNCHANGED part
    BY <2>2, BinarySteps DEF AgentSubstrateInv
  <2>3. CASE part \notin {"wal", "binary"} /\ UNCHANGED part
    BY <2>3 DEF AgentSubstrateInv
  <2>4. CASE UNCHANGED agentVars
    <3>1. UNCHANGED substrateVars /\ UNCHANGED part
      BY <2>4 DEF agentVars
    <3>2. SubstrateInv => SubstrateInv'
      BY <3>1 DEF substrateVars, SubstrateInv, SubstrateType, ProbeHolds, BinaryHolds,
                  Substrate!DigestNotOlder, Substrate!Held, Substrate!Idle
    <3> QED BY <3>1, <3>2 DEF AgentSubstrateInv
  <2> QED BY <2>1, <2>2, <2>3, <2>4 DEF AgentNext
<1>3. AgentSubstrateInv => (part = "binary" => Substrate!DigestNotOlder)
  BY DEF AgentSubstrateInv, SubstrateInv, BinaryHolds
<1>4. [part = "wal" => RowIsTrue]_substrateVars
        <=> [part = "wal" =>
               /\ Substrate!WalRowIsOneFile
               /\ Substrate!UnpinnedWasTrue
               /\ Substrate!MissingWasMissing]_substrateVars
  BY DEF RowIsTrue
<1> QED BY <1>1, <1>2, <1>3, <1>4, PTL DEF AgentSpec, SubstrateRowsTrue
-----------------------------------------------------------------------------
(***************************************************************************)
(* Pull and publication.                                                   *)
(***************************************************************************)
Listing == CollectorKinds \ {"prometheus", "host", "nq_binary"}

\* A payload that tells of every target: it has a row or its name is in the
\* error message.
Tells(payload, targets) ==
  payload.status = "ok" =>
    /\ payload.rows \subseteq targets
    /\ targets \subseteq payload.rows \cup payload.named

LEMMA GatheredTells ==
  ASSUME NEW rows, NEW bad, NEW targets, rows \subseteq targets, targets \subseteq rows \cup bad
  PROVE  Tells(Gathered(rows, bad), targets)
BY DEF Tells, Gathered, Payload

LEMMA WitnessTells ==
  ASSUME NEW cfg, NEW c, NEW outcome
  PROVE  Tells(CollectWitness(cfg, c, outcome), cfg.targets[c])
BY DEF Tells, CollectWitness, Payload

LEMMA CollectorsTell ==
  ASSUME NEW cfg, NEW reading, NEW c \in Listing
  PROVE  Tells(CollectState(cfg, reading)[c], cfg.targets[c])
<1>1. Tells(CollectServices(cfg), cfg.targets["services"])
  BY DEF Tells, CollectServices, Payload
<1>2. Tells(CollectDbs(cfg, reading), cfg.targets["sqlite_health"])
  BY GatheredTells DEF CollectDbs
<1>3. Tells(CollectLogs(cfg, reading), cfg.targets["logs"])
  <2> DEFINE targets == cfg.targets["logs"]
             refused == Unsupported(cfg, "journald") \cap targets
             had == refused \cup ((targets \ refused) \cap reading.readable)
  <2>1. Tells(Payload("skipped", Nothing, {}), targets)
    BY DEF Tells, Payload
  <2>2. had \subseteq targets /\ targets \subseteq had \cup (targets \ had)
    OBVIOUS
  <2> HIDE DEF had
  <2>3. Tells(Gathered(had, targets \ had), targets)
    BY <2>2, GatheredTells
  <2> QED BY <2>1, <2>3, Zenon DEF CollectLogs, had
<1>4. Tells(CollectGpu(cfg, reading.smi), cfg.targets["gpu_witness"])
  <2>1. Tells(Payload("not_supported", Nothing, cfg.targets["gpu_witness"]), cfg.targets["gpu_witness"])
    BY DEF Tells, Payload
  <2> QED BY <2>1, WitnessTells, Zenon DEF CollectGpu
<1>5. Tells(CollectWal(cfg), cfg.targets["sqlite_wal"])
  BY DEF Tells, CollectWal, Payload
<1>6. c \in {"services", "sqlite_health", "logs", "zfs_witness", "smart_witness", "gpu_witness", "sqlite_wal"}
  BY DEF Listing, CollectorKinds
<1> QED BY <1>1, <1>2, <1>3, <1>4, <1>5, <1>6, WitnessTells DEF CollectState

\* A sample carries a target of the publisher's configuration.
LEMMA MetricsOfTargets ==
  ASSUME NEW cfg, NEW reading, CollectState(cfg, reading)["prometheus"].status = "ok",
         NEW m \in CollectState(cfg, reading)["prometheus"].rows
  PROVE  m.target \in cfg.targets["prometheus"]
<1>1. CollectState(cfg, reading)["prometheus"] = CollectMetrics(cfg, reading)
  BY DEF CollectState
<1> QED BY <1>1 DEF CollectMetrics, Gathered, Payload

\* What the state of a cycle is made of.  An answer that is heard was asked for in
\* this cycle, and so was collected after it began.
CollectionType ==
  /\ phase \in {"idle", "pulling"}
  /\ cycle \in Nat /\ began \in Nat /\ time \in Nat /\ gen \in Nat /\ began <= time
  /\ DOMAIN pull = Sources

AskedHolds == \A r \in asked : r.cycle \in Nat /\ r.cycle <= cycle

ServingHolds ==
  \A x \in serving :
    /\ x.cycle \in Nat /\ x.cycle <= cycle
    /\ x.at \in Nat /\ x.at <= time
    /\ x.cycle = cycle => began < x.at

PullHolds ==
  \A s \in Sources : pull[s].status = "ok" =>
    /\ \E reading \in Readings : pull[s].state = CollectState(Config[s], reading)
    /\ pull[s].at \in Nat /\ pull[s].at <= time
    /\ phase = "pulling" => began < pull[s].at

CurrentHolds ==
  \A s \in Sources, c \in CollectorKinds :
    /\ current[s][c].at \in Nat /\ current[s][c].at <= time
    /\ phase = "pulling" => current[s][c].at <= began
    /\ current[s][c].gen \in Nat /\ current[s][c].gen <= gen

\* AbsentIsTold, at any moment: a cycle that pulls leaves the last generation.
LatestTells ==
  \A s \in Sources, c \in Listing :
    runs.of[s] # Nothing =>
      IF runs.of[s][c].status # "ok"
      THEN current[s][c].gen < gen
      ELSE /\ current[s][c].gen = gen
           /\ Config[s].targets[c] \subseteq current[s][c].rows \cup runs.of[s][c].named

SeriesHolds == SeriesHonest /\ \A x \in AllSeries : lent[x] \subseteq DOMAIN NameOf

CollectionInv ==
  /\ CollectionType /\ AskedHolds /\ ServingHolds /\ PullHolds /\ CurrentHolds
  /\ LatestTells /\ SeriesHolds
AgentCollectionInv == part = "collection" => CollectionInv

\* One row of the series dictionary, and the names its samples came with.
Honest(row, names) ==
  /\ row.collision <=> Cardinality(names) > 1
  /\ row.name # Nothing <=> Cardinality(names) = 1
  /\ row.name # Nothing => names = {row.name}

LEMMA HonestRows ==
  SeriesHonest <=> \A x \in AllSeries : Honest(series[x], NamesOf(lent[x]))
BY Zenon DEF SeriesHonest, Honest

LEMMA Counting ==
  ASSUME NEW S, IsFiniteSet(S)
  PROVE  /\ Cardinality(S) \in Nat
         /\ Cardinality(S) = 0 <=> S = {}
         /\ Cardinality(S) = 1 <=> \E a : S = {a}
<1>1. Cardinality(S) \in Nat
  BY FS_CardinalityType
<1>2. Cardinality(S) = 0 <=> S = {}
  BY FS_EmptySet
<1>3. Cardinality(S) = 1 <=> \E a : S = {a}
  <2>1. ASSUME Cardinality(S) = 1 PROVE \E a : S = {a}
    BY <2>1, FS_Singleton
  <2>2. ASSUME NEW a, S = {a} PROVE Cardinality(S) = 1
    BY <2>2, FS_Singleton
  <2> QED BY <2>1, <2>2
<1> QED BY <1>1, <1>2, <1>3

\* The upsert keeps a row honest.
LEMMA AttributeHonest ==
  ASSUME NEW old, NEW had, NEW names, IsFiniteSet(had), IsFiniteSet(names),
         Nothing \notin had, Nothing \notin names, Honest(old, had)
  PROVE  Honest(Attribute(old, names), had \cup names)
<1> DEFINE all == had \cup names
           known == names \cup ({old.name} \ {Nothing})
<1>1. IsFiniteSet(all) /\ Nothing \notin all
  BY FS_Union
<1>2. /\ Cardinality(all) \in Nat
      /\ Cardinality(all) = 0 <=> all = {}
      /\ Cardinality(all) = 1 <=> \E a : all = {a}
  BY <1>1, Counting
<1>3. /\ Cardinality(had) \in Nat
      /\ Cardinality(had) = 0 <=> had = {}
      /\ Cardinality(had) = 1 <=> \E a : had = {a}
  BY Counting
<1> HIDE DEF known
<1>4. CASE old.collision
  <2>1. Cardinality(had) > 1
    BY <1>4 DEF Honest
  <2>2. Cardinality(all) >= Cardinality(had)
    BY <1>1, FS_Subset
  <2>3. Attribute(old, names) = [name |-> Nothing, collision |-> TRUE]
    BY <1>4, Zenon DEF Attribute
  <2>4. Attribute(old, names).name = Nothing /\ Attribute(old, names).collision
    BY <2>3
  <2>5. Cardinality(all) > 1
    BY <1>2, <1>3, <2>1, <2>2
  <2> QED BY <2>4, <2>5, <1>2 DEF Honest
<1>5. CASE ~old.collision
  <2>1. ~(Cardinality(had) > 1)
    BY <1>5 DEF Honest
  <2>2. known = all
    BY <1>3, <2>1 DEF Honest, known
  <2>3. CASE Cardinality(all) > 1
    <3>1. Attribute(old, names) = [name |-> Nothing, collision |-> TRUE]
      BY <2>2, <2>3, Zenon DEF Attribute, known
    <3>2. Attribute(old, names).name = Nothing /\ Attribute(old, names).collision
      BY <3>1
    <3> QED BY <2>3, <3>2 DEF Honest
  <2>4. CASE ~(Cardinality(all) > 1)
    <3> DEFINE n == IF names = {} THEN old.name ELSE CHOOSE m \in names : TRUE
    <3>1. Attribute(old, names) = [name |-> n, collision |-> FALSE]
      BY <1>5, <2>2, <2>4, Zenon DEF Attribute, known
    <3>2. Attribute(old, names).name = n /\ Attribute(old, names).collision = FALSE
      BY <3>1
    <3>3. names # {} => n \in all
      OBVIOUS
    <3>4. names = {} => n = old.name /\ all = had
      OBVIOUS
    <3> HIDE DEF n
    <3>5. CASE all = {}
      <4>1. n = Nothing
        BY <1>3, <3>3, <3>4, <3>5 DEF Honest
      <4> QED BY <1>2, <2>4, <3>2, <3>5, <4>1 DEF Honest
    <3>6. CASE all # {}
      <4>1. PICK a : all = {a}
        BY <1>2, <2>4, <3>6
      <4>2. a # Nothing
        BY <1>1, <4>1
      <4>3. n = a
        BY <1>2, <1>3, <3>3, <3>4, <4>1 DEF Honest
      <4> QED BY <1>2, <2>4, <3>2, <4>1, <4>2, <4>3 DEF Honest
    <3> QED BY <3>5, <3>6
  <2> QED BY <2>3, <2>4
<1> QED BY <1>4, <1>5

LEMMA CollectionStart ==
  ASSUME Init
  PROVE  CollectionInv
<1>1. CollectionType /\ AskedHolds /\ ServingHolds
  BY DEF Init, CollectionType, AskedHolds, ServingHolds
<1>2. PullHolds
  BY DEF Init, PullHolds, Failed
<1>3. CurrentHolds
  BY DEF Init, CurrentHolds, NoRows
<1>4. LatestTells
  BY DEF Init, LatestTells
<1>5. SeriesHolds
  <2>1. ASSUME NEW x \in AllSeries
        PROVE  lent[x] = {} /\ Honest(series[x], NamesOf(lent[x]))
    <3>1. lent[x] = {} /\ series[x].name = Nothing /\ series[x].collision = FALSE
      BY DEF Init
    <3>2. NamesOf(lent[x]) = {} /\ Cardinality({}) = 0
      BY <3>1, FS_EmptySet DEF NamesOf
    <3> QED BY <3>1, <3>2 DEF Honest
  <2> QED BY <2>1, HonestRows DEF SeriesHolds
<1> QED BY <1>1, <1>2, <1>3, <1>4, <1>5 DEF CollectionInv

\* Steps that publish nothing leave the tables.
LEMMA TablesStay ==
  ASSUME LatestTells, SeriesHolds, UNCHANGED <<gen, runs, current, series, lent>>
  PROVE  LatestTells' /\ SeriesHolds'
<1>1. LatestTells'
  BY DEF LatestTells
<1>2. SeriesHolds'
  BY DEF SeriesHolds, SeriesHonest
<1> QED BY <1>1, <1>2

LEMMA StartCycleStep ==
  ASSUME CollectionInv, StartCycle
  PROVE  CollectionInv'
<1>1. CollectionType'
  BY DEF CollectionInv, CollectionType, StartCycle
<1>2. AskedHolds'
  <2>1. cycle \in Nat /\ cycle' = cycle + 1
    BY DEF CollectionInv, CollectionType, StartCycle
  <2>2. asked' = asked \cup {[source |-> s, cycle |-> cycle + 1] : s \in Sources}
    BY DEF StartCycle
  <2> QED BY <2>1, <2>2 DEF CollectionInv, AskedHolds
<1>3. ServingHolds'
  BY DEF CollectionInv, CollectionType, ServingHolds, StartCycle
<1>4. PullHolds'
  BY DEF PullHolds, StartCycle, Pending
<1>5. CurrentHolds'
  BY DEF CollectionInv, CollectionType, CurrentHolds, StartCycle
<1> QED BY <1>1, <1>2, <1>3, <1>4, <1>5, TablesStay DEF CollectionInv, StartCycle

LEMMA TakeStep ==
  ASSUME CollectionInv, NEW s \in Sources, Take(s)
  PROVE  CollectionInv'
<1>1. CollectionType'
  BY DEF CollectionInv, CollectionType, Take
<1>2. PICK r \in asked :
        /\ asked' = asked \ {r}
        /\ serving' = serving \cup {[source |-> s, cycle |-> r.cycle, at |-> time + 1]}
  BY DEF Take
<1>3. AskedHolds'
  BY <1>2 DEF CollectionInv, AskedHolds, Take
<1>4. ServingHolds'
  BY <1>2 DEF CollectionInv, CollectionType, AskedHolds, ServingHolds, Take
<1>5. PullHolds' /\ CurrentHolds'
  BY DEF CollectionInv, CollectionType, PullHolds, CurrentHolds, Take
<1> QED BY <1>1, <1>3, <1>4, <1>5, TablesStay DEF CollectionInv, Take

LEMMA AnswerStep ==
  ASSUME CollectionInv, NEW s \in Sources, Answer(s)
  PROVE  CollectionInv'
<1>1. PICK x \in serving, reading \in Readings, understood \in BOOLEAN :
        /\ x.source = s
        /\ serving' = serving \ {x}
        /\ pull' = IF ~Heard(x) THEN pull
                   ELSE [pull EXCEPT ![s] =
                           IF understood THEN Answered(x.at, CollectState(Config[s], reading))
                           ELSE Failed("error")]
        /\ UNCHANGED <<phase, cycle, began, time, asked, crashes, gen, runs, current, series, lent>>
  BY DEF Answer
<1>2. CollectionType' /\ AskedHolds' /\ ServingHolds' /\ CurrentHolds'
  BY <1>1 DEF CollectionInv, CollectionType, AskedHolds, ServingHolds, CurrentHolds
<1>3. PullHolds'
  <2>1. SUFFICES ASSUME NEW t \in Sources, pull'[t].status = "ok", pull'[t] # pull[t]
                 PROVE  /\ \E rd \in Readings : pull'[t].state = CollectState(Config[t], rd)
                        /\ pull'[t].at \in Nat /\ pull'[t].at <= time /\ began < pull'[t].at
    BY <1>1, <2>1 DEF CollectionInv, PullHolds
  <2>2. t = s /\ understood /\ Heard(x) /\ pull'[s] = Answered(x.at, CollectState(Config[s], reading))
    BY <1>1, <2>1 DEF CollectionInv, CollectionType, Failed
  <2>3. pull'[s].at = x.at /\ pull'[s].state = CollectState(Config[s], reading)
    BY <2>2 DEF Answered
  <2>4. x.at \in Nat /\ x.at <= time /\ began < x.at
    BY <2>2 DEF CollectionInv, ServingHolds, Heard
  <2> QED BY <2>2, <2>3, <2>4
<1> QED BY <1>1, <1>2, <1>3, TablesStay DEF CollectionInv

LEMMA GivenUpStep ==
  ASSUME CollectionInv, NEW s \in Sources, Timeout(s) \/ Crash(s)
  PROVE  CollectionInv'
<1>1. /\ UNCHANGED <<phase, cycle, began, time, gen, runs, current, series, lent>>
      /\ asked' \subseteq asked /\ serving' \subseteq serving
  BY DEF Timeout, Crash
<1>2. PICK status \in {"timeout", "error"} :
        pull' = pull \/ pull' = [pull EXCEPT ![s] = Failed(status)]
  BY DEF Timeout, Crash
<1>3. CollectionType' /\ AskedHolds' /\ ServingHolds' /\ CurrentHolds'
  BY <1>1, <1>2 DEF CollectionInv, CollectionType, AskedHolds, ServingHolds, CurrentHolds
<1>4. PullHolds'
  <2>1. \A t \in Sources : pull'[t] = pull[t] \/ pull'[t].status = status
    BY <1>2 DEF CollectionInv, CollectionType, Failed
  <2> QED BY <1>1, <2>1 DEF CollectionInv, PullHolds
<1> QED BY <1>1, <1>3, <1>4, TablesStay DEF CollectionInv

\* The samples of a batch come from targets that have a name.
LEMMA SendersNamed ==
  ASSUME CollectionInv, NEW x
  PROVE  Senders(x) \subseteq DOMAIN NameOf
<1>1. SUFFICES ASSUME NEW s \in Sources, NEW m \in Samples(s) PROVE m.target \in DOMAIN NameOf
  BY <1>1 DEF Senders
<1>2. /\ Up(s) /\ pull[s].state["prometheus"].status = "ok"
      /\ m \in pull[s].state["prometheus"].rows
  BY <1>1 DEF Samples, Replaces, NewRows
<1>3. PICK reading \in Readings : pull[s].state = CollectState(Config[s], reading)
  BY <1>2 DEF CollectionInv, PullHolds, Up
<1>4. m.target \in Config[s].targets["prometheus"]
  BY <1>2, <1>3, MetricsOfTargets
<1> QED BY <1>4, CollectionAssumption

LEMMA NamesFinite ==
  ASSUME NEW T, T \subseteq DOMAIN NameOf
  PROVE  IsFiniteSet(NamesOf(T)) /\ Nothing \notin NamesOf(T)
<1>1. IsFiniteSet(T)
  BY CollectionAssumption, FS_Subset
<1>2. [t \in T |-> NameOf[t]] \in Surjection(T, {NameOf[t] : t \in T})
  BY DEF Surjection
<1>3. IsFiniteSet({NameOf[t] : t \in T})
  BY <1>1, <1>2, FS_Surjection
<1> QED BY <1>3, FS_Subset DEF NamesOf

LEMMA SeriesStep ==
  ASSUME CollectionInv, Publish
  PROVE  SeriesHolds'
<1>1. ASSUME NEW x \in AllSeries
      PROVE  /\ lent'[x] \subseteq DOMAIN NameOf
             /\ Honest(series'[x], NamesOf(lent'[x]))
  <2> DEFINE had == NamesOf(lent[x])
             names == NamesOf(Senders(x))
  <2>1. Senders(x) \subseteq DOMAIN NameOf /\ lent[x] \subseteq DOMAIN NameOf
    BY SendersNamed DEF CollectionInv, SeriesHolds
  <2>2. lent'[x] = lent[x] \cup Senders(x)
    BY DEF Publish
  <2>3. series'[x] = IF Senders(x) = {} THEN series[x] ELSE Attribute(series[x], names)
    BY Zenon DEF Publish, UpdateSeries
  <2>4. NamesOf(lent'[x]) = had \cup names
    BY <2>2 DEF NamesOf
  <2>5. Honest(series[x], had)
    BY HonestRows DEF CollectionInv, SeriesHolds
  <2>6. /\ IsFiniteSet(had) /\ IsFiniteSet(names)
        /\ Nothing \notin had /\ Nothing \notin names
    BY <2>1, NamesFinite
  <2>7. CASE Senders(x) = {}
    <3>1. lent'[x] = lent[x] /\ series'[x] = series[x]
      BY <2>2, <2>3, <2>7
    <3> QED BY <2>1, <2>5, <3>1
  <2>8. CASE Senders(x) # {}
    <3>1. series'[x] = Attribute(series[x], names)
      BY <2>3, <2>8
    <3> HIDE DEF had, names
    <3>2. Honest(series'[x], had \cup names)
      BY <2>5, <2>6, <3>1, AttributeHonest
    <3> QED BY <2>1, <2>2, <2>4, <3>2
  <2> QED BY <2>7, <2>8
<1>2. (\A x \in AllSeries : Honest(series[x], NamesOf(lent[x])))'
  BY <1>1
<1>3. SeriesHonest'
  BY <1>2, Zenon DEF SeriesHonest, Honest
<1> QED BY <1>1, <1>3 DEF SeriesHolds

\* A collector that succeeded has its targets in the tables or in its message.
LEMMA StoredTells ==
  ASSUME CollectionInv, NEW s \in Sources, NEW c \in Listing, Replaces(s, c)
  PROVE  Config[s].targets[c] \subseteq NewRows(s, c) \cup pull[s].state[c].named
<1>1. PICK reading \in Readings : pull[s].state = CollectState(Config[s], reading)
  BY DEF CollectionInv, PullHolds, Replaces, Up
<1>2. Tells(pull[s].state[c], Config[s].targets[c])
  BY <1>1, CollectorsTell
<1>3. pull[s].state[c].rows # Nothing
  BY <1>2, CollectionAssumption DEF Tells, Replaces, Listing
<1> QED BY <1>2, <1>3 DEF Tells, Replaces, NewRows

LEMMA PublishStep ==
  ASSUME CollectionInv, Publish
  PROVE  CollectionInv' /\ SampledInCycle
<1>1. /\ phase = "pulling" /\ phase' = "idle" /\ gen' = gen + 1 /\ gen \in Nat
      /\ UNCHANGED <<cycle, began, time, pull, asked, serving>>
  BY DEF Publish, Ready, CollectionInv, CollectionType
<1>2. CollectionType' /\ AskedHolds' /\ ServingHolds' /\ PullHolds'
  BY <1>1 DEF CollectionInv, CollectionType, AskedHolds, ServingHolds, PullHolds
<1>3. \A s \in Sources, c \in CollectorKinds :
        current'[s][c] = IF Replaces(s, c) THEN Stored(s, c) ELSE current[s][c]
  BY DEF Publish
<1>4. \A s \in Sources, c \in CollectorKinds :
        /\ Stored(s, c).gen = gen + 1 /\ Stored(s, c).at = pull[s].at
        /\ Stored(s, c).rows = NewRows(s, c)
  BY DEF Stored
<1>5. \A s \in Sources, c \in CollectorKinds :
        Replaces(s, c) => pull[s].at \in Nat /\ pull[s].at <= time /\ began < pull[s].at
  BY <1>1 DEF CollectionInv, PullHolds, Replaces, Up
<1>6. CurrentHolds'
  BY <1>1, <1>3, <1>4, <1>5 DEF CollectionInv, CollectionType, CurrentHolds
<1>7. SampledInCycle
  BY <1>1, <1>3, <1>4, <1>5 DEF CollectionInv, CollectionType, CurrentHolds, SampledInCycle
<1>8. LatestTells'
  <2> SUFFICES ASSUME NEW s \in Sources, NEW c \in Listing, runs'.of[s] # Nothing
               PROVE  IF runs'.of[s][c].status # "ok"
                      THEN current'[s][c].gen < gen'
                      ELSE /\ current'[s][c].gen = gen'
                           /\ Config[s].targets[c] \subseteq current'[s][c].rows \cup runs'.of[s][c].named
    BY DEF LatestTells
  <2>1. Up(s) /\ runs'.of[s] = pull[s].state /\ c \in CollectorKinds
    BY DEF Publish, Listing
  <2>2. CASE pull[s].state[c].status # "ok"
    <3>1. current'[s][c] = current[s][c]
      BY <1>3, <2>1, <2>2 DEF Replaces
    <3> QED BY <1>1, <2>1, <2>2, <3>1 DEF CollectionInv, CurrentHolds
  <2>3. CASE pull[s].state[c].status = "ok"
    <3>1. Replaces(s, c)
      BY <2>1, <2>3 DEF Replaces
    <3>2. current'[s][c].gen = gen + 1 /\ current'[s][c].rows = NewRows(s, c)
      BY <1>3, <1>4, <2>1, <3>1
    <3> QED BY <1>1, <2>1, <2>3, <3>1, <3>2, StoredTells
  <2> QED BY <2>2, <2>3
<1> QED BY <1>2, <1>6, <1>7, <1>8, SeriesStep DEF CollectionInv

LEMMA CollectionStep ==
  ASSUME CollectionInv, Next
  PROVE  CollectionInv' /\ SampledInCycle
<1>1. ASSUME current' = current PROVE SampledInCycle
  BY <1>1 DEF SampledInCycle
<1>2. CASE StartCycle
  BY <1>1, <1>2, StartCycleStep DEF StartCycle
<1>3. CASE Publish
  BY <1>3, PublishStep
<1>4. CASE PublishFails
  <2>1. /\ phase' = "idle"
        /\ UNCHANGED <<cycle, began, time, pull, asked, serving, gen, runs, current, series, lent>>
    BY <1>4 DEF PublishFails
  <2>2. CollectionType' /\ AskedHolds' /\ ServingHolds' /\ PullHolds' /\ CurrentHolds'
    BY <2>1 DEF CollectionInv, CollectionType, AskedHolds, ServingHolds, PullHolds, CurrentHolds
  <2> QED BY <1>1, <2>1, <2>2, TablesStay DEF CollectionInv
<1>5. ASSUME NEW s \in Sources, Take(s) \/ Answer(s) \/ Timeout(s) \/ Crash(s)
      PROVE  CollectionInv' /\ SampledInCycle
  <2>1. current' = current
    BY <1>5 DEF Take, Answer, Timeout, Crash
  <2> QED BY <1>1, <1>5, <2>1, TakeStep, AnswerStep, GivenUpStep
<1> QED BY <1>2, <1>3, <1>4, <1>5 DEF Next

\* What a generation stores was sampled for it and what it lacks it tells
\* (pull_all, publish_batch), for any sources, configurations and readings: late
\* answers and restarts of agents bring no older rows, a target without a row is
\* told, and a series names a target only if it is its only one.
THEOREM StoredIsAlwaysTold == AgentSpec => StoredIsTold
<1>1. AgentInit => AgentCollectionInv
  BY CollectionStart DEF AgentInit, AgentCollectionInv
<1>2. AgentCollectionInv /\ [AgentNext]_agentVars
        => AgentCollectionInv' /\ [part = "collection" => SampledInCycle]_vars
  <2> SUFFICES ASSUME AgentCollectionInv, [AgentNext]_agentVars
               PROVE  AgentCollectionInv' /\ [part = "collection" => SampledInCycle]_vars
    OBVIOUS
  <2>1. CASE part = "collection" /\ Next /\ UNCHANGED part
    BY <2>1, CollectionStep DEF AgentCollectionInv
  <2>2. CASE part # "collection" /\ UNCHANGED part
    BY <2>2 DEF AgentCollectionInv
  <2>3. CASE UNCHANGED agentVars
    <3>1. UNCHANGED vars /\ UNCHANGED part
      BY <2>3 DEF agentVars
    <3>2. CollectionInv => CollectionInv'
      BY <3>1, TablesStay
         DEF vars, CollectionInv, CollectionType, AskedHolds, ServingHolds, PullHolds, CurrentHolds
    <3> QED BY <3>1, <3>2 DEF AgentCollectionInv
  <2> QED BY <2>1, <2>2, <2>3 DEF AgentNext
<1>3. AgentCollectionInv => (part = "collection" => AbsentIsTold /\ SeriesHonest)
  BY DEF AgentCollectionInv, CollectionInv, LatestTells, Listing, AbsentIsTold, SeriesHolds
<1> QED BY <1>1, <1>2, <1>3, PTL DEF AgentSpec, StoredIsTold
-----------------------------------------------------------------------------
(***************************************************************************)
(* The planner.                                                            *)
(***************************************************************************)
Selection(s) == IF s.packs = Nothing THEN <<>> ELSE s.packs

\* What a document that is not refused has passed.
LEMMA NotRefused ==
  ASSUME NEW s, Suite!Refusal(s) = Nothing
  PROVE  /\ s.mode = "monitor_only" <=> s.packs = Nothing
         /\ s.mode # "monitor_only" => /\ Suite!SuiteAddrOk(s.publisher.bind)
                                       /\ Suite!SuiteUrlOk(s.publisher.url)
         /\ s.versions /\ Suite!Registers(s.features)
         /\ Suite!SelectionRefusal(Selection(s), s.features) = Nothing
         /\ Suite!RuntimeRefusal(s) = Nothing
<1>1. /\ Nothing # "version" /\ Nothing # "packs" /\ Nothing # "publisher" /\ Nothing # "registry"
  BY SuiteAssumption DEF Suite!AssemblyAssumption
<1>2. Suite!Refusal(s) =
        IF ~s.versions THEN "version"
        ELSE IF (s.mode = "monitor_only") # (s.packs = Nothing) THEN "packs"
        ELSE IF s.mode # "monitor_only" /\ ~(Suite!SuiteAddrOk(s.publisher.bind) /\ Suite!SuiteUrlOk(s.publisher.url))
        THEN "publisher"
        ELSE IF ~Suite!Registers(s.features) THEN "registry"
        ELSE IF Suite!SelectionRefusal(Selection(s), s.features) # Nothing
             THEN Suite!SelectionRefusal(Selection(s), s.features)
        ELSE Suite!RuntimeRefusal(s)
  BY Zenon DEF Suite!Refusal, Selection
<1> QED BY <1>1, <1>2, Zenon

LEMMA SelectionAccepted ==
  ASSUME NEW selection, NEW features
  PROVE  Suite!SelectionRefusal(selection, features) = Nothing <=>
           /\ ({selection[i].pack : i \in DOMAIN selection} \ Suite!Registry(features))
                \cap DOMAIN Suite!KnownChecks = {}
           /\ Suite!SelectionOk(selection, features)
<1>1. Nothing # "unavailable" /\ Nothing # "selection"
  BY SuiteAssumption DEF Suite!AssemblyAssumption
<1> QED BY <1>1, Zenon DEF Suite!SelectionRefusal

\* Every entry is the one of its pack.
LEMMA EnabledEntries ==
  ASSUME NEW selection, NEW features, Suite!SelectionOk(selection, features)
  PROVE  /\ DOMAIN Suite!Enabled(selection) = {selection[i].pack : i \in DOMAIN selection}
         /\ \A i \in DOMAIN selection : Suite!Enabled(selection)[selection[i].pack] = selection[i]
<1>1. \A i, j \in DOMAIN selection : selection[i].pack = selection[j].pack => i = j
  BY DEF Suite!SelectionOk, Suite!Distinct
<1>2. DOMAIN Suite!Enabled(selection) = {selection[i].pack : i \in DOMAIN selection}
  BY DEF Suite!Enabled
<1>3. ASSUME NEW i \in DOMAIN selection
      PROVE  Suite!Enabled(selection)[selection[i].pack] = selection[i]
  <2>1. (CHOOSE j \in DOMAIN selection : selection[j].pack = selection[i].pack) = i
    BY <1>1
  <2> QED BY <2>1 DEF Suite!Enabled
<1> QED BY <1>2, <1>3

\* The checks of a selection, and those of the packs it enables.
ChecksOf(selection) == UNION {Suite!ToSet(selection[i].checks) : i \in DOMAIN selection}

LEMMA KnownPacks ==
  /\ DOMAIN Suite!KnownChecks = {"host", "storage", "labelwatch"}
  /\ Suite!KnownChecks["host"] = Suite!HostChecks
  /\ Suite!KnownChecks["storage"] = Suite!StorageChecks
  /\ Suite!KnownChecks["labelwatch"] = Suite!LabelwatchChecks
BY DEF Suite!KnownChecks

\* A check belongs to one pack.
LEMMA CheckOfOnePack ==
  ASSUME NEW p \in DOMAIN Suite!KnownChecks, NEW q \in DOMAIN Suite!KnownChecks,
         NEW check \in Suite!KnownChecks[p], check \in Suite!KnownChecks[q]
  PROVE  p = q
BY KnownPacks DEF Suite!HostChecks, Suite!StorageChecks, Suite!LabelwatchChecks

LEMMA EntriesKnown ==
  ASSUME NEW selection, NEW features, Suite!SelectionOk(selection, features),
         NEW i \in DOMAIN selection
  PROVE  /\ selection[i].pack \in DOMAIN Suite!KnownChecks
         /\ Suite!ToSet(selection[i].checks) \subseteq Suite!KnownChecks[selection[i].pack]
         /\ selection[i].pack = "host" => Suite!ToSet(selection[i].checks) = Suite!HostChecks
         /\ selection[i].pack = "storage" =>
              Suite!StorageConfigOk(selection[i].config, Suite!ToSet(selection[i].checks))
         /\ selection[i].pack = "labelwatch" =>
              Suite!LabelwatchConfigOk(selection[i].config, Suite!ToSet(selection[i].checks))
<1>1. Suite!EntryOk(selection[i], features)
  BY DEF Suite!SelectionOk
<1>2. /\ selection[i].pack \in DOMAIN Suite!KnownChecks
      /\ Suite!ToSet(selection[i].checks) \subseteq Suite!KnownChecks[selection[i].pack]
      /\ Suite!PackConfigOk(selection[i].pack, selection[i].config, Suite!ToSet(selection[i].checks))
  BY <1>1 DEF Suite!EntryOk, Suite!Registry
<1>3. ASSUME NEW pack, NEW config, NEW checks, Suite!PackConfigOk(pack, config, checks)
      PROVE  /\ pack = "host" => checks = Suite!HostChecks
             /\ pack = "storage" => Suite!StorageConfigOk(config, checks)
             /\ pack = "labelwatch" => Suite!LabelwatchConfigOk(config, checks)
  BY <1>3 DEF Suite!PackConfigOk
<1> QED BY <1>2, <1>3

LEMMA ChecksOfPacks ==
  ASSUME NEW selection, NEW features, Suite!SelectionOk(selection, features),
         NEW p \in DOMAIN Suite!KnownChecks, NEW check \in Suite!KnownChecks[p]
  PROVE  check \in ChecksOf(selection) <=>
           /\ p \in DOMAIN Suite!Enabled(selection)
           /\ check \in Suite!ToSet(Suite!Enabled(selection)[p].checks)
<1> DEFINE E == Suite!Enabled(selection)
<1>1. /\ DOMAIN E = {selection[i].pack : i \in DOMAIN selection}
      /\ \A i \in DOMAIN selection : E[selection[i].pack] = selection[i]
  BY EnabledEntries
<1> HIDE DEF E
<1>2. ASSUME NEW i \in DOMAIN selection, check \in Suite!ToSet(selection[i].checks)
      PROVE  selection[i].pack = p
  <2>1. /\ selection[i].pack \in DOMAIN Suite!KnownChecks
        /\ check \in Suite!KnownChecks[selection[i].pack]
    BY <1>2, EntriesKnown
  <2> QED BY <2>1, CheckOfOnePack
<1>3. ASSUME check \in ChecksOf(selection)
      PROVE  p \in DOMAIN E /\ check \in Suite!ToSet(E[p].checks)
  <2>1. PICK i \in DOMAIN selection : check \in Suite!ToSet(selection[i].checks)
    BY <1>3 DEF ChecksOf
  <2> QED BY <1>1, <1>2, <2>1
<1>4. ASSUME p \in DOMAIN E, check \in Suite!ToSet(E[p].checks)
      PROVE  check \in ChecksOf(selection)
  <2>1. PICK i \in DOMAIN selection : selection[i].pack = p
    BY <1>1, <1>4
  <2>2. check \in Suite!ToSet(selection[i].checks)
    BY <1>1, <1>4, <2>1
  <2> QED BY <2>2 DEF ChecksOf
<1> QED BY <1>3, <1>4 DEF E

\* The fields of a plan.
LEMMA PlanFields ==
  ASSUME NEW s, Suite!Refusal(s) = Nothing
  PROVE  /\ Suite!Plan(s).of = s /\ Suite!Plan(s).refused = Nothing /\ Suite!Plan(s).mode = s.mode
         /\ s.packs # Nothing =>
              Suite!Plan(s).enabled = [p \in DOMAIN Suite!Enabled(s.packs) |->
                                         Suite!ToSet(Suite!Enabled(s.packs)[p].checks)]
         /\ s.mode = "monitor_only" => Suite!Plan(s).publisher = Nothing
         /\ s.mode # "monitor_only" /\ s.packs # Nothing =>
              Suite!Plan(s).publisher = Suite!PublisherPlan(s.publisher, Suite!Enabled(s.packs))
         /\ s.mode = "full" => Suite!Plan(s).aggregator = s.aggregator /\ Suite!Plan(s).source = s.source
<1> DEFINE E == IF s.packs = Nothing THEN <<>> ELSE Suite!Enabled(s.packs)
<1>1. Suite!Plan(s) =
        [of |-> s, refused |-> Nothing, mode |-> s.mode,
         enabled |-> [p \in DOMAIN E |-> Suite!ToSet(E[p].checks)],
         publisher |-> IF s.mode = "monitor_only" THEN Nothing ELSE Suite!PublisherPlan(s.publisher, E),
         aggregator |-> IF s.mode = "publisher_only" THEN Nothing ELSE s.aggregator,
         source |-> IF s.mode = "full" THEN s.source ELSE Nothing]
  BY Zenon DEF Suite!Plan
<1>2. s.packs # Nothing => E = Suite!Enabled(s.packs)
  OBVIOUS
<1> HIDE DEF E
<1>3. /\ Suite!Plan(s).of = s /\ Suite!Plan(s).refused = Nothing /\ Suite!Plan(s).mode = s.mode
      /\ Suite!Plan(s).enabled = [p \in DOMAIN E |-> Suite!ToSet(E[p].checks)]
      /\ Suite!Plan(s).publisher = IF s.mode = "monitor_only" THEN Nothing ELSE Suite!PublisherPlan(s.publisher, E)
      /\ s.mode = "full" => Suite!Plan(s).aggregator = s.aggregator /\ Suite!Plan(s).source = s.source
  BY <1>1
<1> QED BY <1>2, <1>3

LEMMA PublisherFields ==
  ASSUME NEW endpoint, NEW E
  PROVE  LET p == Suite!PublisherPlan(endpoint, E) IN
         /\ p.bind = endpoint.bind /\ p.url = endpoint.url
         /\ p.host <=> "host" \in DOMAIN E
         /\ p.databases = Suite!Labelwatch(E, "databases")
         /\ p.services = [i \in DOMAIN Suite!Labelwatch(E, "services") |->
                            Suite!ServiceTarget(Suite!Labelwatch(E, "services")[i])]
         /\ p.logs = Suite!Labelwatch(E, "logs") /\ p.metrics = Suite!Labelwatch(E, "metrics")
         /\ p.witnesses = IF "storage" \in DOMAIN E THEN E["storage"].config ELSE <<>>
<1> DEFINE services == [i \in DOMAIN Suite!Labelwatch(E, "services") |->
                          Suite!ServiceTarget(Suite!Labelwatch(E, "services")[i])]
           witnesses == IF "storage" \in DOMAIN E THEN E["storage"].config ELSE <<>>
           host == "host" \in DOMAIN E
           p == Suite!PublisherPlan(endpoint, E)
<1>1. p = [bind |-> endpoint.bind, url |-> endpoint.url, host |-> host,
           databases |-> Suite!Labelwatch(E, "databases"), services |-> services,
           logs |-> Suite!Labelwatch(E, "logs"), metrics |-> Suite!Labelwatch(E, "metrics"),
           witnesses |-> witnesses]
  BY Zenon DEF Suite!PublisherPlan
<1> HIDE DEF services, witnesses, p, host
<1>2. /\ p.bind = endpoint.bind /\ p.url = endpoint.url /\ p.host = host
      /\ p.databases = Suite!Labelwatch(E, "databases") /\ p.services = services
      /\ p.logs = Suite!Labelwatch(E, "logs") /\ p.metrics = Suite!Labelwatch(E, "metrics")
      /\ p.witnesses = witnesses
  BY <1>1
<1>3. p.host <=> "host" \in DOMAIN E
  BY <1>2, Zenon DEF host
<1> QED BY <1>2, <1>3, Zenon DEF services, witnesses, p

\* The settings of an enabled pack are those of its entry, which its pack accepts.
LEMMA EnabledConfigs ==
  ASSUME NEW selection, NEW features, Suite!SelectionOk(selection, features),
         NEW p \in DOMAIN Suite!Enabled(selection)
  PROVE  LET e == Suite!Enabled(selection)[p] IN
         /\ \E i \in DOMAIN selection : e = selection[i]
         /\ e.pack = p
         /\ p \in DOMAIN Suite!KnownChecks
         /\ Suite!ToSet(e.checks) \subseteq Suite!KnownChecks[p]
         /\ p = "host" => Suite!ToSet(e.checks) = Suite!HostChecks
         /\ p = "storage" => Suite!StorageConfigOk(e.config, Suite!ToSet(e.checks))
         /\ p = "labelwatch" => Suite!LabelwatchConfigOk(e.config, Suite!ToSet(e.checks))
<1>1. /\ p \in {selection[i].pack : i \in DOMAIN selection}
      /\ \A i \in DOMAIN selection : Suite!Enabled(selection)[selection[i].pack] = selection[i]
  BY EnabledEntries
<1>2. PICK i \in DOMAIN selection : selection[i].pack = p
  BY <1>1
<1>3. Suite!Enabled(selection)[p] = selection[i]
  BY <1>1, <1>2
<1> QED BY <1>2, <1>3, EntriesKnown

\* The lists of the labelwatch pack.
Lists == {"services", "databases", "logs", "metrics"}
CheckOf == [services |-> "labelwatch.service_state", databases |-> "labelwatch.sqlite_state",
            logs |-> "labelwatch.log_signal", metrics |-> "labelwatch.metric_signal"]

LEMMA ListsSelected ==
  ASSUME NEW selection, NEW features, Suite!SelectionOk(selection, features), NEW field \in Lists
  PROVE  Suite!Labelwatch(Suite!Enabled(selection), field) # <<>> <=>
           CheckOf[field] \in ChecksOf(selection)
<1> DEFINE E == Suite!Enabled(selection)
<1>1. CheckOf[field] \in Suite!KnownChecks["labelwatch"] /\ "labelwatch" \in DOMAIN Suite!KnownChecks
  BY KnownPacks DEF Lists, CheckOf, Suite!LabelwatchChecks
<1>2. CheckOf[field] \in ChecksOf(selection) <=>
        "labelwatch" \in DOMAIN E /\ CheckOf[field] \in Suite!ToSet(E["labelwatch"].checks)
  BY <1>1, ChecksOfPacks
<1>3. CASE "labelwatch" \notin DOMAIN E
  BY <1>2, <1>3 DEF Suite!Labelwatch
<1>4. CASE "labelwatch" \in DOMAIN E
  <2>1. Suite!LabelwatchConfigOk(E["labelwatch"].config, Suite!ToSet(E["labelwatch"].checks))
    BY <1>4, EnabledConfigs
  <2>2. Suite!Labelwatch(E, field) = E["labelwatch"].config[field]
    BY <1>4 DEF Suite!Labelwatch
  <2> HIDE DEF E
  <2>3. E["labelwatch"].config[field] # <<>> <=> CheckOf[field] \in Suite!ToSet(E["labelwatch"].checks)
    BY <2>1 DEF Suite!LabelwatchConfigOk, Lists, CheckOf
  <2> QED BY <1>2, <1>4, <2>2, <2>3 DEF E
<1> QED BY <1>3, <1>4

\* Lists of the document are lists.
LEMMA ListsAreLists ==
  ASSUME NEW s \in Suites, s.packs # Nothing, Suite!SelectionOk(s.packs, s.features), NEW field \in Lists
  PROVE  Suite!IsList(Suite!Labelwatch(Suite!Enabled(s.packs), field))
<1> DEFINE E == Suite!Enabled(s.packs)
<1>1. CASE "labelwatch" \notin DOMAIN E
  <2>1. Suite!Labelwatch(E, field) = <<>>
    BY <1>1 DEF Suite!Labelwatch
  <2> QED BY <2>1 DEF Suite!IsList
<1>2. CASE "labelwatch" \in DOMAIN E
  <2>1. PICK i \in DOMAIN s.packs : E["labelwatch"] = s.packs[i] /\ s.packs[i].pack = "labelwatch"
    BY <1>2, EnabledConfigs
  <2>2. Suite!EntryShape(s.packs[i])
    BY SuiteAssumption DEF Suite!AssemblyAssumption, Suite!SuiteShape
  <2>3. Suite!Labelwatch(E, field) = s.packs[i].config[field]
    BY <1>2, <2>1 DEF Suite!Labelwatch
  <2>4. Suite!IsList(s.packs[i].config[field])
    BY <2>1, <2>2 DEF Suite!EntryShape, Lists
  <2> QED BY <2>3, <2>4
<1> QED BY <1>1, <1>2

LEMMA OnlySelected ==
  ASSUME NEW s \in Suites, Suite!Refusal(s) = Nothing, planned = Suite!Plan(s)
  PROVE  Suite!OnlySelectedIsPlanned
<1> SUFFICES ASSUME planned.publisher # Nothing
             PROVE  LET p == planned.publisher
                        checks == UNION {planned.enabled[k] : k \in DOMAIN planned.enabled}
                    IN /\ checks = ChecksOf(planned.of.packs)
                       /\ p.host <=> "host.resources" \in checks
                       /\ p.services # <<>> <=> "labelwatch.service_state" \in checks
                       /\ p.databases # <<>> <=> "labelwatch.sqlite_state" \in checks
                       /\ p.logs # <<>> <=> "labelwatch.log_signal" \in checks
                       /\ p.metrics # <<>> <=> "labelwatch.metric_signal" \in checks
                       /\ DOMAIN p.witnesses = checks \cap Suite!StorageChecks
  BY Zenon DEF Suite!OnlySelectedIsPlanned, ChecksOf
<1>1. s.mode # "monitor_only" /\ s.packs # Nothing
  BY NotRefused, PlanFields
<1>2. Suite!SelectionOk(s.packs, s.features)
  BY <1>1, NotRefused, SelectionAccepted DEF Selection
<1> DEFINE E == Suite!Enabled(s.packs)
           p == planned.publisher
           checks == ChecksOf(s.packs)
<1>3. /\ planned.of = s
      /\ planned.enabled = [k \in DOMAIN E |-> Suite!ToSet(E[k].checks)]
      /\ p = Suite!PublisherPlan(s.publisher, E)
  BY <1>1, PlanFields
<1>4. /\ DOMAIN E = {s.packs[i].pack : i \in DOMAIN s.packs}
      /\ \A i \in DOMAIN s.packs : E[s.packs[i].pack] = s.packs[i]
  BY <1>2, EnabledEntries
<1>5. UNION {planned.enabled[k] : k \in DOMAIN planned.enabled} = checks
  <2> HIDE DEF E
  <2>1. DOMAIN planned.enabled = DOMAIN E /\ \A k \in DOMAIN E : planned.enabled[k] = Suite!ToSet(E[k].checks)
    BY <1>3
  <2> QED BY <1>4, <2>1 DEF ChecksOf
<1>6. /\ p.host <=> "host" \in DOMAIN E
      /\ p.databases = Suite!Labelwatch(E, "databases")
      /\ p.services = [i \in DOMAIN Suite!Labelwatch(E, "services") |->
                         Suite!ServiceTarget(Suite!Labelwatch(E, "services")[i])]
      /\ p.logs = Suite!Labelwatch(E, "logs") /\ p.metrics = Suite!Labelwatch(E, "metrics")
      /\ p.witnesses = IF "storage" \in DOMAIN E THEN E["storage"].config ELSE <<>>
  <2> HIDE DEF E, p
  <2> QED BY <1>3, PublisherFields
<1>7. p.host <=> "host.resources" \in checks
  <2>1. "host.resources" \in Suite!KnownChecks["host"] /\ "host" \in DOMAIN Suite!KnownChecks
    BY KnownPacks DEF Suite!HostChecks
  <2>2. "host.resources" \in checks <=>
          "host" \in DOMAIN E /\ "host.resources" \in Suite!ToSet(E["host"].checks)
    BY <1>2, <2>1, ChecksOfPacks
  <2>3. "host" \in DOMAIN E => Suite!ToSet(E["host"].checks) = Suite!HostChecks
    BY <1>2, EnabledConfigs
  <2>4. "host.resources" \in Suite!HostChecks
    BY DEF Suite!HostChecks
  <2> QED BY <1>6, <2>2, <2>3, <2>4, Zenon
<1>8. ASSUME NEW field \in Lists
      PROVE  Suite!Labelwatch(E, field) # <<>> <=> CheckOf[field] \in checks
  BY <1>2, ListsSelected
<1>9. /\ p.databases # <<>> <=> "labelwatch.sqlite_state" \in checks
      /\ p.logs # <<>> <=> "labelwatch.log_signal" \in checks
      /\ p.metrics # <<>> <=> "labelwatch.metric_signal" \in checks
      /\ Suite!Labelwatch(E, "services") # <<>> <=> "labelwatch.service_state" \in checks
  <2> HIDE DEF checks, E
  <2> QED BY <1>6, <1>8 DEF Lists, CheckOf
<1>10. p.services # <<>> <=> Suite!Labelwatch(E, "services") # <<>>
  <2> DEFINE list == Suite!Labelwatch(E, "services")
  <2>1. Suite!IsList(list)
    BY <1>1, <1>2, ListsAreLists DEF Lists
  <2>2. p.services = [i \in DOMAIN list |-> Suite!ServiceTarget(list[i])]
    BY <1>6
  <2> HIDE DEF list
  <2>3. list \in Seq({list[i] : i \in DOMAIN list})
    BY <2>1 DEF Suite!IsList
  <2>4. list # <<>> <=> DOMAIN list # {}
    BY <2>3
  <2>5. p.services # <<>> <=> DOMAIN list # {}
    BY <2>2, <2>4
  <2> QED BY <2>4, <2>5 DEF list
<1>11. DOMAIN p.witnesses = checks \cap Suite!StorageChecks
  <2>1. \A check \in Suite!StorageChecks :
          check \in checks <=> "storage" \in DOMAIN E /\ check \in Suite!ToSet(E["storage"].checks)
    BY <1>2, ChecksOfPacks, KnownPacks
  <2>2. CASE "storage" \in DOMAIN E
    <3>1. /\ DOMAIN E["storage"].config = Suite!ToSet(E["storage"].checks)
          /\ Suite!ToSet(E["storage"].checks) \subseteq Suite!StorageChecks
      BY <1>2, <2>2, EnabledConfigs, KnownPacks DEF Suite!StorageConfigOk
    <3> QED BY <1>6, <2>1, <2>2, <3>1
  <2>3. CASE "storage" \notin DOMAIN E
    <3>1. p.witnesses = <<>> /\ DOMAIN <<>> = {}
      BY <1>6, <2>3
    <3> QED BY <2>1, <2>3, <3>1
  <2> QED BY <2>2, <2>3
<1> HIDE DEF checks, E
<1> QED BY <1>3, <1>5, <1>7, <1>9, <1>10, <1>11, Zenon DEF checks

\* Settings a pack accepts are settings the publisher accepts.
LEMMA LabelwatchStarts ==
  ASSUME NEW config, NEW checks, Suite!LabelwatchConfigOk(config, checks),
         \A i \in DOMAIN config.services :
           /\ config.services[i].adapter \in {"systemd", "docker", "pid_file"}
           /\ config.services[i].target # Nothing,
         \A i \in DOMAIN config.logs : config.logs[i].adapter \in {"journald", "file"},
         \A i \in DOMAIN config.metrics : ~config.metrics[i].url.fragment
  PROVE  /\ \A i \in DOMAIN config.databases : Suite!NonEmpty(config.databases[i])
         /\ Suite!Distinct(config.databases, LAMBDA d : d)
         /\ \A i \in DOMAIN config.services : Suite!ServiceOk(Suite!ServiceTarget(config.services[i]))
         /\ \A i, j \in DOMAIN config.services :
              Suite!ServiceTarget(config.services[i]).name = Suite!ServiceTarget(config.services[j]).name => i = j
         /\ \A i \in DOMAIN config.metrics :
              /\ Suite!Identity(config.metrics[i].name)
              /\ Suite!UrlOk(config.metrics[i].url, TRUE)
              /\ config.metrics[i].timeout > 0
         /\ Suite!Distinct(config.metrics, LAMBDA m : m.name)
         /\ \A i \in DOMAIN config.logs : Suite!LogOk(config.logs[i])
         /\ Suite!Distinct(config.logs, LAMBDA l : l.id)
<1>1. /\ \A i \in DOMAIN config.databases : Suite!NonEmpty(config.databases[i])
      /\ Suite!Distinct(config.databases, LAMBDA d : d)
  BY DEF Suite!LabelwatchConfigOk, Suite!AbsolutePath, Suite!NonEmpty
<1>2. ASSUME NEW i \in DOMAIN config.services
      PROVE  /\ Suite!ServiceOk(Suite!ServiceTarget(config.services[i]))
             /\ Suite!ServiceTarget(config.services[i]).name = config.services[i].name
  <2> DEFINE s == config.services[i]
             t == Suite!ServiceTarget(s)
  <2>1. /\ t.name = s.name /\ t.type = s.adapter
        /\ t.unit = IF s.adapter = "pid_file" THEN Nothing ELSE s.target
        /\ t.pidFile = IF s.adapter = "pid_file" THEN s.target ELSE Nothing
    BY DEF Suite!ServiceTarget
  <2>2. /\ Suite!Identity(s.name)
        /\ IF s.adapter = "pid_file" THEN Suite!AbsolutePath(s.target) ELSE Suite!Identity(s.target)
        /\ s.adapter \in {"systemd", "docker", "pid_file"} /\ s.target # Nothing
    BY DEF Suite!LabelwatchConfigOk
  <2> HIDE DEF s, t
  <2>3. Suite!ServiceOk(t)
    BY <2>1, <2>2 DEF Suite!ServiceOk, Suite!Identity, Suite!AbsolutePath, Suite!NonEmpty
  <2> QED BY <2>1, <2>3 DEF s, t
<1>3. \A i, j \in DOMAIN config.services :
        Suite!ServiceTarget(config.services[i]).name = Suite!ServiceTarget(config.services[j]).name => i = j
  BY <1>2 DEF Suite!LabelwatchConfigOk, Suite!Distinct
<1>4. /\ \A i \in DOMAIN config.metrics :
           /\ Suite!Identity(config.metrics[i].name)
           /\ Suite!UrlOk(config.metrics[i].url, TRUE)
           /\ config.metrics[i].timeout > 0
      /\ Suite!Distinct(config.metrics, LAMBDA m : m.name)
  BY DEF Suite!LabelwatchConfigOk, Suite!PackUrlOk, Suite!UrlOk, Suite!PackHostOk, Suite!HostnameOk
<1>5. /\ \A i \in DOMAIN config.logs : Suite!LogOk(config.logs[i])
      /\ Suite!Distinct(config.logs, LAMBDA l : l.id)
  BY DEF Suite!LabelwatchConfigOk, Suite!LogOk
<1> QED BY <1>1, <1>2, <1>3, <1>4, <1>5

LEMMA HelpersStart ==
  ASSUME NEW config, NEW checks, Suite!StorageConfigOk(config, checks), NEW check \in DOMAIN config
  PROVE  Suite!WitnessOk(config[check])
<1> DEFINE w == config[check]
<1>1. Suite!HelperOk(check, w)
  BY DEF Suite!StorageConfigOk
<1> HIDE DEF w
<1>2. Suite!NonEmpty(w.path) /\ w.timeout > 0
  BY <1>1 DEF Suite!HelperOk, Suite!ExecutableOk, Suite!NonEmpty
<1>3. \A i \in DOMAIN w.wrapper : Suite!NonEmpty(w.wrapper[i])
  BY <1>1 DEF Suite!HelperOk, Suite!Identity, Suite!NonEmpty
<1> QED BY <1>2, <1>3 DEF Suite!WitnessOk, w

LEMMA WouldStart ==
  ASSUME NEW s \in Suites, Suite!Refusal(s) = Nothing, planned = Suite!Plan(s)
  PROVE  Suite!PlannedWouldStart
<1> SUFFICES ASSUME planned.publisher # Nothing, planned.publisher.bind.host # "long",
                    \A i \in DOMAIN planned.publisher.metrics : ~planned.publisher.metrics[i].url.fragment
             PROVE  Suite!PublisherOk(planned.publisher)
  BY Zenon DEF Suite!PlannedWouldStart
<1>1. s.mode # "monitor_only" /\ s.packs # Nothing
  BY NotRefused, PlanFields
<1>2. Suite!SelectionOk(s.packs, s.features)
  BY <1>1, NotRefused, SelectionAccepted DEF Selection
<1> DEFINE E == Suite!Enabled(s.packs)
           p == planned.publisher
<1>3. p = Suite!PublisherPlan(s.publisher, E)
  BY <1>1, PlanFields
<1>4. /\ p.bind = s.publisher.bind
      /\ p.databases = Suite!Labelwatch(E, "databases")
      /\ p.services = [i \in DOMAIN Suite!Labelwatch(E, "services") |->
                         Suite!ServiceTarget(Suite!Labelwatch(E, "services")[i])]
      /\ p.logs = Suite!Labelwatch(E, "logs") /\ p.metrics = Suite!Labelwatch(E, "metrics")
      /\ p.witnesses = IF "storage" \in DOMAIN E THEN E["storage"].config ELSE <<>>
  <2> HIDE DEF E, p
  <2> QED BY <1>3, PublisherFields
<1>5. Suite!SocketAddrOk(p.bind)
  <2>1. Suite!SuiteAddrOk(s.publisher.bind)
    BY <1>1, NotRefused
  <2>2. p.bind.host # "long"
    OBVIOUS
  <2> HIDE DEF p
  <2> QED BY <1>4, <2>1, <2>2 DEF Suite!SuiteAddrOk, Suite!SocketAddrOk, Suite!SuiteHostOk, Suite!HostnameOk
<1>6. \A check \in DOMAIN p.witnesses : Suite!WitnessOk(p.witnesses[check])
  <2>1. CASE "storage" \in DOMAIN E
    <3>1. Suite!StorageConfigOk(E["storage"].config, Suite!ToSet(E["storage"].checks))
      BY <1>2, <2>1, EnabledConfigs
    <3>2. p.witnesses = E["storage"].config
      BY <1>4, <2>1
    <3> HIDE DEF E, p
    <3> QED BY <3>1, <3>2, HelpersStart
  <2>2. CASE "storage" \notin DOMAIN E
    <3>1. p.witnesses = <<>>
      BY <1>4, <2>2
    <3> QED BY <3>1
  <2> QED BY <2>1, <2>2
<1>7. /\ \A i \in DOMAIN p.databases : Suite!NonEmpty(p.databases[i])
      /\ Suite!Distinct(p.databases, LAMBDA d : d)
      /\ \A i \in DOMAIN p.services : Suite!ServiceOk(p.services[i])
      /\ Suite!Distinct(p.services, LAMBDA x : x.name)
      /\ \A i \in DOMAIN p.metrics :
           /\ Suite!Identity(p.metrics[i].name)
           /\ Suite!UrlOk(p.metrics[i].url, TRUE)
           /\ p.metrics[i].timeout > 0
      /\ Suite!Distinct(p.metrics, LAMBDA m : m.name)
      /\ \A i \in DOMAIN p.logs : Suite!LogOk(p.logs[i])
      /\ Suite!Distinct(p.logs, LAMBDA l : l.id)
  <2>1. CASE "labelwatch" \in DOMAIN E
    <3> DEFINE config == E["labelwatch"].config
    <3>1. Suite!LabelwatchConfigOk(config, Suite!ToSet(E["labelwatch"].checks))
      BY <1>2, <2>1, EnabledConfigs
    <3>2. PICK i \in DOMAIN s.packs : E["labelwatch"] = s.packs[i] /\ s.packs[i].pack = "labelwatch"
      BY <1>2, <2>1, EnabledConfigs
    <3>3. Suite!EntryShape(s.packs[i])
      BY <1>1, SuiteAssumption DEF Suite!AssemblyAssumption, Suite!SuiteShape
    <3> HIDE DEF E
    <3>4. /\ \A k \in DOMAIN config.services :
               /\ config.services[k].adapter \in {"systemd", "docker", "pid_file"}
               /\ config.services[k].target # Nothing
          /\ \A k \in DOMAIN config.logs : config.logs[k].adapter \in {"journald", "file"}
      BY <3>2, <3>3 DEF Suite!EntryShape
    <3>5. /\ p.databases = config.databases /\ p.logs = config.logs /\ p.metrics = config.metrics
          /\ p.services = [k \in DOMAIN config.services |-> Suite!ServiceTarget(config.services[k])]
      BY <1>4, <2>1 DEF Suite!Labelwatch
    <3>6. \A k \in DOMAIN config.metrics : ~config.metrics[k].url.fragment
      BY <3>5
    <3> HIDE DEF config, p
    <3>7. /\ \A k \in DOMAIN config.databases : Suite!NonEmpty(config.databases[k])
          /\ Suite!Distinct(config.databases, LAMBDA d : d)
          /\ \A k \in DOMAIN config.services : Suite!ServiceOk(Suite!ServiceTarget(config.services[k]))
          /\ \A k, j \in DOMAIN config.services :
               Suite!ServiceTarget(config.services[k]).name = Suite!ServiceTarget(config.services[j]).name => k = j
          /\ \A k \in DOMAIN config.metrics :
               /\ Suite!Identity(config.metrics[k].name)
               /\ Suite!UrlOk(config.metrics[k].url, TRUE)
               /\ config.metrics[k].timeout > 0
          /\ Suite!Distinct(config.metrics, LAMBDA m : m.name)
          /\ \A k \in DOMAIN config.logs : Suite!LogOk(config.logs[k])
          /\ Suite!Distinct(config.logs, LAMBDA l : l.id)
      BY <3>1, <3>4, <3>6, LabelwatchStarts
    <3>8. Suite!Distinct(p.services, LAMBDA x : x.name) /\ \A k \in DOMAIN p.services : Suite!ServiceOk(p.services[k])
      BY <3>5, <3>7 DEF Suite!Distinct
    <3>9. /\ \A k \in DOMAIN p.databases : Suite!NonEmpty(p.databases[k])
          /\ Suite!Distinct(p.databases, LAMBDA d : d)
      BY <3>5, <3>7 DEF Suite!Distinct
    <3>10. /\ \A k \in DOMAIN p.metrics :
                /\ Suite!Identity(p.metrics[k].name)
                /\ Suite!UrlOk(p.metrics[k].url, TRUE)
                /\ p.metrics[k].timeout > 0
           /\ Suite!Distinct(p.metrics, LAMBDA m : m.name)
      BY <3>5, <3>7 DEF Suite!Distinct
    <3>11. /\ \A k \in DOMAIN p.logs : Suite!LogOk(p.logs[k])
           /\ Suite!Distinct(p.logs, LAMBDA l : l.id)
      BY <3>5, <3>7 DEF Suite!Distinct
    <3> QED BY <3>8, <3>9, <3>10, <3>11, Zenon
  <2>2. CASE "labelwatch" \notin DOMAIN E
    <3>1. /\ DOMAIN p.databases = {} /\ DOMAIN p.logs = {} /\ DOMAIN p.metrics = {} /\ DOMAIN p.services = {}
      BY <1>4, <2>2 DEF Suite!Labelwatch
    <3> HIDE DEF p
    <3> QED BY <3>1 DEF Suite!Distinct
  <2> QED BY <2>1, <2>2
<1> HIDE DEF E, p
<1>8. Suite!PublisherOk(p)
  BY <1>5, <1>6, <1>7, Zenon DEF Suite!PublisherOk
<1> QED BY <1>8 DEF p

LEMMA Polled ==
  ASSUME NEW s \in Suites, Suite!Refusal(s) = Nothing, planned = Suite!Plan(s)
  PROVE  Suite!PublisherIsPolled
<1> DEFINE list == s.aggregator.sources
           of == {i \in DOMAIN list : list[i].name = s.source}
           polled == {i \in DOMAIN planned.aggregator.sources :
                        planned.aggregator.sources[i].name = planned.source}
<1> SUFFICES ASSUME planned.mode = "full"
             PROVE  /\ Suite!Cardinality(polled) = 1
                    /\ \A i \in polled :
                         /\ Suite!SameBase(planned.aggregator.sources[i].url, planned.publisher.url)
                         /\ Suite!UrlOk(planned.publisher.url, FALSE)
  BY Zenon DEF Suite!PublisherIsPolled
<1>1. s.mode = "full" /\ planned.aggregator = s.aggregator /\ planned.source = s.source
  BY PlanFields
<1>2. s.packs # Nothing /\ planned.publisher = Suite!PublisherPlan(s.publisher, Suite!Enabled(s.packs))
  BY <1>1, NotRefused, PlanFields
<1>3. planned.publisher.url = s.publisher.url
  <2>1. ASSUME NEW E PROVE Suite!PublisherPlan(s.publisher, E).url = s.publisher.url
    BY PublisherFields
  <2> QED BY <1>2, <2>1
<1>4. /\ Suite!ConfigOk(s.aggregator)
      /\ \E i \in DOMAIN list : list[i].name = s.source /\ Suite!SameBase(list[i].url, s.publisher.url)
  <2>1. Suite!RuntimeRefusal(s) = Nothing
    BY NotRefused
  <2>2. Nothing # "aggregator_unavailable" /\ Nothing # "aggregator" /\ Nothing # "publisher_source"
    BY SuiteAssumption DEF Suite!AssemblyAssumption
  <2> QED BY <1>1, <2>1, <2>2 DEF Suite!RuntimeRefusal, Suite!Polled
<1>5. /\ \A i, j \in DOMAIN list : list[i].name = list[j].name => i = j
      /\ \A i \in DOMAIN list : Suite!UrlOk(list[i].url, FALSE)
  BY <1>4 DEF Suite!ConfigOk, Suite!Distinct
<1>6. PICK i \in DOMAIN list : list[i].name = s.source /\ Suite!SameBase(list[i].url, s.publisher.url)
  BY <1>4
<1>7. of = {i}
  BY <1>5, <1>6
<1>8. Suite!Cardinality(of) = 1
  <2>1. Suite!Cardinality(of) = Cardinality(of)
    BY Zenon DEF Suite!Cardinality, Cardinality
  <2> QED BY <1>7, <2>1, FS_Singleton
<1>9. Suite!UrlOk(s.publisher.url, FALSE)
  <2>1. Suite!UrlShape(list[i].url) /\ Suite!UrlShape(s.publisher.url)
    BY <1>1, SuiteAssumption DEF Suite!AssemblyAssumption, Suite!SuiteShape
  <2> DEFINE u == list[i].url
             v == s.publisher.url
  <2>2. [u EXCEPT !.slashes = 0] = [v EXCEPT !.slashes = 0]
    BY <1>6 DEF Suite!SameBase
  <2>3. Suite!UrlOk(u, FALSE)
    BY <1>5
  <2>4. Suite!UrlShape(u) /\ Suite!UrlShape(v)
    BY <2>1
  <2> HIDE DEF u, v
  <2>5. \A f \in {"scheme", "host", "port", "query", "fragment"} : u[f] = v[f]
    <3>1. SUFFICES ASSUME NEW f \in {"scheme", "host", "port", "query", "fragment"} PROVE u[f] = v[f]
      OBVIOUS
    <3>2. [u EXCEPT !.slashes = 0][f] = u[f] /\ [v EXCEPT !.slashes = 0][f] = v[f]
      BY <2>4 DEF Suite!UrlShape
    <3> QED BY <2>2, <3>2
  <2>6. u.scheme = v.scheme /\ u.host = v.host /\ u.port = v.port /\ u.query = v.query /\ u.fragment = v.fragment
    BY <2>5
  <2> QED BY <2>3, <2>6 DEF Suite!UrlOk, v
<1> QED BY <1>1, <1>3, <1>6, <1>7, <1>8, <1>9

\* The entries of a selection in another order: the same packs are enabled.
LEMMA Reordered ==
  ASSUME NEW list, Suite!IsList(list), NEW features, Suite!SelectionOk(list, features)
  PROVE  LET back == Suite!Reverse(list) IN
         /\ {back[i].pack : i \in DOMAIN back} = {list[i].pack : i \in DOMAIN list}
         /\ Suite!SelectionOk(back, features)
         /\ Suite!Enabled(back) = Suite!Enabled(list)
<1> DEFINE back == Suite!Reverse(list)
           n == Len(list)
<1>1. n \in Nat /\ DOMAIN list = 1 .. n
  BY DEF Suite!IsList
<1>2. DOMAIN back = 1 .. n /\ \A i \in 1 .. n : back[i] = list[(n - i) + 1]
  BY <1>1 DEF Suite!Reverse
<1> HIDE DEF back, n
<1>3. /\ \A i \in 1 .. n : (n - i) + 1 \in 1 .. n /\ (n - ((n - i) + 1)) + 1 = i
  BY <1>1
<1>4. \A i \in 1 .. n : \E j \in 1 .. n : list[i] = back[j]
  BY <1>2, <1>3
<1>5. \A i \in 1 .. n : \E j \in 1 .. n : back[i] = list[j]
  BY <1>2, <1>3
<1>6. {back[i].pack : i \in DOMAIN back} = {list[i].pack : i \in DOMAIN list}
  <2>1. DOMAIN back = DOMAIN list
    BY <1>1, <1>2
  <2>2. ASSUME NEW i \in DOMAIN list PROVE \E j \in DOMAIN back : list[i].pack = back[j].pack
    BY <1>1, <1>4, <2>1
  <2>3. ASSUME NEW i \in DOMAIN back PROVE \E j \in DOMAIN list : back[i].pack = list[j].pack
    BY <1>2, <1>5, <2>1
  <2>4. {back[i].pack : i \in DOMAIN back} \subseteq {list[i].pack : i \in DOMAIN list}
    BY <2>3
  <2>5. {list[i].pack : i \in DOMAIN list} \subseteq {back[i].pack : i \in DOMAIN back}
    BY <2>2
  <2> QED BY <2>4, <2>5
<1>7. Suite!SelectionOk(back, features)
  <2>1. \A i, j \in 1 .. n : list[i].pack = list[j].pack => i = j
    BY <1>1 DEF Suite!SelectionOk, Suite!Distinct
  <2>2. \A i \in 1 .. n : Suite!EntryOk(list[i], features)
    BY <1>1 DEF Suite!SelectionOk
  <2>3. ASSUME NEW i \in 1 .. n, NEW j \in 1 .. n, back[i].pack = back[j].pack PROVE i = j
    <3>1. (n - i) + 1 = (n - j) + 1
      BY <1>2, <1>3, <2>1, <2>3
    <3> QED BY <1>1, <3>1
  <2>4. \A i \in 1 .. n : Suite!EntryOk(back[i], features)
    BY <1>5, <2>2
  <2> QED BY <1>2, <2>3, <2>4 DEF Suite!SelectionOk, Suite!Distinct
<1>8. Suite!Enabled(back) = Suite!Enabled(list)
  <2> DEFINE E == Suite!Enabled(list)
             F == Suite!Enabled(back)
             packs == {list[i].pack : i \in DOMAIN list}
  <2>1. DOMAIN E = packs /\ \A i \in DOMAIN list : E[list[i].pack] = list[i]
    BY EnabledEntries
  <2>2. DOMAIN F = packs /\ \A i \in DOMAIN back : F[back[i].pack] = back[i]
    BY <1>6, <1>7, EnabledEntries
  <2>3. E = [p \in DOMAIN E |-> E[p]] /\ F = [p \in DOMAIN F |-> F[p]]
    BY DEF Suite!Enabled
  <2> HIDE DEF E, F
  <2>4. ASSUME NEW p \in packs PROVE E[p] = F[p]
    <3>1. PICK i \in 1 .. n : p = list[i].pack
      BY <1>1
    <3>2. PICK j \in 1 .. n : list[i] = back[j]
      BY <1>4
    <3>3. E[p] = list[i]
      BY <1>1, <2>1, <3>1
    <3>4. F[p] = back[j]
      BY <1>2, <2>2, <3>1, <3>2
    <3> QED BY <3>2, <3>3, <3>4
  <2> QED BY <2>1, <2>2, <2>3, <2>4 DEF E, F
<1> QED BY <1>6, <1>7, <1>8 DEF back

LEMMA OrderDoesNotMatter ==
  ASSUME NEW s \in Suites, Suite!Refusal(s) = Nothing, s.packs # Nothing
  PROVE  [Suite!Plan([s EXCEPT !.packs = Suite!Reverse(@)]) EXCEPT !.of = s] = Suite!Plan(s)
<1> DEFINE t == [s EXCEPT !.packs = Suite!Reverse(@)]
<1>1. /\ Suite!IsList(s.packs) /\ Suite!Reverse(s.packs) # Nothing
      /\ DOMAIN s = {"features", "versions", "mode", "publisher", "source", "aggregator", "packs"}
  BY SuiteAssumption DEF Suite!AssemblyAssumption, Suite!SuiteShape
<1>2. /\ t.features = s.features /\ t.versions = s.versions /\ t.mode = s.mode
      /\ t.publisher = s.publisher /\ t.source = s.source /\ t.aggregator = s.aggregator
      /\ t.packs = Suite!Reverse(s.packs)
  BY <1>1
<1> HIDE DEF t
<1>3. /\ s.mode # "monitor_only" /\ s.versions /\ Suite!Registers(s.features)
      /\ Suite!SuiteAddrOk(s.publisher.bind) /\ Suite!SuiteUrlOk(s.publisher.url)
      /\ Suite!SelectionRefusal(s.packs, s.features) = Nothing
      /\ Suite!RuntimeRefusal(s) = Nothing
  BY NotRefused DEF Selection
<1>4. Suite!SelectionOk(s.packs, s.features)
  BY <1>3, SelectionAccepted
<1>5. /\ {t.packs[i].pack : i \in DOMAIN t.packs} = {s.packs[i].pack : i \in DOMAIN s.packs}
      /\ Suite!SelectionOk(t.packs, s.features)
      /\ Suite!Enabled(t.packs) = Suite!Enabled(s.packs)
  <2>1. LET back == Suite!Reverse(s.packs) IN
        /\ {back[i].pack : i \in DOMAIN back} = {s.packs[i].pack : i \in DOMAIN s.packs}
        /\ Suite!SelectionOk(back, s.features)
        /\ Suite!Enabled(back) = Suite!Enabled(s.packs)
    BY <1>1, <1>4, Reordered
  <2> QED BY <1>2, <2>1, Zenon
<1>6. Suite!SelectionRefusal(t.packs, t.features) = Nothing
  <2>1. ({s.packs[i].pack : i \in DOMAIN s.packs} \ Suite!Registry(s.features))
          \cap DOMAIN Suite!KnownChecks = {}
    BY <1>3, SelectionAccepted
  <2>2. ({t.packs[i].pack : i \in DOMAIN t.packs} \ Suite!Registry(s.features))
          \cap DOMAIN Suite!KnownChecks = {}
    BY <1>5, <2>1
  <2>3. Suite!SelectionRefusal(t.packs, s.features) = Nothing
    BY <1>5, <2>2, SelectionAccepted
  <2> QED BY <1>2, <2>3
<1>7. Suite!RuntimeRefusal(t) = Nothing
  <2>1. Suite!RuntimeRefusal(t) = Suite!RuntimeRefusal(s)
    BY <1>2, Zenon DEF Suite!RuntimeRefusal, Suite!Polled
  <2> QED BY <1>3, <2>1
<1>8. Suite!Refusal(t) = Nothing
  <2>1. t.packs # Nothing /\ t.mode # "monitor_only" /\ t.versions /\ Suite!Registers(t.features)
        /\ Suite!SuiteAddrOk(t.publisher.bind) /\ Suite!SuiteUrlOk(t.publisher.url)
    BY <1>1, <1>2, <1>3
  <2>2. ((t.mode = "monitor_only") # (t.packs = Nothing)) = FALSE
    BY <2>1
  <2> QED BY <1>6, <1>7, <2>1, <2>2, Zenon DEF Suite!Refusal
<1> DEFINE E == Suite!Enabled(s.packs)
           enabled == [p \in DOMAIN E |-> Suite!ToSet(E[p].checks)]
           publisher == Suite!PublisherPlan(s.publisher, E)
           aggregator == IF s.mode = "publisher_only" THEN Nothing ELSE s.aggregator
           source == IF s.mode = "full" THEN s.source ELSE Nothing
<1>9. ASSUME NEW u, Suite!Refusal(u) = Nothing, u.packs # Nothing, u.mode # "monitor_only",
             u.mode = s.mode, u.publisher = s.publisher, u.aggregator = s.aggregator,
             u.source = s.source, Suite!Enabled(u.packs) = E
      PROVE  Suite!Plan(u) = [of |-> u, refused |-> Nothing, mode |-> s.mode, enabled |-> enabled,
                              publisher |-> publisher, aggregator |-> aggregator, source |-> source]
  <2>1. Suite!Plan(u) =
          [of |-> u, refused |-> Nothing, mode |-> u.mode,
           enabled |-> [p \in DOMAIN Suite!Enabled(u.packs) |-> Suite!ToSet(Suite!Enabled(u.packs)[p].checks)],
           publisher |-> Suite!PublisherPlan(u.publisher, Suite!Enabled(u.packs)),
           aggregator |-> IF u.mode = "publisher_only" THEN Nothing ELSE u.aggregator,
           source |-> IF u.mode = "full" THEN u.source ELSE Nothing]
    BY <1>9, Zenon DEF Suite!Plan
  <2> HIDE DEF E
  <2> QED BY <1>9, <2>1, Zenon
<1>10. Suite!Plan(s) = [of |-> s, refused |-> Nothing, mode |-> s.mode, enabled |-> enabled,
                        publisher |-> publisher, aggregator |-> aggregator, source |-> source]
  BY <1>3, <1>9
<1>11. Suite!Plan(t) = [of |-> t, refused |-> Nothing, mode |-> s.mode, enabled |-> enabled,
                        publisher |-> publisher, aggregator |-> aggregator, source |-> source]
  BY <1>1, <1>2, <1>3, <1>5, <1>8, <1>9
<1> HIDE DEF enabled, publisher, aggregator, source
<1>12. [Suite!Plan(t) EXCEPT !.of = s] = Suite!Plan(s)
  BY <1>10, <1>11
<1> QED BY <1>12 DEF t

\* What the planner last said is what it says of the document it said it of.
AssemblyInv ==
  /\ suiteFile \in Suites
  /\ planned # Nothing => \E s \in Suites : planned = Suite!Plan(s)
  /\ verdict # Nothing => (verdict.valid <=> Suite!Plan(verdict.of).refused = Nothing)
AgentAssemblyInv == part = "assembly" => AssemblyInv

LEMMA PlanTellsItsDocument ==
  ASSUME NEW s
  PROVE  /\ Suite!Plan(s).of = s
         /\ Suite!Plan(s).refused = Suite!Refusal(s)
<1>1. CASE Suite!Refusal(s) = Nothing
  BY <1>1, PlanFields
<1>2. CASE Suite!Refusal(s) # Nothing
  <2>1. Suite!Plan(s) = [of |-> s, refused |-> Suite!Refusal(s)]
    BY <1>2, Zenon DEF Suite!Plan
  <2> QED BY <2>1
<1> QED BY <1>1, <1>2

LEMMA AssemblyStep ==
  ASSUME AssemblyInv, [Suite!AssemblyNext]_assemblyVars
  PROVE  AssemblyInv'
<1>1. CASE Suite!ValidateSuite
  <2>1. verdict' = [of |-> suiteFile, valid |-> Suite!Plan(suiteFile).refused = Nothing]
        /\ UNCHANGED <<suiteFile, planned>>
    BY <1>1 DEF Suite!ValidateSuite
  <2>2. PICK valid : valid = (Suite!Plan(suiteFile).refused = Nothing)
    BY Zenon
  <2>3. verdict' = [of |-> suiteFile, valid |-> valid]
    BY <2>1, <2>2, Zenon
  <2>4. verdict'.of = suiteFile /\ verdict'.valid = valid
    BY <2>3
  <2>5. verdict'.valid <=> Suite!Plan(verdict'.of).refused = Nothing
    BY <2>2, <2>4, Zenon
  <2> QED BY <2>1, <2>5 DEF AssemblyInv
<1>2. CASE Suite!PlanSuite
  BY <1>2 DEF Suite!PlanSuite, AssemblyInv
<1>3. CASE Suite!EditSuite
  BY <1>3 DEF Suite!EditSuite, AssemblyInv
<1>4. CASE UNCHANGED assemblyVars
  BY <1>4 DEF assemblyVars, AssemblyInv
<1> QED BY <1>1, <1>2, <1>3, <1>4 DEF Suite!AssemblyNext

LEMMA PlansAreSelected ==
  ASSUME AssemblyInv
  PROVE  /\ Suite!OnlySelectedIsPlanned /\ Suite!PlannedWouldStart
         /\ Suite!PublisherIsPolled /\ Suite!PlanIsDetermined
<1>1. CASE planned = Nothing
  BY <1>1 DEF Suite!OnlySelectedIsPlanned, Suite!PlannedWouldStart, Suite!PublisherIsPolled,
              Suite!PlanIsDetermined, Suite!Accepted
<1>2. CASE planned # Nothing
  <2>1. PICK s \in Suites : planned = Suite!Plan(s)
    BY <1>2 DEF AssemblyInv
  <2>2. planned.of = s /\ planned.refused = Suite!Refusal(s)
    BY <2>1, PlanTellsItsDocument
  <2>3. CASE Suite!Refusal(s) = Nothing
    <3>1. planned.of.packs # Nothing =>
            [Suite!Plan([planned.of EXCEPT !.packs = Suite!Reverse(@)]) EXCEPT !.of = planned.of] = planned
      BY <2>1, <2>2, <2>3, OrderDoesNotMatter
    <3>2. verdict # Nothing /\ verdict.of = planned.of => (verdict.valid <=> planned.refused = Nothing)
      BY <2>1, <2>2 DEF AssemblyInv
    <3>3. Suite!PlanIsDetermined
      BY <3>1, <3>2, Zenon DEF Suite!PlanIsDetermined
    <3> QED BY <2>1, <2>3, <3>3, OnlySelected, WouldStart, Polled
  <2>4. CASE Suite!Refusal(s) # Nothing
    <3>1. ~Suite!Accepted
      BY <2>2, <2>4 DEF Suite!Accepted
    <3>2. verdict # Nothing /\ verdict.of = planned.of => (verdict.valid <=> planned.refused = Nothing)
      BY <2>1, <2>2 DEF AssemblyInv
    <3> QED BY <3>1, <3>2, Zenon DEF Suite!OnlySelectedIsPlanned, Suite!PlannedWouldStart,
               Suite!PublisherIsPolled, Suite!PlanIsDetermined
  <2> QED BY <2>3, <2>4
<1> QED BY <1>1, <1>2

\* A plan that is accepted is what was selected (plan, resolve, validate_config,
\* Config::validate, PublisherConfig::validate), for every document of the suite
\* that parses: any packs, lists and sources, in any order.
THEOREM PlansAreWhatWasSelected == AgentSpec => []PlanIsWhatWasSelected
<1>1. AgentInit => AgentAssemblyInv
  BY DEF AgentInit, AgentAssemblyInv, AssemblyInv, Suite!AssemblyInit
<1>2. AgentAssemblyInv /\ [AgentNext]_agentVars => AgentAssemblyInv'
  <2> SUFFICES ASSUME AgentAssemblyInv, [AgentNext]_agentVars PROVE AgentAssemblyInv'
    OBVIOUS
  <2>1. CASE part = "assembly" /\ Suite!AssemblyNext /\ UNCHANGED part
    BY <2>1, AssemblyStep DEF AgentAssemblyInv
  <2>2. CASE part # "assembly" /\ UNCHANGED part
    BY <2>2 DEF AgentAssemblyInv
  <2>3. CASE UNCHANGED agentVars
    <3>1. UNCHANGED part /\ UNCHANGED assemblyVars
      BY <2>3 DEF agentVars
    <3> QED BY <3>1, AssemblyStep DEF AgentAssemblyInv
  <2> QED BY <2>1, <2>2, <2>3 DEF AgentNext
<1>3. AgentAssemblyInv => PlanIsWhatWasSelected
  BY PlansAreSelected DEF AgentAssemblyInv, PlanIsWhatWasSelected
<1> QED BY <1>1, <1>2, <1>3, PTL DEF AgentSpec
=============================================================================
