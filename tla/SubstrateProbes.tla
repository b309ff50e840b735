-------------------------- MODULE SubstrateProbes --------------------------
(***************************************************************************)
(* The two collectors of the agent that look at files others are changing: *)
(* sqlite_wal_probe.rs (a database behind a declared path, its sidecars    *)
(* and the locks on them) and nq_binary.rs (the agent's own executable).   *)
(* Each is a sequence of system calls; between any two of them the owner   *)
(* of the files may write, checkpoint, close, retarget a link, rename a    *)
(* database over the path or upgrade.                                      *)
(*                                                                         *)
(* Sizes and times are left out: a row keeps, for every field, the path    *)
(* that was looked at and which file was there.  An upgrade renames a new  *)
(* executable over the path; one that writes into the old is left out.     *)
(***************************************************************************)
EXTENDS Naturals, FiniteSets

CONSTANTS
  Files,        \* canonical paths the declared path may lead to
  Nobody,       \* no value
  MaxInode,     \* bound: inode numbers of -shm files
  MaxDatabase,  \* bound: databases
  MaxBinary,    \* bound: executables installed
  MaxProbes     \* bound: probes of each kind

SubstrateAssumption ==
  /\ MaxInode \in Nat /\ MaxDatabase \in Nat /\ MaxBinary \in Nat \ {0} /\ MaxProbes \in Nat
  /\ Nobody \notin Files /\ Nobody \notin BOOLEAN /\ \A v \in 1 .. MaxBinary : v # Nobody

VARIABLES
  link,       \* the canonical path of the declared one, or Nobody
  holds,      \* [Files -> the database there, 0 without]
  shm,        \* [Files -> inode of -shm, 0 without]
  locked,     \* inodes of -shm files with a lock
  legible,    \* /proc/locks, as the agent sees and parses it, tells every lock
  procLocks,  \* sqlite_wal_proc_locks_enabled, from the configuration
  wprobe,     \* the WAL probe under way
  wrow,       \* its last row
  probes,     \* WAL probes begun
  free,       \* history: files seen without a lock since the probe began
  gone,       \* history: the declared path failed to resolve since then
  swapped,    \* history: paths at which the database was replaced since then
  running,    \* executable the agent runs
  installed,  \* executable at the installed path, or Nobody
  versions,   \* executables installed so far
  override,   \* nq_binary_path is set, to the installed path
  cached,     \* DEFAULT_BINARY_PATH: Nobody, "path" or "error"
  bstat,      \* what the stat of the binary probe under way found
  brow        \* last binary row

filesVars == <<link, holds, shm, locked, procLocks, legible>>
memory == <<free, gone, swapped>>
walVars == <<wprobe, wrow, probes, memory>>
binVars == <<running, installed, versions, override, cached, bstat, brow>>
vars == <<filesVars, walVars, binVars>>

Idle == [at |-> "idle", file |-> Nobody, db |-> Nobody, wal |-> Nobody, ino |-> 0]
Row(status, db, sidecar, proc, pinned) ==
  [status |-> status, db |-> db, sidecar |-> sidecar, proc |-> proc, pinned |-> pinned]
ErrorRow(status) == Row(status, Nobody, Nobody, "not_attempted", Nobody)

\* What a stat of a path, or of a sidecar next to it, is about.
Look(f) == [path |-> f, db |-> holds[f]]

Held(f) == shm[f] # 0 /\ shm[f] \in locked
Resolves == link # Nobody /\ holds[link] # 0
-----------------------------------------------------------------------------
(***************************************************************************)
(* The owner of the database and the operator (external).                  *)
(***************************************************************************)
\* What the histories remember of the state after a step of the owner.
Remember ==
  /\ free' = free \cup {f \in Files : ~(shm'[f] # 0 /\ shm'[f] \in locked')}
  /\ gone' = (gone \/ ~(link' # Nobody /\ holds'[link'] # 0))
  /\ swapped' = swapped \cup {f \in Files : holds'[f] # holds[f]}

Owner ==
  /\ \/ \E f \in Files \cup {Nobody} : link' = f /\ UNCHANGED <<holds, shm, locked>>
     \/ \E f \in Files :
          \/ \* a connection opens the database: its sidecars appear, with an inode
             \* number that may have been another's before
             /\ holds[f] # 0 /\ shm[f] = 0
             /\ \E i \in 1 .. MaxInode :
                  /\ \A g \in Files : shm[g] # i
                  /\ shm' = [shm EXCEPT ![f] = i]
             /\ UNCHANGED <<link, holds, locked>>
          \/ \* a reader takes or drops its lock
             /\ shm[f] # 0
             /\ locked' = IF shm[f] \in locked THEN locked \ {shm[f]} ELSE locked \cup {shm[f]}
             /\ UNCHANGED <<link, holds, shm>>
          \/ \* the last connection closes: checkpoint, sidecars removed
             /\ shm[f] # 0 /\ ~Held(f)
             /\ shm' = [shm EXCEPT ![f] = 0]
             /\ UNCHANGED <<link, holds, locked>>
          \/ \* the database is removed, or another is renamed over it or put there
             \E d \in 0 .. MaxDatabase :
               /\ d # holds[f] /\ \A g \in Files : d # 0 => holds[g] # d
               /\ holds' = [holds EXCEPT ![f] = d]
               /\ UNCHANGED <<link, shm, locked>>
  /\ Remember
  /\ UNCHANGED <<procLocks, legible, wprobe, wrow, probes, binVars>>

-----------------------------------------------------------------------------
(***************************************************************************)
(* probe_one: canonicalize, stat the file, stat -wal, stat -shm, read the  *)
(* locks.  A call may be refused for want of permission or fail.           *)
(***************************************************************************)
\* classify_error
Refusals == {"permission_denied", "stat_error"}

Done(row) == wprobe' = Idle /\ wrow' = row

Begin ==
  /\ wprobe = Idle /\ probes < MaxProbes
  /\ probes' = probes + 1
  /\ free' = {f \in Files : ~Held(f)}
  /\ gone' = ~Resolves
  /\ swapped' = {}
  /\ \/ Resolves /\ wprobe' = [Idle EXCEPT !.at = "stat", !.file = link] /\ UNCHANGED wrow
     \/ ~Resolves /\ Done(ErrorRow("target_missing"))
     \/ \E r \in Refusals : Done(ErrorRow(r))
  /\ UNCHANGED <<filesVars, binVars>>

StatDb ==
  /\ wprobe.at = "stat"
  /\ \/ /\ holds[wprobe.file] # 0
        /\ wprobe' = [wprobe EXCEPT !.at = "wal", !.db = Look(wprobe.file)]
        /\ UNCHANGED wrow
     \/ holds[wprobe.file] = 0 /\ Done(ErrorRow("target_missing"))
     \/ \E r \in Refusals : Done(ErrorRow(r))
  /\ UNCHANGED <<filesVars, binVars, probes, memory>>

\* Mutant: sidecars are looked for next to the declared path.
SidecarDeclared == IF link = Nobody THEN wprobe.file ELSE link

\* Sidecars are looked for next to the canonical file.
Sidecar == wprobe.file

\* The row of a probe that got this far.
Observed(proc, pinned) == Row("observed", wprobe.db, wprobe.wal, proc, pinned)

\* -wal: its absence is a fact, anything else an error row; without the
\* cross-check the row is complete.
StatWal ==
  /\ wprobe.at = "wal"
  /\ \/ LET seen == [wprobe EXCEPT !.at = "shm", !.wal = Look(Sidecar)]
        IN  IF procLocks THEN wprobe' = seen /\ UNCHANGED wrow
            ELSE Done(Row("observed", wprobe.db, Look(Sidecar), "not_attempted", Nobody))
     \/ \E r \in Refusals : Done(ErrorRow(r))
  /\ UNCHANGED <<filesVars, binVars, probes, memory>>

\* classify_shm_stat_error
ShmOutcome(kind) ==
  CASE kind = "not_found" -> Observed("observed", FALSE)
    [] kind = "denied"    -> Observed("permission_denied", Nobody)
    [] OTHER              -> Observed("unavailable", Nobody)

ShmInode == shm[Sidecar]

StatShm ==
  /\ wprobe.at = "shm"
  /\ \/ ShmInode # 0 /\ wprobe' = [wprobe EXCEPT !.at = "locks", !.ino = ShmInode] /\ UNCHANGED wrow
     \/ ShmInode = 0 /\ Done(ShmOutcome("not_found"))
     \/ \E k \in {"denied", "other"} : Done(ShmOutcome(k))
  /\ UNCHANGED <<filesVars, binVars, probes, memory>>

\* check_proc_locks: the inode of the stat against the locks the table tells of
\* at this moment.  Lines that do not parse are skipped, and locks the agent's
\* /proc does not show are not there.
ReadLocks ==
  /\ wprobe.at = "locks"
  /\ \/ \E told \in (IF legible THEN {locked} ELSE SUBSET locked) :
          Done(Observed("observed", wprobe.ino \in told))
     \/ \E p \in {"permission_denied", "unavailable"} : Done(Observed(p, Nobody))
  /\ UNCHANGED <<filesVars, binVars, probes, memory>>
-----------------------------------------------------------------------------
(***************************************************************************)
(* nq_binary: the path is the one configured, or is resolved once, at the  *)
(* first collection; the file at the path is looked at every time.         *)
(***************************************************************************)
\* An upgrade moves a new file over the installed path, or removes it.
Upgrade ==
  /\ \/ versions < MaxBinary /\ versions' = versions + 1 /\ installed' = versions + 1
     \/ installed # Nobody /\ installed' = Nobody /\ UNCHANGED versions
  /\ UNCHANGED <<filesVars, walVars, running, override, cached, bstat, brow>>

\* The agent is started again, with what is installed.
Restart ==
  /\ installed # Nobody
  /\ running' = installed
  /\ cached' = Nobody
  /\ bstat' = Nobody /\ brow' = Nobody
  /\ UNCHANGED <<filesVars, walVars, installed, versions, override>>

\* The configured path as it is, or what current_exe() gave the first time.  It
\* names a deleted file once the executable was replaced, and a deleted file has
\* no canonical path.
Resolution ==
  IF override THEN "path"
  ELSE IF cached # Nobody THEN cached
  ELSE IF installed = running THEN "path" ELSE "error"

\* A row keeps the file its size and time come from and the one its digest is of.
BinaryRow(status, file, content) == [status |-> status, file |-> file, content |-> content]
BinaryError(status) == brow' = BinaryRow(status, Nobody, Nobody) /\ bstat' = Nobody

StatBinary ==
  /\ bstat = Nobody
  /\ cached' = IF override THEN cached ELSE Resolution
  /\ \/ Resolution = "error" /\ BinaryError("stat_error")
     \/ /\ Resolution = "path"
        /\ \/ installed # Nobody /\ bstat' = installed /\ UNCHANGED brow
           \/ installed = Nobody /\ BinaryError("target_missing")
           \/ \E r \in Refusals : BinaryError(r)
  /\ UNCHANGED <<filesVars, walVars, running, installed, versions, override>>

\* The file is read by its path again.
ReadBinary ==
  /\ bstat # Nobody
  /\ \/ BinaryError("read_error")
     \/ /\ installed # Nobody
        /\ bstat' = Nobody /\ brow' = BinaryRow("observed", bstat, installed)
  /\ UNCHANGED <<filesVars, walVars, running, installed, versions, override, cached>>

Init ==
  /\ link \in Files
  /\ holds \in [Files -> 0 .. MaxDatabase]
  /\ \A f, g \in Files : holds[f] = holds[g] /\ f # g => holds[f] = 0
  /\ shm = [f \in Files |-> 0] /\ locked = {}
  /\ procLocks \in BOOLEAN /\ legible \in BOOLEAN
  /\ wprobe = Idle /\ wrow = Nobody /\ probes = 0
  /\ free = Files /\ gone = FALSE /\ swapped = {}
  /\ running = 1 /\ installed = 1 /\ versions = 1 /\ override \in BOOLEAN /\ cached = Nobody
  /\ bstat = Nobody /\ brow = Nobody

\* The two collectors share nothing.
WalNext == Owner \/ Begin \/ StatDb \/ StatWal \/ StatShm \/ ReadLocks
BinaryNext == Upgrade \/ Restart \/ StatBinary \/ ReadBinary
Next == WalNext \/ BinaryNext

Spec == Init /\ [][Next]_vars
-----------------------------------------------------------------------------
(***************************************************************************)
(* Properties.                                                             *)
(***************************************************************************)
\* A row is written: a probe ends, or ends as it begins.
RowTold == (wprobe.at # "idle" \/ probes' # probes) /\ wprobe'.at = "idle"

\* A row is about one path: whatever the declared path was made to lead to while
\* the probe ran, the size of the file, its -wal and its locks are those of one
\* canonical path.  They are of one database too, unless another was renamed over
\* that path between two calls of the probe.
WalRowIsOneFile ==
  (RowTold /\ wrow'.status = "observed")
  => /\ wrow'.db.path \in Files /\ wrow'.sidecar.path = wrow'.db.path
     /\ wrow'.sidecar.db = wrow'.db.db \/ wrow'.db.path \in swapped

\* "No pinned-reader signal" was true: a row that says so was made while, at
\* some moment of the probe, no lock was held on the database.  -shm files that
\* come and go between the two calls, and inode numbers that are given out again,
\* do not make up a free moment.  Where the lock table does not tell every lock,
\* it is so only of a row that found no -shm file.
UnpinnedWasTrue ==
  (/\ RowTold /\ wrow'.status = "observed" /\ wrow'.pinned = FALSE
   /\ legible \/ wprobe.at = "shm")
  => wrow'.db.path \in free

\* "The database is not there" was true at some moment of the probe: a want of
\* permission never passes for an absence.
MissingWasMissing ==
  (RowTold /\ wrow'.status = "target_missing")
    => gone' \/ (wprobe.file # Nobody /\ holds[wprobe.file] = 0)

\* An observed binary row never pairs the size and time of one executable with
\* the digest of one installed before it.  That it pairs them with the digest of
\* one installed later, when an upgrade falls between the two calls, happens.
DigestNotOlder ==
  (brow # Nobody /\ brow.status = "observed") => brow.file <= brow.content
=============================================================================
