------------------------------ MODULE Backup ------------------------------
(***************************************************************************)
(* backup.py: a dump of the schema next to running commands, the manifest  *)
(* written after it, damage to the stored files, and `backup verify`.      *)
(*                                                                         *)
(* The content of a table is the number of the last commit it shows; every *)
(* commit of extract touches several tables, so a dump is consistent when  *)
(* its tables show the same number.                                        *)
(***************************************************************************)
EXTENDS Integers, FiniteSets

CONSTANTS Table,        \* the tables dumped, one file each
          MaxCommits    \* bounds the commits of other commands

ASSUME BackupAssumption == Table # {} /\ IsFiniteSet(Table) /\ MaxCommits \in Nat

VARIABLES
  stage,     \* "idle", "started", "dumping", "dumped", "walked", "finished" or "dead"
  commits,   \* commits so far: what a statement reads now
  noted,     \* what was there when the jobs in progress were counted
  snapshot,  \* what the pg_dump under way reads
  dump,      \* the files in the dump directory, with their content
  damage,    \* what happened to a file after the backup
  manifest,  \* what MANIFEST.json says, once it is written
  verdict    \* of `backup verify`

backupVars == <<stage, commits, noted, snapshot, dump, damage, manifest, verdict>>
files == <<dump, damage>>
reads == <<noted, snapshot>>

Unknown == -1

BackupInit ==
  /\ stage = "idle" /\ verdict = "none"
  /\ commits = 0 /\ noted = 0 /\ snapshot = 0
  /\ dump = <<>> /\ damage = [t \in Table |-> "none"]
  /\ manifest = <<>>

\* Another command commits a block, in all tables.
Commit ==
  /\ commits < MaxCommits
  /\ commits' = commits + 1
  /\ UNCHANGED <<stage, reads, files, manifest, verdict>>

\* The command counts the jobs in progress and starts pg_dump.
BackupStart ==
  /\ stage = "idle" /\ stage' = "started"
  /\ noted' = commits
  /\ UNCHANGED <<commits, snapshot, files, manifest, verdict>>

\* pg_dump takes one snapshot for all of its jobs.
DumpStart ==
  /\ stage = "started" /\ stage' = "dumping"
  /\ snapshot' = commits
  /\ UNCHANGED <<commits, noted, files, manifest, verdict>>

\* MUTANT: each table is read when its turn comes.
SeenNow == commits
Seen == snapshot

\* A job of pg_dump writes the file of a table, in any order.
DumpTable(t) ==
  /\ stage = "dumping" /\ t \notin DOMAIN dump
  /\ dump' = [u \in DOMAIN dump \cup {t} |-> IF u = t THEN Seen ELSE dump[u]]
  /\ UNCHANGED <<stage, commits, reads, damage, manifest, verdict>>

DumpEnds ==
  /\ stage = "dumping" /\ DOMAIN dump = Table
  /\ stage' = "dumped"
  /\ UNCHANGED <<commits, reads, files, manifest, verdict>>

\* MUTANT: the height is read when the command starts.
TipAtStart == noted
Tip == commits

\* The height is read, if it can be, and the files are walked, with their sums
\* unless --no-checksum.
WalkFiles ==
  /\ stage = "dumped" /\ stage' = "walked"
  /\ \E c \in BOOLEAN, h \in {Tip, Unknown} :
       manifest' = [tip |-> h, checksummed |-> c, files |-> DOMAIN dump]
  /\ UNCHANGED <<commits, reads, files, verdict>>

WriteManifest ==
  /\ stage = "walked" /\ stage' = "finished"
  /\ UNCHANGED <<commits, reads, files, manifest, verdict>>

\* pg_dump fails, or the command is killed: what is there stays there.
BackupDies ==
  /\ stage \in {"started", "dumping", "dumped", "walked"} /\ stage' = "dead"
  /\ UNCHANGED <<commits, reads, files, manifest, verdict>>

\* A file of a backup that is kept is lost, cut short, or altered in place.
Damage(t) ==
  /\ stage \in {"finished", "dead"} /\ verdict = "none" /\ t \in DOMAIN dump
  /\ \E d \in {"lost", "cut", "altered"} : damage' = [damage EXCEPT ![t] = d]
  /\ UNCHANGED <<stage, commits, reads, dump, manifest, verdict>>

\* MUTANT: a missing file is passed over.
FileOkIfThere(t) ==
  damage[t] # "cut" /\ (manifest.checksummed => damage[t] # "altered")
FileOk(t) ==
  /\ damage[t] \notin {"lost", "cut"}
  /\ manifest.checksummed => damage[t] # "altered"

Verify ==
  /\ verdict = "none" /\ stage \in {"finished", "dead"}
  /\ verdict' = IF stage = "finished" /\ \A t \in manifest.files : FileOk(t)
                THEN "ok" ELSE "bad"
  /\ UNCHANGED <<stage, commits, reads, files, manifest>>

BackupNext ==
  \/ Commit \/ BackupStart \/ DumpStart \/ DumpEnds \/ WalkFiles \/ WriteManifest \/ BackupDies \/ Verify
  \/ \E t \in Table : DumpTable(t) \/ Damage(t)

BackupSpec == BackupInit /\ [][BackupNext]_backupVars

-----------------------------------------------------------------------------
\* A backup with checksums that verifies holds every table, all of one instant
\* and as they were dumped (backup.py:3-9): commits during the dump do not show,
\* and no interrupted or damaged backup passes.
VerifiedIsWhole ==
  verdict = "ok" /\ manifest.checksummed =>
    /\ dump = [t \in Table |-> snapshot]
    /\ \A t \in Table : damage[t] = "none"

\* The height in the manifest is never below what the dump holds.  It may be
\* above: it is read when the dump has ended (backup.py:193).
TipCoversDump ==
  manifest # <<>> /\ manifest.tip # Unknown =>
    \A t \in DOMAIN dump : dump[t] <= manifest.tip
=============================================================================
