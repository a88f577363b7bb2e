---------------------------- MODULE ConfigFiles ----------------------------
(***************************************************************************)
(* configtool.py: `config backup` copies the env file and every            *)
(* bitcoin.conf it finds into one directory, `config restore --force`      *)
(* copies them back and keeps what it replaces.                            *)
(*                                                                         *)
(* A path is the sequence of its parts, each with what is before it, "/"   *)
(* or "__", which stands for "/" in the name of a copy.  No part begins or *)
(* ends with an underscore.                                                *)
(***************************************************************************)
EXTENDS Subsequences, SequencesExt

CONSTANTS EnvFile,     \* the path of the env file
          Confs,       \* the candidate paths of bitcoin.conf, in order
          MaxEdits, MaxRestores, MaxClock

Paths == {EnvFile} \cup ToSet(Confs)

ASSUME ConfigAssumption ==
  /\ Confs \in Seq(Paths) /\ EnvFile \notin ToSet(Confs)
  /\ \A p \in Paths : p \in Seq([before : {"/", "__"}, part : STRING]) /\ p[1].before = "/"
  /\ MaxEdits \in Nat /\ MaxRestores \in Nat /\ MaxClock \in Nat

VARIABLES
  fs,        \* the files there are, with their content; 0 if cut short
  items,     \* the manifest: originals with the names of their copies, in order
  kept,      \* the copies, with their content
  taken,     \* the files and contents at the time of the backup
  copying,   \* the items a restore has still to copy
  looked,    \* when it looked for the file in place of the next one: the second
             \* and the edits till then; <<>> before
  since,     \* the edits there were when it began
  exact,     \* it has ended, with no edit since it began
  baks,      \* the .bak files: <<path, second>> to content and number of copies made
  replaced,  \* what restores have replaced, and whether it was edited before that
  clock, edits, restores

configVars == <<fs, items, kept, taken, copying, looked, since, exact, baks, replaced, clock,
                edits, restores>>
backup == <<items, kept, taken>>

ConfigInit ==
  /\ fs = <<>> /\ items = <<>> /\ kept = <<>> /\ taken = <<>> /\ copying = <<>>
  /\ looked = <<>> /\ baks = <<>>
  /\ exact = FALSE /\ replaced = {}
  /\ since = 0 /\ clock = 0 /\ edits = 0 /\ restores = 0

With(f, x, v) == [y \in DOMAIN f \cup {x} |-> IF y = x THEN v ELSE f[y]]

\* Somebody writes or removes a file.
Edit ==
  /\ edits < MaxEdits /\ edits' = edits + 1
  /\ \E p \in Paths :
       \/ fs' = With(fs, p, edits + 1)
       \/ p \in DOMAIN fs /\ fs' = [x \in DOMAIN fs \ {p} |-> fs[x]]
  /\ exact' = FALSE
  /\ UNCHANGED <<backup, copying, looked, since, baks, replaced, clock, restores>>

\* The name of a file, and that of a path with "__" for "/".
BaseName(p) == Elements(p, {i \in 1..Len(p) : \A j \in (i + 1)..Len(p) : p[j].before = "__"})
FlatName(p) == [i \in 1..Len(p) |-> p[i].part]

\* MUTANT: a copy has the base name of its original.
StoredBase(p) == <<"bitcoin", FlatName(BaseName(p))>>
Stored(p) == <<"bitcoin", FlatName(p)>>
Item(p) ==
  [original |-> p, stored |-> IF p = EnvFile THEN <<"env", FlatName(BaseName(p))>> ELSE Stored(p)]

\* A later copy of the same name replaces an earlier one.
ConfigBackup ==
  LET all == <<EnvFile>> \o Confs
      its == Elements([i \in 1..Len(all) |-> Item(all[i])], {i \in 1..Len(all) : all[i] \in DOMAIN fs})
      last(n) == CHOOSE i \in 1..Len(its) :
                   its[i].stored = n /\ \A j \in (i + 1)..Len(its) : its[j].stored # n
  IN  /\ items = <<>> /\ fs # <<>>
      /\ items' = its
      /\ kept' = [n \in {its[i].stored : i \in 1..Len(its)} |-> fs[its[last(n)].original]]
      /\ taken' = fs
      /\ UNCHANGED <<fs, copying, looked, since, exact, baks, replaced, clock, edits, restores>>

ConfigRestore ==
  /\ items # <<>> /\ copying = <<>> /\ restores < MaxRestores
  /\ copying' = items /\ restores' = restores + 1
  /\ since' = edits /\ exact' = FALSE
  /\ UNCHANGED <<fs, backup, looked, baks, replaced, clock, edits>>

\* MUTANT: the .bak copy is made after the file is replaced.
PreservedLate(p) == kept[Item(p).stored]
Preserved(p) == fs[p]

Original == Head(copying).original

\* A .bak file is written, over one of the same second.
WriteBak(content) ==
  LET k == <<Original, clock>>
  IN  baks' = With(baks, k, [content |-> content,
                             copies  |-> IF k \in DOMAIN baks THEN baks[k].copies + 1 ELSE 1])

\* restore_file, first half: if there is a file in place of the next one it is
\* copied to its .bak name.
Preserve ==
  /\ copying # <<>> /\ looked = <<>>
  /\ IF Original \in DOMAIN fs THEN WriteBak(Preserved(Original)) ELSE UNCHANGED baks
  /\ looked' = [at |-> clock, edits |-> edits]
  /\ UNCHANGED <<fs, backup, copying, since, exact, replaced, clock, edits, restores>>

\* The original is written, over whatever is there by now.
Replace(content) ==
  /\ fs' = With(fs, Original, content)
  /\ replaced' = replaced \cup
       IF Original \in DOMAIN fs
       THEN {[path |-> Original, at |-> looked.at, content |-> fs[Original],
              edited |-> edits # looked.edits]}
       ELSE {}

\* restore_file, second half.
RestoreFile ==
  /\ copying # <<>> /\ looked # <<>>
  /\ Replace(kept[Head(copying).stored])
  /\ copying' = Tail(copying) /\ looked' = <<>>
  /\ exact' = (Tail(copying) = <<>> /\ edits = since)
  /\ UNCHANGED <<backup, since, baks, clock, edits, restores>>

\* The command is killed: between two writes, or in the middle of one, which
\* leaves the .bak file or the original half written.
ConfigDies ==
  /\ copying # <<>> /\ copying' = <<>> /\ looked' = <<>>
  /\ \/ UNCHANGED <<fs, baks, replaced>>
     \/ /\ looked = <<>> /\ Original \in DOMAIN fs
        /\ WriteBak(0) /\ UNCHANGED <<fs, replaced>>
     \/ looked # <<>> /\ Replace(0) /\ UNCHANGED baks
  /\ UNCHANGED <<backup, since, exact, clock, edits, restores>>

Tick ==
  /\ clock < MaxClock /\ clock' = clock + 1
  /\ UNCHANGED <<fs, backup, copying, looked, since, exact, baks, replaced, edits, restores>>

ConfigNext ==
  Edit \/ ConfigBackup \/ ConfigRestore \/ Preserve \/ RestoreFile \/ ConfigDies \/ Tick

ConfigSpec == ConfigInit /\ [][ConfigNext]_configVars

-----------------------------------------------------------------------------
\* Paths without "__" in a component have copies of different names.
Plain(p) == \A i \in 1..Len(p) : p[i].before = "/"

\* A restore gives every file of the backup the content it had then, also
\* after one that was cut short (configtool.py:12).  Only paths with "__" in
\* them may take each other's place.
RestoreExact ==
  exact /\ (\A p \in DOMAIN taken : Plain(p)) =>
    \A p \in DOMAIN taken : p \in DOMAIN fs /\ fs[p] = taken[p]

\* What a restore replaces is in a .bak file, at whatever step restores were
\* killed, unless somebody edits the file between the two copies of restore_file
\* or two .bak files of it are made within one second, under one name
\* (configtool.py:251-256).
NothingLost ==
  \A r \in replaced :
    LET k == <<r.path, r.at>>
    IN  r.edited \/ baks[k].copies > 1 \/ baks[k].content = r.content
=============================================================================
