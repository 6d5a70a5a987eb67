------------------------------- MODULE Backups ------------------------------
(***************************************************************************)
(* The backups of the database (scripts/backup.py): a run makes one and    *)
(* then removes the oldest.  A backup is told by its run.                  *)
(***************************************************************************)
EXTENDS SequencesExt, Ordered

CONSTANTS
  Runs,    \* runs of the script
  Keeps,   \* what --keep can be
  MaxKills \* bound: runs that are killed

BackupsAssumption == Keeps \subseteq Nat \ {0} /\ MaxKills \in Nat

VARIABLES
  keep,      \* --keep, of all runs
  run,       \* how far a run is, and the backups it will remove
  dirs,      \* backup directories: their run, when they were written last, if all is in them
  clock,     \* writes to backup directories
  kills,     \* runs that were killed
  completed, \* history: the runs that made their backup, in this order
  overlapped \* history: a run began while another one was not over

vars == <<keep, run, dirs, clock, kills, completed, overlapped>>

Init ==
  /\ keep \in Keeps
  /\ run = [r \in Runs |-> [at |-> "new", remove |-> <<>>]]
  /\ dirs = {} /\ clock = 0 /\ kills = 0 /\ completed = <<>> /\ overlapped = FALSE

Goto(r, s) == run' = [run EXCEPT ![r].at = s]

Without(r) == {d \in dirs : d.run # r}
With(r, whole) == Without(r) \cup {[run |-> r, at |-> clock, whole |-> whole]}

\* create_backup: a directory of its own, whatever other runs are at.
MakeDir(r) ==
  /\ run[r].at = "new" /\ Goto(r, "made")
  /\ dirs' = With(r, FALSE) /\ clock' = clock + 1
  /\ overlapped' = (overlapped \/ \E q \in Runs : run[q].at \in {"made", "copied", "removing"})
  /\ UNCHANGED <<keep, kills, completed>>

\* snapshot_db: what is committed, also while the server writes.
Snapshot(r) ==
  /\ run[r].at = "made" /\ Goto(r, "copied")
  /\ dirs' = With(r, FALSE) /\ clock' = clock + 1
  /\ UNCHANGED <<keep, kills, completed, overlapped>>

\* The run whose directory was written then.
Made(all, time) == (CHOOSE d \in all : d.at = time).run

\* A fault: the backups are in the order of their age.
RetentionOldest(all) ==
  LET ages == {d.at : d \in all}
  IN [i \in 1..(Cardinality(all) - keep) |-> Made(all, Nth(ages, keep + i))]

\* apply_retention: all but the newest go.  What was left by a killed run counts.
Retention(all) ==
  LET ages == Descending({d.at : d \in all})
  IN [i \in 1..(Cardinality(all) - keep) |-> Made(all, ages[keep + i])]

\* write_manifest; then the directories are listed.
WriteManifest(r) ==
  /\ run[r].at = "copied"
  /\ dirs' = With(r, TRUE) /\ clock' = clock + 1
  /\ run' = [run EXCEPT ![r] = [at |-> "removing", remove |-> Retention(With(r, TRUE))]]
  /\ completed' = Append(completed, r)
  /\ UNCHANGED <<keep, kills, overlapped>>

RemoveNext(r) ==
  /\ run[r].at = "removing"
  /\ IF run[r].remove = <<>> THEN Goto(r, "over") /\ UNCHANGED dirs
     ELSE dirs' = Without(run[r].remove[1]) /\ run' = [run EXCEPT ![r].remove = Tail(@)]
  /\ UNCHANGED <<keep, clock, kills, completed, overlapped>>

\* A step fails and the directory goes.
Fail(r) ==
  /\ run[r].at \in {"made", "copied"} /\ Goto(r, "over") /\ dirs' = Without(r)
  /\ UNCHANGED <<keep, clock, kills, completed, overlapped>>

\* The run is killed and what it has made stays.
Kill(r) ==
  /\ run[r].at \in {"made", "copied", "removing"} /\ Goto(r, "over")
  /\ kills < MaxKills /\ kills' = kills + 1
  /\ UNCHANGED <<keep, dirs, clock, completed, overlapped>>

Next == \E r \in Runs :
  MakeDir(r) \/ Snapshot(r) \/ WriteManifest(r) \/ RemoveNext(r) \/ Fail(r) \/ Kill(r)

Spec == Init /\ [][Next]_vars

-----------------------------------------------------------------------------
\* The values of the variables.
TypeOK ==
  /\ keep \in Keeps /\ kills \in 0..MaxKills /\ overlapped \in BOOLEAN
  /\ run \in [Runs -> [at : {"new", "made", "copied", "removing", "over"}, remove : Seq(Runs)]]
  /\ dirs \subseteq [run : Runs, at : 0..(clock - 1), whole : BOOLEAN]

\* "Keep only the newest N backups": they are there, less those whose place has
\* what a killed run left, and once all is over not more, unless runs overlapped
\* (then a run may remove its own backup for one that fails later).
BackupsKept ==
  LET parts == {d \in dirs : ~d.whole /\ run[d.run].at = "over"}
      whole == {d.run : d \in {e \in dirs : e.whole}}
  IN ~overlapped =>
       /\ \A i \in DOMAIN completed :
            i > Len(completed) - keep + Cardinality(parts) => completed[i] \in whole
       /\ (\E r \in Runs : run[r].at = "over" /\ completed # <<>> /\ Last(completed) = r /\ run[r].remove = <<>>)
            => Cardinality(whole) <= keep
=============================================================================
