------------------------ MODULE SnapshotRefinement ------------------------
(***************************************************************************)
(* WorkflowSnapshots implements SnapshotHistory: the collect_logs rows,    *)
(* read by their state, are the history the abstract specification keeps.  *)
(* Every step on directories, source rows or the lock is a stutter.        *)
(***************************************************************************)
EXTENDS WorkflowSnapshots

Revisions(S) == {[id |-> r.id, at |-> r.at] : r \in S}

CurrentRevisions == [p \in Project |-> Revisions(LatestRows(p))]
RetiredRevisions == [p \in Project |-> Revisions(ArchivedRows(p))]

History == INSTANCE SnapshotHistory WITH
             current <- CurrentRevisions,
             retired <- RetiredRevisions,
             issued  <- nextId - 1,
             clock   <- now

\* Whatever interrupts the collections, the rows change only as a history may:
\* no second current revision, no reused id, no row deleted before it is older
\* than the retention (README, Snapshot Storage And Cleanup).
ImplementsHistory == History!HSpec

-----------------------------------------------------------------------------
(* The inductive invariant behind AtMostOneLatest and the refinement.      *)

\* Exactly the collection between acquiring and releasing holds the lock.
LockHeld == \A c \in Proc : pc[c] \in HoldsLock <=> lock = c

\* Ids are given once, and no row is dated in the future.
RowsNumbered ==
  /\ \A r \in rows : r.id < nextId /\ r.at <= now
  /\ \A r, q \in rows : r.id = q.id => r = q

\* The row being archived is still latest, and so is the row just created.
RowInHand ==
  \A c \in Proc :
    /\ pc[c] \in {"clear", "move", "relink"} =>
         \E r \in LatestRows(proj[c]) : r.id = old[c]
    /\ pc[c] = "prepare" => \E r \in LatestRows(proj[c]) : r.id = own[c]

\* Past archiving and before creating, the project has no latest row.
NoneWhilePruning ==
  \A c \in Proc : pc[c] \in {"list", "prune", "unrow"} => LatestRows(proj[c]) = {}

\* Once moved, the directory is gone from under the name latest.
LatestMoved == \A c \in Proc : pc[c] = "relink" => DirAt(proj[c], Latest) = {}

\* A directory is not older than the row it belongs to, nor than its name, and not
\* dated in the future.
DirsDated ==
  \A d \in dirs :
    /\ d.mtime <= now
    /\ d.name # Latest => d.name <= d.mtime
    /\ d.name = Latest => \E r \in LatestRows(d.project) : r.at <= d.mtime

\* What pruning removes is older than the retention, also by the time it is removed.
PruneDated ==
  \A c \in Proc :
    /\ cutoff[c] > 0 => cutoff[c] + Retention <= now
    /\ pc[c] = "unrow" => doomed[c] + Retention < now

\* Everything a project's rows and directories keep true however a collection ends.
StoreInv ==
  /\ LockHeld /\ RowsNumbered /\ AtMostOneLatest
  /\ RowInHand /\ NoneWhilePruning /\ LatestMoved
  /\ DirsDated /\ PruneDated
=============================================================================
