---------------------- MODULE WorkflowSnapshotsProofs ----------------------
(***************************************************************************)
(* Theorems about WorkflowSnapshots and its readers, for every set of      *)
(* projects, sources and collections, every retention and every choice of  *)
(* interruptions: types, the numbering of rows, the refinement of          *)
(* SnapshotHistory; then what rows say of files: a resolved source has a   *)
(* file; and away from the two steps that tear files from rows, every file *)
(* that a row names is on disk with the row's own lines, no line is lost   *)
(* before its time, and readers, who take no lock, never mix the revisions *)
(* of an archive.                                                          *)
(***************************************************************************)
EXTENDS SnapshotRefinement, SnapshotReaders, TLAPS

-----------------------------------------------------------------------------
(* Types.                                                                  *)

\* Every variable keeps the type the code gives it, over every step.
THEOREM TypeCorrect == Spec => []TypeOK
<1>1. Init => TypeOK
  BY ConstantsAssumption DEF Init, TypeOK, Step
<1>2. TypeOK /\ [Next]_vars => TypeOK'
  <2> SUFFICES ASSUME TypeOK, [Next]_vars PROVE TypeOK'
    OBVIOUS
  <2> USE ConstantsAssumption DEF TypeOK, Go, store, locals, world, HoldsLock, Step
  <2>1. CASE UNCHANGED vars
    BY <2>1 DEF vars
  <2>2. CASE Tick
    BY <2>2 DEF Tick
  <2>3. ASSUME NEW c \in Proc, Begin(c) PROVE TypeOK'
    BY <2>3 DEF Begin
  <2>4. ASSUME NEW c \in Proc, Acquire(c) PROVE TypeOK'
    BY <2>4 DEF Acquire
  <2>5. ASSUME NEW c \in Proc, Release(c) PROVE TypeOK'
    BY <2>5 DEF Release, Forget
  <2>6. ASSUME NEW c \in Proc, LookupLatest(c) PROVE TypeOK'
    BY <2>6 DEF LookupLatest, LatestRows, Row
  <2>7. ASSUME NEW c \in Proc, ClearArchivePath(c) PROVE TypeOK'
    BY <2>7 DEF ClearArchivePath
  <2>8. ASSUME NEW c \in Proc, MoveLatest(c) PROVE TypeOK'
    <3>1. dirs' \subseteq Dir
      <4>1. PICK r \in rows : dirs' = (dirs \ DirAt(proj[c], Latest)) \union
              {[d EXCEPT !.name = ArchiveName(r)] : d \in DirAt(proj[c], Latest)}
        BY <2>8 DEF MoveLatest
      <4>2. ArchiveName(r) \in Place
        BY DEF ArchiveName, Row, Place
      <4>3. ASSUME NEW d \in DirAt(proj[c], Latest)
            PROVE  [d EXCEPT !.name = ArchiveName(r)] \in Dir
        BY <4>2 DEF DirAt, Dir
      <4> QED BY <4>1, <4>3
    <3> QED BY <2>8, <3>1 DEF MoveLatest
  <2>9. ASSUME NEW c \in Proc, RelinkSource(c) PROVE TypeOK'
    <3>1. PICK r \in rows, s \in todo[c] :
            /\ Replace(r, [r EXCEPT !.files[s] = ArchivedFile(@, ArchiveName(r))])
            /\ todo' = [todo EXCEPT ![c] = @ \ {s}]
      BY <2>9 DEF RelinkSource
    <3>2. ArchivedFile(r.files[s], ArchiveName(r)) \in Place \union {NoFile}
      BY DEF ArchivedFile, ArchiveName, Row, Place
    <3>3. rows' \subseteq Row
      BY <3>1, <3>2 DEF Replace, Row
    <3> QED BY <2>9, <3>1, <3>3 DEF RelinkSource
  <2>10. ASSUME NEW c \in Proc, MarkArchived(c) PROVE TypeOK'
    <3>1. PICK r \in rows : Replace(r, [r EXCEPT !.state = "archived"])
      BY <2>10 DEF MarkArchived
    <3>2. rows' \subseteq Row
      BY <3>1 DEF Replace, Row
    <3> QED BY <2>10, <3>2 DEF MarkArchived
  <2>11. ASSUME NEW c \in Proc, ListArchives(c) PROVE TypeOK'
    BY <2>11 DEF ListArchives, Cutoff
  <2>12. ASSUME NEW c \in Proc, PruneArchiveDir(c) PROVE TypeOK'
    BY <2>12 DEF PruneArchiveDir, Expired, Dir, Place
  <2>13. ASSUME NEW c \in Proc, DeleteArchivedRow(c) PROVE TypeOK'
    BY <2>13 DEF DeleteArchivedRow
  <2>14. ASSUME NEW c \in Proc, CreateRow(c) PROVE TypeOK'
    <3>1. now' \in Nat /\ rows' \subseteq Row
      BY <2>14 DEF CreateRow, Row
    <3> QED BY <2>14, <3>1 DEF CreateRow
  <2>15. ASSUME NEW c \in Proc, PrepareLatest(c) PROVE TypeOK'
    BY <2>15 DEF PrepareLatest, Dir, Place
  <2>16. ASSUME NEW c \in Proc, CollectSource(c) PROVE TypeOK'
    <3>1. ASSUME NEW s \in Source PROVE FileWritten(proj[c], s, own[c]) \subseteq Dir
      <4> DEFINE W(d) == IF d.project = proj[c] /\ d.name = Latest
                           THEN [d EXCEPT !.content[s] = own[c],
                                          !.mtime = IF d.content[s] = 0 THEN now ELSE @]
                           ELSE d
      <4>1. ASSUME NEW d \in dirs PROVE W(d) \in Dir
        <5>1. (IF d.content[s] = 0 THEN now ELSE d.mtime) \in Nat
          BY DEF Dir
        <5> QED BY <5>1 DEF Dir
      <4>2. FileWritten(proj[c], s, own[c]) = {W(d) : d \in dirs}
        BY DEF FileWritten
      <4> HIDE DEF W
      <4> QED BY <4>1, <4>2
    <3>2. dirs' \subseteq Dir
      BY <2>16, <3>1 DEF CollectSource
    <3> QED BY <2>16, <3>2 DEF CollectSource
  <2>17. ASSUME NEW c \in Proc, FinishWorker(c) PROVE TypeOK'
    BY <2>17 DEF FinishWorker, Forget
  <2>18. ASSUME NEW c \in Proc, CancelCollect(c) PROVE TypeOK'
    BY <2>18 DEF CancelCollect
  <2>19. ASSUME NEW c \in Proc, CancelDrain(c) PROVE TypeOK'
    BY <2>19 DEF CancelDrain
  <2>20. ASSUME NEW c \in Proc, SaveSource(c) PROVE TypeOK'
    <3>1. PICK r \in rows, s \in todo[c] :
            /\ Replace(r, [r EXCEPT !.files[s] = IF s \in got[c] THEN Latest ELSE NoFile])
            /\ todo' = [todo EXCEPT ![c] = @ \ {s}]
      BY <2>20 DEF SaveSource
    <3>2. (IF s \in got[c] THEN Latest ELSE NoFile) \in Place \union {NoFile}
      BY DEF Place
    <3>3. rows' \subseteq Row
      BY <3>1, <3>2 DEF Replace, Row
    <3> QED BY <2>20, <3>1, <3>3 DEF SaveSource
  <2>21. ASSUME NEW c \in Proc, UpdateResolvedKeys(c) PROVE TypeOK'
    <3>1. PICK r \in rows : Replace(r, [r EXCEPT !.resolved = got[c]])
      BY <2>21 DEF UpdateResolvedKeys
    <3>2. rows' \subseteq Row
      BY <3>1 DEF Replace, Row
    <3> QED BY <2>21, <3>2 DEF UpdateResolvedKeys
  <2>22. ASSUME NEW c \in Proc, Interrupt(c) PROVE TypeOK'
    BY <2>22 DEF Interrupt, Forget
  <2> QED
    BY <2>1, <2>2, <2>3, <2>4, <2>5, <2>6, <2>7, <2>8, <2>9, <2>10, <2>11, <2>12, <2>13,
       <2>14, <2>15, <2>16, <2>17, <2>18, <2>19, <2>20, <2>21, <2>22
       DEF Next, Progress, Disturb, Archive, Prune, Publish
<1> QED BY <1>1, <1>2, PTL DEF Spec
-----------------------------------------------------------------------------
(* The store invariant.                                                    *)

\* Two versions of one row that differ in their source rows only.
SameHeader(r, q) == r.id = q.id /\ r.project = q.project /\ r.at = q.at /\ r.state = q.state

\* A step that updates the source rows, or the resolved keys, of one row.
RowRewritten == \E r \in rows : \E q : SameHeader(r, q) /\ Replace(r, q)

LEMMA Rewrites ==
  ASSUME TypeOK, NEW c \in Proc,
         RelinkSource(c) \/ SaveSource(c) \/ UpdateResolvedKeys(c)
  PROVE  RowRewritten
<1>1. CASE RelinkSource(c)
  <2>1. PICK r \in rows, s \in todo[c] :
          Replace(r, [r EXCEPT !.files[s] = ArchivedFile(@, ArchiveName(r))])
    BY <1>1 DEF RelinkSource
  <2>2. SameHeader(r, [r EXCEPT !.files[s] = ArchivedFile(@, ArchiveName(r))])
    BY DEF SameHeader, TypeOK, Row
  <2> QED BY <2>1, <2>2 DEF RowRewritten
<1>2. CASE SaveSource(c)
  <2>1. PICK r \in rows, s \in todo[c] :
          Replace(r, [r EXCEPT !.files[s] = IF s \in got[c] THEN Latest ELSE NoFile])
    BY <1>2 DEF SaveSource
  <2>2. SameHeader(r, [r EXCEPT !.files[s] = IF s \in got[c] THEN Latest ELSE NoFile])
    BY DEF SameHeader, TypeOK, Row
  <2> QED BY <2>1, <2>2 DEF RowRewritten
<1>3. CASE UpdateResolvedKeys(c)
  <2>1. PICK r \in rows : Replace(r, [r EXCEPT !.resolved = got[c]])
    BY <1>3 DEF UpdateResolvedKeys
  <2>2. SameHeader(r, [r EXCEPT !.resolved = got[c]])
    BY DEF SameHeader, TypeOK, Row
  <2> QED BY <2>1, <2>2 DEF RowRewritten
<1> QED BY <1>1, <1>2, <1>3

LEMMA RewriteKeepsHeaders ==
  ASSUME RowRewritten
  PROVE  /\ \A q \in rows' : \E r \in rows : SameHeader(r, q)
         /\ \A r \in rows : \E q \in rows' : SameHeader(r, q)
BY DEF RowRewritten, Replace, SameHeader

LEMMA RewriteKeepsInv ==
  ASSUME TypeOK, StoreInv, RowRewritten, NEW c \in Proc,
         pc[c] \in {"relink", "save"},
         pc' \in {pc, [pc EXCEPT ![c] = "release"]},
         UNCHANGED <<nextId, dirs, lock, proj, old, own, cutoff, doomed, now>>
  PROVE  StoreInv'
<1> USE DEF TypeOK, StoreInv, HoldsLock, Step
<1>0. PICK r \in rows : \E q : SameHeader(r, q) /\ rows' = (rows \ {r}) \union {q}
  BY DEF RowRewritten, Replace
<1>1. PICK q : SameHeader(r, q) /\ rows' = (rows \ {r}) \union {q}
  BY <1>0
<1>2. /\ \A y \in rows' : \E x \in rows : SameHeader(x, y)
      /\ \A x \in rows : \E y \in rows' : SameHeader(x, y)
  BY RewriteKeepsHeaders
<1>3. LockHeld'
  BY DEF LockHeld
<1>4. RowsNumbered'
  BY <1>1 DEF RowsNumbered, SameHeader
<1>5. AtMostOneLatest'
  BY <1>1 DEF AtMostOneLatest, SameHeader, RowsNumbered
<1>6. RowInHand'
  BY <1>2 DEF RowInHand, SameHeader, LatestRows
<1>7. NoneWhilePruning'
  BY <1>2 DEF NoneWhilePruning, SameHeader, LatestRows
<1>8. LatestMoved'
  BY DEF LatestMoved, DirAt
<1>9. DirsDated'
  BY <1>2 DEF DirsDated, SameHeader, LatestRows
<1>10. PruneDated'
  BY DEF PruneDated
<1> QED BY <1>3, <1>4, <1>5, <1>6, <1>7, <1>8, <1>9, <1>10

LEMMA CreateKeepsInv ==
  ASSUME TypeOK, TypeOK', StoreInv, NEW c \in Proc, CreateRow(c)
  PROVE  StoreInv'
<1> USE ConstantsAssumption DEF TypeOK, StoreInv, Go, HoldsLock, Step
<1>1. PICK n \in Row :
        /\ rows' = rows \union {n}
        /\ n.id = nextId /\ n.project = proj[c] /\ n.at = now' /\ n.state = "latest"
  <2> DEFINE n == [id |-> nextId, project |-> proj[c], at |-> now', state |-> "latest",
                   files |-> [s \in Source |-> NoFile], resolved |-> {}]
  <2>1. rows' = rows \union {n}
    BY DEF CreateRow
  <2>2. n \in Row
    BY DEF Row, CreateRow
  <2> QED BY <2>1, <2>2
<1>2. now <= now' /\ nextId' = nextId + 1 /\ UNCHANGED <<dirs, lock, proj, old, cutoff, doomed>>
  BY DEF CreateRow
<1>3. pc[c] = "prune" /\ pc' = [pc EXCEPT ![c] = "prepare"] /\ own' = [own EXCEPT ![c] = nextId]
  BY DEF CreateRow
<1>4. LatestRows(proj[c]) = {}
  BY <1>3 DEF NoneWhilePruning
<1>5. LockHeld'
  BY <1>2, <1>3 DEF LockHeld
<1>6. RowsNumbered'
  BY <1>1, <1>2 DEF RowsNumbered, Row
<1>7. AtMostOneLatest'
  BY <1>1, <1>4 DEF AtMostOneLatest, LatestRows
<1>8. RowInHand'
  BY <1>1, <1>2, <1>3 DEF RowInHand, LatestRows, LockHeld
<1>9. NoneWhilePruning'
  BY <1>1, <1>2, <1>3 DEF NoneWhilePruning, LatestRows, LockHeld
<1>10. LatestMoved'
  BY <1>2, <1>3 DEF LatestMoved, DirAt
<1>11. DirsDated'
  BY <1>1, <1>2 DEF DirsDated, LatestRows, Dir
<1>12. PruneDated'
  BY <1>2, <1>3 DEF PruneDated
<1> QED BY <1>5, <1>6, <1>7, <1>8, <1>9, <1>10, <1>11, <1>12

LEMMA CollectKeepsInv ==
  ASSUME TypeOK, TypeOK', StoreInv, NEW c \in Proc, CollectSource(c)
  PROVE  StoreInv'
<1> USE DEF TypeOK, StoreInv, HoldsLock
<1>1. UNCHANGED <<rows, nextId, lock, pc, proj, old, own, cutoff, doomed, now>>
  BY DEF CollectSource, world
<1>2. \A e \in dirs' : \E d \in dirs :
        /\ d.project = e.project /\ d.name = e.name
        /\ d.mtime <= e.mtime /\ e.mtime <= now
  <2>1. CASE UNCHANGED dirs
    BY <2>1 DEF Dir, DirsDated
  <2>2. CASE \E s \in todo[c] : dirs' = FileWritten(proj[c], s, own[c])
    <3>1. PICK s \in todo[c] : dirs' = FileWritten(proj[c], s, own[c])
      BY <2>2
    <3> DEFINE W(d) == IF d.project = proj[c] /\ d.name = Latest
                         THEN [d EXCEPT !.content[s] = own[c],
                                        !.mtime = IF d.content[s] = 0 THEN now ELSE @]
                         ELSE d
    <3>2. dirs' = {W(d) : d \in dirs}
      BY <3>1 DEF FileWritten
    <3>3. ASSUME NEW d \in dirs
          PROVE  /\ d.project = W(d).project /\ d.name = W(d).name
                 /\ d.mtime <= W(d).mtime /\ W(d).mtime <= now
      <4>1. d \in Dir /\ d.mtime <= now
        BY DEF DirsDated
      <4>2. CASE d.project = proj[c] /\ d.name = Latest
        <5> DEFINE at == IF d.content[s] = 0 THEN now ELSE d.mtime
        <5>1. W(d) = [d EXCEPT !.content[s] = own[c], !.mtime = at]
          BY <4>2
        <5>2. d.mtime <= at /\ at <= now
          BY <4>1 DEF Dir
        <5> HIDE DEF at, W
        <5>3. /\ W(d).project = d.project /\ W(d).name = d.name
              /\ W(d).mtime = at
          BY <4>1, <5>1 DEF Dir
        <5> QED BY <5>2, <5>3
      <4>3. CASE ~(d.project = proj[c] /\ d.name = Latest)
        BY <4>1, <4>3 DEF Dir
      <4> QED BY <4>2, <4>3
    <3> HIDE DEF W
    <3> QED BY <3>2, <3>3
  <2> QED BY <2>1, <2>2 DEF CollectSource
<1>3. LockHeld' /\ RowsNumbered' /\ AtMostOneLatest' /\ RowInHand' /\ NoneWhilePruning' /\ PruneDated'
  BY <1>1 DEF LockHeld, RowsNumbered, AtMostOneLatest, RowInHand, NoneWhilePruning, PruneDated, LatestRows
<1>4. LatestMoved'
  BY <1>1, <1>2 DEF LatestMoved, DirAt
<1>5. DirsDated'
  BY <1>1, <1>2 DEF DirsDated, LatestRows, Row, Dir, Place
<1> QED BY <1>3, <1>4, <1>5

\* StoreInv is inductive: no step and no interruption breaks it.
LEMMA StoreInvStep == TypeOK /\ TypeOK' /\ StoreInv /\ [Next]_vars => StoreInv'
<1> SUFFICES ASSUME TypeOK, TypeOK', StoreInv, [Next]_vars PROVE StoreInv'
  OBVIOUS
<1>1. ASSUME NEW c \in Proc, RelinkSource(c) PROVE StoreInv'
  BY <1>1, Rewrites, RewriteKeepsInv DEF RelinkSource, world
<1>2. ASSUME NEW c \in Proc, SaveSource(c) PROVE StoreInv'
  BY <1>2, Rewrites, RewriteKeepsInv DEF SaveSource, world
<1>3. ASSUME NEW c \in Proc, UpdateResolvedKeys(c) PROVE StoreInv'
  BY <1>3, Rewrites, RewriteKeepsInv DEF UpdateResolvedKeys, Go, locals, world
<1>4. ASSUME NEW c \in Proc, CreateRow(c) PROVE StoreInv'
  BY <1>4, CreateKeepsInv
<1>5. ASSUME NEW c \in Proc, CollectSource(c) PROVE StoreInv'
  BY <1>5, CollectKeepsInv
<1> USE ConstantsAssumption
    DEF TypeOK, StoreInv, Go, store, locals, world, HoldsLock, Step, LockHeld, RowsNumbered,
        AtMostOneLatest, RowInHand, NoneWhilePruning, LatestMoved, DirsDated, PruneDated,
        LatestRows, DirAt, Row, Dir, Place
<1>6. CASE Tick
  BY <1>6, SMTT(30) DEF Tick
<1>7. ASSUME NEW c \in Proc, Begin(c) PROVE StoreInv'
  BY <1>7, SMTT(30) DEF Begin
<1>8. ASSUME NEW c \in Proc, Acquire(c) PROVE StoreInv'
  BY <1>8, SMTT(30) DEF Acquire
<1>9. ASSUME NEW c \in Proc, Release(c) PROVE StoreInv'
  BY <1>9, SMTT(30) DEF Release, Forget
<1>10. ASSUME NEW c \in Proc, LookupLatest(c) PROVE StoreInv'
  BY <1>10, SMTT(30) DEF LookupLatest
<1>11. ASSUME NEW c \in Proc, ClearArchivePath(c) PROVE StoreInv'
  BY <1>11, SMTT(30) DEF ClearArchivePath, ArchiveName
<1>12. ASSUME NEW c \in Proc, MoveLatest(c) PROVE StoreInv'
  BY SMTT(30), <1>12, SMTT(30) DEF MoveLatest, ArchiveName
<1>13. ASSUME NEW c \in Proc, MarkArchived(c) PROVE StoreInv'
  BY <1>13, SMTT(30) DEF MarkArchived, Replace
<1>14. ASSUME NEW c \in Proc, ListArchives(c) PROVE StoreInv'
  BY <1>14, SMTT(30) DEF ListArchives, Cutoff
<1>15. ASSUME NEW c \in Proc, PruneArchiveDir(c) PROVE StoreInv'
  BY <1>15, SMTT(30) DEF PruneArchiveDir, Expired, Claiming
<1>16. ASSUME NEW c \in Proc, DeleteArchivedRow(c) PROVE StoreInv'
  BY <1>16, SMTT(30) DEF DeleteArchivedRow, Claiming, ArchivedRows
<1>17. ASSUME NEW c \in Proc, PrepareLatest(c) PROVE StoreInv'
  BY <1>17, SMTT(30) DEF PrepareLatest
<1>18. ASSUME NEW c \in Proc, FinishWorker(c) PROVE StoreInv'
  BY <1>18, SMTT(30) DEF FinishWorker, Forget
<1>19. ASSUME NEW c \in Proc, CancelCollect(c) PROVE StoreInv'
  BY <1>19, SMTT(30) DEF CancelCollect
<1>20. ASSUME NEW c \in Proc, CancelDrain(c) PROVE StoreInv'
  BY <1>20, SMTT(30) DEF CancelDrain
<1>21. ASSUME NEW c \in Proc, Interrupt(c) PROVE StoreInv'
  BY <1>21, SMTT(30) DEF Interrupt, Forget
<1>22. CASE UNCHANGED vars
  BY <1>22 DEF vars
<1> QED
  BY <1>1, <1>2, <1>3, <1>4, <1>5, <1>6, <1>7, <1>8, <1>9, <1>10, <1>11, <1>12,
     <1>13, <1>14, <1>15, <1>16, <1>17, <1>18, <1>19, <1>20, <1>21, <1>22
     DEF Next, Progress, Disturb, Archive, Prune, Publish

LEMMA StoreInvInit == Init => StoreInv
BY ConstantsAssumption
   DEF Init, StoreInv, LockHeld, RowsNumbered, AtMostOneLatest, RowInHand, NoneWhilePruning,
       LatestMoved, DirsDated, PruneDated, HoldsLock

\* The invariant of the rows and the directories holds whatever is interrupted, and
\* wherever: at every step of every collection.
THEOREM StoreInvariant == Spec => []StoreInv
<1>1. TypeOK /\ TypeOK' /\ StoreInv /\ [Next]_vars => StoreInv'
  BY StoreInvStep
<1> QED BY <1>1, StoreInvInit, TypeCorrect, PTL DEF Spec

\* No project ever has two latest snapshots, under any interruption.
THEOREM OneLatest == Spec => []AtMostOneLatest
<1>1. StoreInv => AtMostOneLatest
  BY DEF StoreInv
<1> QED BY <1>1, StoreInvariant, PTL

-----------------------------------------------------------------------------
(* The lock, when no collection is cancelled while it already drains.      *)

\* CancelDrain is the only way to a detached worker.
NoneDetached == \A c \in Proc : pc[c] # "detached"

LEMMA StaysAttached ==
  ASSUME MaxCancel < 2
  PROVE  TypeOK /\ NoneDetached /\ [Next]_vars => NoneDetached'
<1> SUFFICES ASSUME TypeOK, NoneDetached, [Next]_vars, NEW d \in Proc PROVE pc'[d] # "detached"
  BY DEF NoneDetached
<1>1. CASE UNCHANGED pc
  BY <1>1 DEF NoneDetached
<1>2. ASSUME NEW c \in Proc, NEW from \in Step, NEW to \in Step \ {"detached"}, Go(c, from, to)
      PROVE  pc'[d] # "detached"
  BY <1>2 DEF Go, NoneDetached, TypeOK
<1>3. ASSUME NEW c \in Proc, Begin(c) \/ Acquire(c) \/ Release(c) PROVE pc'[d] # "detached"
  BY <1>2, <1>3 DEF Begin, Acquire, Release, Step, HoldsLock
<1>4. ASSUME NEW c \in Proc, Archive(c) PROVE pc'[d] # "detached"
  BY <1>1, <1>2, <1>4 DEF Archive, LookupLatest, ClearArchivePath, MoveLatest, RelinkSource,
                        MarkArchived, Step, HoldsLock
<1>5. ASSUME NEW c \in Proc, Prune(c) PROVE pc'[d] # "detached"
  BY <1>2, <1>5 DEF Prune, ListArchives, PruneArchiveDir, DeleteArchivedRow, Step, HoldsLock
<1>6. ASSUME NEW c \in Proc, Publish(c) PROVE pc'[d] # "detached"
  BY <1>1, <1>2, <1>6 DEF Publish, CreateRow, PrepareLatest, CollectSource, FinishWorker,
                        SaveSource, UpdateResolvedKeys, Step, HoldsLock
<1>7. ASSUME NEW c \in Proc, Disturb(c) PROVE pc'[d] # "detached"
  <2>1. CASE CancelCollect(c)
    BY <1>2, <2>1 DEF CancelCollect, Step, HoldsLock
  <2>2. CASE CancelDrain(c)
    BY <2>2, ConstantsAssumption DEF CancelDrain
  <2>3. CASE Interrupt(c)
    BY <2>3 DEF Interrupt, NoneDetached, TypeOK
  <2> QED BY <1>7, <2>1, <2>2, <2>3 DEF Disturb
<1>8. CASE Tick
  BY <1>1, <1>8 DEF Tick
<1>9. CASE UNCHANGED vars
  BY <1>1, <1>9 DEF vars
<1> QED BY <1>3, <1>4, <1>5, <1>6, <1>7, <1>8, <1>9 DEF Next, Progress

\* A worker thread never outlives its collection's hold on the lock, provided the
\* wait for it is not itself cancelled.
THEOREM WorkersInside ==
  ASSUME MaxCancel < 2
  PROVE  Spec => []WorkerInsideLock
<1>1. Init => NoneDetached
  BY DEF Init, NoneDetached
<1>2. TypeOK /\ NoneDetached /\ [Next]_vars => NoneDetached'
  BY StaysAttached
<1>3. StoreInv /\ NoneDetached => WorkerInsideLock
  BY DEF StoreInv, LockHeld, NoneDetached, WorkerInsideLock, WorkerRuns, HoldsLock
<1> QED BY <1>1, <1>2, <1>3, TypeCorrect, StoreInvariant, PTL DEF Spec

\* Under the same proviso no two collections, of whatever projects, change the
\* store at once.
THEOREM OneWriter ==
  ASSUME MaxCancel < 2
  PROVE  Spec => []SingleWriter
<1>1. Init => NoneDetached
  BY DEF Init, NoneDetached
<1>2. TypeOK /\ NoneDetached /\ [Next]_vars => NoneDetached'
  BY StaysAttached
<1>3. StoreInv /\ NoneDetached => SingleWriter
  BY DEF StoreInv, LockHeld, NoneDetached, SingleWriter, Writes
<1> QED BY <1>1, <1>2, <1>3, TypeCorrect, StoreInvariant, PTL DEF Spec

-----------------------------------------------------------------------------
(* The refinement: initial states map to the initial state of                *)
(* SnapshotHistory, and every step maps to one of its steps or a stutter.   *)

\* What the abstract specification sees of a state.
Seen == <<CurrentRevisions, RetiredRevisions, nextId, now>>

LEMMA Stutters ==
  ASSUME UNCHANGED Seen
  PROVE  UNCHANGED History!hvars
BY DEF Seen, History!hvars

LEMMA UntouchedRows ==
  ASSUME UNCHANGED <<rows, nextId, now>>
  PROVE  UNCHANGED Seen
BY DEF Seen, CurrentRevisions, RetiredRevisions, LatestRows, ArchivedRows, Revisions

\* Updating source rows is invisible in the history.
LEMMA RewriteUnseen ==
  ASSUME RowRewritten
  PROVE  UNCHANGED <<CurrentRevisions, RetiredRevisions>>
<1>1. /\ \A y \in rows' : \E x \in rows : SameHeader(x, y)
      /\ \A x \in rows : \E y \in rows' : SameHeader(x, y)
  BY RewriteKeepsHeaders
<1>2. ASSUME NEW p \in Project
      PROVE  Revisions(LatestRows(p))' = Revisions(LatestRows(p))
  <2>1. \A y \in LatestRows(p)' : \E x \in LatestRows(p) : x.id = y.id /\ x.at = y.at
    BY <1>1 DEF LatestRows, SameHeader
  <2>2. \A x \in LatestRows(p) : \E y \in LatestRows(p)' : x.id = y.id /\ x.at = y.at
    BY <1>1 DEF LatestRows, SameHeader
  <2> QED BY <2>1, <2>2 DEF Revisions
<1>3. ASSUME NEW p \in Project
      PROVE  Revisions(ArchivedRows(p))' = Revisions(ArchivedRows(p))
  <2>1. \A y \in ArchivedRows(p)' : \E x \in ArchivedRows(p) : x.id = y.id /\ x.at = y.at
    BY <1>1 DEF ArchivedRows, SameHeader
  <2>2. \A x \in ArchivedRows(p) : \E y \in ArchivedRows(p)' : x.id = y.id /\ x.at = y.at
    BY <1>1 DEF ArchivedRows, SameHeader
  <2> QED BY <2>1, <2>2 DEF Revisions
<1> QED BY <1>2, <1>3 DEF CurrentRevisions, RetiredRevisions

LEMMA CreatePublishes ==
  ASSUME TypeOK, TypeOK', StoreInv, NEW c \in Proc, CreateRow(c)
  PROVE  History!PublishRevision(proj[c])
<1>1. PICK p \in Project : p = proj[c]
  BY DEF TypeOK
<1>2. PICK n : n = [id |-> nextId, project |-> p, at |-> now', state |-> "latest",
                    files |-> [s \in Source |-> NoFile], resolved |-> {}]
  OBVIOUS
<1>3. rows' = rows \union {n} /\ nextId' = nextId + 1 /\ now' \in {now, now + 1}
  BY <1>1, <1>2 DEF CreateRow, TypeOK
<1>4. LatestRows(p) = {}
  BY <1>1 DEF StoreInv, NoneWhilePruning, CreateRow, Go
<1>5. /\ LatestRows(p)' = {n}
      /\ \A q \in Project : q # p => LatestRows(q)' = LatestRows(q)
      /\ \A q \in Project : ArchivedRows(q)' = ArchivedRows(q)
  BY <1>2, <1>3, <1>4 DEF LatestRows, ArchivedRows
<1>6. Revisions(LatestRows(p)) = {}
  BY <1>4 DEF Revisions
<1>7. (nextId - 1)' = (nextId - 1) + 1 /\ (nextId - 1)' = nextId
  BY <1>3 DEF TypeOK
<1>8. PICK v : v = [id |-> nextId, at |-> now']
  OBVIOUS
<1>9. Revisions(LatestRows(p))' = {v}
  BY <1>2, <1>5, <1>8 DEF Revisions
<1>10. \A q \in Project : /\ q # p => Revisions(LatestRows(q))' = Revisions(LatestRows(q))
                          /\ Revisions(ArchivedRows(q))' = Revisions(ArchivedRows(q))
  BY <1>5 DEF Revisions
<1>11. CurrentRevisions' = [CurrentRevisions EXCEPT ![p] = {v}]
  BY <1>9, <1>10 DEF CurrentRevisions
<1>12. RetiredRevisions' = RetiredRevisions /\ CurrentRevisions[p] = {}
  BY <1>6, <1>10 DEF RetiredRevisions, CurrentRevisions
<1> QED BY <1>1, <1>3, <1>7, <1>8, <1>11, <1>12 DEF History!PublishRevision

LEMMA MarkRetires ==
  ASSUME TypeOK, StoreInv, NEW c \in Proc, MarkArchived(c)
  PROVE  History!Retire(proj[c])
<1>1. PICK p \in Project : p = proj[c]
  BY DEF TypeOK
<1>2. PICK r \in rows : r.id = old[c] /\ Replace(r, [r EXCEPT !.state = "archived"])
  BY DEF MarkArchived
<1>3. PICK a : a = [r EXCEPT !.state = "archived"]
  OBVIOUS
<1>4. PICK v : v = [id |-> r.id, at |-> r.at]
  OBVIOUS
<1>5. LatestRows(p) = {r} /\ r.project = p /\ r.state = "latest"
  BY <1>1, <1>2 DEF StoreInv, RowInHand, RowsNumbered, AtMostOneLatest, LatestRows,
                    MarkArchived, Go
<1>6. a.id = r.id /\ a.at = r.at /\ a.project = p /\ a.state = "archived"
  BY <1>3, <1>5 DEF TypeOK, Row
<1>7. rows' = (rows \ {r}) \union {a}
  BY <1>2, <1>3 DEF Replace
<1>8. /\ LatestRows(p)' = {}
      /\ ArchivedRows(p)' = ArchivedRows(p) \union {a}
      /\ \A q \in Project : q # p => /\ LatestRows(q)' = LatestRows(q)
                                     /\ ArchivedRows(q)' = ArchivedRows(q)
  <2>1. \A x : x \in rows' <=> (x \in rows /\ x # r) \/ x = a
    BY <1>7
  <2>2. LatestRows(p)' = {}
    BY <2>1, <1>5, <1>6 DEF LatestRows
  <2>3. ArchivedRows(p)' = ArchivedRows(p) \union {a}
    BY <2>1, <1>5, <1>6 DEF ArchivedRows
  <2>4. ASSUME NEW q \in Project, q # p
        PROVE  LatestRows(q)' = LatestRows(q) /\ ArchivedRows(q)' = ArchivedRows(q)
    BY <2>1, <2>4, <1>5, <1>6 DEF LatestRows, ArchivedRows
  <2> QED BY <2>2, <2>3, <2>4
<1>9. Revisions(LatestRows(p)) = {v} /\ Revisions(LatestRows(p))' = {}
  BY <1>4, <1>5, <1>8 DEF Revisions
<1>10. Revisions(ArchivedRows(p))' = Revisions(ArchivedRows(p)) \union {v}
  BY <1>4, <1>6, <1>8 DEF Revisions
<1>11. \A q \in Project : q # p => /\ Revisions(LatestRows(q))' = Revisions(LatestRows(q))
                                   /\ Revisions(ArchivedRows(q))' = Revisions(ArchivedRows(q))
  BY <1>8 DEF Revisions
<1>12. CurrentRevisions' = [CurrentRevisions EXCEPT ![p] = @ \ {v}]
  BY <1>9, <1>11 DEF CurrentRevisions
<1>13. RetiredRevisions' = [RetiredRevisions EXCEPT ![p] = @ \union {v}]
  BY <1>10, <1>11 DEF RetiredRevisions
<1>14. v \in CurrentRevisions[p]
  BY <1>9 DEF CurrentRevisions
<1>15. UNCHANGED <<nextId - 1, now>>
  BY DEF MarkArchived, world
<1> QED BY <1>1, <1>12, <1>13, <1>14, <1>15 DEF History!Retire

LEMMA DeleteForgets ==
  ASSUME TypeOK, StoreInv, NEW c \in Proc, DeleteArchivedRow(c)
  PROVE  History!Forget(proj[c])
<1>1. PICK p \in Project : p = proj[c]
  BY DEF TypeOK
<1>2. PICK r \in Claiming(p, doomed[c]) : rows' = rows \ {r}
  BY <1>1 DEF DeleteArchivedRow
<1>3. PICK v : v = [id |-> r.id, at |-> r.at]
  OBVIOUS
<1>4. r \in rows /\ r.project = p /\ r.state = "archived" /\ r.at = doomed[c]
  BY <1>2 DEF Claiming, ArchivedRows, ArchiveName
<1>5. v.at + Retention < now
  BY <1>3, <1>4 DEF StoreInv, PruneDated, DeleteArchivedRow, Go
<1>6. \A x \in rows : x.id = r.id => x = r
  BY <1>4 DEF StoreInv, RowsNumbered
<1>7. /\ ArchivedRows(p)' = ArchivedRows(p) \ {r} /\ r \in ArchivedRows(p)
      /\ \A q \in Project : /\ LatestRows(q)' = LatestRows(q)
                            /\ q # p => ArchivedRows(q)' = ArchivedRows(q)
  BY <1>2, <1>4 DEF LatestRows, ArchivedRows
<1>8. Revisions(ArchivedRows(p))' = Revisions(ArchivedRows(p)) \ {v}
  BY <1>3, <1>6, <1>7 DEF Revisions, ArchivedRows
<1>9. v \in Revisions(ArchivedRows(p))
  BY <1>3, <1>7 DEF Revisions
<1>10. \A q \in Project : /\ Revisions(LatestRows(q))' = Revisions(LatestRows(q))
                          /\ q # p => Revisions(ArchivedRows(q))' = Revisions(ArchivedRows(q))
  BY <1>7 DEF Revisions
<1>11. RetiredRevisions' = [RetiredRevisions EXCEPT ![p] = @ \ {v}]
  BY <1>8, <1>10 DEF RetiredRevisions
<1>12. v \in RetiredRevisions[p]
  BY <1>9 DEF RetiredRevisions
<1>13. CurrentRevisions' = CurrentRevisions
  BY <1>10 DEF CurrentRevisions
<1>14. UNCHANGED <<nextId - 1, now>>
  BY DEF DeleteArchivedRow, world
<1> QED BY <1>1, <1>5, <1>11, <1>12, <1>13, <1>14 DEF History!Forget

\* Every step of the collections is a step of the history, or none.
LEMMA StepImplements ==
  TypeOK /\ TypeOK' /\ StoreInv /\ [Next]_vars => [History!HNext]_(History!hvars)
<1> SUFFICES ASSUME TypeOK, TypeOK', StoreInv, [Next]_vars
             PROVE  [History!HNext]_(History!hvars)
  OBVIOUS
<1> USE DEF store, world
<1>1. CASE UNCHANGED <<rows, nextId, now>>
  BY <1>1, UntouchedRows, Stutters
<1>2. CASE RowRewritten /\ UNCHANGED <<nextId, now>>
  BY <1>2, RewriteUnseen, Stutters DEF Seen
<1>3. ASSUME NEW c \in Proc, Begin(c) \/ Acquire(c) \/ Release(c) \/ Prune(c) \/ Disturb(c)
      PROVE  [History!HNext]_(History!hvars)
  <2>1. CASE DeleteArchivedRow(c)
    BY <2>1, DeleteForgets DEF History!HNext, TypeOK
  <2> QED
    BY <1>1, <1>3, <2>1 DEF Begin, Acquire, Release, Prune, ListArchives, PruneArchiveDir,
                          Disturb, CancelCollect, CancelDrain, Interrupt
<1>4. ASSUME NEW c \in Proc, Archive(c) PROVE [History!HNext]_(History!hvars)
  <2>1. CASE MarkArchived(c)
    BY <2>1, MarkRetires DEF History!HNext, TypeOK
  <2>2. CASE RelinkSource(c)
    BY <1>2, <2>2, Rewrites DEF RelinkSource
  <2> QED
    BY <1>1, <1>4, <2>1, <2>2 DEF Archive, LookupLatest, ClearArchivePath, MoveLatest
<1>5. ASSUME NEW c \in Proc, Publish(c) PROVE [History!HNext]_(History!hvars)
  <2>1. CASE CreateRow(c)
    BY <2>1, CreatePublishes DEF History!HNext, TypeOK
  <2>2. CASE SaveSource(c) \/ UpdateResolvedKeys(c)
    BY <1>2, <2>2, Rewrites DEF SaveSource, UpdateResolvedKeys
  <2> QED
    BY <1>1, <1>5, <2>1, <2>2 DEF Publish, PrepareLatest, CollectSource, FinishWorker
<1>6. CASE Tick
  <2>1. UNCHANGED <<CurrentRevisions, RetiredRevisions, nextId - 1>> /\ now' = now + 1
    BY <1>6 DEF Tick, CurrentRevisions, RetiredRevisions, LatestRows, ArchivedRows, Revisions
  <2> QED BY <2>1 DEF History!HNext, History!Pass
<1>7. CASE UNCHANGED vars
  BY <1>1, <1>7 DEF vars
<1> QED BY <1>3, <1>4, <1>5, <1>6, <1>7 DEF Next, Progress

\* The rows of collect_logs never show a history the abstract specification forbids:
\* whatever is interrupted, revisions are published one at a time, retired before the
\* next, and forgotten only when older than the retention.
THEOREM Refinement == Spec => ImplementsHistory
<1>1. Init => History!HInit
  BY DEF Init, History!HInit, CurrentRevisions, RetiredRevisions, LatestRows, ArchivedRows,
         Revisions
<1>2. TypeOK /\ TypeOK' /\ StoreInv /\ [Next]_vars => [History!HNext]_(History!hvars)
  BY StepImplements
<1> QED
  BY <1>1, <1>2, TypeCorrect, StoreInvariant, PTL DEF Spec, ImplementsHistory, History!HSpec

-----------------------------------------------------------------------------
(* Resolved keys.                                                          *)

\* The row of a collection has no resolved keys until they are written, and by
\* then every source it saved as collected has a file.
OwnUnresolved ==
  \A c \in Proc, r \in rows :
    pc[c] \in {"prepare", "collect", "drain", "save"} /\ r.id = own[c] => r.resolved = {}

SavedHaveFiles ==
  \A c \in Proc, r \in rows :
    pc[c] = "save" /\ r.id = own[c] => \A s \in got[c] \ todo[c] : r.files[s] # NoFile

ResolvedInv == ResolvedBacked /\ OwnUnresolved /\ SavedHaveFiles

LEMMA ResolvedStep == TypeOK /\ TypeOK' /\ StoreInv /\ ResolvedInv /\ [Next]_vars => ResolvedInv'
<1> SUFFICES ASSUME TypeOK, TypeOK', StoreInv, ResolvedInv, [Next]_vars PROVE ResolvedInv'
  OBVIOUS
<1> USE ConstantsAssumption
    DEF TypeOK, StoreInv, Go, HoldsLock, store, locals, world, LockHeld,
        RowsNumbered, ResolvedInv, ResolvedBacked, OwnUnresolved, SavedHaveFiles, Row
<1>1. ASSUME NEW c \in Proc, Begin(c) PROVE ResolvedInv'
  BY <1>1, SMTT(30) DEF Begin
<1>2. ASSUME NEW c \in Proc, Acquire(c) PROVE ResolvedInv'
  BY <1>2, SMTT(30) DEF Acquire
<1>3. ASSUME NEW c \in Proc, Release(c) PROVE ResolvedInv'
  BY <1>3, SMTT(30) DEF Release, Forget
<1>4. ASSUME NEW c \in Proc, LookupLatest(c) PROVE ResolvedInv'
  BY <1>4, SMTT(30) DEF LookupLatest
<1>5. ASSUME NEW c \in Proc, ClearArchivePath(c) PROVE ResolvedInv'
  BY <1>5, SMTT(30) DEF ClearArchivePath
<1>6. ASSUME NEW c \in Proc, MoveLatest(c) PROVE ResolvedInv'
  BY <1>6, SMTT(30) DEF MoveLatest
<1>7. ASSUME NEW c \in Proc, RelinkSource(c) PROVE ResolvedInv'
  BY <1>7, SMTT(30) DEF RelinkSource, Replace, ArchivedFile, ArchiveName
<1>8. ASSUME NEW c \in Proc, MarkArchived(c) PROVE ResolvedInv'
  BY <1>8, SMTT(30) DEF MarkArchived, Replace
<1>9. ASSUME NEW c \in Proc, ListArchives(c) PROVE ResolvedInv'
  BY <1>9, SMTT(30) DEF ListArchives
<1>10. ASSUME NEW c \in Proc, PruneArchiveDir(c) PROVE ResolvedInv'
  BY <1>10, SMTT(30) DEF PruneArchiveDir
<1>11. ASSUME NEW c \in Proc, DeleteArchivedRow(c) PROVE ResolvedInv'
  BY <1>11, SMTT(30) DEF DeleteArchivedRow, Claiming, ArchivedRows
<1>12. ASSUME NEW c \in Proc, CreateRow(c) PROVE ResolvedInv'
  BY <1>12, SMTT(30) DEF CreateRow
<1>13. ASSUME NEW c \in Proc, PrepareLatest(c) PROVE ResolvedInv'
  BY <1>13, SMTT(30) DEF PrepareLatest
<1>14. ASSUME NEW c \in Proc, CollectSource(c) PROVE ResolvedInv'
  <2>1. UNCHANGED <<rows, own, pc>> /\ pc[c] # "save"
    BY <1>14 DEF CollectSource, WorkerRuns
  <2>2. \A d \in Proc : d # c => got'[d] = got[d] /\ todo'[d] = todo[d]
    BY <1>14 DEF CollectSource
  <2> QED BY <2>1, <2>2
<1>15. ASSUME NEW c \in Proc, FinishWorker(c) PROVE ResolvedInv'
  BY <1>15, SMTT(30) DEF FinishWorker, Forget
<1>16. ASSUME NEW c \in Proc, CancelCollect(c) PROVE ResolvedInv'
  BY <1>16, SMTT(30) DEF CancelCollect
<1>17. ASSUME NEW c \in Proc, CancelDrain(c) PROVE ResolvedInv'
  BY <1>17, SMTT(30) DEF CancelDrain
<1>18. ASSUME NEW c \in Proc, SaveSource(c) PROVE ResolvedInv'
  BY <1>18, SMTT(30) DEF SaveSource, Replace
<1>19. ASSUME NEW c \in Proc, UpdateResolvedKeys(c) PROVE ResolvedInv'
  BY <1>19, SMTT(30) DEF UpdateResolvedKeys, Replace
<1>20. ASSUME NEW c \in Proc, Interrupt(c) PROVE ResolvedInv'
  BY <1>20, SMTT(30) DEF Interrupt, Forget
<1>21. CASE Tick
  BY <1>21 DEF Tick
<1>22. CASE UNCHANGED vars
  BY <1>22 DEF vars
<1> QED
  BY <1>1, <1>2, <1>3, <1>4, <1>5, <1>6, <1>7, <1>8, <1>9, <1>10, <1>11, <1>12,
     <1>13, <1>14, <1>15, <1>16, <1>17, <1>18, <1>19, <1>20, <1>21, <1>22
     DEF Next, Progress, Disturb, Archive, Prune, Publish

\* A source that a row lists as resolved has a file in it, at every step and
\* whatever is interrupted or cancelled: the keys are written after the source rows.
THEOREM ResolvedHaveFiles == Spec => []ResolvedBacked
<1>1. Init => ResolvedInv
  BY DEF Init, ResolvedInv, ResolvedBacked, OwnUnresolved, SavedHaveFiles
<1>2. TypeOK /\ TypeOK' /\ StoreInv /\ ResolvedInv /\ [Next]_vars => ResolvedInv'
  BY ResolvedStep
<1>3. ResolvedInv => ResolvedBacked
  BY DEF ResolvedInv
<1> QED BY <1>1, <1>2, <1>3, TypeCorrect, StoreInvariant, PTL DEF Spec

-----------------------------------------------------------------------------
(* Files.                                                                  *)

\* What the statements about files need: collections of a project do not share
\* a second, a worker thread is waited for, and neither the move nor the removal
\* of an archive is torn from its row.
MovesWhole == OnePerSecond /\ MaxCancel < 2 /\ InterruptAt \cap {"relink", "unrow"} = {}

DatesDistinct == \A r, q \in rows : r.project = q.project /\ r.at = q.at => r = q

DirsUnique == \A d, e \in dirs : d.project = e.project /\ d.name = e.name => d = e

Relinked(r) == \E c \in Proc : pc[c] = "relink" /\ old[c] = r.id

\* A row names its files by its own state.
FilesNamed ==
  \A r \in rows, s \in Source :
    /\ r.files[s] \in {NoFile, Latest, r.at}
    /\ r.state = "latest" /\ ~Relinked(r) => r.files[s] # r.at
    /\ r.state = "archived" => r.files[s] # Latest

\* An archive's directory is that of a row, which is archived or about to be.
ArchivesHaveRows ==
  \A d \in dirs : d.name # Latest =>
    \E r \in rows : r.project = d.project /\ r.at = d.name /\ (r.state = "archived" \/ Relinked(r))

\* Before the move the new name is free; after a removal nothing has the old one.
NameFree ==
  /\ \A c \in Proc, r \in rows :
       pc[c] = "move" /\ r.id = old[c] => DirAt(proj[c], r.at) = {}
  /\ \A c \in Proc : pc[c] = "unrow" => DirAt(proj[c], doomed[c]) = {}
  /\ \A c \in Proc : pc[c] = "prepare" => DirAt(proj[c], Latest) = {}

\* While its files are renamed one by one, a row's lines are in the archive.
MovedBacked ==
  \A c \in Proc, r \in rows : pc[c] = "relink" /\ r.id = old[c] =>
    \A s \in Source :
      /\ r.files[s] # NoFile => \E d \in DirAt(r.project, r.at) : d.content[s] = r.id
      /\ s \notin todo[c] => r.files[s] # Latest

\* The row of a collection is its project's latest, without files until they
\* are saved.
OwnLatest ==
  \A c \in Proc : pc[c] \in {"prepare", "collect", "drain", "save"} =>
    \E r \in LatestRows(proj[c]) :
      /\ r.id = own[c]
      /\ pc[c] # "save" => \A s \in Source : r.files[s] = NoFile

\* What a collection has got is in its directory, what it has still to do is not.
GotWritten ==
  \A c \in Proc :
    /\ pc[c] \in {"collect", "drain", "save"} =>
         \A s \in got[c] : \E d \in DirAt(proj[c], Latest) : d.content[s] = own[c]
    /\ pc[c] \in {"collect", "drain"} =>
         \A s \in todo[c] : \A d \in DirAt(proj[c], Latest) : d.content[s] = 0
    /\ pc[c] \notin {"collect", "drain", "save", "release"} => got[c] = {}

FilesInv ==
  /\ NoneDetached /\ DatesDistinct /\ DirsUnique /\ FilesNamed /\ ArchivesHaveRows
  /\ NameFree /\ MovedBacked /\ OwnLatest /\ GotWritten /\ FilesBacked

\* The steps that need more than their definition. Each changes the rows or the
\* directories of one project, whose lock its collection holds.
LEMMA ClearKeepsFiles ==
  ASSUME TypeOK, StoreInv, FilesInv, NEW c \in Proc, ClearArchivePath(c)
  PROVE  FilesInv'
<1>1. PICK r \in rows : r.id = old[c] /\ dirs' = dirs \ DirAt(proj[c], r.at)
  BY DEF ClearArchivePath, ArchiveName
<1>2. /\ UNCHANGED <<rows, proj, old, own, got, todo, doomed, lock>>
      /\ pc[c] = "clear" /\ pc' = [pc EXCEPT ![c] = "move"]
  BY DEF ClearArchivePath, Go, locals
<1>3. \A d \in Proc : pc[d] \in HoldsLock => d = c
  BY <1>2 DEF StoreInv, LockHeld, HoldsLock
<1>4. \A q \in rows : ~Relinked(q) /\ ~Relinked(q)' /\ ~InTransit(q)
  BY <1>2, <1>3 DEF Relinked, InTransit, HoldsLock, TypeOK
<1>5. r \in LatestRows(proj[c]) /\ r.at # Latest
  BY <1>1, <1>2, ConstantsAssumption
     DEF StoreInv, RowInHand, RowsNumbered, LatestRows, TypeOK, Row
\* No archive has the name of the latest row: there is nothing to clear.
<1>6. dirs' = dirs
  BY <1>1, <1>4, <1>5 DEF FilesInv, ArchivesHaveRows, DatesDistinct, DirAt, LatestRows
<1>7. NoneDetached' /\ DatesDistinct' /\ DirsUnique' /\ FilesNamed' /\ ArchivesHaveRows' /\ FilesBacked'
  BY <1>2, <1>4, <1>6
     DEF FilesInv, NoneDetached, DatesDistinct, DirsUnique, FilesNamed, ArchivesHaveRows,
         FilesBacked, DirAt, TypeOK
<1>8. NameFree'
  BY <1>1, <1>2, <1>3 DEF StoreInv, RowsNumbered, NameFree, DirAt, HoldsLock, TypeOK
<1>9. MovedBacked' /\ OwnLatest' /\ GotWritten'
  BY <1>2, <1>3 DEF FilesInv, MovedBacked, OwnLatest, GotWritten, HoldsLock, TypeOK
<1> QED BY <1>7, <1>8, <1>9 DEF FilesInv

LEMMA LookupKeepsFiles ==
  ASSUME TypeOK, StoreInv, FilesInv, NEW c \in Proc, LookupLatest(c)
  PROVE  FilesInv'
<1>1. /\ UNCHANGED <<rows, dirs, proj, own, got, todo, doomed, lock>>
      /\ pc[c] = "lookup"
      /\ \/ pc' = [pc EXCEPT ![c] = "list"]
         \/ pc' = [pc EXCEPT ![c] = "clear"]
      /\ \A d \in Proc : d # c => old'[d] = old[d]
  BY DEF LookupLatest, Go, store, TypeOK
<1>2. \A d \in Proc : pc[d] \in HoldsLock => d = c
  BY <1>1 DEF StoreInv, LockHeld, HoldsLock
<1>3. \A q \in rows : ~Relinked(q) /\ ~Relinked(q)' /\ ~InTransit(q)
  BY <1>1, <1>2 DEF Relinked, InTransit, HoldsLock, TypeOK
<1>4. NoneDetached' /\ DatesDistinct' /\ DirsUnique' /\ FilesNamed' /\ ArchivesHaveRows' /\ FilesBacked'
  BY <1>1, <1>3
     DEF FilesInv, NoneDetached, DatesDistinct, DirsUnique, FilesNamed, ArchivesHaveRows,
         FilesBacked, DirAt, TypeOK
<1>5. NameFree' /\ MovedBacked'
  BY <1>1, <1>2 DEF NameFree, MovedBacked, HoldsLock, TypeOK
<1>6. OwnLatest' /\ GotWritten'
  BY <1>1, <1>2 DEF FilesInv, OwnLatest, GotWritten, HoldsLock, TypeOK
<1> QED BY <1>4, <1>5, <1>6 DEF FilesInv

\* An archive that rows claim leaves them in transit, until they are deleted.
LEMMA PruneKeepsFiles ==
  ASSUME TypeOK, StoreInv, FilesInv, NEW c \in Proc, PruneArchiveDir(c)
  PROVE  FilesInv'
<1>1. PICK x \in Expired(proj[c], cutoff[c]) :
        /\ dirs' = dirs \ {x}
        /\ doomed' = [doomed EXCEPT ![c] = x.name]
        /\ IF Claiming(proj[c], x.name) = {} THEN Go(c, "prune", "prune") ELSE Go(c, "prune", "unrow")
  BY DEF PruneArchiveDir
<1>2. /\ UNCHANGED <<rows, proj, old, own, got, todo, lock>>
      /\ pc[c] = "prune"
      /\ \/ pc' = [pc EXCEPT ![c] = "prune"] /\ Claiming(proj[c], x.name) = {}
         \/ pc' = [pc EXCEPT ![c] = "unrow"]
  BY <1>1 DEF PruneArchiveDir, Go
<1>3. \A d \in Proc : pc[d] \in HoldsLock => d = c
  BY <1>2 DEF StoreInv, LockHeld, HoldsLock
<1>4. \A q \in rows : ~Relinked(q) /\ ~Relinked(q)' /\ ~InTransit(q)
  BY <1>2, <1>3 DEF Relinked, InTransit, HoldsLock, TypeOK
<1>5. x \in dirs /\ x.project = proj[c] /\ x.name # Latest
  BY DEF Expired
<1>6. NoneDetached' /\ DatesDistinct' /\ DirsUnique' /\ FilesNamed' /\ ArchivesHaveRows'
  BY <1>1, <1>2, <1>4
     DEF FilesInv, NoneDetached, DatesDistinct, DirsUnique, FilesNamed, ArchivesHaveRows, TypeOK
<1>7. NameFree'
  <2>1. DirAt(proj[c], x.name)' = {}
    BY <1>1, <1>2, <1>5 DEF FilesInv, DirsUnique, DirAt
  <2>2. doomed'[c] = x.name
    BY <1>1 DEF TypeOK
  <2> QED BY <1>2, <1>3, <2>1, <2>2 DEF NameFree, HoldsLock, TypeOK
<1>8. MovedBacked' /\ OwnLatest' /\ GotWritten'
  BY <1>2, <1>3 DEF FilesInv, MovedBacked, OwnLatest, GotWritten, HoldsLock, TypeOK
<1>9. FilesBacked'
  <2> SUFFICES ASSUME NEW r \in rows, NEW s \in Source, r.files[s] # NoFile, ~InTransit(r)'
               PROVE  \E d \in DirAt(r.project, r.files[s])' : d.content[s] = r.id
    BY <1>2 DEF FilesBacked
  <2>1. PICK d \in DirAt(r.project, r.files[s]) : d.content[s] = r.id
    BY <1>4 DEF FilesInv, FilesBacked
  <2>2. ASSUME d = x PROVE FALSE
    <3>1. r \in Claiming(proj[c], x.name)
      BY <1>4, <1>5, <2>1, <2>2 DEF FilesInv, FilesNamed, Claiming, ArchivedRows, ArchiveName,
                                    DirAt, TypeOK, Row
    <3>2. pc'[c] = "unrow" /\ doomed'[c] = x.name
      BY <1>1, <1>2, <3>1 DEF TypeOK
    <3>3. InTransit(r)'
      BY <1>2, <3>1, <3>2 DEF InTransit, Claiming, ArchivedRows, ArchiveName
    <3> QED BY <3>3
  <2> QED BY <1>1, <2>1, <2>2 DEF DirAt
<1> QED BY <1>6, <1>7, <1>8, <1>9 DEF FilesInv

LEMMA FinishKeepsFiles ==
  ASSUME TypeOK, StoreInv, FilesInv, NEW c \in Proc, FinishWorker(c)
  PROVE  FilesInv'
<1>1. pc[c] # "detached"
  BY DEF FilesInv, NoneDetached
<1>2. /\ UNCHANGED <<rows, dirs, proj, old, own, got, doomed, lock>>
      /\ \/ pc[c] = "collect" /\ pc' = [pc EXCEPT ![c] = "save"]
         \/ pc[c] = "drain" /\ pc' = [pc EXCEPT ![c] = "release"]
  BY <1>1 DEF FinishWorker, Go, store, locals
<1>3. \A d \in Proc : pc[d] \in HoldsLock => d = c
  BY <1>2 DEF StoreInv, LockHeld, HoldsLock
<1>4. \A q \in rows : ~Relinked(q) /\ ~Relinked(q)' /\ ~InTransit(q)
  BY <1>2, <1>3 DEF Relinked, InTransit, HoldsLock, TypeOK
<1>5. NoneDetached' /\ DatesDistinct' /\ DirsUnique' /\ FilesNamed' /\ ArchivesHaveRows' /\ FilesBacked'
  BY <1>2, <1>4
     DEF FilesInv, NoneDetached, DatesDistinct, DirsUnique, FilesNamed, ArchivesHaveRows,
         FilesBacked, DirAt, TypeOK
<1>6. NameFree' /\ MovedBacked'
  BY <1>2, <1>3 DEF NameFree, MovedBacked, HoldsLock, TypeOK
<1>7. OwnLatest' /\ GotWritten'
  BY <1>2, <1>3 DEF FilesInv, OwnLatest, GotWritten, LatestRows, DirAt, HoldsLock, TypeOK
<1> QED BY <1>5, <1>6, <1>7 DEF FilesInv

LEMMA MoveKeepsFiles ==
  ASSUME TypeOK, StoreInv, FilesInv, NEW c \in Proc, MoveLatest(c)
  PROVE  FilesInv'
<1>1. PICK r \in rows :
        /\ r.id = old[c]
        /\ dirs' = (dirs \ DirAt(proj[c], Latest)) \union
                     {[d EXCEPT !.name = r.at] : d \in DirAt(proj[c], Latest)}
        /\ todo' = [todo EXCEPT ![c] = {s \in Source : r.files[s] # NoFile}]
  BY DEF MoveLatest, ArchiveName
<1>2. /\ UNCHANGED <<rows, proj, old, own, got, doomed, lock>>
      /\ pc[c] = "move" /\ pc' = [pc EXCEPT ![c] = "relink"]
  BY DEF MoveLatest, Go
<1>3. /\ r \in LatestRows(proj[c]) /\ DirAt(proj[c], r.at) = {}
      /\ r.at \in Nat /\ r.at # Latest /\ ~InTransit(r) /\ ~Relinked(r)
      /\ \A q \in LatestRows(proj[c]) : q = r
      /\ \A d \in Proc : pc[d] \in HoldsLock => d = c
  <2>1. \A d \in Proc : pc[d] \in HoldsLock => d = c
    BY <1>2 DEF StoreInv, LockHeld, HoldsLock
  <2>2. r \in LatestRows(proj[c])
    BY <1>1, <1>2 DEF StoreInv, RowInHand, RowsNumbered, LatestRows
  <2>3. DirAt(proj[c], r.at) = {}
    BY <1>1, <1>2 DEF FilesInv, NameFree
  <2>4. r.at \in Nat /\ r.at # Latest
    BY <1>1, ConstantsAssumption DEF TypeOK, Row
  <2>5. ~InTransit(r) /\ ~Relinked(r)
    BY <1>2, <2>1 DEF InTransit, Relinked, HoldsLock
  <2>6. \A q \in LatestRows(proj[c]) : q = r
    BY <2>2 DEF StoreInv, AtMostOneLatest, LatestRows
  <2> QED BY <2>1, <2>2, <2>3, <2>4, <2>5, <2>6
\* A directory is renamed, or stays as it is.
<1>4. /\ \A e \in dirs' : \/ e \in dirs /\ ~(e.project = proj[c] /\ e.name = Latest)
                          \/ \E d \in DirAt(proj[c], Latest) :
                               e.project = proj[c] /\ e.name = r.at /\ e = [d EXCEPT !.name = r.at]
      /\ \A d \in dirs : ~(d.project = proj[c] /\ d.name = Latest) => d \in dirs'
      /\ \A d \in DirAt(proj[c], Latest) : \E e \in dirs' :
           e.project = proj[c] /\ e.name = r.at /\ e.content = d.content
  <2> DEFINE moved(d) == [d EXCEPT !.name = r.at]
  <2>1. ASSUME NEW d \in DirAt(proj[c], Latest)
        PROVE  /\ moved(d).project = proj[c] /\ moved(d).name = r.at
               /\ moved(d).content = d.content
    BY DEF TypeOK, Dir, DirAt
  <2>2. dirs' = (dirs \ DirAt(proj[c], Latest)) \union {moved(d) : d \in DirAt(proj[c], Latest)}
    BY <1>1
  <2>3. \A e \in dirs' : \/ e \in dirs /\ ~(e.project = proj[c] /\ e.name = Latest)
                         \/ \E d \in DirAt(proj[c], Latest) : e = moved(d)
    <3> HIDE DEF moved
    <3> QED BY <2>2 DEF DirAt
  <2>4. \A d \in dirs : ~(d.project = proj[c] /\ d.name = Latest) => d \in dirs'
    BY <2>2 DEF DirAt
  <2>5. \A d \in DirAt(proj[c], Latest) : moved(d) \in dirs'
    BY <2>2
  <2> QED BY <2>1, <2>3, <2>4, <2>5
<1>5. \A q \in rows : Relinked(q)' <=> q = r
  BY <1>1, <1>2, <1>3 DEF Relinked, StoreInv, RowsNumbered, HoldsLock, TypeOK
<1>6. DatesDistinct' /\ NoneDetached'
  BY <1>2 DEF FilesInv, DatesDistinct, NoneDetached, TypeOK
<1>7. DirsUnique'
  BY <1>3, <1>4 DEF FilesInv, DirsUnique, DirAt
<1>8. FilesNamed'
  <2>1. \A q \in rows : ~Relinked(q)' => ~Relinked(q)
    BY <1>2, <1>3, <1>5 DEF Relinked, HoldsLock
  <2> QED BY <1>2, <2>1 DEF FilesInv, FilesNamed
<1>9. ArchivesHaveRows'
  <2>1. \A q \in rows : Relinked(q) => FALSE
    BY <1>2, <1>3 DEF Relinked, HoldsLock
  <2>2. r \in rows' /\ r.project = proj[c] /\ Relinked(r)'
    BY <1>2, <1>3, <1>5 DEF LatestRows
  <2>3. ASSUME NEW e \in dirs', e.name # Latest
        PROVE  \E q \in rows' : q.project = e.project /\ q.at = e.name
                                 /\ (q.state = "archived" \/ Relinked(q)')
    <3>1. CASE e \in dirs
      BY <1>2, <2>1, <2>3, <3>1 DEF FilesInv, ArchivesHaveRows
    <3>2. CASE e.project = proj[c] /\ e.name = r.at
      BY <2>2, <3>2
    <3> QED BY <1>4, <3>1, <3>2
  <2> QED BY <2>3 DEF ArchivesHaveRows
<1>10. NameFree'
  BY <1>2, <1>3 DEF NameFree, HoldsLock, TypeOK
<1>11. OwnLatest' /\ GotWritten'
  BY <1>2, <1>3 DEF FilesInv, OwnLatest, GotWritten, HoldsLock, TypeOK
<1>12. MovedBacked'
  <2> SUFFICES ASSUME NEW s \in Source
               PROVE  /\ r.files[s] # NoFile =>
                           \E e \in DirAt(r.project, r.at)' : e.content[s] = r.id
                      /\ s \notin todo'[c] => r.files[s] # Latest
    BY <1>2, <1>3, <1>5 DEF MovedBacked, Relinked, LatestRows, HoldsLock, TypeOK, StoreInv, RowsNumbered
  <2>1. r.files[s] \in {NoFile, Latest}
    BY <1>3 DEF FilesInv, FilesNamed, LatestRows
  <2>2. ASSUME r.files[s] # NoFile
        PROVE  \E e \in DirAt(r.project, r.at)' : e.content[s] = r.id
    <3>1. PICK d \in DirAt(r.project, Latest) : d.content[s] = r.id
      BY <1>1, <1>3, <2>1, <2>2 DEF FilesInv, FilesBacked
    <3>2. PICK e \in dirs' : e.project = proj[c] /\ e.name = r.at /\ e.content = d.content
      BY <1>3, <1>4, <3>1 DEF LatestRows
    <3> QED BY <1>3, <3>1, <3>2 DEF DirAt, LatestRows
  <2>3. s \notin todo'[c] => r.files[s] # Latest
    BY <1>1, ConstantsAssumption DEF TypeOK
  <2> QED BY <2>2, <2>3
<1>13. FilesBacked'
  <2> SUFFICES ASSUME NEW q \in rows, NEW s \in Source, q.files[s] # NoFile, q # r
               PROVE  \E d \in DirAt(q.project, q.files[s])' : d.content[s] = q.id
    BY <1>1, <1>2, <1>3, <1>5 DEF FilesBacked, InTransit, Relinked
  <2>1. ~InTransit(q)
    BY <1>2, <1>3 DEF InTransit, HoldsLock
  <2>2. PICK d \in DirAt(q.project, q.files[s]) : d.content[s] = q.id
    BY <2>1 DEF FilesInv, FilesBacked
  <2>3. ~(q.project = proj[c] /\ q.files[s] = Latest)
    BY <1>3 DEF FilesInv, FilesNamed, LatestRows, TypeOK, Row
  <2> QED BY <1>4, <2>2, <2>3 DEF DirAt
<1> QED BY <1>6, <1>7, <1>8, <1>9, <1>10, <1>11, <1>12, <1>13 DEF FilesInv

LEMMA RelinkKeepsFiles ==
  ASSUME TypeOK, StoreInv, FilesInv, NEW c \in Proc, RelinkSource(c)
  PROVE  FilesInv'
<1>1. PICK r \in rows, s \in todo[c] :
        /\ r.id = old[c]
        /\ Replace(r, [r EXCEPT !.files[s] = ArchivedFile(@, r.at)])
        /\ todo' = [todo EXCEPT ![c] = @ \ {s}]
  BY DEF RelinkSource, ArchiveName
<1>2. PICK q : /\ q.id = r.id /\ q.project = r.project /\ q.at = r.at /\ q.state = r.state
               /\ q.files[s] = ArchivedFile(r.files[s], r.at)
               /\ \A t \in Source \ {s} : q.files[t] = r.files[t]
               /\ rows' = (rows \ {r}) \union {q}
  BY <1>1 DEF Replace, TypeOK, Row
<1>3. UNCHANGED <<dirs, pc, proj, old, own, got, doomed, lock>> /\ pc[c] = "relink"
  BY DEF RelinkSource
<1>4. \A d \in Proc : pc[d] \in HoldsLock => d = c
  BY <1>3 DEF StoreInv, LockHeld, HoldsLock
<1>5. r \in LatestRows(proj[c]) /\ r.at # NoFile /\ r.at # Latest
  BY <1>1, <1>3, ConstantsAssumption
     DEF StoreInv, RowInHand, RowsNumbered, LatestRows, TypeOK, Row
<1>6. \A x \in rows : (Relinked(x) <=> x = r) /\ (InTransit(x) <=> x = r)
  BY <1>1, <1>3, <1>4 DEF Relinked, InTransit, StoreInv, RowsNumbered, HoldsLock
<1>7. Relinked(q)' /\ InTransit(q)'
  BY <1>1, <1>2, <1>3 DEF Relinked, InTransit
<1>8. DatesDistinct' /\ DirsUnique' /\ NoneDetached'
  BY <1>2, <1>3 DEF FilesInv, DatesDistinct, DirsUnique, NoneDetached
<1>9. FilesNamed'
  <2> SUFFICES ASSUME NEW x \in rows', NEW t \in Source
               PROVE  /\ x.files[t] \in {NoFile, Latest, x.at}
                      /\ x.state = "latest" /\ ~Relinked(x)' => x.files[t] # x.at
                      /\ x.state = "archived" => x.files[t] # Latest
    BY DEF FilesNamed
  <2>1. CASE x = q
    BY <1>2, <1>5, <1>7, <2>1 DEF FilesInv, FilesNamed, ArchivedFile, LatestRows
  <2>2. CASE x # q
    BY <1>2, <1>3, <2>2 DEF FilesInv, FilesNamed, Relinked
  <2> QED BY <2>1, <2>2
<1>10. ArchivesHaveRows'
  BY <1>2, <1>3, <1>6, <1>7 DEF FilesInv, ArchivesHaveRows, Relinked
<1>11. NameFree' /\ OwnLatest' /\ GotWritten'
  BY <1>3, <1>4 DEF FilesInv, NameFree, OwnLatest, GotWritten, HoldsLock
<1>12. MovedBacked'
  <2> SUFFICES ASSUME NEW t \in Source
               PROVE  /\ q.files[t] # NoFile =>
                           \E d \in DirAt(q.project, q.at) : d.content[t] = q.id
                      /\ t \notin todo'[c] => q.files[t] # Latest
    BY <1>1, <1>2, <1>3, <1>4 DEF MovedBacked, DirAt, HoldsLock, StoreInv, RowsNumbered
  <2>1. /\ r.files[t] # NoFile => \E d \in DirAt(r.project, r.at) : d.content[t] = r.id
        /\ t \notin todo[c] => r.files[t] # Latest
    BY <1>1, <1>3 DEF FilesInv, MovedBacked
  <2>2. q.files[t] # NoFile => r.files[t] # NoFile
    BY <1>2, <1>5, ConstantsAssumption DEF ArchivedFile
  <2>3. t \notin todo'[c] => q.files[t] # Latest
    BY <1>1, <1>2, <1>5, <2>1 DEF ArchivedFile, TypeOK
  <2> QED BY <1>2, <2>1, <2>2, <2>3
<1>13. FilesBacked'
  BY <1>2, <1>3, <1>6, <1>7 DEF FilesInv, FilesBacked, DirAt
<1> QED BY <1>8, <1>9, <1>10, <1>11, <1>12, <1>13 DEF FilesInv

LEMMA MarkKeepsFiles ==
  ASSUME TypeOK, StoreInv, FilesInv, NEW c \in Proc, MarkArchived(c)
  PROVE  FilesInv'
<1> DEFINE marked(r) == [r EXCEPT !.state = "archived"]
<1>1. PICK r \in rows : r.id = old[c] /\ rows' = (rows \ {r}) \union {marked(r)}
  BY DEF MarkArchived, Replace
<1>2. /\ UNCHANGED <<dirs, old, proj, own, got, todo, doomed, lock>>
      /\ todo[c] = {} /\ pc[c] = "relink" /\ pc' = [pc EXCEPT ![c] = "list"]
  BY DEF MarkArchived, Go, locals
<1>3. PICK q : /\ q = marked(r) /\ q.id = r.id /\ q.project = r.project /\ q.at = r.at
               /\ q.files = r.files /\ q.state = "archived" /\ rows' = (rows \ {r}) \union {q}
  BY <1>1 DEF TypeOK, Row
<1> HIDE DEF marked
<1>4. \A d \in Proc : pc[d] \in HoldsLock => d = c
  BY <1>2 DEF StoreInv, LockHeld, HoldsLock
<1>5. r \in LatestRows(proj[c])
  BY <1>1, <1>2 DEF StoreInv, RowInHand, RowsNumbered, LatestRows
<1>6. \A x \in rows : (Relinked(x) <=> x = r) /\ (InTransit(x) <=> x = r)
  BY <1>1, <1>2, <1>4 DEF Relinked, InTransit, StoreInv, RowsNumbered, HoldsLock
<1>7. \A x \in rows' : ~Relinked(x)' /\ ~InTransit(x)'
  BY <1>2, <1>4 DEF Relinked, InTransit, HoldsLock, TypeOK
<1>8. DatesDistinct' /\ DirsUnique' /\ NoneDetached'
  BY <1>2, <1>3 DEF FilesInv, DatesDistinct, DirsUnique, NoneDetached, TypeOK
<1>9. FilesNamed'
  BY <1>1, <1>2, <1>3, <1>6, <1>7 DEF FilesInv, FilesNamed, MovedBacked
<1>10. ArchivesHaveRows'
  BY <1>2, <1>3, <1>6 DEF FilesInv, ArchivesHaveRows
<1>11. NameFree' /\ MovedBacked' /\ OwnLatest' /\ GotWritten'
  BY <1>2, <1>4 DEF FilesInv, NameFree, MovedBacked, OwnLatest, GotWritten, HoldsLock, TypeOK
<1>12. FilesBacked'
  <2> SUFFICES ASSUME NEW x \in rows', NEW s \in Source, x.files[s] # NoFile
               PROVE  \E d \in DirAt(x.project, x.files[s])' : d.content[s] = x.id
    BY DEF FilesBacked
  <2>1. CASE x = q
    <3>1. x.files[s] = r.at
      BY <1>1, <1>2, <1>3, <2>1 DEF FilesInv, FilesNamed, MovedBacked
    <3> QED BY <1>1, <1>2, <1>3, <2>1, <3>1 DEF FilesInv, MovedBacked, DirAt
  <2>2. CASE x # q
    BY <1>2, <1>3, <1>6, <2>2 DEF FilesInv, FilesBacked, DirAt
  <2> QED BY <2>1, <2>2
<1> QED BY <1>8, <1>9, <1>10, <1>11, <1>12 DEF FilesInv

LEMMA CreateKeepsFiles ==
  ASSUME MovesWhole, TypeOK, TypeOK', StoreInv, FilesInv, NEW c \in Proc, CreateRow(c)
  PROVE  FilesInv'
<1>1. PICK n :
        /\ rows' = rows \union {n} /\ n.id = nextId /\ n.project = proj[c] /\ n.at = now'
        /\ n.state = "latest" /\ \A s \in Source : n.files[s] = NoFile
  <2> DEFINE n == [id |-> nextId, project |-> proj[c], at |-> now', state |-> "latest",
                   files |-> [s \in Source |-> NoFile], resolved |-> {}]
  <2>1. rows' = rows \union {n}
    BY DEF CreateRow
  <2>2. /\ n.id = nextId /\ n.project = proj[c] /\ n.at = now'
        /\ n.state = "latest" /\ \A s \in Source : n.files[s] = NoFile
    OBVIOUS
  <2> HIDE DEF n
  <2> QED BY <2>1, <2>2
<1>2. /\ UNCHANGED <<dirs, old, proj, got, todo, doomed, lock>>
      /\ pc[c] = "prune" /\ pc' = [pc EXCEPT ![c] = "prepare"]
      /\ own' = [own EXCEPT ![c] = nextId]
  BY DEF CreateRow, Go
<1>3. \A r \in rows : r.project = proj[c] => r.at # now'
  BY DEF CreateRow, MovesWhole, StoreInv, RowsNumbered, TypeOK, Row
<1>4. \A d \in Proc : pc[d] \in HoldsLock => d = c
  BY <1>2 DEF StoreInv, LockHeld, HoldsLock
<1>5. \A x \in rows' : ~Relinked(x) /\ ~Relinked(x)'
  BY <1>2, <1>4 DEF Relinked, HoldsLock, TypeOK
<1>6. DirAt(proj[c], Latest) = {}
  BY <1>2 DEF StoreInv, DirsDated, NoneWhilePruning, LatestRows, DirAt
<1>7. DatesDistinct' /\ DirsUnique' /\ NoneDetached'
  BY <1>1, <1>2, <1>3 DEF FilesInv, DatesDistinct, DirsUnique, NoneDetached, TypeOK
<1>8. FilesNamed'
  BY <1>1, <1>5, ConstantsAssumption DEF FilesInv, FilesNamed, TypeOK
<1>9. ArchivesHaveRows'
  BY <1>1, <1>2, <1>5 DEF FilesInv, ArchivesHaveRows
<1>10. NameFree' /\ MovedBacked' /\ GotWritten'
  BY <1>2, <1>4, <1>6 DEF FilesInv, NameFree, MovedBacked, GotWritten, DirAt, HoldsLock, TypeOK
<1>11. OwnLatest'
  BY <1>1, <1>2, <1>4 DEF OwnLatest, LatestRows, HoldsLock, TypeOK
<1>12. FilesBacked'
  BY <1>1, <1>2, <1>4 DEF FilesInv, FilesBacked, DirAt, InTransit, HoldsLock
<1> QED BY <1>7, <1>8, <1>9, <1>10, <1>11, <1>12 DEF FilesInv

LEMMA CollectKeepsFiles ==
  ASSUME TypeOK, TypeOK', StoreInv, FilesInv, NEW c \in Proc, CollectSource(c)
  PROVE  FilesInv'
<1>1. /\ UNCHANGED <<rows, pc, proj, old, own, doomed, lock>>
      /\ pc[c] \in {"collect", "drain"}
      /\ \A d \in Proc : d # c => todo'[d] = todo[d] /\ got'[d] = got[d]
  BY DEF CollectSource, WorkerRuns, FilesInv, NoneDetached, TypeOK
<1>2. PICK s \in todo[c] :
        /\ todo'[c] = todo[c] \ {s}
        /\ \/ dirs' = FileWritten(proj[c], s, own[c]) /\ got'[c] \subseteq got[c] \union {s}
              /\ DirAt(proj[c], Latest) # {}
           \/ dirs' = dirs /\ got' = got
  BY DEF CollectSource, TypeOK
<1>3. \A d \in Proc : pc[d] \in HoldsLock => d = c
  BY <1>1 DEF StoreInv, LockHeld, HoldsLock
<1>4. NoneDetached' /\ DatesDistinct' /\ FilesNamed' /\ OwnLatest'
  BY <1>1 DEF FilesInv, NoneDetached, DatesDistinct, FilesNamed, OwnLatest, LatestRows, Relinked
<1>5. MovedBacked'
  BY <1>1, <1>3 DEF MovedBacked, HoldsLock
<1>6. CASE dirs' = dirs /\ got' = got
  <2>1. DirsUnique' /\ ArchivesHaveRows' /\ NameFree' /\ FilesBacked'
    BY <1>1, <1>6 DEF FilesInv, DirsUnique, ArchivesHaveRows, NameFree, FilesBacked, DirAt, Relinked,
                      InTransit, Claiming, ArchivedRows
  <2>2. GotWritten'
    BY <1>1, <1>2, <1>6 DEF FilesInv, GotWritten, DirAt
  <2> QED BY <1>4, <1>5, <2>1, <2>2 DEF FilesInv
<1>7. CASE dirs' = FileWritten(proj[c], s, own[c]) /\ got'[c] \subseteq got[c] \union {s}
           /\ DirAt(proj[c], Latest) # {}
  <2> DEFINE W(d) == IF d.project = proj[c] /\ d.name = Latest
                       THEN [d EXCEPT !.content[s] = own[c],
                                      !.mtime = IF d.content[s] = 0 THEN now ELSE @]
                       ELSE d
  <2>1. dirs' = {W(d) : d \in dirs}
    BY <1>7 DEF FileWritten
  <2>2. ASSUME NEW d \in dirs
        PROVE  /\ W(d).project = d.project /\ W(d).name = d.name
               /\ ~(d.project = proj[c] /\ d.name = Latest) => W(d) = d
               /\ d.project = proj[c] /\ d.name = Latest =>
                    /\ W(d).content[s] = own[c]
                    /\ \A t \in Source \ {s} : W(d).content[t] = d.content[t]
    BY <1>2 DEF TypeOK, Dir
  <2> HIDE DEF W
  <2>3. DirsUnique' /\ ArchivesHaveRows'
    BY <1>1, <2>1, <2>2 DEF FilesInv, DirsUnique, ArchivesHaveRows, Relinked
  <2>4. NameFree'
    BY <1>1, <1>3 DEF NameFree, HoldsLock
  <2>5. GotWritten'
    <3>1. ASSUME NEW t \in got'[c] PROVE \E e \in DirAt(proj[c], Latest)' : e.content[t] = own[c]
      <4>1. CASE t = s
        BY <1>1, <1>7, <2>1, <2>2, <4>1 DEF DirAt
      <4>2. CASE t # s
        <5>1. PICK d \in DirAt(proj[c], Latest) : d.content[t] = own[c]
          BY <1>1, <1>7, <4>2, <3>1 DEF FilesInv, GotWritten
        <5>2. W(d) \in dirs' /\ W(d).content[t] = own[c]
          BY <2>1, <2>2, <4>2, <5>1, <3>1 DEF DirAt, TypeOK
        <5> QED BY <1>1, <2>2, <5>1, <5>2 DEF DirAt
      <4> QED BY <4>1, <4>2
    <3>2. ASSUME NEW t \in todo'[c], NEW e \in DirAt(proj[c], Latest)' PROVE e.content[t] = 0
      <4>1. PICK d \in dirs : e = W(d)
        BY <2>1 DEF DirAt
      <4>2. d \in DirAt(proj[c], Latest) /\ t \in Source \ {s} /\ t \in todo[c]
        BY <1>1, <1>2, <2>2, <3>2, <4>1 DEF DirAt, TypeOK
      <4> QED BY <1>1, <2>2, <4>1, <4>2 DEF FilesInv, GotWritten, DirAt
    <3>3. \A d \in Proc : d # c => pc[d] \notin HoldsLock
      BY <1>3
    <3> QED BY <1>1, <3>1, <3>2, <3>3 DEF FilesInv, GotWritten, HoldsLock
  <2>6. FilesBacked'
    <3> SUFFICES ASSUME NEW r \in rows, NEW t \in Source, r.files[t] # NoFile, ~InTransit(r)
                 PROVE  \E e \in DirAt(r.project, r.files[t])' : e.content[t] = r.id
      BY <1>1 DEF FilesBacked, InTransit, Claiming, ArchivedRows
    <3>1. PICK d \in DirAt(r.project, r.files[t]) : d.content[t] = r.id
      BY DEF FilesInv, FilesBacked
    <3>2. ~(r.project = proj[c] /\ r.files[t] = Latest)
      <4>1. ASSUME r.project = proj[c], r.files[t] = Latest PROVE FALSE
        <5>1. r \in LatestRows(proj[c])
          BY <4>1 DEF FilesInv, FilesNamed, LatestRows, TypeOK, Row
        <5>2. PICK q \in LatestRows(proj[c]) : q.files[t] = NoFile
          BY <1>1 DEF FilesInv, OwnLatest
        <5> QED BY <5>1, <5>2 DEF StoreInv, AtMostOneLatest, LatestRows
      <4> QED BY <4>1
    <3>3. W(d) = d /\ W(d) \in dirs'
      BY <2>1, <2>2, <3>1, <3>2 DEF DirAt
    <3> QED BY <3>1, <3>3 DEF DirAt
  <2> QED BY <1>4, <1>5, <2>3, <2>4, <2>5, <2>6 DEF FilesInv
<1> QED BY <1>2, <1>6, <1>7

LEMMA SaveKeepsFiles ==
  ASSUME TypeOK, StoreInv, FilesInv, NEW c \in Proc, SaveSource(c)
  PROVE  FilesInv'
<1>1. PICK r \in rows, s \in todo[c] :
        /\ r.id = own[c]
        /\ Replace(r, [r EXCEPT !.files[s] = IF s \in got[c] THEN Latest ELSE NoFile])
  BY DEF SaveSource
<1>2. PICK q : /\ q.id = r.id /\ q.project = r.project /\ q.at = r.at /\ q.state = r.state
               /\ q.files[s] = (IF s \in got[c] THEN Latest ELSE NoFile)
               /\ \A t \in Source \ {s} : q.files[t] = r.files[t]
               /\ rows' = (rows \ {r}) \union {q}
  BY <1>1 DEF Replace, TypeOK, Row
<1>3. UNCHANGED <<dirs, pc, proj, old, own, got, doomed, lock>> /\ pc[c] = "save"
  BY DEF SaveSource
<1>4. \A d \in Proc : pc[d] \in HoldsLock => d = c
  BY <1>3 DEF StoreInv, LockHeld, HoldsLock
<1>5. r \in LatestRows(proj[c])
  BY <1>1, <1>3 DEF FilesInv, OwnLatest, StoreInv, RowsNumbered, LatestRows
<1>6. \A d \in Proc : pc[d] \notin {"relink", "unrow", "move", "prepare", "collect", "drain"}
  BY <1>3, <1>4 DEF HoldsLock
<1>7. DatesDistinct' /\ DirsUnique' /\ NoneDetached'
  BY <1>2, <1>3 DEF FilesInv, DatesDistinct, DirsUnique, NoneDetached
<1>8. FilesNamed'
  BY <1>1, <1>2, <1>3, <1>5, ConstantsAssumption
     DEF FilesInv, FilesNamed, Relinked, LatestRows, TypeOK, Row
<1>9. ArchivesHaveRows'
  BY <1>2, <1>3, <1>6 DEF FilesInv, ArchivesHaveRows, Relinked
<1>10. MovedBacked' /\ NameFree'
  BY <1>3, <1>6 DEF FilesInv, MovedBacked, NameFree, DirAt
<1>11. OwnLatest'
  <2>1. q \in LatestRows(proj[c])' /\ q.id = own[c]
    BY <1>1, <1>2, <1>3, <1>5 DEF LatestRows
  <2> QED BY <1>3, <1>4, <2>1 DEF OwnLatest, HoldsLock
<1>12. GotWritten'
  BY <1>3, <1>6 DEF FilesInv, GotWritten, DirAt
<1>13. FilesBacked'
  <2> SUFFICES ASSUME NEW x \in rows', NEW t \in Source, x.files[t] # NoFile
               PROVE  \E d \in DirAt(x.project, x.files[t]) : d.content[t] = x.id
    BY <1>3 DEF FilesBacked, DirAt
  <2>1. CASE x \in rows \/ t # s
    BY <1>2, <1>3, <1>6, <2>1 DEF FilesInv, FilesBacked, InTransit
  <2>2. CASE x = q /\ t = s
    BY <1>1, <1>2, <1>3, <1>5, <2>2 DEF FilesInv, GotWritten, LatestRows
  <2> QED BY <1>2, <2>1, <2>2
<1> QED BY <1>7, <1>8, <1>9, <1>10, <1>11, <1>12, <1>13 DEF FilesInv

LEMMA FilesStep ==
  ASSUME MovesWhole
  PROVE  TypeOK /\ TypeOK' /\ StoreInv /\ FilesInv /\ [Next]_vars => FilesInv'
<1> SUFFICES ASSUME TypeOK, TypeOK', StoreInv, FilesInv, [Next]_vars PROVE FilesInv'
  OBVIOUS
<1>1. ASSUME NEW c \in Proc, MoveLatest(c) PROVE FilesInv'
  BY <1>1, MoveKeepsFiles
<1>2. ASSUME NEW c \in Proc, RelinkSource(c) PROVE FilesInv'
  BY <1>2, RelinkKeepsFiles
<1>3. ASSUME NEW c \in Proc, MarkArchived(c) PROVE FilesInv'
  BY <1>3, MarkKeepsFiles
<1>4. ASSUME NEW c \in Proc, CreateRow(c) PROVE FilesInv'
  BY <1>4, CreateKeepsFiles
<1>5. ASSUME NEW c \in Proc, CollectSource(c) PROVE FilesInv'
  BY <1>5, CollectKeepsFiles
<1>6. ASSUME NEW c \in Proc, SaveSource(c) PROVE FilesInv'
  BY <1>6, SaveKeepsFiles
<1>7. ASSUME NEW c \in Proc, CancelDrain(c) PROVE FALSE
  BY <1>7, ConstantsAssumption DEF CancelDrain, MovesWhole
<1> USE ConstantsAssumption
    DEF TypeOK, StoreInv, Go, HoldsLock, Step, store, locals, world, LockHeld, RowsNumbered,
        AtMostOneLatest, RowInHand, NoneWhilePruning, LatestMoved, DirsDated, PruneDated,
        LatestRows, ArchivedRows, Claiming, DirAt, ArchiveName, Row, Dir, Place, MovesWhole,
        NoneDetached, FilesInv, DatesDistinct, DirsUnique, FilesNamed, ArchivesHaveRows,
        NameFree, MovedBacked, OwnLatest, GotWritten, FilesBacked, Relinked, InTransit
<1>8. CASE Tick
  BY <1>8, SMTT(30) DEF Tick
<1>9. ASSUME NEW c \in Proc, Begin(c) PROVE FilesInv'
  BY <1>9, SMTT(30) DEF Begin
<1>10. ASSUME NEW c \in Proc, Acquire(c) PROVE FilesInv'
  BY <1>10, SMTT(30) DEF Acquire
<1>11. ASSUME NEW c \in Proc, Release(c) PROVE FilesInv'
  BY <1>11, SMTT(30) DEF Release, Forget
<1>12. ASSUME NEW c \in Proc, LookupLatest(c) PROVE FilesInv'
  BY <1>12, LookupKeepsFiles
<1>13. ASSUME NEW c \in Proc, ClearArchivePath(c) PROVE FilesInv'
  BY <1>13, ClearKeepsFiles
<1>14. ASSUME NEW c \in Proc, ListArchives(c) PROVE FilesInv'
  BY <1>14, SMTT(30) DEF ListArchives
<1>15. ASSUME NEW c \in Proc, PruneArchiveDir(c) PROVE FilesInv'
  BY <1>15, PruneKeepsFiles
<1>16. ASSUME NEW c \in Proc, DeleteArchivedRow(c) PROVE FilesInv'
  BY <1>16, SMTT(30) DEF DeleteArchivedRow
<1>17. ASSUME NEW c \in Proc, PrepareLatest(c) PROVE FilesInv'
  BY <1>17, SMTT(30) DEF PrepareLatest
<1>18. ASSUME NEW c \in Proc, FinishWorker(c) PROVE FilesInv'
  BY <1>18, FinishKeepsFiles
<1>19. ASSUME NEW c \in Proc, CancelCollect(c) PROVE FilesInv'
  BY <1>19, SMTT(30) DEF CancelCollect
<1>20. ASSUME NEW c \in Proc, UpdateResolvedKeys(c) PROVE FilesInv'
  BY SMTT(30), <1>20, SMTT(30) DEF UpdateResolvedKeys, Replace
<1>21. ASSUME NEW c \in Proc, Interrupt(c) PROVE FilesInv'
  BY <1>21, SMTT(30) DEF Interrupt, Forget
<1>22. CASE UNCHANGED vars
  BY <1>22 DEF vars
<1> QED
  BY <1>1, <1>2, <1>3, <1>4, <1>5, <1>6, <1>7, <1>8, <1>9, <1>10, <1>11, <1>12, <1>13,
     <1>14, <1>15, <1>16, <1>17, <1>18, <1>19, <1>20, <1>21, <1>22
     DEF Next, Progress, Disturb, Archive, Prune, Publish

LEMMA FilesInvInit == Init => FilesInv
BY ConstantsAssumption
   DEF Init, FilesInv, NoneDetached, DatesDistinct, DirsUnique, FilesNamed, ArchivesHaveRows,
       NameFree, MovedBacked, OwnLatest, GotWritten, FilesBacked

\* Rows and directories agree at every step, if moves are whole.
THEOREM FilesInvariant ==
  ASSUME MovesWhole
  PROVE  Spec => []FilesInv
<1>1. TypeOK /\ TypeOK' /\ StoreInv /\ FilesInv /\ [Next]_vars => FilesInv'
  BY FilesStep
<1> QED BY <1>1, FilesInvInit, TypeCorrect, StoreInvariant, PTL DEF Spec

\* Whatever file a row names is there, with the lines of the row's own collection,
\* if moves are whole: interruptions at all other steps leave it so.
THEOREM NamedFilesThere ==
  ASSUME MovesWhole
  PROVE  Spec => []FilesBacked
<1>1. FilesInv => FilesBacked
  BY DEF FilesInv
<1> QED BY <1>1, FilesInvariant, PTL

-----------------------------------------------------------------------------
(* What leaves the disk.                                                   *)

\* A step that removes lines removes an expired archive.
LinesStay ==
  \A d \in dirs : \A s \in Source :
    d.content[s] # 0 =>
      \/ \E e \in dirs' : e.project = d.project /\ e.content[s] = d.content[s]
      \/ d.name # Latest /\ d.mtime + Retention < now

LEMMA FilesInvKeepsLines == TypeOK /\ StoreInv /\ FilesInv /\ [Next]_vars => LinesStay
<1> SUFFICES ASSUME TypeOK, StoreInv, FilesInv, [Next]_vars,
                    NEW d \in dirs, NEW s \in Source, d.content[s] # 0
             PROVE  \/ \E e \in dirs' : e.project = d.project /\ e.content[s] = d.content[s]
                    \/ d.name # Latest /\ d.mtime + Retention < now
  BY DEF LinesStay
<1> DEFINE Kept == \E e \in dirs' : e.project = d.project /\ e.content[s] = d.content[s]
           Expires == d.name # Latest /\ d.mtime + Retention < now
<1>1. CASE UNCHANGED dirs
  BY <1>1
\* No archive has the name of the latest row: clearing removes nothing.
<1>2. ASSUME NEW c \in Proc, ClearArchivePath(c) PROVE Kept
  <2>1. PICK r \in rows : r.id = old[c] /\ dirs' = dirs \ DirAt(proj[c], r.at)
    BY <1>2 DEF ClearArchivePath, ArchiveName
  <2>2. pc[c] = "clear"
    BY <1>2 DEF ClearArchivePath, Go
  <2>3. r \in LatestRows(proj[c]) /\ r.at # Latest
    BY <2>1, <2>2, ConstantsAssumption DEF StoreInv, RowInHand, RowsNumbered, LatestRows, TypeOK, Row
  <2>4. \A q \in rows : ~Relinked(q)
    BY <2>2 DEF Relinked, StoreInv, LockHeld, HoldsLock
  <2>5. d \notin DirAt(proj[c], r.at)
    BY <2>3, <2>4 DEF FilesInv, ArchivesHaveRows, DatesDistinct, DirAt, LatestRows
  <2> QED BY <2>1, <2>5
<1>3. ASSUME NEW c \in Proc, MoveLatest(c) PROVE Kept
  <2>1. PICK r \in rows :
          dirs' = (dirs \ DirAt(proj[c], Latest)) \union
                    {[x EXCEPT !.name = ArchiveName(r)] : x \in DirAt(proj[c], Latest)}
    BY <1>3 DEF MoveLatest
  <2>2. CASE d \in DirAt(proj[c], Latest)
    <3>1. [d EXCEPT !.name = ArchiveName(r)] \in dirs'
      BY <2>1, <2>2
    <3> QED BY <3>1 DEF TypeOK, Dir
  <2>3. CASE d \notin DirAt(proj[c], Latest)
    BY <2>1, <2>3
  <2> QED BY <2>2, <2>3
<1>4. ASSUME NEW c \in Proc, PruneArchiveDir(c)
      PROVE  Kept \/ Expires
  <2>1. PICK x \in Expired(proj[c], cutoff[c]) : dirs' = dirs \ {x}
    BY <1>4 DEF PruneArchiveDir
  <2>2. ASSUME d = x PROVE Expires
    BY <2>1, <2>2, ConstantsAssumption DEF Expired, StoreInv, PruneDated, TypeOK, Dir
  <2>3. ASSUME d # x PROVE Kept
    BY <2>1, <2>3
  <2> QED BY <2>2, <2>3
\* The directory that is made anew was not there.
<1>5. ASSUME NEW c \in Proc, PrepareLatest(c) PROVE Kept
  <2>1. DirAt(proj[c], Latest) = {}
    BY <1>5 DEF PrepareLatest, Go, FilesInv, NameFree
  <2> QED BY <1>5, <2>1 DEF PrepareLatest
<1>6. ASSUME NEW c \in Proc, CollectSource(c) PROVE Kept
  <2>1. PICK t \in todo[c] : dirs' = FileWritten(proj[c], t, own[c]) \/ dirs' = dirs
    BY <1>6 DEF CollectSource
  <2>2. pc[c] \in {"collect", "drain"}
    BY <1>6 DEF CollectSource, WorkerRuns, FilesInv, NoneDetached
  <2>3. CASE dirs' = FileWritten(proj[c], t, own[c])
    <3> DEFINE W(x) == IF x.project = proj[c] /\ x.name = Latest
                         THEN [x EXCEPT !.content[t] = own[c],
                                        !.mtime = IF x.content[t] = 0 THEN now ELSE @]
                         ELSE x
    <3>1. W(d) \in dirs'
      BY <2>3 DEF FileWritten
    <3>2. d \in DirAt(proj[c], Latest) => s # t
      BY <2>2 DEF FilesInv, GotWritten
    <3>3. W(d).project = d.project /\ W(d).content[s] = d.content[s]
      BY <3>2 DEF TypeOK, Dir, DirAt
    <3> QED BY <3>1, <3>3
  <2> QED BY <2>1, <2>3
<1>7. CASE Tick \/ UNCHANGED vars
  BY <1>7 DEF Tick, vars, store
<1>8. ASSUME NEW c \in Proc, Begin(c) \/ Acquire(c) \/ Release(c) \/ Disturb(c) PROVE Kept
  BY <1>8 DEF Begin, Acquire, Release, Disturb, CancelCollect, CancelDrain, Interrupt, store
<1>9. ASSUME NEW c \in Proc,
             \/ LookupLatest(c) \/ RelinkSource(c) \/ MarkArchived(c) \/ ListArchives(c)
             \/ DeleteArchivedRow(c)
      PROVE  Kept
  BY <1>9 DEF LookupLatest, RelinkSource, MarkArchived, ListArchives, DeleteArchivedRow, store
<1>10. ASSUME NEW c \in Proc,
              CreateRow(c) \/ FinishWorker(c) \/ SaveSource(c) \/ UpdateResolvedKeys(c)
       PROVE  Kept
  BY <1>10 DEF CreateRow, FinishWorker, SaveSource, UpdateResolvedKeys, store
<1> QED
  BY <1>2, <1>3, <1>4, <1>5, <1>6, <1>7, <1>8, <1>9, <1>10
     DEF Next, Progress, Archive, Prune, Publish

\* Collected lines leave the disk only with an archive older than the retention, if
\* moves are whole.
THEOREM LinesLostOnlyByRetention ==
  ASSUME MovesWhole
  PROVE  Spec => LostOnlyByRetention
<1>1. TypeOK /\ StoreInv /\ FilesInv /\ [Next]_vars => LinesStay
  BY FilesInvKeepsLines
<1>2. LostOnlyByRetention <=> [][LinesStay]_vars
  BY DEF LostOnlyByRetention, LinesStay
<1> QED BY <1>1, <1>2, FilesInvariant, TypeCorrect, StoreInvariant, PTL DEF Spec

-----------------------------------------------------------------------------
(* What a step does to the rows.                                           *)

\* Two versions of one row: an archived row never becomes latest again.
Continues(q, r) ==
  /\ q.id = r.id /\ q.project = r.project /\ q.at = r.at
  /\ q.state = "latest" => r.state = "latest"

\* Every row comes from a row or is the next one, dated now and latest of a project
\* that had none; every row stays, or is deleted when its date has passed.
RowsEvolve ==
  /\ nextId <= nextId' /\ now <= now'
  /\ \A q \in rows' :
       \/ \E r \in rows : Continues(q, r)
       \/ /\ q.id = nextId /\ nextId < nextId' /\ q.at = now' /\ q.state = "latest"
          /\ \A r \in rows : r.project = q.project => r.at # now' /\ r.state # "latest"
  /\ \A r \in rows : (\E q \in rows' : Continues(q, r)) \/ r.at < now

LEMMA SameRowsEvolve ==
  ASSUME TypeOK, UNCHANGED rows, nextId' = nextId, now' \in Nat, now <= now'
  PROVE  RowsEvolve
BY DEF RowsEvolve, Continues, TypeOK

LEMMA RewrittenRowsEvolve ==
  ASSUME TypeOK, NEW r \in rows, NEW q, Continues(q, r), Replace(r, q), UNCHANGED <<nextId, now>>
  PROVE  RowsEvolve
<1>1. rows' = (rows \ {r}) \union {q}
  BY DEF Replace
<1>2. \A x \in rows' : x = q \/ x \in rows
  BY <1>1
<1>3. \A x \in rows : x = r \/ x \in rows'
  BY <1>1
<1>4. \A x \in rows : Continues(x, x)
  BY DEF Continues
<1>5. q \in rows'
  BY <1>1
<1> QED BY <1>2, <1>3, <1>4, <1>5 DEF RowsEvolve, TypeOK

LEMMA Evolution ==
  ASSUME MovesWhole
  PROVE  TypeOK /\ TypeOK' /\ StoreInv /\ FilesInv /\ FilesInv' /\ [Next]_vars => RowsEvolve
<1> SUFFICES ASSUME TypeOK, TypeOK', StoreInv, FilesInv, FilesInv', [Next]_vars PROVE RowsEvolve
  OBVIOUS
<1>1. ASSUME UNCHANGED <<rows, nextId, now>> PROVE RowsEvolve
  BY <1>1, SameRowsEvolve DEF TypeOK
<1>2. ASSUME NEW c \in Proc, CreateRow(c) PROVE RowsEvolve
  <2>1. PICK n \in Row :
          /\ rows' = rows \union {n}
          /\ n.id = nextId /\ n.project = proj[c] /\ n.at = now' /\ n.state = "latest"
    <3> DEFINE n == [id |-> nextId, project |-> proj[c], at |-> now', state |-> "latest",
                     files |-> [s \in Source |-> NoFile], resolved |-> {}]
    <3>1. rows' = rows \union {n}
      BY <1>2 DEF CreateRow
    <3>2. n \in Row
      BY DEF Row, TypeOK
    <3> QED BY <3>1, <3>2
  <2>2. now <= now' /\ nextId' = nextId + 1 /\ pc[c] = "prune"
    BY <1>2 DEF CreateRow, Go, TypeOK
  <2>3. LatestRows(proj[c]) = {}
    BY <2>2 DEF StoreInv, NoneWhilePruning
  <2>4. n \notin rows
    BY <2>1 DEF StoreInv, RowsNumbered, TypeOK
  <2>5. \A r \in rows : r.project = proj[c] => r.at # now'
    BY <2>1, <2>4 DEF FilesInv, DatesDistinct
  <2>6. \A x \in rows : Continues(x, x)
    BY DEF Continues
  <2> QED BY <2>1, <2>2, <2>3, <2>5, <2>6 DEF RowsEvolve, LatestRows, TypeOK
<1>3. ASSUME NEW c \in Proc, DeleteArchivedRow(c) PROVE RowsEvolve
  <2>1. PICK r \in Claiming(proj[c], doomed[c]) : rows' = rows \ {r}
    BY <1>3 DEF DeleteArchivedRow
  <2>2. pc[c] = "unrow" /\ UNCHANGED <<nextId, now>>
    BY <1>3 DEF DeleteArchivedRow, Go, world
  <2>3. r.at < now
    BY <2>1, <2>2, ConstantsAssumption DEF StoreInv, PruneDated, Claiming, ArchiveName, TypeOK
  <2>4. \A x \in rows : Continues(x, x)
    BY DEF Continues
  <2> QED BY <2>1, <2>2, <2>3, <2>4 DEF RowsEvolve, TypeOK
<1>4. ASSUME NEW c \in Proc, RelinkSource(c) \/ SaveSource(c) \/ UpdateResolvedKeys(c)
      PROVE  RowsEvolve
  <2>1. PICK r \in rows : \E q : SameHeader(r, q) /\ Replace(r, q)
    BY <1>4, Rewrites DEF RowRewritten
  <2>2. UNCHANGED <<nextId, now>>
    BY <1>4 DEF RelinkSource, SaveSource, UpdateResolvedKeys, world
  <2> QED BY <2>1, <2>2, RewrittenRowsEvolve DEF SameHeader, Continues
<1>5. ASSUME NEW c \in Proc, MarkArchived(c) PROVE RowsEvolve
  <2>1. PICK r \in LatestRows(proj[c]) : Replace(r, [r EXCEPT !.state = "archived"])
    <3>1. PICK r \in rows : r.id = old[c] /\ Replace(r, [r EXCEPT !.state = "archived"])
      BY <1>5 DEF MarkArchived
    <3>2. r \in LatestRows(proj[c])
      BY <1>5, <3>1 DEF MarkArchived, Go, StoreInv, RowInHand, RowsNumbered, LatestRows
    <3> QED BY <3>1, <3>2
  <2>2. UNCHANGED <<nextId, now>>
    BY <1>5 DEF MarkArchived, world
  <2> DEFINE q == [r EXCEPT !.state = "archived"]
  <2>3. q.id = r.id /\ q.project = r.project /\ q.at = r.at /\ q.state = "archived"
    BY DEF LatestRows, TypeOK, Row
  <2>4. rows' = (rows \ {r}) \union {q}
    BY <2>1 DEF Replace
  <2> HIDE DEF q
  <2>5. Continues(q, r)
    BY <2>3 DEF Continues
  <2> QED BY <2>1, <2>2, <2>4, <2>5, RewrittenRowsEvolve DEF Replace, LatestRows
<1>6. ASSUME NEW c \in Proc,
             \/ Begin(c) \/ Acquire(c) \/ Release(c) \/ LookupLatest(c) \/ ClearArchivePath(c)
             \/ MoveLatest(c) \/ ListArchives(c) \/ PruneArchiveDir(c)
      PROVE  RowsEvolve
  BY <1>1, <1>6 DEF Begin, Acquire, Release, LookupLatest, ClearArchivePath, MoveLatest,
                    ListArchives, PruneArchiveDir, store, world
<1>7. ASSUME NEW c \in Proc,
             \/ PrepareLatest(c) \/ CollectSource(c) \/ FinishWorker(c)
             \/ CancelCollect(c) \/ CancelDrain(c) \/ Interrupt(c)
      PROVE  RowsEvolve
  BY <1>1, <1>7 DEF PrepareLatest, CollectSource, FinishWorker, CancelCollect, CancelDrain,
                    Interrupt, store, world
<1>8. CASE Tick
  BY <1>8, SameRowsEvolve DEF Tick, store, TypeOK
<1>9. CASE UNCHANGED vars
  BY <1>1, <1>9 DEF vars, store, world
<1> QED
  BY <1>2, <1>3, <1>4, <1>5, <1>6, <1>7, <1>8, <1>9
     DEF Next, Progress, Disturb, Archive, Prune, Publish

-----------------------------------------------------------------------------
(* Whose lines a directory holds.                                          *)

\* Lines on disk are those of a row: under its archive name, or under latest while
\* the row is latest.
Owns(r, d, s) ==
  /\ r.id = d.content[s] /\ r.project = d.project
  /\ IF d.name = Latest THEN r.state = "latest" ELSE r.at = d.name

LinesOwned == \A d \in dirs, s \in Source : d.content[s] # 0 => \E r \in rows : Owns(r, d, s)

LEMMA LinesStayOwned ==
  ASSUME MovesWhole
  PROVE  TypeOK /\ TypeOK' /\ StoreInv /\ FilesInv /\ LinesOwned /\ [Next]_vars => LinesOwned'
<1> SUFFICES ASSUME TypeOK, TypeOK', StoreInv, FilesInv, LinesOwned, [Next]_vars PROVE LinesOwned'
  OBVIOUS
<1>1. ASSUME \A d \in dirs' : d \in dirs,
             \A r \in rows : \E q \in rows' : SameHeader(r, q)
      PROVE  LinesOwned'
  BY <1>1 DEF LinesOwned, Owns, SameHeader
<1>2. ASSUME \A d \in dirs' : d \in dirs, UNCHANGED rows
      PROVE  LinesOwned'
  BY <1>2 DEF LinesOwned, Owns
<1>3. ASSUME NEW c \in Proc, RelinkSource(c) \/ SaveSource(c) \/ UpdateResolvedKeys(c)
      PROVE  LinesOwned'
  <2>1. RowRewritten
    BY <1>3, Rewrites
  <2>2. \A r \in rows : \E q \in rows' : SameHeader(r, q)
    BY <2>1, RewriteKeepsHeaders
  <2>3. UNCHANGED dirs
    BY <1>3 DEF RelinkSource, SaveSource, UpdateResolvedKeys
  <2> QED BY <1>1, <2>2, <2>3
<1>4. ASSUME NEW c \in Proc, MarkArchived(c) PROVE LinesOwned'
  <2>1. PICK r \in rows : r.id = old[c] /\ Replace(r, [r EXCEPT !.state = "archived"])
    BY <1>4 DEF MarkArchived
  <2>2. pc[c] = "relink" /\ UNCHANGED dirs
    BY <1>4 DEF MarkArchived, Go
  <2>3. r.project = proj[c]
    BY <2>1, <2>2 DEF StoreInv, RowInHand, RowsNumbered, LatestRows
  <2>4. \A d \in dirs : ~(d.project = r.project /\ d.name = Latest)
    BY <2>2, <2>3 DEF StoreInv, LatestMoved, DirAt
  <2> DEFINE q == [r EXCEPT !.state = "archived"]
  <2>5. q.id = r.id /\ q.project = r.project /\ q.at = r.at
    BY DEF TypeOK, Row
  <2>6. rows' = (rows \ {r}) \union {q}
    BY <2>1 DEF Replace
  <2> HIDE DEF q
  <2>7. ASSUME NEW d \in dirs, NEW s \in Source, NEW x \in rows, Owns(x, d, s)
        PROVE  \E y \in rows' : Owns(y, d, s)
    <3>1. CASE x # r
      BY <2>6, <2>7, <3>1
    <3>2. CASE x = r
      BY <2>4, <2>5, <2>6, <2>7, <3>2 DEF Owns
    <3> QED BY <3>1, <3>2
  <2> QED BY <2>2, <2>7 DEF LinesOwned, Owns
<1>5. ASSUME NEW c \in Proc, DeleteArchivedRow(c) PROVE LinesOwned'
  <2>1. PICK r \in Claiming(proj[c], doomed[c]) : rows' = rows \ {r}
    BY <1>5 DEF DeleteArchivedRow
  <2>2. pc[c] = "unrow" /\ UNCHANGED dirs
    BY <1>5 DEF DeleteArchivedRow, Go
  <2>3. \A d \in dirs : ~(d.project = proj[c] /\ d.name = r.at)
    BY <2>1, <2>2 DEF FilesInv, NameFree, DirAt, Claiming, ArchiveName
  <2>4. \A d \in dirs, s \in Source : ~Owns(r, d, s)
    BY <2>1, <2>3 DEF Owns, Claiming, ArchivedRows
  <2> QED BY <2>1, <2>2, <2>4 DEF LinesOwned, Owns
<1>6. ASSUME NEW c \in Proc, CreateRow(c) PROVE LinesOwned'
  BY <1>6 DEF CreateRow, LinesOwned, Owns
<1>7. ASSUME NEW c \in Proc, MoveLatest(c) PROVE LinesOwned'
  <2>1. PICK r \in rows :
          /\ r.id = old[c]
          /\ dirs' = (dirs \ DirAt(proj[c], Latest)) \union
                       {[d EXCEPT !.name = r.at] : d \in DirAt(proj[c], Latest)}
    BY <1>7 DEF MoveLatest, ArchiveName
  <2>2. pc[c] = "move" /\ UNCHANGED rows
    BY <1>7 DEF MoveLatest, Go
  <2>3. r.project = proj[c] /\ r.state = "latest"
    BY <2>1, <2>2 DEF StoreInv, RowInHand, RowsNumbered, LatestRows
  <2>4. r.at # Latest
    BY ConstantsAssumption DEF TypeOK, Row
  <2>5. ASSUME NEW e \in dirs', NEW s \in Source, e.content[s] # 0
        PROVE  \E q \in rows : Owns(q, e, s)
    <3>1. CASE e \in dirs
      BY <2>5, <3>1 DEF LinesOwned
    <3>2. CASE \E d \in DirAt(proj[c], Latest) : e = [d EXCEPT !.name = r.at]
      <4>1. PICK d \in DirAt(proj[c], Latest) : e = [d EXCEPT !.name = r.at]
        BY <3>2
      <4>2. e.content = d.content /\ e.project = d.project /\ e.name = r.at /\ d \in dirs
        BY <4>1 DEF DirAt, TypeOK, Dir
      <4>3. PICK q \in rows : Owns(q, d, s)
        BY <2>5, <4>2 DEF LinesOwned
      <4>4. q = r
        BY <2>3, <4>1, <4>3 DEF Owns, DirAt, StoreInv, AtMostOneLatest
      <4> QED BY <2>4, <4>2, <4>3, <4>4 DEF Owns
    <3> QED BY <2>1, <3>1, <3>2
  <2> QED BY <2>2, <2>5 DEF LinesOwned, Owns
<1>8. ASSUME NEW c \in Proc, PrepareLatest(c) PROVE LinesOwned'
  <2> DEFINE new == [project |-> proj[c], name |-> Latest, mtime |-> now,
                     content |-> [s \in Source |-> 0]]
  <2>1. \A s \in Source : new.content[s] = 0
    OBVIOUS
  <2>2. dirs' = (dirs \ DirAt(proj[c], Latest)) \union {new} /\ UNCHANGED rows
    BY <1>8 DEF PrepareLatest
  <2> HIDE DEF new
  <2> QED BY <2>1, <2>2 DEF LinesOwned, Owns
<1>9. ASSUME NEW c \in Proc, CollectSource(c) PROVE LinesOwned'
  <2>1. PICK t \in todo[c] : dirs' = FileWritten(proj[c], t, own[c]) \/ dirs' = dirs
    BY <1>9 DEF CollectSource
  <2>2. pc[c] \in {"collect", "drain"} /\ UNCHANGED rows /\ t \in Source
    BY <1>9 DEF CollectSource, WorkerRuns, FilesInv, NoneDetached, TypeOK
  <2>3. PICK r \in LatestRows(proj[c]) : r.id = own[c]
    BY <2>2 DEF FilesInv, OwnLatest
  <2>4. CASE dirs' = FileWritten(proj[c], t, own[c])
    <3> DEFINE W(x) == IF x.project = proj[c] /\ x.name = Latest
                         THEN [x EXCEPT !.content[t] = own[c],
                                        !.mtime = IF x.content[t] = 0 THEN now ELSE @]
                         ELSE x
    <3>1. ASSUME NEW x \in dirs, NEW s \in Source
          PROVE  /\ W(x).project = x.project /\ W(x).name = x.name
                 /\ \/ W(x).content[s] = x.content[s]
                    \/ W(x).content[s] = own[c] /\ x.project = proj[c] /\ x.name = Latest
      <4>1. CASE x.project = proj[c] /\ x.name = Latest
        <5> DEFINE at == IF x.content[t] = 0 THEN now ELSE x.mtime
        <5>1. W(x) = [x EXCEPT !.content[t] = own[c], !.mtime = at]
          BY <4>1
        <5> HIDE DEF at, W
        <5> QED BY <2>2, <4>1, <5>1 DEF TypeOK, Dir
      <4>2. CASE ~(x.project = proj[c] /\ x.name = Latest)
        BY <4>2
      <4> QED BY <4>1, <4>2
    <3>2. dirs' = {W(x) : x \in dirs}
      BY <2>4 DEF FileWritten
    <3> HIDE DEF W
    <3>3. ASSUME NEW x \in dirs, NEW s \in Source, W(x).content[s] # 0
          PROVE  \E q \in rows : Owns(q, W(x), s)
      <4>1. CASE W(x).content[s] = x.content[s]
        BY <3>1, <3>3, <4>1 DEF LinesOwned, Owns
      <4>2. CASE W(x).content[s] = own[c] /\ x.project = proj[c] /\ x.name = Latest
        BY <2>3, <3>1, <4>2 DEF LatestRows, Owns
      <4> QED BY <3>1, <4>1, <4>2
    <3> QED BY <2>2, <3>2, <3>3 DEF LinesOwned, Owns
  <2>5. CASE dirs' = dirs
    BY <1>2, <2>2, <2>5
  <2> QED BY <2>1, <2>4, <2>5
<1>10. ASSUME NEW c \in Proc, ClearArchivePath(c) \/ PruneArchiveDir(c) PROVE LinesOwned'
  BY <1>2, <1>10 DEF ClearArchivePath, PruneArchiveDir
<1>11. ASSUME NEW c \in Proc,
              \/ Begin(c) \/ Acquire(c) \/ Release(c) \/ LookupLatest(c) \/ ListArchives(c)
              \/ FinishWorker(c) \/ CancelCollect(c) \/ CancelDrain(c) \/ Interrupt(c)
       PROVE  LinesOwned'
  BY <1>2, <1>11 DEF Begin, Acquire, Release, LookupLatest, ListArchives, FinishWorker,
                     CancelCollect, CancelDrain, Interrupt, store
<1>12. CASE Tick \/ UNCHANGED vars
  BY <1>2, <1>12 DEF Tick, vars, store
<1> QED
  BY <1>3, <1>4, <1>5, <1>6, <1>7, <1>8, <1>9, <1>10, <1>11, <1>12
     DEF Next, Progress, Disturb, Archive, Prune, Publish

LatestNewest ==
  \A r, q \in rows : r.project = q.project /\ q.state = "latest" => r.id <= q.id

LEMMA LatestStaysNewest ==
  ASSUME TypeOK, StoreInv, LatestNewest, RowsEvolve
  PROVE  LatestNewest'
<1> SUFFICES ASSUME NEW x \in rows', NEW y \in rows', x.project = y.project, y.state = "latest"
             PROVE  x.id <= y.id
  BY DEF LatestNewest
<1> DEFINE Old(q, r) == Continues(q, r)
           New(q) == /\ q.id = nextId /\ q.state = "latest"
                     /\ \A r \in rows : r.project = q.project => r.state # "latest"
<1>1. \A q \in rows' : New(q) \/ \E r \in rows : Old(q, r)
  BY DEF RowsEvolve
<1>2. \A r \in rows : r.id < nextId /\ r.id \in Nat
  BY DEF StoreInv, RowsNumbered, TypeOK, Row
<1>3. CASE New(y)
  BY <1>1, <1>2, <1>3 DEF Continues, TypeOK
<1>4. CASE \E r \in rows : Old(y, r)
  <2>1. PICK r \in rows : Old(y, r)
    BY <1>4
  <2>2. r.state = "latest" /\ r.id = y.id /\ r.project = y.project
    BY <2>1 DEF Continues
  <2>3. ~New(x)
    BY <2>2
  <2>4. PICK q \in rows : Old(x, q)
    BY <1>1, <2>3
  <2> QED BY <2>2, <2>4 DEF LatestNewest, Continues
<1> QED BY <1>1, <1>3, <1>4

\* What StoreInv and FilesInv leave out, and readers rely on.
OwnersInv == LinesOwned /\ LatestNewest

\* Lines on disk are always those of the row whose directory they are in.
THEOREM OwnersInvariant ==
  ASSUME MovesWhole
  PROVE  Spec => []OwnersInv
<1>1. Init => OwnersInv
  BY DEF Init, OwnersInv, LinesOwned, LatestNewest
<1>2. TypeOK /\ TypeOK' /\ StoreInv /\ FilesInv /\ FilesInv' /\ OwnersInv /\ [Next]_vars => OwnersInv'
  BY Evolution, LatestStaysNewest, LinesStayOwned DEF OwnersInv
<1> QED BY <1>1, <1>2, FilesInvariant, TypeCorrect, StoreInvariant, PTL DEF Spec

-----------------------------------------------------------------------------
(* Readers.                                                                *)

\* A reader takes no lock and changes nothing a collection sees.
LEMMA ReadersSpecImpliesSpec == ReadersSpec => Spec
<1>1. ReadersInit => Init
  BY DEF ReadersInit
<1>2. [ReadersNext]_<<vars, rvars>> => [Next]_vars
  BY DEF ReadersNext, ReaderStep, LoadRow, LoadSources, ReadSource
<1> QED BY <1>1, <1>2, PTL DEF ReadersSpec, Spec

\* What loading a row makes of the call's context.
LEMMA RowLoaded ==
  ASSUME ReadersTypeOK, NEW k \in Reader, LoadRow(k)
  PROVE  \E p \in Project, n \in Place : \E r \in Located(p, n) :
           /\ ctx' \in [Reader -> Context]
           /\ \A j \in Reader \ {k} : ctx'[j] = ctx[j]
           /\ ctx'[k].project = p /\ ctx'[k].ask = n /\ ctx'[k].row = r.id
           /\ ctx'[k].marker = r.at /\ ctx'[k].files = ctx[k].files
<1> USE DEF ReadersTypeOK, TypeOK
<1>1. PICK p \in Project, n \in {Latest} \union {ArchiveName(r) : r \in rows} :
        \E r \in Located(p, n) :
          ctx' = [ctx EXCEPT ![k].project = p, ![k].ask = n, ![k].row = r.id, ![k].marker = r.at]
  BY DEF LoadRow
<1>2. PICK r \in Located(p, n) :
        ctx' = [ctx EXCEPT ![k].project = p, ![k].ask = n, ![k].row = r.id, ![k].marker = r.at]
  BY <1>1
<1>3. n \in Place /\ r \in Row
  BY DEF ArchiveName, Row, Place, Located, LatestRows, Claiming, ArchivedRows
<1> DEFINE loaded == [ctx[k] EXCEPT !.project = p, !.ask = n, !.row = r.id, !.marker = r.at]
<1>4. ctx' = [ctx EXCEPT ![k] = loaded]
  BY <1>2
<1>5. /\ loaded \in Context
      /\ loaded.project = p /\ loaded.ask = n /\ loaded.row = r.id
      /\ loaded.marker = r.at /\ loaded.files = ctx[k].files
  BY ZenonT(30), <1>3 DEF Context, Row
<1> HIDE DEF loaded
<1> QED BY <1>3, <1>4, <1>5

LEMMA OpenedTyped ==
  ASSUME ReadersTypeOK, NEW k \in Reader, NEW s \in Source
  PROVE  Opened(ctx[k], s) \subseteq Nat \ {0}
BY DEF ReadersTypeOK, TypeOK, Opened, DirAt, Dir

\* Types, also of what readers hold.
THEOREM ReadersTyped == ReadersSpec => []ReadersTypeOK
<1>1. ReadersInit /\ TypeOK => ReadersTypeOK
  <2> SUFFICES ASSUME ReadersInit, TypeOK PROVE ReadersTypeOK
    OBVIOUS
  <2>1. NoContext \in Context
    BY ConstantsAssumption DEF NoContext, Context, Place
  <2> QED BY <2>1 DEF ReadersInit, ReadersTypeOK
<1>2. ReadersTypeOK /\ TypeOK' /\ [ReadersNext]_<<vars, rvars>> => ReadersTypeOK'
  <2> SUFFICES ASSUME ReadersTypeOK, TypeOK', [ReadersNext]_<<vars, rvars>> PROVE ReadersTypeOK'
    OBVIOUS
  <2> USE DEF ReadersTypeOK
  <2>1. CASE UNCHANGED rvars
    BY <2>1 DEF rvars
  <2>2. ASSUME NEW k \in Reader, LoadRow(k) PROVE ReadersTypeOK'
    BY <2>2, RowLoaded DEF LoadRow
  <2>3. ASSUME NEW k \in Reader, LoadSources(k) PROVE ReadersTypeOK'
    <3>1. CASE UNCHANGED ctx
      BY <2>3, <3>1 DEF LoadSources
    <3>2. CASE \E r \in rows : ctx' = [ctx EXCEPT ![k].files = r.files]
      <4>1. PICK r \in rows : ctx' = [ctx EXCEPT ![k].files = r.files]
        BY <3>2
      <4>2. [ctx[k] EXCEPT !.files = r.files] \in Context
        BY ZenonT(30) DEF TypeOK, Row, Context
      <4> QED BY <2>3, <4>1, <4>2 DEF LoadSources
    <3> QED BY <2>3, <3>1, <3>2 DEF LoadSources
  <2>4. ASSUME NEW k \in Reader, ReadSource(k) PROVE ReadersTypeOK'
    <3>1. PICK s \in Source :
            pages' = [pages EXCEPT ![k] = @ \union
              {[project |-> ctx[k].project, ask |-> ctx[k].ask, marker |-> ctx[k].marker,
                row |-> ctx[k].row, content |-> w] : w \in Opened(ctx[k], s)}]
      BY <2>4 DEF ReadSource
    <3>2. \A w \in Opened(ctx[k], s) :
            [project |-> ctx[k].project, ask |-> ctx[k].ask, marker |-> ctx[k].marker,
             row |-> ctx[k].row, content |-> w] \in Page
      BY OpenedTyped DEF Page, Context
    <3>3. pages' \in [Reader -> SUBSET Page]
      BY <3>1, <3>2
    <3>4. NoContext \in Context
      BY ConstantsAssumption DEF NoContext, Context, Place
    <3> QED BY <2>4, <3>3, <3>4 DEF ReadSource
  <2> QED BY <2>1, <2>2, <2>3, <2>4 DEF ReadersNext, ReaderStep
<1> QED BY <1>1, <1>2, ReadersSpecImpliesSpec, TypeCorrect, PTL DEF ReadersSpec

\* The row of project p dated at, now deleted perhaps, has the id, and no other has.
Dated(p, at, id) ==
  /\ \A r \in rows : r.project = p /\ r.at = at => r.id = id
  /\ at < now \/ \E r \in rows : r.project = p /\ r.at = at

\* No latest row of the project, now or later, comes before id.
Newest(p, id) ==
  /\ id < nextId
  /\ \A r \in rows : r.project = p /\ r.state = "latest" => id <= r.id

\* What a call has loaded fits the row it found, whatever became of the row.
CallDated(x) == Dated(x.project, x.marker, x.row) /\ Newest(x.project, x.row)

CallNamed(x) ==
  /\ x.ask \in {Latest, x.marker}
  /\ \A r \in rows : r.id = x.row =>
       /\ r.at = x.marker /\ r.project = x.project
       /\ x.ask # Latest => r.state = "archived"

FilesLoaded(k) ==
  \A s \in Source :
    /\ ctx[k].files[s] \in {NoFile, Latest, ctx[k].marker}
    /\ ctx[k].ask # Latest => ctx[k].files[s] # Latest

ContextsInv ==
  \A k \in Reader :
    /\ rpc[k] # "idle" => CallDated(ctx[k]) /\ CallNamed(ctx[k])
    /\ rpc[k] = "context" => FilesLoaded(k)
    /\ rpc[k] # "context" => ctx[k].files = [s \in Source |-> NoFile]

\* A page of an archive holds its row's lines; the row's date is no other row's.
PageDated(g) ==
  /\ g.content >= g.row
  /\ g.ask # Latest => g.content = g.row /\ Dated(g.project, g.ask, g.row)

\* Calls and pages that ask for one archive mean one row.
PagesAgree(k) ==
  \A g \in pages[k] : g.ask # Latest =>
    /\ \A h \in pages[k] : SameLocator(g, h) => g.row = h.row
    /\ rpc[k] # "idle" /\ ctx[k].project = g.project /\ ctx[k].ask = g.ask => ctx[k].row = g.row

PagesInv == \A k \in Reader : PagesAgree(k) /\ \A g \in pages[k] : PageDated(g)

ReadersInv == ContextsInv /\ PagesInv

\* What is known of a row's id and date stays true when rows come and go.
LEMMA DatedStays ==
  ASSUME TypeOK, TypeOK', StoreInv, RowsEvolve, NEW p \in Project, NEW at \in Nat, NEW id \in Nat
  PROVE  /\ Dated(p, at, id) => Dated(p, at, id)'
         /\ Newest(p, id) => Newest(p, id)'
<1>1. ASSUME Dated(p, at, id) PROVE Dated(p, at, id)'
  <2>1. ASSUME NEW q \in rows', q.project = p, q.at = at PROVE q.id = id
    <3>1. CASE \E r \in rows : Continues(q, r)
      BY <1>1, <2>1, <3>1 DEF Dated, Continues
    <3>2. CASE q.at = now' /\ \A r \in rows : r.project = q.project => r.at # now'
      BY <1>1, <2>1, <3>2 DEF Dated, RowsEvolve, TypeOK
    <3> QED BY <3>1, <3>2 DEF RowsEvolve
  <2>2. at < now' \/ \E q \in rows' : q.project = p /\ q.at = at
    BY <1>1 DEF Dated, RowsEvolve, Continues, TypeOK
  <2> QED BY <2>1, <2>2 DEF Dated
<1>2. ASSUME Newest(p, id) PROVE Newest(p, id)'
  <2>1. id < nextId'
    BY <1>2 DEF Newest, RowsEvolve, TypeOK
  <2>2. ASSUME NEW q \in rows', q.project = p, q.state = "latest" PROVE id <= q.id
    BY <1>2, <2>2 DEF Newest, RowsEvolve, Continues, TypeOK
  <2> QED BY <2>1, <2>2 DEF Newest
<1> QED BY <1>1, <1>2

LEMMA NamedStays ==
  ASSUME TypeOK, TypeOK', StoreInv, RowsEvolve, NEW x \in Context, CallNamed(x), x.row < nextId
  PROVE  /\ x.ask \in {Latest, x.marker}
         /\ \A r \in rows' : r.id = x.row =>
              /\ r.at = x.marker /\ r.project = x.project
              /\ x.ask # Latest => r.state = "archived"
<1> SUFFICES ASSUME NEW q \in rows', q.id = x.row
             PROVE  /\ q.at = x.marker /\ q.project = x.project
                    /\ x.ask # Latest => q.state = "archived"
  BY DEF CallNamed
<1>1. PICK r \in rows : Continues(q, r)
  BY DEF RowsEvolve, TypeOK, Context
<1> QED BY <1>1 DEF CallNamed, Continues, TypeOK, Row

\* Collections keep what readers hold.
LEMMA CollectionsKeepReaders ==
  ASSUME ReadersTypeOK, TypeOK', StoreInv, RowsEvolve, ReadersInv, UNCHANGED rvars
  PROVE  ReadersInv'
<1>1. UNCHANGED <<rpc, ctx, pages>>
  BY DEF rvars
<1>2. ASSUME NEW k \in Reader, rpc[k] # "idle" PROVE CallDated(ctx[k])' /\ CallNamed(ctx[k])'
  <2>1. ctx[k] \in Context /\ ctx'[k] = ctx[k]
    BY <1>1 DEF ReadersTypeOK
  <2>2. CallDated(ctx[k]) /\ CallNamed(ctx[k])
    BY <1>2 DEF ReadersInv, ContextsInv
  <2> DEFINE x == ctx[k]
  <2>3. x.project \in Project /\ x.marker \in Nat /\ x.row \in Nat /\ x.row < nextId
    BY <2>1, <2>2 DEF Context, CallDated, Newest
  <2>4. CallDated(ctx[k])'
    BY <2>1, <2>2, <2>3, DatedStays DEF CallDated, Dated, Newest, ReadersTypeOK
  <2>5. CallNamed(ctx[k])'
    BY <2>1, <2>2, <2>3, NamedStays DEF CallNamed, ReadersTypeOK
  <2> QED BY <2>4, <2>5
<1>3. ContextsInv'
  BY <1>1, <1>2 DEF ReadersInv, ContextsInv, FilesLoaded
<1>4. ASSUME NEW k \in Reader, NEW g \in pages[k], PageDated(g) PROVE PageDated(g)'
  <2>1. g.project \in Project /\ g.row \in Nat /\ g.ask \in Place
    BY DEF ReadersTypeOK, Page
  <2> QED BY <1>4, <2>1, DatedStays DEF PageDated, Dated, Place, ReadersTypeOK
<1>5. PagesInv'
  BY <1>1, <1>4 DEF ReadersInv, PagesInv, PagesAgree, PageDated, SameLocator
<1> QED BY <1>3, <1>5 DEF ReadersInv

LEMMA LoadRowKeeps ==
  ASSUME ReadersTypeOK, StoreInv, FilesInv, OwnersInv, ReadersInv, NEW k \in Reader, LoadRow(k)
  PROVE  ReadersInv'
<1> USE DEF ReadersTypeOK
<1>1. PICK p \in Project, n \in Place : \E r \in Located(p, n) :
        /\ ctx' \in [Reader -> Context]
        /\ \A j \in Reader \ {k} : ctx'[j] = ctx[j]
        /\ ctx'[k].project = p /\ ctx'[k].ask = n /\ ctx'[k].row = r.id
        /\ ctx'[k].marker = r.at /\ ctx'[k].files = ctx[k].files
  BY RowLoaded
<1>2. PICK r \in Located(p, n) :
        /\ \A j \in Reader \ {k} : ctx'[j] = ctx[j]
        /\ ctx'[k].project = p /\ ctx'[k].ask = n /\ ctx'[k].row = r.id
        /\ ctx'[k].marker = r.at /\ ctx'[k].files = ctx[k].files
  BY <1>1
<1>3. UNCHANGED <<rows, nextId, dirs, now, pages>> /\ rpc[k] = "idle" /\ rpc' = [rpc EXCEPT ![k] = "row"]
  BY DEF LoadRow, vars, store, world
<1>4. /\ r \in rows /\ r.project = p /\ n \in {Latest, r.at}
      /\ n # Latest => r.state = "archived"
  BY DEF Located, LatestRows, Claiming, ArchivedRows, ArchiveName
<1>5. Dated(p, r.at, r.id)
  BY <1>4 DEF Dated, FilesInv, DatesDistinct
<1>6. Newest(p, r.id)
  BY <1>4 DEF Newest, OwnersInv, LatestNewest, StoreInv, RowsNumbered
<1>7. CallDated(ctx[k])'
  BY <1>2, <1>3, <1>5, <1>6 DEF CallDated, Dated, Newest
<1>8. CallNamed(ctx[k])'
  BY <1>2, <1>3, <1>4 DEF CallNamed, StoreInv, RowsNumbered
<1>9. ContextsInv'
  <2>1. ASSUME NEW j \in Reader \ {k}
        PROVE  /\ rpc'[j] # "idle" => CallDated(ctx[j])' /\ CallNamed(ctx[j])'
               /\ rpc'[j] = "context" => FilesLoaded(j)'
               /\ rpc'[j] # "context" => ctx'[j].files = [s \in Source |-> NoFile]
    BY <1>2, <1>3, <2>1 DEF ReadersInv, ContextsInv, CallDated, Dated, Newest, CallNamed, FilesLoaded
  <2>2. rpc'[k] = "row" /\ ctx'[k].files = [s \in Source |-> NoFile]
    BY <1>2, <1>3 DEF ReadersInv, ContextsInv
  <2> QED BY <1>7, <1>8, <2>1, <2>2 DEF ContextsInv
<1>10. \A j \in Reader : \A g \in pages[j] : PageDated(g)'
  BY <1>3 DEF ReadersInv, PagesInv, PageDated, Dated
\* The archive a page came from is still that of the row found now.
<1>11. ASSUME NEW g \in pages[k], g.ask # Latest, g.project = p, g.ask = n
       PROVE  g.row = r.id
  BY <1>4, <1>11 DEF ReadersInv, PagesInv, PageDated, Dated
<1>12. \A j \in Reader : PagesAgree(j)'
  BY <1>2, <1>3, <1>11 DEF ReadersInv, PagesInv, PagesAgree, SameLocator
<1> QED BY <1>3, <1>9, <1>10, <1>12 DEF ReadersInv, PagesInv

LEMMA LoadSourcesKeeps ==
  ASSUME ReadersTypeOK, StoreInv, FilesInv, ReadersInv, NEW k \in Reader, LoadSources(k)
  PROVE  ReadersInv'
<1> USE DEF ReadersTypeOK
<1>1. UNCHANGED <<rows, nextId, dirs, now, pages>> /\ rpc[k] = "row" /\ rpc' = [rpc EXCEPT ![k] = "context"]
  BY DEF LoadSources, vars, store, world
<1>2. /\ \A j \in Reader \ {k} : ctx'[j] = ctx[j]
      /\ ctx'[k].project = ctx[k].project /\ ctx'[k].ask = ctx[k].ask
      /\ ctx'[k].row = ctx[k].row /\ ctx'[k].marker = ctx[k].marker
      /\ \/ ctx'[k].files = ctx[k].files
         \/ \E r \in rows : r.id = ctx[k].row /\ ctx'[k].files = r.files
  <2>1. CASE UNCHANGED ctx
    BY <2>1
  <2>2. CASE \E r \in rows : r.id = ctx[k].row /\ ctx' = [ctx EXCEPT ![k].files = r.files]
    <3>1. PICK r \in rows : r.id = ctx[k].row /\ ctx' = [ctx EXCEPT ![k].files = r.files]
      BY <2>2
    <3>2. ctx'[k] = [ctx[k] EXCEPT !.files = r.files] /\ ctx[k] \in Context
      BY <3>1
    <3> QED BY <3>1, <3>2 DEF Context
  <2> QED BY <2>1, <2>2 DEF LoadSources
<1>3. CallDated(ctx[k]) /\ CallNamed(ctx[k]) /\ ctx[k].files = [s \in Source |-> NoFile]
  BY <1>1 DEF ReadersInv, ContextsInv
<1>4. FilesLoaded(k)'
  BY <1>2, <1>3, ConstantsAssumption DEF FilesLoaded, CallNamed, FilesInv, FilesNamed
<1>5. ContextsInv'
  BY <1>1, <1>2, <1>3, <1>4
     DEF ReadersInv, ContextsInv, CallDated, Dated, Newest, CallNamed, FilesLoaded
<1>6. PagesInv'
  BY <1>1, <1>2 DEF ReadersInv, PagesInv, PagesAgree, PageDated, Dated, SameLocator
<1> QED BY <1>5, <1>6 DEF ReadersInv

\* The lines behind a path are the row's own, or, under latest, of a later row.
LEMMA OpenedIsOwn ==
  ASSUME ReadersTypeOK, OwnersInv, ReadersInv, NEW k \in Reader, rpc[k] = "context",
         NEW s \in Source, NEW w \in Opened(ctx[k], s)
  PROVE  /\ w >= ctx[k].row
         /\ ctx[k].ask # Latest => w = ctx[k].row /\ ctx[k].ask = ctx[k].marker
<1> USE DEF ReadersTypeOK, TypeOK
<1>1. CallDated(ctx[k]) /\ CallNamed(ctx[k]) /\ FilesLoaded(k)
  BY DEF ReadersInv, ContextsInv
<1>2. PICK d \in DirAt(ctx[k].project, ctx[k].files[s]) : d.content[s] = w /\ w # 0
  BY DEF Opened
<1>3. PICK r \in rows : Owns(r, d, s)
  BY <1>2 DEF OwnersInv, LinesOwned, DirAt
<1>4. w \in Nat /\ ctx[k].row \in Nat /\ ctx[k].marker \in Nat /\ r.id = w /\ r.project = ctx[k].project
  BY <1>2, <1>3 DEF Context, Row, Owns, DirAt
<1>5. CASE ctx[k].files[s] = Latest
  BY <1>1, <1>2, <1>3, <1>4, <1>5 DEF CallDated, Newest, FilesLoaded, Owns, DirAt
<1>6. CASE ctx[k].files[s] # Latest
  <2>1. d.name = ctx[k].marker /\ d.name # Latest
    BY <1>1, <1>2, <1>6, ConstantsAssumption DEF FilesLoaded, DirAt, Dir, Place
  <2>2. r.at = ctx[k].marker
    BY <1>3, <2>1 DEF Owns
  <2> QED BY <1>1, <1>4, <2>2 DEF CallDated, Dated, CallNamed
<1> QED BY <1>5, <1>6

LEMMA ReadSourceKeeps ==
  ASSUME ReadersTypeOK, OwnersInv, ReadersInv, NEW k \in Reader, ReadSource(k)
  PROVE  ReadersInv'
<1> USE DEF ReadersTypeOK
<1>1. PICK s \in Source :
        pages' = [pages EXCEPT ![k] = @ \union
          {[project |-> ctx[k].project, ask |-> ctx[k].ask, marker |-> ctx[k].marker,
            row |-> ctx[k].row, content |-> w] : w \in Opened(ctx[k], s)}]
  BY DEF ReadSource
<1>2. /\ UNCHANGED <<rows, nextId, dirs, now>> /\ rpc[k] = "context"
      /\ rpc' = [rpc EXCEPT ![k] = "idle"] /\ ctx' = [ctx EXCEPT ![k] = NoContext]
  BY DEF ReadSource, vars, store, world
<1>3. \A j \in Reader : j # k => pages'[j] = pages[j] /\ rpc'[j] = rpc[j] /\ ctx'[j] = ctx[j]
  BY <1>1, <1>2
<1>4. NoContext.files = [x \in Source |-> NoFile]
  BY DEF NoContext
<1>5. ContextsInv'
  BY <1>2, <1>3, <1>4 DEF ReadersInv, ContextsInv, CallDated, Dated, Newest, CallNamed, FilesLoaded
<1>6. ASSUME NEW g \in pages'[k], g \notin pages[k]
      PROVE  /\ g.project = ctx[k].project /\ g.ask = ctx[k].ask /\ g.row = ctx[k].row
             /\ g.content \in Opened(ctx[k], s)
  BY <1>1, <1>6
<1>7. ASSUME NEW g \in pages'[k] PROVE PageDated(g)'
  <2>1. CASE g \in pages[k]
    BY <1>2, <2>1 DEF ReadersInv, PagesInv, PageDated, Dated
  <2>2. CASE g \notin pages[k]
    <3>1. /\ g.content >= ctx[k].row
          /\ ctx[k].ask # Latest => g.content = ctx[k].row /\ ctx[k].ask = ctx[k].marker
      BY <1>2, <1>6, <2>2, OpenedIsOwn
    <3>2. Dated(ctx[k].project, ctx[k].marker, ctx[k].row)
      BY <1>2 DEF ReadersInv, ContextsInv, CallDated
    <3> QED BY <1>2, <1>6, <2>2, <3>1, <3>2 DEF PageDated, Dated
  <2> QED BY <2>1, <2>2
<1>8. PagesAgree(k)'
  <2>1. ASSUME NEW g \in pages'[k], NEW h \in pages'[k], g.ask # Latest, SameLocator(g, h)
        PROVE  g.row = h.row
    <3>1. PagesAgree(k)
      BY DEF ReadersInv, PagesInv
    <3> QED BY <1>2, <1>6, <2>1, <3>1 DEF PagesAgree, SameLocator
  <2> QED BY <1>2, <2>1 DEF PagesAgree
<1>9. \A j \in Reader : PagesAgree(j)' /\ \A g \in pages'[j] : PageDated(g)'
  BY <1>2, <1>3, <1>7, <1>8 DEF ReadersInv, PagesInv, PagesAgree, PageDated, Dated, SameLocator
<1> QED BY <1>5, <1>9 DEF ReadersInv, PagesInv

LEMMA ReadersInvInit == ReadersInit => ReadersInv
<1> SUFFICES ASSUME ReadersInit PROVE ReadersInv
  OBVIOUS
<1>1. NoContext.files = [s \in Source |-> NoFile]
  BY DEF NoContext
<1>2. ContextsInv
  BY <1>1 DEF ReadersInit, ContextsInv
<1>3. PagesInv
  BY DEF ReadersInit, PagesInv, PagesAgree
<1> QED BY <1>2, <1>3 DEF ReadersInv

LEMMA ReadersInvStep ==
  ASSUME MovesWhole
  PROVE  ReadersTypeOK /\ TypeOK' /\ StoreInv /\ FilesInv /\ FilesInv' /\ OwnersInv /\ ReadersInv
           /\ [ReadersNext]_<<vars, rvars>> => ReadersInv'
<1> SUFFICES ASSUME ReadersTypeOK, TypeOK', StoreInv, FilesInv, FilesInv', OwnersInv, ReadersInv,
                    [ReadersNext]_<<vars, rvars>>
             PROVE  ReadersInv'
  OBVIOUS
<1>1. CASE [Next]_vars /\ UNCHANGED rvars
  BY <1>1, Evolution, CollectionsKeepReaders DEF ReadersTypeOK
<1>2. ASSUME NEW k \in Reader, ReaderStep(k) PROVE ReadersInv'
  BY <1>2, LoadRowKeeps, LoadSourcesKeeps, ReadSourceKeeps DEF ReaderStep
<1> QED BY <1>1, <1>2 DEF ReadersNext

\* What readers hold of rows and archives stays true while collections run beside
\* them, if moves are whole.
THEOREM ReadersInvariant ==
  ASSUME MovesWhole
  PROVE  ReadersSpec => []ReadersInv
<1>1. ReadersTypeOK /\ TypeOK' /\ StoreInv /\ FilesInv /\ FilesInv' /\ OwnersInv /\ ReadersInv
        /\ [ReadersNext]_<<vars, rvars>> => ReadersInv'
  BY ReadersInvStep
<1> QED
  BY <1>1, ReadersInvInit, ReadersSpecImpliesSpec, ReadersTyped, TypeCorrect, StoreInvariant,
     FilesInvariant, OwnersInvariant, PTL DEF ReadersSpec

\* However many pages a client takes of one archive_name, and whatever is collected,
\* archived or pruned between them, they are pages of one revision.
THEOREM OneRevisionPerArchive ==
  ASSUME MovesWhole
  PROVE  ReadersSpec => []ArchivePagesOneRevision
<1>1. ReadersInv => ArchivePagesOneRevision
  BY DEF ReadersInv, PagesInv, PagesAgree, PageDated, ArchivePagesOneRevision, SameLocator
<1> QED BY <1>1, ReadersInvariant, PTL

\* A page is of the revision whose metadata came with it, or of a later one.
THEOREM PagesNeverOlder ==
  ASSUME MovesWhole
  PROVE  ReadersSpec => []NeverOlderThanMetadata
<1>1. ReadersInv => NeverOlderThanMetadata
  BY DEF ReadersInv, PagesInv, PageDated, NeverOlderThanMetadata
<1> QED BY <1>1, ReadersInvariant, PTL
=============================================================================
