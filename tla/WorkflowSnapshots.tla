------------------------- MODULE WorkflowSnapshots -------------------------
(***************************************************************************)
(* Workflow snapshots: the per-project "latest" directory, its archive and *)
(* the collect_logs rows that describe them.                               *)
(*                                                                         *)
(* A collection (LogCollectionService.build_workflow_logs) runs inside the *)
(* flock-guarded collection_transaction and is NOT one database            *)
(* transaction: every awaited database call and every directory operation  *)
(* is a step of its own, after which the collection can be interrupted, or *)
(* be observed by a reader, which takes no lock.  A Proc is one running    *)
(* collection at a time: a background task, or a collect_logs call, of any *)
(* server process that shares LOGS_DIR and the database.                   *)
(*                                                                         *)
(* Abstracted: the content of a log file is the id of the row whose        *)
(* collection wrote it; the clock counts whole seconds, the resolution of  *)
(* an archive name; time filters, warnings and retry tips are left out.    *)
(***************************************************************************)
EXTENDS Naturals

CONSTANTS
  Project,          \* project keys
  Source,           \* source keys of a project's manifest
  Proc,             \* concurrent collections
  NoProc,           \* the lock file is not locked
  Latest,           \* the name of the directory of the current snapshot
  NoFile,           \* a source row without a file (not saved yet, or failed)
  Retention,        \* WORKFLOW_ARCHIVE_RETENTION, in seconds
  InterruptAt,      \* steps where an exception, a cancellation or a crash may strike
  MaxCancel,        \* cancellations that may reach one collection while its worker runs
  OnePerSecond,     \* whether two collections of a project never share a second
  MaxCollections,   \* bound: collections begun
  MaxInterrupts,    \* bound: interruptions
  MaxTime           \* bound: the clock

\* The steps a collection takes while it holds the lock, in the code's order;
\* "drain" is a cancelled collection waiting for its worker thread.
HoldsLock == {"lookup", "clear", "move", "relink", "list", "prune", "unrow",
              "prepare", "collect", "drain", "save", "release"}

\* "detached": the collection gave the lock back, its worker thread still runs.
Step == {"idle", "locking", "detached"} \union HoldsLock

ASSUME ConstantsAssumption ==
  /\ Project # {}
  /\ NoProc \notin Proc
  /\ Latest \notin Nat /\ NoFile \notin Nat /\ Latest # NoFile
  /\ Retention \in Nat
  /\ InterruptAt \subseteq Step \ {"idle"}
  /\ MaxCancel \in 0..2
  /\ OnePerSecond \in BOOLEAN
  /\ MaxCollections \in Nat /\ MaxInterrupts \in Nat /\ MaxTime \in Nat

VARIABLES
  rows,        \* the collect_logs table with its source rows
  nextId,      \* its next primary key
  dirs,        \* the directories under workflow/<project>/
  lock,        \* holder of .snapshot-collection.lock
  pc,          \* step of each collection
  proj,        \* project being collected
  old,         \* id of the row found latest, while it is archived
  own,         \* id of the row this collection created
  todo,        \* sources still to relink, to collect or to save
  got,         \* sources collected with a usable file
  cutoff,      \* second before which an archive is expired
  doomed,      \* archive name whose directory was just pruned
  now,         \* the clock, in seconds
  begun,       \* collections begun so far (bounds the model)
  interrupts   \* interruptions so far (bounds the model)

store  == <<rows, nextId, dirs>>
locals == <<proj, old, own, todo, got, cutoff, doomed>>
world  == <<now, begun, interrupts>>
vars   == <<store, lock, pc, locals, world>>

Place == Nat \union {Latest}

Row == [id       : Nat \ {0},
        project  : Project,
        at       : Nat,                                \* collected_at
        state    : {"latest", "archived"},             \* is_latest / archive_name set
        files    : [Source -> Place \union {NoFile}],  \* CollectLogsSource.file
        resolved : SUBSET Source]                      \* resolved_source_keys

Dir == [project : Project, name : Place, mtime : Nat,
        content : [Source -> Nat]]                     \* 0: no such file

TypeOK ==
  /\ rows \subseteq Row
  /\ nextId \in Nat \ {0}
  /\ dirs \subseteq Dir
  /\ lock \in Proc \union {NoProc}
  /\ pc \in [Proc -> Step]
  /\ proj \in [Proc -> Project]
  /\ old \in [Proc -> Nat]
  /\ own \in [Proc -> Nat]
  /\ todo \in [Proc -> SUBSET Source]
  /\ got \in [Proc -> SUBSET Source]
  /\ cutoff \in [Proc -> Nat]
  /\ doomed \in [Proc -> Nat]
  /\ now \in Nat /\ begun \in Nat /\ interrupts \in Nat

\* Definitions with a Mutant suffix are used by no specification: each is the
\* definition below it with a plausible mistake, which a property must detect.

LatestRows(p)   == {r \in rows : r.project = p /\ r.state = "latest"}
ArchivedRows(p) == {r \in rows : r.project = p /\ r.state = "archived"}

DirAtMutant(p, n) == {d \in dirs : d.name = n}

DirAt(p, n) == {d \in dirs : d.project = p /\ d.name = n}

\* strftime("%Y-%m-%dT%H-%M-%SZ"): collected_at, cut to the second.
ArchiveName(r) == r.at

ArchivedFileMutant(f, n) == f

\* The file column rewritten from "latest" to the archive; idempotent.
ArchivedFile(f, n) == IF f = Latest THEN n ELSE f

CutoffMutant == now - Retention

\* The second before which archives are expired.
Cutoff == IF now > Retention THEN now - Retention ELSE 0

ExpiredMutant(p, before) ==
  {d \in dirs : d.project = p /\ d.name # Latest /\ d.mtime <= before}

ExpiredAnyProjectMutant(p, before) == {d \in dirs : d.name # Latest /\ d.mtime < before}

\* The archive directories the retention policy removes.
Expired(p, before) ==
  {d \in dirs : d.project = p /\ d.name # Latest /\ d.mtime < before}

ClaimingMutant(p, n) == ArchivedRows(p)

\* The archived rows that claim a directory name.
Claiming(p, n) == {r \in ArchivedRows(p) : ArchiveName(r) = n}

Replace(r, s) == rows' = (rows \ {r}) \union {s}

Go(c, from, to) == pc[c] = from /\ pc' = [pc EXCEPT ![c] = to]

Forget(c) ==
  /\ old' = [old EXCEPT ![c] = 0]
  /\ own' = [own EXCEPT ![c] = 0]
  /\ todo' = [todo EXCEPT ![c] = {}]
  /\ got' = [got EXCEPT ![c] = {}]
  /\ cutoff' = [cutoff EXCEPT ![c] = 0]
  /\ doomed' = [doomed EXCEPT ![c] = 0]
  /\ UNCHANGED proj

Init ==
  /\ rows = {} /\ nextId = 1 /\ dirs = {}
  /\ lock = NoProc
  /\ pc = [c \in Proc |-> "idle"]
  /\ \E p \in Project : proj = [c \in Proc |-> p]
  /\ old = [c \in Proc |-> 0]
  /\ own = [c \in Proc |-> 0]
  /\ todo = [c \in Proc |-> {}]
  /\ got = [c \in Proc |-> {}]
  /\ cutoff = [c \in Proc |-> 0]
  /\ doomed = [c \in Proc |-> 0]
  /\ now = 0 /\ begun = 0 /\ interrupts = 0

-----------------------------------------------------------------------------
(* Entering and leaving the collection transaction.                        *)

Begin(c) ==
  /\ begun < MaxCollections
  /\ Go(c, "idle", "locking")
  /\ \E p \in Project : proj' = [proj EXCEPT ![c] = p]
  /\ begun' = begun + 1
  /\ UNCHANGED <<store, lock, old, own, todo, got, cutoff, doomed, now, interrupts>>

AcquireMutant(c) ==
  /\ Go(c, "locking", "lookup")
  /\ lock' = c
  /\ UNCHANGED <<store, locals, world>>

\* flock(LOCK_EX | LOCK_NB), polled every 10 ms until it succeeds.
Acquire(c) ==
  /\ lock = NoProc
  /\ Go(c, "locking", "lookup")
  /\ lock' = c
  /\ UNCHANGED <<store, locals, world>>

ReleaseMutant(c) ==
  /\ Go(c, "release", "idle")
  /\ Forget(c)
  /\ UNCHANGED <<store, lock, world>>

Release(c) ==
  /\ Go(c, "release", "idle")
  /\ lock' = NoProc
  /\ Forget(c)
  /\ UNCHANGED <<store, world>>

-----------------------------------------------------------------------------
(* Archiving the snapshot that is latest so far.                           *)

LookupLatest(c) ==
  /\ \/ /\ LatestRows(proj[c]) = {}
        /\ Go(c, "lookup", "list")
        /\ UNCHANGED old
     \/ /\ Go(c, "lookup", "clear")
        /\ \E r \in LatestRows(proj[c]) : old' = [old EXCEPT ![c] = r.id]
  /\ UNCHANGED <<store, lock, proj, own, todo, got, cutoff, doomed, world>>

\* A directory that already has the archive's name is removed first.
ClearArchivePath(c) ==
  /\ Go(c, "clear", "move")
  /\ \E r \in rows :
       /\ r.id = old[c]
       /\ dirs' = dirs \ DirAt(proj[c], ArchiveName(r))
  /\ UNCHANGED <<rows, nextId, lock, locals, world>>

MoveLatest(c) ==
  /\ Go(c, "move", "relink")
  /\ \E r \in rows :
       /\ r.id = old[c]
       /\ dirs' = (dirs \ DirAt(proj[c], Latest)) \union
                    {[d EXCEPT !.name = ArchiveName(r)] : d \in DirAt(proj[c], Latest)}
       /\ todo' = [todo EXCEPT ![c] = {s \in Source : r.files[s] # NoFile}]
  /\ UNCHANGED <<rows, nextId, lock, proj, old, own, got, cutoff, doomed, world>>

RelinkSource(c) ==
  /\ pc[c] = "relink"
  /\ \E r \in rows, s \in todo[c] :
       /\ r.id = old[c]
       /\ Replace(r, [r EXCEPT !.files[s] = ArchivedFile(@, ArchiveName(r))])
       /\ todo' = [todo EXCEPT ![c] = @ \ {s}]
  /\ UNCHANGED <<nextId, dirs, lock, pc, proj, old, own, got, cutoff, doomed, world>>

\* One UPDATE clears is_latest and sets archive_name and snapshot_dir.
MarkArchived(c) ==
  /\ Go(c, "relink", "list")
  /\ todo[c] = {}
  /\ \E r \in rows :
       /\ r.id = old[c]
       /\ Replace(r, [r EXCEPT !.state = "archived"])
  /\ UNCHANGED <<nextId, dirs, lock, locals, world>>

-----------------------------------------------------------------------------
(* Pruning expired archives.                                               *)

ListArchives(c) ==
  /\ Go(c, "list", "prune")
  /\ cutoff' = [cutoff EXCEPT ![c] = Cutoff]
  /\ UNCHANGED <<store, lock, proj, old, own, todo, got, doomed, world>>

PruneArchiveDir(c) ==
  /\ \E d \in Expired(proj[c], cutoff[c]) :
       /\ dirs' = dirs \ {d}
       /\ doomed' = [doomed EXCEPT ![c] = d.name]
       /\ IF Claiming(proj[c], d.name) = {} THEN Go(c, "prune", "prune")
                                            ELSE Go(c, "prune", "unrow")
  /\ UNCHANGED <<rows, nextId, lock, proj, old, own, todo, got, cutoff, world>>

\* Rows were indexed by archive name: of several with one name, one is deleted.
DeleteArchivedRow(c) ==
  /\ Go(c, "unrow", "prune")
  /\ \E r \in Claiming(proj[c], doomed[c]) : rows' = rows \ {r}
  /\ UNCHANGED <<nextId, dirs, lock, locals, world>>

-----------------------------------------------------------------------------
(* The new snapshot.                                                       *)

CreateRow(c) ==
  /\ Go(c, "prune", "prepare")
  /\ Expired(proj[c], cutoff[c]) = {}
  /\ LET taken == \E r \in rows : r.project = proj[c] /\ r.at = now
         at    == IF OnePerSecond /\ taken THEN now + 1 ELSE now
     IN /\ now' = at
        /\ rows' = rows \union
             {[id |-> nextId, project |-> proj[c], at |-> at, state |-> "latest",
               files |-> [s \in Source |-> NoFile], resolved |-> {}]}
  /\ own' = [own EXCEPT ![c] = nextId]
  /\ nextId' = nextId + 1
  /\ UNCHANGED <<dirs, lock, proj, old, todo, got, cutoff, doomed, begun, interrupts>>

\* rmtree(latest) and mkdir(latest), then the worker thread starts.
PrepareLatest(c) ==
  /\ Go(c, "prepare", "collect")
  /\ dirs' = (dirs \ DirAt(proj[c], Latest)) \union
       {[project |-> proj[c], name |-> Latest, mtime |-> now,
         content |-> [s \in Source |-> 0]]}
  /\ todo' = [todo EXCEPT ![c] = Source]
  /\ UNCHANGED <<rows, nextId, lock, proj, old, own, got, cutoff, doomed, world>>

WorkerRuns(c) == pc[c] \in {"collect", "drain", "detached"}

\* The file of s, opened by its path under "latest", for the collection of row id.
FileWritten(p, s, id) ==
  {IF d.project = p /\ d.name = Latest
     THEN [d EXCEPT !.content[s] = id, !.mtime = IF d.content[s] = 0 THEN now ELSE @]
     ELSE d : d \in dirs}

\* One source: collected, failed halfway leaving its output file, or failed at once.
CollectSource(c) ==
  /\ WorkerRuns(c)
  /\ \E s \in todo[c] :
       /\ todo' = [todo EXCEPT ![c] = @ \ {s}]
       /\ \/ /\ DirAt(proj[c], Latest) # {}
             /\ dirs' = FileWritten(proj[c], s, own[c])
             /\ got' \in {got, [got EXCEPT ![c] = @ \union {s}]}
          \/ UNCHANGED <<dirs, got>>
  /\ UNCHANGED <<rows, nextId, lock, pc, proj, old, own, cutoff, doomed, world>>

FinishWorker(c) ==
  /\ todo[c] = {}
  /\ \/ /\ Go(c, "collect", "save")
        /\ todo' = [todo EXCEPT ![c] = Source]
        /\ UNCHANGED <<proj, old, own, got, cutoff, doomed>>
     \/ /\ Go(c, "drain", "release")
        /\ UNCHANGED locals
     \/ /\ Go(c, "detached", "idle")
        /\ Forget(c)
  /\ UNCHANGED <<store, lock, world>>

CancelCollectMutant(c) ==
  /\ MaxCancel >= 1
  /\ Go(c, "collect", "detached")
  /\ lock' = NoProc
  /\ UNCHANGED <<store, locals, world>>

\* The awaiting task is cancelled once: it waits for the thread, then re-raises.
CancelCollect(c) ==
  /\ MaxCancel >= 1
  /\ Go(c, "collect", "drain")
  /\ UNCHANGED <<store, lock, locals, world>>

\* Cancelled again while it waits: the wait itself is cancelled, the lock released.
CancelDrain(c) ==
  /\ MaxCancel >= 2
  /\ Go(c, "drain", "detached")
  /\ lock' = NoProc
  /\ UNCHANGED <<store, locals, world>>

SaveSource(c) ==
  /\ pc[c] = "save"
  /\ \E r \in rows, s \in todo[c] :
       /\ r.id = own[c]
       /\ Replace(r, [r EXCEPT !.files[s] = IF s \in got[c] THEN Latest ELSE NoFile])
       /\ todo' = [todo EXCEPT ![c] = @ \ {s}]
  /\ UNCHANGED <<nextId, dirs, lock, pc, proj, old, own, got, cutoff, doomed, world>>

UpdateResolvedKeysMutant(c) ==
  /\ Go(c, "save", "release")
  /\ todo[c] = {}
  /\ \E r \in rows : r.id = own[c] /\ Replace(r, [r EXCEPT !.resolved = Source])
  /\ UNCHANGED <<nextId, dirs, lock, locals, world>>

UpdateResolvedKeys(c) ==
  /\ Go(c, "save", "release")
  /\ todo[c] = {}
  /\ \E r \in rows : r.id = own[c] /\ Replace(r, [r EXCEPT !.resolved = got[c]])
  /\ UNCHANGED <<nextId, dirs, lock, locals, world>>

-----------------------------------------------------------------------------
InterruptMutant(c) ==
  /\ interrupts < MaxInterrupts
  /\ pc[c] \in InterruptAt
  /\ interrupts' = interrupts + 1
  /\ pc' = [pc EXCEPT ![c] = "idle"]
  /\ Forget(c)
  /\ UNCHANGED <<store, lock, now, begun>>

\* An exception, a cancellation or a crash ends the collection where it is: the
\* finally clause, or the operating system, unlocks the file.
Interrupt(c) ==
  /\ interrupts < MaxInterrupts
  /\ pc[c] \in InterruptAt
  /\ interrupts' = interrupts + 1
  /\ lock' = IF lock = c THEN NoProc ELSE lock
  /\ pc' = [pc EXCEPT ![c] = "idle"]
  /\ Forget(c)
  /\ UNCHANGED <<store, now, begun>>

Tick ==
  /\ now < MaxTime
  /\ now' = now + 1
  /\ UNCHANGED <<store, lock, pc, locals, begun, interrupts>>

Archive(c) == LookupLatest(c) \/ ClearArchivePath(c) \/ MoveLatest(c)
                \/ RelinkSource(c) \/ MarkArchived(c)
Prune(c)   == ListArchives(c) \/ PruneArchiveDir(c) \/ DeleteArchivedRow(c)
Publish(c) == CreateRow(c) \/ PrepareLatest(c) \/ CollectSource(c) \/ FinishWorker(c)
                \/ SaveSource(c) \/ UpdateResolvedKeys(c)

\* What a collection does by itself, and what happens to it.
Progress(c) == Acquire(c) \/ Archive(c) \/ Prune(c) \/ Publish(c) \/ Release(c)
Disturb(c)  == CancelCollect(c) \/ CancelDrain(c) \/ Interrupt(c)

Next == Tick \/ \E c \in Proc : Begin(c) \/ Progress(c) \/ Disturb(c)

Spec == Init /\ [][Next]_vars

\* The event loop and the worker threads keep running.
Fairness == \A c \in Proc : WF_vars(Progress(c))

FairSpec == Spec /\ Fairness

-----------------------------------------------------------------------------
(* Properties.                                                             *)

\* A collection, or a worker thread it left behind, may change the store.
Writes(c) == pc[c] \in HoldsLock \union {"detached"}

\* Each project has one current snapshot (README, Snapshot Storage): two rows
\* are never latest at once, whichever step a collection is interrupted at.
AtMostOneLatest ==
  \A r, q \in rows :
    r.state = "latest" /\ q.state = "latest" /\ r.project = q.project => r = q

\* The lock serializes every mutation across processes, worker threads included.
SingleWriter == \A c, d \in Proc : Writes(c) /\ Writes(d) => c = d

\* The worker thread of a collection runs inside its transaction
\* (collect_sources_async waits for it before the lock is released).
WorkerInsideLock == \A c \in Proc : WorkerRuns(c) => lock = c

\* A row whose files are being moved, or whose archive has just been pruned.
InTransit(r) ==
  \E c \in Proc :
    \/ pc[c] = "relink" /\ old[c] = r.id
    \/ pc[c] = "unrow" /\ r \in Claiming(proj[c], doomed[c])

\* The file a source row names is on disk, under the name the row gives it, and
\* holds what the row's own collection wrote, never another snapshot's lines.
FilesBacked ==
  \A r \in rows : \A s \in Source :
    r.files[s] # NoFile /\ ~InTransit(r) =>
      \E d \in DirAt(r.project, r.files[s]) : d.content[s] = r.id

\* Snapshot tools do not point at files that no longer exist (README): between
\* collections, the directory an archived row names is there.
NoDanglingArchive ==
  lock = NoProc =>
    \A r \in rows : \A s \in Source :
      r.state = "archived" /\ r.files[s] # NoFile => DirAt(r.project, r.files[s]) # {}

\* A source listed as resolved has a row with a file: the keys are written last.
ResolvedBacked == \A r \in rows : \A s \in r.resolved : r.files[s] # NoFile

\* Collected lines leave the disk only with an archive older than the retention.
LostOnlyByRetention ==
  [][\A d \in dirs : \A s \in Source :
       d.content[s] # 0 =>
         \/ \E e \in dirs' : e.project = d.project /\ e.content[s] = d.content[s]
         \/ d.name # Latest /\ d.mtime + Retention < now]_vars

\* A collection that waits for the lock gets it and ends, with or without a result.
CollectionEnds == \A c \in Proc : pc[c] = "locking" ~> pc[c] = "idle"
=============================================================================
