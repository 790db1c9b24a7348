-------------------------- MODULE SessionSnapshots --------------------------
(***************************************************************************)
(* Session snapshots: LOGS_DIR/sessions/<session>/<project>/, replaced in  *)
(* place by every collection of that project into that session, cleaned by *)
(* the age of the session's folder, and described by collect_logs rows     *)
(* that are written last and never deleted.                                *)
(*                                                                         *)
(* A collection (LogCollectionService.build_session_logs) runs inside the  *)
(* flock-guarded transaction that those of WorkflowSnapshots use as well;  *)
(* preparing its directory has no await in it and is one step.             *)
(*                                                                         *)
(* Abstracted: collections are numbered in the order they take the lock,   *)
(* which is the order of their rows' collected_at; the content of a log    *)
(* file is the number of the collection that wrote it last, of two that    *)
(* wrote it at once the older's.                                           *)
(***************************************************************************)
EXTENDS Naturals

CONSTANTS
  Session,        \* session ids
  Project,        \* project keys
  Source,         \* source keys of a project's manifest
  Proc,           \* concurrent collections
  NoProc,         \* the lock file is not locked
  Retention,      \* LOG_SNAPSHOT_RETENTION
  MaxCollections, \* bound: collections that take the lock
  MaxInterrupts,  \* bound: interruptions
  MaxTime         \* bound: the clock

ASSUME SessionAssumption ==
  /\ Session # {} /\ Project # {}
  /\ NoProc \notin Proc
  /\ Retention \in Nat
  /\ MaxCollections \in Nat /\ MaxInterrupts \in Nat /\ MaxTime \in Nat

VARIABLES
  rows,        \* collect_logs rows of workspace "session", with their source rows
  folders,     \* session folders, with the mtime the clean-up goes by
  dirs,        \* project directories in them
  lock,        \* holder of .snapshot-collection.lock
  pc,          \* step of each collection
  run,         \* what each collection collects
  todo,        \* sources still to collect, or to save
  usable,      \* sources collected with a usable file
  taken,       \* collections that took the lock so far
  now,         \* the clock
  interrupts,  \* interruptions so far (bounds the model)
  outlived     \* collections whose worker outlived the lock (read by properties only)

sessionVars == <<rows, folders, dirs, lock, pc, run, todo, usable, taken, now, interrupts,
                 outlived>>

SessionRow == [number : Nat \ {0}, session : Session, project : Project, files : SUBSET Source]
Folder     == [session : Session, mtime : Nat]
ProjectDir == [session : Session, project : Project, content : [Source -> Nat]]  \* 0: no file
Run        == [session : Session, project : Project, number : Nat]

\* A detached worker, whose collection was cancelled twice, works without the lock.
Holding == {"prepare", "collect", "drain", "create", "save", "release"}

SessionTypeOK ==
  /\ rows \subseteq SessionRow
  /\ folders \subseteq Folder
  /\ dirs \subseteq ProjectDir
  /\ lock \in Proc \union {NoProc}
  /\ pc \in [Proc -> {"idle", "locking", "detached"} \union Holding]
  /\ run \in [Proc -> Run]
  /\ todo \in [Proc -> SUBSET Source]
  /\ usable \in [Proc -> SUBSET Source]
  /\ taken \in Nat /\ now \in Nat /\ interrupts \in Nat
  /\ outlived \subseteq Nat

\* Definitions with a Mutant suffix are used by no specification: each is the
\* definition below it with a plausible mistake, which a property must detect.

ExpiredFoldersMutant == {f \in folders : f.mtime + Retention <= now}

\* The folders cleanup_old_snapshot_dirs removes.
ExpiredFolders == {f \in folders : f.mtime + Retention < now}

RowsOf(s, p) == {r \in rows : r.session = s /\ r.project = p}

NewestMutant(s, p) == {r \in RowsOf(s, p) : \A q \in RowsOf(s, p) : r.number <= q.number}

\* The row a session's snapshot tools read: the one collected last.
Newest(s, p) == {r \in RowsOf(s, p) : \A q \in RowsOf(s, p) : q.number <= r.number}

DirOf(s, p) == {d \in dirs : d.session = s /\ d.project = p}

Go(c, from, to) == pc[c] = from /\ pc' = [pc EXCEPT ![c] = to]

SessionInit ==
  /\ rows = {} /\ folders = {} /\ dirs = {} /\ lock = NoProc
  /\ pc = [c \in Proc |-> "idle"]
  /\ \E s \in Session, p \in Project :
       run = [c \in Proc |-> [session |-> s, project |-> p, number |-> 0]]
  /\ todo = [c \in Proc |-> {}]
  /\ usable = [c \in Proc |-> {}]
  /\ taken = 0 /\ now = 0 /\ interrupts = 0 /\ outlived = {}

-----------------------------------------------------------------------------
Begin(c) ==
  /\ taken < MaxCollections
  /\ Go(c, "idle", "locking")
  /\ \E s \in Session, p \in Project :
       run' = [run EXCEPT ![c] = [session |-> s, project |-> p, number |-> 0]]
  /\ UNCHANGED <<rows, folders, dirs, lock, todo, usable, taken, now, interrupts, outlived>>

AcquireMutant(c) ==
  /\ taken < MaxCollections /\ taken' = taken + 1
  /\ lock' = c
  /\ Go(c, "locking", "prepare")
  /\ run' = [run EXCEPT ![c].number = taken']
  /\ UNCHANGED <<rows, folders, dirs, todo, usable, now, interrupts, outlived>>

Acquire(c) ==
  /\ taken < MaxCollections /\ taken' = taken + 1
  /\ lock = NoProc /\ lock' = c
  /\ Go(c, "locking", "prepare")
  /\ run' = [run EXCEPT ![c].number = taken']
  /\ UNCHANGED <<rows, folders, dirs, todo, usable, now, interrupts, outlived>>

\* The folder is ensured first, which leaves the mtime of an existing one: cleaning
\* up may then remove this very folder, and the directories of its other projects.
\* Last the project's directory is made anew, which dates its folder.
Prepare(c) ==
  /\ Go(c, "prepare", "collect")
  /\ LET s == run[c].session
         p == run[c].project
         expired == {f.session : f \in ExpiredFolders}
     IN /\ folders' = {f \in folders : f.session \notin expired \union {s}}
                        \union {[session |-> s, mtime |-> now]}
        /\ dirs' = {d \in dirs : d.session \notin expired /\ d \notin DirOf(s, p)}
                     \union {[session |-> s, project |-> p, content |-> [k \in Source |-> 0]]}
  /\ todo' = [todo EXCEPT ![c] = Source]
  /\ UNCHANGED <<rows, lock, run, usable, taken, now, interrupts, outlived>>

\* One source: collected, failed halfway leaving its output file, or failed at once. A
\* detached worker writes into the directory it finds, which may be another collection's.
CollectSource(c) ==
  /\ pc[c] \in {"collect", "drain", "detached"}
  /\ \E k \in todo[c] :
       /\ todo' = [todo EXCEPT ![c] = @ \ {k}]
       /\ \/ /\ \E d \in DirOf(run[c].session, run[c].project) :
                  dirs' = (dirs \ {d}) \union {[d EXCEPT !.content[k] = run[c].number]}
             /\ usable' \in {usable, [usable EXCEPT ![c] = @ \union {k}]}
          \/ UNCHANGED <<dirs, usable>>
  /\ UNCHANGED <<rows, folders, lock, pc, run, taken, now, interrupts, outlived>>

EndWorker(c) ==
  /\ todo[c] = {}
  /\ Go(c, "collect", "create") \/ Go(c, "drain", "release")
  /\ UNCHANGED <<rows, folders, dirs, lock, run, todo, usable, taken, now, interrupts, outlived>>

\* Cancelled: it waits for its worker, then gives the lock back without a row.
CancelWorker(c) ==
  /\ interrupts < MaxInterrupts /\ interrupts' = interrupts + 1
  /\ Go(c, "collect", "drain")
  /\ UNCHANGED <<rows, folders, dirs, lock, run, todo, usable, taken, now, outlived>>

\* Cancelled again while it waits: the wait itself ends and gives the lock back, and the
\* thread keeps working.
CancelDrain(c) ==
  /\ interrupts < MaxInterrupts /\ interrupts' = interrupts + 1
  /\ Go(c, "drain", "detached")
  /\ lock' = NoProc
  /\ outlived' = outlived \union {run[c].number}
  /\ UNCHANGED <<rows, folders, dirs, run, todo, usable, taken, now>>

\* The row comes first, its source rows after it, one by one.
CreateRow(c) ==
  /\ Go(c, "create", "save")
  /\ rows' = rows \union {[number |-> run[c].number, session |-> run[c].session,
                           project |-> run[c].project, files |-> {}]}
  /\ todo' = [todo EXCEPT ![c] = usable[c]]
  /\ UNCHANGED <<folders, dirs, lock, run, usable, taken, now, interrupts, outlived>>

SaveSource(c) ==
  /\ \/ /\ Go(c, "save", "save")
        /\ \E k \in todo[c], r \in rows :
             /\ r.number = run[c].number
             /\ rows' = (rows \ {r}) \union {[r EXCEPT !.files = @ \union {k}]}
             /\ todo' = [todo EXCEPT ![c] = @ \ {k}]
     \/ /\ Go(c, "save", "release")
        /\ todo[c] = {}
        /\ UNCHANGED <<rows, todo>>
  /\ UNCHANGED <<folders, dirs, lock, run, usable, taken, now, interrupts, outlived>>

\* The end of a collection: its locals are gone.
Leave(c) ==
  /\ lock' = IF lock = c THEN NoProc ELSE lock
  /\ pc' = [pc EXCEPT ![c] = "idle"]
  /\ run' = [run EXCEPT ![c].number = 0]
  /\ todo' = [todo EXCEPT ![c] = {}]
  /\ usable' = [usable EXCEPT ![c] = {}]
  /\ UNCHANGED <<rows, folders, dirs, taken, now, outlived>>

\* A detached worker's end, with or without an error, is nobody's to wait for.
Release(c) == pc[c] \in {"release", "detached"} /\ Leave(c) /\ UNCHANGED interrupts

\* An exception or a crash, at any step; of cancellations see CancelWorker, CancelDrain.
Interrupt(c) ==
  /\ pc[c] # "idle"
  /\ interrupts < MaxInterrupts /\ interrupts' = interrupts + 1
  /\ Leave(c)

Tick ==
  /\ now < MaxTime /\ now' = now + 1
  /\ UNCHANGED <<rows, folders, dirs, lock, pc, run, todo, usable, taken, interrupts, outlived>>

Collecting(c) == Prepare(c) \/ CollectSource(c) \/ EndWorker(c) \/ CreateRow(c) \/ SaveSource(c)

SessionNext ==
  Tick \/ \E c \in Proc : Begin(c) \/ Acquire(c) \/ Collecting(c) \/ Release(c)
                            \/ CancelWorker(c) \/ CancelDrain(c) \/ Interrupt(c)

SessionSpec == SessionInit /\ [][SessionNext]_sessionVars

-----------------------------------------------------------------------------
(* Properties.                                                             *)

\* While no collection was interrupted, the row a reader gets describes the disk:
\* every file it names holds the lines of its own collection, or went with its folder.
NewestDescribesDisk ==
  interrupts = 0 /\ lock = NoProc =>
    \A s \in Session, p \in Project : \A r \in Newest(s, p), d \in DirOf(s, p), k \in Source :
      IF k \in r.files THEN d.content[k] = r.number ELSE d.content[k] \in {0, r.number}

\* Files are replaced in collection order, whatever is interrupted: a file older than a
\* row that names it is the work of a worker that outlived its lock, and of no other.
NeverOlderThanRow ==
  \A r \in rows : \A d \in DirOf(r.session, r.project) : \A k \in r.files :
    d.content[k] = 0 \/ d.content[k] >= r.number \/ d.content[k] \in outlived

\* A collection, or a worker that outlived one, that writes this project of this session.
Writing(c, s, p) ==
  /\ lock = c \/ pc[c] = "detached"
  /\ run[c].session = s /\ run[c].project = p

\* A project's lines leave a session only when that project is collected into it again,
\* or with a folder in which nothing was prepared for longer than the retention.
LostOnlyReplacedOrIdle ==
  [][\A d \in dirs : \A k \in Source :
       d.content[k] # 0 =>
         \/ \E e \in DirOf(d.session, d.project)' : e.content[k] = d.content[k]
         \/ \E c \in Proc : Writing(c, d.session, d.project)
         \/ \E f \in folders : f.session = d.session /\ f.mtime + Retention < now]_sessionVars

\* A session is reused to add another project to it (playbook): collecting a project into
\* it leaves the snapshots of its other projects there.
ReuseKeepsProjects ==
  [][\A c \in Proc : \A d \in dirs :
       lock = c /\ d.session = run[c].session /\ d.project # run[c].project
         => DirOf(d.session, d.project)' # {}]_sessionVars
=============================================================================
