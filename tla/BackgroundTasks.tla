-------------------------- MODULE BackgroundTasks --------------------------
(***************************************************************************)
(* Background log collections: start_log_collection queues one task row    *)
(* per project and returns a session id; each row is carried to its end by *)
(* a coroutine of the server that queued it; get_log_collection_status     *)
(* reports the rows of a session.                                          *)
(*                                                                         *)
(* The rows are in the database, the coroutines are not: a restart, a       *)
(* cancelled call or a failing write leaves rows without a coroutine.      *)
(*                                                                         *)
(* Abstracted: the collection itself is one step with the three outcomes   *)
(* that run() tells apart (a payload, a returned BuildLogsError, an        *)
(* exception); one caller; a status request reads all rows of a session in *)
(* one query and is one step.                                              *)
(***************************************************************************)
EXTENDS Naturals

CONSTANTS
  Call,          \* start_log_collection calls
  Session,       \* session ids, which calls may share
  Project,       \* projects a call may name
  MaxFaults      \* bound: restarts, cancelled calls and failing writes

ASSUME TasksAssumption == MaxFaults \in Nat

VARIABLES
  rows,          \* the tasks table
  coroutine,     \* where each task's coroutine is
  cpc,           \* state of each start_log_collection call
  session,       \* its session
  pending,       \* the projects it has still to queue
  named,         \* the projects it was asked for
  told,          \* what its caller last read with get_log_collection_status
  faults         \* restarts, cancelled calls and failed writes so far (bounds the model)

callVars  == <<cpc, session, pending, named>>
taskVars  == <<rows, coroutine, callVars, told, faults>>

TaskId == Call \X Project

TaskRow == [call : Call, project : Project,
            status : {"queued", "running", "completed", "failed"},
            started : BOOLEAN, ended : BOOLEAN,      \* started_at, completed_at
            result : {"none", "payload", "refusal", "exception"}]

Place == {"none", "scheduled", "working", "returned", "refused", "raised"}

TasksTypeOK ==
  /\ rows \subseteq TaskRow
  /\ coroutine \in [TaskId -> Place]
  /\ cpc \in [Call -> {"idle", "queueing", "started", "rejected", "lost"}]
  /\ session \in [Call -> Session]
  /\ pending \in [Call -> SUBSET Project]
  /\ named \in [Call -> SUBSET Project]
  /\ told \in [Call -> {"nothing", "pending", "completed"}]
  /\ faults \in Nat

\* Definitions with a Mutant suffix are used by no specification: each is the
\* definition below it with a plausible mistake, which a property must detect.

RowOf(a, p) == {r \in rows : r.call = a /\ r.project = p}

\* get_session_tasks: every row of the session, of whichever call.
SessionRows(a) == {r \in rows : session[r.call] = session[a]}

ReportMutant(R) == IF \E r \in R : r.ended THEN "completed" ELSE "pending"

\* completed_at is reported once every row has one.
Report(R) == IF \A r \in R : r.ended THEN "completed" ELSE "pending"

Save(r, s) == rows' = (rows \ {r}) \union {s}

Move(a, p, from, to) ==
  coroutine[<<a, p>>] = from /\ coroutine' = [coroutine EXCEPT ![<<a, p>>] = to]

TasksInit ==
  /\ rows = {}
  /\ coroutine = [t \in TaskId |-> "none"]
  /\ cpc = [a \in Call |-> "idle"]
  /\ session \in [Call -> Session]
  /\ pending = [a \in Call |-> {}]
  /\ named \in [Call -> (SUBSET Project) \ {{}}]
  /\ told = [a \in Call |-> "nothing"]
  /\ faults = 0

-----------------------------------------------------------------------------
(* start_log_collection.                                                   *)

StartCall(a) ==
  /\ cpc[a] = "idle" /\ cpc' = [cpc EXCEPT ![a] = "queueing"]
  /\ pending' = [pending EXCEPT ![a] = named[a]]
  /\ UNCHANGED <<rows, coroutine, session, named, told, faults>>

QueuedRow(a, p) == [call |-> a, project |-> p, status |-> "queued",
                    started |-> FALSE, ended |-> FALSE, result |-> "none"]

QueueProjectMutant(a) ==
  /\ cpc[a] = "queueing"
  /\ \E p \in pending[a] :
       /\ pending' = [pending EXCEPT ![a] = @ \ {p}]
       /\ rows' = rows \union {QueuedRow(a, p)}
       /\ UNCHANGED coroutine
  /\ UNCHANGED <<cpc, session, named, told, faults>>

\* One project: its row is created, then, without an await, its coroutine scheduled.
QueueProject(a) ==
  /\ cpc[a] = "queueing"
  /\ \E p \in pending[a] :
       /\ pending' = [pending EXCEPT ![a] = @ \ {p}]
       /\ rows' = rows \union {QueuedRow(a, p)}
       /\ Move(a, p, "none", "scheduled")
  /\ UNCHANGED <<cpc, session, named, told, faults>>

\* A project that is unknown, or has none of the requested sources, ends the call with
\* an error; so does a row that cannot be created.  Projects queued before go on.
RejectProject(a) ==
  /\ cpc[a] = "queueing" /\ pending[a] # {}
  /\ cpc' = [cpc EXCEPT ![a] = "rejected"]
  /\ UNCHANGED <<rows, coroutine, session, pending, named, told, faults>>

EndCall(a) ==
  /\ cpc[a] = "queueing" /\ pending[a] = {}
  /\ cpc' = [cpc EXCEPT ![a] = "started"]
  /\ UNCHANGED <<rows, coroutine, session, pending, named, told, faults>>

-----------------------------------------------------------------------------
(* TaskRunner.run.                                                         *)

RunTask(a, p) ==
  /\ Move(a, p, "scheduled", "working")
  /\ \E r \in RowOf(a, p) : Save(r, [r EXCEPT !.status = "running", !.started = TRUE])
  /\ UNCHANGED <<callVars, told, faults>>

\* The wrapped function returns a payload or a BuildLogsError, or raises.
Collected(a, p) ==
  /\ \E outcome \in {"returned", "refused", "raised"} : Move(a, p, "working", outcome)
  /\ UNCHANGED <<rows, callVars, told, faults>>

CompletedMutant(r, outcome) ==
  [r EXCEPT !.status = "completed", !.ended = TRUE, !.result = outcome]

\* A returned BuildLogsError is a result like any other.
Completed(r, outcome) ==
  [r EXCEPT !.status = "completed", !.ended = TRUE,
            !.result = IF outcome = "returned" THEN "payload" ELSE "refusal"]

FailedRowMutant(r) == [r EXCEPT !.status = "failed", !.result = "exception"]

FailedRow(r) == [r EXCEPT !.status = "failed", !.ended = TRUE, !.result = "exception"]

EndTask(a, p) ==
  /\ \E outcome \in {"returned", "refused", "raised"} :
       /\ Move(a, p, outcome, "none")
       /\ \E r \in RowOf(a, p) :
            Save(r, IF outcome = "raised" THEN FailedRow(r) ELSE Completed(r, outcome))
  /\ UNCHANGED <<callVars, told, faults>>

\* A write that fails.  The row cannot be loaded: the coroutine gives up.  It cannot be
\* set running: the task fails, with a second write.  The last write: the row stays.
DbError(a, p) ==
  /\ faults < MaxFaults /\ faults' = faults + 1
  /\ \/ Move(a, p, "scheduled", "none")
     \/ Move(a, p, "scheduled", "raised")
     \/ \E outcome \in {"returned", "refused", "raised"} : Move(a, p, outcome, "none")
  /\ UNCHANGED <<rows, callVars, told>>

-----------------------------------------------------------------------------
\* The server restarts, or its event loop shuts down: a cancelled coroutine writes
\* nothing, as run() catches exceptions only.
Crash ==
  /\ faults < MaxFaults /\ faults' = faults + 1
  /\ coroutine' = [t \in TaskId |-> "none"]
  /\ cpc' = [a \in Call |-> IF cpc[a] = "queueing" THEN "lost" ELSE cpc[a]]
  /\ UNCHANGED <<rows, session, pending, named, told>>

\* The client cancels the call.  The row being created may be written: it is then queued
\* and has no coroutine.
CancelCall(a) ==
  /\ faults < MaxFaults /\ faults' = faults + 1
  /\ cpc[a] = "queueing" /\ cpc' = [cpc EXCEPT ![a] = "lost"]
  /\ rows' \in {rows} \union {rows \union {QueuedRow(a, p)} : p \in pending[a]}
  /\ UNCHANGED <<coroutine, session, pending, named, told>>

\* get_log_collection_status, by a caller that was given the session id.
PollStatus(a) ==
  /\ cpc[a] = "started"
  /\ told[a] # "completed"
  /\ SessionRows(a) # {}
  /\ told' = [told EXCEPT ![a] = Report(SessionRows(a))]
  /\ UNCHANGED <<rows, coroutine, callVars, faults>>

Queueing(a) == StartCall(a) \/ QueueProject(a) \/ RejectProject(a) \/ EndCall(a)
Running(a, p) == RunTask(a, p) \/ Collected(a, p) \/ EndTask(a, p)

TasksNext ==
  \/ Crash
  \/ \E a \in Call : Queueing(a) \/ CancelCall(a) \/ PollStatus(a)
  \/ \E a \in Call, p \in Project : Running(a, p) \/ DbError(a, p)

TasksSpec == TasksInit /\ [][TasksNext]_taskVars

\* The event loop runs every coroutine; collections end; a caller goes on polling.
TasksFairness ==
  /\ \A a \in Call : WF_taskVars(QueueProject(a) \/ EndCall(a)) /\ WF_taskVars(PollStatus(a))
  /\ \A a \in Call, p \in Project : WF_taskVars(Running(a, p))

FairTasksSpec == TasksSpec /\ TasksFairness

-----------------------------------------------------------------------------
(* Properties.                                                             *)

\* While no write failed and the server did not restart, every row that has not ended
\* has its coroutine, and a row that has ended has none: nothing is forgotten or run on.
NoneForgotten ==
  faults = 0 =>
    \A r \in rows : r.ended <=> coroutine[<<r.call, r.project>>] = "none"

\* A caller told "completed" after its call had started gets the end of every project it
\* named, also when calls that share the session are still queueing.
CompletedCoversCall ==
  \A a \in Call : told[a] = "completed" =>
    \A p \in named[a] : \E r \in RowOf(a, p) : r.ended /\ r.status \in {"completed", "failed"}

\* Whatever fails, an ended row has the status and the result of one outcome, and a row
\* whose run began says so.
OutcomesAgree ==
  \A r \in rows :
    /\ r.ended <=> r.status \in {"completed", "failed"}
    /\ r.status = "failed" <=> r.result = "exception"
    /\ r.status \in {"running", "completed"} => r.started

\* A caller that goes on polling is told the end, unless a restart, a cancelled call or a
\* failing write leaves a task without its coroutine.
PollingEnds ==
  \A a \in Call :
    cpc[a] = "started" ~> told[a] = "completed" \/ faults > 0

\* Polling "until status is completed" (next_step_tips of the tool) comes to an end.
PolledToTheEnd == \A a \in Call : cpc[a] = "started" ~> told[a] = "completed"
=============================================================================
