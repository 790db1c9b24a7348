----------------------- MODULE BackgroundTasksProofs -----------------------
(***************************************************************************)
(* Theorems about BackgroundTasks, for every set of calls, sessions and    *)
(* projects and any number of restarts, cancelled calls and failing        *)
(* writes.                                                                 *)
(***************************************************************************)
EXTENDS BackgroundTasks, TLAPS

-----------------------------------------------------------------------------
(* Types.                                                                  *)

\* Every variable keeps the type the code gives it, over every step.
THEOREM TasksTypeCorrect == TasksSpec => []TasksTypeOK
<1>1. TasksInit => TasksTypeOK
  BY TasksAssumption DEF TasksInit, TasksTypeOK, TaskRow, Place
<1>2. TasksTypeOK /\ [TasksNext]_taskVars => TasksTypeOK'
  <2> SUFFICES ASSUME TasksTypeOK, [TasksNext]_taskVars PROVE TasksTypeOK'
    OBVIOUS
  <2> USE TasksAssumption DEF TasksTypeOK, callVars
  <2>1. CASE UNCHANGED taskVars
    BY <2>1 DEF taskVars
  <2>2. CASE Crash
    <3>1. coroutine' \in [TaskId -> Place]
      BY <2>2 DEF Crash, Place
    <3> QED BY <2>2, <3>1 DEF Crash
  <2>3. ASSUME NEW a \in Call, StartCall(a) PROVE TasksTypeOK'
    BY <2>3 DEF StartCall
  <2>4. ASSUME NEW a \in Call, QueueProject(a) PROVE TasksTypeOK'
    <3>1. PICK p \in pending[a] :
            /\ pending' = [pending EXCEPT ![a] = @ \ {p}]
            /\ rows' = rows \union {QueuedRow(a, p)}
            /\ Move(a, p, "none", "scheduled")
      BY <2>4 DEF QueueProject
    <3>2. QueuedRow(a, p) \in TaskRow
      BY DEF QueuedRow, TaskRow
    <3>3. coroutine' \in [TaskId -> Place]
      BY <3>1 DEF Move, Place
    <3> QED BY <2>4, <3>1, <3>2, <3>3 DEF QueueProject
  <2>5. ASSUME NEW a \in Call, RejectProject(a) PROVE TasksTypeOK'
    BY <2>5 DEF RejectProject
  <2>6. ASSUME NEW a \in Call, EndCall(a) PROVE TasksTypeOK'
    BY <2>6 DEF EndCall
  <2>7. ASSUME NEW a \in Call, CancelCall(a) PROVE TasksTypeOK'
    <3>1. \A p \in pending[a] : QueuedRow(a, p) \in TaskRow
      BY DEF QueuedRow, TaskRow
    <3> QED BY <2>7, <3>1 DEF CancelCall
  <2>8. ASSUME NEW a \in Call, PollStatus(a) PROVE TasksTypeOK'
    BY <2>8 DEF PollStatus, Report
  <2>9. ASSUME NEW a \in Call, NEW p \in Project, RunTask(a, p) PROVE TasksTypeOK'
    <3>1. rows' \subseteq TaskRow
      BY <2>9 DEF RunTask, Save, RowOf, TaskRow
    <3> QED BY <2>9, <3>1 DEF RunTask, Move, Place
  <2>10. ASSUME NEW a \in Call, NEW p \in Project, Collected(a, p) PROVE TasksTypeOK'
    BY <2>10 DEF Collected, Move, Place
  <2>11. ASSUME NEW a \in Call, NEW p \in Project, EndTask(a, p) PROVE TasksTypeOK'
    <3>1. rows' \subseteq TaskRow
      BY ZenonT(30), <2>11 DEF EndTask, Save, RowOf, TaskRow, FailedRow, Completed
    <3> QED BY <2>11, <3>1 DEF EndTask, Move, Place
  <2>12. ASSUME NEW a \in Call, NEW p \in Project, DbError(a, p) PROVE TasksTypeOK'
    BY <2>12 DEF DbError, Move, Place
  <2> QED
    BY <2>1, <2>2, <2>3, <2>4, <2>5, <2>6, <2>7, <2>8, <2>9, <2>10, <2>11, <2>12
       DEF TasksNext, Queueing, Running
<1> QED BY <1>1, <1>2, PTL DEF TasksSpec

-----------------------------------------------------------------------------
(* The inductive invariant.                                                *)

\* A call queues a project once: no two rows are of one call and project.
RowsUnique ==
  \A r, q \in rows : r.call = q.call /\ r.project = q.project => r = q

\* Rows belong to calls that began; of a project still to be queued there is none,
\* but for the row that a cancelled call was creating.
RowsQueued ==
  \A r \in rows :
    /\ cpc[r.call] # "idle"
    /\ r.project \in pending[r.call] => cpc[r.call] = "lost"

\* A coroutine has a row that has not ended, as far as the coroutine has come.
CoroutinesHaveRows ==
  \A a \in Call, p \in Project : coroutine[<<a, p>>] # "none" =>
    \E r \in RowOf(a, p) :
      /\ ~r.ended
      /\ coroutine[<<a, p>>] \in {"working", "returned", "refused"} => r.started

\* A call that goes on, or has been answered, has a row of every project it queued.
QueuedHaveRows ==
  \A a \in Call : cpc[a] \in {"queueing", "started"} =>
    \A p \in named[a] : p \notin pending[a] \/ cpc[a] = "started" => RowOf(a, p) # {}

TasksInv ==
  /\ RowsUnique /\ RowsQueued /\ CoroutinesHaveRows /\ QueuedHaveRows
  /\ NoneForgotten /\ CompletedCoversCall /\ OutcomesAgree

\* A coroutine that has not come to its end finds exactly one row of its task.
LEMMA TaskHasRow ==
  ASSUME TasksTypeOK, TasksInv, NEW a \in Call, NEW p \in Project, coroutine[<<a, p>>] # "none",
         NEW r \in RowOf(a, p)
  PROVE  /\ r \in rows /\ r.call = a /\ r.project = p /\ ~r.ended
         /\ coroutine[<<a, p>>] \in {"working", "returned", "refused"} => r.started
         /\ r.result # "exception" /\ r.status \notin {"completed", "failed"}
<1>1. r \in rows /\ r.call = a /\ r.project = p
  BY DEF RowOf
<1>2. PICK q \in RowOf(a, p) :
        /\ ~q.ended
        /\ coroutine[<<a, p>>] \in {"working", "returned", "refused"} => q.started
  BY DEF TasksInv, CoroutinesHaveRows
<1>3. q = r
  BY <1>1, <1>2 DEF TasksInv, RowsUnique, RowOf
<1> QED BY <1>1, <1>2, <1>3 DEF TasksInv, OutcomesAgree

\* Saving a row that has not ended keeps what the other rows and the calls rely on.
LEMMA RowSaved ==
  ASSUME TasksTypeOK, TasksInv, NEW r \in rows, NEW s \in TaskRow, Save(r, s), ~r.ended,
         s.call = r.call, s.project = r.project, UNCHANGED <<callVars, told>>
  PROVE  RowsUnique' /\ RowsQueued' /\ QueuedHaveRows' /\ CompletedCoversCall'
<1> USE DEF TasksTypeOK, TasksInv, callVars
<1>1. rows' = (rows \ {r}) \union {s}
  BY DEF Save
<1>2. RowsUnique'
  BY <1>1 DEF RowsUnique
<1>3. RowsQueued'
  BY <1>1 DEF RowsQueued
<1>4. ASSUME NEW a \in Call, NEW p \in Project, NEW q \in RowOf(a, p)
      PROVE  /\ RowOf(a, p)' # {}
             /\ q.ended => q \in RowOf(a, p)'
  BY <1>1 DEF RowOf
<1>5. QueuedHaveRows'
  BY <1>4 DEF QueuedHaveRows
<1>6. CompletedCoversCall'
  BY <1>4 DEF CompletedCoversCall
<1> QED BY <1>2, <1>3, <1>5, <1>6

\* A new row, not ended, of a project that its call has still to queue.
LEMMA RowQueued ==
  ASSUME TasksTypeOK, TasksInv, NEW a \in Call, NEW p \in pending[a], cpc[a] = "queueing",
         rows' = rows \union {QueuedRow(a, p)}, UNCHANGED <<named, told>>,
         cpc' \in {cpc, [cpc EXCEPT ![a] = "lost"]}
  PROVE  /\ RowsUnique' /\ OutcomesAgree' /\ CompletedCoversCall'
         /\ RowOf(a, p) = {}
<1> USE DEF TasksTypeOK, TasksInv
<1> DEFINE new == QueuedRow(a, p)
<1>1. new.call = a /\ new.project = p /\ ~new.ended /\ new.status = "queued"
        /\ new.result = "none"
  BY DEF QueuedRow
<1>2. \A r \in rows : ~(r.call = a /\ r.project = p)
  BY DEF RowsQueued
<1>3. rows' = rows \union {new}
  OBVIOUS
<1> HIDE DEF new
<1>4. RowsUnique'
  BY <1>1, <1>2, <1>3 DEF RowsUnique
<1>5. OutcomesAgree'
  BY <1>1, <1>3 DEF OutcomesAgree
<1>6. CompletedCoversCall'
  BY <1>3 DEF CompletedCoversCall, RowOf
<1> QED BY <1>2, <1>4, <1>5, <1>6 DEF RowOf

\* A caller is told "completed" only when every row of its session, its own among them,
\* has ended.
LEMMA ToldTheEnd ==
  ASSUME TasksTypeOK, TasksInv, NEW a \in Call, PollStatus(a)
  PROVE  CompletedCoversCall'
<1> USE DEF TasksTypeOK, TasksInv
<1>1. UNCHANGED <<rows, named, cpc, session>> /\ cpc[a] = "started"
        /\ told' = [told EXCEPT ![a] = Report(SessionRows(a))]
  BY DEF PollStatus, callVars
<1>2. ASSUME Report(SessionRows(a)) = "completed", NEW p \in named[a]
      PROVE  \E r \in RowOf(a, p) : r.ended /\ r.status \in {"completed", "failed"}
  <2>1. PICK r \in rows : r.call = a /\ r.project = p
    BY <1>1 DEF QueuedHaveRows, RowOf
  <2>2. r.ended
    BY <1>2, <2>1 DEF Report, SessionRows
  <2> QED BY <2>1, <2>2 DEF RowOf, OutcomesAgree
<1>3. \A b \in Call, p \in Project : RowOf(b, p)' = RowOf(b, p)
  BY <1>1 DEF RowOf
<1>4. ASSUME NEW b \in Call, told'[b] = "completed", NEW p \in named'[b]
      PROVE  \E r \in RowOf(b, p)' : r.ended /\ r.status \in {"completed", "failed"}
  <2>1. p \in Project
    BY <1>1, <1>4
  <2>2. CASE b = a
    BY <1>1, <1>2, <1>3, <1>4, <2>1, <2>2
  <2>3. CASE b # a
    BY <1>1, <1>3, <1>4, <2>1, <2>3 DEF CompletedCoversCall
  <2> QED BY <2>2, <2>3
<1> QED BY <1>4 DEF CompletedCoversCall

-----------------------------------------------------------------------------
\* Tasks, rows and coroutines stay in step whatever restarts, is cancelled or fails.
THEOREM TasksInvariant == TasksSpec => []TasksInv
<1>1. TasksInit => TasksInv
  BY DEF TasksInit, TasksInv, RowsUnique, RowsQueued, CoroutinesHaveRows, QueuedHaveRows,
         NoneForgotten, CompletedCoversCall, OutcomesAgree, TaskId
<1>2. TasksTypeOK /\ TasksInv /\ [TasksNext]_taskVars => TasksInv'
  <2> SUFFICES ASSUME TasksTypeOK, TasksInv, [TasksNext]_taskVars PROVE TasksInv'
    OBVIOUS
  <2> USE DEF TasksTypeOK, TasksInv, callVars
  <2>1. CASE UNCHANGED taskVars
    BY <2>1 DEF taskVars, RowsUnique, RowsQueued, CoroutinesHaveRows, QueuedHaveRows,
         NoneForgotten, CompletedCoversCall, OutcomesAgree, RowOf
  <2>2. CASE Crash
    <3>1. RowsUnique' /\ OutcomesAgree' /\ CompletedCoversCall'
      BY <2>2 DEF Crash, RowsUnique, OutcomesAgree, CompletedCoversCall, RowOf
    <3>2. RowsQueued' /\ QueuedHaveRows'
      BY <2>2 DEF Crash, RowsQueued, QueuedHaveRows, RowOf, TaskRow
    <3>3. CoroutinesHaveRows' /\ NoneForgotten'
      BY <2>2, TasksAssumption DEF Crash, CoroutinesHaveRows, NoneForgotten, TaskId
    <3> QED BY <3>1, <3>2, <3>3
  <2>3. ASSUME NEW a \in Call, StartCall(a) PROVE TasksInv'
    <3>1. RowsUnique' /\ OutcomesAgree' /\ CompletedCoversCall' /\ CoroutinesHaveRows'
      BY <2>3 DEF StartCall, RowsUnique, OutcomesAgree, CompletedCoversCall,
                  CoroutinesHaveRows, RowOf
    <3>2. RowsQueued' /\ QueuedHaveRows' /\ NoneForgotten'
      BY <2>3 DEF StartCall, RowsQueued, QueuedHaveRows, NoneForgotten, RowOf, TaskRow
    <3> QED BY <3>1, <3>2
  <2>4. ASSUME NEW a \in Call, QueueProject(a) PROVE TasksInv'
    <3>1. PICK p \in pending[a] :
            /\ pending' = [pending EXCEPT ![a] = @ \ {p}]
            /\ rows' = rows \union {QueuedRow(a, p)}
            /\ coroutine[<<a, p>>] = "none"
            /\ coroutine' = [coroutine EXCEPT ![<<a, p>>] = "scheduled"]
      BY <2>4 DEF QueueProject, Move
    <3>2. cpc[a] = "queueing" /\ UNCHANGED <<cpc, session, named, told, faults>>
      BY <2>4 DEF QueueProject
    <3>3. RowsUnique' /\ OutcomesAgree' /\ CompletedCoversCall' /\ RowOf(a, p) = {}
      BY <3>1, <3>2, RowQueued
    <3>4. QueuedRow(a, p).call = a /\ QueuedRow(a, p).project = p /\ ~QueuedRow(a, p).ended
      BY DEF QueuedRow
    <3>5. RowsQueued'
      BY <3>1, <3>2, <3>4 DEF RowsQueued
    <3>6. ASSUME NEW b \in Call, NEW q \in Project, b # a \/ q # p
          PROVE  RowOf(b, q)' = RowOf(b, q) /\ coroutine'[<<b, q>>] = coroutine[<<b, q>>]
      BY <3>1, <3>4, <3>6 DEF RowOf, TaskId
    <3>7. QueuedRow(a, p) \in RowOf(a, p)' /\ coroutine'[<<a, p>>] = "scheduled"
      BY <3>1, <3>4 DEF RowOf, TaskId
    <3>8. CoroutinesHaveRows'
      <4> SUFFICES ASSUME NEW b \in Call, NEW q \in Project, coroutine'[<<b, q>>] # "none"
                   PROVE  \E r \in RowOf(b, q)' :
                            /\ ~r.ended
                            /\ coroutine'[<<b, q>>] \in {"working", "returned", "refused"}
                                 => r.started
        BY DEF CoroutinesHaveRows
      <4>1. CASE b = a /\ q = p
        BY <3>4, <3>7, <4>1
      <4>2. CASE b # a \/ q # p
        BY <3>6, <4>2 DEF CoroutinesHaveRows
      <4> QED BY <4>1, <4>2
    <3>9. QueuedHaveRows'
      <4> SUFFICES ASSUME NEW b \in Call, cpc'[b] \in {"queueing", "started"},
                          NEW q \in named'[b], q \notin pending'[b] \/ cpc'[b] = "started"
                   PROVE  RowOf(b, q)' # {}
        BY DEF QueuedHaveRows
      <4>1. q \in Project
        BY <3>2
      <4>2. CASE b = a /\ q = p
        BY <3>7, <4>2
      <4>3. CASE b # a \/ q # p
        BY <3>1, <3>2, <3>6, <4>1, <4>3 DEF QueuedHaveRows
      <4> QED BY <4>2, <4>3
    <3>10. NoneForgotten'
      <4> SUFFICES ASSUME faults' = 0, NEW r \in rows'
                   PROVE  r.ended <=> coroutine'[<<r.call, r.project>>] = "none"
        BY DEF NoneForgotten
      <4>1. CASE r = QueuedRow(a, p)
        BY <3>4, <3>7, <4>1
      <4>2. CASE r \in rows
        <5>1. r.call \in Call /\ r.project \in Project /\ (r.call # a \/ r.project # p)
          BY <3>3, <4>2 DEF RowOf, TaskRow
        <5> QED BY <3>2, <3>6, <4>2, <5>1 DEF NoneForgotten
      <4> QED BY <3>1, <4>1, <4>2
    <3> QED BY <3>3, <3>5, <3>8, <3>9, <3>10
  <2>5. ASSUME NEW a \in Call, RejectProject(a) PROVE TasksInv'
    <3>1. RowsUnique' /\ OutcomesAgree' /\ CompletedCoversCall' /\ CoroutinesHaveRows'
      BY <2>5 DEF RejectProject, RowsUnique, OutcomesAgree, CompletedCoversCall,
                  CoroutinesHaveRows, RowOf
    <3>2. RowsQueued' /\ QueuedHaveRows' /\ NoneForgotten'
      BY <2>5 DEF RejectProject, RowsQueued, QueuedHaveRows, NoneForgotten, RowOf, TaskRow
    <3> QED BY <3>1, <3>2
  <2>6. ASSUME NEW a \in Call, EndCall(a) PROVE TasksInv'
    <3>1. RowsUnique' /\ OutcomesAgree' /\ CompletedCoversCall' /\ CoroutinesHaveRows'
      BY <2>6 DEF EndCall, RowsUnique, OutcomesAgree, CompletedCoversCall,
                  CoroutinesHaveRows, RowOf
    <3>2. RowsQueued' /\ QueuedHaveRows' /\ NoneForgotten'
      BY <2>6 DEF EndCall, RowsQueued, QueuedHaveRows, NoneForgotten, RowOf, TaskRow
    <3> QED BY <3>1, <3>2
  <2>7. ASSUME NEW a \in Call, CancelCall(a) PROVE TasksInv'
    <3>1. /\ UNCHANGED <<coroutine, session, pending, named, told>>
          /\ cpc[a] = "queueing" /\ cpc' = [cpc EXCEPT ![a] = "lost"]
          /\ faults' # 0
      BY <2>7, TasksAssumption DEF CancelCall
    <3>2. RowsUnique' /\ OutcomesAgree' /\ CompletedCoversCall'
      <4>1. CASE rows' = rows
        BY <3>1, <4>1 DEF RowsUnique, OutcomesAgree, CompletedCoversCall, RowOf
      <4>2. ASSUME NEW p \in pending[a], rows' = rows \union {QueuedRow(a, p)}
            PROVE  RowsUnique' /\ OutcomesAgree' /\ CompletedCoversCall'
        BY <3>1, <4>2, RowQueued
      <4> QED BY <2>7, <4>1, <4>2 DEF CancelCall
    <3>3. rows \subseteq rows' /\ \A r \in rows' : r \in rows \/ r.call = a
      BY <2>7 DEF CancelCall, QueuedRow
    <3>4. RowsQueued'
      BY <3>1, <3>3 DEF RowsQueued, TaskRow
    <3>5. CoroutinesHaveRows' /\ QueuedHaveRows' /\ NoneForgotten'
      BY <3>1, <3>3 DEF CoroutinesHaveRows, QueuedHaveRows, NoneForgotten, RowOf
    <3> QED BY <3>2, <3>4, <3>5
  <2>8. ASSUME NEW a \in Call, PollStatus(a) PROVE TasksInv'
    <3>1. UNCHANGED <<rows, coroutine, cpc, session, pending, named, faults>>
      BY <2>8 DEF PollStatus
    <3>2. RowsUnique' /\ OutcomesAgree' /\ CoroutinesHaveRows'
      BY <3>1 DEF RowsUnique, OutcomesAgree, CoroutinesHaveRows, RowOf
    <3>3. RowsQueued' /\ QueuedHaveRows' /\ NoneForgotten'
      BY <3>1 DEF RowsQueued, QueuedHaveRows, NoneForgotten, RowOf
    <3> QED BY <2>8, <3>2, <3>3, ToldTheEnd
  <2>9. ASSUME NEW a \in Call, NEW p \in Project, RunTask(a, p) PROVE TasksInv'
    <3> DEFINE s(r) == [r EXCEPT !.status = "running", !.started = TRUE]
    <3>1. PICK r \in RowOf(a, p) : Save(r, s(r))
      BY <2>9 DEF RunTask
    <3>2. /\ coroutine[<<a, p>>] = "scheduled"
          /\ coroutine' = [coroutine EXCEPT ![<<a, p>>] = "working"]
          /\ UNCHANGED <<callVars, told, faults>>
      BY <2>9 DEF RunTask, Move
    <3>3. r \in rows /\ r.call = a /\ r.project = p /\ ~r.ended /\ r.result # "exception"
      BY <3>1, <3>2, TaskHasRow
    <3>4. /\ s(r) \in TaskRow /\ s(r).call = a /\ s(r).project = p /\ ~s(r).ended
          /\ s(r).status = "running" /\ s(r).started /\ s(r).result # "exception"
      BY <3>3 DEF TaskRow
    <3> HIDE DEF s
    <3>5. RowsUnique' /\ RowsQueued' /\ QueuedHaveRows' /\ CompletedCoversCall'
      BY <3>1, <3>2, <3>3, <3>4, RowSaved
    <3>6. rows' = (rows \ {r}) \union {s(r)}
      BY <3>1 DEF Save
    <3>7. OutcomesAgree'
      BY <3>4, <3>6 DEF OutcomesAgree
    <3>8. coroutine'[<<a, p>>] = "working" /\
          \A b \in Call, q \in Project : b # a \/ q # p =>
            RowOf(b, q)' = RowOf(b, q) /\ coroutine'[<<b, q>>] = coroutine[<<b, q>>]
      BY <3>2, <3>3, <3>4, <3>6 DEF RowOf, TaskId
    <3>9. CoroutinesHaveRows'
      <4>1. s(r) \in RowOf(a, p)'
        BY <3>4, <3>6 DEF RowOf
      <4> SUFFICES ASSUME NEW b \in Call, NEW q \in Project, coroutine'[<<b, q>>] # "none"
                   PROVE  \E t \in RowOf(b, q)' :
                            /\ ~t.ended
                            /\ coroutine'[<<b, q>>] \in {"working", "returned", "refused"}
                                 => t.started
        BY DEF CoroutinesHaveRows
      <4>2. CASE b = a /\ q = p
        BY <3>4, <4>1, <4>2
      <4>3. CASE b # a \/ q # p
        BY <3>8, <4>3 DEF CoroutinesHaveRows
      <4> QED BY <4>2, <4>3
    <3>10. NoneForgotten'
      <4>1. \A q \in rows \ {r} : q.call # a \/ q.project # p
        BY <3>3 DEF RowsUnique
      <4> SUFFICES ASSUME faults' = 0, NEW t \in rows'
                   PROVE  t.ended <=> coroutine'[<<t.call, t.project>>] = "none"
        BY DEF NoneForgotten
      <4>2. CASE t = s(r)
        BY <3>4, <3>8, <4>2
      <4>3. CASE t \in rows \ {r}
        <5>1. t.call \in Call /\ t.project \in Project
          BY <4>3 DEF TaskRow
        <5> QED BY <3>2, <3>8, <4>1, <4>3, <5>1 DEF NoneForgotten
      <4> QED BY <3>6, <4>2, <4>3
    <3> QED BY <3>5, <3>7, <3>9, <3>10
  <2>10. ASSUME NEW a \in Call, NEW p \in Project, Collected(a, p) PROVE TasksInv'
    <3>1. /\ coroutine[<<a, p>>] = "working"
          /\ UNCHANGED <<rows, callVars, told, faults>>
          /\ \E o \in {"returned", "refused", "raised"} :
               coroutine' = [coroutine EXCEPT ![<<a, p>>] = o]
      BY <2>10 DEF Collected, Move
    <3>2. RowsUnique' /\ OutcomesAgree' /\ CompletedCoversCall' /\ RowsQueued' /\ QueuedHaveRows'
      BY <3>1 DEF RowsUnique, OutcomesAgree, CompletedCoversCall, RowsQueued, QueuedHaveRows, RowOf
    <3>3. \A b \in Call, q \in Project : RowOf(b, q)' = RowOf(b, q) /\
            \/ coroutine'[<<b, q>>] = coroutine[<<b, q>>]
            \/ coroutine[<<b, q>>] = "working" /\ coroutine'[<<b, q>>] # "none"
      BY <3>1 DEF RowOf, TaskId
    <3>4. CoroutinesHaveRows'
      BY <3>3 DEF CoroutinesHaveRows
    <3>5. NoneForgotten'
      BY ZenonT(30), <3>1, <3>3 DEF NoneForgotten, TaskRow
    <3> QED BY <3>2, <3>4, <3>5
  <2>11. ASSUME NEW a \in Call, NEW p \in Project, EndTask(a, p) PROVE TasksInv'
    <3>1. PICK o \in {"returned", "refused", "raised"} :
            /\ coroutine[<<a, p>>] = o
            /\ coroutine' = [coroutine EXCEPT ![<<a, p>>] = "none"]
            /\ \E r \in RowOf(a, p) :
                 Save(r, IF o = "raised" THEN FailedRow(r) ELSE Completed(r, o))
      BY <2>11 DEF EndTask, Move
    <3> DEFINE s(r) == IF o = "raised" THEN FailedRow(r) ELSE Completed(r, o)
    <3>2. PICK r \in RowOf(a, p) : Save(r, s(r))
      BY <3>1
    <3>3. UNCHANGED <<callVars, told, faults>>
      BY <2>11 DEF EndTask
    <3>4. r \in rows /\ r.call = a /\ r.project = p /\ ~r.ended
            /\ (o # "raised" => r.started)
      BY <3>1, <3>2, TaskHasRow
    <3>5. /\ s(r) \in TaskRow /\ s(r).call = a /\ s(r).project = p /\ s(r).ended
          /\ s(r).status \in {"completed", "failed"}
          /\ s(r).status = "failed" <=> s(r).result = "exception"
          /\ s(r).status = "completed" => s(r).started
      BY <3>4 DEF TaskRow, FailedRow, Completed
    <3> HIDE DEF s
    <3>6. RowsUnique' /\ RowsQueued' /\ QueuedHaveRows' /\ CompletedCoversCall'
      BY <3>2, <3>3, <3>4, <3>5, RowSaved
    <3>7. rows' = (rows \ {r}) \union {s(r)}
      BY <3>2 DEF Save
    <3>8. OutcomesAgree'
      BY <3>5, <3>7 DEF OutcomesAgree
    <3>9. coroutine'[<<a, p>>] = "none" /\
          \A b \in Call, q \in Project : b # a \/ q # p =>
            RowOf(b, q)' = RowOf(b, q) /\ coroutine'[<<b, q>>] = coroutine[<<b, q>>]
      BY <3>1, <3>4, <3>5, <3>7 DEF RowOf, TaskId
    <3>10. CoroutinesHaveRows'
      BY ZenonT(30), <3>9 DEF CoroutinesHaveRows
    <3>11. NoneForgotten'
      <4>1. \A q \in rows \ {r} : q.call # a \/ q.project # p
        BY <3>4 DEF RowsUnique
      <4> SUFFICES ASSUME faults' = 0, NEW t \in rows'
                   PROVE  t.ended <=> coroutine'[<<t.call, t.project>>] = "none"
        BY DEF NoneForgotten
      <4>2. CASE t = s(r)
        BY <3>5, <3>9, <4>2
      <4>3. CASE t \in rows \ {r}
        <5>1. t.call \in Call /\ t.project \in Project
          BY <4>3 DEF TaskRow
        <5> QED BY <3>3, <3>9, <4>1, <4>3, <5>1 DEF NoneForgotten
      <4> QED BY <3>7, <4>2, <4>3
    <3> QED BY <3>6, <3>8, <3>10, <3>11
  <2>12. ASSUME NEW a \in Call, NEW p \in Project, DbError(a, p) PROVE TasksInv'
    <3>1. UNCHANGED <<rows, callVars, told>> /\ faults' # 0
      BY <2>12, TasksAssumption DEF DbError
    <3>2. RowsUnique' /\ OutcomesAgree' /\ CompletedCoversCall' /\ RowsQueued' /\ QueuedHaveRows'
      BY <3>1 DEF RowsUnique, OutcomesAgree, CompletedCoversCall, RowsQueued, QueuedHaveRows, RowOf
    <3>3. /\ coroutine[<<a, p>>] # "none"
          /\ \/ coroutine' = [coroutine EXCEPT ![<<a, p>>] = "none"]
             \/ coroutine' = [coroutine EXCEPT ![<<a, p>>] = "raised"]
      BY <2>12 DEF DbError, Move
    <3>4. \A b \in Call, q \in Project : RowOf(b, q)' = RowOf(b, q) /\
            \/ coroutine'[<<b, q>>] = coroutine[<<b, q>>]
            \/ coroutine[<<b, q>>] # "none" /\ coroutine'[<<b, q>>] \in {"none", "raised"}
      BY <3>1, <3>3 DEF RowOf, TaskId
    <3>5. CoroutinesHaveRows'
      BY <3>4 DEF CoroutinesHaveRows
    <3> QED BY <3>1, <3>2, <3>5 DEF NoneForgotten
  <2> QED
    BY <2>1, <2>2, <2>3, <2>4, <2>5, <2>6, <2>7, <2>8, <2>9, <2>10, <2>11, <2>12
       DEF TasksNext, Queueing, Running
<1> QED BY <1>1, <1>2, TasksTypeCorrect, PTL DEF TasksSpec

\* Until a restart, a cancelled call or a failing write, a row has its coroutine exactly
\* until it ends.
THEOREM NoTaskForgotten == TasksSpec => []NoneForgotten
<1>1. TasksInv => NoneForgotten
  BY DEF TasksInv
<1> QED BY <1>1, TasksInvariant, PTL

\* Who is told "completed" has the end of every project the call named.
THEOREM ToldCompletely == TasksSpec => []CompletedCoversCall
<1>1. TasksInv => CompletedCoversCall
  BY DEF TasksInv
<1> QED BY <1>1, TasksInvariant, PTL

\* Whatever fails, a row that ended has the status and the result of one outcome.
THEOREM OneOutcome == TasksSpec => []OutcomesAgree
<1>1. TasksInv => OutcomesAgree
  BY DEF TasksInv
<1> QED BY <1>1, TasksInvariant, PTL
=============================================================================
