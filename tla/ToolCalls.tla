----------------------------- MODULE ToolCalls -----------------------------
(***************************************************************************)
(* A tool call from the request to the reply: the audit middleware finds    *)
(* the caller's row, gets or creates the agent session and writes the      *)
(* agent_calls row; the manifests middleware loads the manifests of the     *)
(* allowed projects; the tool runs; the row is completed.                  *)
(*                                                                         *)
(* Calls run concurrently on one event loop: each action below is what runs *)
(* between two database calls. Between any two, other calls, an operator    *)
(* who edits allowlist rows or updates manifests, a client that goes away   *)
(* and a server that stops can come in.                                     *)
(*                                                                         *)
(* Abstracted: what a tool returns is chosen freely where it depends on     *)
(* files or Docker (WorkflowSnapshots, SessionSnapshots model those).      *)
(***************************************************************************)
EXTENDS ProjectAccess

CONSTANTS
  Call,          \* tool calls
  Client,        \* token identities: client_id and client_type
  WorkflowAgent, \* the client that is the fixed workflow agent
  SessionArg,    \* session ids as sent: records [name, padded, long]
  NoSession,     \* no session_id argument
  Requests,      \* sequences of requested project names
  KeySets,       \* sets of requested source keys
  Files,         \* manifests in JSON files: records of sources and deployment
  Tools,         \* the tools and other requests that clients call
  Allowlists,    \* what the operator writes into allowed_projects
  MaxEvents      \* bound: edits by the operator, failing writes, cancelled
                 \* calls and restarts together

\* Callers ask for names, of projects or not, a manifest has its keys, and a session
\* id without its blanks is one that may be sent.
ASSUME CallsAssumption ==
  /\ Requests \subseteq Seq(Project \union {NoRow})
  /\ \A f \in Files : DOMAIN f = {"sources", "deployment"} /\ f.sources \subseteq SourceKey
  /\ MaxEvents \in Nat /\ Allowlists \subseteq SUBSET (Project \union {AllProjects})
  /\ \A a \in SessionArg : [a EXCEPT !.padded = FALSE] \in SessionArg

VARIABLES
  grants,        \* allowed_projects of each mcp_callers row
  manifests,     \* the project_manifests table
  sessions,      \* the agent_sessions table
  audit,         \* the agent_calls table
  calls,         \* each call in flight
  collected,     \* what calls collected: a history
  edits, faults  \* operator edits and faults so far (bound the model)

tables   == <<grants, manifests, sessions, audit>>
callVars == <<tables, calls, collected, edits, faults>>

CallPlace == {"idle", "authenticate", "expand", "session", "insert", "audit", "manifests",
              "tool", "collecting", "lookup", "closing", "recording", "complete", "done"}

\* One call: the request, what the middleware attached to it, how far it is.
\* allowedOnce, offered and closedBefore are history: what the caller was
\* allowed and the manifests offered since the call began, and which sessions
\* were closed when it began.
CallState ==
  [pc : CallPlace, tool : Tools, client : Client, arg : SessionArg \union {NoSession},
   requested : Seq(Project \union {NoRow}), keys : SUBSET (SourceKey \union {AllSources}),
   caller : Caller \union {NoRow}, allowed : SUBSET Project,
   name : SessionArg \union {NoSession}, session : Call \union {NoRow}, audited : BOOLEAN,
   toLoad : Seq(Project), loaded : [Project -> Files \union {NoRow}], todo : Seq(Project),
   reply : {"none", "ok", "closed", "error", "raised", "cancelled"},
   allowedOnce : SUBSET (Project \union {AllProjects}), offered : SUBSET (Project \X SourceKey),
   closedBefore : SUBSET Call]

\* id is the call that inserted the row: a call inserts at most one.
SessionRow == [id : Call, name : SessionArg, caller : Caller, closed : BOOLEAN]

\* byTool: the row that close_agent_session writes itself.
AuditRow == [call : Call, byTool : BOOLEAN, session : Call, caller : Caller,
             completed : BOOLEAN, success : BOOLEAN]

CallsTypeOK ==
  /\ grants \in [Caller -> SUBSET (Project \union {AllProjects})]
  /\ manifests \in [Project -> [sources : SUBSET SourceKey, deployment : {f.deployment : f \in Files}]
                               \union {NoRow}]
  /\ sessions \subseteq SessionRow
  /\ \A s, t \in sessions : s.name = t.name => s = t
  /\ audit \subseteq AuditRow
  /\ DOMAIN calls = Call
  /\ \A c \in Call : calls[c].pc \in CallPlace /\ calls[c].caller \in Caller \union {NoRow}
                     /\ calls[c].session \in {s.id : s \in sessions} \union {NoRow}
  /\ \A r \in collected : r.session \in {s.id : s \in sessions}
  /\ edits \in 0..MaxEvents /\ faults \in 0..MaxEvents

-----------------------------------------------------------------------------
(* Steps of a call.                                                        *)

Unpadded(a) == [a EXCEPT !.padded = FALSE]

NoManifests == [p \in Project |-> NoRow]

OfferedNow == {ps \in Project \X SourceKey :
                 manifests[ps[1]] # NoRow /\ ps[2] \in manifests[ps[1]].sources}

\* The call goes on at a place with some of its fields changed; the tables stay.
At(c, place) == calls[c].pc = place
Becomes(c, k) == calls' = [calls EXCEPT ![c] = k]
KeepTables == UNCHANGED <<tables, collected, edits, faults>>

\* With the reply the request and what was attached to it are gone.
Dropped(k) ==
  [k EXCEPT !.pc = "done", !.arg = NoSession, !.name = NoSession, !.allowed = {},
            !.toLoad = << >>, !.loaded = NoManifests, !.todo = << >>]

Ended(k, reply)   == Dropped([k EXCEPT !.reply = reply])
Returns(k, reply) == [k EXCEPT !.pc = "complete", !.reply = reply]
IsCollect(k) == k.tool \in CollectTools

\* A session that cannot be used refuses a collection; other tools go on
\* without a session and so without an audit row.
WithoutSession(k) ==
  IF IsCollect(k) THEN Ended(k, "error") ELSE [k EXCEPT !.pc = "manifests"]

\* What counts as allowed since the call began: the entries of the row, whenever
\* they were there, and with "all" among them every project that has a manifest.
AddAllowed(once, row, allowlists, table) ==
  LET entries == once \union (IF row = NoRow THEN {} ELSE allowlists[row])
  IN  entries \union AllowedProjects(entries, table)

\* The request comes in.
Begun(k, tool, client, arg, requested, keys) ==
  LET row == CallerRow(client, tool, arg # NoSession)
  IN  [k EXCEPT
        !.pc = "authenticate", !.tool = tool, !.client = client, !.arg = arg,
        !.requested = requested, !.keys = keys,
        !.allowedOnce = AddAllowed({}, row, grants, manifests),
        !.offered = OfferedNow,
        !.closedBefore = {s.id : s \in {t \in sessions : t.closed}}]

BeginCall(c) ==
  /\ At(c, "idle")
  /\ \E tool \in Tools, client \in Client, arg \in SessionArg \union {NoSession} :
     \E requested \in (IF tool \in CollectTools THEN Requests ELSE {<< >>}) :
     \E keys \in (IF tool \in CollectTools THEN KeySets ELSE {{}}) :
       /\ tool = "close_agent_session" => arg # NoSession
       /\ tool \in OtherRequests => arg = NoSession
       /\ Becomes(c, Begun(calls[c], tool, client, arg, requested, keys))
  /\ KeepTables

\* The session id that a call goes on with. A collection always has one; one
\* that is too long raises, before there is an audit row.
Named(k, generated) ==
  IF k.tool \in OtherRequests THEN [k EXCEPT !.pc = "tool"]
  ELSE IF IsCollect(k)
    THEN IF k.arg = NoSession THEN [k EXCEPT !.pc = "session", !.name = generated]
         ELSE IF k.arg.long THEN Ended(k, "raised")
         ELSE [k EXCEPT !.pc = "session", !.name = Unpadded(k.arg)]
    ELSE IF k.arg = NoSession THEN [k EXCEPT !.pc = "manifests"]
         ELSE [k EXCEPT !.pc = "session", !.name = k.arg]

Allowed(k, projects) ==
  [k EXCEPT !.allowed = projects, !.toLoad = ByName(projects)]

GeneratedNames == {a \in SessionArg : ~a.padded /\ ~a.long}

Authenticate(c) ==
  /\ At(c, "authenticate")
  /\ LET k == calls[c]
         row == CallerRow(k.client, k.tool, k.arg # NoSession)
     IN  \/ row = NoRow /\ Becomes(c, Ended(k, "error"))
         \/ /\ row # NoRow /\ AllProjects \in grants[row]
            /\ Becomes(c, [k EXCEPT !.pc = "expand", !.caller = row])
         \/ /\ row # NoRow /\ AllProjects \notin grants[row]
            /\ \E g \in GeneratedNames :
                 Becomes(c, Named(Allowed([k EXCEPT !.caller = row], grants[row]), g))
  /\ KeepTables

\* "all" in the row: the keys of the manifest rows, a second query.
ExpandAll(c) ==
  /\ At(c, "expand")
  /\ \E g \in GeneratedNames :
       Becomes(c, Named(Allowed(calls[c], AllowedProjects({AllProjects}, manifests)), g))
  /\ KeepTables

AdoptedMutant(k, s) ==
  IF s.caller # k.caller THEN WithoutSession(k)
  ELSE [k EXCEPT !.pc = "audit", !.session = s.id]

AnyOwnerMutant(k, s) ==
  IF k.caller.workspace = "session" /\ s.closed THEN WithoutSession(k)
  ELSE [k EXCEPT !.pc = "audit", !.session = s.id]

\* A session row that was found or inserted.
Adopted(k, s) ==
  IF s.caller # k.caller \/ (k.caller.workspace = "session" /\ s.closed) THEN WithoutSession(k)
  ELSE [k EXCEPT !.pc = "audit", !.session = s.id]

FindSession(c) ==
  /\ At(c, "session")
  /\ LET k == calls[c]
         found == {s \in sessions : s.name = k.name}
     IN  \/ \E s \in found : Becomes(c, Adopted(k, s))
         \/ found = {} /\ Becomes(c, [k EXCEPT !.pc = "insert"])
  /\ KeepTables

InsertSessionMutant(c) ==
  /\ At(c, "insert")
  /\ LET k == calls[c]
         row == [id |-> c, name |-> k.name, caller |-> k.caller, closed |-> FALSE]
     IN  /\ sessions' = sessions \union {row} /\ Becomes(c, Adopted(k, row))
  /\ UNCHANGED <<grants, manifests, audit, collected, edits, faults>>

\* The insert after the query that found none. The name is unique in the table
\* and at most 24 characters long: else the insert fails.
InsertSession(c) ==
  /\ At(c, "insert")
  /\ LET k == calls[c]
         row == [id |-> c, name |-> k.name, caller |-> k.caller, closed |-> FALSE]
     IN  IF k.name.long \/ \E s \in sessions : s.name = k.name
         THEN Becomes(c, WithoutSession(k)) /\ UNCHANGED sessions
         ELSE sessions' = sessions \union {row} /\ Becomes(c, Adopted(k, row))
  /\ UNCHANGED <<grants, manifests, audit, collected, edits, faults>>

AuditRowOf(c, byTool) ==
  [call |-> c, byTool |-> byTool, session |-> calls[c].session, caller |-> calls[c].caller,
   completed |-> FALSE, success |-> TRUE]

\* The row is written before the tool runs, with success at its default, TRUE.
CreateCallRow(c) ==
  /\ At(c, "audit")
  /\ audit' = audit \union {AuditRowOf(c, FALSE)}
  /\ Becomes(c, [calls[c] EXCEPT !.pc = "manifests", !.audited = TRUE])
  /\ UNCHANGED <<grants, manifests, sessions, collected, edits, faults>>

\* One query for each allowed project, in order; then the tool.
LoadManifest(c) ==
  /\ At(c, "manifests")
  /\ LET k == calls[c]
     IN  IF k.toLoad = << >> THEN Becomes(c, [k EXCEPT !.pc = "tool"])
         ELSE Becomes(c, [k EXCEPT !.loaded[Head(k.toLoad)] = manifests[Head(k.toLoad)],
                                   !.toLoad = Tail(k.toLoad)])
  /\ KeepTables

\* What the tool does with a call whose context is attached. A collection is
\* refused when a project is; no project at all fails an assertion.
RunTool(c) ==
  /\ At(c, "tool")
  /\ LET k == calls[c]
         projects == AuthorizeProjects(k.allowed, k.requested)
     IN  \/ /\ IsCollect(k)
            /\ Becomes(c, IF projects = Refused THEN Returns(k, "error")
                          ELSE IF projects = << >> THEN Returns(k, "raised")
                          ELSE [k EXCEPT !.pc = "collecting", !.todo = projects])
         \/ /\ k.tool = "close_agent_session"
            /\ Becomes(c, IF k.client = WorkflowAgent \/ k.arg.long THEN Returns(k, "error")
                          ELSE [k EXCEPT !.pc = "lookup"])
         \/ /\ ~IsCollect(k) /\ k.tool # "close_agent_session"
            /\ \E reply \in {"ok", "error"} : Becomes(c, Returns(k, reply))
  /\ KeepTables

\* One project of a collection, after another. Whatever ends the call leaves
\* the projects before it collected.
CollectProject(c) ==
  /\ At(c, "collecting")
  /\ LET k == calls[c]
     IN  \/ /\ k.todo = << >>
            /\ Becomes(c, Returns(k, "ok")) /\ UNCHANGED collected
         \/ /\ k.todo # << >>
            /\ LET p == Head(k.todo)
                   selected == SelectSources(k.loaded[p].sources, k.keys)
                   unusable == \/ k.loaded[p] = NoRow
                               \/ selected.sources = {} /\ selected.missing # {}
               IN  \/ Becomes(c, Returns(k, "error")) /\ UNCHANGED collected
                   \/ /\ ~unusable
                      /\ collected' = collected \union
                           {[call |-> c, session |-> k.session, project |-> p,
                             sources |-> selected.sources]}
                      /\ Becomes(c, [k EXCEPT !.todo = Tail(@)])
  /\ UNCHANGED <<tables, edits, faults>>

LookupSessionMutant(c) ==
  /\ At(c, "lookup")
  /\ LET k == calls[c]
         own == {s \in sessions : s.name = Unpadded(k.arg) /\ s.caller = k.caller}
     IN  \/ own = {} /\ Becomes(c, Returns(k, "error"))
         \/ \E s \in own : Becomes(c, IF s.closed THEN Returns(k, "ok")
                                      ELSE [k EXCEPT !.pc = "recording", !.session = s.id])
  /\ KeepTables

\* close_agent_session, by the name without its blanks: the row, its owner and
\* its status; the update; the row of the call that the tool writes itself.
LookupSession(c) ==
  /\ At(c, "lookup")
  /\ LET k == calls[c]
         own == {s \in sessions : s.name = Unpadded(k.arg) /\ s.caller = k.caller}
     IN  \/ own = {} /\ Becomes(c, Returns(k, "error"))
         \/ \E s \in own : Becomes(c, IF s.closed THEN Returns(k, "ok")
                                      ELSE [k EXCEPT !.pc = "closing", !.session = s.id])
  /\ KeepTables

CloseSession(c) ==
  /\ At(c, "closing")
  /\ sessions' = {IF s.id = calls[c].session THEN [s EXCEPT !.closed = TRUE] ELSE s : s \in sessions}
  /\ Becomes(c, [calls[c] EXCEPT !.pc = "recording"])
  /\ UNCHANGED <<grants, manifests, audit, collected, edits, faults>>

RecordClose(c) ==
  /\ At(c, "recording")
  /\ audit' = audit \union {AuditRowOf(c, TRUE)}
  /\ Becomes(c, Returns(calls[c], "closed"))
  /\ UNCHANGED <<grants, manifests, sessions, collected, edits, faults>>

\* The row that the middleware created gets the outcome of the call.
CompleteCall(c) ==
  /\ At(c, "complete")
  /\ audit' = {IF r.call = c /\ ~r.byTool
               THEN [r EXCEPT !.completed = TRUE,
                              !.success = calls[c].reply \notin {"error", "raised"}]
               ELSE r : r \in audit}
  /\ Becomes(c, Dropped(calls[c]))
  /\ UNCHANGED <<grants, manifests, sessions, collected, edits, faults>>

-----------------------------------------------------------------------------
(* Faults and edits.                                                       *)

\* A query or a write fails. A call that could not complete its row returns
\* its result all the same.
AfterDbError(k) ==
  CASE k.pc \in {"authenticate", "expand", "audit"}   -> Ended(k, "error")
    [] k.pc \in {"session", "insert"}                 -> WithoutSession(k)
    [] k.pc = "manifests"                             -> [k EXCEPT !.pc = "tool", !.loaded = NoManifests]
    [] k.pc \in {"lookup", "closing", "recording"}    -> Returns(k, "error")
    [] k.pc = "complete"                              -> Dropped(k)

DbError(c) ==
  /\ edits + faults < MaxEvents
  /\ calls[c].pc \in {"authenticate", "expand", "session", "insert", "audit", "manifests",
                      "lookup", "closing", "recording", "complete"}
  /\ Becomes(c, AfterDbError(calls[c])) /\ faults' = faults + 1
  /\ UNCHANGED <<tables, collected, edits>>

\* A client goes away, which cancels its call; a server stops, which ends all.
Stop(S) ==
  /\ edits + faults < MaxEvents /\ faults' = faults + 1
  /\ S # {} /\ \A c \in S : calls[c].pc \notin {"idle", "done"}
  /\ calls' = [c \in Call |-> IF c \in S THEN Ended(calls[c], "cancelled") ELSE calls[c]]
  /\ UNCHANGED <<tables, collected, edits>>

\* What the operator changed counts as allowed, and offered, to the calls that
\* are under way.
Witnessed ==
  [c \in Call |->
    LET k   == calls[c]
        row == CallerRow(k.client, k.tool, k.arg # NoSession)
    IN  IF k.pc \in {"idle", "done"} THEN k
        ELSE [k EXCEPT
          !.allowedOnce = AddAllowed(@, row, grants', manifests'),
          !.offered = @ \union
            {ps \in Project \X SourceKey : manifests'[ps[1]] # NoRow /\ ps[2] \in manifests'[ps[1]].sources}]]

Edit ==
  /\ edits + faults < MaxEvents /\ edits' = edits + 1
  /\ calls' = Witnessed
  /\ UNCHANGED <<sessions, audit, collected, faults>>

EditGrants(k) ==
  /\ \E g \in Allowlists : grants' = [grants EXCEPT ![k] = g]
  /\ UNCHANGED manifests
  /\ Edit

\* upload-project-manifest and update-project-manifest.
UploadManifest(p, f) ==
  /\ manifests[p] = NoRow
  /\ manifests' = [manifests EXCEPT ![p] = f]
  /\ UNCHANGED grants
  /\ Edit

UpdateManifest(p, f) ==
  /\ manifests[p] # NoRow
  /\ manifests' = [manifests EXCEPT ![p] = UpdatedRow(@, f)]
  /\ UNCHANGED grants
  /\ Edit

-----------------------------------------------------------------------------
NotCalled ==
  [pc |-> "idle", tool |-> CHOOSE t \in Tools : TRUE, client |-> WorkflowAgent, arg |-> NoSession,
   requested |-> << >>, keys |-> {}, caller |-> NoRow, allowed |-> {}, name |-> NoSession,
   session |-> NoRow, audited |-> FALSE, toLoad |-> << >>, loaded |-> NoManifests,
   todo |-> << >>, reply |-> "none", allowedOnce |-> {}, offered |-> {}, closedBefore |-> {}]

CallsInit ==
  /\ grants \in [Caller -> Allowlists]
  /\ manifests \in [Project -> Files \union {NoRow}]
  /\ sessions = {} /\ audit = {} /\ collected = {}
  /\ calls = [c \in Call |-> NotCalled]
  /\ edits = 0 /\ faults = 0

CallStep(c) ==
  \/ Authenticate(c) \/ ExpandAll(c) \/ FindSession(c) \/ InsertSession(c) \/ CreateCallRow(c)
  \/ LoadManifest(c) \/ RunTool(c) \/ CollectProject(c) \/ LookupSession(c) \/ CloseSession(c)
  \/ RecordClose(c) \/ CompleteCall(c)

CallsNext ==
  \/ \E c \in Call : BeginCall(c) \/ CallStep(c) \/ DbError(c)
  \/ \E S \in SUBSET Call : Stop(S)
  \/ \E k \in Caller : EditGrants(k)
  \/ \E p \in Project, f \in Files : UploadManifest(p, f) \/ UpdateManifest(p, f)

CallsSpec == CallsInit /\ [][CallsNext]_callVars

-----------------------------------------------------------------------------
(* Properties.                                                             *)

\* Whatever a collection wrote into a session is on record before it is
\* written: the call has its row, in that session, and its caller owns it. Two
\* calls that begin with one unknown name must not both be given it.
CollectedIsAudited ==
  \A r \in collected : \E a \in audit, s \in sessions :
    a.call = r.call /\ ~a.byTool /\ a.session = r.session /\ s.id = a.session /\ s.caller = a.caller

\* A call collects only what it asked for, of projects its caller was allowed
\* and sources that a manifest offered at some time since it began, also when
\* the allowlist and the manifests are edited while it runs. A row that said
\* "all" since then allowed every project that has had a manifest since.
CollectedWasAllowed ==
  \A r \in collected :
    LET k == calls[r.call]
    IN  /\ k.requested = << >> \/ \E i \in DOMAIN k.requested : k.requested[i] = r.project
        /\ r.project \in k.allowedOnce
        /\ \A x \in r.sources : <<r.project, x>> \in k.offered
        /\ k.keys = {AllSources} \/ r.sources \subseteq k.keys
        /\ \A i \in DOMAIN k.requested : k.requested[i] \in k.allowedOnce

\* A session that was closed when the call began gets nothing more from it;
\* only a call that found it open may still be writing.
NoLateCollect == \A r \in collected : r.session \notin calls[r.call].closedBefore

\* A close is on record by the row that the tool writes, except where the write
\* failed or the call was stopped; and no close is on record that did not happen.
CloseHasTrail ==
  /\ \A a \in audit : a.byTool => \E s \in sessions : s.id = a.session /\ s.closed
  /\ \A s \in sessions : s.closed =>
       \/ \E a \in audit : a.byTool /\ a.session = s.id /\ a.caller = s.caller
       \/ \E c \in Call : At(c, "recording") /\ calls[c].session = s.id
       \/ faults > 0

SessionNames == {s.name : s \in sessions}
RowOfName(n) == CHOOSE s \in sessions : s.name = n
Lifecycle == INSTANCE SessionLifecycle WITH
  Name   <- SessionArg, Owner <- Caller, Absent <- NoRow,
  owner  <- [n \in SessionArg |-> IF n \in SessionNames THEN RowOfName(n).caller ELSE NoRow],
  closed <- {n \in SessionNames : RowOfName(n).closed}

\* Whatever calls run together, fail or are cut off, the sessions have the
\* lifecycle of SessionLifecycle.
ImplementsLifecycle == Lifecycle!LifecycleSpec

\* success in a row tells whether the call completed successfully.
AuditTellsSuccess ==
  \A a \in audit : ~a.byTool /\ a.success /\ At(a.call, "done") => calls[a.call].reply \in {"ok", "closed"}
=============================================================================
