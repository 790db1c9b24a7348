--------------------------- MODULE ProjectAccess ---------------------------
(***************************************************************************)
(* What one tool call may touch: which mcp_callers row a token stands for,  *)
(* which projects that row allows, which of the requested projects and      *)
(* sources remain, and how a manifest row follows an uploaded manifest.     *)
(*                                                                         *)
(* Operators only. Projects are numbers in the order of their names; a     *)
(* requested name that is blank or no project's is a value outside         *)
(* Project. A manifest is its set of source keys and its deployment block; *)
(* the other columns are replaced as the sources are.                      *)
(***************************************************************************)
EXTENDS PythonLists, FiniteSets

CONSTANTS
  Project,       \* project keys, numbered in their sorted order
  SourceKey,     \* source keys a manifest may have
  Caller,        \* mcp_callers rows: records of a client and a workspace
  AllProjects,   \* the entry "all" of allowed_projects
  AllSources,    \* the source key "all"
  NoRow,         \* no such row
  NoDeployment   \* a manifest without a deployment block

ASSUME AccessAssumption ==
  /\ Project \subseteq Nat /\ IsFiniteSet(Project)
  /\ AllProjects \notin Project /\ AllSources \notin SourceKey /\ NoRow \notin Caller
  /\ \A k, l \in Caller : k.client = l.client /\ k.workspace = l.workspace => k = l

CollectTools  == {"collect_logs", "start_log_collection"}
AgnosticTools == {"get_log_collection_status"}

\* Requests that are not tool calls: they only need a row of the client's.
OtherRequests == {"tools/list", "resources/list", "resources/templates/list", "resources/read"}

\* The workspace that a call implies; named: its session_id is given.
ImpliedWorkspace(tool, named) ==
  IF tool = "close_agent_session" THEN "session"
  ELSE IF tool \in CollectTools \/ ~named THEN "workflow" ELSE "session"

AllowsAnyWorkspace(tool) == tool \in AgnosticTools \union CollectTools \union OtherRequests

RowsFor(client, workspace) == {k \in Caller : k.client = client /\ k.workspace = workspace}

\* The row for the workspace; for the tools that allow any, else the first of
\* the client's rows ordered by workspace.
CallerRow(client, tool, named) ==
  LET order == << ImpliedWorkspace(tool, named) >> \o
                 (IF AllowsAnyWorkspace(tool) THEN << "session", "workflow" >> ELSE << >>)
      hits  == {i \in DOMAIN order : RowsFor(client, order[i]) # {}}
  IN  IF hits = {} THEN NoRow
      ELSE CHOOSE k \in RowsFor(client, order[Min(hits)]) : TRUE

\* "all" stands for the projects that have a manifest row.
AllowedProjects(allowed, manifests) ==
  IF AllProjects \in allowed THEN {p \in Project : manifests[p] # NoRow} ELSE allowed

Refused == << NoRow >>

ByName(projects) == Sorted(projects, LAMBDA p : p)

FirstOccurrences(s) ==
  FoldLeft(LAMBDA seen, x : IF Contains(seen, x) THEN seen ELSE Append(seen, x), << >>, s)

AuthorizeProjectsMutant(allowed, requested) ==
  IF requested = << >> THEN ByName(allowed)
  ELSE IF \A i \in DOMAIN requested : requested[i] \notin allowed THEN Refused
  ELSE FirstOccurrences(requested)

\* No request is a request for all allowed projects; one name that is not
\* allowed, or blank, refuses the whole call.
AuthorizeProjects(allowed, requested) ==
  IF requested = << >> THEN ByName(allowed)
  ELSE IF \E i \in DOMAIN requested : requested[i] \notin allowed THEN Refused
  ELSE FirstOccurrences(requested)

\* "all" by itself selects everything; beside other keys it is an unknown key.
SelectSources(sources, keys) ==
  IF keys = {AllSources} THEN [sources |-> sources, missing |-> {}]
  ELSE [sources |-> sources \intersect keys, missing |-> keys \ sources]

\* A column that the file leaves out is not written: the row keeps its value.
UpdatedRow(row, file) ==
  [file EXCEPT !.deployment = IF @ = NoDeployment THEN row.deployment ELSE @]
=============================================================================
