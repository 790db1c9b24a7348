----------------------------- MODULE Inspection -----------------------------
(***************************************************************************)
(* The container inspection tools of the MCP server: inspect_vps_containers *)
(* and _volumes, inspect_containers_health, inspect_container_detail,       *)
(* inspect_project_compose_state, _runtime and _deployment, and            *)
(* stat_container_path, read_container_file, list_container_directory.     *)
(*                                                                         *)
(* A tool sends its requests to the socket app one after the other and     *)
(* blocks the event loop while it waits, so one call runs at a time; the   *)
(* host changes while it runs. The model starts where the manifest of the  *)
(* project was found, see ToolCalls for what comes before.                 *)
(***************************************************************************)
EXTENDS DockerSocketApp, ComposeChecks

CONSTANTS
  Manifest,    \* what manifests declare: [sources, repos, tagged]
  RawPath,     \* paths that callers ask for
  ByteLimit,   \* values of max_bytes
  MaxEntries,  \* MAX_DIRECTORY_ENTRIES
  TagValue,    \* tags that the current tag file may hold
  NoPath       \* the path is left out

\* A docker source is of a container.
ASSUME InspectionAssumption ==
  /\ \A m \in Manifest : m.sources \in Seq([key : STRING, docker : BOOLEAN, target : Nat,
       project : STRING, service : STRING, prefixes : Seq(Seq(STRING))])
  /\ \A m \in Manifest : \A s \in ToSet(m.sources) : s.docker => s.target \in Name
  /\ RawPath \union {NoPath} \subseteq [absolute : BOOLEAN, parts : Seq(STRING)]
  /\ ByteLimit \subseteq Int /\ IsFiniteSet(ByteLimit) /\ MaxEntries \in Nat

VARIABLES
  tagFile,  \* the current tag file: a member of TagValue, or what is wrong with it
  call      \* the call that runs

vars == << appVars, tagFile, call >>

BadTagFile == {"missing", "large", "unreadable", "not_utf8", "blank"}
PathTools  == {"stat_container_path", "read_container_file", "list_container_directory"}
SourceTools == PathTools \union {"inspect_container_detail"}
ListingTools == {"inspect_vps_containers", "inspect_vps_volumes"}
ComposeTools == {"inspect_project_compose_state", "inspect_project_runtime",
                 "inspect_project_deployment"}
Tools == SourceTools \union ListingTools \union ComposeTools \union {"inspect_containers_health"}

AllSame == [dangling |-> FALSE, anonymous |-> FALSE, prefix |-> FALSE]

(* A call. at: the reply it waits for, or what it does next. todo: the      *)
(* containers still to be asked about. got: what it has so far. The fields  *)
(* seen, since and filters are for the properties: the containers when they *)
(* were listed, the number of host changes when the app last looked at the *)
(* path, and the filters of the volumes.                                   *)
NoCall == [at |-> "none"]
NewCall(tool, m, source, parts, limit) ==
  [tool |-> tool, manifest |-> m, source |-> source, parts |-> parts, limit |-> limit,
   at |-> "begun", todo |-> << >>, got |-> << >>, rows |-> << >>, filters |-> AllSame,
   seen |-> << >>, since |-> 0, answer |-> Failed("")]

InspectionInit ==
  /\ containers \in Worlds /\ tagFile \in TagValue \union {"missing"}
  /\ request = NoRequest /\ call = NoCall /\ events = 0 /\ tree = ImageTree

\* The call ends with this answer. A call that waits sends one more request.
EndsWith(c, answer) == call' = [c EXCEPT !.at = "ended", !.answer = answer]
Asks(c, at, req) == call' = [c EXCEPT !.at = at] /\ request' = req

-----------------------------------------------------------------------------
(* Which source, and which path of it                                      *)

SourcesOf(m, key) == {s \in ToSet(m.sources) : s.key = key}

SourceError(m, key) ==
  IF SourcesOf(m, key) = {} THEN "unknown_source"
  ELSE LET s == CHOOSE x \in SourcesOf(m, key) : TRUE
       IN  IF ~s.docker THEN "not_docker" ELSE IF s.prefixes = << >> THEN "not_enabled" ELSE ""

\* An omitted path of a listing is the first prefix of the source.
RequestedPath(tool, source, raw) ==
  IF raw # NoPath THEN raw
  ELSE IF tool = "list_container_directory" THEN [absolute |-> TRUE, parts |-> Head(source.prefixes)]
  ELSE [absolute |-> FALSE, parts |-> << >>]

PathIsAllowed(source, parts) == \E i \in DOMAIN source.prefixes : IsPrefix(source.prefixes[i], parts)

ToolError(tool, m, key, raw) ==
  IF SourceError(m, key) # "" THEN SourceError(m, key)
  ELSE IF tool \notin PathTools THEN ""
  ELSE LET s == CHOOSE x \in SourcesOf(m, key) : TRUE
           p == RequestedPath(tool, s, raw)
       IN  IF PathError(p) # "" THEN PathError(p)
           ELSE IF ~PathIsAllowed(s, NormalizedPath(p).parts) THEN "not_allowed" ELSE ""

PathRequest(c, op) ==
  NewRequest(op, c.source.target, [absolute |-> TRUE, parts |-> c.parts],
             IF op = "container_directory_list" THEN MaxEntries ELSE c.limit, AllSame)
NameRequest(op, n) == NewRequest(op, n, [absolute |-> FALSE, parts |-> << >>], 0, AllSame)
StatRequest(c)     == PathRequest(c, "container_path_stat")

BeginSourceTool ==
  /\ call = NoCall
  /\ \E tool \in SourceTools, m \in Manifest, raw \in RawPath \union {NoPath}, limit \in ByteLimit :
     \E key \in {s.key : s \in ToSet(m.sources)} \union {"unknown"} :
       /\ tool # "read_container_file" => limit = Max(ByteLimit)
       /\ tool \notin PathTools => raw = NoPath
       /\ IF ToolError(tool, m, key, raw) # ""
          THEN EndsWith(NewCall(tool, m, << >>, << >>, limit), Failed(ToolError(tool, m, key, raw)))
               /\ UNCHANGED request
          ELSE LET s == CHOOSE x \in SourcesOf(m, key) : TRUE
                   c == NewCall(tool, m, s, NormalizedPath(RequestedPath(tool, s, raw)).parts, limit)
               IN  IF tool \in PathTools THEN Asks(c, "first_stat", StatRequest(c))
                   ELSE Asks(c, "result", NameRequest("container_detail", s.target))
  /\ UNCHANGED << hostVars, tagFile >>

BeginListing ==
  /\ call = NoCall
  /\ \E tool \in ListingTools \union ComposeTools, m \in Manifest, filters \in [DOMAIN AllSame -> BOOLEAN] :
       LET c == [NewCall(tool, IF tool \in ListingTools THEN << >> ELSE m, << >>, << >>, 0) EXCEPT
                   !.filters = filters]
       IN  /\ tool # "inspect_vps_volumes" => filters = AllSame
           /\ Asks(c, "rows",
                   [NameRequest(IF tool = "inspect_vps_volumes" THEN "vps_volumes_inventory"
                                ELSE "vps_containers_inventory", 0) EXCEPT !.filters = filters])
  /\ UNCHANGED << hostVars, tagFile >>

BeginHealth ==
  /\ call = NoCall
  /\ \E m \in Manifest :
       LET c == [NewCall("inspect_containers_health", m, << >>, << >>, 0) EXCEPT
                   !.todo = [i \in DOMAIN DockerSources(m.sources) |-> DockerSources(m.sources)[i].target]]
       IN  IF c.todo = << >> THEN EndsWith(c, Result(<< >>)) /\ UNCHANGED request
           ELSE Asks(c, "each", NameRequest("container_health", Head(c.todo)))
  /\ UNCHANGED << hostVars, tagFile >>

-----------------------------------------------------------------------------
(* Replies. Replied is the reply of the app, or the gateway's own error.    *)

Waits(at) == call.at = at /\ request # NoRequest

\* One answer to one request: detail, stat, and the last request of a read
\* and of a listing.
TakeResult(reply) ==
  /\ Waits("result")
  /\ EndsWith(call, reply) /\ request' = NoRequest
  /\ UNCHANGED << hostVars, tagFile >>

ReadAfterStat(stat) ==
  /\ call.tool = "read_container_file"
  /\ IF call.limit < 1 THEN EndsWith(call, Failed("max_bytes")) /\ request' = NoRequest
     ELSE Asks([call EXCEPT !.got = << stat >>], "second_stat", StatRequest(call))

ListAfterStat(stat) ==
  /\ call.tool = "list_container_directory"
  /\ IF stat.is_dir THEN Asks(call, "result", PathRequest(call, "container_directory_list"))
     ELSE EndsWith(call, Result([rows |-> << stat >>, truncated |-> FALSE])) /\ request' = NoRequest

TakeFirstStat(reply) ==
  /\ Waits("first_stat")
  /\ \/ /\ ~reply.ok \/ call.tool = "stat_container_path"
        /\ EndsWith(call, reply) /\ request' = NoRequest
     \/ reply.ok /\ (ReadAfterStat(reply.result) \/ ListAfterStat(reply.result))
  /\ UNCHANGED << hostVars, tagFile >>

\* The service looks again before it reads; its result goes with the first stat.
TakeSecondStat(reply) ==
  /\ Waits("second_stat")
  /\ IF ~reply.ok THEN EndsWith(call, reply) /\ request' = NoRequest
     ELSE IF reply.result.is_dir THEN EndsWith(call, Failed("is_directory")) /\ request' = NoRequest
     ELSE Asks(call, "result", PathRequest(call, "container_file_read"))
  /\ UNCHANGED << hostVars, tagFile >>

\* A source whose container gave no health has an item that says so.
HealthItem(reply, name) ==
  IF reply.ok THEN [container |-> reply.result.name, inspection_status |-> "ok"]
  ELSE [container |-> name, inspection_status |-> "error"]

TakeHealth(reply) ==
  /\ Waits("each") /\ call.tool = "inspect_containers_health"
  /\ LET c == [call EXCEPT !.got = Append(@, HealthItem(reply, Head(call.todo))),
                           !.todo = Tail(@)]
     IN  IF c.todo = << >> THEN EndsWith(c, Result(c.got)) /\ request' = NoRequest
         ELSE Asks(c, "each", NameRequest("container_health", Head(c.todo)))
  /\ UNCHANGED << hostVars, tagFile >>

\* inspect_vps_*: the service drops the app's truncated, the tool compares.
CutMarkMutant(rows, max) == Len(rows) > max
CutMark(rows, max) == Len(rows) >= max

ListingResult(rows) ==
  [rows |-> rows, truncated |-> CutMark(rows, IF call.tool = "inspect_vps_volumes"
                                              THEN MaxVolumes ELSE MaxContainers)]

Expected == ExpectedServices(call.manifest.sources)

\* Without a docker source there is nothing to compare, but a deployment may
\* still name its repositories.
ComposeUnavailable == /\ Expected = {}
                      /\ call.tool = "inspect_project_deployment" => DOMAIN call.manifest.repos = {}

TakeRows(reply) ==
  /\ Waits("rows")
  /\ LET c == [call EXCEPT !.rows = reply.result.rows]
         names == SelectedRows(c.rows, Expected)
     IN
     \/ ~reply.ok /\ EndsWith(call, reply) /\ request' = NoRequest
     \/ /\ reply.ok /\ call.tool \in ListingTools
        /\ EndsWith(call, Result(ListingResult(reply.result.rows))) /\ request' = NoRequest
     \/ /\ reply.ok /\ call.tool \in ComposeTools /\ ComposeUnavailable
        /\ EndsWith(call, Failed("no_compose_selectors")) /\ request' = NoRequest
     \/ /\ reply.ok /\ call.tool = "inspect_project_compose_state" /\ ~ComposeUnavailable
        /\ EndsWith(c, Result(ComposeWarnings(c.rows, Expected))) /\ request' = NoRequest
     \/ /\ reply.ok /\ call.tool = "inspect_project_deployment" /\ ~ComposeUnavailable
        /\ call' = [c EXCEPT !.at = "look_tag"] /\ request' = NoRequest
     \/ /\ reply.ok /\ call.tool = "inspect_project_runtime" /\ ~ComposeUnavailable
        /\ IF names = << >>
           THEN EndsWith(c, Result(RuntimeRows(c.rows, Expected, << >>))) /\ request' = NoRequest
           ELSE Asks([c EXCEPT !.todo = [i \in DOMAIN names |-> names[i].name]], "each",
                     NameRequest("container_detail", names[1].name))
  /\ UNCHANGED << hostVars, tagFile >>

\* The details that were answered, by container name.
TakeDetail(reply) ==
  /\ Waits("each") /\ call.tool = "inspect_project_runtime"
  /\ LET c == [call EXCEPT !.todo = Tail(@),
                           !.got = IF reply.ok THEN Append(@, reply.result) ELSE @]
         details == [n \in {d.name : d \in ToSet(c.got)} |-> CHOOSE d \in ToSet(c.got) : d.name = n]
     IN  IF c.todo = << >>
         THEN EndsWith(c, Result(RuntimeRows(c.rows, Expected, details))) /\ request' = NoRequest
         ELSE Asks(c, "each", NameRequest("container_detail", Head(c.todo)))
  /\ UNCHANGED << hostVars, tagFile >>

Replies(reply) == \/ TakeResult(reply) \/ TakeFirstStat(reply) \/ TakeSecondStat(reply)
                  \/ TakeHealth(reply) \/ TakeRows(reply) \/ TakeDetail(reply)

\* The gateway returns the app's answer, gives up, or finds no app.
Replied     == request # NoRequest /\ request.at = "answered" /\ Replies(request.reply)
TimeOutMutant == /\ request # NoRequest /\ request.at = "answered"
                 /\ Replies(Failed("socket_app_timeout"))
TimeOut     == request # NoRequest /\ Replies(Failed("socket_app_timeout"))
AppIsDown   == /\ request # NoRequest /\ request.at # "answered"
               /\ \E e \in {"socket_app_unavailable", "invalid_json"} : Replies(Failed(e))

-----------------------------------------------------------------------------
(* The current tag file is looked for, then read.                          *)

EndDeployment(current) ==
  EndsWith(call, Result(DeploymentWarnings(call.rows, call.manifest.sources, call.manifest.repos,
                                           current)))

TagStatus(file) ==
  CASE file = "missing"    -> [status |-> "current_tag_error", value |-> NoValue]
    [] file = "unreadable" -> [status |-> "current_tag_error", value |-> NoValue]
    [] file = "large"      -> [status |-> "current_tag_too_large", value |-> NoValue]
    [] file = "blank"      -> [status |-> "current_tag_empty", value |-> NoValue]
    [] file \in TagValue   -> [status |-> "ok", value |-> file]

LookForTag ==
  /\ call.at = "look_tag"
  /\ IF ~call.manifest.tagged
     THEN EndDeployment([status |-> "not_configured", value |-> NoValue])
     ELSE IF tagFile = "missing"
     THEN EndDeployment([status |-> "current_tag_missing", value |-> NoValue])
     ELSE call' = [call EXCEPT !.at = "read_tag"]
  /\ UNCHANGED << appVars, tagFile >>

\* Only OSError is caught: a file that is no UTF-8 fails the call.
ReadTag ==
  /\ call.at = "read_tag"
  /\ IF tagFile = "not_utf8" THEN EndsWith(call, Failed("UnicodeDecodeError"))
     ELSE EndDeployment(TagStatus(tagFile))
  /\ UNCHANGED << appVars, tagFile >>

Return == call.at = "ended" /\ call' = NoCall /\ UNCHANGED << appVars, tagFile >>

ReplaceTagFile ==
  /\ Change /\ \E file \in TagValue \union BadTagFile : tagFile' = file
  /\ UNCHANGED << containers, tree, request, call >>

\* Steps of the app, with the notes for the properties.
AppRuns ==
  /\ AppStep
  /\ call' = [call EXCEPT !.seen  = IF request.op = "vps_containers_inventory" THEN containers ELSE @,
                          !.since = IF request.op \in PathOperations /\ request.at = "received"
                                    THEN events ELSE @]
  /\ UNCHANGED tagFile

OthersChange == (HostChanges /\ UNCHANGED << tagFile, call >>) \/ ReplaceTagFile

ClientStep == Replied \/ TimeOut \/ LookForTag \/ ReadTag \/ Return

Next == \/ BeginSourceTool \/ BeginListing \/ BeginHealth
        \/ ClientStep \/ AppIsDown \/ AppRuns \/ OthersChange

\* The gateway's socket has a timeout and the tool runs on; nothing is assumed
\* of the app or the host.
Fairness == WF_vars(ClientStep)

Spec == InspectionInit /\ [][Next]_vars /\ Fairness

-----------------------------------------------------------------------------
(* Properties                                                              *)

Answered(tool) == call.at = "ended" /\ call.tool = tool /\ call.answer.ok

\* Every request about a path is for the container of the call's source and for
\* a path under one of the source's inspect_path_prefixes; and what it finds is
\* in that place, unless a directory on the way is a symbolic link: the check is
\* of the path as written, and links lead where they lead
\* (container_path_is_allowed).
LinkOn(parts) ==
  \E i \in 1..(Len(parts) - 1) :
    SubSeq(parts, 1, i) \in Path /\ tree[SubSeq(parts, 1, i)].kind = "link"
AsksInsideWhitelist ==
  request # NoRequest /\ request.op \in PathOperations =>
    LET parts == request.path.parts
    IN  /\ request.name = call.source.target
        /\ PathIsAllowed(call.source, parts)
        /\ ~LinkOn(parts) /\ EntryAt(parts).kind # "none" =>
             PathIsAllowed(call.source, Resolved(parts))

\* When nothing changed since the app looked at the file, read_container_file
\* returns its present version, at most max_bytes of it, and says truncated
\* exactly when some of it is missing. Of a file that the exec may not read it
\* returns the error message as if it were the content (container_file_read).
ReadIsExact ==
  Answered("read_container_file") /\ events = call.since =>
    LET file   == EntryAt(call.parts)
        result == call.answer.result
    IN  /\ result.content.bytes <= call.limit
        /\ IF file.readable
           THEN /\ result.content.version = file.version
                /\ result.truncated <=> result.content.bytes < Decoded(file)
           ELSE result.content.version = ErrorText.version

\* A listing that does not say truncated is complete: the containers as they
\* were, the volumes that match, the children of an unchanged directory. The
\* tools only see the first rows, without the app's own mark.
CutIsTold ==
  /\ Answered("inspect_vps_containers") /\ ~call.answer.result.truncated =>
       call.answer.result.rows = SortedRows(call.seen)
  /\ Answered("inspect_vps_volumes") /\ ~call.answer.result.truncated =>
       ToSet(call.answer.result.rows) = MatchingVolumes(call.filters)
  /\ Answered("list_container_directory") /\ ~call.answer.result.truncated /\ events = call.since =>
       {m.path : m \in ToSet(call.answer.result.rows)} =
         IF EntryAt(call.parts).kind = "file" THEN {call.parts} ELSE Listed(call.parts)

\* When the inventory holds every container, a compose or runtime inspection
\* warns of an expected service exactly when none, or more than one, of the
\* listed containers of its project and service runs; and each container of a
\* runtime inspection comes with a detail of its own, with a warning that there
\* is none, or was replaced after the inventory (ComposeStateService.compare,
\* ProjectRuntimeService.inspect). A health inspection has one item for each
\* docker source, whatever failed.
RunningOf(e) == {n \in Present(call.seen) : call.seen[n].running /\ Service(call.seen[n]) = e}
WarnsTruly(warnings) ==
  \A e \in Expected :
    /\ [code |-> "expected_service_not_running", about |-> e] \in warnings <=> RunningOf(e) = {}
    /\ [code |-> "multiple_running_containers", about |-> e] \in warnings
         <=> Cardinality(RunningOf(e)) > 1
ProjectReportTrue ==
  LET result == call.answer.result
      whole  == Cardinality(Present(call.seen)) <= MaxContainers
  IN  /\ Answered("inspect_project_compose_state") /\ whole => WarnsTruly(result)
      /\ Answered("inspect_project_runtime") =>
           /\ whole => WarnsTruly(result.warnings)
           /\ \A i \in DOMAIN result.rows :
                LET row == result.rows[i].row
                IN  \/ result.rows[i].detail = row
                    \/ [code |-> "container_detail_unavailable", about |-> row.name]
                         \in result.warnings
                    \/ containers[row.name] # row
      /\ Answered("inspect_containers_health") =>
           [i \in DOMAIN result |-> result[i].container] =
             [i \in DOMAIN DockerSources(call.manifest.sources) |->
                DockerSources(call.manifest.sources)[i].target]

\* README: inspect_project_deployment compares the configuration with the
\* containers that are actually running and reports the mismatches. So every
\* running container of an expected service with another image repository than
\* expected is in a warning.
MismatchesReported ==
  Answered("inspect_project_deployment") /\ Cardinality(Present(call.seen)) <= MaxContainers =>
    \A e \in Expected : \A n \in RunningOf(e) :
      ExpectedRepo(call.manifest.repos, e[2]) \notin {NoValue, call.seen[n].repo} =>
        [code |-> "image_repository_mismatch", about |-> e, container |-> n] \in call.answer.result

\* A call ends whatever the app does: the gateway waits no longer than its
\* timeout for any request.
EveryCallEnds == call.at # "none" ~> call.at = "none"
=============================================================================
