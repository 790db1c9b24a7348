--------------------------- MODULE ComposeChecks ---------------------------
(***************************************************************************)
(* What the compose, runtime and deployment inspections conclude from one  *)
(* inventory of the containers.                                            *)
(*                                                                         *)
(* Operators only. A row of the inventory is a container record [name, id, *)
(* project, service, running, repo, tag]; rows come in the order of their  *)
(* names. A source is a record [key, docker, target, project, service,     *)
(* prefixes]. A warning is about one expected service, named here by its   *)
(* compose project and service (the answer carries the service alone).     *)
(* What the rows and details also say of ports, mounts, networks, labels   *)
(* and environment is copied into the answers and left out.                *)
(***************************************************************************)
EXTENDS PythonLists, FiniteSets

\* The services that the docker sources of a manifest declare.
DockerSources(sources) == Filter(sources, {s \in ToSet(sources) : s.docker})
Service(x) == << x.project, x.service >>
ExpectedServices(sources) == {Service(s) : s \in ToSet(DockerSources(sources))}
ComposeProjects(expected) == {e[1] : e \in expected}

\* The rows labelled with one of the compose projects.
SelectedRows(rows, expected) ==
  Filter(rows, {r \in ToSet(rows) : r.project \in ComposeProjects(expected)})

MatchedByServiceMutant(rows, e) ==
  Filter(rows, {r \in ToSet(rows) : r.running /\ r.service = e[2]})

RunningFor(rows, e) == Filter(rows, {r \in ToSet(rows) : r.running /\ Service(r) = e})

ComposeWarnings(rows, expected) ==
  {[code |-> "expected_service_not_running", about |-> e] :
     e \in {x \in expected : RunningFor(SelectedRows(rows, expected), x) = << >>}}
  \union
  {[code |-> "multiple_running_containers", about |-> e] :
     e \in {x \in expected : Len(RunningFor(SelectedRows(rows, expected), x)) > 1}}

-----------------------------------------------------------------------------
(* The runtime inspection joins each selected row with the detail read for *)
(* its container name, or with none. details: a function of names.         *)

NoDetail == [id |-> 0]

RuntimeRowsMutant(rows, expected, details) ==
  [rows |-> [i \in DOMAIN SelectedRows(rows, expected) |->
               LET r == SelectedRows(rows, expected)[i]
               IN  [row    |-> r,
                    detail |-> IF r.name \in DOMAIN details THEN details[r.name] ELSE NoDetail]],
   warnings |-> ComposeWarnings(rows, expected)]

RuntimeRows(rows, expected, details) ==
  LET selected == SelectedRows(rows, expected)
      known(r) == r.name \in DOMAIN details
  IN  [rows     |-> [i \in DOMAIN selected |->
                       [row    |-> selected[i],
                        detail |-> IF known(selected[i]) THEN details[selected[i].name]
                                   ELSE NoDetail]],
       warnings |-> ComposeWarnings(rows, expected) \union
                    {[code |-> "container_detail_unavailable", about |-> r.name] :
                       r \in {x \in ToSet(selected) : ~known(x)}}]

-----------------------------------------------------------------------------
(* The deployment inspection looks at one running container per service:   *)
(* running_by_service is keyed by the service name and keeps the last one. *)

NoValue == ""

LastRunning(rows, service) ==
  LET hits == Filter(rows, {r \in ToSet(rows) : r.running /\ r.service = service})
  IN  IF hits = << >> THEN << >> ELSE << Last(hits) >>

ExpectedRepo(repos, service) == IF service \in DOMAIN repos THEN repos[service] ELSE NoValue

\* Without a docker source the configured repositories name the services.
DeploymentServices(sources, repos) ==
  IF DockerSources(sources) # << >> THEN ExpectedServices(sources)
  ELSE {<< NoValue, service >> : service \in DOMAIN repos}

\* current: what was read of the current tag file, [status, value].
ImageWarnings(about, container, repo, current) ==
  {w \in {[code |-> "image_repository_mismatch", about |-> about, container |-> container.name],
          [code |-> "image_tag_mismatch", about |-> about, container |-> container.name]} :
     /\ repo # NoValue
     /\ IF w.code = "image_repository_mismatch" THEN container.repo # repo
        ELSE current.value # NoValue /\ container.tag # current.value}

DeploymentWarnings(rows, sources, repos, current) ==
  LET expected == DeploymentServices(sources, repos)
      projects == IF DockerSources(sources) = << >> THEN {} ELSE ComposeProjects(expected)
      running  == Filter(rows, {r \in ToSet(rows) : r.project \in projects})
      judged(e) == LastRunning(running, e[2])
  IN  UNION {IF judged(e) = << >>
             THEN {[code |-> "expected_service_not_running", about |-> e, container |-> 0]}
             ELSE ImageWarnings(e, judged(e)[1], ExpectedRepo(repos, e[2]), current) :
               e \in expected}
      \union
      (IF current.status \in {"ok", "not_configured"} THEN {}
       ELSE {[code |-> current.status, about |-> << NoValue, NoValue >>, container |-> 0]})
=============================================================================
