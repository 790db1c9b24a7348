--------------------------- MODULE MCSnapshotTools ---------------------------
(***************************************************************************)
(* Small instances of SnapshotTools for TLC: two or three sources, short   *)
(* files of lines chosen for what each tool tells apart.                   *)
(***************************************************************************)
EXTENDS SnapshotTools, TLC

Line(form, status, level, text, route, upstream, client, time, bans) ==
    [form |-> form, status |-> status, level |-> level, said |-> text \notin {"w1", "w2"},
     text |-> text, route |-> route, meaning |-> "", upstream |-> upstream,
     client |-> client, time |-> time, bans |-> bans, end |-> "lf"]

Access(status, route, upstream, time) ==
    Line("json", status, "", "w1", route, upstream, "ip1", time, "")
Says(level, text, time) == Line("json", 0, level, text, "", "unknown", "", time, "")
Text(text, time) == Line("text", 0, "", text, "", "unknown", "", time, "")

Failed == Access(502, "/a", "yes", 1)
Failing == Access(502, "/a", "no", 2)
Missing == Access(404, "/a", "yes", 3)
Served == Access(200, "/a", "yes", 2)
Health == Access(200, "/health", "no", 1)
Sick == Access(503, "/health", "no", 1)
Asset == Access(200, "/app.js", "yes", 1)
Probe == Access(404, "/.env", "no", 1)
Probed == [Access(403, "/.git", "no", 0) EXCEPT !.client = "ip2"]
Timeout == Text("timeout", 2)
Crashed == Says("ERROR", "failed", 3)
Warned == Says("WARN", "timeout", 1)
Idle == Says("INFO", "idle", 1)
Ban == [Text("ban", 2) EXCEPT !.bans = "ip1"]
Progress == [Text("idle", 0) EXCEPT !.end = "cr"]

MCErrorTexts == {"failed", "timeout"}
MCIncidentTexts == {"failed", "ban"}

Proxy == [key |-> "proxy", collected |-> TRUE, proxyNamed |-> TRUE,
          profile |-> "proxy_access", noise |-> "proxy_noise"]
CrowdSec == [key |-> "crowdsec_runtime", collected |-> TRUE, proxyNamed |-> FALSE,
             profile |-> "none", noise |-> "none"]
Collection == [key |-> Diagnostics, collected |-> TRUE, proxyNamed |-> FALSE,
               profile |-> "none", noise |-> "none"]
Backend == [key |-> "backend", collected |-> FALSE, proxyNamed |-> FALSE,
            profile |-> "none", noise |-> "backend_noise"]
MCSources == <<CrowdSec, Proxy, Backend, Collection>>

Request(op, keys, limit, offset, mode) ==
    [op |-> op, keys |-> keys, limit |-> limit, offset |-> offset, mode |-> mode,
     snapshot |-> "own"]

Seqs(S, n) == UNION {[1..m -> S] : m \in 0..n}

\* What the files may hold, by tool.
BodiesFor(op) ==
    CASE op = "build_incident_bundle" -> Seqs({Failing, Missing, Warned}, 3)
      [] op = "group_errors" -> Seqs({Failed, Failing, Missing, Timeout, Crashed, Warned}, 2)
      [] op = "inspect_proxy_activity" -> Seqs({Served, Failed, Missing, Health}, 3)
      [] op = "inspect_probe_blocking_activity" -> Seqs({Probe, Probed, Ban, Served}, 2)
      [] op = "create_filtered_view" -> Seqs({Health, Sick, Asset, Timeout}, 3)
      [] OTHER -> Seqs({Crashed, Idle, Progress}, 3)
AllOps == Scanning \union {"read_log_snapshot_file", "grep_log_snapshot"}
AnyBodies == UNION {BodiesFor(op) : op \in AllOps}

\* Lines as most logs have them, and those of programs that show their progress.
MCBodies == {b \in AnyBodies : \A i \in DOMAIN b : b[i].end = "lf"}

InTimeOrder == {b \in MCBodies : \A i, j \in DOMAIN b : i < j => b[i].time <= b[j].time}

MCReplacements == {<<Failed>>}

MCRequests ==
    {Request("group_errors", AllSources, n, 0, "") : n \in {0, 1, 2}}
    \union {Request("build_incident_bundle", k, 1, 0, "") : k \in {<<>>, <<"proxy">>, <<"backend">>}}
    \union {Request("inspect_proxy_activity", k, n, 0, "") :
               k \in {AllSources, <<"crowdsec_runtime", "proxy">>}, n \in {1, 2}}
    \union {Request("inspect_probe_blocking_activity", k, 1, 0, "") : k \in {AllSources, <<"">>}}
    \union {Request("create_filtered_view", k, 2, 0, m) :
               k \in {AllSources}, m \in {"head", "errors", "sample"}}
    \union {Request("create_filtered_view", <<>>, 1, 0, m) : m \in {"head", "tail"}}
    \union {Request("read_log_snapshot_file", <<"proxy">>, n, 1, "") : n \in {0, 1, 2}}
    \union {Request("grep_log_snapshot", k, n, 0, "") : k \in {AllSources, <<Diagnostics, "proxy">>}, n \in {1, 2}}
    \union {[Request(op, AllSources, 1, 1, "") EXCEPT !.snapshot = s] :
               op \in {"list_log_snapshot_files", "grep_log_snapshot"}, s \in {"own", "others"}}

GrepRequests == {Request("grep_log_snapshot", <<"proxy">>, 1, 0, "")}
BundleRequests == {Request("build_incident_bundle", AllSources, 2, 0, "")}

\* Two files vary; what was not collected has none, the diagnostics have one line.
MCFiles(op) ==
    {f @@ ("backend" :> NoFile) @@ (Diagnostics :> <<Idle>>) :
        f \in [{"crowdsec_runtime", "proxy"} -> (BodiesFor(op) \intersect Bodies) \union {NoFile}]}

MCInit ==
    /\ call \in Requests
    /\ files \in MCFiles(call.op)
    /\ ToolsInit
MCSpec == MCInit /\ [][ToolsNext]_vars

\* The order of the digests, and of equal routes: any fixed one will do, here that
\* of the first line that has the identity, then of the sources.
MCLines == <<Failed, Failing, Missing, Served, Health, Sick, Asset, Probe, Probed, Timeout,
             Crashed, Warned, Idle, Ban, Progress>>
FirstWith(test(_)) == CHOOSE i \in DOMAIN MCLines :
                          test(MCLines[i]) /\ \A j \in 1..i-1 : ~test(MCLines[j])
MCOrder(a) ==
    LET place(fp) == FirstWith(LAMBDA l : DigestOf(fp[1], l) = fp)
        spot(r) == FirstWith(LAMBDA l : RouteKey(l) = r)
        source(key) == CHOOSE i \in DOMAIN MCSources : MCSources[i].key = key
    IN IF Len(a) = 2 THEN spot(a) ELSE place(a) * Len(MCSources) + source(a[1])
=============================================================================
