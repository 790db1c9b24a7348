--------------------------- MODULE SnapshotTools ---------------------------
(***************************************************************************)
(* The tools that read one collected snapshot: list, read and grep         *)
(* (src/tools/snapshots.py), group errors, incident bundle, proxy and      *)
(* probe activity and filtered view (src/tools/analysis.py), each with the *)
(* service that scans the files.  A scan opens the selected files one      *)
(* after the other, takes no lock and holds no copy: a collection may      *)
(* replace or remove the files between two of its opens.  A call ends with *)
(* one answer; the client may go on to the next page of the same files.    *)
(***************************************************************************)
EXTENDS LineSignals

CONSTANTS Sources,          \* the sources of the snapshot, in order
          Bodies,           \* what the files may hold
          NoFile,           \* no file of that name
          Requests,         \* the calls a client may start with
          GroupLimit,       \* GROUP_ERRORS_ANALYSIS_GROUP_LIMIT
          MinCandidates,    \* MIN_PROXY_ROUTE_CANDIDATES
          Multiplier,       \* PROXY_ROUTE_CANDIDATE_MULTIPLIER
          MaxWindow,        \* the largest max_groups, max_lines and max_matches
          Replacements,     \* what a collection may replace a file with
          MaxEditions,      \* bound: how often files are replaced
          OrderOf(_)        \* the place of a digest, or of a route, in their order

ASSUME LimitsAssumption ==
    /\ {GroupLimit, MinCandidates, Multiplier, MaxWindow} \subseteq Nat \ {0}
    /\ MaxEditions \in Nat

ASSUME InputsAssumption ==
    /\ Sources \in Seq(ToSet(Sources))
    /\ \A b \in Bodies \union Replacements : b \in Seq(ToSet(b))
    /\ \A c \in Requests :
          /\ DOMAIN c = {"op", "keys", "limit", "offset", "mode", "snapshot"}
          /\ c.keys \in Seq(ToSet(c.keys)) /\ {c.limit, c.offset} \subseteq Int
          /\ c.op = "read_log_snapshot_file" => Len(c.keys) = 1

VARIABLES files,     \* source key -> the lines of its file
          edition,   \* how often files were replaced
          call,      \* the call the server works on
          phase,     \* checking, scanning, rescanning, answered, refused
          todo,      \* selected sources still to open
          handle,    \* the open file: its source, lines and the next line
          found,     \* what the scan has found
          answer,
          pages      \* the answers the client already has of this snapshot
vars == <<files, edition, call, phase, todo, handle, found, answer, pages>>

Closed == [key |-> "", lines |-> <<>>, next |-> 1]

Grouping == {"group_errors", "build_incident_bundle"}
Scanning == Grouping \union {"inspect_proxy_activity", "inspect_probe_blocking_activity",
                             "create_filtered_view"}
-----------------------------------------------------------------------------
(* What is refused, and in which order it is found out.                     *)

Fails(code, condition) == <<code, condition>>

SnapshotChecks(c) == <<Fails("snapshot_not_found", c.snapshot # "own")>>

KeyChecks(c) == <<Fails("invalid_source_key_arguments", InvalidKeys(c.keys))>>

FoundKeys(c) == <<Fails("snapshot_source_key_not_found",
                        c.keys # AllSources /\ UnknownKeys(c.keys, Sources) # {})>>

FoundSource(c) == <<Fails("snapshot_source_key_not_found",
                          c.keys[1] \notin KeysOf(Available(Sources)))>>

GroupWindow(c) == <<Fails(IF c.op = "inspect_proxy_activity" THEN "invalid_proxy_group_window"
                          ELSE "invalid_group_window", c.limit \notin 1..MaxWindow),
                    Fails("invalid_group_offset", c.offset < 0)>>

ViewWindow(c) == <<Fails("invalid_filtered_view_limit", c.limit \notin 1..MaxWindow),
                   Fails("invalid_filtered_view_mode", c.mode \notin {"head", "errors", "sample"})>>

ReadWindow(c) == <<Fails("invalid_snapshot_read_range", c.offset < 1 \/ c.limit < 1)>>

GrepWindow(c) == <<Fails("invalid_match_window", c.offset < 0 \/ c.limit \notin 1..MaxWindow)>>

Checks(c) ==
    CASE c.op \in Grouping \union {"inspect_proxy_activity"}
            -> SnapshotChecks(c) \o GroupWindow(c) \o KeyChecks(c) \o FoundKeys(c)
      [] c.op = "inspect_probe_blocking_activity"
            -> SnapshotChecks(c) \o KeyChecks(c) \o FoundKeys(c)
      [] c.op = "create_filtered_view"
            -> SnapshotChecks(c) \o ViewWindow(c) \o KeyChecks(c) \o FoundKeys(c)
      [] c.op = "read_log_snapshot_file" -> ReadWindow(c) \o SnapshotChecks(c) \o FoundSource(c)
      [] c.op = "grep_log_snapshot"
            -> GrepWindow(c) \o KeyChecks(c) \o SnapshotChecks(c) \o FoundKeys(c)
      [] OTHER -> SnapshotChecks(c)

\* The first check that fails, 0 for none.
Refusal(c) == SelectInSeq(Checks(c), LAMBDA check : check[2])

Refuse ==
    /\ phase = "checking"
    /\ Refusal(call) # 0
    /\ phase' = "refused"
    /\ answer' = Checks(call)[Refusal(call)][1]
    /\ UNCHANGED <<files, edition, call, todo, handle, found, pages>>
-----------------------------------------------------------------------------
(* Which files a call reads.                                                *)

SelectSnapshotFiles(keys) ==
    IF keys \in {AllSources, <<>>} THEN Available(Sources) ELSE Named(keys, Sources)

SelectProxyFiles(keys) ==
    IF keys \in {AllSources, <<>>} THEN Where(Available(Sources), IsProxySource)
    ELSE Named(keys, Sources)

\* An empty list selects nothing here, and everything in the other tools.
SelectViewFiles(keys) ==
    IF keys = AllSources THEN Available(Sources) ELSE Named(keys, Sources)

\* Only a caller that names the diagnostics searches them.
SelectGrepFiles(keys) ==
    IF keys \in {AllSources, <<>>}
    THEN Where(Available(Sources), LAMBDA s : s.key # Diagnostics)
    ELSE Named(keys, Sources)

Selected(c) ==
    CASE c.op = "inspect_proxy_activity" -> SelectProxyFiles(c.keys)
      [] c.op = "create_filtered_view" -> SelectViewFiles(c.keys)
      [] c.op = "grep_log_snapshot" -> SelectGrepFiles(c.keys)
      [] OTHER -> SelectSnapshotFiles(c.keys)

\* Probe activity is read from proxies and from CrowdSec's own log alone.
Opens(c, s) ==
    c.op = "inspect_probe_blocking_activity" =>
        s.key = "crowdsec_runtime" \/ s.profile = "proxy_access"

Opened(c) == Where(Selected(c), LAMBDA s : Opens(c, s))

SourceOf(key) == CHOOSE s \in Range(Sources) : s.key = key

DigestOf(key, line) == Fingerprint(key, line, IsProxySource(SourceOf(key)))

Lines == UNION {Range(b) : b \in Bodies}

\* Digests are taken to differ where what they are taken of differs; routes equal in
\* all that they are sorted by come in one fixed order.
ASSUME OrderAssumption ==
    \A S \in {{DigestOf(k, l) : k \in KeysOf(Sources), l \in Lines},
              {RouteKey(l) : l \in Lines}} :
        \A a, b \in S : OrderOf(a) \in Nat /\ (OrderOf(a) = OrderOf(b) => a = b)
-----------------------------------------------------------------------------
(* What a scan accumulates.                                                 *)

Empty == [k \in {} |-> 0]

NoGroups == [matching |-> 0, groups |-> Empty, complete |-> TRUE, searched |-> <<>>]

NoRoutes == [total |-> 0, parsed |-> 0, health |-> 0, statused |-> 0, upstream |-> 0,
             classes |-> [k \in Range(StatusClasses) |-> 0],
             table |-> Empty, overflowed |-> FALSE, routes |-> Empty,
             seen |-> [r \in {RouteKey(l) : l \in Lines} |-> 0]]

NoProbes == [records |-> Empty]

NoView == [total |-> 0, kept |-> 0, excluded |-> [k \in KeysOf(Sources) |-> <<>>],
           head |-> <<>>, incidents |-> <<>>, regular |-> <<>>,
           samples |-> [k \in KeysOf(Sources) |-> <<>>]]

NothingFound(c) ==
    CASE c.op \in Grouping -> NoGroups
      [] c.op = "inspect_proxy_activity" -> NoRoutes
      [] c.op = "inspect_probe_blocking_activity" -> NoProbes
      [] OTHER -> NoView

Reference(key, number, line) == [key |-> key, number |-> number, text |-> line.text]

\* A group and the events merged into it; times are those of the first and the
\* last event that has one, in the order of the scan.
NewGroup(line) ==
    [category |-> Category(line), severity |-> Severity(line), count |-> 0,
     sources |-> {}, times |-> <<0, 0>>, first |-> <<>>, last |-> <<>>]

AddEvent(group, ref, line) ==
    [group EXCEPT
        !.count = @ + 1,
        !.sources = @ \union {ref.key},
        !.times = IF line.time = 0 THEN @
                  ELSE <<IF @[1] = 0 THEN line.time ELSE @[1], line.time>>,
        !.first = IF @ = <<>> THEN <<ref>> ELSE @,
        !.last = <<ref>>]

With(f, k, v) == [x \in DOMAIN f \union {k} |-> IF x = k THEN v ELSE f[x]]

GroupLine(f, ref, line) ==
    LET fp == DigestOf(ref.key, line)
        known == fp \in DOMAIN f.groups
        group == IF known THEN f.groups[fp] ELSE NewGroup(line)
    IN  IF ~IsError(line) THEN f
        ELSE IF ~known /\ Cardinality(DOMAIN f.groups) >= GroupLimit
        THEN [f EXCEPT !.matching = @ + 1, !.complete = FALSE]
        ELSE [f EXCEPT !.matching = @ + 1,
                       !.groups = With(@, fp, AddEvent(group, ref, line))]

ProxyRouteCandidateLimit(c) ==
    IF c.limit * Multiplier > MinCandidates THEN c.limit * Multiplier ELSE MinCandidates

EvictableMutant(table) == DOMAIN table  \* any of them

\* The entries a full table may give up: of the least estimate, and among those
\* rather one that is no upstream error.
Evictable(table) ==
    {r \in DOMAIN table : \A s \in DOMAIN table :
        \/ table[r].count < table[s].count
        \/ table[r].count = table[s].count /\ (table[s].upstream \/ ~table[r].upstream)}

Entry(count, upstream) == [count |-> count, upstream |-> upstream]

RecordedMutant(table, r, upstream, limit) ==  \* a newcomer starts from one
    IF r \in DOMAIN table
    THEN {[table EXCEPT ![r] = Entry(@.count + 1, @.upstream \/ upstream)]}
    ELSE IF Cardinality(DOMAIN table) < limit
    THEN {With(table, r, Entry(1, upstream))}
    ELSE {With([s \in DOMAIN table \ {victim} |-> table[s]], r, Entry(1, upstream)) :
             victim \in Evictable(table)}

\* The tables that recording one route can leave.
Recorded(table, r, upstream, limit) ==
    IF r \in DOMAIN table
    THEN {[table EXCEPT ![r] = Entry(@.count + 1, @.upstream \/ upstream)]}
    ELSE IF Cardinality(DOMAIN table) < limit
    THEN {With(table, r, Entry(1, upstream))}
    ELSE {With([s \in DOMAIN table \ {victim} |-> table[s]], r,
               Entry(table[victim].count + 1, upstream)) : victim \in Evictable(table)}

Displaced(table, r, limit) == r \notin DOMAIN table /\ ~(Cardinality(DOMAIN table) < limit)

\* What scanning one line of a proxy source can leave; health checks that
\* succeed are counted apart.
CandidateLine(f, line) ==
    LET r == RouteKey(line)
        limit == ProxyRouteCandidateLimit(call)
        counted == [f EXCEPT !.total = @ + 1, !.parsed = @ + (IF ProxyEvent(line) THEN 1 ELSE 0)]
    IN  IF ~ProxyEvent(line) THEN {counted}
        ELSE IF HealthRequest(line) THEN {[counted EXCEPT !.health = @ + 1]}
        ELSE IF ~HasRoute(line) THEN {counted}
        ELSE {[counted EXCEPT !.statused = @ + 1,
                              !.classes[StatusClass(line.status)] = @ + 1,
                              !.upstream = @ + (IF UpstreamError(line) THEN 1 ELSE 0),
                              !.table = table,
                              !.overflowed = @ \/ Displaced(f.table, r, limit),
                              !.seen[r] = @ + 1]
              : table \in Recorded(f.table, r, UpstreamError(line), limit)}

NewRoute == [count |-> 0, upstream |-> [u \in {"yes", "no", "unknown"} |-> 0],
             sources |-> {}, first |-> <<>>, last |-> <<>>]

AddRouteEvent(route, ref, line) ==
    [route EXCEPT !.count = @ + 1, !.upstream[line.upstream] = @ + 1,
                  !.sources = @ \union {ref.key},
                  !.first = IF @ = <<>> THEN <<ref>> ELSE @, !.last = <<ref>>]

\* The second pass counts the retained routes exactly.
RouteLine(f, ref, line) ==
    LET r == RouteKey(line)
        route == IF r \in DOMAIN f.routes THEN f.routes[r] ELSE NewRoute
    IN  IF HasRoute(line) /\ r \in DOMAIN f.table
        THEN [f EXCEPT !.routes = With(@, r, AddRouteEvent(route, ref, line))]
        ELSE f

NewRecord == [sources |-> {}, accesses |-> 0, paths |-> {}, lastSeen |-> 0,
              bans |-> 0, lastBan |-> 0]

RecordOf(f, ip) == IF ip \in DOMAIN f.records THEN f.records[ip] ELSE NewRecord

ProbeLine(f, ref, line) ==
    IF ref.key = "crowdsec_runtime"
    THEN IF line.bans = "" THEN f
         ELSE [f EXCEPT !.records = With(@, line.bans,
                 [RecordOf(f, line.bans) EXCEPT !.sources = @ \union {ref.key},
                    !.bans = @ + 1, !.lastBan = line.time])]
    ELSE IF ~SensitiveProbe(line) THEN f
         ELSE [f EXCEPT !.records = With(@, line.client,
                 [RecordOf(f, line.client) EXCEPT !.sources = @ \union {ref.key},
                    !.accesses = @ + 1, !.paths = @ \union {line.route},
                    !.lastSeen = IF line.time = 0 THEN @ ELSE line.time])]

Bounded(limit, lines, ref) == IF Len(lines) < limit THEN Append(lines, ref) ELSE lines

StoreCandidateMutant(f, ref, line) ==  \* incidents and other lines share a bound
    CASE call.mode = "head" -> [f EXCEPT !.head = Bounded(call.limit, @, ref)]
      [] call.mode = "errors" /\ IncidentLine(line)
            -> [f EXCEPT !.incidents = Bounded(call.limit - Len(f.regular), @, ref)]
      [] call.mode = "errors" /\ ~IncidentLine(line)
            -> [f EXCEPT !.regular = Bounded(call.limit - Len(f.incidents), @, ref)]
      [] OTHER -> [f EXCEPT !.samples[ref.key] = Bounded(call.limit, @, ref)]

StoreCandidate(f, ref, line) ==
    CASE call.mode = "head" -> [f EXCEPT !.head = Bounded(call.limit, @, ref)]
      [] call.mode = "errors" /\ IncidentLine(line)
            -> [f EXCEPT !.incidents = Bounded(call.limit, @, ref)]
      [] call.mode = "errors" /\ ~IncidentLine(line)
            -> [f EXCEPT !.regular = Bounded(call.limit, @, ref)]
      [] OTHER -> [f EXCEPT !.samples[ref.key] = Bounded(call.limit, @, ref)]

ViewLine(f, ref, line) ==
    LET reason == Exclusion(SourceOf(ref.key).noise, line)
        counted == [f EXCEPT !.total = @ + 1]
    IN  IF reason = "" THEN StoreCandidate([counted EXCEPT !.kept = @ + 1], ref, line)
        ELSE [counted EXCEPT !.excluded[ref.key] = Append(@, reason)]
-----------------------------------------------------------------------------
(* The answers.                                                             *)

Page(s, offset, size) == SubSeq(s, offset + 1, Min({offset + size, Len(s)}))

FingerprintBefore(a, b) == OrderOf(a) < OrderOf(b)

FingerprintSortMutant(groups) ==  \* by count alone
    SortedBy(DOMAIN groups, LAMBDA a, b :
        \/ groups[a].count > groups[b].count
        \/ groups[a].count = groups[b].count /\ FingerprintBefore(a, b))

FingerprintSort(groups) ==
    SortedBy(DOMAIN groups, LAMBDA a, b :
        LET rank(x) == SeverityRank(groups[x].severity) IN
        \/ rank(a) < rank(b)
        \/ rank(a) = rank(b) /\ groups[a].count > groups[b].count
        \/ rank(a) = rank(b) /\ groups[a].count = groups[b].count /\ FingerprintBefore(a, b))

SortedGroups(f) ==
    LET order == FingerprintSort(f.groups)
    IN [i \in DOMAIN order |-> [f.groups[order[i]] EXCEPT !.first = @[1], !.last = @[1]]]

GroupErrorsPayload(c, f) ==
    LET all == SortedGroups(f)
        groups == Page(all, c.offset, c.limit)
        next == c.offset + Len(groups)
    IN [groups |-> groups, grouped |-> Len(all), matching |-> f.matching,
        complete |-> f.complete, searched |-> f.searched, nextOffset |-> next,
        truncated |-> next < Len(all),
        partial |-> ~f.complete \/ Len(groups) < Len(all)]

SumOf(s) == FoldSeq(+, 0, s)

\* A source's share of the findings: how many groups name it, how many lines the
\* groups first seen in it have, and the times of the groups as they are listed.
SourceSummary(groups, key) ==
    LET mine == Where(groups, LAMBDA g : key \in g.sources)
        timed == Where(mine, LAMBDA g : g.times[2] # 0)
        primary == Where(groups, LAMBDA g : g.first.key = key)
    IN [key |-> key, grouped |-> Len(mine),
        matching |-> SumOf([i \in DOMAIN primary |-> primary[i].count]),
        firstTime |-> mine[1].times[1],
        lastTime |-> IF timed = <<>> THEN 0 ELSE timed[Len(timed)].times[2]]

SourceSummaries(groups) ==
    {SourceSummary(groups, key) : key \in UNION {groups[i].sources : i \in DOMAIN groups}}

OfSeverity(groups, severity) == Len(Where(groups, LAMBDA g : g.severity = severity))

IncidentBundlePayload(c, f) ==
    LET all == SortedGroups(f)
        top == Page(all, 0, c.limit)
    IN [groups |-> top, grouped |-> Len(all), matching |-> f.matching,
        complete |-> f.complete, searched |-> f.searched,
        high |-> OfSeverity(all, "high"), medium |-> OfSeverity(all, "medium"),
        summaries |-> SourceSummaries(all),
        readFirst |-> IF top = <<>> THEN <<>> ELSE <<top[1].first>>]

UpstreamErrorRoute(r, route) == r[2] \in {502, 503, 504} /\ route.upstream["yes"] > 0

\* Routes by count, upstream errors first among equals, then by status; what is
\* equal in all that comes in one fixed order.
RouteSort(routes) ==
    SortedBy(DOMAIN routes, LAMBDA a, b :
        LET error(r) == UpstreamErrorRoute(r, routes[r]) IN
        \/ routes[a].count > routes[b].count
        \/ /\ routes[a].count = routes[b].count
           /\ \/ error(a) /\ ~error(b)
              \/ error(a) = error(b) /\ a[2] > b[2]
              \/ error(a) = error(b) /\ a[2] = b[2] /\ FingerprintBefore(a, b))

InspectProxyActivityPayload(c, f) ==
    LET order == Page(RouteSort(f.routes), 0, c.limit)
        distinct == Cardinality(DOMAIN f.table) + (IF f.overflowed THEN 1 ELSE 0)
    IN [total |-> f.total, parsed |-> f.parsed, health |-> f.health,
        statused |-> f.statused, upstream |-> f.upstream,
        classes |-> [k \in {x \in DOMAIN f.classes : f.classes[x] > 0} |-> f.classes[k]],
        routes |-> [i \in DOMAIN order |->
                      [key |-> order[i], count |-> f.routes[order[i]].count,
                       error |-> UpstreamErrorRoute(order[i], f.routes[order[i]])]],
        distinct |-> distinct, exact |-> ~f.overflowed,
        omitted |-> Max({0, distinct - Len(order)}),
        truncated |-> distinct > c.limit]

InspectProbeBlockingActivityPayload(f) ==
    LET suspicious == {ip \in DOMAIN f.records : f.records[ip].accesses > 0}
        banned == {ip \in DOMAIN f.records : f.records[ip].bans > 0}
    IN [ips |-> {[ip |-> ip, accesses |-> f.records[ip].accesses, paths |-> f.records[ip].paths,
                  banned |-> f.records[ip].bans > 0] : ip \in suspicious},
        bans |-> {[ip |-> ip, bans |-> f.records[ip].bans,
                   context |-> f.records[ip].accesses > 0] : ip \in banned}]

\* One line of each source in turn, in rounds, until the view is full.
Sampled(samples, order, limit) ==
    LET having(i) == Where(order, LAMBDA key : i <= Len(samples[key]))
        round(i) == [j \in DOMAIN having(i) |-> samples[having(i)[j]][i]]
    IN Page(FlattenSeq([i \in 1..limit |-> round(i)]), 0, limit)

SelectFilteredLines(c, f) ==
    CASE c.mode = "head" -> Page(f.head, 0, c.limit)
      [] c.mode = "errors" -> Page(f.incidents \o f.regular, 0, c.limit)
      [] OTHER -> LET searched == SelectViewFiles(c.keys)
                  IN Sampled(f.samples, [i \in DOMAIN searched |-> searched[i].key], c.limit)

CreateFilteredViewPayload(c, f) ==
    [lines |-> SelectFilteredLines(c, f), total |-> f.total, kept |-> f.kept,
     excluded |-> f.total - f.kept, truncated |-> f.kept > c.limit,
     reasons |-> [k \in DOMAIN f.excluded |-> Range(f.excluded[k])]]

Payload(c, f) ==
    CASE c.op = "group_errors" -> GroupErrorsPayload(c, f)
      [] c.op = "build_incident_bundle" -> IncidentBundlePayload(c, f)
      [] c.op = "inspect_proxy_activity" -> InspectProxyActivityPayload(c, f)
      [] c.op = "inspect_probe_blocking_activity" -> InspectProbeBlockingActivityPayload(f)
      [] OTHER -> CreateFilteredViewPayload(c, f)

\* suggest_followup_window: the span it advises to collect again.
FollowupWindow(first, last, padding) ==
    [since |-> Min({first, last}) - padding, until |-> Max({first, last}) + padding]
-----------------------------------------------------------------------------
(* The scan.                                                                *)

Accepted == phase = "checking" /\ Refusal(call) = 0

BeginScan ==
    /\ Accepted
    /\ call.op \in Scanning
    /\ phase' = "scanning"
    /\ todo' = Opened(call)
    /\ found' = NothingFound(call)
    /\ UNCHANGED <<files, edition, call, handle, answer, pages>>

Working == phase \in {"scanning", "rescanning"}

\* An analysis that met its limit of groups opens nothing more.
Stopped == call.op \in Grouping /\ ~found.complete

OpenSource ==
    /\ Working /\ handle = Closed /\ todo # <<>> /\ ~Stopped
    /\ files[Head(todo).key] # NoFile
    /\ handle' = [key |-> Head(todo).key, lines |-> files[Head(todo).key], next |-> 1]
    /\ todo' = Tail(todo)
    /\ found' = IF call.op \in Grouping
                THEN [found EXCEPT !.searched = Append(@, Head(todo).key)] ELSE found
    /\ UNCHANGED <<files, edition, call, phase, answer, pages>>

SourceMissing ==
    /\ Working /\ handle = Closed /\ todo # <<>> /\ ~Stopped
    /\ files[Head(todo).key] = NoFile
    /\ phase' = "refused"
    /\ answer' = IF call.op = "create_filtered_view" THEN "snapshot_file_not_found"
                 ELSE "snapshot_source_key_not_found"
    /\ UNCHANGED <<files, edition, call, todo, handle, found, pages>>

\* What the next line leaves of what was found: one outcome, except where a full
\* table of candidates has several entries it may give up.
Found(line) ==
    LET ref == Reference(handle.key, handle.next, line) IN
    CASE call.op \in Grouping -> {GroupLine(found, ref, line)}
      [] call.op = "inspect_proxy_activity" /\ phase = "scanning" -> CandidateLine(found, line)
      [] call.op = "inspect_proxy_activity" /\ phase = "rescanning" -> {RouteLine(found, ref, line)}
      [] call.op = "inspect_probe_blocking_activity" -> {ProbeLine(found, ref, line)}
      [] OTHER -> {ViewLine(found, ref, line)}

ScanLine ==
    /\ Working /\ ~Stopped
    /\ handle.next <= Len(handle.lines)
    /\ found' \in Found(handle.lines[handle.next])
    /\ handle' = [handle EXCEPT !.next = @ + 1]
    /\ UNCHANGED <<files, edition, call, phase, todo, answer, pages>>

CloseSource ==
    /\ Working /\ handle # Closed
    /\ handle.next > Len(handle.lines) \/ Stopped
    /\ handle' = Closed
    /\ UNCHANGED <<files, edition, call, phase, todo, found, answer, pages>>

Exhausted == handle = Closed /\ (todo = <<>> \/ Stopped)

\* inspect_proxy_activity opens and reads every file a second time.
SecondPass ==
    /\ phase = "scanning" /\ Exhausted
    /\ call.op = "inspect_proxy_activity"
    /\ phase' = "rescanning"
    /\ todo' = Selected(call)
    /\ UNCHANGED <<files, edition, call, handle, found, answer, pages>>

Answer ==
    /\ Working /\ Exhausted
    /\ call.op = "inspect_proxy_activity" => phase = "rescanning"
    /\ phase' = "answered"
    /\ answer' = Payload(call, found)
    /\ UNCHANGED <<files, edition, call, todo, handle, found, pages>>
-----------------------------------------------------------------------------
(* Tools that read at once: list, read a range, grep.                       *)

Reply(kind, result) ==
    /\ phase' = kind
    /\ answer' = result
    /\ UNCHANGED <<files, edition, call, todo, handle, found, pages>>

ListLogSnapshotFiles ==
    /\ Accepted /\ call.op = "list_log_snapshot_files"
    /\ Reply("answered", [files |-> Available(Sources)])

SelectSnapshotReadChunkMutant(lines, start, count) ==  \* counts from zero
    [start |-> start, lines |-> Page(lines, start, count)]

\* The range [start, start + count); an empty file has an empty one anywhere.
SelectSnapshotReadChunk(lines, start, count) ==
    [start |-> start, lines |-> Page(lines, start - 1, count)]

ReadLogSnapshotFile ==
    /\ Accepted /\ call.op = "read_log_snapshot_file"
    /\ LET lines == files[call.keys[1]] IN
       IF lines = NoFile THEN Reply("refused", "snapshot_file_not_found")
       ELSE IF call.offset > Len(lines) /\ lines # <<>>
       THEN Reply("refused", "invalid_snapshot_read_range")
       ELSE Reply("answered", SelectSnapshotReadChunk(lines, call.offset, call.limit))

\* What grep prints of some files; the pattern is the failure vocabulary.
Output(sources) ==
    FlattenSeq([i \in DOMAIN sources |->
        GrepOutput(sources[i].key, files[sources[i].key], ErrorTexts)])

GrepSnapshot(c) ==
    LET output == Output(Selected(c))
        page == Page(output, c.offset, c.limit)
    IN [matches |-> page, count |-> Len(output),
        truncated |-> c.offset + Len(page) < Len(output)]

\* A piece of a line without file and number cannot be taken apart: the error is
\* not one of those the service turns into an answer.
GrepLogSnapshot ==
    /\ Accepted /\ call.op = "grep_log_snapshot"
    /\ IF \E i \in DOMAIN Selected(call) : files[Selected(call)[i].key] = NoFile
       THEN Reply("refused", "snapshot_file_not_found")
       ELSE IF \E i \in DOMAIN GrepSnapshot(call).matches :
                   ~GrepSnapshot(call).matches[i].tagged
       THEN Reply("refused", "ValueError")
       ELSE Reply("answered", GrepSnapshot(call))
-----------------------------------------------------------------------------
(* The client asks for the next page; a collection replaces the files.      *)

More ==
    CASE call.op \in {"group_errors", "grep_log_snapshot"} -> answer.truncated
      [] call.op = "read_log_snapshot_file" -> Len(answer.lines) = call.limit
      [] OTHER -> FALSE

Advance ==
    CASE call.op = "group_errors" -> answer.nextOffset
      [] call.op = "read_log_snapshot_file" -> call.offset + Len(answer.lines)
      [] OTHER -> call.offset + Len(answer.matches)

NextPage ==
    /\ phase = "answered" /\ More
    /\ pages' = Append(pages, answer)
    /\ call' = [call EXCEPT !.offset = Advance]
    /\ phase' = "checking"
    /\ answer' = <<>>
    /\ UNCHANGED <<files, edition, todo, handle, found>>

\* A file replaced before it is first opened only makes other initial files, so
\* this matters to inspect_proxy_activity alone, which opens them again.
Recollect ==
    /\ edition < MaxEditions
    /\ phase = "rescanning" /\ todo # <<>>
    /\ edition' = edition + 1
    /\ \E body \in Replacements \union {NoFile} :
           files' = [files EXCEPT ![Head(todo).key] = body]
    /\ UNCHANGED <<call, phase, todo, handle, found, answer, pages>>

ToolsInit ==
    /\ files \in [KeysOf(Sources) -> Bodies \union {NoFile}]
    /\ call \in Requests
    /\ edition = 0 /\ phase = "checking" /\ todo = <<>> /\ handle = Closed
    /\ found = NothingFound(call)
    /\ answer = <<>> /\ pages = <<>>

ToolsNext ==
    \/ Refuse \/ BeginScan \/ OpenSource \/ SourceMissing \/ ScanLine \/ CloseSource
    \/ SecondPass \/ Answer \/ ListLogSnapshotFiles \/ ReadLogSnapshotFile
    \/ GrepLogSnapshot \/ NextPage \/ Recollect

ToolsSpec == ToolsInit /\ [][ToolsNext]_vars
-----------------------------------------------------------------------------
(* Properties, of answers from files that no collection replaced meanwhile. *)

Answered(op) == phase = "answered" /\ edition = 0 /\ call.op = op

\* The lines of a file from its n-th on, as references with their lines.
LinesFrom(key, lines, n) ==
    [i \in 1..(Len(lines) - n + 1) |->
        [ref |-> Reference(key, n + i - 1, lines[n + i - 1]), line |-> lines[n + i - 1]]]

\* All the lines of a file that is there.
LinesIn(s) == IF files[s.key] = NoFile THEN << >> ELSE LinesFrom(s.key, files[s.key], 1)

LinesOf(sources) == FlattenSeq([i \in DOMAIN sources |-> LinesIn(sources[i])])

LinesRead == LinesOf(Opened(call))

\* The pages of group_errors, taken together from the first group on, put every
\* error-like line into one group and repeat none, the graver groups first; when the
\* scan met its limit of groups, the counts are of the lines before the one it
\* stopped at.
GroupPagesPartition ==
    Answered("group_errors") /\ ~answer.truncated =>
        LET start == Head(Append(pages, answer))
            all == FlattenSeq([i \in DOMAIN pages |-> pages[i].groups]) \o answer.groups
            counted == SumOf([i \in DOMAIN all |-> all[i].count])
            errors == Where(LinesRead, LAMBDA l : IsError(l.line))
        IN start.nextOffset = Len(start.groups) =>
           /\ \A i, j \in DOMAIN all : i < j =>
                  /\ SeverityRank(all[i].severity) <= SeverityRank(all[j].severity)
                  /\ all[i].first # all[j].first
           /\ IF answer.complete
              THEN /\ counted = Len(errors) /\ answer.matching = counted
                   /\ Len(all) = Cardinality({DigestOf(errors[i].ref.key, errors[i].line) : i \in DOMAIN errors})
              ELSE /\ Len(all) = GroupLimit
                   /\ answer.matching = counted + 1
                   /\ answer.matching <= Len(errors)

\* What inspect_proxy_activity says of a route is exact whatever its bounded table
\* gave up; no route it leaves out is among the heavy ones, of which there are
\* fewer than the table has entries, unless enough others are as frequent; the
\* number of routes is exact, or at least a lower bound.
RoutesAreExact ==
    Answered("inspect_proxy_activity") =>
        LET counts(l) == HasRoute(l.line) /\ ~HealthRequest(l.line)
            lines == Where(LinesRead, counts)
            routes == {RouteKey(lines[i].line) : i \in DOMAIN lines}
            of(r) == Len(Where(lines, LAMBDA l : RouteKey(l.line) = r))
            listed == {answer.routes[i].key : i \in DOMAIN answer.routes}
        IN /\ answer.statused = Len(lines)
           /\ \A i \in DOMAIN answer.routes : answer.routes[i].count = of(answer.routes[i].key)
           /\ answer.distinct <= Cardinality(routes)
           /\ answer.exact => answer.distinct = Cardinality(routes)
           /\ \A r \in routes \ listed :
                 answer.exact \/ of(r) * ProxyRouteCandidateLimit(call) > answer.statused =>
                     Len(answer.routes) = call.limit /\ \A s \in listed : of(s) >= of(r)

\* An address is reported with all its suspicious requests, and as banned iff
\* CrowdSec's log bans it, whichever of the two logs is read first.
ProbesAreCorrelated ==
    Answered("inspect_probe_blocking_activity") =>
        LET fromBans(l) == l.ref.key = "crowdsec_runtime"
            bannedIps == {LinesRead[i].line.bans : i \in {j \in DOMAIN LinesRead :
                              fromBans(LinesRead[j])}} \ {""}
            probes == Where(LinesRead, LAMBDA l : ~fromBans(l) /\ SensitiveProbe(l.line))
            ips == {probes[i].line.client : i \in DOMAIN probes}
        IN /\ answer.ips = {[ip |-> ip, banned |-> ip \in bannedIps,
                 accesses |-> Len(Where(probes, LAMBDA l : l.line.client = ip)),
                 paths |-> {probes[i].line.route : i \in {j \in DOMAIN probes :
                                                          probes[j].line.client = ip}}] : ip \in ips}
           /\ {[ip |-> b.ip, context |-> b.context] : b \in answer.bans}
                = {[ip |-> ip, context |-> ip \in ips] : ip \in bannedIps}

ActivityIsExact == RoutesAreExact /\ ProbesAreCorrelated

\* A filtered view is what it would be if every kept line had been stored and not
\* only the bounded candidates: the first lines, or all incident lines before any
\* other, or, of sources with a key each, an even share of every one.
ViewLosesNothing ==
    /\ Answered("create_filtered_view")
    /\ call.mode = "sample" => IsInjective([i \in DOMAIN Sources |-> Sources[i].key])
    =>  LET kept == Where(LinesRead, LAMBDA l :
                        Exclusion(SourceOf(l.ref.key).noise, l.line) = "")
            refs(s) == [i \in DOMAIN s |-> s[i].ref]
            incidents == Where(kept, LAMBDA l : IncidentLine(l.line))
            regular == Where(kept, LAMBDA l : ~IncidentLine(l.line))
            share(k, s) == Len(Where(s, LAMBDA r : r.key = k))
            shown == answer.lines
        IN /\ answer.kept = Len(kept) /\ answer.total = Len(LinesRead)
           /\ Len(shown) = Min({Len(kept), call.limit})
           /\ call.mode = "head" => shown = Page(refs(kept), 0, call.limit)
           /\ call.mode = "errors" =>
                  shown = Page(refs(incidents) \o refs(regular), 0, call.limit)
           /\ call.mode = "sample" =>
                  /\ IsInjective(shown) /\ Range(shown) \subseteq Range(refs(kept))
                  /\ \A k, m \in {kept[i].ref.key : i \in DOMAIN kept} :
                        \/ share(k, shown) + 1 >= share(m, shown)
                        \/ share(k, shown) = share(k, refs(kept))

\* A client that reads a file, or greps, page after page gets every line, or every
\* match, once and in order; a last page that is exactly full is followed by an
\* error, not by a page that repeats lines.
PagesCoverFile ==
    /\ call.op = "read_log_snapshot_file" /\ pages # <<>>
       /\ \/ phase = "refused"
          \/ phase = "answered" /\ ~More
       => LET read == FlattenSeq([i \in DOMAIN pages |-> pages[i].lines])
                       \o (IF phase = "answered" THEN answer.lines ELSE <<>>)
              body == files[call.keys[1]]
          IN read = Page(body, pages[1].start - 1, Len(body))
    /\ Answered("grep_log_snapshot") /\ ~answer.truncated =>
          LET got == FlattenSeq([i \in DOMAIN pages |-> pages[i].matches]) \o answer.matches
              hits == Where(LinesRead, LAMBDA l : ErrorLike(l.line.text))
          IN  Len(got) = call.offset + Len(answer.matches) =>
                  /\ Len(got) = Len(hits)
                  /\ \A i \in DOMAIN got : got[i].key = hits[i].ref.key
                                            /\ got[i].text = hits[i].ref.text

\* The bounded table of the scan is that of ProxyRoutes: it gives up only a least
\* entry, once it is full, and counts every line with a route once.  (Windows that
\* need no more than the minimum of candidates share one limit.)
Counting == call.op = "inspect_proxy_activity" /\ ProxyRouteCandidateLimit(call) = MinCandidates
RouteTable == INSTANCE ProxyRoutes WITH
    Route <- DOMAIN NoRoutes.seen,
    CandidateLimit <- MinCandidates,
    estimates <- IF Counting THEN [r \in DOMAIN found.table |-> found.table[r].count] ELSE Empty,
    overflowed <- Counting /\ found.overflowed,
    seen <- IF Counting THEN found.seen ELSE NoRoutes.seen
CountsRoutes == RouteTable!RoutesSpec

\* log_snapshots.py:554, `start_line` "is one-based because it matches line numbers
\* returned by grep and analysis tools": the line read at the number of a match is
\* the matching line.
LineNumbersAgree ==
    phase = "answered" /\ call.op = "grep_log_snapshot" =>
        \A i \in DOMAIN answer.matches :
            LET m == answer.matches[i] IN
            SelectSnapshotReadChunk(files[m.key], m.number, 1).lines[1].text = m.text

\* log_analysis.py:1216, "per-source counts and timestamp bounds": the window that
\* suggest_followup_window makes of a source's summary contains every error-like
\* line of that source.
FollowupCoversSource ==
    Answered("build_incident_bundle") =>
        \A s \in answer.summaries :
            LET window == FollowupWindow(s.firstTime, s.lastTime, 0) IN
            s.firstTime # 0 /\ s.lastTime # 0 /\ answer.complete =>
                \A i \in DOMAIN LinesRead :
                    LinesRead[i].ref.key = s.key /\ IsError(LinesRead[i].line)
                        /\ LinesRead[i].line.time # 0
                    => LinesRead[i].line.time \in window.since..window.until
=============================================================================
