-------------------------- MODULE InspectionProofs --------------------------
(***************************************************************************)
(* Proofs about Inspection, for any manifests, containers, files and       *)
(* changes of the host: the path of a request is under the declared        *)
(* prefixes, and so is what it leads to if no link is on the way; an       *)
(* unchanged file or directory is answered as it is and a cut is told;     *)
(* inventories and the inspections of a project report truly.              *)
(*                                                                         *)
(* c stands for a call and r for its request, so that a lemma speaks of    *)
(* the call before a step and after it alike.                              *)
(***************************************************************************)
EXTENDS Inspection, DataLemmas, TLAPS

-----------------------------------------------------------------------------
(* Paths.                                                                  *)

\* No part of a path leads up, or is a dot.
NoDots(parts) == \A i \in DOMAIN parts : parts[i] # "." /\ parts[i] # ".."

\* What PurePosixPath and the check for ".." leave of a path.
LEMMA WithoutDotsIs ==
  ASSUME NEW raw, raw.parts \in Seq(STRING)
  PROVE  /\ WithoutDots(raw) \in Seq(STRING)
         /\ ToSet(WithoutDots(raw)) = ToSet(raw.parts) \ {"."}
<1>1. WithoutDots(raw) = Filter(raw.parts, ToSet(raw.parts) \ {"."})
  BY DEF WithoutDots
<1> QED BY <1>1, FilterElements

LEMMA NormalizedHasNoDots ==
  ASSUME NEW raw, raw.parts \in Seq(STRING), raw.absolute, PathError(raw) = ""
  PROVE  /\ NormalizedPath(raw).parts \in Seq(STRING)
         /\ NoDots(NormalizedPath(raw).parts)
<1>1. ".." \notin ToSet(raw.parts)
  BY DEF PathError
<1>2. NormalizedPath(raw).parts = WithoutDots(raw)
  BY DEF NormalizedPath
<1>3. \A i \in DOMAIN WithoutDots(raw) : WithoutDots(raw)[i] \in ToSet(WithoutDots(raw))
  BY DEF ToSet
<1> QED BY <1>1, <1>2, <1>3, WithoutDotsIs DEF NoDots

\* The app looks at the path that was checked, without a change.
LEMMA AskedPath ==
  ASSUME NEW parts \in Seq(STRING), NoDots(parts)
  PROVE  /\ PathError([absolute |-> TRUE, parts |-> parts]) = ""
         /\ NormalizedPath([absolute |-> TRUE, parts |-> parts]).parts = parts
<1>1. ".." \notin ToSet(parts) /\ ToSet(parts) \subseteq ToSet(parts) \ {"."}
  BY DEF NoDots, ToSet
<1>2. Filter(parts, ToSet(parts) \ {"."}) = parts
  BY <1>1, FilterNothing
<1> QED BY <1>1, <1>2 DEF PathError, NormalizedPath, WithoutDots

-----------------------------------------------------------------------------
(* The protocol: which request waits at which place of a call.             *)

CallFields == {"tool", "manifest", "source", "parts", "limit", "at", "todo", "got", "rows",
               "filters", "seen", "since", "answer"}
RequestFields == {"op", "name", "path", "limit", "filters", "at", "matched", "reply"}
Waiting == {"first_stat", "second_stat", "result", "rows", "each"}

\* What a call asks for at its place.
Asked(c, r) ==
  \/ c.at = "first_stat"  /\ c.tool \in PathTools /\ r.op = "container_path_stat"
  \/ c.at = "second_stat" /\ c.tool = "read_container_file" /\ r.op = "container_path_stat"
  \/ /\ c.at = "result"
     /\ \/ c.tool = "read_container_file" /\ r.op = "container_file_read"
        \/ c.tool = "list_container_directory" /\ r.op = "container_directory_list"
        \/ c.tool = "inspect_container_detail" /\ r.op = "container_detail"
  \/ /\ c.at = "rows"
     /\ \/ c.tool = "inspect_vps_volumes" /\ r.op = "vps_volumes_inventory"
        \/ c.tool \in ComposeTools \union {"inspect_vps_containers"} /\ r.op = "vps_containers_inventory"
  \/ /\ c.at = "each"
     /\ \/ c.tool = "inspect_containers_health" /\ r.op = "container_health"
        \/ c.tool = "inspect_project_runtime" /\ r.op = "container_detail"

\* The path of a call was checked, and its requests name it.
Checked(c) ==
  /\ c.parts \in Seq(STRING) /\ NoDots(c.parts) /\ PathIsAllowed(c.source, c.parts)
  /\ c.source.target \in Name
OfItsPath(c, r) ==
  r.op \in PathOperations =>
    /\ r.name = c.source.target /\ r.path = [absolute |-> TRUE, parts |-> c.parts]
    /\ r.limit = IF r.op = "container_directory_list" THEN MaxEntries ELSE c.limit

IsCall(c) ==
  \/ c = NoCall
  \/ /\ DOMAIN c = CallFields /\ c.tool \in Tools
     /\ c.at \in Waiting \union {"look_tag", "read_tag", "ended"}
     /\ c.tool \in PathTools => c.at = "ended" \/ Checked(c)
     /\ c.at \in {"second_stat", "result"} /\ c.tool = "read_container_file" => ~ (c.limit < 1)
     /\ c.at \in {"look_tag", "read_tag"} => c.tool = "inspect_project_deployment"
IsRequest(c, r) ==
  \/ r = NoRequest /\ c.at \notin Waiting
  \/ /\ DOMAIN r = RequestFields
     /\ Asked(c, r) /\ OfItsPath(c, r)

\* The inductive invariant: a call that waits has one request, of the kind its
\* place asks for, and a request about a path names the path that was checked.
ProtocolInv == IsCall(call) /\ IsRequest(call, request)

LEMMA NameRequestIs ==
  ASSUME NEW op, NEW n
  PROVE  /\ DOMAIN NameRequest(op, n) = RequestFields
         /\ NameRequest(op, n).op = op /\ NameRequest(op, n).name = n
         /\ NameRequest(op, n).at = "received"
BY DEF NameRequest, NewRequest, RequestFields

LEMMA PathRequestIs ==
  ASSUME NEW c, NEW op
  PROVE  /\ DOMAIN PathRequest(c, op) = RequestFields
         /\ PathRequest(c, op).op = op /\ PathRequest(c, op).at = "received"
         /\ OfItsPath(c, PathRequest(c, op))
BY DEF PathRequest, NewRequest, RequestFields, OfItsPath

LEMMA EndKeeps ==
  ASSUME NEW c, DOMAIN c = CallFields, c.tool \in Tools, NEW answer, EndsWith(c, answer),
         request' = NoRequest
  PROVE  ProtocolInv'
<1>1. /\ DOMAIN call' = CallFields /\ call'.tool = c.tool /\ call'.at = "ended"
  BY DEF EndsWith, CallFields
<1>2. IsCall(call')
  BY <1>1 DEF IsCall, Waiting
<1>3. IsRequest(call', request')
  BY <1>1 DEF IsRequest, Waiting
<1> QED BY <1>2, <1>3 DEF ProtocolInv

LEMMA AskKeeps ==
  ASSUME NEW c, DOMAIN c = CallFields, c.tool \in Tools, NEW at \in Waiting, NEW req,
         Asks(c, at, req), DOMAIN req = RequestFields,
         c.tool \in PathTools => Checked(c),
         at \in {"second_stat", "result"} /\ c.tool = "read_container_file" => ~ (c.limit < 1),
         Asked([c EXCEPT !.at = at], req), OfItsPath(c, req)
  PROVE  ProtocolInv'
<1>1. PICK h : h = [c EXCEPT !.at = at]
  OBVIOUS
<1>2. /\ DOMAIN h = CallFields /\ h.tool = c.tool /\ h.at = at /\ h.parts = c.parts
      /\ h.source = c.source /\ h.limit = c.limit
  BY <1>1 DEF CallFields
<1>3. call' = h /\ request' = req
  BY <1>1 DEF Asks
<1>4. IsCall(h)
  BY <1>2 DEF IsCall, Checked, Waiting
<1>5. IsRequest(h, req)
  BY <1>1, <1>2 DEF IsRequest, OfItsPath
<1>6. IsCall(call') /\ IsRequest(call', request')
  BY <1>3, <1>4, <1>5
<1> QED BY <1>6 DEF ProtocolInv

LEMMA ElementOf ==
  ASSUME NEW T, NEW s \in Seq(T), NEW e \in ToSet(s)
  PROVE  e \in T
<1>1. \A i \in DOMAIN s : s[i] \in T
  OBVIOUS
<1> QED BY <1>1 DEF ToSet

LEMMA HeadOf ==
  ASSUME NEW T, NEW s \in Seq(T), s # << >>
  PROVE  Head(s) \in T
BY HeadTailProperties

LEMMA PrefixesOf ==
  ASSUME NEW A, NEW P, NEW B, NEW N,
         NEW s \in [key : A, docker : B, target : N, project : A, service : A, prefixes : P]
  PROVE s.prefixes \in P
OBVIOUS

LEMMA FirstPrefix ==
  ASSUME NEW m \in Manifest, NEW s \in ToSet(m.sources), s.prefixes # << >>
  PROVE  s.prefixes \in Seq(Seq(STRING)) /\ Head(s.prefixes) \in Seq(STRING)
<1>1. m.sources \in Seq([key : STRING, docker : BOOLEAN, target : Nat,
        project : STRING, service : STRING, prefixes : Seq(Seq(STRING))])
  BY InspectionAssumption
<1>2. s \in [key : STRING, docker : BOOLEAN, target : Nat,
        project : STRING, service : STRING, prefixes : Seq(Seq(STRING))]
  BY <1>1, ElementOf
<1>3. s.prefixes \in Seq(Seq(STRING))
  BY <1>2, PrefixesOf
<1> QED BY <1>3, HeadOf

\* What the service checked of a source and a path before it asks.
LEMMA SourceFound ==
  ASSUME NEW tool, NEW m \in Manifest, NEW raw \in RawPath \union {NoPath}, NEW key,
         ToolError(tool, m, key, raw) = "", NEW s, s = CHOOSE x \in SourcesOf(m, key) : TRUE,
         NEW parts, parts = NormalizedPath(RequestedPath(tool, s, raw)).parts
  PROVE  /\ s \in ToSet(m.sources) /\ s.docker /\ s.target \in Name
         /\ tool \in PathTools =>
              parts \in Seq(STRING) /\ NoDots(parts) /\ PathIsAllowed(s, parts)
<1>1. SourceError(m, key) = "" /\ SourcesOf(m, key) # {}
  BY DEF ToolError, SourceError
<1>2. s \in SourcesOf(m, key)
  BY <1>1
<1>3. s \in ToSet(m.sources) /\ s.docker /\ s.prefixes # << >>
  BY <1>1, <1>2 DEF SourceError, SourcesOf
<1>4. s.target \in Name
  BY <1>3, InspectionAssumption
<1>5. ASSUME tool \in PathTools
      PROVE  parts \in Seq(STRING) /\ NoDots(parts) /\ PathIsAllowed(s, parts)
  <2>1. PICK p : p = RequestedPath(tool, s, raw)
    OBVIOUS
  <2>2. PathError(p) = "" /\ PathIsAllowed(s, NormalizedPath(p).parts)
    BY <1>1, <1>5, <2>1 DEF ToolError
  <2>3. p.absolute
    BY <2>2 DEF PathError
  <2>4. p.parts \in Seq(STRING)
    <3>1. CASE raw # NoPath
      <4>1. p = raw
        BY <2>1, <3>1 DEF RequestedPath
      <4>2. p \in [absolute : BOOLEAN, parts : Seq(STRING)]
        BY <4>1, InspectionAssumption
      <4> QED BY <4>2
    <3>2. CASE raw = NoPath
      <4>1. p.parts = Head(s.prefixes) \/ p.parts = << >>
        BY <2>1, <3>2 DEF RequestedPath
      <4>2. p.parts = Head(s.prefixes) => p.parts \in Seq(STRING)
        BY <1>3, FirstPrefix
      <4> QED BY <4>1, <4>2, EmptySeq
    <3> QED BY <3>1, <3>2
  <2>5. NormalizedPath(p).parts \in Seq(STRING) /\ NoDots(NormalizedPath(p).parts)
    BY <2>2, <2>3, <2>4, NormalizedHasNoDots
  <2> QED BY <2>1, <2>2, <2>5
<1> QED BY <1>3, <1>4, <1>5

LEMMA SourceToolBegins ==
  ASSUME ProtocolInv, BeginSourceTool
  PROVE  ProtocolInv'
<1>1. PICK tool \in SourceTools, m \in Manifest, raw \in RawPath \union {NoPath}, limit \in ByteLimit :
     \E key \in {s.key : s \in ToSet(m.sources)} \union {"unknown"} :
       /\ tool # "read_container_file" => limit = Max(ByteLimit)
       /\ tool \notin PathTools => raw = NoPath
       /\ IF ToolError(tool, m, key, raw) # ""
          THEN EndsWith(NewCall(tool, m, << >>, << >>, limit), Failed(ToolError(tool, m, key, raw)))
               /\ UNCHANGED request
          ELSE LET s == CHOOSE x \in SourcesOf(m, key) : TRUE
                   c == NewCall(tool, m, s, NormalizedPath(RequestedPath(tool, s, raw)).parts, limit)
               IN  IF tool \in PathTools THEN Asks(c, "first_stat", StatRequest(c))
                   ELSE Asks(c, "result", NameRequest("container_detail", s.target))
  BY DEF BeginSourceTool
<1>2. PICK key :
       /\ IF ToolError(tool, m, key, raw) # ""
          THEN EndsWith(NewCall(tool, m, << >>, << >>, limit), Failed(ToolError(tool, m, key, raw)))
               /\ UNCHANGED request
          ELSE LET s == CHOOSE x \in SourcesOf(m, key) : TRUE
                   c == NewCall(tool, m, s, NormalizedPath(RequestedPath(tool, s, raw)).parts, limit)
               IN  IF tool \in PathTools THEN Asks(c, "first_stat", StatRequest(c))
                   ELSE Asks(c, "result", NameRequest("container_detail", s.target))
  BY <1>1
<1>3. request = NoRequest
  BY DEF BeginSourceTool, ProtocolInv, IsRequest, NoCall, Asked
<1>4. tool \in Tools
  BY DEF Tools
<1>5. CASE ToolError(tool, m, key, raw) # ""
  <2>1. PICK c : c = NewCall(tool, m, << >>, << >>, limit)
    OBVIOUS
  <2>2. DOMAIN c = CallFields /\ c.tool = tool
    BY <2>1 DEF NewCall, CallFields
  <2>3. EndsWith(c, Failed(ToolError(tool, m, key, raw))) /\ request' = NoRequest
    BY <1>2, <1>3, <1>5, <2>1
  <2> QED BY <1>4, <2>2, <2>3, EndKeeps
<1>6. CASE ToolError(tool, m, key, raw) = ""
  <2>1. PICK s, parts, c :
          /\ s = CHOOSE x \in SourcesOf(m, key) : TRUE
          /\ parts = NormalizedPath(RequestedPath(tool, s, raw)).parts
          /\ c = NewCall(tool, m, s, parts, limit)
    OBVIOUS
  <2>2. IF tool \in PathTools THEN Asks(c, "first_stat", StatRequest(c))
                   ELSE Asks(c, "result", NameRequest("container_detail", s.target))
    BY <1>2, <1>6, <2>1
  <2>3. DOMAIN c = CallFields /\ c.tool = tool /\ c.parts = parts /\ c.source = s
    BY <2>1 DEF NewCall, CallFields
  <2>4. tool \in PathTools => Checked(c)
    <3>1. s.target \in Name /\ (tool \in PathTools =>
              parts \in Seq(STRING) /\ NoDots(parts) /\ PathIsAllowed(s, parts))
      BY <1>6, <2>1, SourceFound
    <3> QED BY <2>3, <3>1 DEF Checked
  <2>5. CASE tool \in PathTools
    <3>1. Asks(c, "first_stat", StatRequest(c)) /\ "first_stat" \in Waiting
      BY <2>2, <2>5 DEF Waiting
    <3>2. /\ DOMAIN StatRequest(c) = RequestFields /\ StatRequest(c).op = "container_path_stat"
          /\ OfItsPath(c, StatRequest(c))
      BY PathRequestIs DEF StatRequest
    <3>3. Asked([c EXCEPT !.at = "first_stat"], StatRequest(c))
      BY <2>3, <2>5, <3>2 DEF Asked, CallFields
    <3> QED BY <1>4, <2>3, <2>4, <3>1, <3>2, <3>3, AskKeeps
  <2>6. CASE tool \notin PathTools
    <3>1. Asks(c, "result", NameRequest("container_detail", s.target)) /\ "result" \in Waiting
      BY <2>2, <2>6 DEF Waiting
    <3>2. PICK r : r = NameRequest("container_detail", s.target)
      OBVIOUS
    <3>3. /\ DOMAIN r = RequestFields /\ r.op = "container_detail"
      BY <3>2, NameRequestIs
    <3>4. tool = "inspect_container_detail"
      BY <2>6 DEF SourceTools
    <3>5. Asked([c EXCEPT !.at = "result"], r) /\ OfItsPath(c, r)
      BY <2>3, <3>3, <3>4 DEF Asked, OfItsPath, PathOperations, CallFields
    <3> QED BY <1>4, <2>3, <2>4, <3>1, <3>2, <3>3, <3>4, <3>5, AskKeeps
  <2> QED BY <2>5, <2>6
<1> QED BY <1>5, <1>6

LEMMA ListingBegins ==
  ASSUME ProtocolInv, BeginListing
  PROVE  ProtocolInv'
<1>1. PICK tool, m, filters, c, r :
       /\ tool \in ListingTools \union ComposeTools
       /\ c = [NewCall(tool, IF tool \in ListingTools THEN << >> ELSE m, << >>, << >>, 0) EXCEPT
                   !.filters = filters]
       /\ r = [NameRequest(IF tool = "inspect_vps_volumes" THEN "vps_volumes_inventory"
                                ELSE "vps_containers_inventory", 0) EXCEPT !.filters = filters]
       /\ Asks(c, "rows", r)
  BY DEF BeginListing
<1>2. /\ DOMAIN c = CallFields /\ c.tool = tool
  BY <1>1 DEF NewCall, CallFields
<1>3. /\ DOMAIN r = RequestFields
      /\ r.op = IF tool = "inspect_vps_volumes" THEN "vps_volumes_inventory"
                                ELSE "vps_containers_inventory"
  BY <1>1, NameRequestIs DEF RequestFields
<1>4. tool \in Tools /\ tool \notin PathTools /\ "rows" \in Waiting
      /\ (tool = "inspect_vps_volumes" \/ tool \in ComposeTools \union {"inspect_vps_containers"})
  BY <1>1 DEF Tools, ListingTools, ComposeTools, PathTools, Waiting
<1>5. Asked([c EXCEPT !.at = "rows"], r)
  BY <1>2, <1>3, <1>4 DEF Asked, CallFields
<1>6. OfItsPath(c, r)
  BY <1>3 DEF OfItsPath, PathOperations
<1> QED BY <1>1, <1>2, <1>3, <1>4, <1>5, <1>6, AskKeeps

LEMMA HealthBegins ==
  ASSUME ProtocolInv, BeginHealth
  PROVE  ProtocolInv'
<1>1. PICK m, c :
       /\ c = [NewCall("inspect_containers_health", m, << >>, << >>, 0) EXCEPT
                   !.todo = [i \in DOMAIN DockerSources(m.sources) |-> DockerSources(m.sources)[i].target]]
       /\ IF c.todo = << >> THEN EndsWith(c, Result(<< >>)) /\ UNCHANGED request
           ELSE Asks(c, "each", NameRequest("container_health", Head(c.todo)))
  BY DEF BeginHealth
<1>2. DOMAIN c = CallFields /\ c.tool = "inspect_containers_health"
  BY <1>1 DEF NewCall, CallFields
<1>3. request = NoRequest
  BY DEF BeginHealth, ProtocolInv, IsRequest, NoCall, Asked
<1>4. c.tool \in Tools /\ c.tool \notin PathTools /\ "each" \in Waiting
  BY <1>2 DEF Tools, PathTools, Waiting
<1>5. CASE c.todo = << >>
  BY <1>1, <1>2, <1>3, <1>4, <1>5, EndKeeps
<1>6. CASE c.todo # << >>
  <2>1. PICK r : r = NameRequest("container_health", Head(c.todo))
    OBVIOUS
  <2>2. DOMAIN r = RequestFields /\ r.op = "container_health"
    BY <2>1, NameRequestIs
  <2>3. Asked([c EXCEPT !.at = "each"], r) /\ OfItsPath(c, r)
    BY <1>2, <2>2 DEF Asked, OfItsPath, PathOperations, CallFields
  <2>4. Asks(c, "each", r)
    BY <1>1, <1>6, <2>1
  <2> QED BY <1>2, <1>4, <2>2, <2>3, <2>4, AskKeeps
<1> QED BY <1>5, <1>6

\* A call that waits.
LEMMA WaitingCall ==
  ASSUME ProtocolInv, request # NoRequest
  PROVE  /\ DOMAIN call = CallFields /\ call.tool \in Tools /\ call.at \in Waiting
         /\ call.tool \in PathTools => Checked(call)
         /\ DOMAIN request = RequestFields /\ Asked(call, request) /\ OfItsPath(call, request)
<1>1. DOMAIN request = RequestFields /\ Asked(call, request) /\ OfItsPath(call, request)
  BY DEF ProtocolInv, IsRequest
<1>2. call.at \in Waiting
  BY <1>1 DEF Asked, Waiting
<1>3. call # NoCall
  BY <1>2 DEF NoCall, Waiting
<1> QED BY <1>1, <1>2, <1>3 DEF ProtocolInv, IsCall, Waiting

LEMMA LimitOf ==
  ASSUME ProtocolInv, call.at = "second_stat", call.tool = "read_container_file"
  PROVE  ~ (call.limit < 1)
BY DEF ProtocolInv, IsCall, NoCall

LEMMA ResultTaken ==
  ASSUME ProtocolInv, NEW reply, TakeResult(reply)
  PROVE  ProtocolInv'
BY WaitingCall, EndKeeps DEF TakeResult, Waits

LEMMA FirstStatTaken ==
  ASSUME ProtocolInv, NEW reply, TakeFirstStat(reply)
  PROVE  ProtocolInv'
<1>1. /\ DOMAIN call = CallFields /\ call.tool \in Tools /\ call.at = "first_stat"
      /\ (call.tool \in PathTools => Checked(call)) /\ Asked(call, request)
  BY WaitingCall DEF TakeFirstStat, Waits
<1>2. CASE EndsWith(call, reply) /\ request' = NoRequest
  BY <1>1, <1>2, EndKeeps
<1>3. CASE ReadAfterStat(reply.result)
  <2>1. CASE call.limit < 1
    BY <1>1, <1>3, <2>1, EndKeeps DEF ReadAfterStat
  <2>2. CASE ~ (call.limit < 1)
    <3>1. PICK c : c = [call EXCEPT !.got = << reply.result >>]
      OBVIOUS
    <3>2. DOMAIN c = CallFields /\ c.tool = "read_container_file" /\ c.parts = call.parts
          /\ c.source = call.source /\ c.limit = call.limit
      BY <1>1, <1>3, <3>1 DEF ReadAfterStat, CallFields
    <3>3. Checked(c) /\ c.tool \in Tools /\ "second_stat" \in Waiting
      BY <1>1, <1>3, <3>2 DEF ReadAfterStat, Checked, Waiting, PathTools
    <3>4. Asks(c, "second_stat", StatRequest(call))
      BY <1>3, <2>2, <3>1 DEF ReadAfterStat
    <3>5. DOMAIN StatRequest(call) = RequestFields /\ StatRequest(call).op = "container_path_stat"
          /\ OfItsPath(call, StatRequest(call))
      BY PathRequestIs DEF StatRequest
    <3>6. OfItsPath(c, StatRequest(call))
      BY <3>2, <3>5 DEF OfItsPath
    <3>7. Asked([c EXCEPT !.at = "second_stat"], StatRequest(call))
      BY <3>2, <3>5 DEF Asked, CallFields
    <3> QED BY <2>2, <3>2, <3>3, <3>4, <3>5, <3>6, <3>7, AskKeeps
  <2> QED BY <2>1, <2>2
<1>4. CASE ListAfterStat(reply.result)
  <2>1. PICK r : r = PathRequest(call, "container_directory_list")
    OBVIOUS
  <2>2. DOMAIN r = RequestFields /\ r.op = "container_directory_list" /\ OfItsPath(call, r)
    BY <2>1, PathRequestIs
  <2>3. call.tool = "list_container_directory" /\ "result" \in Waiting
    BY <1>4 DEF ListAfterStat, Waiting
  <2>4. Asked([call EXCEPT !.at = "result"], r)
    BY <1>1, <2>2, <2>3 DEF Asked, CallFields
  <2>5. CASE Asks(call, "result", r)
    BY <1>1, <2>2, <2>3, <2>4, <2>5, AskKeeps
  <2>6. CASE request' = NoRequest /\ \E answer : EndsWith(call, answer)
    BY <1>1, <2>6, EndKeeps
  <2> QED BY <1>4, <2>1, <2>5, <2>6 DEF ListAfterStat
<1> QED BY <1>2, <1>3, <1>4 DEF TakeFirstStat

LEMMA SecondStatTaken ==
  ASSUME ProtocolInv, NEW reply, TakeSecondStat(reply)
  PROVE  ProtocolInv'
<1>1. /\ DOMAIN call = CallFields /\ call.tool \in Tools /\ call.at = "second_stat"
      /\ (call.tool \in PathTools => Checked(call)) /\ Asked(call, request)
  BY WaitingCall DEF TakeSecondStat, Waits
<1>2. call.tool = "read_container_file"
  BY <1>1 DEF Asked
<1>3. PICK r : r = PathRequest(call, "container_file_read")
  OBVIOUS
<1>4. DOMAIN r = RequestFields /\ r.op = "container_file_read" /\ OfItsPath(call, r)
  BY <1>3, PathRequestIs
<1>5. CASE Asks(call, "result", r)
  <2>1. Asked([call EXCEPT !.at = "result"], r) /\ "result" \in Waiting
    BY <1>1, <1>2, <1>4 DEF Asked, CallFields, Waiting
  <2> QED BY <1>1, <1>2, <1>4, <1>5, <2>1, LimitOf, AskKeeps
<1>6. CASE request' = NoRequest /\ \E answer : EndsWith(call, answer)
  BY <1>1, <1>6, EndKeeps
<1> QED BY <1>3, <1>5, <1>6 DEF TakeSecondStat

LEMMA HealthTaken ==
  ASSUME ProtocolInv, NEW reply, TakeHealth(reply)
  PROVE  ProtocolInv'
<1>1. PICK c : 
        /\ c = [call EXCEPT !.got = Append(@, HealthItem(reply, Head(call.todo))),
                           !.todo = Tail(@)]
        /\ IF c.todo = << >> THEN EndsWith(c, Result(c.got)) /\ request' = NoRequest
           ELSE Asks(c, "each", NameRequest("container_health", Head(c.todo)))
  BY DEF TakeHealth
<1>2. DOMAIN call = CallFields /\ call.tool = "inspect_containers_health"
  BY WaitingCall DEF TakeHealth, Waits
<1>3. DOMAIN c = CallFields /\ c.tool = "inspect_containers_health"
  BY <1>1, <1>2 DEF CallFields
<1>4. c.tool \in Tools /\ c.tool \notin PathTools /\ "each" \in Waiting
  BY <1>3 DEF Tools, PathTools, Waiting
<1>5. CASE c.todo = << >>
  BY <1>1, <1>3, <1>4, <1>5, EndKeeps
<1>6. CASE c.todo # << >>
  <2>1. PICK r : r = NameRequest("container_health", Head(c.todo))
    OBVIOUS
  <2>2. DOMAIN r = RequestFields /\ r.op = "container_health"
    BY <2>1, NameRequestIs
  <2>3. Asked([c EXCEPT !.at = "each"], r) /\ OfItsPath(c, r)
    BY <1>3, <2>2 DEF Asked, OfItsPath, PathOperations, CallFields
  <2>4. Asks(c, "each", r)
    BY <1>1, <1>6, <2>1
  <2> QED BY <1>3, <1>4, <2>2, <2>3, <2>4, AskKeeps
<1> QED BY <1>5, <1>6

\* One more container of a runtime inspection is asked about.
LEMMA NextDetail ==
  ASSUME NEW c, DOMAIN c = CallFields, c.tool = "inspect_project_runtime", NEW n,
         Asks(c, "each", NameRequest("container_detail", n))
  PROVE  ProtocolInv'
<1>1. PICK r : r = NameRequest("container_detail", n)
  OBVIOUS
<1>2. DOMAIN r = RequestFields /\ r.op = "container_detail"
  BY <1>1, NameRequestIs
<1>3. Asked([c EXCEPT !.at = "each"], r) /\ OfItsPath(c, r)
  BY <1>2 DEF Asked, OfItsPath, PathOperations, CallFields
<1>4. c.tool \in Tools /\ c.tool \notin PathTools /\ "each" \in Waiting
  BY DEF Tools, ComposeTools, PathTools, Waiting
<1> QED BY <1>1, <1>2, <1>3, <1>4, AskKeeps

LEMMA RowsTaken ==
  ASSUME ProtocolInv, NEW reply, TakeRows(reply)
  PROVE  ProtocolInv'
<1>1. PICK c, names :
        /\ c = [call EXCEPT !.rows = reply.result.rows]
        /\ names = SelectedRows(c.rows, Expected)
        /\ \/ ~reply.ok /\ EndsWith(call, reply) /\ request' = NoRequest
           \/ /\ reply.ok /\ call.tool \in ListingTools
              /\ EndsWith(call, Result(ListingResult(reply.result.rows))) /\ request' = NoRequest
           \/ /\ reply.ok /\ call.tool \in ComposeTools /\ ComposeUnavailable
              /\ EndsWith(call, Failed("no_compose_selectors")) /\ request' = NoRequest
           \/ /\ reply.ok /\ call.tool = "inspect_project_compose_state" /\ ~ComposeUnavailable
              /\ EndsWith(c, Result(ComposeWarnings(c.rows, Expected))) /\ request' = NoRequest
           \/ /\ reply.ok /\ call.tool = "inspect_project_deployment" /\ ~ComposeUnavailable
              /\ call' = [c EXCEPT !.at = "look_tag"] /\ request' = NoRequest
           \/ /\ reply.ok /\ call.tool = "inspect_project_runtime" /\ ~ComposeUnavailable
              /\ IF names = << >>
                 THEN EndsWith(c, Result(RuntimeRows(c.rows, Expected, << >>))) /\ request' = NoRequest
                 ELSE Asks([c EXCEPT !.todo = [i \in DOMAIN names |-> names[i].name]], "each",
                           NameRequest("container_detail", names[1].name))
  BY DEF TakeRows
<1>2. DOMAIN call = CallFields /\ call.tool \in Tools /\ DOMAIN c = CallFields /\ c.tool = call.tool
  BY <1>1, WaitingCall DEF TakeRows, Waits, CallFields
<1>3. CASE request' = NoRequest /\ \E answer : EndsWith(call, answer) \/ EndsWith(c, answer)
  BY <1>2, <1>3, EndKeeps
<1>4. CASE /\ call.tool = "inspect_project_deployment"
           /\ call' = [c EXCEPT !.at = "look_tag"] /\ request' = NoRequest
  <2>1. DOMAIN call' = CallFields /\ call'.tool = "inspect_project_deployment" /\ call'.at = "look_tag"
    BY <1>2, <1>4 DEF CallFields
  <2>2. IsCall(call') /\ IsRequest(call', request')
    BY <1>4, <2>1 DEF IsCall, IsRequest, Waiting, Tools, ComposeTools, PathTools
  <2> QED BY <2>2 DEF ProtocolInv
<1>5. CASE /\ call.tool = "inspect_project_runtime"
           /\ Asks([c EXCEPT !.todo = [i \in DOMAIN names |-> names[i].name]], "each",
                           NameRequest("container_detail", names[1].name))
  <2>1. PICK d : d = [c EXCEPT !.todo = [i \in DOMAIN names |-> names[i].name]]
    OBVIOUS
  <2>2. DOMAIN d = CallFields /\ d.tool = "inspect_project_runtime"
    BY <1>2, <1>5, <2>1 DEF CallFields
  <2> QED BY <1>5, <2>1, <2>2, NextDetail
<1> QED BY <1>1, <1>3, <1>4, <1>5

LEMMA DetailTaken ==
  ASSUME ProtocolInv, NEW reply, TakeDetail(reply)
  PROVE  ProtocolInv'
<1>1. PICK c, details :
        /\ c = [call EXCEPT !.todo = Tail(@), !.got = IF reply.ok THEN Append(@, reply.result) ELSE @]
        /\ IF c.todo = << >>
           THEN EndsWith(c, Result(RuntimeRows(c.rows, Expected, details))) /\ request' = NoRequest
           ELSE Asks(c, "each", NameRequest("container_detail", Head(c.todo)))
  BY DEF TakeDetail
<1>2. DOMAIN call = CallFields /\ call.tool = "inspect_project_runtime"
  BY WaitingCall DEF TakeDetail, Waits
<1>3. DOMAIN c = CallFields /\ c.tool = "inspect_project_runtime" /\ c.tool \in Tools
  BY <1>1, <1>2 DEF CallFields, Tools, ComposeTools
<1>4. CASE c.todo = << >>
  BY <1>1, <1>3, <1>4, EndKeeps
<1>5. CASE c.todo # << >>
  BY <1>1, <1>3, <1>5, NextDetail
<1> QED BY <1>4, <1>5

LEMMA ReplyProtocol ==
  ASSUME ProtocolInv, NEW reply, Replies(reply)
  PROVE  ProtocolInv'
BY ResultTaken, FirstStatTaken, SecondStatTaken, HealthTaken, RowsTaken, DetailTaken DEF Replies

\* What one step of the app leaves of the request.
LEMMA AppKeepsRequest ==
  ASSUME ProtocolInv, AppRuns
  PROVE  /\ request # NoRequest /\ DOMAIN request' = RequestFields
         /\ request'.op = request.op /\ request'.name = request.name
         /\ request'.path = request.path /\ request'.limit = request.limit
         /\ request'.filters = request.filters
         /\ UNCHANGED << containers, tree, events, tagFile >>
<1>1. request # NoRequest /\ UNCHANGED << containers, tree, events, tagFile >>
  <2>1. UNCHANGED tagFile
    BY DEF AppRuns
  <2>2. CASE AppInspects \/ AppListsContainers \/ AppListsVolumes \/ DockerFails
    BY <2>1, <2>2 DEF AppInspects, AppListsContainers, AppListsVolumes, DockerFails, hostVars, NoRequest
  <2>3. CASE AppStats \/ AppFinds \/ AppPrintsFile \/ AppPrintsDirectory
    <3>1. request.op \in PathOperations /\ UNCHANGED << containers, tree, events >>
      BY <2>3 DEF AppStats, AppFinds, AppPrintsFile, AppPrintsDirectory, hostVars, PathOperations
    <3> QED BY <2>1, <3>1 DEF NoRequest, PathOperations
  <2> QED BY <2>2, <2>3 DEF AppRuns, AppStep
<1>2. DOMAIN request = RequestFields
  BY <1>1, WaitingCall
<1>3. \/ \E reply : Answer(reply)
      \/ request' = [request EXCEPT !.at = "typed"]
      \/ \E found : request' = [request EXCEPT !.at = "found", !.matched = found]
  <2>1. CASE AppStats
    BY <2>1 DEF AppStats
  <2>2. CASE AppFinds
    BY <2>2 DEF AppFinds
  <2>3. CASE AppInspects \/ AppListsContainers \/ AppListsVolumes \/ AppPrintsFile
             \/ AppPrintsDirectory \/ DockerFails
    BY <2>3 DEF AppInspects, AppListsContainers, AppListsVolumes, AppPrintsFile,
                AppPrintsDirectory, DockerFails
  <2> QED BY <2>1, <2>2, <2>3 DEF AppRuns, AppStep
<1> QED BY <1>1, <1>2, <1>3 DEF Answer, RequestFields

LEMMA AppProtocol ==
  ASSUME ProtocolInv, AppRuns
  PROVE  ProtocolInv'
<1>1. PICK note, when, c : c = [call EXCEPT !.seen = note, !.since = when] /\ call' = c
  BY DEF AppRuns
<1>2. PICK r : r = request'
  OBVIOUS
<1>3. /\ request # NoRequest /\ DOMAIN r = RequestFields /\ r.op = request.op
      /\ r.name = request.name /\ r.path = request.path /\ r.limit = request.limit
  BY <1>2, AppKeepsRequest
<1>4. DOMAIN call = CallFields /\ call # NoCall /\ Asked(call, request) /\ OfItsPath(call, request)
  BY <1>3, WaitingCall DEF CallFields, NoCall
<1>5. DOMAIN c = CallFields /\ c.tool = call.tool /\ c.at = call.at /\ c.parts = call.parts
      /\ c.source = call.source /\ c.limit = call.limit
  BY <1>1, <1>4 DEF CallFields
<1>6. IsCall(c)
  BY <1>4, <1>5 DEF ProtocolInv, IsCall, Checked
<1>7. IsRequest(c, r)
  BY <1>3, <1>4, <1>5 DEF IsRequest, Asked, OfItsPath
<1>8. IsCall(call') /\ IsRequest(call', request')
  BY <1>1, <1>2, <1>6, <1>7
<1> QED BY <1>8 DEF ProtocolInv

LEMMA RestProtocol ==
  ASSUME ProtocolInv, OthersChange \/ LookForTag \/ ReadTag \/ Return \/ UNCHANGED vars
  PROVE  ProtocolInv'
<1>1. CASE OthersChange \/ UNCHANGED vars
  <2>1. UNCHANGED << call, request >>
    BY <1>1 DEF OthersChange, HostChanges, ReplaceTagFile, vars, appVars
  <2> QED BY <2>1 DEF ProtocolInv
<1>2. CASE LookForTag \/ ReadTag
  <2>1. call.at \in {"look_tag", "read_tag"} /\ UNCHANGED request
    BY <1>2 DEF LookForTag, ReadTag, appVars
  <2>2. DOMAIN call = CallFields /\ call.tool = "inspect_project_deployment" /\ request = NoRequest
    BY <2>1 DEF ProtocolInv, IsCall, IsRequest, NoCall, Asked
  <2>3. call.tool \in Tools
    BY <2>2 DEF Tools, ComposeTools
  <2>4. CASE \E answer : EndsWith(call, answer)
    BY <2>1, <2>2, <2>3, <2>4, EndKeeps
  <2>5. CASE call' = [call EXCEPT !.at = "read_tag"]
    <3>1. DOMAIN call' = CallFields /\ call'.tool = call.tool /\ call'.at = "read_tag"
      BY <2>2, <2>5 DEF CallFields
    <3>2. IsCall(call') /\ IsRequest(call', request')
      BY <2>1, <2>2, <2>3, <3>1 DEF IsCall, IsRequest, Waiting, PathTools
    <3> QED BY <3>2 DEF ProtocolInv
  <2>6. (\E answer : EndsWith(call, answer)) \/ call' = [call EXCEPT !.at = "read_tag"]
    <3>1. CASE LookForTag
      BY <3>1 DEF LookForTag, EndDeployment
    <3>2. CASE ReadTag
      BY <3>2 DEF ReadTag, EndDeployment
    <3> QED BY <1>2, <3>1, <3>2
  <2> QED BY <2>4, <2>5, <2>6
<1>3. CASE Return
  <2>1. call' = NoCall /\ request' = request /\ call.at = "ended"
    BY <1>3 DEF Return, appVars
  <2>2. request = NoRequest
    BY <2>1 DEF ProtocolInv, IsRequest, Asked
  <2>3. IsCall(NoCall) /\ IsRequest(NoCall, NoRequest)
    BY DEF IsCall, IsRequest, NoCall, Waiting
  <2> QED BY <2>1, <2>2, <2>3 DEF ProtocolInv
<1> QED BY <1>1, <1>2, <1>3

LEMMA ProtocolStep ==
  ASSUME ProtocolInv, [Next]_vars
  PROVE  ProtocolInv'
<1>1. CASE BeginSourceTool
  BY <1>1, SourceToolBegins
<1>2. CASE BeginListing
  BY <1>2, ListingBegins
<1>3. CASE BeginHealth
  BY <1>3, HealthBegins
<1>4. CASE Replied \/ TimeOut \/ AppIsDown
  BY <1>4, ReplyProtocol DEF Replied, TimeOut, AppIsDown
<1>5. CASE AppRuns
  BY <1>5, AppProtocol
<1>6. CASE OthersChange \/ LookForTag \/ ReadTag \/ Return \/ UNCHANGED vars
  BY <1>6, RestProtocol
<1> QED BY <1>1, <1>2, <1>3, <1>4, <1>5, <1>6 DEF Next, ClientStep

\* The protocol between a tool and the socket app holds at every step.
THEOREM Protocol == Spec => []ProtocolInv
<1>1. InspectionInit => ProtocolInv
  BY DEF InspectionInit, ProtocolInv, IsCall, IsRequest, NoCall, Waiting
<1>2. ProtocolInv /\ [Next]_vars => ProtocolInv'
  BY ProtocolStep
<1> QED BY <1>1, <1>2, PTL DEF Spec

-----------------------------------------------------------------------------
(* What the steps leave alone.                                             *)

\* What does not change while a call runs.
SameCall(c, d) ==
  /\ DOMAIN c = CallFields /\ DOMAIN d = CallFields
  /\ d.tool = c.tool /\ d.manifest = c.manifest /\ d.source = c.source /\ d.parts = c.parts
  /\ d.limit = c.limit /\ d.filters = c.filters /\ d.seen = c.seen /\ d.since = c.since

Fresh(r) == r = NoRequest \/ r.at = "received"

LEMMA NewCallIs ==
  ASSUME NEW tool, NEW m, NEW source, NEW parts, NEW limit, NEW c,
         c = NewCall(tool, m, source, parts, limit)
  PROVE  /\ DOMAIN c = CallFields /\ c.tool = tool /\ c.manifest = m /\ c.source = source
         /\ c.parts = parts /\ c.limit = limit /\ c.at = "begun" /\ c.since = 0
         /\ c.todo = << >> /\ c.got = << >> /\ c.rows = << >> /\ c.seen = << >>
BY DEF NewCall, CallFields

LEMMA EndSame ==
  ASSUME NEW c, SameCall(call, c), NEW answer, EndsWith(c, answer)
  PROVE  SameCall(call, call') /\ call'.at = "ended" /\ call'.answer = answer /\ call'.rows = c.rows
         /\ call'.got = c.got /\ call'.todo = c.todo
BY DEF EndsWith, SameCall, CallFields

LEMMA AskSame ==
  ASSUME NEW c, SameCall(call, c), NEW at, NEW req, Asks(c, at, req)
  PROVE  SameCall(call, call') /\ call'.at = at /\ call'.rows = c.rows /\ request' = req
         /\ call'.got = c.got /\ call'.todo = c.todo
BY DEF Asks, SameCall, CallFields

LEMMA RepliesSame ==
  ASSUME ProtocolInv, NEW reply, Replies(reply)
  PROVE  /\ SameCall(call, call') /\ Fresh(request')
         /\ UNCHANGED << containers, tree, events, tagFile >>
<1>1. DOMAIN call = CallFields /\ SameCall(call, call)
  BY WaitingCall DEF SameCall, Replies, TakeResult, TakeFirstStat, TakeSecondStat, TakeHealth,
     TakeRows, TakeDetail, Waits
<1>2. UNCHANGED << containers, tree, events, tagFile >>
  BY DEF Replies, TakeResult, TakeFirstStat, TakeSecondStat, TakeHealth, TakeRows, TakeDetail, hostVars
<1>3. \A op, n : Fresh(NameRequest(op, n)) /\ Fresh(PathRequest(call, op)) /\ Fresh(NoRequest)
  BY NameRequestIs, PathRequestIs DEF Fresh
<1>4. \E c : /\ SameCall(call, c)
             /\ \/ request' = NoRequest /\ \E answer : EndsWith(c, answer)
                \/ request' = NoRequest /\ \E at : call' = [c EXCEPT !.at = at]
                \/ \E at, op : Asks(c, at, PathRequest(call, op))
                \/ \E at, op, n : Asks(c, at, NameRequest(op, n))
  <2>1. CASE TakeResult(reply)
    BY <1>1, <2>1 DEF TakeResult
  <2>2. CASE TakeFirstStat(reply)
    <3>1. CASE ReadAfterStat(reply.result)
      <4>1. PICK c : c = [call EXCEPT !.got = << reply.result >>]
        OBVIOUS
      <4>2. SameCall(call, c)
        BY <1>1, <4>1 DEF SameCall, CallFields
      <4> QED BY <1>1, <3>1, <4>1, <4>2 DEF ReadAfterStat, StatRequest
    <3>2. CASE ListAfterStat(reply.result)
      BY <1>1, <3>2 DEF ListAfterStat
    <3> QED BY <1>1, <2>2, <3>1, <3>2 DEF TakeFirstStat
  <2>3. CASE TakeSecondStat(reply)
    BY <1>1, <2>3 DEF TakeSecondStat
  <2>4. CASE TakeHealth(reply)
    <3>1. PICK c : c = [call EXCEPT !.got = Append(@, HealthItem(reply, Head(call.todo))),
                           !.todo = Tail(@)]
      OBVIOUS
    <3>2. SameCall(call, c)
      BY <1>1, <3>1 DEF SameCall, CallFields
    <3> QED BY <2>4, <3>1, <3>2 DEF TakeHealth
  <2>5. CASE TakeRows(reply)
    <3>1. PICK c, names : c = [call EXCEPT !.rows = reply.result.rows]
                          /\ names = SelectedRows(c.rows, Expected)
      OBVIOUS
    <3>2. SameCall(call, c)
      BY <1>1, <3>1 DEF SameCall, CallFields
    <3>3. PICK d : d = [c EXCEPT !.todo = [i \in DOMAIN names |-> names[i].name]]
      OBVIOUS
    <3>4. SameCall(call, d)
      BY <3>2, <3>3 DEF SameCall, CallFields
    <3>5. /\ \/ ~reply.ok /\ EndsWith(call, reply) /\ request' = NoRequest
             \/ /\ reply.ok /\ call.tool \in ListingTools
                /\ EndsWith(call, Result(ListingResult(reply.result.rows))) /\ request' = NoRequest
             \/ /\ reply.ok /\ call.tool \in ComposeTools /\ ComposeUnavailable
                /\ EndsWith(call, Failed("no_compose_selectors")) /\ request' = NoRequest
             \/ /\ reply.ok /\ call.tool = "inspect_project_compose_state" /\ ~ComposeUnavailable
                /\ EndsWith(c, Result(ComposeWarnings(c.rows, Expected))) /\ request' = NoRequest
             \/ /\ reply.ok /\ call.tool = "inspect_project_deployment" /\ ~ComposeUnavailable
                /\ call' = [c EXCEPT !.at = "look_tag"] /\ request' = NoRequest
             \/ /\ reply.ok /\ call.tool = "inspect_project_runtime" /\ ~ComposeUnavailable
                /\ IF names = << >>
                   THEN EndsWith(c, Result(RuntimeRows(c.rows, Expected, << >>))) /\ request' = NoRequest
                   ELSE Asks(d, "each", NameRequest("container_detail", names[1].name))
      BY <2>5, <3>1, <3>3 DEF TakeRows
    <3> QED BY <1>1, <3>2, <3>4, <3>5
  <2>6. CASE TakeDetail(reply)
    <3>1. PICK c : c = [call EXCEPT !.todo = Tail(@),
                           !.got = IF reply.ok THEN Append(@, reply.result) ELSE @]
      OBVIOUS
    <3>2. SameCall(call, c)
      BY <1>1, <3>1 DEF SameCall, CallFields
    <3> QED BY <2>6, <3>1, <3>2 DEF TakeDetail
  <2> QED BY <2>1, <2>2, <2>3, <2>4, <2>5, <2>6 DEF Replies
<1>5. PICK c : /\ SameCall(call, c)
             /\ \/ request' = NoRequest /\ \E answer : EndsWith(c, answer)
                \/ request' = NoRequest /\ \E at : call' = [c EXCEPT !.at = at]
                \/ \E at, op : Asks(c, at, PathRequest(call, op))
                \/ \E at, op, n : Asks(c, at, NameRequest(op, n))
  BY <1>4
<1>6. SameCall(call, call')
  BY <1>5, EndSame, AskSame DEF SameCall, CallFields
<1>7. Fresh(request')
  BY <1>3, <1>5, AskSame
<1> QED BY <1>2, <1>6, <1>7

\* Reading the tag file does not change these either.
LEMMA TagSame ==
  ASSUME ProtocolInv, LookForTag \/ ReadTag
  PROVE  /\ SameCall(call, call') /\ call.tool = "inspect_project_deployment"
         /\ UNCHANGED << containers, tree, events, tagFile >> /\ request = NoRequest /\ request' = NoRequest
<1>1. call.at \in {"look_tag", "read_tag"}
  BY DEF LookForTag, ReadTag
<1>2. DOMAIN call = CallFields /\ call.tool = "inspect_project_deployment" /\ request = NoRequest
  BY <1>1 DEF ProtocolInv, IsCall, IsRequest, NoCall, Asked
<1>3. SameCall(call, call)
  BY <1>2 DEF SameCall
<1>4. (\E answer : EndsWith(call, answer)) \/ call' = [call EXCEPT !.at = "read_tag"]
  <2>1. CASE LookForTag
    BY <2>1 DEF LookForTag, EndDeployment
  <2>2. CASE ReadTag
    BY <2>2 DEF ReadTag, EndDeployment
  <2> QED BY <2>1, <2>2
<1>5. SameCall(call, call')
  BY <1>2, <1>3, <1>4, EndSame DEF SameCall, CallFields
<1> QED BY <1>2, <1>5 DEF LookForTag, ReadTag, appVars, hostVars

\* A call that begins.
LEMMA BegunCall ==
  ASSUME ProtocolInv, BeginSourceTool \/ BeginListing \/ BeginHealth
  PROVE  /\ call = NoCall /\ request = NoRequest /\ Fresh(request')
         /\ UNCHANGED << containers, tree, events, tagFile >>
         /\ DOMAIN call' = CallFields /\ call'.since = 0 /\ call'.limit \in Int
         /\ call'.seen = << >> /\ call'.got = << >>
         /\ call'.at = "ended" => ~call'.answer.ok \/ call'.tool = "inspect_containers_health"
<1>1. /\ call = NoCall /\ request = NoRequest /\ UNCHANGED << containers, tree, events, tagFile >>
  <2>1. call = NoCall /\ UNCHANGED << hostVars, tagFile >>
    BY DEF BeginSourceTool, BeginListing, BeginHealth
  <2>2. request = NoRequest
    BY <2>1 DEF ProtocolInv, IsRequest, NoCall, Asked
  <2> QED BY <2>1, <2>2 DEF hostVars
<1>2. \E c : /\ DOMAIN c = CallFields /\ c.since = 0 /\ c.limit \in Int /\ c.seen = << >> /\ c.got = << >>
             /\ \/ request' = NoRequest
                   /\ \E answer : EndsWith(c, answer)
                                  /\ (~answer.ok \/ c.tool = "inspect_containers_health")
                \/ \E at, req : at \in Waiting /\ Asks(c, at, req) /\ Fresh(req)
  <2>1. CASE BeginSourceTool
    <3>0. PICK tool \in SourceTools, m \in Manifest, raw \in RawPath \union {NoPath}, limit \in ByteLimit :
       \E key \in {s.key : s \in ToSet(m.sources)} \union {"unknown"} :
         /\ tool # "read_container_file" => limit = Max(ByteLimit)
         /\ tool \notin PathTools => raw = NoPath
         /\ IF ToolError(tool, m, key, raw) # ""
            THEN EndsWith(NewCall(tool, m, << >>, << >>, limit), Failed(ToolError(tool, m, key, raw)))
                 /\ UNCHANGED request
            ELSE LET s == CHOOSE x \in SourcesOf(m, key) : TRUE
                     c == NewCall(tool, m, s, NormalizedPath(RequestedPath(tool, s, raw)).parts, limit)
                 IN  IF tool \in PathTools THEN Asks(c, "first_stat", StatRequest(c))
                     ELSE Asks(c, "result", NameRequest("container_detail", s.target))
      BY <2>1 DEF BeginSourceTool
    <3>1. PICK key :
           IF ToolError(tool, m, key, raw) # ""
           THEN EndsWith(NewCall(tool, m, << >>, << >>, limit), Failed(ToolError(tool, m, key, raw)))
                /\ UNCHANGED request
           ELSE LET s == CHOOSE x \in SourcesOf(m, key) : TRUE
                    c == NewCall(tool, m, s, NormalizedPath(RequestedPath(tool, s, raw)).parts, limit)
                IN  IF tool \in PathTools THEN Asks(c, "first_stat", StatRequest(c))
                    ELSE Asks(c, "result", NameRequest("container_detail", s.target))
      BY <3>0
    <3>2. limit \in Int
      BY InspectionAssumption
    <3>3. CASE ToolError(tool, m, key, raw) # ""
      <4>1. PICK c, answer : c = NewCall(tool, m, << >>, << >>, limit)
                             /\ answer = Failed(ToolError(tool, m, key, raw))
        OBVIOUS
      <4>2. DOMAIN c = CallFields /\ c.since = 0 /\ c.limit \in Int /\ c.seen = << >> /\ c.got = << >>
        BY <3>2, <4>1 DEF NewCall, CallFields
      <4>3. ~answer.ok
        BY <4>1 DEF Failed
      <4> QED BY <1>1, <3>1, <3>3, <4>1, <4>2, <4>3
    <3>4. CASE ToolError(tool, m, key, raw) = ""
      <4>1. PICK s, c : s = (CHOOSE x \in SourcesOf(m, key) : TRUE)
               /\ c = NewCall(tool, m, s, NormalizedPath(RequestedPath(tool, s, raw)).parts, limit)
        OBVIOUS
      <4>2. DOMAIN c = CallFields /\ c.since = 0 /\ c.limit \in Int /\ c.seen = << >> /\ c.got = << >>
        BY <3>2, <4>1 DEF NewCall, CallFields
      <4>3. \/ Asks(c, "first_stat", StatRequest(c))
            \/ Asks(c, "result", NameRequest("container_detail", s.target))
        BY <3>1, <3>4, <4>1
      <4>4. Fresh(StatRequest(c)) /\ Fresh(NameRequest("container_detail", s.target))
        BY NameRequestIs, PathRequestIs DEF Fresh, StatRequest
      <4>5. "first_stat" \in Waiting /\ "result" \in Waiting
        BY DEF Waiting
      <4> QED BY <4>2, <4>3, <4>4, <4>5
    <3> QED BY <3>3, <3>4
  <2>2. CASE BeginListing
    <3>1. PICK tool, m, filters, b, c, op, r :
         /\ b = NewCall(tool, m, << >>, << >>, 0)
         /\ c = [b EXCEPT !.filters = filters]
         /\ r = [NameRequest(op, 0) EXCEPT !.filters = filters]
         /\ Asks(c, "rows", r)
      BY <2>2 DEF BeginListing
    <3>4. DOMAIN b = CallFields /\ b.since = 0 /\ b.limit = 0 /\ b.seen = << >> /\ b.got = << >>
      BY <3>1, NewCallIs
    <3>2. DOMAIN c = CallFields /\ c.since = 0 /\ c.limit \in Int /\ c.seen = << >> /\ c.got = << >>
      BY <3>1, <3>4 DEF CallFields
    <3>3. Fresh(r) /\ "rows" \in Waiting
      BY <3>1 DEF Fresh, NameRequest, NewRequest, Waiting
    <3> QED BY <3>1, <3>2, <3>3
  <2>3. CASE BeginHealth
    <3>1. PICK m, todo, b, c :
         /\ b = NewCall("inspect_containers_health", m, << >>, << >>, 0)
         /\ c = [b EXCEPT !.todo = todo]
         /\ IF c.todo = << >> THEN EndsWith(c, Result(<< >>)) /\ UNCHANGED request
            ELSE Asks(c, "each", NameRequest("container_health", Head(c.todo)))
      BY <2>3 DEF BeginHealth
    <3>4. DOMAIN b = CallFields /\ b.since = 0 /\ b.limit = 0 /\ b.seen = << >> /\ b.got = << >>
          /\ b.tool = "inspect_containers_health"
      BY <3>1, NewCallIs
    <3>2. DOMAIN c = CallFields /\ c.since = 0 /\ c.limit \in Int /\ c.seen = << >> /\ c.got = << >>
          /\ c.tool = "inspect_containers_health"
      BY <3>1, <3>4 DEF CallFields
    <3>3. Fresh(NameRequest("container_health", Head(c.todo))) /\ "each" \in Waiting
      BY NameRequestIs DEF Fresh, Waiting
    <3> QED BY <1>1, <3>1, <3>2, <3>3
  <2> QED BY <2>1, <2>2, <2>3
<1>3. PICK c : /\ DOMAIN c = CallFields /\ c.since = 0 /\ c.limit \in Int /\ c.seen = << >> /\ c.got = << >>
             /\ \/ request' = NoRequest
                   /\ \E answer : EndsWith(c, answer)
                                  /\ (~answer.ok \/ c.tool = "inspect_containers_health")
                \/ \E at, req : at \in Waiting /\ Asks(c, at, req) /\ Fresh(req)
  BY <1>2
<1>4. CASE request' = NoRequest
                   /\ \E answer : EndsWith(c, answer)
                                  /\ (~answer.ok \/ c.tool = "inspect_containers_health")
  BY <1>1, <1>3, <1>4 DEF EndsWith, CallFields, Fresh
<1>5. CASE \E at, req : at \in Waiting /\ Asks(c, at, req) /\ Fresh(req)
  BY <1>1, <1>3, <1>5 DEF Asks, CallFields, Waiting
<1> QED BY <1>3, <1>4, <1>5

-----------------------------------------------------------------------------
(* The host.                                                               *)

ContainerFields == {"name", "id", "project", "service", "running", "repo", "tag"}
IsContainer(n, k) ==
  DOMAIN k = ContainerFields /\ k.name = n /\ k.id \in Nat /\ k.running \in BOOLEAN

\* Each path has an entry with a size, and a target to follow if it is a link.
TreeIs(t) ==
  DOMAIN t = Path /\ \A p \in Path : t[p].size \in Nat /\ t[p].target \in Seq(STRING)

\* Containers and files are well formed, and no container is from the future.
HostInv ==
  /\ events \in Nat
  /\ TreeIs(tree)
  /\ DOMAIN containers = Name
  /\ \A n \in Present(containers) : IsContainer(n, containers[n]) /\ containers[n].id < events + 10

LEMMA FieldsOf ==
  ASSUME NEW K, NEW S, NEW e \in [kind : K, version : Nat, size : Nat, text : BOOLEAN,
                                  readable : BOOLEAN, target : S]
  PROVE  e.size \in Nat /\ e.target \in S
OBVIOUS

LEMMA ImageTreeIs == TreeIs(ImageTree)
<1>1. PICK E, K, S :
        /\ K = STRING /\ S = Seq(STRING)
        /\ E = [kind : K, version : Nat, size : Nat, text : BOOLEAN, readable : BOOLEAN, target : S]
  OBVIOUS
<1>2. ImageTree \in [Path -> E]
  BY <1>1, SocketAppAssumption
<1>3. \A p \in Path : ImageTree[p] \in E
  BY <1>2
<1>4. \A e \in E : e.size \in Nat /\ e.target \in S
  BY <1>1, FieldsOf
<1> QED BY <1>1, <1>2, <1>3, <1>4 DEF TreeIs

\* Which steps change the host.
LEMMA HostSame ==
  ASSUME ProtocolInv, [Next]_vars, ~OthersChange
  PROVE  UNCHANGED << containers, tree, events >>
<1>1. CASE BeginSourceTool \/ BeginListing \/ BeginHealth
  BY <1>1, BegunCall
<1>2. CASE Replied \/ TimeOut \/ AppIsDown
  BY <1>2, RepliesSame DEF Replied, TimeOut, AppIsDown
<1>3. CASE LookForTag \/ ReadTag
  BY <1>3, TagSame
<1>4. CASE AppRuns
  BY <1>4, AppKeepsRequest
<1>5. CASE Return \/ UNCHANGED vars
  BY <1>5 DEF Return, vars, appVars, hostVars
<1> QED BY <1>1, <1>2, <1>3, <1>4, <1>5 DEF Next, ClientStep

LEMMA TreeChanges ==
  ASSUME HostInv, NEW p \in Path, ReplacePath(p)
  PROVE  TreeIs(tree')
<1>1. PICK file \in NewFile \union {Directory, Nothing} :
       tree' = [q \in Path |->
                  IF q = p THEN [kind |-> file.kind, version |-> events + 10,
                                 size |-> file.size, text |-> file.text,
                                 readable |-> file.readable, target |-> file.target]
                  ELSE IF q \in Below(p) THEN Nothing ELSE tree[q]]
  BY DEF ReplacePath
<1>2. PICK K, S : K = STRING /\ S = Seq(STRING)
  OBVIOUS
<1>3. << >> \in S
  BY <1>2
<1>4. file.size \in Nat /\ file.target \in S
  <2>1. CASE file \in NewFile
    <3>1. file \in [kind : K, size : Nat, text : BOOLEAN, readable : BOOLEAN, target : S]
      BY <1>2, <2>1, SocketAppAssumption
    <3> QED BY <3>1
  <2>2. CASE file \notin NewFile
    BY <1>3, <2>2 DEF Nothing, Directory
  <2> QED BY <2>1, <2>2
<1>5. \A q \in Path : tree'[q] = IF q = p THEN [kind |-> file.kind, version |-> events + 10,
                                 size |-> file.size, text |-> file.text,
                                 readable |-> file.readable, target |-> file.target]
                  ELSE IF q \in Below(p) THEN Nothing ELSE tree[q]
  BY <1>1
<1>6. ASSUME NEW q \in Path PROVE tree'[q].size \in Nat /\ tree'[q].target \in S
  <2>1. CASE q = p
    BY <1>4, <1>5, <2>1
  <2>2. CASE q # p
    <3>1. tree[q].size \in Nat /\ tree[q].target \in S
      BY <1>2 DEF HostInv, TreeIs
    <3> QED BY <1>3, <1>5, <2>2, <3>1 DEF Nothing
  <2> QED BY <2>1, <2>2
<1> QED BY <1>1, <1>2, <1>6 DEF TreeIs

\* What a change makes of one container.
Succeeds(a, b, n) ==
  \/ b = a
  \/ b = NoContainer
  \/ a # NoContainer /\ IsContainer(n, b) /\ b.id = events + 10
  \/ a # NoContainer /\ IsContainer(n, b) /\ b.id = a.id /\ a.running /\ ~b.running
     
\* What a step changes of the containers.
LEMMA ContainersChange ==
  ASSUME HostInv, ProtocolInv, [Next]_vars
  PROVE  /\ DOMAIN containers' = Name
         /\ \A n \in Name : Succeeds(containers[n], containers'[n], n)
         /\ events' \in {events, events + 1} /\ (containers' # containers => events' = events + 1)
         /\ (tree' # tree => events' = events + 1)
<1>1. CASE \E n \in Name : RecreateContainer(n) \/ RemoveContainer(n) \/ StopContainer(n)
  <2>1. PICK n \in Name : RecreateContainer(n) \/ RemoveContainer(n) \/ StopContainer(n)
    BY <1>1
  <2>2. PICK k : k = containers[n]
    OBVIOUS
  <2>3. events' = events + 1 /\ k # NoContainer /\ IsContainer(n, k)
    BY <2>1, <2>2 DEF RecreateContainer, RemoveContainer, StopContainer, Change, HostInv, Present
  <2>4. \E j : containers' = [containers EXCEPT ![n] = j] /\ Succeeds(k, j, n)
    <3>1. CASE RecreateContainer(n)
      <4>1. PICK tag : containers' = [containers EXCEPT ![n].id = events + 10, ![n].running = TRUE, ![n].tag = tag]
        BY <3>1 DEF RecreateContainer
      <4>2. PICK j : j = [k EXCEPT !.id = events + 10, !.running = TRUE, !.tag = tag]
        OBVIOUS
      <4>3. containers' = [containers EXCEPT ![n] = j]
        BY <2>2, <4>1, <4>2 DEF HostInv
      <4>4. IsContainer(n, j) /\ j.id = events + 10
        BY <2>3, <4>2 DEF IsContainer, ContainerFields, HostInv
      <4> QED BY <2>3, <4>3, <4>4 DEF Succeeds
    <3>2. CASE RemoveContainer(n)
      BY <3>2 DEF RemoveContainer, Succeeds
    <3>3. CASE StopContainer(n)
      <4>1. containers' = [containers EXCEPT ![n].running = FALSE] /\ k.running
        BY <2>2, <3>3 DEF StopContainer
      <4>2. PICK j : j = [k EXCEPT !.running = FALSE]
        OBVIOUS
      <4>3. containers' = [containers EXCEPT ![n] = j]
        BY <2>2, <4>1, <4>2 DEF HostInv
      <4>4. IsContainer(n, j) /\ j.id = k.id /\ ~j.running
        BY <2>3, <4>2 DEF IsContainer, ContainerFields, HostInv
      <4> QED BY <2>3, <4>1, <4>3, <4>4 DEF Succeeds
    <3> QED BY <2>1, <3>1, <3>2, <3>3
  <2>5. PICK j : containers' = [containers EXCEPT ![n] = j] /\ Succeeds(k, j, n)
    BY <2>4
  <2>6. DOMAIN containers' = Name /\ \A m \in Name : containers'[m] = IF m = n THEN j ELSE containers[m]
    BY <2>5 DEF HostInv
  <2>7. \A m \in Name : Succeeds(containers[m], containers'[m], m)
    BY <2>2, <2>5, <2>6 DEF Succeeds
  <2> QED BY <2>3, <2>6, <2>7
<1>2. CASE UNCHANGED containers /\ events' \in {events, events + 1} /\ (tree' = tree \/ events' = events + 1)
  BY <1>2 DEF Succeeds, HostInv
<1>3. CASE ~OthersChange
  BY <1>2, <1>3, HostSame
<1>4. CASE ReplaceTagFile
  BY <1>2, <1>4 DEF ReplaceTagFile, Change
<1>5. CASE \E p \in Path : ReplacePath(p)
  <2>1. UNCHANGED containers /\ events' = events + 1
    BY <1>5 DEF ReplacePath, Change
  <2> QED BY <1>2, <2>1
<1> QED BY <1>1, <1>3, <1>4, <1>5 DEF OthersChange, HostChanges

LEMMA HostStep ==
  ASSUME HostInv, ProtocolInv, [Next]_vars
  PROVE  HostInv'
<1>1. /\ DOMAIN containers' = Name
      /\ \A n \in Name : Succeeds(containers[n], containers'[n], n)
      /\ events' \in {events, events + 1} /\ (containers' # containers => events' = events + 1)
  BY ContainersChange
<1>2. events \in Nat /\ events' \in Nat
  BY <1>1 DEF HostInv
<1>3. ASSUME NEW n \in Name, containers'[n] # NoContainer
      PROVE  IsContainer(n, containers'[n]) /\ containers'[n].id < events' + 10
  <2>1. Succeeds(containers[n], containers'[n], n)
    BY <1>1
  <2>2. containers[n] # NoContainer => IsContainer(n, containers[n]) /\ containers[n].id < events + 10
    BY DEF HostInv, Present
  <2>3. CASE containers'[n] = containers[n]
    BY <1>1, <1>2, <1>3, <2>2, <2>3 DEF IsContainer
  <2>4. CASE containers'[n] # containers[n]
    <3>1. events' = events + 1
      BY <1>1, <2>4
    <3> QED BY <1>2, <1>3, <2>1, <2>2, <2>4, <3>1 DEF Succeeds, IsContainer
  <2> QED BY <2>3, <2>4
<1>4. TreeIs(tree')
  <2>1. CASE tree' = tree
    BY <2>1 DEF HostInv
  <2>2. CASE \E p \in Path : ReplacePath(p)
    BY <2>2, TreeChanges
  <2>3. CASE \E n \in Name : RecreateContainer(n) \/ RemoveContainer(n) \/ StopContainer(n)
    <3>1. tree' = tree \/ tree' = ImageTree
      BY <2>3 DEF RecreateContainer, RemoveContainer, StopContainer
    <3> QED BY <2>1, <3>1, ImageTreeIs
  <2>4. CASE ~OthersChange
    BY <2>1, <2>4, HostSame
  <2>5. CASE ReplaceTagFile
    BY <2>1, <2>5 DEF ReplaceTagFile
  <2> QED BY <2>2, <2>3, <2>4, <2>5 DEF OthersChange, HostChanges
<1> QED BY <1>1, <1>2, <1>3, <1>4 DEF HostInv, Present

LEMMA HostInitially ==
  ASSUME InspectionInit
  PROVE  HostInv
<1>1. events = 0 /\ tree = ImageTree /\ containers \in Worlds
  BY DEF InspectionInit
<1>2. DOMAIN containers = Name
  BY <1>1, SocketAppAssumption
<1>3. ASSUME NEW n \in Name, containers[n] # NoContainer
      PROVE  IsContainer(n, containers[n]) /\ containers[n].id < events + 10
  <2>1. PICK k : k = containers[n]
    OBVIOUS
  <2>2. /\ DOMAIN k = {"name", "id", "project", "service", "running", "repo", "tag"}
        /\ k.name = n /\ k.id \in 0..9 /\ k.running \in BOOLEAN
    BY <1>1, <1>3, <2>1, SocketAppAssumption
  <2> QED BY <1>1, <2>1, <2>2 DEF IsContainer, ContainerFields
<1> QED BY <1>1, <1>2, <1>3, ImageTreeIs DEF HostInv, Present

\* The host stays well formed whatever others do there.
THEOREM Host == Spec => []HostInv
<1>1. HostInv /\ ProtocolInv /\ [Next]_vars => HostInv'
  BY HostStep
<1> QED BY <1>1, HostInitially, Protocol, PTL DEF Spec

-----------------------------------------------------------------------------
(* Where a path leads.                                                     *)

Lookup(S) == [at : Seq(S), ahead : Seq(S)]

\* A step of a path lookup stays among paths.
LEMMA EnterIs ==
  ASSUME HostInv, NEW S, S = STRING, NEW w \in Lookup(S)
  PROVE  Enter(tree, w, FALSE) \in Lookup(S)
<1>1. PICK at, ahead : at = w.at /\ ahead = w.ahead
  OBVIOUS
<1>2. at \in Seq(S) /\ ahead \in Seq(S)
  BY <1>1 DEF Lookup
<1>3. CASE ahead = << >>
  BY <1>1, <1>3 DEF Enter
<1>4. CASE ahead # << >>
  <2>1. Head(ahead) \in S /\ Tail(ahead) \in Seq(S)
    BY <1>2, <1>4
  <2>2. PICK place : place = IF Head(ahead) # ".." THEN Append(at, Head(ahead))
                             ELSE IF at = << >> THEN << >> ELSE Front(at)
    OBVIOUS
  <2>3. Append(at, Head(ahead)) \in Seq(S) /\ << >> \in Seq(S)
    BY <1>2, <2>1
  <2>4. at # << >> => Front(at) \in Seq(S)
    <3> SUFFICES ASSUME at # << >> PROVE SubSeq(at, 1, Len(at) - 1) \in Seq(S)
      BY DEF Front
    <3>1. Len(at) - 1 \in Int /\ 1 \in Int /\ \A i \in 1..(Len(at) - 1) : at[i] \in S
      BY <1>2
    <3> QED BY <3>1, SubSeqProperties
  <2>5. place \in Seq(S)
    BY <2>2, <2>3, <2>4
  <2>6. place \in Path => tree[place].target \o Tail(ahead) \in Seq(S)
    BY <2>1 DEF HostInv, TreeIs
  <2>7. \/ Enter(tree, w, FALSE) = w
        \/ place \in Path /\ Enter(tree, w, FALSE) = [at |-> << >>, ahead |-> tree[place].target \o Tail(ahead)]
        \/ Enter(tree, w, FALSE) = [at |-> place, ahead |-> Tail(ahead)]
    BY <1>1, <2>2 DEF Enter
  <2>8. PICK v : v = Enter(tree, w, FALSE)
    OBVIOUS
  <2>9. CASE v = w
    BY <1>1, <2>8, <2>9
  <2>10. CASE place \in Path /\ v = [at |-> << >>, ahead |-> tree[place].target \o Tail(ahead)]
    <3>1. PICK rest : rest = tree[place].target \o Tail(ahead)
      OBVIOUS
    <3>2. rest \in Seq(S) /\ << >> \in Seq(S)
      BY <2>6, <2>10, <3>1
    <3>3. v = [at |-> << >>, ahead |-> rest]
      BY <2>10, <3>1
    <3>4. v \in Lookup(S)
      BY <3>2, <3>3 DEF Lookup
    <3> QED BY <2>8, <3>4
  <2>11. CASE v = [at |-> place, ahead |-> Tail(ahead)]
    <3>1. v \in Lookup(S)
      BY <2>1, <2>5, <2>11 DEF Lookup
    <3> QED BY <2>8, <3>1
  <2> QED BY <2>7, <2>8, <2>9, <2>10, <2>11
<1> QED BY <1>3, <1>4

\* After k steps of a lookup that follows no link, k parts of the path were walked,
\* or fewer if it stuck.
Along(parts, w) ==
  \E m \in 0..Len(parts) : w = [at    |-> SubSeq(parts, 1, m),
                                ahead |-> SubSeq(parts, m + 1, Len(parts))]

LEMMA EnterAlong ==
  ASSUME NEW S, NEW parts \in Seq(S), NoDots(parts), ~LinkOn(parts), NEW w, Along(parts, w)
  PROVE  Along(parts, Enter(tree, w, FALSE))
<1>1. PICK m \in 0..Len(parts) : w = [at    |-> SubSeq(parts, 1, m),
                                      ahead |-> SubSeq(parts, m + 1, Len(parts))]
  BY DEF Along
<1>2. CASE m = Len(parts)
  <2>1. w.ahead = << >>
    BY <1>1, <1>2
  <2> QED BY <2>1 DEF Enter
<1>3. CASE m # Len(parts)
  <2>1. m \in Nat /\ m + 1 \in 1..Len(parts) /\ Len(parts) \in Nat
    BY <1>3
  <2>2. PICK at, ahead : at = SubSeq(parts, 1, m) /\ ahead = SubSeq(parts, m + 1, Len(parts))
    OBVIOUS
  <2>3. /\ ahead \in Seq(S) /\ Len(ahead) = Len(parts) - m /\ ahead # << >>
        /\ \A i \in 1..Len(ahead) : ahead[i] = parts[m + i]
    <3>1. m + 1 \in Int /\ Len(parts) \in Int /\ \A i \in (m + 1)..Len(parts) : parts[i] \in S
      BY <2>1
    <3>2. /\ ahead \in Seq(S)
          /\ Len(ahead) = IF m + 1 <= Len(parts) THEN Len(parts) - (m + 1) + 1 ELSE 0
          /\ \A i \in 1..(Len(parts) - (m + 1) + 1) : ahead[i] = parts[(m + 1) + i - 1]
      BY <2>2, <3>1, SubSeqProperties
    <3>3. Len(ahead) = Len(parts) - m
      BY <2>1, <3>2
    <3>4. \A i \in 1..Len(ahead) : ahead[i] = parts[m + i]
      BY <2>1, <3>2, <3>3
    <3>5. ahead # << >>
      BY <2>1, <3>3
    <3> QED BY <3>2, <3>3, <3>4, <3>5
  <2>4. Head(ahead) = parts[m + 1] /\ Head(ahead) # ".."
    BY <2>1, <2>3 DEF NoDots
  <2>5. Append(at, Head(ahead)) = SubSeq(parts, 1, m + 1)
    BY <2>1, <2>2, <2>4
  <2>6. Tail(ahead) = SubSeq(parts, (m + 1) + 1, Len(parts))
    BY <2>1, <2>2, <2>3
  <2>7. Tail(ahead) # << >> => m + 1 \in 1..(Len(parts) - 1)
    BY <2>1, <2>3
  <2>8. SubSeq(parts, 1, m + 1) \in Path /\ tree[SubSeq(parts, 1, m + 1)].kind = "link"
          => Tail(ahead) = << >>
    BY <2>7 DEF LinkOn
  <2>9. \/ Enter(tree, w, FALSE) = w
        \/ Enter(tree, w, FALSE) = [at |-> SubSeq(parts, 1, m + 1), ahead |-> Tail(ahead)]
    BY <1>1, <2>2, <2>4, <2>5, <2>8 DEF Enter
  <2>10. m + 1 \in 0..Len(parts)
    BY <2>1
  <2>11. PICK v : v = Enter(tree, w, FALSE)
    OBVIOUS
  <2>12. CASE v = w
    BY <2>11, <2>12
  <2>13. CASE v = [at |-> SubSeq(parts, 1, m + 1), ahead |-> Tail(ahead)]
    <3>1. v = [at |-> SubSeq(parts, 1, m + 1), ahead |-> SubSeq(parts, (m + 1) + 1, Len(parts))]
      BY <2>6, <2>13
    <3>2. Along(parts, v)
      BY <2>10, <3>1 DEF Along
    <3> QED BY <2>11, <3>2
  <2> QED BY <2>9, <2>11, <2>12, <2>13
<1> QED BY <1>2, <1>3

\* Without a link on the way a path without dots leads nowhere else.
LEMMA LeadsAlong ==
  ASSUME HostInv, NEW parts \in Seq(STRING), NoDots(parts), ~LinkOn(parts)
  PROVE  Along(parts, LookUp(tree, parts, FALSE))
<1>1. PICK S : S = STRING
  OBVIOUS
<1> DEFINE n == MaxLookup
           T == Lookup(S)
           base == [at |-> << >>, ahead |-> parts]
           step == [p \in T \X (1..n) |-> Enter(tree, p[1], FALSE)]
           Def(h) == [t \in SUBSET (1..n) |->
                        IF t = {} THEN base ELSE Enter(tree, h[t \ {Max(t)}], FALSE)]
           iter == CHOOSE h : h = Def(h)
           f == [k \in 0..n |-> iter[1..k]]
<1>2. n \in Nat /\ base \in T
  BY <1>1, SocketAppAssumption DEF Lookup
<1>3. LookUp(tree, parts, FALSE) = iter[1..n]
  BY <1>2 DEF LookUp, FoldLeft, MapThenFoldSet
<1>4. step \in [T \X (1..n) -> T]
  BY <1>1, EnterIs
<1>5. \A q \in T, i \in 1..n : step[<<q, i>>] = Enter(tree, q, FALSE)
  OBVIOUS
<1> HIDE DEF step, n, T, base
<1>6. PICK h \in [SUBSET (1..n) -> T] : FoldsTo(h, base, step, n)
  BY <1>2, <1>4, FoldDefined
<1>7. h = Def(h)
  <2>1. ASSUME NEW t \in SUBSET (1..n), t # {}
        PROVE  step[<<h[t \ {Max(t)}], Max(t)>>] = Enter(tree, h[t \ {Max(t)}], FALSE)
    <3>1. Max(t) \in t
      BY <1>2, <2>1, LargestIndex
    <3>2. Max(t) \in 1..n /\ h[t \ {Max(t)}] \in T
      BY <3>1
    <3> QED BY <1>5, <3>2
  <2> QED BY <1>6, <2>1 DEF FoldsTo
<1>8. iter = Def(iter)
  BY <1>7
<1> HIDE DEF iter
<1>9. f[0] = base
  <2>1. 1..0 = {} /\ {} \in SUBSET (1..n) /\ 0 \in 0..n
    BY <1>2
  <2>2. f[0] = iter[1..0]
    BY <2>1
  <2>3. iter[{}] = base
    BY <1>8, <2>1
  <2> QED BY <2>1, <2>2, <2>3
<1>10. ASSUME NEW k \in 0..n, k < n
       PROVE  f[k + 1] = Enter(tree, f[k], FALSE)
  <2>1. k \in Nat /\ k + 1 \in 0..n /\ k + 1 \in 1..n /\ 1..(k + 1) \in SUBSET (1..n)
    BY <1>2, <1>10
  <2>2. f[k] = iter[1..k] /\ f[k + 1] = iter[1..(k + 1)]
    BY <2>1
  <2> QED BY <1>8, <2>1, <2>2, LastIndex
<1>11. f[n] = iter[1..n]
  BY <1>2
<1> HIDE DEF f
<1> DEFINE G == {k \in 0..n : Along(parts, f[k])}
<1>12. 0 \in G
  <2>1. PICK m : m = 0
    OBVIOUS
  <2>2. m \in 0..Len(parts) /\ SubSeq(parts, 1, m) = << >>
    BY <2>1
  <2>3. SubSeq(parts, m + 1, Len(parts)) = parts
    BY <2>1
  <2>4. f[0] = [at |-> SubSeq(parts, 1, m), ahead |-> SubSeq(parts, m + 1, Len(parts))]
    BY <1>9, <2>2, <2>3 DEF base
  <2>5. Along(parts, f[0])
    BY <2>2, <2>4 DEF Along
  <2>6. 0 \in 0..n
    BY <1>2
  <2> QED BY <2>5, <2>6
<1>13. ASSUME NEW k \in 0..n, k \in G, k < n PROVE k + 1 \in G
  <2>1. Along(parts, Enter(tree, f[k], FALSE))
    BY <1>13, EnterAlong
  <2>2. f[k + 1] = Enter(tree, f[k], FALSE)
    BY <1>10, <1>13
  <2>3. k + 1 \in 0..n
    BY <1>2, <1>13
  <2>4. Along(parts, f[k + 1])
    BY <2>1, <2>2
  <2> QED BY <2>3, <2>4
<1>14. \A k \in 0..n : k \in G
  <2> HIDE DEF G
  <2> QED BY <1>2, <1>12, <1>13, UpTo
<1>15. n \in 0..n
  BY <1>2
<1>16. Along(parts, f[n])
  BY <1>14, <1>15
<1> QED BY <1>3, <1>11, <1>16

LEMMA LeadsThere ==
  ASSUME HostInv, NEW parts \in Seq(STRING), NoDots(parts), ~LinkOn(parts), EntryAt(parts).kind # "none"
  PROVE  Resolved(parts) = parts
<1>1. PICK w : w = LookUp(tree, parts, FALSE)
  OBVIOUS
<1>2. w.ahead = << >>
  BY <1>1 DEF EntryAt, Entry, Nothing
<1>3. PICK m \in 0..Len(parts) : w = [at    |-> SubSeq(parts, 1, m),
                                      ahead |-> SubSeq(parts, m + 1, Len(parts))]
  BY <1>1, LeadsAlong DEF Along
<1>4. m = Len(parts)
  <2>1. PICK ahead : ahead = SubSeq(parts, m + 1, Len(parts))
    OBVIOUS
  <2>2. m \in Int /\ Len(parts) \in Int /\ m <= Len(parts)
    BY <1>3
  <2>3. \A i \in (m + 1)..Len(parts) : parts[i] \in STRING
    BY <2>2
  <2>4. Len(ahead) = IF m + 1 <= Len(parts) THEN Len(parts) - (m + 1) + 1 ELSE 0
    BY <2>1, <2>2, <2>3, SubSeqProperties
  <2>5. Len(ahead) = 0
    BY <1>2, <1>3, <2>1
  <2> QED BY <2>2, <2>4, <2>5
<1>5. w.at = parts
  BY <1>3, <1>4
<1> QED BY <1>1, <1>5 DEF Resolved

\* The length of what is found.
LEMMA EntrySize ==
  ASSUME HostInv, NEW parts
  PROVE  EntryAt(parts).size \in Nat
<1>1. \E p \in Path : EntryAt(parts) \in {tree[p], Nothing}
  BY SocketAppAssumption DEF EntryAt, Entry
<1> QED BY <1>1 DEF HostInv, TreeIs, Nothing

\* No request is for another container or for a path outside the declared prefixes,
\* and what it finds is in that place: the way to a checked path without links leads
\* nowhere else (container_path_is_allowed).
THEOREM InsideWhitelist == Spec => []AsksInsideWhitelist
<1>1. HostInv /\ ProtocolInv => AsksInsideWhitelist
  <2> SUFFICES ASSUME HostInv, ProtocolInv, request # NoRequest, request.op \in PathOperations
               PROVE  LET parts == request.path.parts
                      IN  /\ request.name = call.source.target
                          /\ PathIsAllowed(call.source, parts)
                          /\ ~LinkOn(parts) /\ EntryAt(parts).kind # "none" =>
                               PathIsAllowed(call.source, Resolved(parts))
    BY DEF AsksInsideWhitelist
  <2>1. Asked(call, request) /\ OfItsPath(call, request) /\ (call.tool \in PathTools => Checked(call))
    BY WaitingCall
  <2>2. call.tool \in PathTools
    BY <2>1 DEF Asked, PathTools, PathOperations
  <2>3. request.path.parts = call.parts /\ request.name = call.source.target
    BY <2>1 DEF OfItsPath
  <2>4. /\ call.parts \in Seq(STRING) /\ NoDots(call.parts)
        /\ PathIsAllowed(call.source, call.parts)
    BY <2>1, <2>2 DEF Checked
  <2>5. ~LinkOn(call.parts) /\ EntryAt(call.parts).kind # "none" => Resolved(call.parts) = call.parts
    BY <2>4, LeadsThere
  <2> QED BY <2>3, <2>4, <2>5
<1> QED BY <1>1, Host, Protocol, PTL

-----------------------------------------------------------------------------
(* What the app saw of a path, when nothing has changed since it looked.   *)

\* What the unchanged file or directory should be answered with.
Exact(c)     == CutContent(Output({c.parts}), c.limit)
WholeList(c) == FirstRows(ListOrder({Meta(p) : p \in Listed(c.parts)}), MaxEntries)
OneFile(c)   == [rows |-> << Meta(c.parts) >>, truncated |-> FALSE]

ListedTruly(c, result) ==
  \/ EntryAt(c.parts).kind = "dir" /\ result = WholeList(c)
  \/ EntryAt(c.parts).kind = "file" /\ result = OneFile(c)

ReadTruly(c, result) == EntryAt(c.parts).kind = "file" /\ result = Exact(c)

\* What the app found of the path of a call.
Found(c, r) ==
  /\ r.at \in {"typed", "found"} =>
       /\ r.op \in {"container_file_read", "container_directory_list"}
       /\ EntryAt(c.parts).kind = IF r.op = "container_file_read" THEN "file" ELSE "dir"
  /\ r.at = "found" =>
       r.matched = IF r.op = "container_file_read" THEN {c.parts} ELSE Listed(c.parts)
  /\ r.at = "answered" /\ r.reply.ok =>
       /\ EntryAt(c.parts).kind \in {"file", "dir"}
       /\ r.op = "container_path_stat" => r.reply.result = Meta(c.parts)
       /\ r.op = "container_file_read" => ReadTruly(c, r.reply.result)
       /\ r.op = "container_directory_list" => ListedTruly(c, r.reply.result)

Looked(c, r) ==
  r # NoRequest /\ r.op \in PathOperations /\ r.at # "received" /\ c.since = events => Found(c, r)

\* What a finished call of the path tools answers.
Finished(c) ==
  c # NoCall /\ c.at = "ended" /\ c.answer.ok
      /\ c.tool \in {"read_container_file", "list_container_directory"} =>
    /\ Checked(c) /\ (c.tool = "read_container_file" => ~ (c.limit < 1))
    /\ c.since = events =>
         /\ c.tool = "read_container_file" => ReadTruly(c, c.answer.result)
         /\ c.tool = "list_container_directory" => ListedTruly(c, c.answer.result)

Dated(c) == c # NoCall => c.since \in Nat /\ c.since <= events /\ c.limit \in Int

\* The inductive invariant of the path tools: while nothing has changed since the
\* app looked, what it found, matched and answered is still so.
LookInv == Dated(call) /\ Looked(call, request) /\ Finished(call)

LEMMA LookPrimed ==
  ASSUME UNCHANGED << tree, events >>, Dated(call'), Looked(call', request'), Finished(call')
  PROVE  LookInv'
<1>1. \A parts : EntryAt(parts)' = EntryAt(parts) /\ Listed(parts)' = Listed(parts)
                    /\ Output({parts})' = Output({parts}) /\ Meta(parts)' = Meta(parts)
  BY DEF EntryAt, Entry, Resolved, Opened, Output, Listed, Children, Meta
<1> QED
  BY <1>1 DEF LookInv, Dated, Looked, Finished, Found, Exact, ReadTruly, WholeList, OneFile, ListedTruly

LEMMA RequestedPathIs ==
  ASSUME ProtocolInv, request.op \in PathOperations
  PROVE  /\ DOMAIN call = CallFields /\ call.tool \in PathTools /\ Checked(call)
         /\ PathError(request.path) = ""
         /\ NormalizedPath(request.path).parts = call.parts
<1>1. request # NoRequest
  BY DEF NoRequest, PathOperations
<1>2. Asked(call, request) /\ OfItsPath(call, request) /\ (call.tool \in PathTools => Checked(call))
      /\ DOMAIN call = CallFields
  BY <1>1, WaitingCall
<1>3. call.tool \in PathTools
  BY <1>2 DEF Asked, PathTools, PathOperations
<1>4. request.path = [absolute |-> TRUE, parts |-> call.parts]
  BY <1>2 DEF OfItsPath
<1>5. call.parts \in Seq(STRING) /\ NoDots(call.parts)
  BY <1>2, <1>3 DEF Checked
<1> QED BY <1>2, <1>3, <1>4, <1>5, AskedPath

LEMMA AnsweredWith ==
  ASSUME DOMAIN request = RequestFields, NEW result, Answer(Result(result)), NEW r, r = request'
  PROVE  r.at = "answered" /\ r.op = request.op /\ r.reply.ok /\ r.reply.result = result
BY DEF Answer, Result, RequestFields

LEMMA StatsLooks ==
  ASSUME ProtocolInv, LookInv, AppStats, NEW c, SameCall(c, c), c.parts = call.parts, c.limit = call.limit
  PROVE  Found(c, request')
<1>1. PICK entry, parts : entry = EntryAt(call.parts) /\ parts = call.parts
  OBVIOUS
<1>2. request.op \in PathOperations /\ request.at = "received" /\ DOMAIN request = RequestFields
  <2>1. request.op \in PathOperations /\ request.at = "received"
    BY DEF AppStats
  <2>2. request # NoRequest
    BY <2>1 DEF PathOperations, NoRequest
  <2> QED BY <2>1, <2>2, WaitingCall
<1>4. \/ \E error : Answer(Failed(error))
      \/ /\ entry.kind \in {"file", "dir"} /\ request.op = "container_path_stat"
         /\ Answer(Result(Meta(parts)))
      \/ /\ entry.kind = "file" /\ request.op = "container_directory_list"
         /\ Answer(Result([rows |-> << Meta(parts) >>, truncated |-> FALSE]))
      \/ /\ entry.kind = "file" /\ request.op = "container_file_read"
         /\ request' = [request EXCEPT !.at = "typed"]
      \/ /\ entry.kind = "dir" /\ request.op = "container_directory_list"
         /\ request' = [request EXCEPT !.at = "typed"]
  BY <1>1, <1>2, RequestedPathIs DEF AppStats, PathOperations
<1>5. PICK r : r = request'
  OBVIOUS
<1>6. CASE \E error : Answer(Failed(error))
  <2>1. r.at = "answered" /\ ~r.reply.ok
    BY <1>2, <1>5, <1>6 DEF Answer, Failed, RequestFields
  <2> QED BY <1>5, <2>1 DEF Found
<1>7. CASE /\ entry.kind \in {"file", "dir"} /\ request.op = "container_path_stat"
           /\ Answer(Result(Meta(parts)))
  <2>1. r.at = "answered" /\ r.reply.result = Meta(parts) /\ r.op = "container_path_stat"
    BY <1>2, <1>5, <1>7 DEF Answer, Result, RequestFields
  <2> QED BY <1>1, <1>5, <1>7, <2>1 DEF Found
<1>8. CASE /\ entry.kind = "file" /\ request.op = "container_directory_list"
           /\ Answer(Result([rows |-> << Meta(parts) >>, truncated |-> FALSE]))
  <2>1. /\ r.at = "answered" /\ r.reply.result = [rows |-> << Meta(parts) >>, truncated |-> FALSE]
        /\ r.op = "container_directory_list"
    BY <1>2, <1>5, <1>8 DEF Answer, Result, RequestFields
  <2> QED BY <1>1, <1>5, <1>8, <2>1 DEF Found, ListedTruly, OneFile
<1>9. CASE \/ entry.kind = "file" /\ request.op = "container_file_read"
           \/ entry.kind = "dir" /\ request.op = "container_directory_list"
  <2>1. CASE request' = [request EXCEPT !.at = "typed"]
    <3>1. r.at = "typed" /\ r.op = request.op
      BY <1>2, <1>5, <2>1 DEF RequestFields
    <3> QED BY <1>1, <1>5, <1>9, <3>1 DEF Found
  <2> QED BY <1>4, <1>6, <1>7, <1>8, <2>1
<1> QED BY <1>4, <1>6, <1>7, <1>8, <1>9

LEMMA FindsLooks ==
  ASSUME ProtocolInv, Found(call, request), AppFinds, NEW c, c.parts = call.parts, c.limit = call.limit
  PROVE  Found(c, request')
<1>1. PICK parts : parts = call.parts
  OBVIOUS
<1>2. request.op \in PathOperations /\ request.at = "typed" /\ DOMAIN request = RequestFields
  BY WaitingCall DEF AppFinds, PathOperations, NoRequest
<1>3. /\ request.op \in {"container_file_read", "container_directory_list"}
      /\ EntryAt(parts).kind = IF request.op = "container_file_read" THEN "file" ELSE "dir"
  BY <1>1, <1>2 DEF Found
<1>5. \/ \E error : Answer(Failed(error))
      \/ request' = [request EXCEPT !.at = "found", !.matched =
                IF request.op = "container_file_read"
                THEN (IF EntryAt(parts).kind = "file" THEN {parts} ELSE {})
                ELSE (IF EntryAt(parts).kind = "dir" THEN Listed(parts) ELSE {})]
  BY ZenonT(30), <1>1, <1>2, RequestedPathIs DEF AppFinds
<1>6. PICK r : r = request'
  OBVIOUS
<1>7. CASE \E error : Answer(Failed(error))
  <2>1. r.at = "answered" /\ ~r.reply.ok
    BY <1>2, <1>6, <1>7 DEF Answer, Failed, RequestFields
  <2> QED BY <1>6, <2>1 DEF Found
<1>8. CASE request' = [request EXCEPT !.at = "found", !.matched =
                IF request.op = "container_file_read"
                THEN (IF EntryAt(parts).kind = "file" THEN {parts} ELSE {})
                ELSE (IF EntryAt(parts).kind = "dir" THEN Listed(parts) ELSE {})]
  <2>1. /\ r.at = "found" /\ r.op = request.op
        /\ r.matched = IF request.op = "container_file_read" THEN {parts} ELSE Listed(parts)
    BY <1>2, <1>3, <1>6, <1>8 DEF RequestFields
  <2> QED BY <1>1, <1>3, <1>6, <2>1 DEF Found
<1> QED BY <1>5, <1>7, <1>8

LEMMA PrintsLooks ==
  ASSUME ProtocolInv, Found(call, request), AppPrintsFile \/ AppPrintsDirectory,
         NEW c, c.parts = call.parts, c.limit = call.limit
  PROVE  Found(c, request')
<1>1. PICK parts, matched : parts = call.parts /\ matched = request.matched
  OBVIOUS
<1>2. /\ request.op \in {"container_file_read", "container_directory_list"} /\ request.at = "found"
      /\ DOMAIN request = RequestFields
  BY WaitingCall DEF AppPrintsFile, AppPrintsDirectory, NoRequest
<1>3. /\ request.op \in {"container_file_read", "container_directory_list"}
      /\ EntryAt(parts).kind = IF request.op = "container_file_read" THEN "file" ELSE "dir"
      /\ matched = IF request.op = "container_file_read" THEN {parts} ELSE Listed(parts)
      /\ request.limit = IF request.op = "container_directory_list" THEN MaxEntries ELSE c.limit
  <2>1. OfItsPath(call, request)
    BY <1>2, WaitingCall DEF NoRequest
  <2> QED BY <1>1, <1>2, <2>1 DEF Found, OfItsPath, PathOperations
<1>4. PICK r : r = request'
  OBVIOUS
<1>5. CASE \E error : Answer(Failed(error))
  <2>1. r.at = "answered" /\ ~r.reply.ok
    BY <1>2, <1>4, <1>5 DEF Answer, Failed, RequestFields
  <2> QED BY <1>4, <2>1 DEF Found
<1>6. CASE /\ AppPrintsFile /\ Answer(Result(CutContent(Output(request.matched), request.limit)))
  <2>1. /\ r.at = "answered" /\ r.op = "container_file_read"
        /\ r.reply.result = CutContent(Output(matched), request.limit)
    <3>1. PICK x : x = CutContent(Output(request.matched), request.limit)
      OBVIOUS
    <3>2. r.at = "answered" /\ r.op = request.op /\ r.reply.result = x
      BY <1>2, <1>4, <1>6, <3>1, AnsweredWith
    <3> QED BY <1>1, <1>6, <3>1, <3>2 DEF AppPrintsFile
  <2>2. request.op = "container_file_read"
    BY <1>6 DEF AppPrintsFile
  <2>3. matched = {parts} /\ EntryAt(parts).kind = "file" /\ request.limit = c.limit
    BY <1>3, <2>2
  <2>4. ReadTruly(c, r.reply.result)
    BY <1>1, <2>1, <2>3 DEF ReadTruly, Exact
  <2> QED BY <1>1, <1>4, <2>1, <2>3, <2>4 DEF Found
<1>7. CASE /\ AppPrintsDirectory
           /\ Answer(Result(FirstRows(ListOrder({Meta(p) : p \in request.matched}), request.limit)))
  <2>1. /\ r.at = "answered" /\ r.op = "container_directory_list"
        /\ r.reply.result = FirstRows(ListOrder({Meta(p) : p \in matched}), request.limit)
    <3>1. PICK x : x = FirstRows(ListOrder({Meta(p) : p \in request.matched}), request.limit)
      OBVIOUS
    <3>2. r.at = "answered" /\ r.op = request.op /\ r.reply.result = x
      BY <1>2, <1>4, <1>7, <3>1, AnsweredWith
    <3> QED BY <1>1, <1>7, <3>1, <3>2 DEF AppPrintsDirectory
  <2>2. request.op = "container_directory_list"
    BY <1>7 DEF AppPrintsDirectory
  <2>3. matched = Listed(parts) /\ request.limit = MaxEntries /\ EntryAt(parts).kind = "dir"
    BY <1>3, <2>2
  <2>4. ListedTruly(c, r.reply.result)
    BY <1>1, <2>1, <2>3 DEF ListedTruly, WholeList
  <2> QED BY <1>1, <1>3, <1>4, <2>1, <2>3, <2>4 DEF Found
<1> QED BY <1>5, <1>6, <1>7 DEF AppPrintsFile, AppPrintsDirectory

LEMMA AppLooks ==
  ASSUME HostInv, ProtocolInv, LookInv, AppRuns
  PROVE  LookInv'
<1>1. /\ request # NoRequest /\ request'.op = request.op /\ UNCHANGED << containers, tree, events >>
      /\ DOMAIN call = CallFields /\ call.at \in Waiting
  BY AppKeepsRequest, WaitingCall
<1>2. PICK c, seen, since :
        /\ c = [call EXCEPT !.seen = seen, !.since = since] /\ call' = c
        /\ since = IF request.op \in PathOperations /\ request.at = "received" THEN events ELSE call.since
  BY DEF AppRuns
<1>3. /\ DOMAIN c = CallFields /\ c.since = since /\ c.parts = call.parts /\ c.limit = call.limit
      /\ c.at = call.at /\ SameCall(c, c)
  BY <1>1, <1>2 DEF CallFields, SameCall
<1>4. Finished(c)
  BY <1>1, <1>3 DEF Finished, Waiting
<1>5. call # NoCall /\ events \in Nat => Dated(c)
  BY <1>2, <1>3 DEF LookInv, Dated
<1>6. ASSUME request.op \in PathOperations, c.since = events, request'.at # "received" PROVE Found(c, request')
  <2>1. CASE AppStats
    BY <1>3, <2>1, StatsLooks
  <2>2. CASE AppFinds \/ AppPrintsFile \/ AppPrintsDirectory
    <3>1. request.at # "received"
      BY <2>2 DEF AppFinds, AppPrintsFile, AppPrintsDirectory
    <3>2. Found(call, request)
      BY <1>1, <1>2, <1>3, <1>6, <3>1 DEF LookInv, Looked
    <3> QED BY <1>3, <2>2, <3>2, FindsLooks, PrintsLooks
  <2>3. CASE DockerFails
    <3>1. PICK r : r = request'
      OBVIOUS
    <3>2. r.at = "answered" /\ ~r.reply.ok
      BY <1>1, <2>3, <3>1, WaitingCall DEF DockerFails, Answer, Failed, RequestFields
    <3> QED BY <3>1, <3>2 DEF Found
  <2>4. CASE AppInspects \/ AppListsContainers \/ AppListsVolumes
    BY <1>6, <2>4 DEF AppInspects, AppListsContainers, AppListsVolumes, PathOperations
  <2> QED BY <2>1, <2>2, <2>3, <2>4 DEF AppRuns, AppStep
<1>7. Looked(c, request')
  BY <1>1, <1>6 DEF Looked
<1>8. call # NoCall
  BY <1>1 DEF CallFields, NoCall
<1>9. events \in Nat
  BY DEF HostInv
<1> QED BY <1>1, <1>2, <1>4, <1>5, <1>7, <1>8, <1>9, LookPrimed

LEMMA FinishedNothing ==
  ASSUME NEW c, c.at # "ended" \/ ~c.answer.ok
                \/ c.tool \notin {"read_container_file", "list_container_directory"}
  PROVE  Finished(c)
BY DEF Finished

LEMMA StatIs ==
  ASSUME NEW c, NEW stat, stat = Meta(c.parts), ~stat.is_dir,
         EntryAt(c.parts).kind \in {"file", "dir"}
  PROVE  ListedTruly(c, [rows |-> << stat >>, truncated |-> FALSE])
<1>1. EntryAt(c.parts).kind = "file"
  BY DEF Meta
<1> QED BY <1>1 DEF ListedTruly, OneFile

LEMMA RepliesFinish ==
  ASSUME ProtocolInv, LookInv, NEW reply, Replies(reply),
         reply.ok => request.at = "answered" /\ reply = request.reply
  PROVE  UNCHANGED << tree, events >> /\ Finished(call')
<1>1. PICK d : d = call'
  OBVIOUS
<1>2. SameCall(call, d) /\ UNCHANGED << tree, events >>
  BY <1>1, RepliesSame
<1>3. request # NoRequest /\ request.at = request.at
  BY DEF Replies, TakeResult, TakeFirstStat, TakeSecondStat, TakeHealth, TakeRows, TakeDetail, Waits
<1>4. /\ DOMAIN call = CallFields /\ call # NoCall /\ Asked(call, request) /\ OfItsPath(call, request)
      /\ (call.tool \in PathTools => Checked(call))
  BY <1>3, WaitingCall DEF CallFields, NoCall
<1>5. d.tool = call.tool /\ d.parts = call.parts /\ d.source = call.source /\ d.limit = call.limit
      /\ d.since = call.since
  BY <1>2 DEF SameCall
<1>6. call.tool \in PathTools => Checked(d)
  BY <1>4, <1>5 DEF Checked
<1>7. ASSUME reply.ok, request.op \in PathOperations, call.since = events
      PROVE  /\ EntryAt(call.parts).kind \in {"file", "dir"}
             /\ request.op = "container_path_stat" => reply.result = Meta(call.parts)
             /\ request.op = "container_file_read" => ReadTruly(call, reply.result)
             /\ request.op = "container_directory_list" => ListedTruly(call, reply.result)
  <2>1. Found(call, request)
    BY <1>3, <1>7 DEF LookInv, Looked
  <2> QED BY <1>7, <2>1 DEF Found
<1>8. \A x : (ReadTruly(call, x) => ReadTruly(d, x)) /\ (ListedTruly(call, x) => ListedTruly(d, x))
  BY <1>5 DEF ReadTruly, Exact, ListedTruly, WholeList, OneFile
<1> SUFFICES Finished(d)
  BY <1>1, <1>2
<1>9. CASE TakeResult(reply)
  <2>1. /\ d.at = "ended" /\ d.answer = reply
    BY <1>1, <1>4, <1>9 DEF TakeResult, EndsWith, CallFields
  <2>2. call.at = "result"
    BY <1>9 DEF TakeResult, Waits
  <2>3. CASE call.tool = "read_container_file"
    <3>1. request.op = "container_file_read" /\ call.tool \in PathTools /\ request.op \in PathOperations
      BY <1>4, <2>2, <2>3 DEF Asked, PathTools, PathOperations
    <3>2. ~ (call.limit < 1)
      BY <1>4, <2>2, <2>3 DEF ProtocolInv, IsCall
    <3> QED BY <1>5, <1>6, <1>7, <1>8, <2>1, <2>3, <3>1, <3>2 DEF Finished
  <2>4. CASE call.tool = "list_container_directory"
    <3>1. request.op = "container_directory_list" /\ call.tool \in PathTools /\ request.op \in PathOperations
      BY <1>4, <2>2, <2>4 DEF Asked, PathTools, PathOperations
    <3> QED BY <1>5, <1>6, <1>7, <1>8, <2>1, <2>4, <3>1 DEF Finished
  <2>5. CASE call.tool \notin {"read_container_file", "list_container_directory"}
    BY <1>5, <2>5, FinishedNothing
  <2> QED BY <2>3, <2>4, <2>5
<1>10. CASE TakeFirstStat(reply)
  <2>0. call.at = "first_stat"
    BY <1>10 DEF TakeFirstStat, Waits
  <2>1. CASE (~reply.ok \/ call.tool = "stat_container_path") /\ EndsWith(call, reply)
    <3>1. d.answer = reply
      BY <1>1, <1>4, <2>1 DEF EndsWith, CallFields
    <3> QED BY <1>5, <2>1, <3>1, FinishedNothing
  <2>2. CASE ReadAfterStat(reply.result)
    <3>1. d.at # "ended" \/ ~d.answer.ok
      <4>1. PICK c : c = [call EXCEPT !.got = << reply.result >>]
      OBVIOUS
    <4>2. DOMAIN c = CallFields
      BY <1>4, <4>1 DEF CallFields
    <4>3. \/ \E e : EndsWith(call, Failed(e))
          \/ \E req : Asks(c, "second_stat", req)
      BY <2>2, <4>1 DEF ReadAfterStat
    <4>4. CASE \E req : Asks(c, "second_stat", req)
      <5>1. d = [c EXCEPT !.at = "second_stat"]
        BY <1>1, <4>4 DEF Asks
      <5> QED BY <4>2, <5>1 DEF CallFields
    <4>5. CASE \E e : EndsWith(call, Failed(e))
      <5>1. PICK answer : ~answer.ok /\ d = [call EXCEPT !.at = "ended", !.answer = answer]
        BY <1>1, <4>5 DEF EndsWith, Failed
      <5> QED BY <1>4, <5>1 DEF CallFields
    <4> QED BY <4>3, <4>4, <4>5
    <3> QED BY <3>1, FinishedNothing
  <2>3. CASE reply.ok /\ ListAfterStat(reply.result)
    <3>1. CASE reply.result.is_dir
      <4>1. d.at # "ended"
        BY <1>1, <1>4, <2>3, <3>1 DEF ListAfterStat, Asks, CallFields
      <4> QED BY <4>1, FinishedNothing
    <3>2. CASE ~reply.result.is_dir
      <4>1. PICK x : x = [rows |-> << reply.result >>, truncated |-> FALSE]
        OBVIOUS
      <4>2. EndsWith(call, Result(x)) /\ call.tool = "list_container_directory"
        BY <2>3, <3>2, <4>1 DEF ListAfterStat
      <4>3. d.at = "ended" /\ d.answer.result = x
        BY <1>1, <1>4, <4>2 DEF EndsWith, Result, CallFields
      <4>4. request.op = "container_path_stat" /\ request.op \in PathOperations /\ call.tool \in PathTools
        BY <1>4, <2>0, <4>2 DEF Asked, PathOperations, PathTools
      <4>5. call.since = events => ListedTruly(call, x)
        BY <1>7, <2>3, <3>2, <4>1, <4>4, StatIs
      <4> QED BY <1>5, <1>6, <1>8, <4>2, <4>3, <4>4, <4>5 DEF Finished
    <3> QED BY <3>1, <3>2
  <2> QED BY <1>10, <2>1, <2>2, <2>3 DEF TakeFirstStat
<1>11. CASE TakeSecondStat(reply)
  <2>1. d.at # "ended" \/ ~d.answer.ok
    <3>1. \/ \E answer : EndsWith(call, answer) /\ ~answer.ok
          \/ \E req : Asks(call, "result", req)
      BY <1>11 DEF TakeSecondStat, Failed
    <3> QED BY <1>1, <1>4, <3>1 DEF EndsWith, Asks, CallFields
  <2> QED BY <2>1, FinishedNothing
<1>12. CASE TakeHealth(reply) \/ TakeRows(reply) \/ TakeDetail(reply)
  <2>1. call.at \in {"each", "rows"}
    BY <1>12 DEF TakeHealth, TakeRows, TakeDetail, Waits
  <2>2. call.tool \notin {"read_container_file", "list_container_directory"}
    BY <1>4, <2>1 DEF Asked, ComposeTools
  <2> QED BY <1>5, <2>2, FinishedNothing
<1> QED BY <1>9, <1>10, <1>11, <1>12 DEF Replies

LEMMA RepliesLook ==
  ASSUME ProtocolInv, LookInv, NEW reply, Replies(reply),
         reply.ok => request.at = "answered" /\ reply = request.reply
  PROVE  LookInv'
<1>1. SameCall(call, call') /\ Fresh(request') /\ UNCHANGED << tree, events >> /\ Finished(call')
  BY RepliesSame, RepliesFinish
<1>2. call # NoCall
  BY <1>1 DEF SameCall, CallFields, NoCall
<1>3. Dated(call')
  BY <1>1, <1>2 DEF LookInv, Dated, SameCall
<1>4. Looked(call', request')
  BY <1>1 DEF Looked, Fresh
<1> QED BY <1>1, <1>3, <1>4, LookPrimed

LEMMA LookStep ==
  ASSUME HostInv, ProtocolInv, LookInv, [Next]_vars
  PROVE  LookInv'
<1>1. CASE BeginSourceTool \/ BeginListing \/ BeginHealth
  <2>1. /\ Fresh(request') /\ UNCHANGED << tree, events >>
        /\ DOMAIN call' = CallFields /\ call'.since = 0 /\ call'.limit \in Int
        /\ call'.at = "ended" => ~call'.answer.ok \/ call'.tool = "inspect_containers_health"
    BY <1>1, BegunCall
  <2>2. Dated(call')
    BY <2>1 DEF Dated, HostInv
  <2>3. Finished(call') /\ Looked(call', request')
    BY <2>1 DEF Finished, Looked, Fresh
  <2> QED BY <2>1, <2>2, <2>3, LookPrimed
<1>2. CASE Replied
  BY <1>2, RepliesLook DEF Replied
<1>3. CASE TimeOut \/ AppIsDown
  <2>1. PICK reply : Replies(reply) /\ ~reply.ok
    BY <1>3 DEF TimeOut, AppIsDown, Failed
  <2> QED BY <2>1, RepliesLook
<1>4. CASE LookForTag \/ ReadTag
  <2>1. SameCall(call, call') /\ call.tool = "inspect_project_deployment"
        /\ UNCHANGED << tree, events >> /\ request' = NoRequest
    BY <1>4, TagSame
  <2>2. call # NoCall
    BY <2>1 DEF SameCall, CallFields, NoCall
  <2>3. Dated(call') /\ Looked(call', request') /\ Finished(call')
    BY <2>1, <2>2 DEF LookInv, Dated, SameCall, Looked, Finished
  <2> QED BY <2>1, <2>3, LookPrimed
<1>5. CASE AppRuns
  BY <1>5, AppLooks
<1>6. CASE Return
  <2>1. call' = NoCall /\ request' = request /\ UNCHANGED << tree, events >> /\ call.at = "ended"
    BY <1>6 DEF Return, appVars, hostVars
  <2>2. request = NoRequest
    BY <2>1 DEF ProtocolInv, IsRequest, Asked
  <2>3. Dated(call') /\ Looked(call', request') /\ Finished(call')
    BY <2>1, <2>2 DEF Dated, Looked, Finished
  <2> QED BY <2>1, <2>3, LookPrimed
<1>7. CASE OthersChange
  <2>1. call' = call /\ request' = request /\ events' = events + 1
    BY <1>7 DEF OthersChange, HostChanges, ReplaceTagFile, RecreateContainer, RemoveContainer,
       StopContainer, ReplacePath, Change
  <2>2. call # NoCall => call.since \in Nat /\ call.since <= events /\ events \in Nat
    BY DEF LookInv, Dated, HostInv
  <2>3. call # NoCall => call.since <= events' /\ call.since # events'
    BY <2>1, <2>2
  <2>4. request # NoRequest => call # NoCall
    BY WaitingCall DEF CallFields, NoCall
  <2>5. Dated(call)'
    BY <2>1, <2>2, <2>3 DEF LookInv, Dated
  <2>6. Looked(call, request)'
    BY <2>1, <2>3, <2>4 DEF Looked
  <2>7. Finished(call)'
    <3>1. Checked(call)' = Checked(call)
      BY <2>1 DEF Checked
    <3> QED BY <2>1, <2>3, <3>1 DEF LookInv, Finished
  <2> QED BY <2>5, <2>6, <2>7 DEF LookInv
<1>8. CASE UNCHANGED vars
  <2>1. call' = call /\ request' = request /\ UNCHANGED << tree, events >>
    BY <1>8 DEF vars, appVars, hostVars
  <2>2. Dated(call') /\ Looked(call', request') /\ Finished(call')
    BY <2>1 DEF LookInv
  <2> QED BY <2>1, <2>2, LookPrimed
<1> QED BY <1>1, <1>2, <1>3, <1>4, <1>5, <1>6, <1>7, <1>8 DEF Next, ClientStep

\* While nothing has changed, what the app saw of a path is still true.
THEOREM Looks == Spec => []LookInv
<1>1. InspectionInit => LookInv
  BY DEF InspectionInit, LookInv, Dated, Looked, Finished, NoCall
<1>2. HostInv /\ ProtocolInv /\ LookInv /\ [Next]_vars => LookInv'
  BY LookStep
<1> QED BY <1>1, <1>2, Host, Protocol, PTL DEF Spec

LEMMA CutExact ==
  ASSUME NEW content, DOMAIN content = {"version", "bytes", "text"}, content.bytes \in Nat,
         NEW limit \in Int, ~ (limit < 1), NEW cut, cut = CutContent(content, limit)
  PROVE  /\ cut.content.version = content.version /\ cut.content.bytes <= limit
         /\ cut.truncated <=> cut.content.bytes < content.bytes
<1>1. PICK b : b = IF content.bytes <= limit THEN content.bytes
                   ELSE IF content.text THEN limit ELSE limit - (limit % 3)
  OBVIOUS
<1>2. cut.content = [content EXCEPT !.bytes = b] /\ cut.truncated = (content.bytes > limit)
  BY <1>1 DEF CutContent
<1>3. cut.content.bytes = b /\ cut.content.version = content.version
  BY <1>2
<1>4. limit % 3 \in 0..2
  OBVIOUS
<1>5. b <= limit /\ (content.bytes > limit <=> b < content.bytes)
  BY <1>1, <1>4
<1> QED BY <1>2, <1>3, <1>5

\* What cat prints of a file.
LEMMA OutputOf ==
  ASSUME NEW parts, EntryAt(parts).kind = "file", NEW content, content = Output({parts})
  PROVE  /\ DOMAIN content = {"version", "bytes", "text"}
         /\ EntryAt(parts).readable => content.version = EntryAt(parts).version
                                       /\ content.bytes = Decoded(EntryAt(parts))
         /\ ~EntryAt(parts).readable => content = ErrorText
<1>1. PICK file : file = EntryAt(parts)
  OBVIOUS
<1>2. Opened(CHOOSE p \in {parts} : TRUE) = file
  <2>1. (CHOOSE p \in {parts} : TRUE) = parts
    OBVIOUS
  <2> QED BY <1>1, <2>1 DEF Opened
<1>3. content = IF file.kind # "file" \/ ~file.readable THEN ErrorText
                ELSE [version |-> file.version, bytes |-> Decoded(file), text |-> file.text]
  BY <1>2 DEF Output
<1>4. DOMAIN ErrorText = {"version", "bytes", "text"}
  BY DEF ErrorText
<1> HIDE DEF ErrorText
<1> QED BY <1>1, <1>3, <1>4

\* An unchanged file is read as it is, at most max_bytes of it, and truncated
\* says exactly whether some of it is missing; one that the exec may not read is
\* answered with the error message as its content (container_file_read).
THEOREM ReadsExactly == Spec => []ReadIsExact
<1>1. HostInv /\ LookInv /\ ProtocolInv => ReadIsExact
  <2> SUFFICES ASSUME HostInv, LookInv, ProtocolInv, Answered("read_container_file"), events = call.since
               PROVE  LET file   == EntryAt(call.parts)
                          result == call.answer.result
                      IN  /\ result.content.bytes <= call.limit
                          /\ IF file.readable
                             THEN /\ result.content.version = file.version
                                  /\ result.truncated <=> result.content.bytes < Decoded(file)
                             ELSE result.content.version = ErrorText.version
    BY DEF ReadIsExact
  <2>1. call.at = "ended" /\ call.tool = "read_container_file" /\ call.answer.ok /\ call # NoCall
    BY DEF Answered, NoCall
  <2>2. ~ (call.limit < 1) /\ call.limit \in Int /\ ReadTruly(call, call.answer.result)
    BY <2>1 DEF LookInv, Finished, Dated
  <2>3. PICK file, content, result : /\ file = EntryAt(call.parts) /\ content = Output({call.parts})
                                     /\ result = call.answer.result
    OBVIOUS
  <2>4. result = CutContent(content, call.limit) /\ file.kind = "file"
    BY <2>2, <2>3 DEF ReadTruly, Exact
  <2>5. /\ DOMAIN content = {"version", "bytes", "text"}
        /\ file.readable => content.version = file.version /\ content.bytes = Decoded(file)
        /\ ~file.readable => content = ErrorText
    BY <2>3, <2>4, OutputOf
  <2>6. Decoded(file) \in Nat /\ ErrorText.bytes \in Nat
    BY <2>3, EntrySize DEF Decoded, ErrorText
  <2> HIDE DEF Decoded, ErrorText
  <2>7. content.bytes \in Nat
    BY <2>5, <2>6
  <2>8. /\ result.content.version = content.version /\ result.content.bytes <= call.limit
        /\ result.truncated <=> result.content.bytes < content.bytes
    BY <2>2, <2>4, <2>5, <2>7, CutExact
  <2> QED BY <2>3, <2>5, <2>8
<1> QED BY <1>1, Host, Looks, Protocol, PTL

-----------------------------------------------------------------------------
(* The inventories.                                                        *)

\* The containers of the note are those of one moment.
SeenRight(c) == DOMAIN c.seen = Name /\ \A n \in Present(c.seen) : IsContainer(n, c.seen[n])
RowsOf(c)    == FirstRows(SortedRows(c.seen), MaxContainers).rows
AllVolumes(filters) == Sorted(MatchingVolumes(filters), LAMBDA v : v.name)
VolumesOf(c) == FirstRows(AllVolumes(c.filters), MaxVolumes).rows
ExpectedOf(c) == ExpectedServices(c.manifest.sources)

Inventoried(c, r) ==
  r # NoRequest =>
    /\ r.op = "vps_volumes_inventory" => r.filters = c.filters
    /\ r.at = "answered" /\ r.reply.ok =>
         /\ r.op = "vps_containers_inventory" => SeenRight(c) /\ r.reply.result.rows = RowsOf(c)
         /\ r.op = "vps_volumes_inventory" => r.reply.result.rows = VolumesOf(c)

\* What the tools make of an inventory.
Reported(c) ==
  c # NoCall =>
    /\ c.tool = "inspect_project_runtime" /\ c.at = "each" => SeenRight(c) /\ c.rows = RowsOf(c)
    /\ c.at = "ended" /\ c.answer.ok =>
         /\ c.tool = "inspect_vps_containers" =>
              SeenRight(c) /\ c.answer.result = [rows |-> RowsOf(c),
                                                 truncated |-> CutMark(RowsOf(c), MaxContainers)]
         /\ c.tool = "inspect_vps_volumes" =>
              c.answer.result = [rows |-> VolumesOf(c), truncated |-> CutMark(VolumesOf(c), MaxVolumes)]
         /\ c.tool = "inspect_project_compose_state" =>
              SeenRight(c) /\ c.answer.result = ComposeWarnings(RowsOf(c), ExpectedOf(c))

\* The inductive invariant of the inventories: the rows of an answer are the first
\* ones of what was seen, and the tools report what they make of these rows.
InventoryInv == Inventoried(call, request) /\ Reported(call)

InventoryTools == {"inspect_vps_containers", "inspect_vps_volumes", "inspect_project_compose_state",
                   "inspect_project_runtime"}

LEMMA ReportedNothing ==
  ASSUME NEW c,
         \/ c.tool \notin InventoryTools
         \/ /\ c.at # "ended" \/ ~c.answer.ok
            /\ c.tool # "inspect_project_runtime" \/ c.at # "each"
  PROVE  Reported(c)
BY DEF Reported, InventoryTools

LEMMA FreshInventory ==
  ASSUME NEW c, NEW r, Fresh(r), r.op # "vps_volumes_inventory" \/ r.filters = c.filters
  PROVE  Inventoried(c, r)
BY DEF Inventoried, Fresh

LEMMA VolumesListed ==
  ASSUME AppListsVolumes, DOMAIN request = RequestFields, NEW c, request.filters = c.filters,
         NEW r, r = request'
  PROVE  r.filters = c.filters /\ r.op = "vps_volumes_inventory" /\ r.reply.result.rows = VolumesOf(c)
<1>1. PICK x : x = FirstRows(Sorted(MatchingVolumes(request.filters), LAMBDA v : v.name), MaxVolumes)
  OBVIOUS
<1>2. Answer(Result(x)) /\ request.op = "vps_volumes_inventory"
  BY <1>1 DEF AppListsVolumes
<1>3. r.op = request.op /\ r.reply.result = x
  BY <1>2, AnsweredWith
<1>4. r.filters = request.filters
  BY <1>2 DEF Answer, RequestFields
<1> QED BY <1>1, <1>2, <1>3, <1>4 DEF VolumesOf, AllVolumes

LEMMA AppInventories ==
  ASSUME HostInv, ProtocolInv, InventoryInv, AppRuns
  PROVE  InventoryInv'
<1>1. /\ request # NoRequest /\ request'.op = request.op /\ request'.filters = request.filters
      /\ DOMAIN request = RequestFields
      /\ DOMAIN call = CallFields /\ call.at \in Waiting /\ Asked(call, request)
  BY AppKeepsRequest, WaitingCall
<1>2. PICK c, seen, since :
        /\ c = [call EXCEPT !.seen = seen, !.since = since] /\ call' = c
        /\ seen = IF request.op = "vps_containers_inventory" THEN containers ELSE call.seen
  BY DEF AppRuns
<1>3. /\ DOMAIN c = CallFields /\ c.seen = seen /\ c.filters = call.filters /\ c.tool = call.tool
      /\ c.at = call.at /\ c.rows = call.rows
  BY <1>1, <1>2 DEF CallFields
<1>4. PICK r : r = request'
  OBVIOUS
<1>5. Reported(c)
  <2>1. c.tool = "inspect_project_runtime" /\ c.at = "each" => seen = call.seen
    BY <1>1, <1>2, <1>3 DEF Asked
  <2>2. call # NoCall
    BY <1>1 DEF CallFields, NoCall
  <2> QED BY <1>1, <1>3, <2>1, <2>2 DEF InventoryInv, Reported, SeenRight, RowsOf, Waiting
<1>6. Inventoried(c, r)
  <2>1. CASE request.op \notin {"vps_containers_inventory", "vps_volumes_inventory"}
    BY <1>1, <1>4, <2>1 DEF Inventoried
  <2>2. CASE request.op = "vps_containers_inventory"
    <3>1. SeenRight(c)
      BY <1>2, <1>3, <2>2 DEF SeenRight, HostInv
    <3>2. CASE AppListsContainers
      <4>1. PICK x : x = FirstRows(SortedRows(containers), MaxContainers)
        OBVIOUS
      <4>2. Answer(Result(x))
        BY <3>2, <4>1 DEF AppListsContainers
      <4>3. r.reply.result = x
        BY <1>1, <1>4, <4>2, AnsweredWith
      <4>4. r.reply.result.rows = RowsOf(c)
        BY <1>2, <1>3, <2>2, <4>1, <4>3 DEF RowsOf
      <4> QED BY <1>1, <1>4, <2>2, <3>1, <4>4 DEF Inventoried
    <3>3. CASE DockerFails
      <4>1. ~r.reply.ok
        BY <1>1, <1>4, <3>3 DEF DockerFails, Answer, Failed, RequestFields
      <4> QED BY <1>1, <1>4, <2>2, <4>1 DEF Inventoried
    <3>4. AppListsContainers \/ DockerFails
      BY <2>2 DEF AppRuns, AppStep, AppInspects, AppListsVolumes, AppStats, AppFinds, AppPrintsFile,
         AppPrintsDirectory, PathOperations
    <3> QED BY <3>2, <3>3, <3>4
  <2>3. CASE request.op = "vps_volumes_inventory"
    <3>1. request.filters = call.filters
      BY <1>1, <2>3 DEF InventoryInv, Inventoried
    <3>2. CASE AppListsVolumes
      <4>1. r.filters = c.filters /\ r.op = "vps_volumes_inventory" /\ r.reply.result.rows = VolumesOf(c)
        BY <1>1, <1>3, <1>4, <3>1, <3>2, VolumesListed
      <4> QED BY <4>1 DEF Inventoried
    <3>3. CASE DockerFails
      <4>1. ~r.reply.ok
        BY <1>1, <1>4, <3>3 DEF DockerFails, Answer, Failed, RequestFields
      <4> QED BY <1>1, <1>3, <1>4, <2>3, <3>1, <4>1 DEF Inventoried
    <3>4. AppListsVolumes \/ DockerFails
      BY <2>3 DEF AppRuns, AppStep, AppInspects, AppListsContainers, AppStats, AppFinds, AppPrintsFile,
         AppPrintsDirectory, PathOperations
    <3> QED BY <3>2, <3>3, <3>4
  <2> QED BY <2>1, <2>2, <2>3
<1>7. Inventoried(call', request') /\ Reported(call')
  BY <1>2, <1>4, <1>5, <1>6
<1> QED BY <1>7 DEF InventoryInv

LEMMA RowsReported ==
  ASSUME ProtocolInv, InventoryInv, NEW reply, TakeRows(reply),
         reply.ok => request.at = "answered" /\ reply = request.reply,
         NEW d, d = call', SameCall(call, d)
  PROVE  Reported(d)
<1>0. request # NoRequest /\ call.at = "rows"
  BY DEF TakeRows, Waits
<1>1. DOMAIN call = CallFields /\ call # NoCall /\ Asked(call, request)
  BY <1>0, WaitingCall DEF CallFields, NoCall
<1>2. PICK c, names :
        /\ c = [call EXCEPT !.rows = reply.result.rows]
        /\ names = SelectedRows(c.rows, Expected)
        /\ \/ ~reply.ok /\ EndsWith(call, reply) /\ request' = NoRequest
           \/ /\ reply.ok /\ call.tool \in ListingTools
              /\ EndsWith(call, Result(ListingResult(reply.result.rows))) /\ request' = NoRequest
           \/ /\ reply.ok /\ call.tool \in ComposeTools /\ ComposeUnavailable
              /\ EndsWith(call, Failed("no_compose_selectors")) /\ request' = NoRequest
           \/ /\ reply.ok /\ call.tool = "inspect_project_compose_state" /\ ~ComposeUnavailable
              /\ EndsWith(c, Result(ComposeWarnings(c.rows, Expected))) /\ request' = NoRequest
           \/ /\ reply.ok /\ call.tool = "inspect_project_deployment" /\ ~ComposeUnavailable
              /\ call' = [c EXCEPT !.at = "look_tag"] /\ request' = NoRequest
           \/ /\ reply.ok /\ call.tool = "inspect_project_runtime" /\ ~ComposeUnavailable
              /\ IF names = << >>
                 THEN EndsWith(c, Result(RuntimeRows(c.rows, Expected, << >>))) /\ request' = NoRequest
                 ELSE Asks([c EXCEPT !.todo = [i \in DOMAIN names |-> names[i].name]], "each",
                           NameRequest("container_detail", names[1].name))
  BY DEF TakeRows
<1>3. SameCall(call, call) /\ SameCall(call, c) /\ c.rows = reply.result.rows
  BY <1>1, <1>2 DEF SameCall, CallFields
<1>4. d.tool = call.tool /\ d.seen = call.seen /\ d.filters = call.filters /\ d.manifest = call.manifest
  BY DEF SameCall
<1>5. RowsOf(d) = RowsOf(call) /\ VolumesOf(d) = VolumesOf(call) /\ (SeenRight(call) => SeenRight(d))
      /\ ExpectedOf(d) = Expected
  BY <1>4 DEF RowsOf, VolumesOf, SeenRight, ExpectedOf, Expected
<1>6. ASSUME reply.ok
      PROVE  /\ request.op = "vps_containers_inventory" => SeenRight(d) /\ reply.result.rows = RowsOf(d)
             /\ request.op = "vps_volumes_inventory" => reply.result.rows = VolumesOf(d)
  BY <1>0, <1>5, <1>6 DEF InventoryInv, Inventoried
<1>7. CASE \E answer : EndsWith(call, answer) /\ ~answer.ok
  <2>1. d.at = "ended" /\ ~d.answer.ok
    BY <1>3, <1>7, EndSame
  <2> QED BY <2>1, ReportedNothing
<1>8. CASE /\ reply.ok /\ call.tool \in ListingTools
           /\ EndsWith(call, Result(ListingResult(reply.result.rows)))
  <2>1. d.at = "ended" /\ d.answer = Result(ListingResult(reply.result.rows))
    BY <1>3, <1>8, EndSame
  <2>2. d.answer.result = ListingResult(reply.result.rows)
    BY <2>1 DEF Result
  <2>3. CASE call.tool = "inspect_vps_containers"
    <3>1. request.op = "vps_containers_inventory"
      BY <1>0, <1>1, <2>3 DEF Asked
    <3>2. SeenRight(d) /\ reply.result.rows = RowsOf(d)
      BY <1>6, <1>8, <3>1
    <3>3. d.answer.result = [rows |-> RowsOf(d), truncated |-> CutMark(RowsOf(d), MaxContainers)]
      BY <2>2, <2>3, <3>2 DEF ListingResult
    <3> QED BY <1>4, <2>1, <2>3, <3>2, <3>3 DEF Reported
  <2>4. CASE call.tool = "inspect_vps_volumes"
    <3>1. request.op = "vps_volumes_inventory"
      BY <1>0, <1>1, <2>4 DEF Asked, ComposeTools
    <3>2. reply.result.rows = VolumesOf(d)
      BY <1>6, <1>8, <3>1
    <3>3. d.answer.result = [rows |-> VolumesOf(d), truncated |-> CutMark(VolumesOf(d), MaxVolumes)]
      BY <2>2, <2>4, <3>2 DEF ListingResult
    <3> QED BY <1>4, <2>1, <2>4, <3>2, <3>3 DEF Reported
  <2> QED BY <1>8, <2>3, <2>4 DEF ListingTools
<1>9. CASE /\ reply.ok /\ call.tool = "inspect_project_compose_state"
           /\ EndsWith(c, Result(ComposeWarnings(c.rows, Expected)))
  <2>1. d.at = "ended" /\ d.answer = Result(ComposeWarnings(c.rows, Expected))
    BY <1>3, <1>9, EndSame
  <2>2. d.answer.result = ComposeWarnings(c.rows, Expected)
    BY <2>1 DEF Result
  <2>3. request.op = "vps_containers_inventory"
    BY <1>0, <1>1, <1>9 DEF Asked
  <2>4. SeenRight(d) /\ c.rows = RowsOf(d)
    BY <1>3, <1>6, <1>9, <2>3
  <2>5. d.answer.result = ComposeWarnings(RowsOf(d), ExpectedOf(d))
    BY <1>5, <2>2, <2>4
  <2> QED BY <1>4, <1>9, <2>1, <2>4, <2>5 DEF Reported
<1>10. CASE call.tool = "inspect_project_deployment"
  BY <1>4, <1>10, ReportedNothing DEF InventoryTools
<1>11. CASE /\ reply.ok /\ call.tool = "inspect_project_runtime"
  <2>1. request.op = "vps_containers_inventory"
    BY <1>0, <1>1, <1>11 DEF Asked
  <2>2. SeenRight(d) /\ c.rows = RowsOf(d)
    BY <1>3, <1>6, <1>11, <2>1
  <2>3. PICK e : e = [c EXCEPT !.todo = [i \in DOMAIN names |-> names[i].name]]
    OBVIOUS
  <2>4. SameCall(call, e) /\ e.rows = c.rows
    BY <1>3, <2>3 DEF SameCall, CallFields
  <2>5. d.rows = c.rows \/ \E answer : EndsWith(call, answer)
    <3>1. \/ \E answer : EndsWith(c, answer)
          \/ \E req : Asks(e, "each", req)
          \/ \E answer : EndsWith(call, answer)
      BY <1>2, <1>11, <2>3
    <3> QED BY <1>3, <2>4, <3>1, EndSame, AskSame
  <2>6. (\E answer : EndsWith(call, answer)) => d.at = "ended"
    BY <1>3, EndSame
  <2>7. d.at = "each" => d.rows = RowsOf(d)
    BY <2>2, <2>5, <2>6
  <2> QED BY <1>4, <1>11, <2>2, <2>7 DEF Reported
<1> QED BY <1>2, <1>7, <1>8, <1>9, <1>10, <1>11 DEF Failed

LEMMA RepliesReported ==
  ASSUME ProtocolInv, InventoryInv, NEW reply, Replies(reply),
         reply.ok => request.at = "answered" /\ reply = request.reply
  PROVE  InventoryInv'
<1>1. PICK d, r : d = call' /\ r = request'
  OBVIOUS
<1>2. SameCall(call, d) /\ Fresh(r)
  BY <1>1, RepliesSame
<1>3. request # NoRequest
  BY DEF Replies, TakeResult, TakeFirstStat, TakeSecondStat, TakeHealth, TakeRows, TakeDetail, Waits
<1>4. /\ DOMAIN call = CallFields /\ call # NoCall /\ Asked(call, request)
  BY <1>3, WaitingCall DEF CallFields, NoCall
<1>5. Reported(d)
  <2>1. CASE TakeRows(reply)
    BY <1>1, <1>2, <2>1, RowsReported
  <2>2. CASE TakeDetail(reply)
    <3>1. PICK c, details :
        /\ c = [call EXCEPT !.todo = Tail(@), !.got = IF reply.ok THEN Append(@, reply.result) ELSE @]
        /\ IF c.todo = << >>
           THEN EndsWith(c, Result(RuntimeRows(c.rows, Expected, details))) /\ request' = NoRequest
           ELSE Asks(c, "each", NameRequest("container_detail", Head(c.todo)))
      BY <2>2 DEF TakeDetail
    <3>2. SameCall(call, c) /\ c.rows = call.rows
      BY <1>4, <3>1 DEF SameCall, CallFields
    <3>3. d.rows = call.rows
      <4>1. (\E answer : EndsWith(c, answer)) \/ \E req : Asks(c, "each", req)
        BY <3>1
      <4>2. CASE \E answer : EndsWith(c, answer)
        <5>1. PICK answer : EndsWith(c, answer)
          BY <4>2
        <5> QED BY <1>1, <3>2, <5>1, EndSame
      <4>3. CASE \E req : Asks(c, "each", req)
        <5>1. PICK req : Asks(c, "each", req)
          BY <4>3
        <5> QED BY <1>1, <3>2, <5>1, AskSame
      <4> QED BY <4>1, <4>2, <4>3
    <3>4. call.tool = "inspect_project_runtime" /\ call.at = "each"
      BY <2>2 DEF TakeDetail, Waits
    <3>5. SeenRight(call) /\ call.rows = RowsOf(call)
      BY <1>4, <3>4 DEF InventoryInv, Reported
    <3>6. d.seen = call.seen /\ d.tool = call.tool
      BY <1>2 DEF SameCall
    <3>7. SeenRight(d) /\ RowsOf(d) = RowsOf(call)
      BY <3>5, <3>6 DEF SeenRight, RowsOf
    <3> QED BY <3>3, <3>4, <3>5, <3>6, <3>7 DEF Reported
  <2>3. CASE TakeResult(reply) \/ TakeFirstStat(reply) \/ TakeSecondStat(reply) \/ TakeHealth(reply)
    <3>1. call.tool \notin InventoryTools
      BY <1>4, <2>3 DEF TakeResult, TakeFirstStat, TakeSecondStat, TakeHealth, Waits, Asked,
         InventoryTools, PathTools
    <3>2. d.tool = call.tool
      BY <1>2 DEF SameCall
    <3>3. d.tool \notin InventoryTools
      BY <3>1, <3>2
    <3> QED BY <3>3, ReportedNothing
  <2> QED BY <2>1, <2>2, <2>3 DEF Replies
<1>6. ProtocolInv'
  BY ReplyProtocol
<1>7. r = NoRequest \/ r.op # "vps_volumes_inventory"
  <2>1. \/ r = NoRequest \/ \E op : r = PathRequest(call, op) /\ op \in PathOperations
        \/ \E op, n : r = NameRequest(op, n) /\ op \in {"container_detail", "container_health"}
    <3>1. CASE TakeResult(reply)
      BY <1>1, <3>1 DEF TakeResult
    <3>2. CASE TakeFirstStat(reply)
      BY <1>1, <3>2 DEF TakeFirstStat, ReadAfterStat, ListAfterStat, StatRequest, PathOperations, Asks
    <3>3. CASE TakeSecondStat(reply)
      BY <1>1, <3>3 DEF TakeSecondStat, PathOperations, Asks
    <3>4. CASE TakeHealth(reply)
      BY <1>1, <3>4 DEF TakeHealth, Asks
    <3>5. CASE TakeDetail(reply)
      BY <1>1, <3>5 DEF TakeDetail, Asks
    <3>6. CASE TakeRows(reply)
      BY <1>1, <3>6 DEF TakeRows, Asks
    <3> QED BY <3>1, <3>2, <3>3, <3>4, <3>5, <3>6 DEF Replies
  <2> QED BY <2>1, NameRequestIs, PathRequestIs DEF PathOperations
<1>8. Inventoried(d, r)
  BY <1>2, <1>7 DEF Inventoried, Fresh
<1>9. Inventoried(call', request') /\ Reported(call')
  BY <1>1, <1>5, <1>8
<1> QED BY <1>9 DEF InventoryInv

LEMMA SourceToolIs ==
  ASSUME BeginSourceTool, NEW d, d = call'
  PROVE  d.tool \in SourceTools
<1>1. PICK tool \in SourceTools, m \in Manifest, raw \in RawPath \union {NoPath}, limit \in ByteLimit :
     \E key \in {s.key : s \in ToSet(m.sources)} \union {"unknown"} :
       /\ tool # "read_container_file" => limit = Max(ByteLimit)
       /\ tool \notin PathTools => raw = NoPath
       /\ IF ToolError(tool, m, key, raw) # ""
          THEN EndsWith(NewCall(tool, m, << >>, << >>, limit), Failed(ToolError(tool, m, key, raw)))
               /\ UNCHANGED request
          ELSE LET s == CHOOSE x \in SourcesOf(m, key) : TRUE
                   c == NewCall(tool, m, s, NormalizedPath(RequestedPath(tool, s, raw)).parts, limit)
               IN  IF tool \in PathTools THEN Asks(c, "first_stat", StatRequest(c))
                   ELSE Asks(c, "result", NameRequest("container_detail", s.target))
  BY DEF BeginSourceTool
<1>2. \E source, parts, c : c = NewCall(tool, m, source, parts, limit)
                           /\ ((\E answer : EndsWith(c, answer)) \/ \E at, req : Asks(c, at, req))
  BY <1>1
<1>3. PICK source, parts, c : c = NewCall(tool, m, source, parts, limit)
                           /\ ((\E answer : EndsWith(c, answer)) \/ \E at, req : Asks(c, at, req))
  BY <1>2
<1>4. DOMAIN c = CallFields /\ c.tool = tool
  BY <1>3, NewCallIs
<1> QED BY <1>3, <1>4 DEF EndsWith, Asks, CallFields

LEMMA BeginsInventory ==
  ASSUME ProtocolInv, BeginSourceTool \/ BeginListing \/ BeginHealth
  PROVE  InventoryInv'
<1>1. PICK d, r : d = call' /\ r = request'
  OBVIOUS
<1>2. /\ Fresh(r) /\ DOMAIN d = CallFields
      /\ d.at = "ended" => ~d.answer.ok \/ d.tool = "inspect_containers_health"
  BY <1>1, BegunCall
<1>3. r = NoRequest \/ r.op # "vps_volumes_inventory" \/ r.filters = d.filters
  <2>1. CASE BeginListing
    <3>1. PICK tool, m, filters, b, c, op, q, f :
         /\ b = NewCall(tool, m, << >>, << >>, 0)
         /\ c = [b EXCEPT !.filters = filters]
         /\ q = NameRequest(op, 0)
         /\ f = [q EXCEPT !.filters = filters]
         /\ Asks(c, "rows", f)
      BY <2>1 DEF BeginListing
    <3>2. DOMAIN b = CallFields /\ DOMAIN q = RequestFields
      BY <3>1, NewCallIs, NameRequestIs
    <3>3. DOMAIN c = CallFields /\ c.filters = filters /\ f.filters = filters
      BY <3>1, <3>2 DEF CallFields, RequestFields
    <3>4. d = [c EXCEPT !.at = "rows"] /\ r = f
      BY <1>1, <3>1 DEF Asks
    <3> QED BY <3>3, <3>4 DEF CallFields
  <2>2. CASE BeginHealth
    <3>1. request = NoRequest
      BY <2>2, BegunCall
    <3>2. r = NoRequest \/ \E n : r = NameRequest("container_health", n)
      BY <1>1, <2>2, <3>1 DEF BeginHealth, Asks
    <3> QED BY <3>2, NameRequestIs
  <2>3. CASE BeginSourceTool
    <3>1. ProtocolInv'
      BY <2>3, SourceToolBegins
    <3>2. r = NoRequest \/ Asked(d, r)
      BY <1>1, <3>1 DEF ProtocolInv, IsRequest
    <3>3. d.tool \in SourceTools
      BY <1>1, <2>3, SourceToolIs
    <3> QED BY <3>2, <3>3 DEF Asked, SourceTools, PathTools
  <2> QED BY <2>1, <2>2, <2>3
<1>4. d.tool # "inspect_project_runtime" \/ d.at # "each"
  <2>1. CASE BeginListing \/ BeginHealth
    <3>1. CASE BeginListing
      <4>1. PICK c : call' = [c EXCEPT !.at = "rows"]
        BY <3>1 DEF BeginListing, Asks
      <4> QED BY <1>1, <1>2, <4>1 DEF CallFields
    <3>2. CASE BeginHealth
      <4>1. PICK m, todo, b, c :
         /\ b = NewCall("inspect_containers_health", m, << >>, << >>, 0)
         /\ c = [b EXCEPT !.todo = todo]
         /\ \/ \E answer : EndsWith(c, answer)
            \/ \E req : Asks(c, "each", req)
        BY <3>2 DEF BeginHealth
      <4>2. DOMAIN b = CallFields /\ b.tool = "inspect_containers_health"
        BY <4>1, NewCallIs
      <4>3. DOMAIN c = CallFields /\ c.tool = "inspect_containers_health"
        BY <4>1, <4>2 DEF CallFields
      <4> QED BY <1>1, <4>1, <4>3 DEF EndsWith, Asks, CallFields
    <3> QED BY <2>1, <3>1, <3>2
  <2>2. CASE BeginSourceTool
    BY <1>1, <2>2, SourceToolIs DEF SourceTools, PathTools
  <2> QED BY <2>1, <2>2
<1>5. Inventoried(d, r)
  BY <1>2, <1>3, FreshInventory DEF Inventoried
<1>6. Reported(d)
  BY <1>2, <1>4, ReportedNothing DEF InventoryTools
<1>7. Inventoried(call', request') /\ Reported(call')
  BY <1>1, <1>5, <1>6
<1> QED BY <1>7 DEF InventoryInv

LEMMA InventoryStep ==
  ASSUME HostInv, ProtocolInv, InventoryInv, [Next]_vars
  PROVE  InventoryInv'
<1>1. CASE BeginSourceTool \/ BeginListing \/ BeginHealth
  BY <1>1, BeginsInventory
<1>2. CASE Replied
  BY <1>2, RepliesReported DEF Replied
<1>3. CASE TimeOut \/ AppIsDown
  <2>1. PICK reply : Replies(reply) /\ ~reply.ok
    BY <1>3 DEF TimeOut, AppIsDown, Failed
  <2> QED BY <2>1, RepliesReported
<1>4. CASE LookForTag \/ ReadTag
  <2>1. SameCall(call, call') /\ call.tool = "inspect_project_deployment" /\ request' = NoRequest
    BY <1>4, TagSame
  <2>2. Inventoried(call', request') /\ Reported(call')
    BY <2>1 DEF SameCall, Inventoried, Reported
  <2> QED BY <2>2 DEF InventoryInv
<1>5. CASE AppRuns
  BY <1>5, AppInventories
<1>6. CASE Return
  <2>1. call' = NoCall /\ request' = request /\ call.at = "ended"
    BY <1>6 DEF Return, appVars
  <2>2. request = NoRequest
    BY <2>1 DEF ProtocolInv, IsRequest, Asked
  <2>3. Inventoried(call', request') /\ Reported(call')
    BY <2>1, <2>2 DEF Inventoried, Reported
  <2> QED BY <2>3 DEF InventoryInv
<1>7. CASE OthersChange \/ UNCHANGED vars
  <2>1. call' = call /\ request' = request
    BY <1>7 DEF OthersChange, HostChanges, ReplaceTagFile, vars, appVars
  <2>2. Inventoried(call', request') /\ Reported(call')
    BY <2>1 DEF InventoryInv
  <2> QED BY <2>2 DEF InventoryInv
<1> QED BY <1>1, <1>2, <1>3, <1>4, <1>5, <1>6, <1>7 DEF Next, ClientStep

\* Rows are never mixed from two moments, nor reported of another inventory.
THEOREM Inventories == Spec => []InventoryInv
<1>1. InspectionInit => InventoryInv
  BY DEF InspectionInit, InventoryInv, Inventoried, Reported
<1>2. HostInv /\ ProtocolInv /\ InventoryInv /\ [Next]_vars => InventoryInv'
  BY InventoryStep
<1> QED BY <1>1, <1>2, Host, Protocol, PTL DEF Spec

-----------------------------------------------------------------------------
(* Rows.                                                                   *)

LEMMA FirstRowsAre ==
  ASSUME NEW T, NEW rows \in Seq(T), NEW max \in Nat, NEW first, first = FirstRows(rows, max)
  PROVE  /\ first.rows \in Seq(T) /\ Len(first.rows) = IF Len(rows) < max THEN Len(rows) ELSE max
         /\ Len(rows) <= max => first.rows = rows
         /\ first.truncated <=> Len(rows) > max
<1>1. PICK k : k = IF Len(rows) < max THEN Len(rows) ELSE max
  OBVIOUS
<1>2. first.rows = SubSeq(rows, 1, k) /\ first.truncated = (Len(rows) > max)
  BY <1>1 DEF FirstRows
<1>3. Len(rows) \in Nat /\ k \in Nat /\ k <= Len(rows)
  BY <1>1
<1>4. PICK s : s = SubSeq(rows, 1, k)
  OBVIOUS
<1>5. s \in Seq(T) /\ Len(s) = k /\ \A i \in 1..k : s[i] = rows[i]
  BY <1>3, <1>4, SubSeqProperties
<1>6. ASSUME Len(rows) <= max PROVE s = rows
  <2>1. k = Len(rows)
    BY <1>1, <1>3, <1>6
  <2> QED BY <1>5, <2>1, SeqEqual
<1> QED BY <1>1, <1>2, <1>4, <1>5, <1>6

LEMMA SortedRowsAre ==
  ASSUME NEW cs, IsFiniteSet(DOMAIN cs), DOMAIN cs \subseteq Nat, NEW rows, rows = SortedRows(cs)
  PROVE  /\ rows \in Seq({cs[n] : n \in Present(cs)}) /\ Len(rows) = Cardinality(Present(cs))
         /\ ToSet(rows) = {cs[n] : n \in Present(cs)}
         /\ (\A n \in Present(cs) : cs[n].name = n) =>
              \A i, j \in DOMAIN rows : rows[i] = rows[j] => i = j
<1> DEFINE key == [n \in Present(cs) |-> n]
<1>1. Present(cs) \subseteq Nat /\ IsFiniteSet(Present(cs))
  BY FS_Subset DEF Present
<1>2. key \in [Present(cs) -> Nat] /\ \A n \in Present(cs) : key[n] = n
  BY <1>1
<1> HIDE DEF key
<1>3. PICK s \in SetToSeqs(Present(cs)) : OrderedBy(s, key)
  BY <1>1, <1>2, CanBeOrdered
<1>4. \A i, j \in DOMAIN s : i < j => s[i] <= s[j]
  <2>1. s \in Seq(Present(cs))
    BY <1>1, <1>3, SetToSeqsElements
  <2> QED BY <1>2, <1>3, <2>1 DEF OrderedBy
<1>5. PICK names : names = Sorted(Present(cs), LAMBDA n : n)
  OBVIOUS
<1>6. names \in SetToSeqs(Present(cs))
  BY <1>3, <1>4, <1>5 DEF Sorted, InOrder
<1>7. /\ names \in Seq(Present(cs)) /\ Len(names) = Cardinality(Present(cs))
      /\ ToSet(names) = Present(cs)
      /\ \A i, j \in 1..Cardinality(Present(cs)) : i # j => names[i] # names[j]
  BY <1>1, <1>6, SetToSeqsElements DEF SetToSeqs
<1>8. rows = [i \in DOMAIN names |-> cs[names[i]]]
  BY <1>5 DEF SortedRows
<1>9. DOMAIN names = 1..Len(names) /\ Len(names) \in Nat
  BY <1>7
<1>10. \A i \in 1..Len(names) : names[i] \in Present(cs) /\ rows[i] = cs[names[i]]
  BY <1>7, <1>8, <1>9
<1>11. rows \in Seq({cs[n] : n \in Present(cs)}) /\ DOMAIN rows = 1..Len(names) /\ Len(rows) = Len(names)
  BY <1>8, <1>9, <1>10
<1>12. ToSet(rows) = {cs[n] : n \in Present(cs)}
  <2>1. \A n \in Present(cs) : \E i \in 1..Len(names) : names[i] = n
    BY <1>7, <1>9 DEF ToSet
  <2> QED BY <1>10, <1>11, <2>1 DEF ToSet
<1>13. ASSUME \A n \in Present(cs) : cs[n].name = n, NEW i \in DOMAIN rows, NEW j \in DOMAIN rows,
              rows[i] = rows[j]
       PROVE  i = j
  <2>1. names[i] = names[j]
    BY <1>10, <1>11, <1>13
  <2> QED BY <1>7, <1>11, <1>13, <2>1
<1> QED BY <1>7, <1>11, <1>12, <1>13

LEMMA AllVolumesAre ==
  ASSUME NEW filters, NEW volumes, volumes = AllVolumes(filters)
  PROVE  volumes \in Seq(MatchingVolumes(filters)) /\ ToSet(volumes) = MatchingVolumes(filters)
<1> DEFINE S == MatchingVolumes(filters)
           key == [v \in S |-> v.name]
<1>1. S \subseteq Volume
  BY DEF MatchingVolumes
<1>2. IsFiniteSet(S) /\ \A v \in S : v.name \in Nat
  BY <1>1, FS_Subset, SocketAppAssumption
<1>3. key \in [S -> Nat] /\ \A v \in S : key[v] = v.name
  BY <1>2
<1>4. volumes = Sorted(S, LAMBDA v : v.name)
  BY DEF AllVolumes
<1> HIDE DEF key, S
<1>5. PICK s \in SetToSeqs(S) : OrderedBy(s, key)
  BY <1>2, <1>3, CanBeOrdered
<1>6. \A i, j \in DOMAIN s : i < j => s[i].name <= s[j].name
  <2>1. s \in Seq(S)
    BY <1>2, <1>5, SetToSeqsElements
  <2> QED BY <1>3, <1>5, <2>1 DEF OrderedBy
<1>7. volumes \in SetToSeqs(S)
  BY <1>4, <1>5, <1>6 DEF Sorted, InOrder
<1> QED BY <1>2, <1>7, SetToSeqsElements DEF S

LEMMA ListOrderIs ==
  ASSUME NEW S, IsFiniteSet(S), NEW metas, metas = ListOrder(S)
  PROVE  metas \in Seq(S) /\ ToSet(metas) = S
<1> DEFINE key == [m \in S |-> IF m.is_dir THEN 0 ELSE 1]
<1>3. key \in [S -> Nat] /\ \A m \in S : key[m] = IF m.is_dir THEN 0 ELSE 1
  OBVIOUS
<1>4. metas = Sorted(S, LAMBDA m : IF m.is_dir THEN 0 ELSE 1)
  BY DEF ListOrder
<1> HIDE DEF key
<1>5. PICK s \in SetToSeqs(S) : OrderedBy(s, key)
  BY <1>3, CanBeOrdered
<1>6. \A i, j \in DOMAIN s : i < j =>
        (IF s[i].is_dir THEN 0 ELSE 1) <= (IF s[j].is_dir THEN 0 ELSE 1)
  <2>1. s \in Seq(S)
    BY <1>5, SetToSeqsElements
  <2> QED BY <1>3, <1>5, <2>1 DEF OrderedBy
<1>7. metas \in SetToSeqs(S)
  BY <1>4, <1>5, <1>6 DEF Sorted, InOrder
<1> QED BY <1>7, SetToSeqsElements

\* The rows are the containers that were seen, each once.
LEMMA SeenRows ==
  ASSUME NEW c, SeenRight(c), NEW rows, rows = SortedRows(c.seen)
  PROVE  /\ rows \in Seq({c.seen[n] : n \in Present(c.seen)})
         /\ Len(rows) = Cardinality(Present(c.seen)) /\ Len(rows) \in Nat
         /\ ToSet(rows) = {c.seen[n] : n \in Present(c.seen)}
         /\ \A i, j \in DOMAIN rows : rows[i] = rows[j] => i = j
<1>1. PICK cs : cs = c.seen
  OBVIOUS
<1>2. DOMAIN cs = Name /\ \A n \in Present(cs) : cs[n].name = n
  BY <1>1 DEF SeenRight, IsContainer
<1>3. IsFiniteSet(DOMAIN cs) /\ DOMAIN cs \subseteq Nat
  BY <1>2, SocketAppAssumption
<1>4. rows = SortedRows(cs)
  BY <1>1
<1>5. /\ rows \in Seq({cs[n] : n \in Present(cs)})
      /\ Len(rows) = Cardinality(Present(cs))
      /\ ToSet(rows) = {cs[n] : n \in Present(cs)}
      /\ \A i, j \in DOMAIN rows : rows[i] = rows[j] => i = j
  BY <1>2, <1>3, <1>4, SortedRowsAre
<1> QED BY <1>1, <1>5

-----------------------------------------------------------------------------
(* What the listings tell.                                                 *)

LEMMA VolumesTold ==
  ASSUME InventoryInv, Answered("inspect_vps_volumes"), ~call.answer.result.truncated
  PROVE  ToSet(call.answer.result.rows) = MatchingVolumes(call.filters)
<1>1. call.answer.result = [rows |-> VolumesOf(call), truncated |-> CutMark(VolumesOf(call), MaxVolumes)]
  BY DEF InventoryInv, Reported, Answered, NoCall
<1>2. PICK volumes, rows : volumes = AllVolumes(call.filters) /\ rows = VolumesOf(call)
  OBVIOUS
<1>3. volumes \in Seq(MatchingVolumes(call.filters)) /\ ToSet(volumes) = MatchingVolumes(call.filters)
  BY <1>2, AllVolumesAre
<1>4. ~ (Len(rows) >= MaxVolumes)
  <2>1. ~CutMark(VolumesOf(call), MaxVolumes)
    BY <1>1
  <2> QED BY <1>2, <2>1 DEF CutMark
<1>5. rows = FirstRows(volumes, MaxVolumes).rows /\ MaxVolumes \in Nat
  BY <1>2, SocketAppAssumption DEF VolumesOf
<1>6. Len(rows) = (IF Len(volumes) < MaxVolumes THEN Len(volumes) ELSE MaxVolumes)
      /\ (Len(volumes) <= MaxVolumes => rows = volumes) /\ Len(volumes) \in Nat
  BY <1>3, <1>5, FirstRowsAre
<1>7. rows = volumes
  BY <1>4, <1>5, <1>6
<1> QED BY <1>1, <1>2, <1>3, <1>7

LEMMA ContainersTold ==
  ASSUME InventoryInv, Answered("inspect_vps_containers"), ~call.answer.result.truncated
  PROVE  call.answer.result.rows = SortedRows(call.seen)
<1>1. /\ SeenRight(call)
      /\ call.answer.result = [rows |-> RowsOf(call), truncated |-> CutMark(RowsOf(call), MaxContainers)]
  BY DEF InventoryInv, Reported, Answered, NoCall
<1>2. PICK all, rows : all = SortedRows(call.seen) /\ rows = RowsOf(call)
  OBVIOUS
<1>3. all \in Seq({call.seen[n] : n \in Present(call.seen)}) /\ Len(all) \in Nat
  BY <1>1, <1>2, SeenRows
<1>4. ~ (Len(rows) >= MaxContainers)
  <2>1. ~CutMark(RowsOf(call), MaxContainers)
    BY <1>1
  <2> QED BY <1>2, <2>1 DEF CutMark
<1>5. rows = FirstRows(all, MaxContainers).rows /\ MaxContainers \in Nat
  BY <1>2, SocketAppAssumption DEF RowsOf
<1>6. Len(rows) = (IF Len(all) < MaxContainers THEN Len(all) ELSE MaxContainers)
      /\ (Len(all) <= MaxContainers => rows = all)
  BY <1>3, <1>5, FirstRowsAre
<1>7. rows = all
  BY <1>3, <1>4, <1>5, <1>6
<1> QED BY <1>1, <1>2, <1>7

LEMMA DirectoryTold ==
  ASSUME LookInv, Answered("list_container_directory"), ~call.answer.result.truncated,
         events = call.since
  PROVE  {m.path : m \in ToSet(call.answer.result.rows)} =
           IF EntryAt(call.parts).kind = "file" THEN {call.parts} ELSE Listed(call.parts)
<1>1. ListedTruly(call, call.answer.result)
  BY DEF LookInv, Finished, Answered, NoCall
<1>3. PICK p, result : p = call.parts /\ result = call.answer.result
  OBVIOUS
<1>4. CASE EntryAt(p).kind = "file" /\ result = OneFile(call)
  <2>1. result.rows = << Meta(p) >>
    BY <1>3, <1>4 DEF OneFile
  <2>2. ToSet(result.rows) = {Meta(p)} /\ Meta(p).path = p
    BY <2>1 DEF ToSet, Meta
  <2> QED BY <1>3, <1>4, <2>2
<1>5. CASE EntryAt(p).kind = "dir" /\ result = WholeList(call)
  <2>1. PICK metas, S : S = {Meta(q) : q \in Listed(p)} /\ metas = ListOrder(S)
    OBVIOUS
  <2>2. IsFiniteSet(S)
    <3>1. PICK P, g : /\ P = {x \in Children(Resolved(p)) : tree[x].kind \in {"file", "dir"}}
                      /\ g = [x \in P |-> Append(p, Last(x))]
      OBVIOUS
    <3>2. IsFiniteSet(Listed(p))
      <4>1. P \subseteq Path
        BY <3>1 DEF Children
      <4>2. IsFiniteSet(P)
        BY <4>1, FS_Subset, SocketAppAssumption
      <4>3. g \in Surjection(P, Listed(p))
        BY <3>1 DEF Surjection, Listed
      <4> QED BY <4>2, <4>3, FS_Surjection
    <3>3. PICK f : f = [q \in Listed(p) |-> Meta(q)]
      OBVIOUS
    <3>4. f \in Surjection(Listed(p), S)
      BY <2>1, <3>3 DEF Surjection
    <3> QED BY <3>2, <3>4, FS_Surjection
  <2>3. metas \in Seq(S) /\ ToSet(metas) = S
    BY <2>1, <2>2, ListOrderIs
  <2>4. result = FirstRows(metas, MaxEntries) /\ MaxEntries \in Nat
    BY <1>3, <1>5, <2>1, InspectionAssumption DEF WholeList
  <2>5. (Len(metas) <= MaxEntries => result.rows = metas) /\ (result.truncated <=> Len(metas) > MaxEntries)
        /\ Len(metas) \in Nat
    BY <2>3, <2>4, FirstRowsAre
  <2>6. result.rows = metas
    BY <1>3, <2>4, <2>5
  <2>7. {m.path : m \in S} = Listed(p)
    <3>1. \A q : Meta(q).path = q
      BY DEF Meta
    <3> QED BY <2>1, <3>1
  <2> QED BY <1>3, <1>5, <2>3, <2>6, <2>7
<1> QED BY <1>1, <1>3, <1>4, <1>5 DEF ListedTruly

\* A listing that does not say truncated is complete (the inventories,
\* container_directory_list).
THEOREM CutsTold == Spec => []CutIsTold
<1>1. InventoryInv /\ LookInv => CutIsTold
  BY VolumesTold, ContainersTold, DirectoryTold DEF CutIsTold
<1> QED BY <1>1, Inventories, Looks, PTL

-----------------------------------------------------------------------------
(* The inspections of a project.                                           *)

\* b is what may have become of the container a since.
Later(a, b) ==
  \/ b = a
  \/ b = NoContainer
  \/ a.id < b.id
  \/ a.id = b.id /\ a.running /\ ~b.running

SeenEvolves(c) ==
  c # NoCall => \A n \in Present(c.seen) :
    n \in Name /\ IsContainer(n, c.seen[n]) /\ Later(c.seen[n], containers[n])

\* A detail was read after the inventory, and before what is there now.
GotDetail(c, d) ==
  /\ d # NoContainer /\ d.name \in Name /\ IsContainer(d.name, d)
  /\ Later(d, containers[d.name])
  /\ d.name \in Present(c.seen) => Later(c.seen[d.name], d)

Targets(c) == DockerSources(c.manifest.sources)

\* The containers that were asked about and those still to be are the docker
\* sources, in their order.
HealthSoFar(c) ==
  /\ Targets(c) \in Seq(ToSet(Targets(c))) /\ Len(c.got) + Len(c.todo) = Len(Targets(c))
  /\ \A i \in 1..Len(c.got) : c.got[i].container = Targets(c)[i].target
  /\ \A i \in 1..Len(c.todo) : c.todo[i] = Targets(c)[Len(c.got) + i].target

AskedEach(c, r) ==
  /\ c.at = "rows" => c.got = << >>
  /\ c.at = "each" =>
       /\ c.todo \in Seq(Name) /\ c.todo # << >> /\ c.got \in Seq(ToSet(c.got))
       /\ r.name = Head(c.todo)
       /\ c.tool = "inspect_containers_health" =>
            /\ HealthSoFar(c)
            /\ r.at = "answered" /\ r.reply.ok => r.reply.result.name = r.name
       /\ c.tool = "inspect_project_runtime" =>
            /\ \A d \in ToSet(c.got) : GotDetail(c, d)
            /\ r.at = "answered" /\ r.reply.ok => GotDetail(c, r.reply.result)

\* Some expected service is judged by the containers that were seen.
RunningSeen(c, e) == {n \in Present(c.seen) : c.seen[n].running /\ Service(c.seen[n]) = e}
JudgedTruly(c, warnings) ==
  Cardinality(Present(c.seen)) <= MaxContainers =>
    \A e \in ExpectedOf(c) :
      /\ [code |-> "expected_service_not_running", about |-> e] \in warnings <=> RunningSeen(c, e) = {}
      /\ [code |-> "multiple_running_containers", about |-> e] \in warnings
           <=> Cardinality(RunningSeen(c, e)) > 1

RowsDetailed(c, result) ==
  \A i \in DOMAIN result.rows :
    LET row == result.rows[i].row
    IN  /\ row.name \in Present(c.seen) /\ row = c.seen[row.name]
        /\ \/ [code |-> "container_detail_unavailable", about |-> row.name] \in result.warnings
           \/ GotDetail(c, result.rows[i].detail) /\ result.rows[i].detail.name = row.name

Concluded(c) ==
  c.at = "ended" /\ c.answer.ok =>
    /\ c.tool = "inspect_project_runtime" =>
         JudgedTruly(c, c.answer.result.warnings) /\ RowsDetailed(c, c.answer.result)
    /\ c.tool = "inspect_containers_health" =>
         /\ DOMAIN c.answer.result = DOMAIN Targets(c)
         /\ \A i \in DOMAIN Targets(c) : c.answer.result[i].container = Targets(c)[i].target

\* The inductive invariant of the project inspections: each container that was
\* seen, and each detail that was read since, is what the one of now came from.
ProjectInv == SeenEvolves(call) /\ (call # NoCall => AskedEach(call, request) /\ Concluded(call))

LEMMA ProjectPrimed ==
  ASSUME UNCHANGED containers, SeenEvolves(call'),
         call' # NoCall => AskedEach(call', request') /\ Concluded(call')
  PROVE  ProjectInv'
BY DEF ProjectInv, SeenEvolves, AskedEach, Concluded, GotDetail, RowsDetailed, HealthSoFar, JudgedTruly,
       RunningSeen, Targets, ExpectedOf

-----------------------------------------------------------------------------
(* What is concluded from the rows.                                        *)

LEMMA SelectedAre ==
  ASSUME NEW T, NEW rows \in Seq(T), NEW expected, NEW s, s = SelectedRows(rows, expected)
  PROVE  /\ s \in Seq(T)
         /\ ToSet(s) = {r \in ToSet(rows) : r.project \in ComposeProjects(expected)}
         /\ (\A i, j \in DOMAIN rows : rows[i] = rows[j] => i = j) =>
              \A i, j \in DOMAIN s : s[i] = s[j] => i = j
<1>1. PICK S : S = {r \in ToSet(rows) : r.project \in ComposeProjects(expected)}
  OBVIOUS
<1>2. s = Filter(rows, S)
  BY <1>1 DEF SelectedRows
<1>3. /\ Filter(rows, S) \in Seq(T) /\ ToSet(Filter(rows, S)) = ToSet(rows) \intersect S
      /\ (\A i, j \in DOMAIN rows : rows[i] = rows[j] => i = j) =>
           \A i, j \in DOMAIN Filter(rows, S) : Filter(rows, S)[i] = Filter(rows, S)[j] => i = j
  BY FilterElements
<1>4. s \in Seq(T) /\ ToSet(s) = ToSet(rows) \intersect S
  BY <1>2, <1>3
<1>5. ToSet(rows) \intersect S = S
  BY <1>1
<1>6. (\A i, j \in DOMAIN rows : rows[i] = rows[j] => i = j) =>
        \A i, j \in DOMAIN s : s[i] = s[j] => i = j
  BY <1>2, <1>3
<1> QED BY <1>1, <1>4, <1>5, <1>6

LEMMA RunningAre ==
  ASSUME NEW T, NEW rows \in Seq(T), NEW e, NEW s, s = RunningFor(rows, e)
  PROVE  /\ s \in Seq(T)
         /\ ToSet(s) = {r \in ToSet(rows) : r.running /\ Service(r) = e}
         /\ (\A i, j \in DOMAIN rows : rows[i] = rows[j] => i = j) =>
              \A i, j \in DOMAIN s : s[i] = s[j] => i = j
<1>1. PICK S : S = {r \in ToSet(rows) : r.running /\ Service(r) = e}
  OBVIOUS
<1>2. s = Filter(rows, S)
  BY <1>1 DEF RunningFor
<1>3. /\ Filter(rows, S) \in Seq(T) /\ ToSet(Filter(rows, S)) = ToSet(rows) \intersect S
      /\ (\A i, j \in DOMAIN rows : rows[i] = rows[j] => i = j) =>
           \A i, j \in DOMAIN Filter(rows, S) : Filter(rows, S)[i] = Filter(rows, S)[j] => i = j
  BY FilterElements
<1>4. s \in Seq(T) /\ ToSet(s) = ToSet(rows) \intersect S
  BY <1>2, <1>3
<1>5. ToSet(rows) \intersect S = S
  BY <1>1
<1>6. (\A i, j \in DOMAIN rows : rows[i] = rows[j] => i = j) =>
        \A i, j \in DOMAIN s : s[i] = s[j] => i = j
  BY <1>2, <1>3
<1> QED BY <1>1, <1>4, <1>5, <1>6

\* The rows that run for a service are the containers that do, each once.
LEMMA ServiceJudged ==
  ASSUME NEW c, SeenRight(c), NEW rows, rows = SortedRows(c.seen), NEW expected, NEW e \in expected,
         NEW s, s = RunningFor(SelectedRows(rows, expected), e)
  PROVE  /\ s = << >> <=> RunningSeen(c, e) = {}
         /\ Len(s) > 1 <=> Cardinality(RunningSeen(c, e)) > 1
<1>1. PICK T, W : T = {c.seen[n] : n \in Present(c.seen)} /\ W = RunningSeen(c, e)
  OBVIOUS
<1>2. rows \in Seq(T) /\ ToSet(rows) = T /\ \A i, j \in DOMAIN rows : rows[i] = rows[j] => i = j
  BY <1>1, SeenRows
<1>3. PICK q : q = SelectedRows(rows, expected)
  OBVIOUS
<1>4. /\ q \in Seq(T) /\ ToSet(q) = {r \in ToSet(rows) : r.project \in ComposeProjects(expected)}
      /\ \A i, j \in DOMAIN q : q[i] = q[j] => i = j
  BY <1>2, <1>3, SelectedAre
<1>5. /\ s \in Seq(T) /\ ToSet(s) = {r \in ToSet(q) : r.running /\ Service(r) = e}
      /\ \A i, j \in DOMAIN s : s[i] = s[j] => i = j
  BY <1>3, <1>4, RunningAre
<1>6. IsFiniteSet(ToSet(s)) /\ Len(s) = Cardinality(ToSet(s))
  BY <1>5, LengthWithoutRepetition
<1>7. \A r : Service(r) = e => r.project \in ComposeProjects(expected)
  BY DEF Service, ComposeProjects
<1>8. ToSet(s) = {r \in T : r.running /\ Service(r) = e}
  BY <1>2, <1>4, <1>5, <1>7
<1>9. \A n \in Present(c.seen) : c.seen[n].name = n
  BY DEF SeenRight, IsContainer
<1>10. PICK f : f = [n \in W |-> c.seen[n]]
  OBVIOUS
<1>11. \A n \in W : n \in Present(c.seen) /\ f[n] = c.seen[n] /\ c.seen[n].running /\ Service(c.seen[n]) = e
  BY <1>1, <1>10 DEF RunningSeen
<1>12. f \in Bijection(W, ToSet(s))
  <2>1. \A n \in W : f[n] \in ToSet(s)
    BY <1>1, <1>8, <1>11
  <2>2. \A n, m \in W : f[n] = f[m] => n = m
    BY <1>9, <1>11
  <2>3. \A r \in ToSet(s) : \E n \in W : f[n] = r
    <3>1. SUFFICES ASSUME NEW r \in ToSet(s) PROVE \E n \in W : f[n] = r
      OBVIOUS
    <3>2. PICK n \in Present(c.seen) : r = c.seen[n]
      BY <1>1, <1>8
    <3>3. n \in W
      BY <1>1, <1>8, <3>2 DEF RunningSeen
    <3> QED BY <1>11, <3>2, <3>3
  <2> QED BY <1>10, <2>1, <2>2, <2>3 DEF Bijection, Injection, Surjection, IsInjective
<1>13. Cardinality(W) = Len(s)
  <2>1. IsFiniteSet(W)
    <3>1. W \subseteq Name
      BY <1>11 DEF SeenRight, Present
    <3> QED BY <3>1, FS_Subset, SocketAppAssumption
  <2>2. ExistsBijection(W, ToSet(s))
    BY <1>12 DEF ExistsBijection
  <2> QED BY <1>6, <2>1, <2>2, FS_Bijection
<1>14. s = << >> <=> Len(s) = 0
  BY <1>5
<1>15. IsFiniteSet(W) /\ (W = {} <=> Cardinality(W) = 0)
  <2>1. IsFiniteSet(W)
    <3>1. W \subseteq Name
      BY <1>11 DEF SeenRight, Present
    <3> QED BY <3>1, FS_Subset, SocketAppAssumption
  <2> QED BY <2>1, FS_EmptySet
<1> QED BY <1>1, <1>13, <1>14, <1>15

\* With a whole inventory the warnings are true of what was seen.
LEMMA ComposeJudged ==
  ASSUME NEW c, SeenRight(c), NEW warnings, NEW others,
         \A w \in others : w.code = "container_detail_unavailable",
         warnings = ComposeWarnings(RowsOf(c), ExpectedOf(c)) \union others
  PROVE  JudgedTruly(c, warnings)
<1> SUFFICES ASSUME Cardinality(Present(c.seen)) <= MaxContainers, NEW e \in ExpectedOf(c)
             PROVE  /\ [code |-> "expected_service_not_running", about |-> e] \in warnings
                         <=> RunningSeen(c, e) = {}
                    /\ [code |-> "multiple_running_containers", about |-> e] \in warnings
                         <=> Cardinality(RunningSeen(c, e)) > 1
  BY DEF JudgedTruly
<1>1. PICK rows, expected : rows = SortedRows(c.seen) /\ expected = ExpectedOf(c)
  OBVIOUS
<1>2. RowsOf(c) = rows
  <2>1. rows \in Seq({c.seen[n] : n \in Present(c.seen)}) /\ Len(rows) <= MaxContainers
    BY <1>1, SeenRows
  <2>2. MaxContainers \in Nat
    BY SocketAppAssumption
  <2> QED BY <1>1, <2>1, <2>2, FirstRowsAre DEF RowsOf
<1>3. PICK s : s = RunningFor(SelectedRows(rows, expected), e)
  OBVIOUS
<1>4. (s = << >> <=> RunningSeen(c, e) = {}) /\ (Len(s) > 1 <=> Cardinality(RunningSeen(c, e)) > 1)
  BY <1>1, <1>3, ServiceJudged
<1>5. PICK none, many :
        /\ none = {x \in expected : RunningFor(SelectedRows(rows, expected), x) = << >>}
        /\ many = {x \in expected : Len(RunningFor(SelectedRows(rows, expected), x)) > 1}
  OBVIOUS
<1>6. warnings = {[code |-> "expected_service_not_running", about |-> x] : x \in none} \union
                 {[code |-> "multiple_running_containers", about |-> x] : x \in many} \union others
  BY <1>1, <1>2, <1>5 DEF ComposeWarnings
<1>7. (e \in none <=> s = << >>) /\ (e \in many <=> Len(s) > 1)
  BY <1>1, <1>3, <1>5
<1>8. [code |-> "expected_service_not_running", about |-> e] \in warnings <=> e \in none
  BY <1>6
<1>9. [code |-> "multiple_running_containers", about |-> e] \in warnings <=> e \in many
  BY <1>6
<1> QED BY <1>4, <1>7, <1>8, <1>9

\* Each row of the report has its own detail or a warning.
LEMMA RuntimeJudged ==
  ASSUME NEW c, SeenRight(c), NEW details,
         \A n \in DOMAIN details : GotDetail(c, details[n]) /\ details[n].name = n,
         NEW result, result = RuntimeRows(RowsOf(c), ExpectedOf(c), details)
  PROVE  JudgedTruly(c, result.warnings) /\ RowsDetailed(c, result)
<1>1. PICK T, rows, selected :
        /\ T = {c.seen[n] : n \in Present(c.seen)} /\ rows = RowsOf(c)
        /\ selected = SelectedRows(rows, ExpectedOf(c))
  OBVIOUS
<1>2. rows \in Seq(T)
  <2>1. PICK all : all = SortedRows(c.seen)
    OBVIOUS
  <2>2. all \in Seq(T) /\ MaxContainers \in Nat
    BY <1>1, <2>1, SeenRows, SocketAppAssumption
  <2> QED BY <1>1, <2>1, <2>2, FirstRowsAre DEF RowsOf
<1>3. selected \in Seq(T)
  BY <1>1, <1>2, SelectedAre
<1>4. PICK others : others = {[code |-> "container_detail_unavailable", about |-> r.name] :
                                r \in {x \in ToSet(selected) : ~(x.name \in DOMAIN details)}}
  OBVIOUS
<1>5. /\ result.warnings = ComposeWarnings(RowsOf(c), ExpectedOf(c)) \union others
      /\ DOMAIN result.rows = DOMAIN selected
      /\ \A i \in DOMAIN selected :
           /\ result.rows[i].row = selected[i]
           /\ selected[i].name \in DOMAIN details => result.rows[i].detail = details[selected[i].name]
  BY <1>1, <1>4 DEF RuntimeRows
<1>6. JudgedTruly(c, result.warnings)
  <2>1. \A w \in others : w.code = "container_detail_unavailable"
    BY <1>4
  <2> QED BY <1>5, <2>1, ComposeJudged
<1>7. ASSUME NEW i \in DOMAIN result.rows
      PROVE  LET row == result.rows[i].row
             IN  /\ row.name \in Present(c.seen) /\ row = c.seen[row.name]
                 /\ \/ [code |-> "container_detail_unavailable", about |-> row.name] \in result.warnings
                    \/ GotDetail(c, result.rows[i].detail) /\ result.rows[i].detail.name = row.name
  <2>1. PICK row : row = selected[i]
    OBVIOUS
  <2>0. i \in DOMAIN selected
    BY <1>5, <1>7
  <2>8. result.rows[i].row = selected[i]
    BY <1>5, <2>0
  <2>2. result.rows[i].row = row /\ i \in DOMAIN selected
    BY <2>0, <2>1, <2>8
  <2>3. row \in T /\ row \in ToSet(selected)
    BY <1>3, <2>1, <2>2 DEF ToSet
  <2>4. PICK n \in Present(c.seen) : row = c.seen[n]
    BY <1>1, <2>3
  <2>5. row.name = n
    BY <2>4 DEF SeenRight, IsContainer
  <2>6. CASE row.name \in DOMAIN details
    <3>1. result.rows[i].detail = details[row.name]
      BY <1>5, <2>1, <2>2, <2>6
    <3>2. GotDetail(c, details[row.name]) /\ details[row.name].name = row.name
      BY <2>6
    <3> QED BY <2>2, <2>4, <2>5, <3>1, <3>2
  <2>7. CASE row.name \notin DOMAIN details
    <3>1. [code |-> "container_detail_unavailable", about |-> row.name] \in others
      BY <1>4, <2>3, <2>7
    <3> QED BY <1>5, <2>2, <2>4, <2>5, <3>1
  <2> QED BY <2>6, <2>7
<1> QED BY <1>6, <1>7 DEF RowsDetailed

-----------------------------------------------------------------------------
(* What the steps leave of it.                                             *)

\* A container never goes back to what it was before it was recreated, stopped
\* or removed.
LEMMA LaterStep ==
  ASSUME HostInv, ProtocolInv, [Next]_vars, NEW n \in Name, NEW x, IsContainer(n, x),
         Later(x, containers[n])
  PROVE  Later(x, containers'[n])
<1>1. PICK a, b : a = containers[n] /\ b = containers'[n]
  OBVIOUS
<1> SUFFICES Later(x, b)
  BY <1>1
<1>2. Succeeds(a, b, n) /\ Later(x, a)
  BY <1>1, ContainersChange
<1>3. /\ events \in Nat /\ DOMAIN x = ContainerFields /\ x.id \in Nat /\ x.running \in BOOLEAN
      /\ a # NoContainer => a.id \in Nat /\ a.id < events + 10 /\ a.running \in BOOLEAN
  BY <1>1 DEF HostInv, Present, IsContainer
<1>4. CASE b = a \/ b = NoContainer
  BY <1>2, <1>4 DEF Later
<1>5. CASE a # NoContainer /\ IsContainer(n, b) /\ b.id = events + 10
  <2>1. x.id = a.id \/ x.id < a.id
    BY <1>2, <1>3, <1>5 DEF Later
  <2>2. x.id < b.id
    BY <1>3, <1>5, <2>1
  <2> QED BY <2>2 DEF Later
<1>6. CASE a # NoContainer /\ IsContainer(n, b) /\ b.id = a.id /\ a.running /\ ~b.running
  <2>1. CASE x = a \/ x.id < a.id
    BY <1>6, <2>1 DEF Later
  <2>2. CASE x.id = a.id /\ x.running /\ ~a.running
    BY <1>6, <2>2
  <2> QED BY <1>2, <1>6, <2>1, <2>2 DEF Later
<1> QED BY <1>2, <1>4, <1>5, <1>6 DEF Succeeds

LEMMA SeenStep ==
  ASSUME HostInv, ProtocolInv, [Next]_vars, NEW c, c # NoCall, SeenEvolves(c)
  PROVE  SeenEvolves(c)'
<1> SUFFICES ASSUME NEW n \in Present(c.seen)
             PROVE  n \in Name /\ IsContainer(n, c.seen[n]) /\ Later(c.seen[n], containers'[n])
  BY DEF SeenEvolves
<1>1. n \in Name /\ IsContainer(n, c.seen[n]) /\ Later(c.seen[n], containers[n])
  BY DEF SeenEvolves
<1> QED BY <1>1, LaterStep

LEMMA DetailStep ==
  ASSUME HostInv, ProtocolInv, [Next]_vars, NEW c, NEW d, GotDetail(c, d)
  PROVE  GotDetail(c, d)'
<1>1. d.name \in Name /\ IsContainer(d.name, d) /\ Later(d, containers[d.name])
  BY DEF GotDetail
<1>2. Later(d, containers'[d.name])
  BY <1>1, LaterStep
<1> QED BY <1>2 DEF GotDetail

LEMMA OthersProject ==
  ASSUME HostInv, ProtocolInv, ProjectInv, [Next]_vars, UNCHANGED << call, request >>
  PROVE  ProjectInv'
<1>1. PICK c, r : c = call /\ r = request
  OBVIOUS
<1>2. c = call' /\ r = request'
  BY <1>1
<1>3. CASE c = NoCall
  BY <1>2, <1>3 DEF ProjectInv, SeenEvolves
<1>4. CASE c # NoCall
  <2>1. SeenEvolves(c) /\ AskedEach(c, r) /\ Concluded(c)
    BY <1>1, <1>4 DEF ProjectInv
  <2>2. SeenEvolves(c)'
    BY <1>4, <2>1, SeenStep
  <2>3. \A d : GotDetail(c, d) => GotDetail(c, d)'
    BY DetailStep
  <2>4. AskedEach(c, r)'
    BY <2>1, <2>3 DEF AskedEach, HealthSoFar, Targets, GotDetail
  <2>5. Concluded(c)'
    <3>1. ASSUME c.at = "ended", c.answer.ok, c.tool = "inspect_project_runtime"
          PROVE  (JudgedTruly(c, c.answer.result.warnings) /\ RowsDetailed(c, c.answer.result))'
      <4>1. JudgedTruly(c, c.answer.result.warnings) /\ RowsDetailed(c, c.answer.result)
        BY <2>1, <3>1 DEF Concluded
      <4>2. JudgedTruly(c, c.answer.result.warnings)'
        BY <4>1 DEF JudgedTruly, ExpectedOf, RunningSeen
      <4>3. RowsDetailed(c, c.answer.result)'
        BY <2>3, <4>1 DEF RowsDetailed, GotDetail
      <4> QED BY <4>2, <4>3
    <3>2. ASSUME c.at = "ended", c.answer.ok, c.tool = "inspect_containers_health"
          PROVE  /\ DOMAIN c.answer.result = DOMAIN Targets(c)
                 /\ \A i \in DOMAIN Targets(c) : c.answer.result[i].container = Targets(c)[i].target
      BY <2>1, <3>2 DEF Concluded
    <3> QED BY <3>1, <3>2 DEF Concluded, Targets
  <2>6. SeenEvolves(call)' /\ AskedEach(call, request)' /\ Concluded(call)'
    BY <1>2, <2>2, <2>4, <2>5
  <2> QED BY <2>6 DEF ProjectInv
<1> QED BY <1>3, <1>4

\* Only two tools ask about one container after the other.
LEMMA NotOfProject ==
  ASSUME NEW c, NEW r, IsRequest(c, r),
         c.tool \notin {"inspect_containers_health", "inspect_project_runtime"},
         c.at = "rows" => c.got = << >>
  PROVE  AskedEach(c, r) /\ Concluded(c)
<1>1. c.at # "each"
  BY DEF IsRequest, Asked, Waiting
<1> QED BY <1>1 DEF AskedEach, Concluded

LEMMA NothingSeen ==
  ASSUME NEW c, c.seen = << >>
  PROVE  SeenEvolves(c)
<1>1. Present(c.seen) = {}
  BY DEF Present
<1> QED BY <1>1 DEF SeenEvolves

\* The docker sources of a manifest, in their order, are of containers.
LEMMA TargetsAre ==
  ASSUME NEW m \in Manifest, NEW s, s = DockerSources(m.sources)
  PROVE  s \in Seq(ToSet(s)) /\ \A i \in DOMAIN s : s[i].target \in Name
<1>1. PICK T : T = [key : STRING, docker : BOOLEAN, target : Nat,
        project : STRING, service : STRING, prefixes : Seq(Seq(STRING))]
  OBVIOUS
<1>2. m.sources \in Seq(T)
  BY <1>1, InspectionAssumption
<1>3. PICK all, S : all = m.sources /\ S = {x \in ToSet(m.sources) : x.docker}
  OBVIOUS
<1>4. Filter(all, S) \in Seq(T) /\ ToSet(Filter(all, S)) = ToSet(all) \intersect S
  BY <1>2, <1>3, FilterElements
<1>5. s = Filter(all, S)
  BY <1>3 DEF DockerSources
<1>6. s \in Seq(T) /\ ToSet(s) = S
  BY <1>3, <1>4, <1>5
<1>7. \A i \in DOMAIN s : s[i] \in ToSet(s)
  BY DEF ToSet
<1>8. s \in Seq(ToSet(s))
  <2>1. Len(s) \in Nat /\ s = [i \in 1..Len(s) |-> s[i]] /\ DOMAIN s = 1..Len(s)
    BY <1>6
  <2> QED BY <1>7, <2>1
<1>9. \A x \in S : x.target \in Name
  BY <1>3, InspectionAssumption
<1> QED BY <1>6, <1>7, <1>8, <1>9

LEMMA HealthBegun ==
  ASSUME ProtocolInv, BeginHealth
  PROVE  AskedEach(call', request') /\ Concluded(call')
<1>1. PICK m \in Manifest :
        LET c == [NewCall("inspect_containers_health", m, << >>, << >>, 0) EXCEPT
                   !.todo = [i \in DOMAIN DockerSources(m.sources) |-> DockerSources(m.sources)[i].target]]
        IN  IF c.todo = << >> THEN EndsWith(c, Result(<< >>)) /\ UNCHANGED request
            ELSE Asks(c, "each", NameRequest("container_health", Head(c.todo)))
  BY DEF BeginHealth
<1>2. PICK s, todo, b, c, d, r :
        /\ s = DockerSources(m.sources) /\ todo = [i \in DOMAIN s |-> s[i].target]
        /\ b = NewCall("inspect_containers_health", m, << >>, << >>, 0)
        /\ c = [b EXCEPT !.todo = todo] /\ d = call' /\ r = request'
  OBVIOUS
<1>3. /\ IF c.todo = << >> THEN EndsWith(c, Result(<< >>)) /\ UNCHANGED request
         ELSE Asks(c, "each", NameRequest("container_health", Head(c.todo)))
  BY <1>1, <1>2
<1>4. /\ DOMAIN b = CallFields /\ b.tool = "inspect_containers_health" /\ b.manifest = m /\ b.got = << >>
  BY <1>2, NewCallIs
<1>5. /\ DOMAIN c = CallFields /\ c.tool = "inspect_containers_health" /\ c.manifest = m
      /\ c.got = << >> /\ c.todo = todo
  BY <1>2, <1>4 DEF CallFields
<1>6. s \in Seq(ToSet(s)) /\ \A i \in DOMAIN s : s[i].target \in Name
  BY <1>2, TargetsAre
<1>7. /\ todo \in Seq(Name) /\ Len(todo) = Len(s) /\ DOMAIN s = 1..Len(s) /\ Len(s) \in Nat
      /\ \A i \in DOMAIN s : todo[i] = s[i].target
  BY <1>2, <1>6
<1>8. CASE todo = << >>
  <2>1. EndsWith(c, Result(<< >>))
    BY <1>3, <1>5, <1>8
  <2>2. d.at = "ended" /\ d.answer = Result(<< >>) /\ d.manifest = m
    BY <1>2, <1>5, <2>1 DEF EndsWith, CallFields
  <2>3. d.answer.result = << >> /\ Targets(d) = s
    BY <1>2, <2>2 DEF Result, Targets
  <2>4. DOMAIN s = {} /\ DOMAIN << >> = {}
    BY <1>7, <1>8
  <2>5. d.tool = "inspect_containers_health"
    BY <1>2, <1>5, <2>1 DEF EndsWith, CallFields
  <2>6. AskedEach(d, r) /\ Concluded(d)
    BY <2>2, <2>3, <2>4, <2>5 DEF AskedEach, Concluded
  <2> QED BY <1>2, <2>6
<1>9. CASE todo # << >>
  <2>1. Asks(c, "each", NameRequest("container_health", Head(todo)))
    BY <1>3, <1>5, <1>9
  <2>2. /\ d.at = "each" /\ d.manifest = m /\ d.todo = todo /\ d.got = << >>
        /\ d.tool = "inspect_containers_health" /\ r = NameRequest("container_health", Head(todo))
    BY <1>2, <1>5, <2>1 DEF Asks, CallFields
  <2>3. r.name = Head(todo) /\ r.at = "received"
    BY <2>2, NameRequestIs
  <2>4. Targets(d) = s
    BY <1>2, <2>2 DEF Targets
  <2>5. << >> \in Seq(ToSet(<< >>)) /\ Len(<< >>) = 0
    OBVIOUS
  <2>6. HealthSoFar(d)
    BY <1>6, <1>7, <2>2, <2>4, <2>5 DEF HealthSoFar
  <2>7. AskedEach(d, r) /\ Concluded(d)
    BY <1>7, <1>9, <2>2, <2>3, <2>5, <2>6 DEF AskedEach, Concluded
  <2> QED BY <1>2, <2>7
<1> QED BY <1>8, <1>9

LEMMA BeginsProject ==
  ASSUME ProtocolInv, BeginSourceTool \/ BeginListing \/ BeginHealth
  PROVE  ProjectInv'
<1>1. PICK d, r : d = call' /\ r = request'
  OBVIOUS
<1>2. /\ UNCHANGED containers /\ DOMAIN d = CallFields /\ d.seen = << >> /\ d.got = << >>
      /\ d.at = "ended" => ~d.answer.ok \/ d.tool = "inspect_containers_health"
  BY <1>1, BegunCall
<1>3. SeenEvolves(d)
  BY <1>2, NothingSeen
<1>4. AskedEach(d, r) /\ Concluded(d)
  <2>1. CASE BeginHealth
    BY <1>1, <2>1, HealthBegun
  <2>2. CASE BeginSourceTool
    <3>1. d.tool \in SourceTools
      BY <1>1, <2>2, SourceToolIs
    <3>2. ProtocolInv'
      BY <2>2, SourceToolBegins
    <3>3. IsRequest(d, r)
      BY <1>1, <3>2 DEF ProtocolInv
    <3> QED BY <1>2, <3>1, <3>3, NotOfProject DEF SourceTools, PathTools
  <2>3. CASE BeginListing
    <3>1. PICK tool, m, filters, b, c, req :
         /\ b = NewCall(tool, m, << >>, << >>, 0)
         /\ c = [b EXCEPT !.filters = filters]
         /\ Asks(c, "rows", req)
      BY <2>3 DEF BeginListing
    <3>2. DOMAIN b = CallFields
      BY <3>1, NewCallIs
    <3>3. d.at = "rows"
      BY <1>1, <3>1, <3>2 DEF Asks, CallFields
    <3> QED BY <1>2, <3>3 DEF AskedEach, Concluded
  <2> QED BY <2>1, <2>2, <2>3
<1> QED BY <1>1, <1>2, <1>3, <1>4, ProjectPrimed

\* A detail is answered of the container as it is, which came from the one seen.
LEMMA AppProject ==
  ASSUME HostInv, ProtocolInv, ProjectInv, AppRuns
  PROVE  ProjectInv'
<1>1. /\ request # NoRequest /\ request'.op = request.op /\ request'.name = request.name
      /\ DOMAIN request = RequestFields /\ UNCHANGED containers
      /\ DOMAIN call = CallFields /\ call # NoCall /\ call.at \in Waiting /\ Asked(call, request)
  BY AppKeepsRequest, WaitingCall DEF NoCall, CallFields
<1>2. PICK c, seen, since, r :
        /\ c = [call EXCEPT !.seen = seen, !.since = since] /\ call' = c /\ r = request'
        /\ seen = IF request.op = "vps_containers_inventory" THEN containers ELSE call.seen
  BY DEF AppRuns
<1>3. /\ DOMAIN c = CallFields /\ c.seen = seen /\ c.tool = call.tool /\ c.manifest = call.manifest
      /\ c.at = call.at /\ c.todo = call.todo /\ c.got = call.got
  BY <1>1, <1>2 DEF CallFields
<1>4. SeenEvolves(call) /\ AskedEach(call, request)
  BY <1>1 DEF ProjectInv
<1>5. SeenEvolves(c)
  <2>1. CASE request.op = "vps_containers_inventory"
    <3>1. SUFFICES ASSUME NEW n \in Present(containers)
                   PROVE  n \in Name /\ IsContainer(n, containers[n]) /\ Later(containers[n], containers[n])
      BY <1>2, <1>3, <2>1 DEF SeenEvolves
    <3> QED BY DEF HostInv, Present, Later
  <2>2. CASE request.op # "vps_containers_inventory"
    BY <1>1, <1>2, <1>3, <1>4, <2>2 DEF SeenEvolves
  <2> QED BY <2>1, <2>2
<1>6. ASSUME c.at = "each", r.at = "answered", r.reply.ok
      PROVE  /\ r.reply.result.name = r.name /\ GotDetail(c, r.reply.result)
  <2>1. request.op \in {"container_health", "container_detail"}
    BY <1>1, <1>3, <1>6 DEF Asked
  <2>2. c.seen = call.seen
    BY <1>2, <1>3, <2>1
  <2>3. PICK n, k : n = request.name /\ k = containers[n]
    OBVIOUS
  <2>4. n \in Name /\ r.name = n
    <3>1. call.todo \in Seq(Name) /\ call.todo # << >> /\ n = Head(call.todo)
      BY <1>3, <1>4, <1>6, <2>3 DEF AskedEach
    <3> QED BY <1>1, <1>2, <2>3, <3>1, HeadOf
  <2>5. AppInspects
    <3>1. AppInspects \/ DockerFails
      BY <2>1 DEF AppRuns, AppStep, AppListsContainers, AppListsVolumes, AppStats, AppFinds,
         AppPrintsFile, AppPrintsDirectory, PathOperations
    <3>2. DockerFails => ~r.reply.ok
      BY <1>1, <1>2 DEF DockerFails, Answer, Failed, RequestFields
    <3> QED BY <1>6, <3>1, <3>2
  <2>6. k # NoContainer /\ r.reply.result = k
    <3>1. k = NoContainer => ~r.reply.ok
      BY <1>1, <1>2, <2>3, <2>5 DEF AppInspects, Answer, Failed, RequestFields
    <3>2. k # NoContainer => Answer(Result(k))
      BY <2>3, <2>5 DEF AppInspects
    <3> QED BY <1>1, <1>2, <1>6, <3>1, <3>2, AnsweredWith
  <2>7. IsContainer(n, k)
    BY <2>3, <2>4, <2>6 DEF HostInv, Present
  <2>8. k.name = n
    BY <2>7 DEF IsContainer
  <2>9. Later(k, containers[k.name])
    BY <2>3, <2>8 DEF Later
  <2>10. n \in Present(c.seen) => Later(c.seen[n], k)
    BY <1>1, <1>4, <2>2, <2>3 DEF SeenEvolves
  <2> QED BY <2>4, <2>6, <2>7, <2>8, <2>9, <2>10 DEF GotDetail
<1>7. AskedEach(c, r)
  <2>1. c.at = "rows" => c.got = << >>
    BY <1>3, <1>4 DEF AskedEach
  <2>2. ASSUME c.at = "each"
        PROVE  /\ c.todo \in Seq(Name) /\ c.todo # << >> /\ c.got \in Seq(ToSet(c.got))
               /\ r.name = Head(c.todo)
               /\ c.tool = "inspect_containers_health" => HealthSoFar(c)
    BY <1>1, <1>2, <1>3, <1>4, <2>2 DEF AskedEach, HealthSoFar, Targets
  <2>3. ASSUME c.at = "each", c.tool = "inspect_project_runtime"
        PROVE  \A d \in ToSet(c.got) : GotDetail(c, d)
    <3>1. request.op = "container_detail"
      BY <1>1, <1>3, <2>3 DEF Asked
    <3>2. c.seen = call.seen
      BY <1>2, <1>3, <3>1
    <3> QED BY <1>3, <1>4, <2>3, <3>2 DEF AskedEach, GotDetail
  <2> QED BY <1>6, <2>1, <2>2, <2>3 DEF AskedEach
<1>8. Concluded(c)
  BY <1>1, <1>3 DEF Concluded, Waiting
<1> QED BY <1>1, <1>2, <1>5, <1>7, <1>8, ProjectPrimed

LEMMA Appended ==
  ASSUME NEW s, NEW x, s \in Seq(ToSet(s))
  PROVE  /\ Append(s, x) \in Seq(ToSet(Append(s, x)))
         /\ ToSet(Append(s, x)) = ToSet(s) \union {x} /\ Len(Append(s, x)) = Len(s) + 1
         /\ \A i \in 1..Len(s) : Append(s, x)[i] = s[i]
         /\ Append(s, x)[Len(s) + 1] = x
<1>0. PICK t : t = Append(s, x)
  OBVIOUS
<1>1. PICK U : U = ToSet(s) \union {x}
  OBVIOUS
<1>2. s \in Seq(U) /\ x \in U
  <2>1. Len(s) \in Nat /\ s = [i \in 1..Len(s) |-> s[i]] /\ \A i \in 1..Len(s) : s[i] \in ToSet(s)
    OBVIOUS
  <2> QED BY <1>1, <2>1
<1>3. /\ t \in Seq(U) /\ Len(t) = Len(s) + 1 /\ Len(s) \in Nat /\ DOMAIN s = 1..Len(s)
      /\ DOMAIN t = 1..Len(s) + 1
      /\ \A i \in 1..Len(s) : t[i] = s[i]
      /\ t[Len(s) + 1] = x
  BY <1>0, <1>2
<1>4. ToSet(t) = U
  <2>1. \A i \in DOMAIN t : t[i] \in U
    BY <1>3
  <2>2. \A y \in ToSet(s) : \E i \in DOMAIN t : t[i] = y
    BY <1>3 DEF ToSet
  <2>3. \E i \in DOMAIN t : t[i] = x
    BY <1>3
  <2> QED BY <1>1, <2>1, <2>2, <2>3 DEF ToSet
<1> QED BY <1>0, <1>1, <1>3, <1>4

\* One container of a health inspection is answered for.
LEMMA HealthProject ==
  ASSUME ProtocolInv, ProjectInv, NEW reply, TakeHealth(reply),
         reply.ok => request.at = "answered" /\ reply = request.reply
  PROVE  AskedEach(call', request') /\ Concluded(call')
<1>0. call.at = "each" /\ request # NoRequest /\ call.tool = "inspect_containers_health"
  BY DEF TakeHealth, Waits
<1>1. DOMAIN call = CallFields /\ SameCall(call, call) /\ call # NoCall
  BY <1>0, WaitingCall DEF SameCall, NoCall, CallFields
<1>2. AskedEach(call, request)
  BY <1>1 DEF ProjectInv
<1>3. PICK item, g, t, c, d, r :
        /\ item = HealthItem(reply, Head(call.todo)) /\ g = Append(call.got, item) /\ t = Tail(call.todo)
        /\ c = [call EXCEPT !.got = g, !.todo = t] /\ d = call' /\ r = request'
  OBVIOUS
<1>4. IF c.todo = << >> THEN EndsWith(c, Result(c.got)) /\ request' = NoRequest
      ELSE Asks(c, "each", NameRequest("container_health", Head(c.todo)))
  BY <1>3 DEF TakeHealth
<1>5. SameCall(call, c) /\ c.got = g /\ c.todo = t
  BY <1>1, <1>3 DEF SameCall, CallFields
<1>6. /\ call.todo \in Seq(Name) /\ call.todo # << >> /\ call.got \in Seq(ToSet(call.got))
      /\ request.name = Head(call.todo) /\ HealthSoFar(call)
      /\ request.at = "answered" /\ request.reply.ok => request.reply.result.name = request.name
  BY <1>0, <1>2 DEF AskedEach
<1>7. item.container = Head(call.todo)
  BY <1>3, <1>6 DEF HealthItem
<1>8. PICK targets : targets = Targets(call)
  OBVIOUS
<1>9. /\ g \in Seq(ToSet(g)) /\ t \in Seq(Name) /\ Len(g) + Len(t) = Len(targets)
      /\ targets \in Seq(ToSet(targets))
      /\ \A i \in 1..Len(g) : g[i].container = targets[i].target
      /\ \A i \in 1..Len(t) : t[i] = targets[Len(g) + i].target
  <2>1. /\ targets \in Seq(ToSet(targets)) /\ Len(call.got) + Len(call.todo) = Len(targets)
        /\ \A i \in 1..Len(call.got) : call.got[i].container = targets[i].target
        /\ \A i \in 1..Len(call.todo) : call.todo[i] = targets[Len(call.got) + i].target
    BY <1>6, <1>8 DEF HealthSoFar
  <2>2. PICK got, todo : got = call.got /\ todo = call.todo
    OBVIOUS
  <2>3. /\ g \in Seq(ToSet(g)) /\ Len(g) = Len(got) + 1
        /\ \A i \in 1..Len(got) : g[i] = got[i]
        /\ g[Len(got) + 1] = item
    <3>1. g = Append(got, item) /\ got \in Seq(ToSet(got))
      BY <1>3, <1>6, <2>2
    <3> QED BY <3>1, Appended
  <2>4. /\ t \in Seq(Name) /\ Len(t) = Len(todo) - 1 /\ Len(todo) \in Nat /\ Len(todo) >= 1
        /\ \A i \in 1..Len(t) : t[i] = todo[i + 1]
        /\ Head(todo) = todo[1]
    <3>1. t = Tail(todo) /\ todo \in Seq(Name) /\ todo # << >>
      BY <1>3, <1>6, <2>2
    <3> QED BY <3>1
  <2>5. Len(got) \in Nat /\ Len(targets) \in Nat /\ Len(got) + Len(todo) = Len(targets)
    <3>1. Len(got) + Len(todo) = Len(targets)
      BY <2>1, <2>2, Zenon
    <3>2. got \in Seq(ToSet(got)) /\ targets \in Seq(ToSet(targets))
      BY <1>6, <2>1, <2>2, Zenon
    <3>3. Len(got) \in Nat /\ Len(targets) \in Nat
      BY ONLY <3>2
    <3> QED BY <3>1, <3>3, Zenon
  <2>6. Len(g) + Len(t) = Len(targets)
    <3>1. Len(g) = Len(got) + 1 /\ Len(t) = Len(todo) - 1 /\ Len(todo) \in Nat
      BY <2>3, <2>4, Zenon
    <3> QED BY ONLY <2>5, <3>1
  <2>7. item.container = targets[Len(got) + 1].target
    <3>1. Len(todo) \in Nat /\ Len(todo) >= 1 /\ Head(todo) = todo[1]
      BY <2>4, Zenon
    <3>2. 1 \in 1..Len(todo)
      BY ONLY <3>1
    <3>3. todo[1] = targets[Len(got) + 1].target
      BY <2>1, <2>2, <3>2, Zenon
    <3>4. item.container = Head(todo)
      BY <1>7, <2>2, Zenon
    <3> QED BY <3>1, <3>3, <3>4, Zenon
  <2>8. ASSUME NEW i \in 1..Len(g) PROVE g[i].container = targets[i].target
    <3>1. CASE i = Len(got) + 1
      BY <2>3, <2>7, <3>1
    <3>2. CASE i \in 1..Len(got)
      BY <2>1, <2>2, <2>3, <3>2
    <3> QED BY <2>3, <2>5, <3>1, <3>2
  <2>9. ASSUME NEW i \in 1..Len(t) PROVE t[i] = targets[Len(g) + i].target
    <3>1. i + 1 \in 1..Len(todo) /\ Len(got) + (i + 1) = Len(g) + i
      BY <2>3, <2>4, <2>5
    <3>2. todo[i + 1] = targets[Len(got) + (i + 1)].target
      BY <2>1, <2>2, <3>1
    <3> QED BY <2>4, <3>1, <3>2
  <2> QED BY <2>1, <2>3, <2>4, <2>6, <2>8, <2>9
<1>10. CASE t = << >>
  <2>1. EndsWith(c, Result(g))
    BY <1>4, <1>5, <1>10
  <2>2. SameCall(call, d) /\ d.at = "ended" /\ d.answer = Result(g)
    BY <1>3, <1>5, <2>1, EndSame
  <2>3. d.answer.result = g /\ Targets(d) = targets /\ d.tool = "inspect_containers_health"
    BY <1>0, <1>8, <2>2 DEF Result, Targets, SameCall
  <2>4. DOMAIN g = DOMAIN targets /\ DOMAIN g = 1..Len(g)
    BY <1>9, <1>10
  <2>5. Concluded(d)
    BY <1>9, <2>3, <2>4 DEF Concluded
  <2>6. AskedEach(d, r)
    BY <2>2 DEF AskedEach
  <2> QED BY <1>3, <2>5, <2>6
<1>11. CASE t # << >>
  <2>1. Asks(c, "each", NameRequest("container_health", Head(t)))
    BY <1>4, <1>5, <1>11
  <2>2. SameCall(call, d) /\ d.at = "each" /\ d.got = g /\ d.todo = t
        /\ r = NameRequest("container_health", Head(t))
    BY <1>3, <1>5, <2>1, AskSame
  <2>3. r.name = Head(t) /\ r.at = "received"
    BY <2>2, NameRequestIs
  <2>4. Targets(d) = targets /\ d.tool = "inspect_containers_health"
    BY <1>0, <1>8, <2>2 DEF Targets, SameCall
  <2>5. HealthSoFar(d)
    BY <1>9, <2>2, <2>4 DEF HealthSoFar
  <2>6. AskedEach(d, r) /\ Concluded(d)
    BY <1>9, <1>11, <2>2, <2>3, <2>4, <2>5 DEF AskedEach, Concluded
  <2> QED BY <1>3, <2>6
<1> QED BY <1>10, <1>11

\* The names of the selected rows are asked about one after the other.
LEMMA RowsProject ==
  ASSUME ProtocolInv, InventoryInv, ProjectInv, NEW reply, TakeRows(reply),
         reply.ok => request.at = "answered" /\ reply = request.reply
  PROVE  AskedEach(call', request') /\ Concluded(call')
<1>0. request # NoRequest /\ call.at = "rows"
  BY DEF TakeRows, Waits
<1>1. DOMAIN call = CallFields /\ call # NoCall /\ Asked(call, request) /\ SameCall(call, call)
  BY <1>0, WaitingCall DEF CallFields, NoCall, SameCall
<1>2. call.got = << >>
  BY <1>0, <1>1 DEF ProjectInv, AskedEach
<1>3. PICK d, r : d = call' /\ r = request'
  OBVIOUS
<1>4. Replies(reply)
  BY DEF Replies
<1>5. SameCall(call, d) /\ Fresh(r)
  BY <1>3, <1>4, RepliesSame
<1>6. IsRequest(d, r)
  BY <1>3, <1>4, ReplyProtocol DEF ProtocolInv
<1>7. CASE call.tool # "inspect_project_runtime"
  <2>1. d.tool \notin {"inspect_containers_health", "inspect_project_runtime"}
    BY <1>0, <1>1, <1>5, <1>7 DEF SameCall, Asked, ComposeTools
  <2>2. d.at # "rows"
    <3>1. PICK c : c = [call EXCEPT !.rows = reply.result.rows]
      OBVIOUS
    <3>2. SameCall(call, c)
      BY <1>1, <3>1 DEF SameCall, CallFields
    <3>3. (\E answer : EndsWith(call, answer) \/ EndsWith(c, answer)) \/ call' = [c EXCEPT !.at = "look_tag"]
      BY <1>7, <3>1 DEF TakeRows
    <3>4. (\E answer : EndsWith(call, answer) \/ EndsWith(c, answer)) => d.at = "ended"
      BY <1>1, <1>3, <3>2, EndSame
    <3>5. call' = [c EXCEPT !.at = "look_tag"] => d.at = "look_tag"
      BY <1>3, <3>2 DEF SameCall, CallFields
    <3> QED BY <3>3, <3>4, <3>5
  <2>3. AskedEach(d, r) /\ Concluded(d)
    BY <1>6, <2>1, <2>2, NotOfProject
  <2> QED BY <1>3, <2>3
<1>8. CASE call.tool = "inspect_project_runtime" /\ \E answer : EndsWith(call, answer) /\ ~answer.ok
  <2>1. d.at = "ended" /\ ~d.answer.ok
    BY <1>1, <1>3, <1>8, EndSame
  <2>2. AskedEach(d, r) /\ Concluded(d)
    BY <2>1 DEF AskedEach, Concluded
  <2> QED BY <1>3, <2>2
<1>9. ASSUME call.tool = "inspect_project_runtime", reply.ok, ~ComposeUnavailable
      PROVE  AskedEach(call', request') /\ Concluded(call')
  <2>1. PICK c, names :
          /\ c = [call EXCEPT !.rows = reply.result.rows] /\ names = SelectedRows(c.rows, Expected)
    OBVIOUS
  <2>2. SameCall(call, c) /\ c.rows = reply.result.rows /\ c.got = << >>
    BY <1>1, <1>2, <2>1 DEF SameCall, CallFields
  <2>3. PICK todo, e : todo = [i \in DOMAIN names |-> names[i].name] /\ e = [c EXCEPT !.todo = todo]
    OBVIOUS
  <2>4. SameCall(call, e) /\ e.todo = todo /\ e.got = << >>
    BY <2>2, <2>3 DEF SameCall, CallFields
  <2>5. IF names = << >>
        THEN EndsWith(c, Result(RuntimeRows(c.rows, Expected, << >>))) /\ request' = NoRequest
        ELSE Asks(e, "each", NameRequest("container_detail", names[1].name))
    BY <1>9, <2>1, <2>3 DEF TakeRows, ListingTools
  <2>6. d.seen = call.seen /\ d.manifest = call.manifest /\ d.tool = call.tool
    BY <1>5 DEF SameCall
  <2>7. SeenRight(d) /\ c.rows = RowsOf(d) /\ Expected = ExpectedOf(d)
    <3>1. request.op = "vps_containers_inventory"
      BY <1>0, <1>1, <1>9 DEF Asked
    <3>2. SeenRight(call) /\ reply.result.rows = RowsOf(call)
      BY <1>0, <1>9, <3>1 DEF InventoryInv, Inventoried
    <3> QED BY <2>2, <2>6, <3>2 DEF SeenRight, RowsOf, Expected, ExpectedOf
  <2>8. CASE names = << >>
    <3>1. PICK none, result : none = << >> /\ result = RuntimeRows(c.rows, Expected, none)
      OBVIOUS
    <3>2. EndsWith(c, Result(result))
      BY <2>5, <2>8, <3>1
    <3>3. d.at = "ended" /\ d.answer.result = result
      BY <1>3, <2>2, <3>2, EndSame DEF Result
    <3>4. result = RuntimeRows(RowsOf(d), ExpectedOf(d), none) /\ DOMAIN none = {}
      BY <2>7, <3>1
    <3>5. JudgedTruly(d, result.warnings) /\ RowsDetailed(d, result)
      BY <2>7, <3>4, RuntimeJudged
    <3>6. AskedEach(d, r) /\ Concluded(d)
      BY <1>9, <2>6, <3>3, <3>5 DEF AskedEach, Concluded
    <3> QED BY <1>3, <3>6
  <2>9. CASE names # << >>
    <3>1. Asks(e, "each", NameRequest("container_detail", names[1].name))
      BY <2>5, <2>9
    <3>2. d.at = "each" /\ d.got = << >> /\ d.todo = todo
          /\ r = NameRequest("container_detail", names[1].name)
      BY <1>3, <2>4, <3>1, AskSame
    <3>3. names \in Seq({d.seen[n] : n \in Present(d.seen)})
      <4>1. PICK T, all, rows : T = {d.seen[n] : n \in Present(d.seen)} /\ all = SortedRows(d.seen)
                                /\ rows = RowsOf(d)
        OBVIOUS
      <4>2. all \in Seq(T) /\ MaxContainers \in Nat
        BY <2>7, <4>1, SeenRows, SocketAppAssumption
      <4>3. rows \in Seq(T)
        BY <4>1, <4>2, FirstRowsAre DEF RowsOf
      <4> QED BY <2>1, <2>7, <4>1, <4>3, SelectedAre
    <3>4. \A i \in DOMAIN names : names[i].name \in Name
      <4>1. \A x \in {d.seen[n] : n \in Present(d.seen)} : x.name \in Name
        BY <2>7 DEF SeenRight, Present, IsContainer
      <4> QED BY <3>3, <4>1
    <3>5. todo \in Seq(Name) /\ todo # << >> /\ Head(todo) = names[1].name
      <4>1. Len(names) \in Nat /\ DOMAIN names = 1..Len(names) /\ Len(names) # 0
        BY <2>9, <3>3
      <4> QED BY <2>3, <3>4, <4>1
    <3>6. r.name = Head(todo) /\ r.at = "received"
      BY <3>2, <3>5, NameRequestIs
    <3>7. << >> \in Seq(ToSet(<< >>)) /\ ToSet(<< >>) = {}
      BY DEF ToSet
    <3>8. AskedEach(d, r) /\ Concluded(d)
      BY <1>9, <2>6, <3>2, <3>5, <3>6, <3>7 DEF AskedEach, Concluded
    <3> QED BY <1>3, <3>8
  <2> QED BY <2>8, <2>9
<1> QED BY <1>7, <1>8, <1>9 DEF TakeRows, ListingTools, Failed

\* After the last name the report is made of the details that were answered.
LEMMA DetailsProject ==
  ASSUME ProtocolInv, InventoryInv, ProjectInv, NEW reply, TakeDetail(reply),
         reply.ok => request.at = "answered" /\ reply = request.reply
  PROVE  AskedEach(call', request') /\ Concluded(call')
<1>0. call.at = "each" /\ request # NoRequest /\ call.tool = "inspect_project_runtime"
  BY DEF TakeDetail, Waits
<1>1. DOMAIN call = CallFields /\ SameCall(call, call) /\ call # NoCall
  BY <1>0, WaitingCall DEF SameCall, NoCall, CallFields
<1>2. AskedEach(call, request)
  BY <1>1 DEF ProjectInv
<1>3. PICK g, t, c, d, r :
        /\ g = (IF reply.ok THEN Append(call.got, reply.result) ELSE call.got) /\ t = Tail(call.todo)
        /\ c = [call EXCEPT !.todo = t, !.got = g] /\ d = call' /\ r = request'
  OBVIOUS
<1>4. SameCall(call, c) /\ c.got = g /\ c.todo = t /\ c.rows = call.rows
  BY <1>1, <1>3 DEF SameCall, CallFields
<1>5. PICK details : details = [n \in {x.name : x \in ToSet(g)} |-> CHOOSE x \in ToSet(g) : x.name = n]
  OBVIOUS
<1>6. IF t = << >>
      THEN EndsWith(c, Result(RuntimeRows(c.rows, Expected, details))) /\ request' = NoRequest
      ELSE Asks(c, "each", NameRequest("container_detail", Head(t)))
  BY <1>3, <1>4, <1>5 DEF TakeDetail
<1>7. /\ call.todo \in Seq(Name) /\ call.todo # << >> /\ call.got \in Seq(ToSet(call.got))
      /\ \A x \in ToSet(call.got) : GotDetail(call, x)
      /\ request.at = "answered" /\ request.reply.ok => GotDetail(call, request.reply.result)
  BY <1>0, <1>2 DEF AskedEach
<1>8. g \in Seq(ToSet(g)) /\ \A x \in ToSet(g) : GotDetail(call, x)
  <2>1. CASE reply.ok
    <3>1. PICK got, x : got = call.got /\ x = reply.result
      OBVIOUS
    <3>2. g = Append(got, x) /\ got \in Seq(ToSet(got)) /\ GotDetail(call, x)
      BY <1>3, <1>7, <2>1, <3>1
    <3>3. g \in Seq(ToSet(g)) /\ ToSet(g) = ToSet(got) \union {x}
      BY <3>2, Appended
    <3> QED BY <1>7, <3>1, <3>2, <3>3
  <2>2. CASE ~reply.ok
    BY <1>3, <1>7, <2>2
  <2> QED BY <2>1, <2>2
<1>9. t \in Seq(Name)
  BY <1>3, <1>7
<1>10. ASSUME NEW x, d.seen = call.seen, GotDetail(call, x) PROVE GotDetail(d, x)
  BY <1>10 DEF GotDetail
<1>11. CASE t = << >>
  <2>1. PICK result : result = RuntimeRows(c.rows, Expected, details)
    OBVIOUS
  <2>2. EndsWith(c, Result(result))
    BY <1>6, <1>11, <2>1
  <2>3. SameCall(call, d) /\ d.at = "ended" /\ d.answer.result = result
    BY <1>3, <1>4, <2>2, EndSame DEF Result
  <2>4. d.seen = call.seen /\ d.manifest = call.manifest
    BY <2>3 DEF SameCall
  <2>5. SeenRight(d) /\ c.rows = RowsOf(d) /\ Expected = ExpectedOf(d)
    <3>1. SeenRight(call) /\ call.rows = RowsOf(call)
      BY <1>0, <1>1 DEF InventoryInv, Reported
    <3> QED BY <1>4, <2>4, <3>1 DEF SeenRight, RowsOf, Expected, ExpectedOf
  <2>6. \A n \in DOMAIN details : GotDetail(d, details[n]) /\ details[n].name = n
    <3>1. SUFFICES ASSUME NEW n \in DOMAIN details
                   PROVE  GotDetail(d, details[n]) /\ details[n].name = n
      OBVIOUS
    <3>2. \E x \in ToSet(g) : x.name = n
      BY <1>5
    <3>3. details[n] = CHOOSE x \in ToSet(g) : x.name = n
      BY <1>5
    <3>4. details[n] \in ToSet(g) /\ details[n].name = n
      BY <3>2, <3>3
    <3> QED BY <1>8, <1>10, <2>4, <3>4
  <2>7. result = RuntimeRows(RowsOf(d), ExpectedOf(d), details)
    BY <2>1, <2>5
  <2>8. JudgedTruly(d, result.warnings) /\ RowsDetailed(d, result)
    BY <2>5, <2>6, <2>7, RuntimeJudged
  <2>9. d.tool = "inspect_project_runtime"
    BY <1>0, <2>3 DEF SameCall
  <2>10. AskedEach(d, r) /\ Concluded(d)
    BY <2>3, <2>8, <2>9 DEF AskedEach, Concluded
  <2> QED BY <1>3, <2>10
<1>12. CASE t # << >>
  <2>1. Asks(c, "each", NameRequest("container_detail", Head(t)))
    BY <1>6, <1>12
  <2>2. SameCall(call, d) /\ d.at = "each" /\ d.got = g /\ d.todo = t
        /\ r = NameRequest("container_detail", Head(t))
    BY <1>3, <1>4, <2>1, AskSame
  <2>3. r.name = Head(t) /\ r.at = "received"
    BY <2>2, NameRequestIs
  <2>4. d.seen = call.seen /\ d.tool = "inspect_project_runtime"
    BY <1>0, <2>2 DEF SameCall
  <2>5. \A x \in ToSet(g) : GotDetail(d, x)
    BY <1>8, <1>10, <2>4
  <2>6. AskedEach(d, r) /\ Concluded(d)
    BY <1>8, <1>9, <1>12, <2>2, <2>3, <2>4, <2>5 DEF AskedEach, Concluded
  <2> QED BY <1>3, <2>6
<1> QED BY <1>11, <1>12

LEMMA RepliesProject ==
  ASSUME ProtocolInv, InventoryInv, ProjectInv, NEW reply, Replies(reply),
         reply.ok => request.at = "answered" /\ reply = request.reply
  PROVE  ProjectInv'
<1>1. PICK d, r : d = call' /\ r = request'
  OBVIOUS
<1>2. SameCall(call, d) /\ UNCHANGED containers
  BY <1>1, RepliesSame
<1>3. request # NoRequest
  BY DEF Replies, TakeResult, TakeFirstStat, TakeSecondStat, TakeHealth, TakeRows, TakeDetail, Waits
<1>4. call # NoCall /\ Asked(call, request)
  BY <1>3, WaitingCall DEF CallFields, NoCall
<1>5. d.seen = call.seen /\ d.tool = call.tool
  BY <1>2 DEF SameCall
<1>6. SeenEvolves(d)
  BY <1>4, <1>5 DEF ProjectInv, SeenEvolves
<1>7. AskedEach(d, r) /\ Concluded(d)
  <2>1. CASE TakeHealth(reply)
    BY <1>1, <2>1, HealthProject
  <2>2. CASE TakeRows(reply)
    BY <1>1, <2>2, RowsProject
  <2>3. CASE TakeDetail(reply)
    BY <1>1, <2>3, DetailsProject
  <2>4. CASE TakeResult(reply) \/ TakeFirstStat(reply) \/ TakeSecondStat(reply)
    <3>1. d.tool \notin {"inspect_containers_health", "inspect_project_runtime"}
          /\ d.tool \in PathTools \union {"inspect_container_detail"}
      BY <1>4, <1>5, <2>4 DEF TakeResult, TakeFirstStat, TakeSecondStat, Waits, Asked, PathTools
    <3>2. IsRequest(d, r)
      BY <1>1, ReplyProtocol DEF ProtocolInv
    <3>3. d.at # "rows"
      BY <3>1, <3>2 DEF IsRequest, Asked, Waiting, PathTools, ComposeTools
    <3> QED BY <3>1, <3>2, <3>3, NotOfProject
  <2> QED BY <2>1, <2>2, <2>3, <2>4 DEF Replies
<1> QED BY <1>1, <1>2, <1>6, <1>7, ProjectPrimed

LEMMA ProjectStep ==
  ASSUME HostInv, ProtocolInv, InventoryInv, ProjectInv, [Next]_vars
  PROVE  ProjectInv'
<1>1. CASE BeginSourceTool \/ BeginListing \/ BeginHealth
  BY <1>1, BeginsProject
<1>2. CASE Replied
  BY <1>2, RepliesProject DEF Replied
<1>3. CASE TimeOut \/ AppIsDown
  <2>1. PICK reply : Replies(reply) /\ ~reply.ok
    BY <1>3 DEF TimeOut, AppIsDown, Failed
  <2> QED BY <2>1, RepliesProject
<1>4. CASE LookForTag \/ ReadTag
  <2>1. PICK d, r : d = call' /\ r = request'
    OBVIOUS
  <2>2. /\ SameCall(call, d) /\ call.tool = "inspect_project_deployment" /\ UNCHANGED containers
        /\ r = NoRequest
    BY <1>4, <2>1, TagSame
  <2>3. d.seen = call.seen /\ d.tool = "inspect_project_deployment" /\ call # NoCall
    BY <2>2 DEF SameCall, NoCall, CallFields
  <2>4. SeenEvolves(d)
    BY <2>3 DEF ProjectInv, SeenEvolves
  <2>5. ProtocolInv'
    BY <1>4, RestProtocol
  <2>6. IsRequest(d, r)
    BY <2>1, <2>5 DEF ProtocolInv
  <2>7. d.at # "rows"
    <3>1. DOMAIN r # RequestFields \/ Asked(d, r)
      BY <2>2, <2>6 DEF IsRequest, Waiting, RequestFields, NoRequest
    <3>2. d.at \notin Waiting
      BY <2>1, <2>2, <1>4 DEF LookForTag, ReadTag, EndDeployment, EndsWith, SameCall, CallFields, Waiting
    <3> QED BY <3>2 DEF Waiting
  <2>8. AskedEach(d, r) /\ Concluded(d)
    BY <2>3, <2>6, <2>7, NotOfProject
  <2> QED BY <2>1, <2>2, <2>4, <2>8, ProjectPrimed
<1>5. CASE AppRuns
  BY <1>5, AppProject
<1>6. CASE Return
  <2>1. call' = NoCall
    BY <1>6 DEF Return
  <2> QED BY <2>1 DEF ProjectInv, SeenEvolves
<1>7. CASE OthersChange \/ UNCHANGED vars
  <2>1. UNCHANGED << call, request >>
    BY <1>7 DEF OthersChange, HostChanges, ReplaceTagFile, vars, appVars
  <2> QED BY <2>1, OthersProject
<1> QED BY <1>1, <1>2, <1>3, <1>4, <1>5, <1>6, <1>7 DEF Next, ClientStep

\* Rows and details stay in the order they were read in, whatever is recreated
\* meanwhile.
THEOREM Projects == Spec => []ProjectInv
<1>1. InspectionInit => ProjectInv
  BY DEF InspectionInit, ProjectInv, SeenEvolves
<1>2. HostInv /\ ProtocolInv /\ InventoryInv /\ ProjectInv /\ [Next]_vars => ProjectInv'
  BY ProjectStep
<1> QED BY <1>1, <1>2, Host, Protocol, Inventories, PTL DEF Spec

\* What came from each other is the same.
LEMMA Unchanged ==
  ASSUME NEW n \in Name, NEW a, NEW b, IsContainer(n, a), IsContainer(n, b), b # NoContainer,
         a # NoContainer, Later(a, b), Later(b, a)
  PROVE  b = a
BY DEF Later, IsContainer

\* The project inspections warn truly of the expected services, a detail is of the
\* container of its row or that container is gone or replaced, and each docker
\* source has its item of health (ComposeStateService.compare,
\* ProjectRuntimeService.inspect, inspect_containers_health).
THEOREM ProjectReported == Spec => []ProjectReportTrue
<1>1. ASSUME InventoryInv, ProjectInv
      PROVE  ProjectReportTrue
  <2>1. PICK c, result : c = call /\ result = call.answer.result
    OBVIOUS
  <2>0. ASSUME NEW tool, Answered(tool)
        PROVE  /\ c # NoCall /\ c.at = "ended" /\ c.tool = tool /\ c.answer.ok
               /\ SeenEvolves(c) /\ Concluded(c) /\ Reported(c)
    <3>1. c.at = "ended" /\ c.tool = tool /\ c.answer.ok
      BY <2>0, <2>1 DEF Answered
    <3>2. c # NoCall
      BY <3>1 DEF NoCall
    <3>3. SeenEvolves(c) /\ Concluded(c) /\ Reported(c)
      BY <1>1, <2>1, <3>2 DEF ProjectInv, InventoryInv
    <3> QED BY <3>1, <3>2, <3>3
  <2>2. ASSUME NEW warnings, JudgedTruly(c, warnings), Cardinality(Present(c.seen)) <= MaxContainers
        PROVE  WarnsTruly(warnings)
    <3>1. Expected = ExpectedOf(c) /\ \A e : RunningOf(e) = RunningSeen(c, e)
      BY <2>1 DEF Expected, ExpectedOf, RunningOf, RunningSeen
    <3> QED BY <2>2, <3>1 DEF JudgedTruly, WarnsTruly
  <2>3. ASSUME Answered("inspect_project_compose_state"), Cardinality(Present(c.seen)) <= MaxContainers
        PROVE  WarnsTruly(result)
    <3>1. SeenRight(c) /\ result = ComposeWarnings(RowsOf(c), ExpectedOf(c))
      BY <2>0, <2>1, <2>3 DEF Reported
    <3>2. PICK others : others = {}
      OBVIOUS
    <3>3. result = ComposeWarnings(RowsOf(c), ExpectedOf(c)) \union others
      BY <3>1, <3>2
    <3>4. JudgedTruly(c, result)
      BY <3>1, <3>2, <3>3, ComposeJudged
    <3> QED BY <2>2, <2>3, <3>4
  <2>4. ASSUME Answered("inspect_project_runtime")
        PROVE  JudgedTruly(c, result.warnings) /\ RowsDetailed(c, result) /\ SeenEvolves(c) /\ c # NoCall
    BY <2>0, <2>1, <2>4 DEF Concluded
  <2>5. ASSUME Answered("inspect_project_runtime"), NEW i \in DOMAIN result.rows, NEW row,
               row = result.rows[i].row
        PROVE  \/ result.rows[i].detail = row
               \/ [code |-> "container_detail_unavailable", about |-> row.name] \in result.warnings
               \/ containers[row.name] # row
    <3>1. PICK detail : detail = result.rows[i].detail
      OBVIOUS
    <3>2. /\ row.name \in Present(c.seen) /\ row = c.seen[row.name]
          /\ \/ [code |-> "container_detail_unavailable", about |-> row.name] \in result.warnings
             \/ GotDetail(c, detail) /\ detail.name = row.name
      BY <2>4, <2>5, <3>1 DEF RowsDetailed
    <3>3. row # NoContainer /\ row.name \in Name /\ IsContainer(row.name, row)
      BY <2>4, <2>5, <3>2 DEF SeenEvolves, Present
    <3>4. ASSUME GotDetail(c, detail), detail.name = row.name, containers[row.name] = row
          PROVE  detail = row
      <4>1. /\ detail # NoContainer /\ IsContainer(row.name, detail)
            /\ Later(detail, row) /\ Later(row, detail)
        BY <3>2, <3>4 DEF GotDetail
      <4> QED BY <3>3, <4>1, Unchanged
    <3> QED BY <3>1, <3>2, <3>4
  <2>6. ASSUME Answered("inspect_containers_health")
        PROVE  [i \in DOMAIN result |-> result[i].container] =
                 [i \in DOMAIN DockerSources(call.manifest.sources) |->
                    DockerSources(call.manifest.sources)[i].target]
    <3>1. /\ DOMAIN result = DOMAIN Targets(c)
          /\ \A i \in DOMAIN Targets(c) : result[i].container = Targets(c)[i].target
      BY <2>0, <2>1, <2>6 DEF Concluded
    <3>2. Targets(c) = DockerSources(call.manifest.sources)
      BY <2>1 DEF Targets
    <3> QED BY <3>1, <3>2
  <2> QED BY <2>1, <2>2, <2>3, <2>4, <2>5, <2>6 DEF ProjectReportTrue
<1> QED BY <1>1, Inventories, Projects, PTL
=============================================================================
