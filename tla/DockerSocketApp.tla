-------------------------- MODULE DockerSocketApp --------------------------
(***************************************************************************)
(* The Docker side of the inspection tools: the containers of the host, the *)
(* files of one of them, and the socket app that answers one request about *)
(* them over a connection of its own.                                      *)
(*                                                                         *)
(* The app runs each request in a thread and changes nothing, so a request *)
(* whose client gave up is dropped from the model. A request about a path   *)
(* takes one exec per step, and the exec of a read or a listing takes two: *)
(* find names the files, then cat or stat runs on them. Everything on the   *)
(* host may change between two steps.                                      *)
(*                                                                         *)
(* A container is named by a number, its place in the order of names; a    *)
(* path is its sequence of names. A file's content is its version and its  *)
(* length; one that is no UTF-8 text grows threefold when decoded, as each *)
(* byte becomes U+FFFD. A symbolic link has an absolute target. An entry is *)
(* readable when the user of the exec may read the file, or enter and list *)
(* the directory.                                                          *)
(***************************************************************************)
EXTENDS PythonLists, FiniteSets

CONSTANTS
  Name,           \* container names
  Worlds,         \* the containers the host may start with: for each name a
                  \* record of name, id, project, service, running, repo, tag
  Target,         \* the container whose files are modelled
  Path,           \* the paths of its file system, as sequences of names
  ImageTree,      \* the files of a container that was just created
  NewFile,        \* what a path may be replaced by: an entry without its version
  Volume,         \* Docker volumes: records of name, anonymous, dangling, prefixed
  NoContainer,    \* no container has this name
  MaxContainers,  \* MAX_VPS_CONTAINERS
  MaxVolumes,     \* MAX_VPS_VOLUMES
  MaxLookup,      \* the kernel's bound on a path lookup, in parts and links
  MaxEvents       \* bound on the changes of the host

\* What one path and one container is. The containers that a change creates have
\* the ids from 10 on.
ASSUME SocketAppAssumption ==
  /\ Name \subseteq Nat \ {0} /\ IsFiniteSet(Name) /\ Target \in Name
  /\ \A w \in Worlds : DOMAIN w = Name /\ \A n \in Name :
       w[n] = NoContainer \/
         /\ DOMAIN w[n] = {"name", "id", "project", "service", "running", "repo", "tag"}
         /\ w[n].name = n /\ w[n].id \in 0..9 /\ w[n].running \in BOOLEAN
  /\ Path \subseteq Seq(STRING) /\ IsFiniteSet(Path)
  /\ << >> \in Path /\ \A p \in Path : p # << >> => Front(p) \in Path
  /\ ImageTree \in [Path -> [kind : STRING, version : Nat, size : Nat, text : BOOLEAN,
                            readable : BOOLEAN, target : Seq(STRING)]]
  /\ NewFile \subseteq [kind : STRING, size : Nat, text : BOOLEAN, readable : BOOLEAN,
                       target : Seq(STRING)]
  /\ IsFiniteSet(Volume) /\ \A v \in Volume : v.name \in Nat
  /\ MaxContainers \in Nat \ {0} /\ MaxVolumes \in Nat \ {0} /\ MaxEvents \in Nat
  /\ MaxLookup \in Nat

VARIABLES
  containers,  \* the container of each name: [name, id, project, service, running, repo, tag]
  tree,        \* the files of Target: [kind, version, size, text, readable, target]
  request,     \* the request in the app
  events       \* number of changes of the host

hostVars == << containers, tree, events >>
appVars  == << hostVars, request >>

NoRequest == [op |-> "none"]
PathOperations == {"container_path_stat", "container_file_read", "container_directory_list"}
Nothing == [kind |-> "none", version |-> 0, size |-> 0, text |-> TRUE,
            readable |-> FALSE, target |-> << >>]
Directory == [kind |-> "dir", size |-> 0, text |-> TRUE, readable |-> TRUE, target |-> << >>]

\* path and volumes: what the operation reads of its parameters.
NewRequest(op, name, path, limit, filters) ==
  [op |-> op, name |-> name, path |-> path, limit |-> limit, filters |-> filters,
   at |-> "received", matched |-> {}, reply |-> [ok |-> FALSE, error |-> ""]]

Failed(error)  == [ok |-> FALSE, error |-> error]
Result(result) == [ok |-> TRUE, result |-> result]
Answer(reply)  == request' = [request EXCEPT !.at = "answered", !.reply = reply]

-----------------------------------------------------------------------------
(* Paths. A raw path has a leading slash or not, and parts.                *)

WithoutDots(raw) == Filter(raw.parts, ToSet(raw.parts) \ {"."})

PathErrorMutant(raw) == IF raw.absolute THEN "" ELSE "not_absolute"

PathError(raw) ==
  IF ~raw.absolute THEN "not_absolute"
  ELSE IF ".." \in ToSet(raw.parts) THEN "parent_traversal" ELSE ""

NormalizedPath(raw) == [absolute |-> TRUE, parts |-> WithoutDots(raw)]

\* A path lookup of the container's kernel, in the tree t: at is the place it has
\* reached, ahead the parts to go. It follows the symbolic links on its way, the
\* last part only when asked to, and sticks where it may not enter.
Enter(t, w, follow) ==
  LET place == IF Head(w.ahead) # ".." THEN Append(w.at, Head(w.ahead))
               ELSE IF w.at = << >> THEN << >> ELSE Front(w.at)
  IN  IF w.ahead = << >> \/ w.at \notin Path \/ t[w.at].kind # "dir" \/ ~t[w.at].readable THEN w
      ELSE IF place \in Path /\ t[place].kind = "link" /\ (follow \/ Tail(w.ahead) # << >>)
        THEN [at |-> << >>, ahead |-> t[place].target \o Tail(w.ahead)]
      ELSE [at |-> place, ahead |-> Tail(w.ahead)]

LookUp(t, parts, follow) ==
  FoldLeft(LAMBDA w, i : Enter(t, w, follow), [at |-> << >>, ahead |-> parts],
           [i \in 1..MaxLookup |-> i])

Entry(w) == IF w.ahead = << >> /\ w.at \in Path THEN tree[w.at] ELSE Nothing

\* The place of a path, its entry as lstat sees it, and as open does.
Resolved(parts) == LookUp(tree, parts, FALSE).at
EntryAt(parts)  == Entry(LookUp(tree, parts, FALSE))
Opened(parts)   == IF EntryAt(parts).kind # "link" THEN EntryAt(parts)
                   ELSE Entry(LookUp(tree, EntryAt(parts).target, TRUE))

Children(p) == {q \in Path : q # << >> /\ Front(q) = p}
Listed(parts) == {Append(parts, Last(q)) :
                    q \in {p \in Children(Resolved(parts)) : tree[p].kind \in {"file", "dir"}}}

-----------------------------------------------------------------------------
(* Containers                                                              *)

Present(cs) == {n \in DOMAIN cs : cs[n] # NoContainer}
SortedRows(cs) == LET names == Sorted(Present(cs), LAMBDA n : n)
                  IN  [i \in DOMAIN names |-> cs[names[i]]]
FirstRows(rows, max) == [rows |-> SubSeq(rows, 1, IF Len(rows) < max THEN Len(rows) ELSE max),
                         truncated |-> Len(rows) > max]

AppInspects ==
  /\ request.op \in {"container_health", "container_detail"} /\ request.at = "received"
  /\ Answer(IF containers[request.name] = NoContainer THEN Failed("container_unavailable")
            ELSE Result(containers[request.name]))
  /\ UNCHANGED hostVars

AppListsContainers ==
  /\ request.op = "vps_containers_inventory" /\ request.at = "received"
  /\ Answer(Result(FirstRows(SortedRows(containers), MaxContainers)))
  /\ UNCHANGED hostVars

MatchingVolumes(filters) ==
  {v \in Volume : (filters.dangling => v.dangling) /\ (filters.anonymous => v.anonymous)
                  /\ (filters.prefix => v.prefixed)}

AppListsVolumes ==
  /\ request.op = "vps_volumes_inventory" /\ request.at = "received"
  /\ Answer(Result(FirstRows(Sorted(MatchingVolumes(request.filters), LAMBDA v : v.name),
                             MaxVolumes)))
  /\ UNCHANGED hostVars

-----------------------------------------------------------------------------
(* Paths of the container. An exec needs a running container.              *)

ExecFails == containers[request.name] = NoContainer \/ ~containers[request.name].running

Meta(parts) == [path |-> parts, is_dir |-> EntryAt(parts).kind = "dir",
                size |-> EntryAt(parts).size, version |-> EntryAt(parts).version]

\* container_path_stat, which the other two operations call first. A path that
\* leads through a directory the exec may not enter has an error text of its own.
AppStats ==
  LET parts == NormalizedPath(request.path).parts
      entry == EntryAt(parts)
  IN  /\ request.op \in PathOperations /\ request.at = "received"
      /\ IF PathError(request.path) # "" THEN Answer(Failed(PathError(request.path)))
         ELSE IF ExecFails THEN Answer(Failed("container_unavailable"))
         ELSE IF entry.kind \notin {"file", "dir"} THEN Answer(Failed("path_not_found"))
         ELSE IF request.op = "container_path_stat" THEN Answer(Result(Meta(parts)))
         ELSE IF request.op = "container_file_read" /\ entry.kind = "dir"
           THEN Answer(Failed("is_directory"))
         ELSE IF request.op = "container_directory_list" /\ entry.kind = "file"
           THEN Answer(Result([rows |-> << Meta(parts) >>, truncated |-> FALSE]))
         ELSE request' = [request EXCEPT !.at = "typed"]
      /\ UNCHANGED hostVars

\* find: which files cat or stat will be run on. It prints nothing, and
\* succeeds, when the path is no longer of the kind asked for.
AppFinds ==
  LET parts == NormalizedPath(request.path).parts
      entry == EntryAt(parts)
  IN  /\ request.op \in PathOperations /\ request.at = "typed"
      /\ IF ExecFails THEN Answer(Failed("container_unavailable"))
         ELSE IF entry.kind = "none" THEN Answer(Failed("path_not_found"))
         ELSE IF request.op = "container_directory_list" /\ entry.kind = "dir" /\ ~entry.readable
           THEN Answer(Failed("permission_denied"))
         ELSE request' = [request EXCEPT !.at = "found", !.matched =
                IF request.op = "container_file_read"
                THEN (IF entry.kind = "file" THEN {parts} ELSE {})
                ELSE (IF entry.kind = "dir" THEN Listed(parts) ELSE {})]
      /\ UNCHANGED hostVars

\* The decoded output. stderr is merged into it and find succeeds whatever cat
\* does, so the error message of a file that cat may not read, or that is gone
\* when cat opens it, is the content.
Decoded(file) == IF file.text THEN file.size ELSE 3 * file.size
ErrorText == [version |-> 0, bytes |-> 1, text |-> TRUE]
Output(matched) ==
  IF matched = {} THEN [version |-> 0, bytes |-> 0, text |-> TRUE]
  ELSE LET file == Opened(CHOOSE p \in matched : TRUE)
       IN  IF file.kind # "file" \/ ~file.readable THEN ErrorText
           ELSE [version |-> file.version, bytes |-> Decoded(file), text |-> file.text]

\* Cut to the limit, without the part of a character that is left over.
CutContentMutant(content, limit) ==
  [content |-> [content EXCEPT !.bytes =
     IF @ < limit THEN @ ELSE IF content.text THEN limit ELSE limit - (limit % 3)],
   truncated |-> content.bytes >= limit]

CutContent(content, limit) ==
  [content |-> [content EXCEPT !.bytes =
     IF @ <= limit THEN @ ELSE IF content.text THEN limit ELSE limit - (limit % 3)],
   truncated |-> content.bytes > limit]

AppPrintsFile ==
  /\ request.op = "container_file_read" /\ request.at = "found"
  /\ Answer(IF ExecFails THEN Failed("container_unavailable")
            ELSE Result(CutContent(Output(request.matched), request.limit)))
  /\ UNCHANGED hostVars

\* Directories first; how paths are ordered among themselves is left open.
ListOrder(metas) == Sorted(metas, LAMBDA m : IF m.is_dir THEN 0 ELSE 1)

\* A line that stat could not print for one entry fails the whole listing.
AppPrintsDirectory ==
  /\ request.op = "container_directory_list" /\ request.at = "found"
  /\ Answer(IF ExecFails THEN Failed("container_unavailable")
            ELSE IF \E p \in request.matched : EntryAt(p).kind = "none"
              THEN Failed("not_enough_values")
            ELSE Result(FirstRows(ListOrder({Meta(p) : p \in request.matched}), request.limit)))
  /\ UNCHANGED hostVars

\* Docker refuses or times out: any operation may answer with an error.
DockerFails ==
  /\ request # NoRequest /\ request.at # "answered"
  /\ Answer(Failed("docker_error"))
  /\ UNCHANGED hostVars

AppStep == \/ AppInspects \/ AppListsContainers \/ AppListsVolumes \/ AppStats
           \/ AppFinds \/ AppPrintsFile \/ AppPrintsDirectory \/ DockerFails

-----------------------------------------------------------------------------
(* What others do on the host meanwhile                                    *)

Change == events < MaxEvents /\ events' = events + 1

RecreateContainer(n) ==
  /\ Change /\ containers[n] # NoContainer
  /\ \E tag \in {containers[n].tag, "new"} :
       containers' = [containers EXCEPT ![n].id = events + 10, ![n].running = TRUE, ![n].tag = tag]
  /\ tree' = IF n = Target THEN ImageTree ELSE tree

RemoveContainer(n) ==
  /\ Change /\ containers[n] # NoContainer
  /\ containers' = [containers EXCEPT ![n] = NoContainer]
  /\ UNCHANGED tree

StopContainer(n) ==
  /\ Change /\ containers[n] # NoContainer /\ containers[n].running
  /\ containers' = [containers EXCEPT ![n].running = FALSE]
  /\ UNCHANGED tree

Below(p) == {q \in Path : IsStrictPrefix(p, q)}

\* A path becomes a file, a directory, a link or something else, or goes away.
ReplacePath(p) ==
  /\ Change /\ p # << >> /\ tree[Front(p)].kind = "dir"
  /\ \E file \in NewFile \union {Directory, Nothing} :
       tree' = [q \in Path |->
                  IF q = p THEN [kind |-> file.kind, version |-> events + 10,
                                 size |-> file.size, text |-> file.text,
                                 readable |-> file.readable, target |-> file.target]
                  ELSE IF q \in Below(p) THEN Nothing ELSE tree[q]]
  /\ UNCHANGED containers

HostChanges ==
  /\ \/ \E n \in Name : RecreateContainer(n) \/ RemoveContainer(n) \/ StopContainer(n)
     \/ \E p \in Path : ReplacePath(p)
  /\ UNCHANGED request
=============================================================================
