------------------------ MODULE SnapshotToolsProofs ------------------------
(***************************************************************************)
(* What the table of route candidates (ProxyRoutes) promises, for any      *)
(* routes and any limit; that the scans of SnapshotTools count as that     *)
(* table does; and what the tools that use a snapshot answer.              *)
(***************************************************************************)
EXTENDS SnapshotTools, ProxyRoutes, DataLemmas

-----------------------------------------------------------------------------
(* The table of route candidates.                                          *)

\* A scan begins with an empty table, which is exact.
LEMMA RoutesInitial == ASSUME LimitPositive PROVE RoutesInit => RoutesInv
<1>. SUFFICES ASSUME RoutesInit PROVE RoutesInv
  OBVIOUS
<1>1. Candidates = {}
  BY DEF RoutesInit, Candidates
<1>2. RoutesTypeOK
  BY <1>1 DEF RoutesInit, RoutesTypeOK
<1>3. NothingHeavyDropped /\ ExactUntilFull
  BY <1>1 DEF RoutesInit, NothingHeavyDropped, ExactUntilFull
<1>4. TableBounded
  BY <1>1, FS_EmptySet DEF RoutesInit, TableBounded, LimitPositive
<1>. QED
  BY <1>2, <1>3, <1>4 DEF RoutesInv

\* What recording a route makes of estimates e.
Counts(e, f, r, limit) ==
  \/ r \in DOMAIN e /\ f = [e EXCEPT ![r] = @ + 1]
  \/ /\ r \notin DOMAIN e /\ Cardinality(DOMAIN e) < limit
     /\ f = [s \in DOMAIN e \union {r} |-> IF s = r THEN 1 ELSE e[s]]
  \/ /\ r \notin DOMAIN e /\ ~ (Cardinality(DOMAIN e) < limit)
     /\ \E v \in DOMAIN e :
          /\ \A s \in DOMAIN e : e[v] <= e[s]
          /\ f = [s \in (DOMAIN e \ {v}) \union {r} |-> IF s = r THEN e[v] + 1 ELSE e[s]]

\* What the table promises, of estimates e, of the counts seen of the routes R.
TableGood(e, over, sn, R, limit) ==
  /\ DOMAIN e \subseteq R /\ e \in [DOMAIN e -> Nat \ {0}] /\ over \in BOOLEAN /\ sn \in [R -> Nat]
  /\ \A s \in DOMAIN e : sn[s] <= e[s]
  /\ \A x \in R \ DOMAIN e : \A s \in DOMAIN e : sn[x] <= e[s]
  /\ ~ over => /\ \A s \in DOMAIN e : e[s] = sn[s]
               /\ \A x \in R \ DOMAIN e : sn[x] = 0
  /\ IsFiniteSet(DOMAIN e) /\ Cardinality(DOMAIN e) <= limit
  /\ over => Cardinality(DOMAIN e) = limit

LEMMA TableKeeps ==
  ASSUME NEW e, NEW over, NEW sn, NEW R, NEW limit \in Nat \ {0}, TableGood(e, over, sn, R, limit),
         NEW r \in R, NEW f, Counts(e, f, r, limit),
         NEW g, g = (over \/ (r \notin DOMAIN e /\ ~ (Cardinality(DOMAIN e) < limit)))
  PROVE  TableGood(f, g, [sn EXCEPT ![r] = @ + 1], R, limit)
<1> DEFINE t == [sn EXCEPT ![r] = @ + 1]
<1>1. /\ DOMAIN e \subseteq R /\ e \in [DOMAIN e -> Nat \ {0}] /\ over \in BOOLEAN /\ sn \in [R -> Nat]
      /\ IsFiniteSet(DOMAIN e) /\ Cardinality(DOMAIN e) \in Nat /\ Cardinality(DOMAIN e) <= limit
      /\ over => Cardinality(DOMAIN e) = limit
  BY FS_CardinalityType DEF TableGood
<1>2. /\ \A s \in DOMAIN e : sn[s] <= e[s]
      /\ \A x \in R \ DOMAIN e : \A s \in DOMAIN e : sn[x] <= e[s]
      /\ ~ over => /\ \A s \in DOMAIN e : e[s] = sn[s]
                   /\ \A x \in R \ DOMAIN e : sn[x] = 0
  BY DEF TableGood
<1>3. t \in [R -> Nat] /\ \A x \in R : sn[x] \in Nat /\ t[x] = IF x = r THEN sn[x] + 1 ELSE sn[x]
  BY <1>1
<1>4. \A s \in DOMAIN e : s \in R /\ e[s] \in Nat \ {0}
  BY <1>1
<1> HIDE DEF t
<1>5. CASE r \in DOMAIN e
  <2>1. f = [e EXCEPT ![r] = @ + 1] /\ g = over
    BY <1>1, <1>5 DEF Counts
  <2>2. DOMAIN f = DOMAIN e /\ \A s \in DOMAIN e : f[s] = IF s = r THEN e[s] + 1 ELSE e[s]
    BY <2>1
  <2>3. f \in [DOMAIN f -> Nat \ {0}]
    <3>1. \A s \in DOMAIN f : f[s] \in Nat \ {0}
      BY <1>4, <2>2
    <3>2. f = [s \in DOMAIN e |-> IF s = r THEN e[s] + 1 ELSE e[s]]
      BY <2>1, <2>2
    <3> QED BY <2>2, <3>1, <3>2
  <2>4. \A s \in DOMAIN f : t[s] <= f[s]
    BY <1>2, <1>3, <1>4, <2>2
  <2>5. ASSUME NEW x \in R \ DOMAIN f, NEW s \in DOMAIN f PROVE t[x] <= f[s]
    <3>1. x # r /\ t[x] = sn[x] /\ sn[x] <= e[s]
      BY <1>2, <1>3, <1>5, <2>2
    <3>2. e[s] <= f[s] /\ e[s] \in Nat /\ f[s] \in Nat /\ sn[x] \in Nat
      BY <1>3, <1>4, <2>2
    <3> QED BY <3>1, <3>2
  <2>6. ~ g => /\ \A s \in DOMAIN f : f[s] = t[s]
               /\ \A x \in R \ DOMAIN f : t[x] = 0
    BY <1>2, <1>3, <1>4, <1>5, <2>1, <2>2
  <2> QED BY <1>1, <1>3, <2>1, <2>2, <2>3, <2>4, <2>5, <2>6 DEF TableGood, t
<1>6. CASE r \notin DOMAIN e /\ Cardinality(DOMAIN e) < limit
  <2>1. f = [s \in DOMAIN e \union {r} |-> IF s = r THEN 1 ELSE e[s]] /\ g = over
    BY <1>1, <1>6 DEF Counts
  <2>2. ~ over /\ ~ g
    BY <1>1, <1>6, <2>1
  <2>3. DOMAIN f = DOMAIN e \union {r} /\ \A s \in DOMAIN f : f[s] = IF s = r THEN 1 ELSE e[s]
    BY <2>1
  <2>4. f \in [DOMAIN f -> Nat \ {0}]
    <3>1. \A s \in DOMAIN f : f[s] \in Nat \ {0}
      BY <1>4, <2>3
    <3> QED BY <2>1, <3>1
  <2>5. sn[r] = 0 /\ t[r] = 1
    BY <1>2, <1>3, <1>6, <2>2
  <2>6. /\ \A s \in DOMAIN f : f[s] = t[s]
        /\ \A x \in R \ DOMAIN f : t[x] = 0
    BY <1>2, <1>3, <1>4, <2>2, <2>3, <2>5
  <2>7. \A s \in DOMAIN f : t[s] <= f[s]
    BY <2>4, <2>6
  <2>8. \A x \in R \ DOMAIN f : \A s \in DOMAIN f : t[x] <= f[s]
    BY <2>4, <2>6
  <2>9. IsFiniteSet(DOMAIN f) /\ Cardinality(DOMAIN f) = Cardinality(DOMAIN e) + 1
    BY <1>1, <1>6, <2>3, FS_AddElement
  <2>10. Cardinality(DOMAIN f) <= limit /\ DOMAIN f \subseteq R
    BY <1>1, <1>6, <2>3, <2>9
  <2> QED BY <1>1, <1>3, <2>1, <2>2, <2>4, <2>6, <2>7, <2>8, <2>9, <2>10 DEF TableGood, t
<1>7. CASE r \notin DOMAIN e /\ ~ (Cardinality(DOMAIN e) < limit)
  <2>1. PICK v \in DOMAIN e :
          /\ \A s \in DOMAIN e : e[v] <= e[s]
          /\ f = [s \in (DOMAIN e \ {v}) \union {r} |-> IF s = r THEN e[v] + 1 ELSE e[s]]
    BY <1>7 DEF Counts
  <2>2. /\ DOMAIN f = (DOMAIN e \ {v}) \union {r}
        /\ \A s \in DOMAIN f : f[s] = IF s = r THEN e[v] + 1 ELSE e[s]
    BY <2>1
  <2>3. g = TRUE
    BY <1>7
  <2>4. f \in [DOMAIN f -> Nat \ {0}]
    <3>1. \A s \in DOMAIN f : f[s] \in Nat \ {0}
      BY <1>4, <2>2
    <3> QED BY <2>1, <3>1
  <2>5. \A s \in DOMAIN f : e[v] <= f[s]
    BY <1>4, <2>1, <2>2
  <2>6. ASSUME NEW s \in DOMAIN f PROVE t[s] <= f[s]
    <3>1. CASE s = r
      BY <1>2, <1>3, <1>4, <1>7, <2>2, <3>1
    <3>2. CASE s # r
      BY <1>2, <1>3, <1>4, <2>2, <3>2
    <3> QED BY <3>1, <3>2
  <2>7. ASSUME NEW x \in R \ DOMAIN f, NEW s \in DOMAIN f PROVE t[x] <= f[s]
    <3>1. x # r /\ t[x] = sn[x] /\ sn[x] \in Nat
      BY <1>3, <2>2
    <3>2. sn[x] <= e[v]
      BY <1>2, <2>2, <3>1
    <3>3. e[v] <= f[s] /\ e[v] \in Nat /\ f[s] \in Nat
      BY <1>4, <2>4, <2>5
    <3> QED BY <3>1, <3>2, <3>3
  <2>8. IsFiniteSet(DOMAIN e \ {v}) /\ Cardinality(DOMAIN e \ {v}) = Cardinality(DOMAIN e) - 1
    BY <1>1, FS_RemoveElement
  <2>9. IsFiniteSet(DOMAIN f) /\ Cardinality(DOMAIN f) = Cardinality(DOMAIN e)
    <3>1. r \notin DOMAIN e \ {v}
      BY <1>7
    <3>2. /\ IsFiniteSet((DOMAIN e \ {v}) \union {r})
          /\ Cardinality((DOMAIN e \ {v}) \union {r}) = Cardinality(DOMAIN e \ {v}) + 1
      BY <2>8, <3>1, FS_AddElement
    <3> QED BY <1>1, <2>2, <2>8, <3>2
  <2>10. Cardinality(DOMAIN f) = limit /\ DOMAIN f \subseteq R
    BY <1>1, <1>7, <2>2, <2>9
  <2> QED BY <1>3, <2>3, <2>4, <2>6, <2>7, <2>9, <2>10 DEF TableGood, t
<1> QED BY <1>5, <1>6, <1>7

\* _record_proxy_route_candidate: the table is exact until it overflows, no larger
\* than its limit, and never lets go of a route seen more often than what it keeps
\* claims to be.
THEOREM RoutesInvariant == ASSUME LimitPositive PROVE RoutesSpec => []RoutesInv
<1>1. RoutesInit => RoutesInv
  BY RoutesInitial
<1>2. RoutesInv /\ [RoutesNext]_routeVars => RoutesInv'
  <2>. SUFFICES ASSUME RoutesInv, [RoutesNext]_routeVars PROVE RoutesInv'
    OBVIOUS
  <2>1. CASE UNCHANGED routeVars
    BY <2>1 DEF routeVars, RoutesInv, RoutesTypeOK, NothingHeavyDropped, ExactUntilFull,
                TableBounded, Candidates
  <2>2. CASE RoutesNext
    <3>1. PICK r \in Route : RecordRoute(r)
      BY <2>2 DEF RoutesNext
    <3>0. PICK limit \in Nat \ {0} : limit = CandidateLimit
      BY DEF LimitPositive
    <3>2. PICK e, f, over, g, sn, R :
            /\ e = estimates /\ f = estimates' /\ over = overflowed /\ g = overflowed'
            /\ sn = seen /\ R = Route
      OBVIOUS
    <3>3. TableGood(e, over, sn, R, limit) /\ r \in R
      BY <3>0, <3>2 DEF RoutesInv, RoutesTypeOK, NothingHeavyDropped, ExactUntilFull, TableBounded,
                         Candidates, TableGood
    <3>4. /\ Counts(e, f, r, limit) /\ seen' = [sn EXCEPT ![r] = @ + 1]
          /\ g = (over \/ (r \notin DOMAIN e /\ ~ (Cardinality(DOMAIN e) < limit)))
      <4>1. over \in BOOLEAN
        BY <3>3 DEF TableGood
      <4>2. CASE Estimated(r)
        BY <3>1, <3>0, <3>2, <4>1, <4>2 DEF RecordRoute, Estimated, Candidates, Counts
      <4>3. CASE Joins(r)
        BY <3>1, <3>0, <3>2, <4>1, <4>3 DEF RecordRoute, Joins, Candidates, Counts
      <4>4. ASSUME NEW victim \in Candidates, Displaces(r, victim)
            PROVE  /\ Counts(e, f, r, limit) /\ seen' = [sn EXCEPT ![r] = @ + 1]
                   /\ g = (over \/ (r \notin DOMAIN e /\ ~ (Cardinality(DOMAIN e) < limit)))
        BY ZenonT(30), <3>1, <3>0, <3>2, <4>1, <4>4 DEF RecordRoute, Displaces, Least, Candidates, Counts
      <4>. QED
        BY <3>1, <4>2, <4>3, <4>4 DEF RecordRoute
    <3>5. TableGood(f, g, [sn EXCEPT ![r] = @ + 1], R, limit)
      <4>1. Counts(e, f, r, limit)
        BY <3>4
      <4>2. g = (over \/ (r \notin DOMAIN e /\ ~ (Cardinality(DOMAIN e) < limit)))
        BY <3>4
      <4>. QED
        BY <3>3, <4>1, <4>2, TableKeeps
    <3>. QED
      BY <3>0, <3>2, <3>4, <3>5 DEF RoutesInv, RoutesTypeOK, NothingHeavyDropped, ExactUntilFull,
                              TableBounded, Candidates, TableGood
  <2>. QED
    BY <2>1, <2>2
<1>. QED
  BY <1>1, <1>2, PTL DEF RoutesSpec

-----------------------------------------------------------------------------
(* Types, and what a client keeps asking for.                              *)

RequestFields == {"op", "keys", "limit", "offset", "mode", "snapshot"}

Phases == {"checking", "scanning", "rescanning", "answered", "refused"}

\* Files are replaced only while a proxy scan reads them again.
ToolsTyped ==
  /\ DOMAIN call = RequestFields
  /\ call.keys \in Seq(ToSet(call.keys)) /\ call.limit \in Int
  /\ phase \in Phases
  /\ todo \in Seq(ToSet(Sources))
  /\ DOMAIN handle = {"key", "lines", "next"}
  /\ handle.lines \in Seq(ToSet(handle.lines)) /\ handle.next \in Nat \ {0}
  /\ phase \in {"checking", "answered"} => handle = Closed
  /\ DOMAIN files = KeysOf(Sources)
  /\ \A k \in DOMAIN files : files[k] \in Bodies \union Replacements \union {NoFile}
  /\ edition \in Nat
  /\ phase = "rescanning" \/ edition # 0 => call.op = "inspect_proxy_activity"
  /\ edition # 0 => phase \notin {"checking", "scanning"}
  /\ edition = 0 => \A k \in DOMAIN files : files[k] \in Bodies \union {NoFile}

SameRequest == \A f \in RequestFields \ {"offset"} : call'[f] = call[f]

LEMMA WhereElements ==
  ASSUME NEW T, NEW s \in Seq(T), NEW S
  PROVE  Filter(s, S) \in Seq(T)
BY FilterElements

\* A call selects files of the snapshot.
LEMMA SelectsSources ==
  ASSUME NEW c
  PROVE  Selected(c) \in Seq(ToSet(Sources)) /\ Opened(c) \in Seq(ToSet(Sources))
<1>1. Available(Sources) \in Seq(ToSet(Sources))
  BY InputsAssumption, WhereElements DEF Available, Where
<1>2. \A keys : Named(keys, Sources) \in Seq(ToSet(Sources))
  BY <1>1, WhereElements DEF Named, Where
<1>3. Selected(c) \in Seq(ToSet(Sources))
  BY <1>1, <1>2, WhereElements DEF Selected, SelectProxyFiles, SelectViewFiles, SelectGrepFiles,
     SelectSnapshotFiles, Where
<1> QED BY <1>3, WhereElements DEF Opened, Where

LEMMA ToolsInitial == ToolsInit => ToolsTyped
<1> SUFFICES ASSUME ToolsInit PROVE ToolsTyped
  OBVIOUS
<1>1. DOMAIN call = RequestFields /\ call.keys \in Seq(ToSet(call.keys)) /\ call.limit \in Int
  BY InputsAssumption DEF ToolsInit, RequestFields
<1>2. DOMAIN handle = {"key", "lines", "next"} /\ handle.lines = << >> /\ handle.next = 1
  BY DEF ToolsInit, Closed
<1>3. phase = "checking" /\ todo = << >> /\ edition = 0 /\ handle = Closed
  BY DEF ToolsInit
<1>4. DOMAIN files = KeysOf(Sources) /\ \A k \in DOMAIN files : files[k] \in Bodies \union {NoFile}
  BY DEF ToolsInit
<1> QED BY <1>1, <1>2, <1>3, <1>4 DEF ToolsTyped, Phases

LEMMA RequestKept == ToolsTyped /\ [ToolsNext]_vars => SameRequest /\ DOMAIN call' = RequestFields
<1> SUFFICES ASSUME ToolsTyped, [ToolsNext]_vars PROVE SameRequest /\ DOMAIN call' = RequestFields
  OBVIOUS
<1>1. CASE call' = call
  BY <1>1 DEF ToolsTyped, SameRequest
<1>2. CASE NextPage
  <2>1. PICK n : call' = [call EXCEPT !.offset = n]
    BY <1>2 DEF NextPage
  <2>2. DOMAIN call' = RequestFields
    BY <2>1 DEF ToolsTyped
  <2>3. \A f \in RequestFields \ {"offset"} : call'[f] = call[f]
    BY <2>1 DEF ToolsTyped
  <2> QED BY <2>2, <2>3 DEF SameRequest
<1> QED
  BY <1>1, <1>2 DEF ToolsNext, vars, Refuse, BeginScan, OpenSource, SourceMissing, ScanLine,
     CloseSource, SecondPass, Answer, ListLogSnapshotFiles, ReadLogSnapshotFile,
     GrepLogSnapshot, Reply, Recollect

LEMMA ToolsTypedStep == ToolsTyped /\ [ToolsNext]_vars => ToolsTyped'
<1> SUFFICES ASSUME ToolsTyped, [ToolsNext]_vars PROVE ToolsTyped'
  OBVIOUS
<1>1. /\ DOMAIN call' = RequestFields /\ call'.op = call.op
      /\ call'.keys \in Seq(ToSet(call'.keys)) /\ call'.limit \in Int
  BY RequestKept DEF SameRequest, RequestFields, ToolsTyped
<1>2. ASSUME todo' \in Seq(ToSet(Sources)), UNCHANGED <<files, edition>>, phase' \in Phases,
             DOMAIN handle' = {"key", "lines", "next"},
             handle'.lines \in Seq(ToSet(handle'.lines)), handle'.next \in Nat \ {0},
             phase' \in {"checking", "answered"} => handle' = Closed,
             phase' = "rescanning" => call.op = "inspect_proxy_activity",
             edition # 0 => phase' \notin {"checking", "scanning"}
      PROVE  ToolsTyped'
  BY <1>1, <1>2 DEF ToolsTyped
<1>3. ASSUME UNCHANGED <<files, edition, todo, handle>>, phase' \in Phases,
             phase' = "rescanning" => phase = "rescanning",
             phase' \in {"checking", "answered"} => handle = Closed,
             edition # 0 => phase' \notin {"checking", "scanning"}
      PROVE  ToolsTyped'
  <2>1. phase' = "rescanning" => call.op = "inspect_proxy_activity"
    BY <1>3 DEF ToolsTyped
  <2> QED BY <1>2, <1>3, <2>1 DEF ToolsTyped
<1>4. CASE Refuse \/ SourceMissing \/ Answer
  BY <1>3, <1>4 DEF Refuse, SourceMissing, Answer, Exhausted, Phases
<1>5. CASE ListLogSnapshotFiles \/ ReadLogSnapshotFile \/ GrepLogSnapshot
  <2>1. phase = "checking"
    BY <1>5 DEF ListLogSnapshotFiles, ReadLogSnapshotFile, GrepLogSnapshot, Accepted
  <2> QED
    BY <1>3, <1>5, <2>1 DEF ListLogSnapshotFiles, ReadLogSnapshotFile, GrepLogSnapshot, Reply,
       Phases, ToolsTyped
<1>6. CASE BeginScan
  <2>1. todo' \in Seq(ToSet(Sources))
    BY <1>6, SelectsSources DEF BeginScan
  <2>2. edition = 0 /\ phase' = "scanning"
    BY <1>6 DEF BeginScan, Accepted, ToolsTyped
  <2> QED BY <1>2, <1>6, <2>1, <2>2 DEF BeginScan, ToolsTyped, Phases
<1>7. CASE OpenSource
  <2>1. todo # << >> /\ todo' = Tail(todo) /\ files[Head(todo).key] # NoFile
    BY <1>7 DEF OpenSource
  <2>2. todo' \in Seq(ToSet(Sources)) /\ Head(todo) \in ToSet(Sources)
    BY <2>1, HeadTailProperties DEF ToolsTyped
  <2>3. Head(todo).key \in KeysOf(Sources)
    BY <2>2 DEF KeysOf, ToSet
  <2>4. PICK b : b = files[Head(todo).key]
    OBVIOUS
  <2>5. b \in Seq(ToSet(b))
    BY <2>1, <2>3, <2>4, InputsAssumption DEF ToolsTyped
  <2>6. handle' = [key |-> Head(todo).key, lines |-> b, next |-> 1]
    BY <1>7, <2>4 DEF OpenSource
  <2>7. phase' = phase /\ UNCHANGED <<files, edition>> /\ phase \in {"scanning", "rescanning"}
    BY <1>7 DEF OpenSource, Working
  <2> QED BY <1>2, <2>2, <2>5, <2>6, <2>7 DEF ToolsTyped
<1>8. CASE ScanLine
  <2>1. handle' = [handle EXCEPT !.next = @ + 1]
    BY <1>8 DEF ScanLine
  <2>2. /\ DOMAIN handle' = {"key", "lines", "next"} /\ handle'.lines = handle.lines
        /\ handle'.next \in Nat \ {0}
    BY <2>1 DEF ToolsTyped
  <2> QED BY <1>2, <1>8, <2>2 DEF ScanLine, Working, ToolsTyped
<1>9. CASE CloseSource
  <2>1. DOMAIN Closed = {"key", "lines", "next"} /\ Closed.lines = << >> /\ Closed.next = 1
    BY DEF Closed
  <2> QED BY <1>2, <1>9, <2>1 DEF CloseSource, ToolsTyped
<1>10. CASE SecondPass
  <2>1. todo' \in Seq(ToSet(Sources))
    BY <1>10, SelectsSources DEF SecondPass
  <2> QED BY <1>2, <1>10, <2>1 DEF SecondPass, ToolsTyped, Phases
<1>11. CASE NextPage
  <2>1. call.op # "inspect_proxy_activity"
    BY <1>11 DEF NextPage, More
  <2> QED BY <1>3, <1>11, <2>1 DEF NextPage, Phases, ToolsTyped
<1>12. CASE Recollect
  <2>1. PICK body \in Replacements \union {NoFile} : files' = [files EXCEPT ![Head(todo).key] = body]
    BY <1>12 DEF Recollect
  <2>2. /\ phase = "rescanning" /\ UNCHANGED <<call, phase, todo, handle>>
        /\ edition' = edition + 1 /\ edition' # 0 /\ edition' \in Nat
    BY <1>12 DEF Recollect, ToolsTyped
  <2>3. DOMAIN files' = DOMAIN files
        /\ \A k \in DOMAIN files' : files'[k] \in Bodies \union Replacements \union {NoFile}
    BY <2>1 DEF ToolsTyped
  <2> QED BY <2>2, <2>3 DEF ToolsTyped
<1>13. CASE UNCHANGED vars
  BY <1>3, <1>13 DEF vars, ToolsTyped
<1> QED
  BY <1>4, <1>5, <1>6, <1>7, <1>8, <1>9, <1>10, <1>11, <1>12, <1>13 DEF ToolsNext

-----------------------------------------------------------------------------
(* The candidates of a proxy scan.                                         *)

\* Candidates are counted in the table while the bodies are read.
TableTyped ==
  call.op = "inspect_proxy_activity" =>
    /\ phase = "checking" => found = NoRoutes
    /\ phase = "scanning" => handle = Closed \/ handle.lines \in Bodies
    /\ DOMAIN found = DOMAIN NoRoutes /\ found.overflowed \in BOOLEAN
    /\ \A r \in DOMAIN found.table : found.table[r].count \in Nat

LEMMA TableInitial == ToolsInit => TableTyped
<1> SUFFICES ASSUME ToolsInit, call.op = "inspect_proxy_activity"
             PROVE  /\ phase = "checking" /\ found = NoRoutes /\ found.overflowed = FALSE
                    /\ \A r \in DOMAIN found.table : found.table[r].count \in Nat
  BY DEF TableTyped
<1>1. found = NoRoutes /\ phase = "checking"
  BY DEF ToolsInit, NothingFound, Grouping
<1>2. DOMAIN found.table = {} /\ found.overflowed = FALSE
  BY <1>1 DEF NoRoutes, Empty
<1> QED BY <1>1, <1>2

\* A line of a file of the bodies has a route that the table may hold.
LEMMA ScansBody ==
  ASSUME ToolsTyped, TableTyped, call.op = "inspect_proxy_activity", phase = "scanning", ScanLine
  PROVE  RouteKey(handle.lines[handle.next]) \in DOMAIN NoRoutes.seen
<1>1. handle.next \in Nat \ {0} /\ handle.next <= Len(handle.lines)
  BY DEF ToolsTyped, ScanLine
<1>2. handle # Closed
  <2>1. Closed.next = 1 /\ Len(Closed.lines) = 0
    BY DEF Closed
  <2> QED BY <1>1, <2>1
<1>3. PICK b \in Bodies : b = handle.lines
  BY <1>2 DEF TableTyped
<1>4. b \in Seq(ToSet(b))
  BY InputsAssumption
<1>5. handle.next \in DOMAIN b
  BY <1>1, <1>3, <1>4
<1>6. b[handle.next] \in Range(b)
  BY <1>5 DEF Range
<1> QED BY <1>3, <1>6 DEF NoRoutes, Lines

\* What a line leaves: as before, or its route recorded.
LEMMA RecordsOneRoute ==
  ASSUME NEW f, DOMAIN f = DOMAIN NoRoutes, NEW line, NEW g \in CandidateLine(f, line)
  PROVE  /\ DOMAIN g = DOMAIN NoRoutes
         /\ \/ g.table = f.table /\ g.overflowed = f.overflowed /\ g.seen = f.seen
            \/ /\ g.table \in Recorded(f.table, RouteKey(line), UpstreamError(line),
                                       ProxyRouteCandidateLimit(call))
               /\ g.overflowed = (f.overflowed \/ Displaced(f.table, RouteKey(line),
                                                            ProxyRouteCandidateLimit(call)))
               /\ g.seen = [f.seen EXCEPT ![RouteKey(line)] = @ + 1]
BY DEF CandidateLine, NoRoutes

Estimates(table) == [r \in DOMAIN table |-> table[r].count]

LEMMA RecordingEstimates ==
  ASSUME NEW t, \A r \in DOMAIN t : t[r].count \in Nat,
         NEW limit, NEW r, NEW upstream, NEW u \in Recorded(t, r, upstream, limit)
  PROVE  /\ \A s \in DOMAIN u : u[s].count \in Nat
         /\ Counts(Estimates(t), Estimates(u), r, limit)
         /\ Displaced(t, r, limit) <=>
              r \notin DOMAIN t /\ ~ (Cardinality(DOMAIN t) < limit)
<1> DEFINE e == Estimates(t)
           f == Estimates(u)
<1>0. DOMAIN e = DOMAIN t /\ \A s \in DOMAIN t : e[s] = t[s].count
  BY DEF Estimates
<1>1. CASE r \in DOMAIN t
  <2>1. u = [t EXCEPT ![r] = Entry(@.count + 1, @.upstream \/ upstream)]
    BY <1>1 DEF Recorded
  <2>2. DOMAIN u = DOMAIN t /\ \A s \in DOMAIN t : u[s].count = IF s = r THEN t[s].count + 1 ELSE t[s].count
    BY <2>1 DEF Entry
  <2>3. f = [e EXCEPT ![r] = @ + 1]
    BY <1>0, <1>1, <2>2 DEF Estimates
  <2>4. \A s \in DOMAIN u : u[s].count \in Nat
    BY <2>2
  <2> QED BY <1>0, <1>1, <2>3, <2>4 DEF Counts, Displaced
<1>2. CASE r \notin DOMAIN t /\ Cardinality(DOMAIN t) < limit
  <2>1. u = With(t, r, Entry(1, upstream))
    BY <1>2 DEF Recorded
  <2>2. DOMAIN u = DOMAIN t \union {r} /\ \A s \in DOMAIN u : u[s].count = IF s = r THEN 1 ELSE t[s].count
    BY <2>1 DEF Entry, With
  <2>3. f = [s \in DOMAIN e \union {r} |-> IF s = r THEN 1 ELSE e[s]]
    BY <1>0, <2>2 DEF Estimates
  <2>4. \A s \in DOMAIN u : u[s].count \in Nat
    BY <2>2
  <2>5. Counts(e, f, r, limit)
    BY <1>0, <1>2, <2>3 DEF Counts
  <2> QED BY <1>2, <2>4, <2>5 DEF Displaced
<1>3. CASE r \notin DOMAIN t /\ ~ (Cardinality(DOMAIN t) < limit)
  <2>1. PICK v \in Evictable(t) :
          u = With([s \in DOMAIN t \ {v} |-> t[s]], r, Entry(t[v].count + 1, upstream))
    BY <1>3 DEF Recorded
  <2>2. v \in DOMAIN t /\ \A s \in DOMAIN t : t[v].count <= t[s].count
    BY DEF Evictable
  <2>3. /\ DOMAIN u = (DOMAIN t \ {v}) \union {r}
        /\ \A s \in DOMAIN u : u[s].count = IF s = r THEN t[v].count + 1 ELSE t[s].count
    BY <2>1 DEF Entry, With
  <2>4. f = [s \in (DOMAIN e \ {v}) \union {r} |-> IF s = r THEN e[v] + 1 ELSE e[s]]
    BY <1>0, <2>2, <2>3 DEF Estimates
  <2>5. \A s \in DOMAIN u : u[s].count \in Nat
    BY <2>2, <2>3
  <2>6. Counts(e, f, r, limit)
    BY <1>0, <1>3, <2>2, <2>4 DEF Counts
  <2> QED BY <1>3, <2>5, <2>6 DEF Displaced
<1> QED BY <1>1, <1>2, <1>3

\* The table stays typed; a step that records a route is one of ProxyRoutes, and
\* all else leaves the table alone.
LEMMA TableStep ==
  ASSUME ToolsTyped, ToolsTyped', TableTyped, [ToolsNext]_vars
  PROVE  TableTyped' /\ [RouteTable!RoutesNext]_(RouteTable!routeVars)
<1> DEFINE proxy == call.op = "inspect_proxy_activity"
<1>1. call'.op = call.op /\ call'.limit = call.limit
  BY RequestKept DEF SameRequest, RequestFields
<1>2. Counting' = Counting
  BY <1>1 DEF Counting, ProxyRouteCandidateLimit
<1>3. ASSUME ~ proxy PROVE TableTyped' /\ [RouteTable!RoutesNext]_(RouteTable!routeVars)
  <2>1. ~ Counting /\ ~ Counting'
    BY <1>1, <1>2, <1>3 DEF Counting
  <2>2. UNCHANGED RouteTable!routeVars
    BY <2>1 DEF RouteTable!routeVars
  <2> QED BY <1>1, <1>3, <2>2 DEF TableTyped
<1>4. ASSUME proxy, found' = found, phase' = "checking" => phase = "checking",
             phase' = "scanning" => handle' = Closed \/ handle'.lines \in Bodies
      PROVE TableTyped' /\ [RouteTable!RoutesNext]_(RouteTable!routeVars)
  <2>1. UNCHANGED RouteTable!routeVars
    BY <1>2, <1>4 DEF RouteTable!routeVars
  <2> QED BY <1>1, <1>4, <2>1 DEF TableTyped
<1>5. ASSUME proxy, BeginScan PROVE TableTyped' /\ [RouteTable!RoutesNext]_(RouteTable!routeVars)
  <2>1. found' = found
    BY <1>5 DEF BeginScan, Accepted, NothingFound, Grouping, TableTyped
  <2>2. handle' = Closed
    BY <1>5 DEF BeginScan, Accepted, ToolsTyped
  <2> QED BY <1>4, <1>5, <2>1, <2>2 DEF BeginScan, Accepted
<1>6. ASSUME proxy, OpenSource PROVE TableTyped' /\ [RouteTable!RoutesNext]_(RouteTable!routeVars)
  <2>1. found' = found /\ phase' = phase
    BY <1>6 DEF OpenSource, Grouping
  <2>2. todo # << >> /\ files[Head(todo).key] # NoFile /\ handle'.lines = files[Head(todo).key]
    BY <1>6 DEF OpenSource
  <2>3. Head(todo) \in ToSet(Sources)
    BY <2>2, HeadTailProperties DEF ToolsTyped
  <2>4. Head(todo).key \in KeysOf(Sources)
    BY <2>3 DEF KeysOf, ToSet
  <2>5. phase = "scanning" => handle'.lines \in Bodies
    BY <2>2, <2>4 DEF ToolsTyped
  <2>6. phase # "checking"
    BY <1>6 DEF OpenSource, Working
  <2> QED BY <1>4, <1>6, <2>1, <2>5, <2>6
<1>7. ASSUME proxy, CloseSource PROVE TableTyped' /\ [RouteTable!RoutesNext]_(RouteTable!routeVars)
  BY <1>4, <1>7 DEF CloseSource
<1>8. ASSUME proxy,
             \/ Refuse \/ SourceMissing \/ SecondPass \/ Answer \/ ListLogSnapshotFiles
             \/ ReadLogSnapshotFile \/ GrepLogSnapshot \/ Recollect
      PROVE  TableTyped' /\ [RouteTable!RoutesNext]_(RouteTable!routeVars)
  BY <1>4, <1>8 DEF Refuse, SourceMissing, SecondPass, Answer, ListLogSnapshotFiles,
     ReadLogSnapshotFile, GrepLogSnapshot, Reply, Recollect
<1>9. ASSUME proxy PROVE ~ NextPage
  BY <1>9 DEF NextPage, More
<1>10. ASSUME proxy, ScanLine, phase = "rescanning"
       PROVE  TableTyped' /\ [RouteTable!RoutesNext]_(RouteTable!routeVars)
  <2>1. phase' = phase
    BY <1>10 DEF ScanLine
  <2>2. PICK ref, line : found' = RouteLine(found, ref, line)
    BY <1>10 DEF ScanLine, Found, Grouping
  <2>3. /\ DOMAIN found' = DOMAIN found /\ found'.table = found.table
        /\ found'.overflowed = found.overflowed /\ found'.seen = found.seen
    BY <1>10, <2>2 DEF RouteLine, TableTyped, NoRoutes
  <2>4. UNCHANGED RouteTable!routeVars
    BY <1>2, <2>3 DEF RouteTable!routeVars
  <2> QED BY <1>1, <1>10, <2>1, <2>3, <2>4 DEF TableTyped
<1>11. ASSUME proxy, ScanLine, phase = "scanning"
       PROVE  TableTyped' /\ [RouteTable!RoutesNext]_(RouteTable!routeVars)
  <2> DEFINE line == handle.lines[handle.next]
             limit == ProxyRouteCandidateLimit(call)
  <2>1. phase' = phase /\ handle'.lines = handle.lines /\ handle # Closed
    <3>1. handle' = [handle EXCEPT !.next = @ + 1] /\ handle.next <= Len(handle.lines)
      BY <1>11 DEF ScanLine
    <3>2. Closed.lines = << >> /\ Closed.next = 1
      BY DEF Closed
    <3> QED BY <1>11, <3>1, <3>2 DEF ScanLine, ToolsTyped
  <2>2. PICK r \in DOMAIN NoRoutes.seen : r = RouteKey(line)
    BY <1>11, ScansBody
  <2>3. found' \in CandidateLine(found, line)
    BY <1>11 DEF ScanLine, Found, Grouping
  <2> HIDE DEF line, limit
  <2>4. /\ DOMAIN found' = DOMAIN NoRoutes
        /\ \/ /\ found'.table = found.table /\ found'.overflowed = found.overflowed
              /\ found'.seen = found.seen
           \/ /\ found'.table \in Recorded(found.table, r, UpstreamError(line), limit)
              /\ found'.overflowed = (found.overflowed \/ Displaced(found.table, r, limit))
              /\ found'.seen = [found.seen EXCEPT ![r] = @ + 1]
    <3>1. DOMAIN found = DOMAIN NoRoutes
      BY <1>11 DEF TableTyped
    <3> QED BY <2>2, <2>3, <3>1, RecordsOneRoute DEF limit
  <2>5. CASE /\ found'.table = found.table /\ found'.overflowed = found.overflowed
             /\ found'.seen = found.seen
    <3>1. UNCHANGED RouteTable!routeVars
      BY <1>2, <2>5 DEF RouteTable!routeVars
    <3> QED BY <1>1, <1>11, <2>1, <2>4, <2>5, <3>1 DEF TableTyped
  <2>6. CASE /\ found'.table \in Recorded(found.table, r, UpstreamError(line), limit)
             /\ found'.overflowed = (found.overflowed \/ Displaced(found.table, r, limit))
             /\ found'.seen = [found.seen EXCEPT ![r] = @ + 1]
    <3>1. \A s \in DOMAIN found.table : found.table[s].count \in Nat
      BY <1>11 DEF TableTyped
    <3>2. \A s \in DOMAIN found'.table : found'.table[s].count \in Nat
      BY <2>6, <3>1, RecordingEstimates
    <3>3. found.overflowed \in BOOLEAN /\ found'.overflowed \in BOOLEAN
      BY <1>11, <2>6 DEF TableTyped
    <3>4. TableTyped'
      BY <1>1, <1>11, <2>1, <2>4, <3>2, <3>3 DEF TableTyped
    <3>5. ASSUME Counting PROVE RouteTable!RoutesNext
      <4> DEFINE t == found.table
                 u == found'.table
      <4> HIDE DEF t, u
      <4>1. limit = MinCandidates
        BY <3>5 DEF Counting, limit
      <4>2. /\ Estimates(t) = (IF Counting THEN [x \in DOMAIN found.table |-> found.table[x].count]
                              ELSE Empty)
            /\ Estimates(u) = (IF Counting THEN [x \in DOMAIN found.table |-> found.table[x].count]
                              ELSE Empty)'
        BY <1>2, <3>5 DEF Estimates, t, u
      <4>3. /\ found.seen = IF Counting THEN found.seen ELSE NoRoutes.seen
            /\ found'.seen = (IF Counting THEN found.seen ELSE NoRoutes.seen)'
        BY <1>2, <3>5
      <4>4. /\ found.overflowed = (Counting /\ found.overflowed)
            /\ found'.overflowed = (Counting /\ found.overflowed)'
        BY <1>2, <3>3, <3>5
      <4>5. \A x \in DOMAIN t : t[x].count \in Nat
        BY <3>1 DEF t
      <4>6. /\ u \in Recorded(t, r, UpstreamError(line), limit)
            /\ found'.overflowed = (found.overflowed \/ Displaced(t, r, limit))
            /\ found'.seen = [found.seen EXCEPT ![r] = @ + 1]
        BY <2>6 DEF t, u
      <4>7. DOMAIN Estimates(t) = DOMAIN t
        BY DEF Estimates
      <4>8. \/ RouteTable!Estimated(r) \/ RouteTable!Joins(r)
            \/ \E v \in DOMAIN t : RouteTable!Displaces(r, v)
        <5>1. \A S : RouteTable!Cardinality(S) = Cardinality(S)
          BY DEF RouteTable!Cardinality, Cardinality
        <5>2. RouteTable!Candidates = DOMAIN t
          BY <4>2, <4>7 DEF RouteTable!Candidates
        <5>3. Counts(Estimates(t), Estimates(u), r, limit)
          BY <4>5, <4>6, RecordingEstimates
        <5>4. CASE r \in DOMAIN t
          <6>1. Estimates(u) = [Estimates(t) EXCEPT ![r] = @ + 1] /\ ~ Displaced(t, r, limit)
            BY <4>7, <5>3, <5>4 DEF Counts, Displaced
          <6> QED BY <3>3, <4>2, <4>4, <4>6, <5>2, <5>4, <6>1 DEF RouteTable!Estimated
        <5>5. CASE r \notin DOMAIN t /\ Cardinality(DOMAIN t) < limit
          <6>1. /\ Estimates(u) = [s \in DOMAIN t \union {r} |-> IF s = r THEN 1 ELSE Estimates(t)[s]]
                /\ ~ Displaced(t, r, limit)
            BY <4>7, <5>3, <5>5 DEF Counts, Displaced
          <6> QED BY <3>3, <4>1, <4>2, <4>4, <4>6, <5>1, <5>2, <5>5, <6>1 DEF RouteTable!Joins
        <5>6. CASE r \notin DOMAIN t /\ ~ (Cardinality(DOMAIN t) < limit)
          <6>1. Displaced(t, r, limit)
            BY <5>6 DEF Displaced
          <6>2. PICK v \in DOMAIN t :
                  /\ \A s \in DOMAIN t : Estimates(t)[v] <= Estimates(t)[s]
                  /\ Estimates(u) = [s \in (DOMAIN t \ {v}) \union {r} |->
                                       IF s = r THEN Estimates(t)[v] + 1 ELSE Estimates(t)[s]]
            BY <4>7, <5>3, <5>6 DEF Counts
          <6> QED BY ZenonT(30), <3>3, <4>1, <4>2, <4>4, <4>6, <5>1, <5>2, <5>6, <6>1, <6>2
                  DEF RouteTable!Displaces, RouteTable!Least
        <5> QED BY <5>4, <5>5, <5>6
      <4>9. RouteTable!RecordRoute(r)
        BY <4>2, <4>3, <4>6, <4>7, <4>8 DEF RouteTable!RecordRoute, RouteTable!Candidates
      <4> QED BY <2>2, <4>9 DEF RouteTable!RoutesNext
    <3>6. ASSUME ~ Counting PROVE UNCHANGED RouteTable!routeVars
      BY <1>2, <3>6 DEF RouteTable!routeVars
    <3> QED BY <3>4, <3>5, <3>6
  <2> QED BY <2>4, <2>5, <2>6
<1>12. CASE UNCHANGED vars
  BY <1>3, <1>4, <1>12 DEF vars, TableTyped
<1>13. ScanLine => phase \in {"scanning", "rescanning"}
  BY DEF ScanLine, Working
<1> QED
  BY <1>3, <1>5, <1>6, <1>7, <1>8, <1>9, <1>10, <1>11, <1>12, <1>13 DEF ToolsNext

LEMMA RoutesStart == ToolsInit => RouteTable!RoutesInit
<1> SUFFICES ASSUME ToolsInit PROVE RouteTable!RoutesInit
  OBVIOUS
<1>1. Counting => found = NoRoutes
  BY DEF ToolsInit, NothingFound, Counting, Grouping
<1>2. NoRoutes.table = Empty /\ NoRoutes.overflowed = FALSE
  BY DEF NoRoutes
<1>3. Empty = [r \in {} |-> 0]
  BY DEF Empty
<1>4. NoRoutes.seen = [r \in DOMAIN NoRoutes.seen |-> 0]
  BY DEF NoRoutes
<1>5. (IF Counting THEN [r \in DOMAIN found.table |-> found.table[r].count] ELSE Empty)
        = [r \in {} |-> 0]
  BY <1>1, <1>2, <1>3
<1>6. (Counting /\ found.overflowed) = FALSE
  BY <1>1, <1>2
<1>7. (IF Counting THEN found.seen ELSE NoRoutes.seen) = NoRoutes.seen
  BY <1>1
<1> QED BY <1>4, <1>5, <1>6, <1>7 DEF RouteTable!RoutesInit

\* _analyze_proxy_activity: whatever the files hold, the candidates of a scan are
\* counted as those of ProxyRoutes are, so what RoutesInvariant says of that table
\* holds of every scan.
THEOREM ScanCountsRoutes == ToolsSpec => CountsRoutes
<1>1. ToolsInit => ToolsTyped /\ TableTyped /\ RouteTable!RoutesInit
  BY ToolsInitial, TableInitial, RoutesStart
<1>2. ToolsTyped /\ TableTyped /\ [ToolsNext]_vars => (ToolsTyped /\ TableTyped)'
  BY ToolsTypedStep, TableStep
<1>3. ToolsTyped /\ TableTyped /\ [ToolsNext]_vars => [RouteTable!RoutesNext]_(RouteTable!routeVars)
  BY ToolsTypedStep, TableStep
<1> QED BY <1>1, <1>2, <1>3, PTL DEF ToolsSpec, CountsRoutes, RouteTable!RoutesSpec

-----------------------------------------------------------------------------
\* A call is not refused iff none of its checks fails.
LEMMA NotRefused ==
  ASSUME NEW c, NEW n \in Nat, Len(Checks(c)) = n
  PROVE  Refusal(c) = 0 <=> \A i \in 1..n : ~ Checks(c)[i][2]
<1> DEFINE I == {i \in 1..n : Checks(c)[i][2]}
<1>1. Refusal(c) = IF I # {} THEN Min(I) ELSE 0
  BY DEF Refusal, SelectInSeq
<1>2. ASSUME I # {} PROVE Min(I) # 0
  <2>1. I \subseteq Nat /\ \A i \in I : i # 0
    OBVIOUS
  <2> HIDE DEF I
  <2>2. \E m \in I : \A k \in I : m <= k
    BY <1>2, <2>1, LeastNumber
  <2>3. Min(I) \in I
    BY <2>2 DEF Min
  <2> QED BY <2>1, <2>3
<1> QED BY <1>1, <1>2

LEMMA FailsIff == \A code, b : Fails(code, b)[2] = b
BY DEF Fails

LEMMA ReadNotRefused ==
  ASSUME NEW c, c.op = "read_log_snapshot_file"
  PROVE  Refusal(c) = 0 <=> /\ ~ (c.offset < 1 \/ c.limit < 1)
                            /\ ~ (c.snapshot # "own")
                            /\ ~ (c.keys[1] \notin KeysOf(Available(Sources)))
<1>1. Checks(c) = ReadWindow(c) \o SnapshotChecks(c) \o FoundSource(c)
  BY DEF Checks, Grouping
<1>2. /\ Len(Checks(c)) = 3
      /\ Checks(c)[1] = ReadWindow(c)[1]
      /\ Checks(c)[2] = SnapshotChecks(c)[1]
      /\ Checks(c)[3] = FoundSource(c)[1]
  BY <1>1 DEF ReadWindow, SnapshotChecks, FoundSource
<1>3. Refusal(c) = 0 <=> \A i \in 1..3 : ~ Checks(c)[i][2]
  BY <1>2, NotRefused
<1>4. \A i \in 1..3 : i = 1 \/ i = 2 \/ i = 3
  OBVIOUS
<1>5. Checks(c)[1][2] <=> c.offset < 1 \/ c.limit < 1
  BY <1>2, FailsIff DEF ReadWindow
<1>6. Checks(c)[2][2] <=> c.snapshot # "own"
  BY <1>2, FailsIff DEF SnapshotChecks
<1>7. Checks(c)[3][2] <=> c.keys[1] \notin KeysOf(Available(Sources))
  BY <1>2, FailsIff DEF FoundSource
<1> QED BY <1>3, <1>4, <1>5, <1>6, <1>7

-----------------------------------------------------------------------------
LEMMA LeastOfTwo ==
  ASSUME NEW a \in Int, NEW b \in Int
  PROVE  Min({a, b}) = IF a <= b THEN a ELSE b
<1>1. \E x \in {a, b} : \A y \in {a, b} : x <= y
  BY DEF Min
<1> QED BY <1>1 DEF Min

\* A page, and what it is beside the pages before it.
LEMMA PageIs ==
  ASSUME NEW T, NEW s \in Seq(T), NEW offset \in Nat, NEW size \in Nat
  PROVE  LET p == Page(s, offset, size)
             end == IF offset + size <= Len(s) THEN offset + size ELSE Len(s)
         IN /\ p \in Seq(T) /\ p = SubSeq(s, offset + 1, end)
            /\ Len(p) = IF offset < end THEN end - offset ELSE 0
            /\ \A i \in 1..Len(p) : p[i] = s[offset + i]
            /\ offset <= Len(s) => \A start \in 0..offset :
                 SubSeq(s, start + 1, offset) \o p = SubSeq(s, start + 1, offset + Len(p))
<1> DEFINE end == IF offset + size <= Len(s) THEN offset + size ELSE Len(s)
           p == Page(s, offset, size)
<1>1. Len(s) \in Nat /\ end \in 0..Len(s)
  OBVIOUS
<1>2. p = SubSeq(s, offset + 1, end)
  BY <1>1, LeastOfTwo DEF Page
<1>3. \A i \in (offset + 1)..end : s[i] \in T
  BY <1>1, ElementOfSeq
<1>4. end \in Int /\ offset + 1 \in Int
  BY <1>1
<1> HIDE DEF end
<1>5. /\ p \in Seq(T) /\ Len(p) = IF offset + 1 <= end THEN end - (offset + 1) + 1 ELSE 0
      /\ \A i \in 1..(end - (offset + 1) + 1) : p[i] = s[(offset + 1) + i - 1]
  BY <1>2, <1>3, <1>4, SubSeqProperties
<1> HIDE DEF p
<1>6. Len(p) = IF offset < end THEN end - offset ELSE 0
  BY <1>4, <1>5
<1>7. \A i \in 1..Len(p) : p[i] = s[offset + i]
  <2> SUFFICES ASSUME NEW i \in 1..Len(p) PROVE p[i] = s[offset + i]
    OBVIOUS
  <2>1. i \in 1..(end - (offset + 1) + 1) /\ (offset + 1) + i - 1 = offset + i
    BY <1>4, <1>6
  <2> QED BY <1>5, <2>1
<1>8. ASSUME offset <= Len(s), NEW start \in 0..offset
      PROVE  SubSeq(s, start + 1, offset) \o p = SubSeq(s, start + 1, offset + Len(p))
  <2>1. end >= offset /\ offset + Len(p) = end
    BY <1>1, <1>4, <1>6, <1>8 DEF end
  <2>2. start + 1 \in 1..(Len(s) + 1) /\ offset \in ((start + 1) - 1)..Len(s) /\ end \in offset..Len(s)
    BY <1>1, <1>8, <2>1
  <2>3. SubSeq(s, start + 1, offset) \o SubSeq(s, offset + 1, end) = SubSeq(s, start + 1, end)
    BY <2>2, ConcatAdjacentSubSeq
  <2> QED BY <1>2, <2>1, <2>3
<1> QED BY <1>2, <1>5, <1>6, <1>7, <1>8 DEF end, p

\* The last page, beside what comes before it, is everything.
LEMMA LastPage ==
  ASSUME NEW T, NEW s \in Seq(T), NEW o \in Nat, NEW n \in Nat, NEW p, p = Page(s, o, n),
         o <= Len(s), ~ (o + Len(p) < Len(s))
  PROVE  SubSeq(s, 1, o) \o p = s
<1>1. PICK m \in Nat : m = Len(s)
  BY LenProperties
<1>2. /\ p \in Seq(T) /\ Len(p) = LET end == IF o + n <= m THEN o + n ELSE m
                                   IN IF o < end THEN end - o ELSE 0
      /\ \A start \in 0..o : SubSeq(s, start + 1, o) \o p = SubSeq(s, start + 1, o + Len(p))
  BY ZenonT(30), <1>1, PageIs
<1>3. PICK q \in Nat : q = Len(p)
  BY <1>2, LenProperties
<1>4. o + q = m
  <2>1. q = IF o + n <= m THEN IF o < o + n THEN n ELSE 0 ELSE IF o < m THEN m - o ELSE 0
    BY <1>2, <1>3
  <2>2. o <= m /\ ~ (o + q < m)
    BY <1>1, <1>3
  <2> QED BY <2>1, <2>2
<1>5. SubSeq(s, 1, o) \o p = SubSeq(s, 1, m)
  <2>1. 0 \in 0..o /\ 0 + 1 = 1
    OBVIOUS
  <2>2. SubSeq(s, 0 + 1, o) \o p = SubSeq(s, 0 + 1, o + Len(p))
    BY <1>2, <2>1
  <2> QED BY <1>3, <1>4, <2>1, <2>2
<1> QED BY <1>1, <1>5, SubSeqFull

\* What the answers so far have in one of their fields.
Fields(ps, f) == [i \in DOMAIN ps |-> ps[i][f]]

\* All their values are sequences over T.
AllIn(ps, f, T) == \A i \in DOMAIN ps : ps[i][f] \in Seq(T)

PageAdded(qs, ps, a, f, T) ==
  /\ qs \in Seq(ToSet(qs)) /\ qs # << >> /\ AllIn(qs, f, T)
  /\ ps # << >> => qs[1] = ps[1]
  /\ ps = << >> => qs[1] = a
  /\ FlattenSeq(Fields(ps, f)) \in Seq(T)
  /\ FlattenSeq(Fields(qs, f)) = FlattenSeq(Fields(ps, f)) \o a[f]

\* One more page.
LEMMA OneMorePage ==
  ASSUME NEW T, NEW ps, ps \in Seq(ToSet(ps)), NEW a, NEW f, AllIn(ps, f, T), a[f] \in Seq(T)
  PROVE  PageAdded(Append(ps, a), ps, a, f, T)
<1> DEFINE U == ToSet(ps) \union {a}
<1>1. PICK n \in Nat : n = Len(ps) /\ DOMAIN ps = 1..n
  BY LenProperties
<1>2. \A i \in 1..n : ps[i] \in U
  BY <1>1 DEF ToSet
<1>3. a \in U
  OBVIOUS
<1>4. ps \in Seq(U)
  <2>1. ToSet(ps) \subseteq U
    OBVIOUS
  <2> QED BY <2>1, SeqMonotonic
<1> HIDE DEF U
<1>5. PICK qs \in Seq(U) : qs = Append(ps, a)
  BY <1>3, <1>4, AppendProperties
<1>6. /\ qs # << >> /\ Len(qs) = n + 1 /\ DOMAIN qs = 1..(n + 1)
      /\ \A i \in 1..n : qs[i] = ps[i]
      /\ qs[n + 1] = a
  BY <1>1, <1>3, <1>4, <1>5, AppendProperties, LenProperties
<1>7. qs \in Seq(ToSet(qs))
  <2>1. ToSet(qs) = Range(qs)
    BY DEF ToSet, Range
  <2> QED BY <2>1, SeqOfRange
<1>8. /\ ps # << >> => qs[1] = ps[1]
      /\ ps = << >> => qs[1] = a
  <2>1. ps # << >> => n # 0
    BY <1>1
  <2>2. ps # << >> => 1 \in 1..n
    BY <2>1
  <2>3. ps = << >> => n = 0
    BY <1>1
  <2> QED BY <1>6, <2>2, <2>3
<1>9. \A i \in 1..(n + 1) : i \in 1..n \/ i = n + 1
  OBVIOUS
<1>10. \A i \in DOMAIN qs : qs[i][f] \in Seq(T)
  BY <1>1, <1>6, <1>9 DEF AllIn
<1> DEFINE pf == [i \in 1..n |-> ps[i][f]]
           qf == [i \in 1..(n + 1) |-> qs[i][f]]
<1>11. pf \in Seq(Seq(T)) /\ Len(pf) = n /\ qf \in Seq(Seq(T)) /\ Len(qf) = n + 1
  <2>1. \A i \in 1..n : ps[i][f] \in Seq(T)
    BY <1>1 DEF AllIn
  <2>2. \A i \in 1..(n + 1) : qs[i][f] \in Seq(T)
    BY <1>6, <1>10
  <2>3. pf \in Seq(Seq(T)) /\ Len(pf) = n
    BY <2>1
  <2>4. qf \in Seq(Seq(T)) /\ Len(qf) = n + 1
    BY <2>2
  <2> QED BY <2>3, <2>4
<1>12. qf = Append(pf, a[f])
  <2>1. PICK rf \in Seq(Seq(T)) : rf = Append(pf, a[f])
    BY <1>11, AppendProperties
  <2>2. Len(rf) = n + 1 /\ rf[n + 1] = a[f] /\ \A i \in 1..n : rf[i] = pf[i]
    BY <1>11, <2>1, AppendProperties
  <2>3. \A i \in 1..(n + 1) : rf[i] = qf[i]
    BY <1>6, <1>9, <2>2
  <2>4. rf = qf
    BY <1>11, <2>2, <2>3, SeqEqual
  <2> QED BY <2>1, <2>4
<1>13. FlattenSeq(pf) \in Seq(T) /\ FlattenSeq(qf) = FlattenSeq(pf) \o a[f]
  BY <1>11, <1>12, FlattenAppend
<1>14. Fields(ps, f) = pf /\ Fields(qs, f) = qf
  BY <1>1, <1>6 DEF Fields
<1> HIDE DEF pf, qf
<1> QED BY <1>5, <1>6, <1>7, <1>8, <1>10, <1>13, <1>14 DEF PageAdded, AllIn

-----------------------------------------------------------------------------
(* A file read page after page.                                            *)

ReadBody == files[call.keys[1]]

LinesGot == FlattenSeq([i \in DOMAIN pages |-> pages[i].lines])

\* What the client has is the file from where it began up to where the call begins.
ReadInv ==
  call.op = "read_log_snapshot_file" =>
    /\ phase \in {"checking", "answered", "refused"} /\ call.offset \in Int
    /\ pages \in Seq(ToSet(pages))
    /\ \A i \in DOMAIN pages : pages[i].lines \in Seq(ToSet(ReadBody))
    /\ phase = "answered" \/ pages # << >> => Refusal(call) = 0 /\ ReadBody # NoFile
    /\ phase = "answered" =>
         /\ answer = SelectSnapshotReadChunk(ReadBody, call.offset, call.limit)
         /\ call.offset <= Len(ReadBody) \/ ReadBody = << >>
    /\ pages # << >> =>
         /\ call.offset \in Nat \ {0} /\ pages[1].start \in 1..call.offset
         /\ call.offset <= Len(ReadBody) + 1
         /\ LinesGot = SubSeq(ReadBody, pages[1].start, call.offset - 1)
         /\ phase = "refused" => call.offset > Len(ReadBody)

LEMMA ReadsAFile ==
  ASSUME ToolsTyped, call.op = "read_log_snapshot_file", Refusal(call) = 0, ReadBody # NoFile
  PROVE  /\ ReadBody \in Seq(ToSet(ReadBody)) /\ Len(ReadBody) \in Nat
         /\ call.limit \in Nat \ {0} /\ ~ (call.offset < 1)
<1>1. call.keys[1] \in KeysOf(Available(Sources)) /\ ~ (call.offset < 1) /\ ~ (call.limit < 1)
  BY ReadNotRefused
<1>2. Sources \in Seq(ToSet(Sources))
  BY InputsAssumption
<1>3. /\ Available(Sources) \in Seq(ToSet(Sources))
      /\ ToSet(Available(Sources)) \subseteq ToSet(Sources)
  BY <1>2, FilterElements DEF Available, Where
<1>4. PICK i \in DOMAIN Available(Sources) : call.keys[1] = Available(Sources)[i].key
  BY <1>1 DEF KeysOf
<1>5. Available(Sources)[i] \in ToSet(Sources)
  BY <1>3, <1>4 DEF ToSet
<1>6. call.keys[1] \in KeysOf(Sources)
  BY <1>4, <1>5 DEF KeysOf, ToSet
<1>7. ReadBody \in Bodies \union Replacements
  BY <1>6 DEF ToolsTyped, ReadBody
<1>8. ReadBody \in Seq(ToSet(ReadBody))
  BY <1>7, InputsAssumption
<1>9. Len(ReadBody) \in Nat
  BY <1>8, LenProperties
<1>10. call.limit \in Nat \ {0}
  BY <1>1 DEF ToolsTyped
<1> QED BY <1>1, <1>8, <1>9, <1>10

LEMMA ReadInitial == ToolsInit => ReadInv
<1> SUFFICES ASSUME ToolsInit, call.op = "read_log_snapshot_file"
             PROVE  /\ phase = "checking" /\ pages = << >> /\ call.offset \in Int
                    /\ pages \in Seq(ToSet(pages)) /\ DOMAIN pages = {}
  BY DEF ReadInv
<1>1. phase = "checking" /\ pages = << >> /\ call.offset \in Int
  BY InputsAssumption DEF ToolsInit
<1>2. << >> \in Seq(ToSet(<< >>)) /\ DOMAIN << >> = {}
  BY EmptySeq
<1> QED BY <1>1, <1>2

LEMMA ReadStep ==
  ASSUME ToolsTyped, ToolsTyped', ReadInv, [ToolsNext]_vars
  PROVE  ReadInv'
<1>1. SameRequest /\ DOMAIN call' = RequestFields
  BY RequestKept
<1>2. call'.op = call.op /\ call'.keys = call.keys /\ call'.limit = call.limit /\ call'.snapshot = call.snapshot
  BY <1>1 DEF SameRequest, RequestFields
<1> SUFFICES ASSUME call.op = "read_log_snapshot_file" PROVE ReadInv'
  BY <1>2 DEF ReadInv
<1>3. phase \in {"checking", "answered", "refused"} /\ call.offset \in Int
  BY DEF ReadInv
<1>4. CASE UNCHANGED vars
  <2>1. UNCHANGED <<files, call, phase, answer, pages>>
    BY <1>4 DEF vars
  <2>2. UNCHANGED <<ReadBody, LinesGot, Refusal(call)>>
    BY <2>1 DEF ReadBody, LinesGot
  <2> QED BY <2>1, <2>2 DEF ReadInv
<1>5. CASE Refuse
  <2>1. Refusal(call) # 0 /\ phase = "checking" /\ phase' = "refused"
    BY <1>5 DEF Refuse
  <2>2. UNCHANGED <<files, call, pages>>
    BY <1>5 DEF Refuse
  <2>3. pages = << >>
    BY <2>1 DEF ReadInv
  <2>4. UNCHANGED <<ReadBody, LinesGot, Refusal(call)>>
    BY <2>2 DEF ReadBody, LinesGot
  <2> QED BY <2>1, <2>2, <2>3, <2>4 DEF ReadInv
<1>6. CASE ReadLogSnapshotFile
  <2>1. phase = "checking" /\ Refusal(call) = 0 /\ UNCHANGED <<files, call, pages>>
    BY <1>6 DEF ReadLogSnapshotFile, Reply, Accepted
  <2>2. UNCHANGED <<ReadBody, LinesGot, Refusal(call)>>
    BY <2>1 DEF ReadBody, LinesGot
  <2>3. CASE ReadBody = NoFile
    <3>1. phase' = "refused" /\ pages = << >>
      BY <1>6, <2>1, <2>3 DEF ReadLogSnapshotFile, Reply, ReadBody, ReadInv
    <3> QED BY <2>1, <2>2, <3>1 DEF ReadInv
  <2>4. CASE ReadBody # NoFile
    <3>1. CASE call.offset > Len(ReadBody) /\ ReadBody # << >>
      <4>1. phase' = "refused"
        BY <1>6, <2>4, <3>1 DEF ReadLogSnapshotFile, Reply, ReadBody
      <4> QED BY <2>1, <2>2, <2>4, <3>1, <4>1 DEF ReadInv
    <3>2. CASE ~ (call.offset > Len(ReadBody) /\ ReadBody # << >>)
      <4>1. /\ phase' = "answered"
            /\ answer' = SelectSnapshotReadChunk(ReadBody, call.offset, call.limit)
        BY <1>6, <2>4, <3>2 DEF ReadLogSnapshotFile, Reply, ReadBody
      <4>2. Len(ReadBody) \in Nat
        BY <2>1, <2>4, ReadsAFile
      <4>3. call.offset <= Len(ReadBody) \/ ReadBody = << >>
        BY <1>3, <3>2, <4>2
      <4> QED BY <2>1, <2>2, <2>4, <4>1, <4>3 DEF ReadInv
    <3> QED BY <3>1, <3>2
  <2> QED BY <2>3, <2>4
<1>7. CASE NextPage
  <2>1. /\ phase = "answered" /\ phase' = "checking" /\ More
        /\ pages' = Append(pages, answer) /\ UNCHANGED files
        /\ call' = [call EXCEPT !.offset = Advance]
    BY <1>7 DEF NextPage
  <2>2. Refusal(call) = 0 /\ ReadBody # NoFile /\ ReadBody' = ReadBody
    BY <1>2, <2>1 DEF ReadInv, ReadBody
  <2>3. PICK b : b = ReadBody
    OBVIOUS
  <2>4. b \in Seq(ToSet(b)) /\ Len(b) \in Nat /\ call.limit \in Nat \ {0} /\ call.offset \in Nat \ {0}
    BY <1>3, <2>2, <2>3, ReadsAFile
  <2>5. PICK p, o : p = Page(b, call.offset - 1, call.limit) /\ o = call.offset
    OBVIOUS
  <2>6. answer = [start |-> o, lines |-> p] /\ (o <= Len(b) \/ b = << >>)
    BY <2>1, <2>3, <2>5 DEF ReadInv, SelectSnapshotReadChunk
  <2>7. /\ answer.lines = p /\ answer.start = o /\ Len(p) = call.limit
        /\ call'.offset = o + Len(p)
    <3>1. answer.lines = p /\ answer.start = o
      BY <2>6
    <3>2. Len(p) = call.limit
      BY <2>1, <3>1 DEF More
    <3>3. call'.offset = o + Len(p)
      BY <2>1, <2>5, <3>1 DEF Advance, ToolsTyped, RequestFields
    <3> QED BY <3>1, <3>2, <3>3
  <2>8. /\ p \in Seq(ToSet(b)) /\ Len(p) <= Len(b) - (o - 1) /\ o - 1 <= Len(b)
        /\ \A start \in 0..(o - 1) :
              SubSeq(b, start + 1, o - 1) \o p = SubSeq(b, start + 1, (o - 1) + Len(p))
    <3>0. PICK n \in Nat, m \in Nat : n = call.limit /\ m = o - 1
      BY <2>4, <2>5
    <3>1. PICK T : T = ToSet(b)
      OBVIOUS
    <3>2. b \in Seq(T) /\ p = Page(b, m, n)
      BY <2>4, <2>5, <3>0, <3>1
    <3>3. /\ p \in Seq(T)
          /\ Len(p) = LET end == IF m + n <= Len(b) THEN m + n ELSE Len(b)
                      IN IF m < end THEN end - m ELSE 0
          /\ m <= Len(b) => \A start \in 0..m :
                SubSeq(b, start + 1, m) \o p = SubSeq(b, start + 1, m + Len(p))
      BY <3>2, PageIs
    <3>4. n # 0 /\ Len(p) = n
      BY <2>4, <2>7, <3>0
    <3>5. m <= Len(b) /\ Len(p) <= Len(b) - m
      BY <2>4, <3>3, <3>4
    <3> QED BY <3>0, <3>1, <3>3, <3>5
  <2>9. /\ pages \in Seq(ToSet(pages)) /\ \A i \in DOMAIN pages : pages[i].lines \in Seq(ToSet(b))
    BY <2>3 DEF ReadInv
  <2>10. /\ pages' \in Seq(ToSet(pages')) /\ pages' # << >>
         /\ pages # << >> => pages'[1] = pages[1]
         /\ pages = << >> => pages'[1] = answer
         /\ \A i \in DOMAIN pages' : pages'[i].lines \in Seq(ToSet(b))
         /\ LinesGot' = LinesGot \o p
    <3>1. PICK ps, a : ps = pages /\ a = answer
      OBVIOUS
    <3>2. PICK T : T = ToSet(b)
      OBVIOUS
    <3>3. ps \in Seq(ToSet(ps)) /\ AllIn(ps, "lines", T) /\ a["lines"] \in Seq(T) /\ a["lines"] = p
      BY <2>7, <2>8, <2>9, <3>1, <3>2 DEF AllIn
    <3>4. PageAdded(Append(ps, a), ps, a, "lines", T)
      BY <3>3, OneMorePage
    <3> QED BY <2>1, <3>1, <3>2, <3>3, <3>4 DEF LinesGot, Fields, PageAdded, AllIn
  <2>11. /\ pages'[1].start \in 1..o
         /\ LinesGot = SubSeq(b, pages'[1].start, o - 1)
    <3>1. CASE pages = << >>
      <4>1. LinesGot = << >>
        BY <3>1, FlattenEmpty DEF LinesGot
      <4>2. SubSeq(b, o, o - 1) = << >>
        BY <2>4, <2>5, SubSeqEmpty
      <4> QED BY <2>4, <2>5, <2>7, <2>10, <3>1, <4>1, <4>2
    <3>2. CASE pages # << >>
      BY <2>3, <2>5, <2>10, <3>2 DEF ReadInv
    <3> QED BY <3>1, <3>2
  <2>12. PICK s \in Nat : s = pages'[1].start /\ s \in 1..o
    BY <2>4, <2>5, <2>11
  <2>13. LinesGot' = SubSeq(b, s, call'.offset - 1)
    <3>1. s - 1 \in 0..(o - 1) /\ (s - 1) + 1 = s
      BY <2>4, <2>5, <2>12
    <3>2. SubSeq(b, s, o - 1) \o p = SubSeq(b, s, (o - 1) + Len(p))
      BY <2>8, <3>1
    <3>3. Len(p) \in Nat /\ o \in Nat
      BY <2>4, <2>5, <2>7
    <3>4. (o - 1) + Len(p) = call'.offset - 1
      BY <2>7, <3>3
    <3> QED BY <2>10, <2>11, <2>12, <3>2, <3>4
  <2>14. call'.offset \in Nat \ {0} /\ s \in 1..call'.offset /\ call'.offset <= Len(b) + 1
    BY <2>4, <2>5, <2>7, <2>8, <2>12
  <2>15. Refusal(call') = 0
    BY <1>2, <2>2, <2>4, <2>14, ReadNotRefused
  <2> QED BY <1>2, <2>1, <2>2, <2>3, <2>10, <2>12, <2>13, <2>14, <2>15 DEF ReadInv
<1>8. ~ (BeginScan \/ ListLogSnapshotFiles \/ GrepLogSnapshot)
  BY DEF BeginScan, ListLogSnapshotFiles, GrepLogSnapshot, Scanning, Grouping
<1>9. ~ (OpenSource \/ SourceMissing \/ ScanLine \/ CloseSource \/ SecondPass \/ Answer \/ Recollect)
  BY <1>3 DEF OpenSource, SourceMissing, ScanLine, CloseSource, SecondPass, Answer, Recollect, Working
<1> QED
  BY <1>4, <1>5, <1>6, <1>7, <1>8, <1>9 DEF ToolsNext

LEMMA ReadsAll ==
  ASSUME ToolsTyped, ReadInv, call.op = "read_log_snapshot_file", pages # << >>,
         phase = "refused" \/ (phase = "answered" /\ ~ More)
  PROVE  LinesGot \o (IF phase = "answered" THEN answer.lines ELSE << >>)
           = Page(ReadBody, pages[1].start - 1, Len(ReadBody))
<1>1. /\ Refusal(call) = 0 /\ ReadBody # NoFile
      /\ call.offset \in Nat \ {0} /\ pages[1].start \in 1..call.offset
      /\ call.offset <= Len(ReadBody) + 1
      /\ LinesGot = SubSeq(ReadBody, pages[1].start, call.offset - 1)
      /\ phase = "refused" => call.offset > Len(ReadBody)
  BY DEF ReadInv
<1>2. PICK b, T : b = ReadBody /\ T = ToSet(b)
  OBVIOUS
<1>3. b \in Seq(T) /\ call.limit \in Nat \ {0}
  BY <1>1, <1>2, ReadsAFile
<1>4. PICK n \in Nat, m \in Nat, s \in Nat, l \in Nat :
        n = Len(b) /\ m = call.offset - 1 /\ s = pages[1].start - 1 /\ l = call.limit
  BY <1>1, <1>3, LenProperties
<1>5. s \in 0..m /\ m <= n /\ pages[1].start = s + 1 /\ call.offset = m + 1 /\ l # 0
  <2>1. call.offset <= n + 1 /\ l # 0
    BY <1>1, <1>2, <1>3, <1>4
  <2>2. PICK o \in Nat \ {0}, a \in Nat \ {0} : o = call.offset /\ a = pages[1].start /\ a <= o
    BY <1>1
  <2>3. m = o - 1 /\ s = a - 1 /\ o <= n + 1
    BY <1>4, <2>1, <2>2
  <2>4. a = s + 1 /\ o = m + 1 /\ s \in 0..m /\ m <= n
    BY <2>2, <2>3
  <2> QED BY <2>1, <2>2, <2>4
<1>6. LinesGot = SubSeq(b, s + 1, m)
  BY <1>1, <1>2, <1>4, <1>5
<1>7. Page(b, s, n) = SubSeq(b, s + 1, n)
  <2>1. Page(b, s, n) = SubSeq(b, s + 1, IF s + n <= Len(b) THEN s + n ELSE Len(b))
    BY ZenonT(30), <1>3, PageIs
  <2>2. (IF s + n <= Len(b) THEN s + n ELSE Len(b)) = n
    BY <1>4
  <2> QED BY <2>1, <2>2
<1>8. CASE phase = "refused"
  <2>1. m = n
    BY <1>1, <1>2, <1>4, <1>5, <1>8
  <2>2. SubSeq(b, s + 1, n) \in Seq(T)
    <3>1. \A i \in (s + 1)..n : b[i] \in T
      BY <1>3, <1>4, ElementOfSeq
    <3> QED BY <3>1, SubSeqProperties
  <2>3. LinesGot \o << >> = SubSeq(b, s + 1, n)
    BY <1>6, <2>1, <2>2, ConcatEmptySeq
  <2> QED BY <1>2, <1>4, <1>7, <1>8, <2>3
<1>9. CASE phase = "answered" /\ ~ More
  <2>1. PICK p : p = Page(b, m, l)
    OBVIOUS
  <2>2. answer.lines = p
    BY <1>2, <1>4, <1>9, <2>1 DEF ReadInv, SelectSnapshotReadChunk
  <2>3. Len(p) # l
    BY <1>4, <1>9, <2>2 DEF More
  <2>4. /\ p \in Seq(T)
        /\ Len(p) = LET end == IF m + l <= Len(b) THEN m + l ELSE Len(b)
                    IN IF m < end THEN end - m ELSE 0
        /\ m <= Len(b) => \A start \in 0..m :
              SubSeq(b, start + 1, m) \o p = SubSeq(b, start + 1, m + Len(p))
    <3>1. b \in Seq(T) /\ p = Page(b, m, l)
      BY <1>3, <2>1
    <3> QED BY ZenonT(30), <3>1, PageIs
  <2>5. SubSeq(b, s + 1, m) \o p = SubSeq(b, s + 1, m + Len(p))
    BY <1>4, <1>5, <2>4
  <2>6. m + Len(p) = n
    <3>1. Len(p) = IF m + l <= n THEN IF m < m + l THEN l ELSE 0 ELSE IF m < n THEN n - m ELSE 0
      BY <1>4, <2>4
    <3>2. m <= n /\ l # 0 /\ Len(p) # l
      BY <1>5, <2>3
    <3> QED BY <3>1, <3>2
  <2> QED BY <1>2, <1>4, <1>6, <1>7, <1>9, <2>2, <2>5, <2>6
<1> QED BY <1>8, <1>9

-----------------------------------------------------------------------------
(* A grep, page after page.                                                *)

\* A later line that starts a line of its own has a larger number.
LEMMA NumbersGrow ==
  ASSUME NEW lines, NEW i \in Nat \ {0}, NEW j \in Nat \ {0}, i < j, lines[j - 1].end = "lf"
  PROVE  GrepNumber(lines, i) < GrepNumber(lines, j)
<1> DEFINE I == {k \in 1..(i - 1) : lines[k].end = "lf"}
           J == {k \in 1..(j - 1) : lines[k].end = "lf"}
<1>1. I \in SUBSET J /\ J \in SUBSET (1..(j - 1)) /\ j - 1 \in J /\ j - 1 \notin I
  OBVIOUS
<1>2. GrepNumber(lines, i) = 1 + Cardinality(I) /\ GrepNumber(lines, j) = 1 + Cardinality(J)
  BY DEF GrepNumber
<1> HIDE DEF I, J
<1>3. IsFiniteSet(1..(j - 1))
  BY FS_Interval
<1>4. IsFiniteSet(J)
  BY <1>1, <1>3, FS_Subset
<1>5. IsFiniteSet(I) /\ Cardinality(I) <= Cardinality(J) /\ (Cardinality(J) = Cardinality(I) => J = I)
  BY <1>1, <1>4, FS_Subset
<1>6. Cardinality(I) \in Nat /\ Cardinality(J) \in Nat /\ Cardinality(I) # Cardinality(J)
  BY <1>1, <1>4, <1>5, FS_CardinalityType
<1> QED BY <1>2, <1>5, <1>6

AllTagged(s) == \A i \in DOMAIN s : s[i].tagged

\* The places of the pieces that grep prints.
GrepPlaces(lines, pattern) ==
  {i \in DOMAIN lines : \E j \in DOMAIN lines : /\ lines[j].text \in pattern
                                                /\ GrepNumber(lines, j) = GrepNumber(lines, i)}

PieceAt(key, lines, i) ==
  [key |-> key, number |-> GrepNumber(lines, i), text |-> lines[i].text,
   tagged |-> StartsGrepLine(lines, i)]

Places(lines) == [i \in DOMAIN lines |-> i]

LEMMA GrepPieces ==
  ASSUME NEW T, NEW lines \in Seq(T), NEW key, NEW pattern
  PROVE  LET hits == Filter(Places(lines), GrepPlaces(lines, pattern))
         IN /\ Places(lines) \in Seq(1..Len(lines)) /\ Len(Places(lines)) = Len(lines)
            /\ hits \in Seq(1..Len(lines))
            /\ GrepOutput(key, lines, pattern) = [n \in 1..Len(hits) |-> PieceAt(key, lines, hits[n])]
<1> DEFINE n == Len(lines)
           p == Places(lines)
           W == {x \in ToSet(p) : x \in GrepPlaces(lines, pattern)}
<1>1. n \in Nat /\ DOMAIN lines = 1..n
  BY LenProperties
<1>2. p \in Seq(1..n) /\ Len(p) = n /\ ToSet(p) = 1..n
  BY <1>1 DEF Places, ToSet
<1>3. Filter(p, W) = Filter(p, GrepPlaces(lines, pattern))
  BY <1>2, FilterSame
<1>4. Filter(p, W) \in Seq(1..n) /\ DOMAIN Filter(p, W) = 1..Len(Filter(p, W))
  BY <1>2, FilterElements, LenProperties
<1>5. W = {i \in ToSet(p) : \E j \in DOMAIN lines :
             lines[j].text \in pattern /\ GrepNumber(lines, j) = GrepNumber(lines, i)}
  BY <1>1, <1>2 DEF GrepPlaces
<1>6. GrepOutput(key, lines, pattern) = [k \in DOMAIN Filter(p, W) |-> PieceAt(key, lines, Filter(p, W)[k])]
  BY <1>5 DEF GrepOutput, Where, PieceAt, Places
<1> QED BY <1>2, <1>3, <1>4, <1>6

\* When every piece has a number of its own, the pieces are the matching lines.
LEMMA TaggedHits ==
  ASSUME NEW T, NEW lines \in Seq(T), NEW key, NEW pattern,
         AllTagged(GrepOutput(key, lines, pattern)), NEW i \in 1..Len(lines)
  PROVE  i \in GrepPlaces(lines, pattern) <=> lines[i].text \in pattern
<1> DEFINE hits == Filter(Places(lines), GrepPlaces(lines, pattern))
<1>1. DOMAIN lines = 1..Len(lines) /\ Len(lines) \in Nat
  BY LenProperties
<1>2. /\ Places(lines) \in Seq(1..Len(lines)) /\ hits \in Seq(1..Len(lines))
      /\ GrepOutput(key, lines, pattern) = [n \in 1..Len(hits) |-> PieceAt(key, lines, hits[n])]
  BY GrepPieces
<1>3. ToSet(hits) = ToSet(Places(lines)) \intersect GrepPlaces(lines, pattern)
  BY <1>2, FilterElements
<1>4. ASSUME NEW k \in 1..Len(lines), k \in GrepPlaces(lines, pattern) PROVE StartsGrepLine(lines, k)
  <2>1. k \in ToSet(Places(lines))
    BY <1>1 DEF Places, ToSet
  <2>2. k \in ToSet(hits)
    BY <1>3, <1>4, <2>1
  <2>3. PICK n \in 1..Len(hits) : hits[n] = k
    <3>1. DOMAIN hits = 1..Len(hits)
      BY <1>2, LenProperties
    <3> HIDE DEF hits
    <3> QED BY <2>2, <3>1 DEF ToSet
  <2> HIDE DEF hits
  <2>4. GrepOutput(key, lines, pattern)[n].tagged
    BY <1>2 DEF AllTagged
  <2>5. GrepOutput(key, lines, pattern)[n] = PieceAt(key, lines, k)
    BY <1>2, <2>3
  <2> QED BY <2>4, <2>5 DEF PieceAt
<1>5. ASSUME lines[i].text \in pattern PROVE i \in GrepPlaces(lines, pattern)
  BY <1>1, <1>5 DEF GrepPlaces
<1>6. ASSUME i \in GrepPlaces(lines, pattern) PROVE lines[i].text \in pattern
  <2>1. PICK j \in 1..Len(lines) : lines[j].text \in pattern /\ GrepNumber(lines, j) = GrepNumber(lines, i)
    BY <1>1, <1>6 DEF GrepPlaces
  <2>2. j \in GrepPlaces(lines, pattern)
    BY <1>1, <2>1 DEF GrepPlaces
  <2>3. \A k \in 1..Len(lines) : k \in Nat \ {0}
    OBVIOUS
  <2>4. GrepNumber(lines, i) \in Int
    <3>1. {k \in 1..(i - 1) : lines[k].end = "lf"} \in SUBSET (1..(i - 1))
      OBVIOUS
    <3>2. IsFiniteSet(1..(i - 1))
      BY FS_Interval
    <3>3. IsFiniteSet({k \in 1..(i - 1) : lines[k].end = "lf"})
      BY <3>1, <3>2, FS_Subset
    <3> QED BY <3>3, FS_CardinalityType DEF GrepNumber
  <2>5. ~ (i < j)
    <3> SUFFICES ASSUME i < j PROVE FALSE
      OBVIOUS
    <3>1. lines[j - 1].end = "lf"
      BY <1>4, <2>2 DEF StartsGrepLine
    <3>2. GrepNumber(lines, i) < GrepNumber(lines, j)
      BY <2>3, <3>1, NumbersGrow
    <3> QED BY <2>1, <2>4, <3>2
  <2>6. ~ (j < i)
    <3> SUFFICES ASSUME j < i PROVE FALSE
      OBVIOUS
    <3>1. lines[i - 1].end = "lf"
      BY <1>4, <1>6 DEF StartsGrepLine
    <3>2. GrepNumber(lines, j) < GrepNumber(lines, i)
      BY <2>3, <3>1, NumbersGrow
    <3> QED BY <2>1, <2>4, <3>2
  <2> QED BY <2>1, <2>5, <2>6
<1> QED BY <1>5, <1>6

\* Matches and the lines they are of.
SameMatches(out, hits) ==
  /\ out \in Seq(ToSet(out)) /\ hits \in Seq(ToSet(hits)) /\ Len(out) = Len(hits)
  /\ \A i \in 1..Len(out) : out[i].key = hits[i].ref.key /\ out[i].text = hits[i].ref.text


LEMMA FileMatches ==
  ASSUME NEW T, NEW lines \in Seq(T), NEW key, NEW pattern,
         AllTagged(GrepOutput(key, lines, pattern)),
         NEW R, \A r \in ToSet(LinesFrom(key, lines, 1)) : r \in R <=> r.line.text \in pattern
  PROVE  SameMatches(GrepOutput(key, lines, pattern), Filter(LinesFrom(key, lines, 1), R))
<1> DEFINE n == Len(lines)
           p == Places(lines)
           S == GrepPlaces(lines, pattern)
           out == GrepOutput(key, lines, pattern)
           t == [i \in 1..n |-> [ref |-> Reference(key, i, lines[i]), line |-> lines[i]]]
<1>1. n \in Nat
  BY LenProperties
<1>2. LinesFrom(key, lines, 1) = t
  <2>1. 1..(n - 1 + 1) = 1..n
    BY <1>1
  <2>2. \A i \in 1..n : 1 + i - 1 = i
    OBVIOUS
  <2> QED BY <2>1, <2>2 DEF LinesFrom
<1>3. PICK U : U = ToSet(t)
  OBVIOUS
<1>4. DOMAIN t = 1..n /\ t \in Seq(U) /\ Len(t) = n
  BY <1>1, <1>3 DEF ToSet
<1>5. /\ p \in Seq(1..n) /\ Len(p) = n /\ Filter(p, S) \in Seq(1..n)
      /\ out = [k \in 1..Len(Filter(p, S)) |-> PieceAt(key, lines, Filter(p, S)[k])]
  BY GrepPieces
<1>6. \A i \in 1..n : p[i] = i
  BY DEF Places
<1>7. ASSUME NEW i \in 1..n PROVE p[i] \in S <=> t[i] \in R
  <2>1. t[i] \in ToSet(t)
    BY <1>4 DEF ToSet
  <2>2. t[i].line = lines[i]
    OBVIOUS
  <2>3. t[i] \in R <=> lines[i].text \in pattern
    BY <1>2, <2>1, <2>2
  <2> QED BY <1>6, <2>3, TaggedHits
<1> HIDE DEF n, p, S, t, out
<1>8. PICK g : PlacesOf(g, p, S, t, R)
  BY <1>4, <1>5, <1>7, FilterParallel
<1>9. /\ g \in Seq(1..n) /\ Len(Filter(p, S)) = Len(g) /\ Len(Filter(t, R)) = Len(g)
      /\ \A k \in 1..Len(g) : Filter(p, S)[k] = p[g[k]] /\ Filter(t, R)[k] = t[g[k]]
  BY <1>5, <1>8 DEF PlacesOf
<1>10. PICK m \in Nat : m = Len(g)
  BY <1>9, LenProperties
<1>11. out = [k \in 1..m |-> PieceAt(key, lines, g[k])]
  <2>1. \A k \in 1..m : Filter(p, S)[k] = g[k]
    BY <1>6, <1>9, <1>10, ElementOfSeq
  <2> QED BY <1>5, <1>9, <1>10, <2>1
<1>12. out \in Seq(ToSet(out)) /\ Len(out) = m
  BY <1>11 DEF ToSet
<1>13. PICK h : h = Filter(t, R)
  OBVIOUS
<1>14. h \in Seq(ToSet(h)) /\ Len(h) = m
  <2>1. h \in Seq(U)
    BY <1>4, <1>13, FilterElements
  <2>2. h \in Seq(Range(h))
    BY <2>1, SeqOfRange
  <2>3. Range(h) = ToSet(h)
    BY DEF Range, ToSet
  <2> QED BY <1>9, <1>10, <1>13, <2>2, <2>3
<1>15. ASSUME NEW k \in 1..m PROVE out[k].key = h[k].ref.key /\ out[k].text = h[k].ref.text
  <2>1. g[k] \in 1..n /\ h[k] = t[g[k]]
    BY <1>9, <1>10, <1>13, ElementOfSeq
  <2>2. h[k].ref = Reference(key, g[k], lines[g[k]])
    BY <2>1 DEF t
  <2>3. out[k] = PieceAt(key, lines, g[k])
    BY <1>11
  <2> QED BY <2>2, <2>3 DEF PieceAt, Reference
<1> QED BY <1>2, <1>12, <1>13, <1>14, <1>15 DEF SameMatches, out

LEMMA MatchesConcat ==
  ASSUME NEW o, NEW h, NEW p, NEW g, SameMatches(o, h), SameMatches(p, g)
  PROVE  SameMatches(o \o p, h \o g)
<1>1. PICK m \in Nat, n \in Nat : m = Len(o) /\ m = Len(h) /\ n = Len(p) /\ n = Len(g)
  BY LenProperties DEF SameMatches
<1>2. PICK T, U : T = ToSet(o) \union ToSet(p) /\ U = ToSet(h) \union ToSet(g)
  OBVIOUS
<1>3. o \in Seq(T) /\ p \in Seq(T) /\ h \in Seq(U) /\ g \in Seq(U)
  <2>1. ToSet(o) \subseteq T /\ ToSet(p) \subseteq T /\ ToSet(h) \subseteq U /\ ToSet(g) \subseteq U
    BY <1>2
  <2> QED BY <2>1, SeqMonotonic DEF SameMatches
<1>4. PICK x \in Seq(T), y \in Seq(U) : x = o \o p /\ y = h \o g
  BY <1>3, ConcatProperties
<1>5. /\ x \in Seq(T) /\ Len(x) = m + n
      /\ \A i \in 1..(m + n) : x[i] = IF i <= m THEN o[i] ELSE p[i - m]
  <2>1. o \in Seq(T) /\ p \in Seq(T) /\ x = o \o p
    BY <1>3, <1>4
  <2>2. Len(x) = Len(o) + Len(p) /\ \A i \in 1..(Len(o) + Len(p)) : x[i] = IF i <= Len(o) THEN o[i] ELSE p[i - Len(o)]
    BY <2>1, ConcatProperties
  <2> QED BY <1>1, <2>2
<1>6. /\ y \in Seq(U) /\ Len(y) = m + n
      /\ \A i \in 1..(m + n) : y[i] = IF i <= m THEN h[i] ELSE g[i - m]
  BY <1>1, <1>3, <1>4, ConcatProperties
<1>7. ASSUME NEW i \in 1..(m + n) PROVE x[i].key = y[i].ref.key /\ x[i].text = y[i].ref.text
  <2>1. CASE i <= m
    <3>1. i \in 1..m
      BY <2>1
    <3> QED BY <1>1, <1>5, <1>6, <2>1, <3>1 DEF SameMatches
  <2>2. CASE ~ (i <= m)
    <3>1. i - m \in 1..n
      BY <2>2
    <3> QED BY SMTT(30), <1>1, <1>5, <1>6, <2>2, <3>1 DEF SameMatches
  <2> QED BY <2>1, <2>2
<1>8. x \in Seq(ToSet(x)) /\ y \in Seq(ToSet(y))
  BY <1>5, <1>6, SeqOfRange DEF Range, ToSet
<1> QED BY <1>4, <1>5, <1>6, <1>7, <1>8 DEF SameMatches

\* A sequence is tagged iff both its parts are.
LEMMA TaggedParts ==
  ASSUME NEW T, NEW p \in Seq(T), NEW q \in Seq(T), AllTagged(p \o q)
  PROVE  AllTagged(p) /\ AllTagged(q)
<1>1. PICK m \in Nat, n \in Nat : m = Len(p) /\ n = Len(q) /\ DOMAIN p = 1..m /\ DOMAIN q = 1..n
  BY LenProperties
<1>2. PICK x \in Seq(T) : x = p \o q
  BY ConcatProperties
<1>3. /\ DOMAIN x = 1..(m + n)
      /\ \A i \in 1..(m + n) : x[i] = IF i <= m THEN p[i] ELSE q[i - m]
  BY <1>1, <1>2, ConcatProperties, LenProperties
<1>4. \A i \in 1..(m + n) : x[i].tagged
  BY <1>2, <1>3 DEF AllTagged
<1>5. ASSUME NEW i \in 1..m PROVE p[i].tagged
  <2>1. i \in 1..(m + n) /\ i <= m
    OBVIOUS
  <2> QED BY <1>3, <1>4, <2>1
<1>6. ASSUME NEW i \in 1..n PROVE q[i].tagged
  <2>1. m + i \in 1..(m + n) /\ ~ (m + i <= m) /\ (m + i) - m = i
    OBVIOUS
  <2> QED BY <1>3, <1>4, <2>1
<1> QED BY <1>1, <1>5, <1>6 DEF AllTagged

\* The sources that have a file, what grep prints of it and the lines it has.
Present == {s \in ToSet(Sources) : files[s.key] # NoFile}

FileOutput == [s \in Present |-> GrepOutput(s.key, files[s.key], ErrorTexts)]

FileLines == [s \in Present |-> LinesFrom(s.key, files[s.key], 1)]

Pieces == UNION {ToSet(FileOutput[s]) : s \in Present}

References == UNION {ToSet(FileLines[s]) : s \in Present}

LEMMA FilesTyped ==
  ASSUME ToolsTyped
  PROVE  /\ FileOutput \in [Present -> Seq(Pieces)]
         /\ FileLines \in [Present -> Seq(References)]
         /\ \A s \in Present : files[s.key] \in Seq(ToSet(files[s.key]))
<1>1. ASSUME NEW s \in Present PROVE files[s.key] \in Seq(ToSet(files[s.key]))
  <2>1. s \in ToSet(Sources) /\ files[s.key] # NoFile
    BY DEF Present
  <2>2. s.key \in KeysOf(Sources)
    BY <2>1 DEF ToSet, KeysOf
  <2>3. files[s.key] \in Bodies \union Replacements
    BY <2>1, <2>2 DEF ToolsTyped
  <2> QED BY <2>3, InputsAssumption
<1>2. ASSUME NEW s \in Present PROVE FileOutput[s] \in Seq(Pieces) /\ FileLines[s] \in Seq(References)
  <2>1. PICK b, T : b = files[s.key] /\ T = ToSet(b)
    OBVIOUS
  <2>2. b \in Seq(T)
    BY <1>1, <2>1
  <2>3. PICK x, y : x = FileOutput[s] /\ y = FileLines[s]
    OBVIOUS
  <2>4. x = GrepOutput(s.key, b, ErrorTexts) /\ y = LinesFrom(s.key, b, 1)
    BY <2>1, <2>3 DEF FileOutput, FileLines
  <2>5. PICK n \in Nat : DOMAIN x = 1..n
    <3>1. PICK key, pattern : key = s.key /\ pattern = ErrorTexts
      OBVIOUS
    <3>2. LET hits == Filter(Places(b), GrepPlaces(b, pattern))
          IN /\ hits \in Seq(1..Len(b))
             /\ GrepOutput(key, b, pattern) = [k \in 1..Len(hits) |-> PieceAt(key, b, hits[k])]
      BY <2>2, GrepPieces
    <3> QED BY <2>4, <3>1, <3>2, LenProperties
  <2>6. PICK m \in Nat : DOMAIN y = 1..m
    <3>1. Len(b) - 1 + 1 \in Nat
      BY <2>2, LenProperties
    <3> QED BY <2>4, <3>1 DEF LinesFrom
  <2>7. x \in Seq(ToSet(x)) /\ y \in Seq(ToSet(y))
    <3>1. \A k \in 1..n : x[k] \in ToSet(x)
      BY <2>5 DEF ToSet
    <3>2. \A k \in 1..m : y[k] \in ToSet(y)
      BY <2>6 DEF ToSet
    <3>3. x = [k \in 1..n |-> x[k]]
      BY <2>4, <2>5 DEF GrepOutput
    <3>4. y = [k \in 1..m |-> y[k]]
      BY <2>4, <2>6 DEF LinesFrom
    <3>5. [k \in 1..n |-> x[k]] \in Seq(ToSet(x))
      BY <3>1
    <3>6. [k \in 1..m |-> y[k]] \in Seq(ToSet(y))
      BY <3>2
    <3> QED BY <3>3, <3>4, <3>5, <3>6
  <2>8. ToSet(x) \subseteq Pieces /\ ToSet(y) \subseteq References
    BY <2>3 DEF Pieces, References
  <2> QED BY <2>3, <2>7, <2>8, SeqMonotonic
<1> QED BY <1>1, <1>2 DEF FileOutput, FileLines

LEMMA OutputOf ==
  ASSUME ToolsTyped, NEW ss \in Seq(Present)
  PROVE  /\ Output(ss) = FlattenSeq(Mapped(FileOutput, ss))
         /\ LinesOf(ss) = FlattenSeq(Mapped(FileLines, ss))
<1>1. DOMAIN ss = 1..Len(ss)
  BY LenProperties
<1>2. \A i \in DOMAIN ss : ss[i] \in Present
  BY <1>1, ElementOfSeq
<1>3. \A i \in DOMAIN ss :
        /\ GrepOutput(ss[i].key, files[ss[i].key], ErrorTexts) = FileOutput[ss[i]]
        /\ LinesIn(ss[i]) = FileLines[ss[i]]
  BY <1>2 DEF FileOutput, FileLines, LinesIn, Present
<1>4. [i \in DOMAIN ss |-> GrepOutput(ss[i].key, files[ss[i].key], ErrorTexts)]
        = Mapped(FileOutput, ss)
  BY <1>3 DEF Mapped
<1>5. [i \in DOMAIN ss |-> LinesIn(ss[i])]
        = Mapped(FileLines, ss)
  BY <1>3 DEF Mapped
<1> QED BY <1>4, <1>5 DEF Output, LinesOf

\* What grep prints of files, when all of it is tagged, is their error-like lines.
OutputIsHits(ss, R) ==
  /\ Output(ss) \in Seq(Pieces) /\ LinesOf(ss) \in Seq(References)
  /\ AllTagged(Output(ss)) => SameMatches(Output(ss), Filter(LinesOf(ss), R))

LEMMA OutputMatches ==
  ASSUME ToolsTyped, NEW R, \A r \in References : r \in R <=> r.line.text \in ErrorTexts
  PROVE  \A ss \in Seq(Present) : OutputIsHits(ss, R)
<1> DEFINE G == {ss \in Seq(Present) : OutputIsHits(ss, R)}
<1>1. << >> \in G
  <2>1. << >> \in Seq(Present) /\ << >> \in Seq(Pieces) /\ << >> \in Seq(References) /\ DOMAIN << >> = {}
    BY EmptySeq
  <2>2. Output(<< >>) = << >> /\ LinesOf(<< >>) = << >>
    <3>1. Mapped(FileOutput, << >>) = << >>
      BY <2>1 DEF Mapped
    <3>2. Mapped(FileLines, << >>) = << >>
      BY <2>1 DEF Mapped
    <3> QED BY <2>1, <3>1, <3>2, OutputOf, FlattenEmpty
  <2>3. SameMatches(<< >>, << >>)
    BY EmptySeq DEF SameMatches
  <2> QED BY <2>1, <2>2, <2>3, FilterEmpty DEF OutputIsHits
<1>2. ASSUME NEW ss \in Seq(Present), NEW e \in Present, ss \in G PROVE Append(ss, e) \in G
  <2>1. PICK tt \in Seq(Present) : tt = Append(ss, e)
    BY AppendProperties
  <2>2. PICK P, L, fo, fl : P = Pieces /\ L = References /\ fo = FileOutput /\ fl = FileLines
    OBVIOUS
  <2>3. fo \in [Present -> Seq(P)] /\ fl \in [Present -> Seq(L)] /\ files[e.key] \in Seq(ToSet(files[e.key]))
    BY <2>2, FilesTyped
  <2>4. PICK S : S = Present
    OBVIOUS
  <2>5. ss \in Seq(S) /\ e \in S /\ fo \in [S -> Seq(P)] /\ fl \in [S -> Seq(L)]
    BY <2>3, <2>4
  <2>6. /\ FlattenSeq(Mapped(fo, ss)) \in Seq(P)
        /\ FlattenSeq(Mapped(fo, tt)) = FlattenSeq(Mapped(fo, ss)) \o fo[e]
    <3>1. MapsOneMore(fo, ss, e, P)
      BY <2>5, FlattenMap
    <3> QED BY <2>1, <3>1 DEF MapsOneMore
  <2>7. /\ FlattenSeq(Mapped(fl, ss)) \in Seq(L)
        /\ FlattenSeq(Mapped(fl, tt)) = FlattenSeq(Mapped(fl, ss)) \o fl[e]
    <3>1. MapsOneMore(fl, ss, e, L)
      BY <2>5, FlattenMap
    <3> QED BY <2>1, <3>1 DEF MapsOneMore
  <2>8. PICK o, p, h, g : o = Output(ss) /\ p = fo[e] /\ h = LinesOf(ss) /\ g = fl[e]
    OBVIOUS
  <2>9. /\ o \in Seq(P) /\ p \in Seq(P) /\ h \in Seq(L) /\ g \in Seq(L)
        /\ Output(tt) = o \o p /\ LinesOf(tt) = h \o g
    <3>1. /\ Output(ss) = FlattenSeq(Mapped(fo, ss))
          /\ LinesOf(ss) = FlattenSeq(Mapped(fl, ss))
          /\ Output(tt) = FlattenSeq(Mapped(fo, tt))
          /\ LinesOf(tt) = FlattenSeq(Mapped(fl, tt))
      BY <2>2, OutputOf
    <3> QED BY <2>5, <2>6, <2>7, <2>8, <3>1
  <2>10. o \o p \in Seq(P) /\ h \o g \in Seq(L) /\ Filter(h \o g, R) = Filter(h, R) \o Filter(g, R)
    BY <2>9, ConcatProperties, FilterConcat
  <2>11. ASSUME AllTagged(o \o p) PROVE SameMatches(o \o p, Filter(h, R) \o Filter(g, R))
    <3>1. AllTagged(o) /\ AllTagged(p)
      BY <2>9, <2>11, TaggedParts
    <3>2. SameMatches(o, Filter(h, R))
      BY <1>2, <2>8, <3>1 DEF OutputIsHits
    <3>3. SameMatches(p, Filter(g, R))
      <4>1. PICK k, b, t, c : k = e.key /\ b = files[e.key] /\ t = ToSet(b) /\ c = ErrorTexts
        OBVIOUS
      <4>2. b \in Seq(t) /\ p = GrepOutput(k, b, c) /\ g = LinesFrom(k, b, 1)
        BY <2>2, <2>3, <2>8, <4>1 DEF FileOutput, FileLines
      <4>3. \A r \in ToSet(g) : r \in R <=> r.line.text \in c
        <5>1. ToSet(g) \subseteq References
          BY <2>2, <2>8 DEF References
        <5> QED BY <4>1, <5>1
      <4> QED BY <3>1, <4>2, <4>3, FileMatches
    <3> QED BY <3>2, <3>3, MatchesConcat
  <2>12. OutputIsHits(tt, R)
    BY <2>2, <2>9, <2>10, <2>11 DEF OutputIsHits
  <2> QED BY <2>1, <2>12
<1> HIDE DEF G
<1>3. \A ss \in Seq(Present) : ss \in G
  BY <1>1, <1>2, SequenceInduction
<1> QED BY <1>3 DEF G

LEMMA TaggedJoin ==
  ASSUME NEW T, NEW p \in Seq(T), NEW q \in Seq(T), AllTagged(p), AllTagged(q)
  PROVE  AllTagged(p \o q)
<1>1. PICK m \in Nat, n \in Nat : m = Len(p) /\ n = Len(q) /\ DOMAIN p = 1..m /\ DOMAIN q = 1..n
  BY LenProperties
<1>2. PICK x \in Seq(T) : x = p \o q
  BY ConcatProperties
<1>3. /\ DOMAIN x = 1..(m + n)
      /\ \A i \in 1..(m + n) : x[i] = IF i <= m THEN p[i] ELSE q[i - m]
  BY <1>1, <1>2, ConcatProperties, LenProperties
<1>4. ASSUME NEW i \in 1..(m + n) PROVE x[i].tagged
  <2>1. CASE i <= m
    <3>1. i \in 1..m
      BY <2>1
    <3> QED BY <1>1, <1>3, <2>1, <3>1 DEF AllTagged
  <2>2. CASE ~ (i <= m)
    <3>1. i - m \in 1..n
      BY <2>2
    <3> QED BY <1>1, <1>3, <2>2, <3>1 DEF AllTagged
  <2> QED BY <2>1, <2>2
<1> QED BY <1>2, <1>3, <1>4 DEF AllTagged

LEMMA GrepNotRefused ==
  ASSUME NEW c, c.op = "grep_log_snapshot", Refusal(c) = 0
  PROVE  ~ (c.offset < 0 \/ c.limit \notin 1..MaxWindow)
<1>1. Checks(c) = GrepWindow(c) \o KeyChecks(c) \o SnapshotChecks(c) \o FoundKeys(c)
  BY DEF Checks, Grouping
<1>2. Len(Checks(c)) = 4 /\ Checks(c)[1] = GrepWindow(c)[1]
  BY <1>1 DEF GrepWindow, KeyChecks, SnapshotChecks, FoundKeys
<1>3. Refusal(c) = 0 <=> \A i \in 1..4 : ~ Checks(c)[i][2]
  BY <1>2, NotRefused
<1>4. ~ Checks(c)[1][2]
  BY <1>3
<1> QED BY <1>2, <1>4, FailsIff DEF GrepWindow

MatchesGot == FlattenSeq([i \in DOMAIN pages |-> pages[i].matches])

\* What the client has is a part of what grep prints, up to where the call begins.
GrepInv ==
  call.op = "grep_log_snapshot" =>
    /\ phase \in {"checking", "answered", "refused"} /\ call.offset \in Int
    /\ pages \in Seq(ToSet(pages)) /\ AllIn(pages, "matches", Pieces)
    /\ phase = "answered" \/ pages # << >> =>
         \A i \in DOMAIN Selected(call) : files[Selected(call)[i].key] # NoFile
    /\ phase = "answered" =>
         Refusal(call) = 0 /\ answer = GrepSnapshot(call) /\ AllTagged(answer.matches)
    /\ pages # << >> =>
         /\ call.offset \in 0..Len(Output(Selected(call)))
         /\ \E start \in 0..call.offset :
              MatchesGot = SubSeq(Output(Selected(call)), start + 1, call.offset)
         /\ AllTagged(MatchesGot)

LEMMA GrepInitial == ToolsInit => GrepInv
<1> SUFFICES ASSUME ToolsInit, call.op = "grep_log_snapshot"
             PROVE  /\ phase = "checking" /\ pages = << >> /\ call.offset \in Int
                    /\ pages \in Seq(ToSet(pages)) /\ DOMAIN pages = {}
  BY DEF GrepInv, AllIn
<1>1. phase = "checking" /\ pages = << >> /\ call.offset \in Int
  BY InputsAssumption DEF ToolsInit
<1>2. << >> \in Seq(ToSet(<< >>)) /\ DOMAIN << >> = {}
  BY EmptySeq
<1> QED BY <1>1, <1>2

\* A grep whose files are all there prints a sequence of pieces.
LEMMA GrepsPresent ==
  ASSUME ToolsTyped, NEW c, \A i \in DOMAIN Selected(c) : files[Selected(c)[i].key] # NoFile
  PROVE  /\ Selected(c) \in Seq(Present) /\ Output(Selected(c)) \in Seq(Pieces)
         /\ LinesOf(Selected(c)) \in Seq(References)
<1>1. PICK s : s = Selected(c)
  OBVIOUS
<1>2. s \in Seq(ToSet(Sources))
  BY <1>1, SelectsSources
<1>3. DOMAIN s = 1..Len(s) /\ Len(s) \in Nat /\ \A i \in 1..Len(s) : s[i] \in ToSet(Sources)
  BY <1>2, LenProperties, ElementOfSeq
<1>4. \A i \in 1..Len(s) : s[i] \in Present
  BY <1>1, <1>3 DEF Present
<1>5. s \in Seq(Present)
  BY <1>2, <1>3, <1>4
<1>6. PICK R : R = {r \in References : r.line.text \in ErrorTexts}
  OBVIOUS
<1>7. OutputIsHits(s, R)
  BY <1>5, <1>6, OutputMatches
<1> QED BY <1>1, <1>5, <1>7 DEF OutputIsHits

LEMMA GrepStep ==
  ASSUME ToolsTyped, ToolsTyped', GrepInv, [ToolsNext]_vars
  PROVE  GrepInv'
<1>1. SameRequest /\ DOMAIN call' = RequestFields
  BY RequestKept
<1>2. call'.op = call.op /\ call'.keys = call.keys /\ call'.limit = call.limit /\ call'.snapshot = call.snapshot
  BY <1>1 DEF SameRequest, RequestFields
<1> SUFFICES ASSUME call.op = "grep_log_snapshot" PROVE GrepInv'
  BY <1>2 DEF GrepInv
<1>3. phase \in {"checking", "answered", "refused"} /\ call.offset \in Int
  BY DEF GrepInv
<1>4. CASE UNCHANGED vars
  <2>1. UNCHANGED <<files, call, phase, answer, pages>>
    BY <1>4 DEF vars
  <2>2. UNCHANGED <<Output(Selected(call)), Selected(call), Pieces, MatchesGot, Refusal(call), GrepSnapshot(call)>>
    BY <2>1 DEF Output, Pieces, Present, FileOutput, MatchesGot, GrepSnapshot
  <2> QED BY <2>1, <2>2 DEF GrepInv, AllIn
<1>5. CASE Refuse
  <2>1. Refusal(call) # 0 /\ phase = "checking" /\ phase' = "refused"
    BY <1>5 DEF Refuse
  <2>2. UNCHANGED <<files, call, pages>>
    BY <1>5 DEF Refuse
  <2>3. UNCHANGED <<Output(Selected(call)), Selected(call), Pieces, MatchesGot, Refusal(call)>>
    BY <2>2 DEF Output, Pieces, Present, FileOutput, MatchesGot
  <2> QED BY <2>1, <2>2, <2>3 DEF GrepInv, AllIn
<1>6. CASE GrepLogSnapshot
  <2>1. phase = "checking" /\ Refusal(call) = 0 /\ UNCHANGED <<files, call, pages>>
    BY <1>6 DEF GrepLogSnapshot, Reply, Accepted
  <2>2. UNCHANGED <<Output(Selected(call)), Selected(call), Pieces, MatchesGot, Refusal(call), GrepSnapshot(call)>>
    BY <2>1 DEF Output, Pieces, Present, FileOutput, MatchesGot, GrepSnapshot
  <2>3. CASE phase' = "refused"
    BY <2>1, <2>2, <2>3 DEF GrepInv, AllIn
  <2>4. CASE phase' # "refused"
    <3>1. /\ \A i \in DOMAIN Selected(call) : files[Selected(call)[i].key] # NoFile
          /\ \A i \in DOMAIN GrepSnapshot(call).matches : GrepSnapshot(call).matches[i].tagged
          /\ phase' = "answered" /\ answer' = GrepSnapshot(call)
      BY <1>6, <2>4 DEF GrepLogSnapshot, Reply
    <3>2. AllTagged(answer'.matches)
      BY <3>1 DEF AllTagged
    <3> QED BY <2>1, <2>2, <3>1, <3>2 DEF GrepInv, AllIn
  <2> QED BY <2>3, <2>4
<1>7. CASE NextPage
  <2>1. /\ phase = "answered" /\ phase' = "checking" /\ More
        /\ pages' = Append(pages, answer) /\ UNCHANGED files
        /\ call' = [call EXCEPT !.offset = Advance]
    BY <1>7 DEF NextPage
  <2>2. UNCHANGED <<Output(Selected(call)), Selected(call), Pieces>>
    <3>1. Selected(call') = Selected(call)
      BY <1>2 DEF Selected
    <3> QED BY <2>1, <3>1 DEF Output, Pieces, Present, FileOutput
  <2>3. /\ \A i \in DOMAIN Selected(call) : files[Selected(call)[i].key] # NoFile
        /\ Refusal(call) = 0 /\ answer = GrepSnapshot(call) /\ AllTagged(answer.matches)
    BY <2>1 DEF GrepInv
  <2>4. call.offset \in Nat /\ call.limit \in Nat \ {0}
    BY <1>3, <2>3, GrepNotRefused, LimitsAssumption
  <2>5. PICK b, T : b = Output(Selected(call)) /\ T = Pieces
    OBVIOUS
  <2>6. PICK n \in Nat, o \in Nat : n = call.limit /\ o = call.offset
    BY <2>4
  <2>7. PICK p, a : p = Page(b, o, n) /\ a = answer
    OBVIOUS
  <2>8. /\ a.matches = p /\ a.truncated = (o + Len(p) < Len(b))
    BY <2>3, <2>5, <2>6, <2>7 DEF GrepSnapshot
  <2>9. b \in Seq(T) /\ Len(b) \in Nat
    BY <2>3, <2>5, GrepsPresent, LenProperties
  <2>10. /\ p \in Seq(T)
         /\ o <= Len(b) => \A start \in 0..o :
              SubSeq(b, start + 1, o) \o p = SubSeq(b, start + 1, o + Len(p))
    <3>1. b \in Seq(T) /\ p = Page(b, o, n)
      BY <2>7, <2>9
    <3> QED BY <3>1, PageIs
  <2>11. o + Len(p) < Len(b) /\ Len(p) \in Nat
    <3>1. a.truncated
      BY <2>1, <2>7 DEF More
    <3> QED BY <2>8, <2>10, <3>1, LenProperties
  <2>12. call'.offset = o + Len(p)
    BY <2>1, <2>6, <2>7, <2>8 DEF Advance, ToolsTyped, RequestFields
  <2>13. PageAdded(Append(pages, a), pages, a, "matches", T)
    <3>1. PICK ps : ps = pages
      OBVIOUS
    <3>2. ps \in Seq(ToSet(ps)) /\ AllIn(ps, "matches", T) /\ a["matches"] \in Seq(T)
      BY <2>5, <2>8, <2>10, <3>1 DEF GrepInv
    <3>3. PageAdded(Append(ps, a), ps, a, "matches", T)
      BY <3>2, OneMorePage
    <3> QED BY <3>1, <3>3
  <2>14. /\ pages' \in Seq(ToSet(pages')) /\ pages' # << >> /\ AllIn(pages', "matches", T)
         /\ MatchesGot \in Seq(T) /\ MatchesGot' = MatchesGot \o p
    BY <2>1, <2>7, <2>8, <2>13 DEF PageAdded, MatchesGot, Fields
  <2>15. PICK start \in 0..o : MatchesGot = SubSeq(b, start + 1, o)
    <3>1. CASE pages = << >>
      <4>1. MatchesGot = << >>
        BY <3>1, FlattenEmpty DEF MatchesGot
      <4>2. SubSeq(b, o + 1, o) = << >> /\ o \in 0..o
        BY SubSeqEmpty
      <4> QED BY <4>1, <4>2
    <3>2. CASE pages # << >>
      BY <2>5, <2>6, <3>2 DEF GrepInv
    <3> QED BY <3>1, <3>2
  <2>16. MatchesGot' = SubSeq(b, start + 1, call'.offset)
    <3>1. o <= Len(b)
      BY <2>9, <2>11
    <3> QED BY <2>10, <2>12, <2>14, <2>15, <3>1
  <2>17. AllTagged(MatchesGot')
    <3>1. AllTagged(p)
      BY <2>3, <2>7, <2>8
    <3>2. AllTagged(MatchesGot)
      <4>1. CASE pages = << >>
        <5>1. MatchesGot = << >> /\ DOMAIN << >> = {}
          BY <4>1, FlattenEmpty DEF MatchesGot
        <5> QED BY <5>1 DEF AllTagged
      <4>2. CASE pages # << >>
        BY <4>2 DEF GrepInv
      <4> QED BY <4>1, <4>2
    <3>3. AllTagged(MatchesGot \o p)
      BY <2>10, <2>14, <3>1, <3>2, TaggedJoin
    <3> QED BY <2>14, <3>3
  <2>18. call'.offset \in 0..Len(b) /\ call'.offset \in Int /\ start \in 0..call'.offset
    BY <2>9, <2>11, <2>12
  <2>19. \A i \in DOMAIN Selected(call)' : files'[Selected(call)'[i].key] # NoFile
    BY <2>1, <2>2, <2>3
  <2> QED BY <2>1, <2>2, <2>5, <2>14, <2>16, <2>17, <2>18, <2>19 DEF GrepInv
<1>8. ~ (BeginScan \/ ListLogSnapshotFiles \/ ReadLogSnapshotFile)
  BY DEF BeginScan, ListLogSnapshotFiles, ReadLogSnapshotFile, Scanning, Grouping
<1>9. ~ (OpenSource \/ SourceMissing \/ ScanLine \/ CloseSource \/ SecondPass \/ Answer \/ Recollect)
  BY <1>3 DEF OpenSource, SourceMissing, ScanLine, CloseSource, SecondPass, Answer, Recollect, Working
<1> QED
  BY <1>4, <1>5, <1>6, <1>7, <1>8, <1>9 DEF ToolsNext

LEMMA GrepsAll ==
  ASSUME ToolsTyped, GrepInv, call.op = "grep_log_snapshot", phase = "answered", ~ answer.truncated,
         NEW got, got = MatchesGot \o answer.matches, Len(got) = call.offset + Len(answer.matches),
         NEW hits, hits = Where(LinesRead, LAMBDA l : ErrorLike(l.line.text))
  PROVE  SameMatches(got, hits)
<1>1. /\ \A i \in DOMAIN Selected(call) : files[Selected(call)[i].key] # NoFile
      /\ Refusal(call) = 0 /\ answer = GrepSnapshot(call) /\ AllTagged(answer.matches)
      /\ call.offset \in Int /\ AllIn(pages, "matches", Pieces) /\ pages \in Seq(ToSet(pages))
  BY DEF GrepInv
<1>2. PICK b, T, sel : b = Output(Selected(call)) /\ T = Pieces /\ sel = Selected(call)
  OBVIOUS
<1>3. sel \in Seq(Present) /\ b \in Seq(T) /\ Len(b) \in Nat /\ LinesOf(sel) \in Seq(References)
  BY <1>1, <1>2, GrepsPresent, LenProperties
<1>4. PICK n \in Nat, o \in Nat : n = call.limit /\ o = call.offset
  BY <1>1, GrepNotRefused, LimitsAssumption
<1>5. PICK p : p = Page(b, o, n)
  OBVIOUS
<1>6. answer.matches = p /\ ~ (o + Len(p) < Len(b))
  BY <1>1, <1>2, <1>4, <1>5 DEF GrepSnapshot
<1>7. /\ p \in Seq(T) /\ p = SubSeq(b, o + 1, IF o + n <= Len(b) THEN o + n ELSE Len(b))
      /\ Len(p) = LET end == IF o + n <= Len(b) THEN o + n ELSE Len(b)
                  IN IF o < end THEN end - o ELSE 0
      /\ o <= Len(b) => \A start \in 0..o :
           SubSeq(b, start + 1, o) \o p = SubSeq(b, start + 1, o + Len(p))
  <2>1. b \in Seq(T) /\ p = Page(b, o, n)
    BY <1>3, <1>5
  <2> QED BY <2>1, PageIs
<1>8. got = MatchesGot \o p /\ Len(got) = o + Len(p)
  BY <1>4, <1>6
<1>9. o <= Len(b) /\ MatchesGot = SubSeq(b, 1, o) /\ AllTagged(MatchesGot)
  <2>1. CASE pages = << >>
    <3>1. MatchesGot = << >>
      BY <2>1, FlattenEmpty DEF MatchesGot
    <3>2. << >> \o p = p
      BY <1>7, ConcatEmptySeq
    <3>3. o = 0
      BY <1>7, <1>8, <3>1, <3>2, LenProperties
    <3>4. SubSeq(b, 1, 0) = << >> /\ DOMAIN << >> = {}
      BY SubSeqEmpty
    <3> QED BY <1>3, <3>1, <3>3, <3>4 DEF AllTagged
  <2>2. CASE pages # << >>
    <3>1. PICK start \in 0..o : MatchesGot = SubSeq(b, start + 1, o)
      BY <1>2, <1>4, <2>2 DEF GrepInv
    <3>2. o \in 0..Len(b) /\ AllTagged(MatchesGot)
      BY <1>2, <1>4, <2>2 DEF GrepInv
    <3>3. MatchesGot \in Seq(T) /\ Len(MatchesGot) = o - start
      <4>1. \A i \in (start + 1)..o : b[i] \in T
        BY <1>3, <3>2, ElementOfSeq
      <4>2. start + 1 \in Int /\ o \in Int
        OBVIOUS
      <4>3. /\ SubSeq(b, start + 1, o) \in Seq(T)
            /\ Len(SubSeq(b, start + 1, o)) = IF start + 1 <= o THEN o - (start + 1) + 1 ELSE 0
        BY <4>1, <4>2, SubSeqProperties
      <4> QED BY <3>1, <4>3
    <3>4. Len(got) = Len(MatchesGot) + Len(p)
      BY <1>7, <1>8, <3>3, ConcatProperties
    <3>5. start = 0
      <4>1. Len(p) \in Nat /\ (o - start) + Len(p) = o + Len(p)
        BY <1>7, <1>8, <3>3, <3>4, LenProperties
      <4> QED BY <4>1
    <3> QED BY <1>3, <3>1, <3>2, <3>5
  <2> QED BY <2>1, <2>2
<1>12. got = b
  BY <1>3, <1>5, <1>6, <1>8, <1>9, LastPage
<1>13. AllTagged(b)
  <2>1. MatchesGot \in Seq(T)
    <3>1. \A i \in 1..o : b[i] \in T
      BY <1>3, <1>9, ElementOfSeq
    <3> QED BY <1>9, <3>1, SubSeqProperties
  <2>2. AllTagged(p)
    BY <1>1, <1>6
  <2>3. AllTagged(MatchesGot \o p)
    BY <1>7, <1>9, <2>1, <2>2, TaggedJoin
  <2> QED BY <1>8, <1>12, <2>3
<1>14. PICK R : R = {r \in References : r.line.text \in ErrorTexts}
  OBVIOUS
<1>15. OutputIsHits(sel, R)
  BY <1>3, <1>14, OutputMatches
<1>16. SameMatches(b, Filter(LinesOf(sel), R))
  BY <1>2, <1>13, <1>15 DEF OutputIsHits
<1>17. hits = Filter(LinesOf(sel), R)
  <2>1. LinesRead = LinesOf(sel)
    <3>1. Opened(call) = Selected(call)
      <4>1. {s \in ToSet(sel) : Opens(call, s)} = ToSet(sel)
        BY DEF Opens
      <4>2. Filter(sel, ToSet(sel)) = sel
        BY <1>3, FilterNothing
      <4> QED BY <1>2, <4>1, <4>2 DEF Opened, Where
    <3> QED BY <1>2, <3>1 DEF LinesRead
  <2>2. PICK h, U, S : h = LinesOf(sel) /\ U = References /\ S = {l \in ToSet(h) : ErrorLike(l.line.text)}
    OBVIOUS
  <2>3. h \in Seq(U) /\ ToSet(h) \subseteq U
    <3>1. h \in Seq(U)
      BY <1>3, <2>2
    <3> QED BY <3>1, LenProperties, ElementOfSeq DEF ToSet
  <2>4. \A x \in ToSet(h) : x \in S <=> x \in R
    BY <1>14, <2>2, <2>3 DEF ErrorLike
  <2>5. Filter(h, S) = Filter(h, R)
    BY <2>3, <2>4, FilterSame
  <2> QED BY <2>1, <2>2, <2>5 DEF Where
<1> QED BY <1>12, <1>16, <1>17

LEMMA PagesCover == ToolsTyped /\ ReadInv /\ GrepInv => PagesCoverFile
<1> SUFFICES ASSUME ToolsTyped, ReadInv, GrepInv PROVE PagesCoverFile
  OBVIOUS
<1>1. ASSUME call.op = "read_log_snapshot_file", pages # << >>,
             phase = "refused" \/ (phase = "answered" /\ ~ More)
      PROVE  LinesGot \o (IF phase = "answered" THEN answer.lines ELSE << >>)
               = Page(ReadBody, pages[1].start - 1, Len(ReadBody))
  BY <1>1, ReadsAll
<1>2. ASSUME Answered("grep_log_snapshot"), ~ answer.truncated,
             NEW got, got = MatchesGot \o answer.matches,
             NEW hits, hits = Where(LinesRead, LAMBDA l : ErrorLike(l.line.text)),
             Len(got) = call.offset + Len(answer.matches)
      PROVE  /\ Len(got) = Len(hits)
             /\ \A i \in DOMAIN got : got[i].key = hits[i].ref.key /\ got[i].text = hits[i].ref.text
  <2>1. SameMatches(got, hits)
    BY <1>2, GrepsAll DEF Answered
  <2>2. DOMAIN got = 1..Len(got)
    BY <2>1, LenProperties DEF SameMatches
  <2> QED BY <2>1, <2>2 DEF SameMatches
<1> QED BY <1>1, <1>2 DEF PagesCoverFile, LinesGot, ReadBody, MatchesGot

\* A client that reads a file page after page, or greps page after page, gets
\* every line or every match once and in order: the property PagesCoverFile.
THEOREM PagesAreTheFile == ToolsSpec => []PagesCoverFile
<1>1. ToolsInit => ToolsTyped /\ ReadInv /\ GrepInv
  BY ToolsInitial, ReadInitial, GrepInitial
<1>2. ToolsTyped /\ ReadInv /\ GrepInv /\ [ToolsNext]_vars => (ToolsTyped /\ ReadInv /\ GrepInv)'
  BY ToolsTypedStep, ReadStep, GrepStep
<1>3. ToolsTyped /\ ReadInv /\ GrepInv => PagesCoverFile
  BY PagesCover
<1> QED BY <1>1, <1>2, <1>3, PTL DEF ToolsSpec

-----------------------------------------------------------------------------
(* What a scan has read, and what it still has to read.                    *)

\* The references to lines that the files of the snapshot may hold.
Refs == {[ref |-> Reference(k, n, l), line |-> l] :
            k \in KeysOf(Sources), n \in Nat \ {0}, l \in UNION {ToSet(b) : b \in Bodies}}

NextRef == [ref |-> Reference(handle.key, handle.next, handle.lines[handle.next]),
            line |-> handle.lines[handle.next]]

Rest == LinesFrom(handle.key, handle.lines, handle.next) \o LinesOf(todo)

Done == SubSeq(LinesRead, 1, Len(LinesRead) - Len(Rest))

CursorInv ==
  edition = 0 =>
    /\ handle # Closed => /\ handle.key \in KeysOf(Sources) /\ handle.lines \in Bodies
                          /\ handle.next <= Len(handle.lines) + 1
    /\ Working /\ ~Stopped => LinesRead = Done \o Rest /\ Done \in Seq(Refs) /\ Rest \in Seq(Refs)

LEMMA PrefixIs ==
  ASSUME NEW T, NEW d \in Seq(T), NEW r \in Seq(T)
  PROVE  SubSeq(d \o r, 1, Len(d \o r) - Len(r)) = d
<1>1. PICK m \in Nat, n \in Nat : m = Len(d) /\ n = Len(r)
  BY LenProperties
<1>2. Len(d \o r) - Len(r) = m
  BY <1>1, ConcatProperties
<1>3. CASE m = 0
  <2>1. d = << >>
    BY <1>1, <1>3, EmptySeq
  <2>2. SubSeq(d \o r, 1, 0) = << >>
    BY SubSeqEmpty
  <2> QED BY <1>2, <1>3, <2>1, <2>2
<1>4. CASE m # 0
  <2>1. 1 \in 1..Len(d) /\ m \in 1..Len(d)
    BY <1>1, <1>4
  <2>2. SubSeq(d \o r, 1, m) = SubSeq(d, 1, m)
    BY <2>1, SubSeqOfConcat1
  <2>3. SubSeq(d, 1, m) = d
    BY <1>1, SubSeqFull
  <2> QED BY <1>2, <2>2, <2>3
<1> QED BY <1>3, <1>4

\* The lines of a file from one on, and from the next one on.
LinesAre(k, b, n) ==
  /\ LinesFrom(k, b, n) \in Seq(Refs)
  /\ n = Len(b) + 1 => LinesFrom(k, b, n) = << >>
  /\ n <= Len(b) => LET r == [ref |-> Reference(k, n, b[n]), line |-> b[n]]
                    IN r \in Refs /\ LinesFrom(k, b, n) = Append(<< >>, r) \o LinesFrom(k, b, n + 1)

LEMMA LinesFromIs ==
  ASSUME NEW k \in KeysOf(Sources), NEW b \in Bodies, NEW n \in 1..(Len(b) + 1)
  PROVE  LinesAre(k, b, n)
<1>1. PICK m \in Nat : m = Len(b) /\ DOMAIN b = 1..m
  BY InputsAssumption, LenProperties
<1>2. n \in Nat \ {0} /\ n <= m + 1 /\ m - n + 1 \in Nat
  BY <1>1
<1> DEFINE at(i) == [ref |-> Reference(k, i, b[i]), line |-> b[i]]
<1>3. ASSUME NEW i \in 1..m PROVE at(i) \in Refs
  <2>1. b[i] \in ToSet(b)
    BY <1>1 DEF ToSet
  <2>2. i \in Nat \ {0}
    OBVIOUS
  <2> QED BY <2>1, <2>2 DEF Refs
<1>4. LinesFrom(k, b, n) = [i \in 1..(m - n + 1) |-> at(n + i - 1)]
  BY <1>1 DEF LinesFrom
<1>5. \A i \in 1..(m - n + 1) : n + i - 1 \in 1..m
  BY <1>2
<1>6. LinesFrom(k, b, n) \in Seq(Refs)
  <2>1. \A i \in 1..(m - n + 1) : at(n + i - 1) \in Refs
    BY <1>3, <1>5
  <2> HIDE DEF at
  <2> QED BY <1>2, <1>4, <2>1
<1>7. ASSUME n = m + 1 PROVE LinesFrom(k, b, n) = << >>
  <2>1. LinesFrom(k, b, n) \in Seq(Refs) /\ Len(LinesFrom(k, b, n)) = 0
    <3>1. DOMAIN LinesFrom(k, b, n) = 1..(m - n + 1)
      BY <1>4
    <3>2. m - n + 1 = 0
      BY <1>1, <1>7
    <3> QED BY <1>6, <3>1, <3>2, LenProperties
  <2> QED BY <2>1, EmptySeq
<1>8. ASSUME n <= m PROVE at(n) \in Refs /\ LinesFrom(k, b, n) = Append(<< >>, at(n)) \o LinesFrom(k, b, n + 1)
  <2>1. at(n) \in Refs
    BY <1>2, <1>3, <1>8
  <2>2. LinesFrom(k, b, n + 1) = [i \in 1..(m - n) |-> at(n + i)]
    <3>1. m - (n + 1) + 1 = m - n /\ \A i \in 1..(m - n) : (n + 1) + i - 1 = n + i
      BY <1>2
    <3> QED BY <1>1, <3>1 DEF LinesFrom
  <2> HIDE DEF at
  <2>3. PICK t : t = LinesFrom(k, b, n + 1)
    OBVIOUS
  <2>31. m - n \in Nat /\ \A i \in 1..(m - n) : at(n + i) \in Refs
    <3>1. \A i \in 1..(m - n) : n + i \in 1..m
      BY <1>2
    <3> QED BY <1>2, <1>3, <1>8, <3>1
  <2>32. t \in Seq(Refs) /\ Len(t) = m - n
    BY <2>2, <2>3, <2>31
  <2>33. \A i \in 1..(m - n) : t[i] = at(n + i)
    BY <2>2, <2>3
  <2>4. PICK s : s = LinesFrom(k, b, n)
    OBVIOUS
  <2>41. s \in Seq(Refs) /\ \A i \in 1..(m - n + 1) : s[i] = at(n + i - 1)
    BY <1>4, <1>6, <2>4
  <2>42. Len(s) = m - n + 1
    <3>1. DOMAIN s = 1..(m - n + 1)
      BY <1>4, <2>4
    <3> QED BY <1>2, <2>41, <3>1, LenProperties
  <2>5. PICK r \in Refs : r = at(n)
    BY <2>1
  <2>6. PICK one : one = Append(<< >>, r)
    OBVIOUS
  <2>61. one \in Seq(Refs) /\ Len(one) = 1 /\ one[1] = r
    <3>1. << >> \in Seq(Refs) /\ Len(<< >>) = 0
      BY EmptySeq
    <3> QED BY <2>6, <3>1, AppendProperties
  <2>7. PICK x : x = one \o t
    OBVIOUS
  <2>8. /\ Len(x) = 1 + (m - n) /\ x \in Seq(Refs)
        /\ \A i \in 1..(1 + (m - n)) : x[i] = IF i <= 1 THEN one[i] ELSE t[i - 1]
    <3>1. /\ one \o t \in Seq(Refs) /\ Len(one \o t) = Len(one) + Len(t)
          /\ \A i \in 1..(Len(one) + Len(t)) : (one \o t)[i] = IF i <= Len(one) THEN one[i] ELSE t[i - Len(one)]
      BY <2>32, <2>61, ConcatProperties
    <3> QED BY <2>7, <2>32, <2>61, <3>1
  <2>9. ASSUME NEW i \in 1..(1 + (m - n)) PROVE x[i] = s[i]
    <3>0. i \in 1..(m - n + 1)
      BY <1>2
    <3>1. CASE i = 1
      <4>1. n + i - 1 = n
        BY <1>2, <3>1
      <4> QED BY <2>41, <2>5, <2>61, <2>8, <2>9, <3>0, <3>1, <4>1
    <3>2. CASE i # 1
      <4>1. i - 1 \in 1..(m - n) /\ ~ (i <= 1) /\ n + (i - 1) = n + i - 1
        BY <1>2, <3>2
      <4> QED BY <2>33, <2>41, <2>8, <2>9, <3>0, <4>1
    <3> QED BY <3>1, <3>2
  <2>10. Len(x) = Len(s)
    BY <1>2, <2>42, <2>8
  <2>11. x = s
    BY <2>41, <2>8, <2>9, <2>10, SeqEqual
  <2> QED BY <2>1, <2>3, <2>4, <2>5, <2>6, <2>7, <2>11
<1> QED BY <1>1, <1>6, <1>7, <1>8 DEF LinesAre

\* The lines of the selected files, while no collection has replaced one.
LEMMA LinesInIs ==
  ASSUME ToolsTyped, edition = 0, NEW s \in ToSet(Sources)
  PROVE  /\ LinesIn(s) \in Seq(Refs) /\ s.key \in KeysOf(Sources)
         /\ files[s.key] # NoFile => files[s.key] \in Bodies /\ LinesIn(s) = LinesFrom(s.key, files[s.key], 1)
<1>1. s.key \in KeysOf(Sources)
  BY DEF KeysOf, ToSet
<1>2. files[s.key] \in Bodies \union {NoFile}
  BY <1>1 DEF ToolsTyped
<1>3. CASE files[s.key] = NoFile
  BY <1>1, <1>3, EmptySeq DEF LinesIn
<1>4. CASE files[s.key] # NoFile
  <2>1. PICK b \in Bodies : b = files[s.key]
    BY <1>2, <1>4
  <2>2. Len(b) \in Nat
    BY InputsAssumption, LenProperties
  <2>3. 1 \in 1..(Len(b) + 1)
    BY <2>2
  <2>4. LinesAre(s.key, b, 1)
    BY <1>1, <2>3, LinesFromIs
  <2> QED BY <1>1, <1>4, <2>1, <2>4 DEF LinesIn, LinesAre
<1> QED BY <1>3, <1>4

LEMMA LinesOfIs ==
  ASSUME ToolsTyped, edition = 0, NEW ss \in Seq(ToSet(Sources))
  PROVE  /\ LinesOf(ss) \in Seq(Refs)
         /\ ss = << >> => LinesOf(ss) = << >>
         /\ ss # << >> => LinesOf(ss) = LinesIn(Head(ss)) \o LinesOf(Tail(ss))
<1>1. PICK f : f = [s \in ToSet(Sources) |-> LinesIn(s)]
  OBVIOUS
<1>2. PICK S, T : S = ToSet(Sources) /\ T = Refs
  OBVIOUS
<1>3. f \in [S -> Seq(T)]
  BY <1>1, <1>2, LinesInIs
<1>4. ASSUME NEW tt \in Seq(S)
      PROVE  LinesOf(tt) = FlattenSeq(Mapped(f, tt)) /\ Mapped(f, tt) \in Seq(Seq(T))
  <2>1. DOMAIN tt = 1..Len(tt) /\ Len(tt) \in Nat /\ \A i \in 1..Len(tt) : tt[i] \in S
    BY LenProperties, ElementOfSeq
  <2>2. \A i \in DOMAIN tt : f[tt[i]] = LinesIn(tt[i]) /\ f[tt[i]] \in Seq(T)
    BY <1>1, <1>2, <1>3, <2>1
  <2>3. [i \in DOMAIN tt |-> LinesIn(tt[i])] = Mapped(f, tt)
    BY <2>2 DEF Mapped
  <2>4. Mapped(f, tt) \in Seq(Seq(T))
    BY <2>1, <2>2 DEF Mapped
  <2> QED BY <2>3, <2>4 DEF LinesOf
<1>5. LinesOf(ss) \in Seq(T)
  <2>1. << >> \in Seq(T) /\ Mapped(f, ss) \in Seq(Seq(T)) /\ ss \in Seq(S)
    BY <1>2, <1>4, EmptySeq
  <2>2. FlattenSeq(Mapped(f, ss)) \in Seq(T)
    BY <2>1, FlattenAppend
  <2> QED BY <1>4, <2>1, <2>2
<1>6. ASSUME ss = << >> PROVE LinesOf(ss) = << >>
  <2>1. DOMAIN ss = {}
    BY <1>6, EmptySeq
  <2>2. [i \in DOMAIN ss |-> LinesIn(ss[i])] = << >>
    BY <2>1
  <2> QED BY <2>2, FlattenEmpty DEF LinesOf
<1>7. ASSUME ss # << >> PROVE LinesOf(ss) = LinesIn(Head(ss)) \o LinesOf(Tail(ss))
  <2>1. PICK h, tt : h = Head(ss) /\ tt = Tail(ss)
    OBVIOUS
  <2>2. PICK n \in Nat : n = Len(ss) /\ DOMAIN ss = 1..n
    BY LenProperties
  <2>3. /\ n # 0 /\ h \in S /\ h = ss[1] /\ tt \in Seq(S) /\ Len(tt) = n - 1
        /\ \A i \in 1..(n - 1) : tt[i] = ss[i + 1]
    BY <1>2, <1>7, <2>1, <2>2, HeadTailProperties
  <2>4. PICK ll : ll = Mapped(f, ss)
    OBVIOUS
  <2>5. ll \in Seq(Seq(T)) /\ DOMAIN ll = 1..n /\ \A i \in 1..n : ll[i] = f[ss[i]]
    BY <1>2, <1>4, <2>2, <2>4 DEF Mapped
  <2>6. Len(ll) = n /\ ll # << >>
    BY <2>3, <2>5, LenProperties
  <2>7. Head(ll) = LinesIn(h)
    BY <1>1, <1>2, <2>3, <2>5, <2>6
  <2>8. Tail(ll) = Mapped(f, tt)
    <3>1. PICK q : q = Mapped(f, tt)
      OBVIOUS
    <3>2. q \in Seq(Seq(T)) /\ DOMAIN tt = 1..(n - 1)
      BY <1>4, <2>3, <3>1, LenProperties
    <3>3. DOMAIN q = 1..(n - 1) /\ \A i \in 1..(n - 1) : q[i] = f[tt[i]]
      BY <3>1, <3>2 DEF Mapped
    <3>4. Len(q) = n - 1
      <4>1. n - 1 \in Nat
        BY <2>3
      <4> QED BY <3>2, <3>3, <4>1, LenProperties
    <3>5. PICK t : t = Tail(ll)
      OBVIOUS
    <3>6. t \in Seq(Seq(T)) /\ Len(t) = n - 1 /\ \A i \in 1..(n - 1) : t[i] = ll[i + 1]
      BY <2>5, <2>6, <3>5, HeadTailProperties
    <3>7. ASSUME NEW i \in 1..(n - 1) PROVE t[i] = q[i]
      <4>1. i + 1 \in 1..n
        BY <2>3
      <4>2. ll[i + 1] = f[ss[i + 1]]
        BY <2>5, <4>1
      <4> QED BY <2>3, <3>3, <3>6, <4>2
    <3>8. t = q
      BY <3>2, <3>4, <3>6, <3>7, SeqEqual
    <3> QED BY <3>1, <3>5, <3>8
  <2>9. FlattenSeq(ll) = Head(ll) \o FlattenSeq(Tail(ll))
    BY <2>5, <2>6, FlattenHead
  <2> QED BY <1>2, <1>4, <2>1, <2>3, <2>4, <2>7, <2>8, <2>9
<1> QED BY <1>2, <1>5, <1>6, <1>7

\* What is read and what is left determine each other.
LEMMA DoneIs ==
  ASSUME NEW d \in Seq(Refs), Rest \in Seq(Refs), LinesRead = d \o Rest
  PROVE  Done = d
BY PrefixIs DEF Done

LEMMA NothingOpen ==
  ASSUME ToolsTyped, edition = 0, handle = Closed
  PROVE  Rest = LinesOf(todo) /\ Rest \in Seq(Refs)
<1>1. LinesFrom(handle.key, handle.lines, handle.next) = << >>
  <2>1. handle.lines = << >> /\ handle.next = 1
    BY DEF Closed
  <2>2. Len(handle.lines) - handle.next + 1 = 0 /\ 1..0 = {}
    BY <2>1, EmptySeq
  <2> QED BY <2>2 DEF LinesFrom
<1>2. LinesOf(todo) \in Seq(Refs)
  BY LinesOfIs DEF ToolsTyped
<1> QED BY <1>1, <1>2, ConcatEmptySeq DEF Rest

\* A scan begins with nothing read.
LEMMA ScanBegins ==
  ToolsTyped /\ edition = 0 /\ handle = Closed /\ todo = Opened(call) =>
    /\ Done = << >> /\ LinesRead = Done \o Rest
    /\ Done \in Seq(Refs) /\ Rest \in Seq(Refs)
<1> SUFFICES ASSUME ToolsTyped, edition = 0, handle = Closed, todo = Opened(call)
             PROVE  /\ Done = << >> /\ LinesRead = Done \o Rest
                    /\ Done \in Seq(Refs) /\ Rest \in Seq(Refs)
  OBVIOUS
<1>1. Rest = LinesRead /\ Rest \in Seq(Refs)
  BY NothingOpen DEF LinesRead
<1>2. << >> \in Seq(Refs) /\ << >> \o Rest = Rest
  BY <1>1, EmptySeq, ConcatEmptySeq
<1>3. Done = << >>
  BY <1>1, <1>2, DoneIs
<1> QED BY <1>1, <1>2, <1>3

\* A scan that has come to the end has read everything.
LEMMA ScanEnds ==
  ASSUME ToolsTyped, CursorInv, edition = 0, Working, Exhausted, ~ Stopped
  PROVE  Done = LinesRead /\ LinesRead \in Seq(Refs)
<1>1. handle = Closed /\ todo = << >>
  BY DEF Exhausted
<1>2. Rest = << >>
  <2>1. todo \in Seq(ToSet(Sources))
    BY DEF ToolsTyped
  <2> QED BY <1>1, <2>1, NothingOpen, LinesOfIs
<1>3. LinesRead = Done \o Rest /\ Done \in Seq(Refs)
  BY DEF CursorInv
<1> QED BY <1>2, <1>3, ConcatEmptySeq

\* Opening a file reads nothing.
LEMMA OpensUnread ==
  ASSUME ToolsTyped, ToolsTyped', CursorInv, edition = 0, OpenSource
  PROVE  /\ Done' = Done /\ Rest' = Rest /\ LinesRead' = LinesRead
         /\ handle'.key \in KeysOf(Sources) /\ handle'.lines \in Bodies
         /\ handle'.next <= Len(handle'.lines) + 1
<1>1. /\ Working /\ handle = Closed /\ todo # << >> /\ ~ Stopped
      /\ files[Head(todo).key] # NoFile
      /\ handle' = [key |-> Head(todo).key, lines |-> files[Head(todo).key], next |-> 1]
      /\ todo' = Tail(todo) /\ UNCHANGED <<files, call, edition>>
  BY DEF OpenSource
<1>2. todo \in Seq(ToSet(Sources))
  BY DEF ToolsTyped
<1>3. PICK s \in ToSet(Sources) : s = Head(todo)
  BY <1>1, <1>2, HeadTailProperties
<1>4. /\ s.key \in KeysOf(Sources) /\ files[s.key] \in Bodies
      /\ LinesIn(s) = LinesFrom(s.key, files[s.key], 1)
  BY <1>1, <1>3, LinesInIs
<1>5. Len(files[s.key]) \in Nat
  BY <1>4, InputsAssumption, LenProperties
<1>6. LinesOf(todo) = LinesIn(s) \o LinesOf(Tail(todo))
  BY <1>1, <1>2, <1>3, LinesOfIs
<1>7. LinesRead' = LinesRead
  BY <1>1 DEF LinesRead, LinesOf, LinesIn
<1>8. LinesOf(todo)' = LinesOf(Tail(todo))
  BY <1>1 DEF LinesOf, LinesIn
<1>9. Rest' = Rest
  <2>1. Rest' = LinesIn(s) \o LinesOf(Tail(todo))
    BY <1>1, <1>3, <1>4, <1>8 DEF Rest
  <2> QED BY <1>1, <1>6, <2>1, NothingOpen
<1>10. Done' = Done
  BY <1>7, <1>9 DEF Done
<1> QED BY <1>1, <1>3, <1>4, <1>5, <1>7, <1>9, <1>10

\* Closing a file that has been read reads nothing.
LEMMA ClosesRead ==
  ASSUME ToolsTyped, ToolsTyped', CursorInv, edition = 0, CloseSource, ~ Stopped
  PROVE  Done' = Done /\ Rest' = Rest /\ LinesRead' = LinesRead
<1>1. /\ Working /\ handle # Closed /\ handle.next > Len(handle.lines) /\ handle' = Closed
      /\ UNCHANGED <<files, call, edition, todo>>
  BY DEF CloseSource
<1>2. LinesRead' = LinesRead /\ LinesOf(todo)' = LinesOf(todo)
  BY <1>1 DEF LinesRead, LinesOf, LinesIn
<1>3. PICK k \in KeysOf(Sources), b \in Bodies : k = handle.key /\ b = handle.lines
  BY <1>1 DEF CursorInv
<1>4. PICK n \in Nat \ {0} : n = handle.next
  BY DEF ToolsTyped
<1>5. n <= Len(b) + 1 /\ n > Len(b) /\ Len(b) \in Nat
  BY <1>1, <1>3, <1>4, InputsAssumption, LenProperties DEF CursorInv
<1>6. n = Len(b) + 1 /\ n \in 1..(Len(b) + 1)
  BY <1>5
<1>7. LinesFrom(k, b, n) = << >>
  BY <1>6, LinesFromIs DEF LinesAre
<1>8. Rest = LinesOf(todo)
  <2>1. LinesOf(todo) \in Seq(Refs)
    BY LinesOfIs DEF ToolsTyped
  <2> QED BY <1>3, <1>4, <1>7, <2>1, ConcatEmptySeq DEF Rest
<1>9. Rest' = LinesOf(todo)
  <2>1. handle' = Closed /\ edition' = 0
    BY <1>1
  <2>2. LinesFrom(handle'.key, handle'.lines, handle'.next) = << >>
    <3>1. handle'.lines = << >> /\ handle'.next = 1
      BY <2>1 DEF Closed
    <3>2. Len(handle'.lines) - handle'.next + 1 = 0 /\ 1..0 = {}
      BY <3>1, EmptySeq
    <3> QED BY <3>2 DEF LinesFrom
  <2>3. LinesOf(todo) \in Seq(Refs)
    BY LinesOfIs DEF ToolsTyped
  <2> QED BY <1>2, <2>2, <2>3, ConcatEmptySeq DEF Rest
<1> QED BY <1>2, <1>8, <1>9 DEF Done

\* A scan reads the next line.
LEMMA ScanReads ==
  ASSUME ToolsTyped, ToolsTyped', CursorInv, edition = 0, ScanLine
  PROVE  /\ NextRef \in Refs /\ Done \in Seq(Refs) /\ LinesRead' = LinesRead
         /\ Done' = Append(Done, NextRef) /\ LinesRead = Done' \o Rest' /\ Rest' \in Seq(Refs)
         /\ handle'.key = handle.key /\ handle'.lines = handle.lines
         /\ handle'.next <= Len(handle.lines) + 1 /\ handle # Closed
<1>1. /\ Working /\ ~ Stopped /\ handle.next <= Len(handle.lines)
      /\ handle' = [handle EXCEPT !.next = @ + 1]
      /\ UNCHANGED <<files, call, edition, todo>>
  BY DEF ScanLine
<1>2. handle # Closed
  <2>1. Closed.next = 1 /\ Len(Closed.lines) = 0
    BY DEF Closed
  <2> QED BY <1>1, <2>1
<1>3. PICK k \in KeysOf(Sources), b \in Bodies : k = handle.key /\ b = handle.lines
  BY <1>2 DEF CursorInv
<1>4. PICK n \in Nat \ {0} : n = handle.next
  BY DEF ToolsTyped
<1>5. n <= Len(b) /\ Len(b) \in Nat /\ n \in 1..(Len(b) + 1)
  <2>1. n <= Len(b) /\ Len(b) \in Nat
    BY <1>1, <1>3, <1>4, InputsAssumption, LenProperties
  <2> QED BY <2>1
<1>6. handle'.key = k /\ handle'.lines = b /\ handle'.next = n + 1
  BY <1>1, <1>3, <1>4 DEF ToolsTyped
<1>7. PICK r : r = NextRef
  OBVIOUS
<1>8. r \in Refs /\ LinesFrom(k, b, n) = Append(<< >>, r) \o LinesFrom(k, b, n + 1)
  <2>1. LinesAre(k, b, n)
    BY <1>5, LinesFromIs
  <2> QED BY <1>3, <1>4, <1>5, <1>7, <2>1 DEF LinesAre, NextRef
<1>9. LinesFrom(k, b, n + 1) \in Seq(Refs)
  <2>1. n + 1 \in 1..(Len(b) + 1)
    BY <1>5
  <2> QED BY <2>1, LinesFromIs DEF LinesAre
<1>10. LinesOf(todo) \in Seq(Refs)
  BY LinesOfIs DEF ToolsTyped
<1>11. LinesRead' = LinesRead /\ LinesOf(todo)' = LinesOf(todo)
  BY <1>1 DEF LinesRead, LinesOf, LinesIn
<1>12. PICK x, y, one : x = LinesFrom(k, b, n + 1) /\ y = LinesOf(todo) /\ one = Append(<< >>, r)
  OBVIOUS
<1>13. x \in Seq(Refs) /\ y \in Seq(Refs) /\ one \in Seq(Refs) /\ x \o y \in Seq(Refs)
  BY <1>8, <1>9, <1>10, <1>12, EmptySeq, AppendProperties, ConcatProperties
<1>14. Rest' = x \o y
  BY <1>6, <1>11, <1>12 DEF Rest
<1>15. Rest = one \o (x \o y)
  <2>1. Rest = (one \o x) \o y
    BY <1>3, <1>4, <1>8, <1>12 DEF Rest
  <2> QED BY <1>13, <2>1, ConcatAssociative
<1>16. PICK d : d = Done
  OBVIOUS
<1>17. d \in Seq(Refs) /\ LinesRead = d \o Rest
  BY <1>1, <1>16 DEF CursorInv
<1>18. d \o one = Append(d, r) /\ Append(d, r) \in Seq(Refs)
  <2>1. Append(d \o << >>, r) = d \o Append(<< >>, r)
    BY <1>8, <1>17, EmptySeq, AppendConcat
  <2> QED BY <1>8, <1>12, <1>17, <2>1, ConcatEmptySeq, AppendProperties
<1>19. LinesRead = Append(d, r) \o (x \o y)
  <2>1. (d \o one) \o (x \o y) = d \o (one \o (x \o y))
    BY SMTT(30), <1>13, <1>17, ConcatAssociative
  <2> QED BY <1>15, <1>17, <1>18, <2>1
<1>20. Done' = Append(d, r)
  <2>1. SubSeq(Append(d, r) \o (x \o y), 1, Len(Append(d, r) \o (x \o y)) - Len(x \o y)) = Append(d, r)
    BY <1>13, <1>18, PrefixIs
  <2> QED BY <1>11, <1>14, <1>19, <2>1 DEF Done
<1> QED BY <1>2, <1>3, <1>5, <1>6, <1>7, <1>8, <1>11, <1>13, <1>14, <1>16, <1>17, <1>19, <1>20

LEMMA NextBegins ==
  (ToolsTyped /\ edition = 0 /\ handle = Closed /\ todo = Opened(call))' =>
    /\ Done' = << >> /\ LinesRead' = Done' \o Rest'
    /\ Done' \in Seq(Refs) /\ Rest' \in Seq(Refs)
<1>1. (ToolsTyped /\ edition = 0 /\ handle = Closed /\ todo = Opened(call) =>
         /\ Done = << >> /\ LinesRead = Done \o Rest
         /\ Done \in Seq(Refs) /\ Rest \in Seq(Refs))'
  BY ScanBegins, PTL
<1> QED BY <1>1

LEMMA CursorInitial == ToolsInit => CursorInv
BY DEF ToolsInit, CursorInv, Working

\* A proxy scan opens what it selects.
LEMMA ProxyOpensAll ==
  ASSUME NEW c, c.op # "inspect_probe_blocking_activity"
  PROVE  Opened(c) = Selected(c)
<1>1. PICK s : s = Selected(c)
  OBVIOUS
<1>2. s \in Seq(ToSet(Sources))
  BY <1>1, SelectsSources
<1>3. {x \in ToSet(s) : Opens(c, x)} = ToSet(s)
  BY DEF Opens
<1>4. Filter(s, ToSet(s)) = s
  BY <1>2, FilterNothing
<1> QED BY <1>1, <1>3, <1>4 DEF Opened, Where

LEMMA CursorStep ==
  ASSUME ToolsTyped, ToolsTyped', CursorInv, [ToolsNext]_vars
  PROVE  CursorInv'
<1> SUFFICES ASSUME edition' = 0
             PROVE  /\ handle' # Closed => /\ handle'.key \in KeysOf(Sources) /\ handle'.lines \in Bodies
                                           /\ handle'.next <= Len(handle'.lines) + 1
                    /\ (Working /\ ~ Stopped)' =>
                         LinesRead' = Done' \o Rest' /\ Done' \in Seq(Refs) /\ Rest' \in Seq(Refs)
  BY DEF CursorInv
<1>1. edition = 0
  <2>1. CASE Recollect
    BY <2>1 DEF Recollect, ToolsTyped
  <2>2. CASE ~ Recollect
    BY <2>2 DEF ToolsNext, vars, Refuse, BeginScan, OpenSource, SourceMissing, ScanLine, CloseSource,
       SecondPass, Answer, ListLogSnapshotFiles, ReadLogSnapshotFile, GrepLogSnapshot, Reply, NextPage
  <2> QED BY <2>1, <2>2
<1>2. handle # Closed => /\ handle.key \in KeysOf(Sources) /\ handle.lines \in Bodies
                         /\ handle.next <= Len(handle.lines) + 1
  BY <1>1 DEF CursorInv
<1>3. CASE UNCHANGED vars
  <2>1. UNCHANGED <<files, call, phase, todo, handle, found>>
    BY <1>3 DEF vars
  <2>2. UNCHANGED <<LinesRead, Rest, Working, Stopped>>
    BY <2>1 DEF LinesRead, LinesOf, LinesIn, Rest, Working, Stopped
  <2> QED BY <1>1, <1>2, <2>1, <2>2 DEF CursorInv, Done
<1>4. CASE UNCHANGED handle /\ ~ Working'
  BY <1>2, <1>4
<1>5. CASE BeginScan
  <2>1. todo' = Opened(call)' /\ handle' = handle /\ handle = Closed
    BY <1>5 DEF BeginScan, Accepted, ToolsTyped
  <2> QED BY <1>1, <1>5, <2>1, NextBegins DEF BeginScan
<1>6. CASE SecondPass
  <2>1. /\ handle' = Closed /\ call' = call
        /\ call.op = "inspect_proxy_activity" /\ todo' = Selected(call)
    BY <1>6 DEF SecondPass, Exhausted
  <2>2. todo' = Opened(call)'
    BY <2>1, ProxyOpensAll
  <2> QED BY <2>1, <2>2, NextBegins
<1>7. CASE OpenSource
  <2>1. Working /\ ~ Stopped
    BY <1>7 DEF OpenSource
  <2>2. /\ Done' = Done /\ Rest' = Rest /\ LinesRead' = LinesRead
        /\ handle'.key \in KeysOf(Sources) /\ handle'.lines \in Bodies
        /\ handle'.next <= Len(handle'.lines) + 1
    BY <1>1, <1>7, OpensUnread
  <2> QED BY <1>1, <2>1, <2>2 DEF CursorInv
<1>8. CASE ScanLine
  <2>1. /\ NextRef \in Refs /\ Done \in Seq(Refs)
        /\ Done' = Append(Done, NextRef) /\ LinesRead' = Done' \o Rest' /\ Rest' \in Seq(Refs)
        /\ handle'.key = handle.key /\ handle'.lines = handle.lines
        /\ handle'.next <= Len(handle.lines) + 1 /\ handle # Closed
    BY <1>1, <1>8, ScanReads
  <2>2. Done' \in Seq(Refs)
    BY <2>1, AppendProperties
  <2> QED BY <1>2, <2>1, <2>2
<1>9. CASE CloseSource
  <2>1. handle' = Closed /\ Working
    BY <1>9 DEF CloseSource
  <2>2. CASE Stopped
    <3>1. Stopped'
      BY <1>9, <2>2 DEF Stopped, CloseSource
    <3> QED BY <2>1, <3>1
  <2>3. CASE ~ Stopped
    <3>1. Done' = Done /\ Rest' = Rest /\ LinesRead' = LinesRead
      BY <1>1, <1>9, <2>3, ClosesRead
    <3> QED BY <1>1, <2>1, <2>3, <3>1 DEF CursorInv
  <2> QED BY <2>2, <2>3
<1>10. ~ Recollect
  BY <1>1 DEF Recollect
<1>11. ASSUME Refuse \/ SourceMissing \/ Answer \/ ListLogSnapshotFiles \/ ReadLogSnapshotFile
              \/ GrepLogSnapshot \/ NextPage
       PROVE  UNCHANGED handle /\ ~ Working'
  BY <1>11 DEF Refuse, SourceMissing, Answer, ListLogSnapshotFiles, ReadLogSnapshotFile,
     GrepLogSnapshot, Reply, NextPage, Working
<1> QED
  BY <1>3, <1>4, <1>5, <1>6, <1>7, <1>8, <1>9, <1>10, <1>11 DEF ToolsNext

-----------------------------------------------------------------------------
(* Probes and bans, as a scan finds them.                                  *)

LEMMA ToSetAppend ==
  ASSUME NEW T, NEW s \in Seq(T), NEW e \in T
  PROVE  ToSet(Append(s, e)) = ToSet(s) \union {e}
<1>1. PICK n \in Nat : n = Len(s) /\ DOMAIN s = 1..n
  BY LenProperties
<1>2. PICK t \in Seq(T) : t = Append(s, e)
  BY AppendProperties
<1>3. DOMAIN t = 1..(n + 1) /\ t[n + 1] = e /\ \A i \in 1..n : t[i] = s[i]
  BY <1>1, <1>2, AppendProperties, LenProperties
<1>4. \A i \in 1..(n + 1) : i \in 1..n \/ i = n + 1
  OBVIOUS
<1>5. n + 1 \in 1..(n + 1) /\ \A i \in 1..n : i \in 1..(n + 1)
  OBVIOUS
<1>6. ToSet(t) = {t[i] : i \in 1..(n + 1)} /\ ToSet(s) = {s[i] : i \in 1..n}
  BY <1>1, <1>3 DEF ToSet
<1>7. ToSet(t) \subseteq ToSet(s) \union {e}
  BY <1>3, <1>4, <1>6
<1>8. ToSet(s) \union {e} \subseteq ToSet(t)
  BY <1>3, <1>5, <1>6
<1> QED BY <1>2, <1>7, <1>8

Banning == "crowdsec_runtime"

ProbeRefs == {r \in Refs : r.ref.key # Banning /\ SensitiveProbe(r.line)}

OfClient(ip) == {r \in Refs : r.line.client = ip}

BansIn(d) == {r.line.bans : r \in {x \in ToSet(d) : x.ref.key = Banning}} \ {""}

ClientsIn(d) == {r.line.client : r \in ToSet(d) \intersect ProbeRefs}

PathsIn(d, ip) == {r.line.route : r \in ToSet(d) \intersect ProbeRefs \intersect OfClient(ip)}

\* What is recorded of every address after the lines d.
RecordsAre(f, d) ==
  /\ DOMAIN f = {"records"}
  /\ DOMAIN f.records = BansIn(d) \union ClientsIn(d)
  /\ \A ip : LET rec == RecordOf(f, ip)
             IN /\ DOMAIN rec = DOMAIN NewRecord
                /\ rec.bans \in Nat /\ (rec.bans > 0 <=> ip \in BansIn(d))
                /\ rec.accesses = Len(Filter(Filter(d, ProbeRefs), OfClient(ip)))
                /\ rec.paths = PathsIn(d, ip)

LEMMA NoRecords == RecordsAre(NoProbes, << >>)
<1>1. ToSet(<< >>) = {}
  BY EmptySeq DEF ToSet
<1>2. BansIn(<< >>) = {} /\ ClientsIn(<< >>) = {} /\ \A ip : PathsIn(<< >>, ip) = {}
  BY <1>1 DEF BansIn, ClientsIn, PathsIn
<1>3. \A ip : Len(Filter(Filter(<< >>, ProbeRefs), OfClient(ip))) = 0
  BY FilterEmpty, EmptySeq
<1>4. NoProbes.records = Empty /\ DOMAIN NoProbes = {"records"} /\ DOMAIN Empty = {}
  BY DEF NoProbes, Empty
<1>5. \A ip : RecordOf(NoProbes, ip) = NewRecord
  BY <1>4 DEF RecordOf
<1>6. NewRecord.bans = 0 /\ NewRecord.accesses = 0 /\ NewRecord.paths = {}
  BY DEF NewRecord
<1>7. DOMAIN NoProbes.records = BansIn(<< >>) \union ClientsIn(<< >>)
  <2>1. BansIn(<< >>) \union ClientsIn(<< >>) = {}
    BY <1>2
  <2> QED BY <1>4, <2>1
<1>8. ASSUME NEW ip
      PROVE  LET rec == RecordOf(NoProbes, ip)
             IN /\ DOMAIN rec = DOMAIN NewRecord
                /\ rec.bans \in Nat /\ (rec.bans > 0 <=> ip \in BansIn(<< >>))
                /\ rec.accesses = Len(Filter(Filter(<< >>, ProbeRefs), OfClient(ip)))
                /\ rec.paths = PathsIn(<< >>, ip)
  <2>1. RecordOf(NoProbes, ip) = NewRecord
    BY <1>5
  <2>2. 0 \in Nat /\ ~ (0 > 0) /\ ip \notin BansIn(<< >>)
    BY <1>2
  <2>3. Len(Filter(Filter(<< >>, ProbeRefs), OfClient(ip))) = 0
    BY <1>3
  <2>4. PathsIn(<< >>, ip) = {}
    BY <1>2
  <2> QED BY <1>6, <2>1, <2>2, <2>3, <2>4
<1> QED BY <1>4, <1>7, <1>8 DEF RecordsAre

LEMMA RecordsGrow ==
  ASSUME NEW f, NEW d \in Seq(Refs), NEW r \in Refs, RecordsAre(f, d)
  PROVE  RecordsAre(ProbeLine(f, r.ref, r.line), Append(d, r))
<1> DEFINE e == Append(d, r)
           g == ProbeLine(f, r.ref, r.line)
<1>1. ToSet(e) = ToSet(d) \union {r}
  BY ToSetAppend
<1>2. Filter(d, ProbeRefs) \in Seq(Refs)
  BY FilterElements
<1>3. Filter(e, ProbeRefs) = IF r \in ProbeRefs THEN Append(Filter(d, ProbeRefs), r) ELSE Filter(d, ProbeRefs)
  BY FilterAppend
<1>4. DOMAIN f = {"records"} /\ DOMAIN f.records = BansIn(d) \union ClientsIn(d)
  BY DEF RecordsAre
<1> HIDE DEF e
<1>5. CASE r.ref.key = Banning
  <2>1. r \notin ProbeRefs
    BY <1>5 DEF ProbeRefs
  <2>2. ClientsIn(e) = ClientsIn(d) /\ \A ip : PathsIn(e, ip) = PathsIn(d, ip)
    BY <1>1, <2>1 DEF ClientsIn, PathsIn
  <2>3. Filter(e, ProbeRefs) = Filter(d, ProbeRefs)
    BY <1>3, <2>1
  <2>4. CASE r.line.bans = ""
    <3>1. BansIn(e) = BansIn(d)
      BY <1>1, <2>4 DEF BansIn
    <3>2. g = f
      BY <1>5, <2>4 DEF ProbeLine, Banning
    <3> QED BY <2>2, <2>3, <3>1, <3>2 DEF RecordsAre, e
  <2>5. CASE r.line.bans # ""
    <3>1. BansIn(e) = BansIn(d) \union {r.line.bans}
      BY <1>1, <1>5, <2>5 DEF BansIn
    <3> DEFINE x == r.line.bans
               new == [RecordOf(f, x) EXCEPT !.sources = @ \union {r.ref.key},
                          !.bans = @ + 1, !.lastBan = r.line.time]
    <3>2. g = [f EXCEPT !.records = With(@, x, new)]
      BY <1>5, <2>5 DEF ProbeLine, Banning
    <3>3. g.records = With(f.records, x, new) /\ DOMAIN g = {"records"}
      BY <1>4, <3>2
    <3>4. /\ DOMAIN g.records = DOMAIN f.records \union {x}
          /\ RecordOf(g, x) = new
          /\ \A ip : ip # x => RecordOf(g, ip) = RecordOf(f, ip)
      <4> HIDE DEF new
      <4> QED BY <3>3 DEF With, RecordOf
    <3>5. DOMAIN RecordOf(f, x) = DOMAIN NewRecord /\ RecordOf(f, x).bans \in Nat
      BY DEF RecordsAre
    <3>6. /\ DOMAIN new = DOMAIN NewRecord /\ new.bans = RecordOf(f, x).bans + 1
          /\ new.accesses = RecordOf(f, x).accesses /\ new.paths = RecordOf(f, x).paths
      BY <3>5 DEF NewRecord
    <3>7. new.bans \in Nat /\ new.bans > 0
      BY <3>5, <3>6
    <3> HIDE DEF new, g
    <3>8. ASSUME NEW ip
          PROVE  /\ DOMAIN RecordOf(g, ip) = DOMAIN NewRecord
                 /\ RecordOf(g, ip).bans \in Nat /\ (RecordOf(g, ip).bans > 0 <=> ip \in BansIn(e))
                 /\ RecordOf(g, ip).accesses = Len(Filter(Filter(e, ProbeRefs), OfClient(ip)))
                 /\ RecordOf(g, ip).paths = PathsIn(e, ip)
      <4>1. CASE ip = x
        BY <2>2, <2>3, <3>1, <3>4, <3>6, <3>7, <4>1 DEF RecordsAre
      <4>2. CASE ip # x
        <5>1. RecordOf(g, ip) = RecordOf(f, ip)
          BY <3>4, <4>2
        <5>2. ip \in BansIn(e) <=> ip \in BansIn(d)
          BY <3>1, <4>2
        <5> QED BY <2>2, <2>3, <5>1, <5>2 DEF RecordsAre
      <4> QED BY <4>1, <4>2
    <3>9. DOMAIN g.records = BansIn(e) \union ClientsIn(e)
      BY <1>4, <2>2, <3>1, <3>4
    <3> QED BY <3>3, <3>8, <3>9 DEF RecordsAre, e, g
  <2> QED BY <2>4, <2>5
<1>6. CASE r.ref.key # Banning /\ ~ SensitiveProbe(r.line)
  <2>1. r \notin ProbeRefs
    BY <1>6 DEF ProbeRefs
  <2>2. ClientsIn(e) = ClientsIn(d) /\ \A ip : PathsIn(e, ip) = PathsIn(d, ip)
    BY <1>1, <2>1 DEF ClientsIn, PathsIn
  <2>3. Filter(e, ProbeRefs) = Filter(d, ProbeRefs)
    BY <1>3, <2>1
  <2>4. BansIn(e) = BansIn(d)
    BY <1>1, <1>6 DEF BansIn
  <2>5. g = f
    BY <1>6 DEF ProbeLine, Banning
  <2> QED BY <2>2, <2>3, <2>4, <2>5 DEF RecordsAre, e
<1>7. CASE r.ref.key # Banning /\ SensitiveProbe(r.line)
  <2>1. r \in ProbeRefs
    BY <1>7 DEF ProbeRefs
  <2> DEFINE x == r.line.client
             new == [RecordOf(f, x) EXCEPT !.sources = @ \union {r.ref.key},
                       !.accesses = @ + 1, !.paths = @ \union {r.line.route},
                       !.lastSeen = IF r.line.time = 0 THEN @ ELSE r.line.time]
  <2>2. ClientsIn(e) = ClientsIn(d) \union {x}
    BY <1>1, <2>1 DEF ClientsIn
  <2>3. PathsIn(e, x) = PathsIn(d, x) \union {r.line.route} /\ \A ip : ip # x => PathsIn(e, ip) = PathsIn(d, ip)
    BY <1>1, <2>1 DEF PathsIn, OfClient
  <2>4. BansIn(e) = BansIn(d)
    BY <1>1, <1>7 DEF BansIn
  <2>5. PICK p \in Seq(Refs) : p = Filter(d, ProbeRefs) /\ Filter(e, ProbeRefs) = Append(p, r)
    BY <1>2, <1>3, <2>1
  <2>6. \A ip : Filter(Append(p, r), OfClient(ip)) =
                  IF r \in OfClient(ip) THEN Append(Filter(p, OfClient(ip)), r) ELSE Filter(p, OfClient(ip))
    BY FilterAppend
  <2>7. \A ip : r \in OfClient(ip) <=> ip = x
    BY DEF OfClient
  <2>8. Filter(p, OfClient(x)) \in Seq(Refs)
    BY FilterElements
  <2>9. Len(Filter(Append(p, r), OfClient(x))) = Len(Filter(p, OfClient(x))) + 1
    BY <2>6, <2>7, <2>8, AppendProperties
  <2>10. \A ip : ip # x => Filter(Append(p, r), OfClient(ip)) = Filter(p, OfClient(ip))
    BY <2>6, <2>7
  <2>11. g = [f EXCEPT !.records = With(@, x, new)]
    BY <1>7 DEF ProbeLine, Banning
  <2>12. g.records = With(f.records, x, new) /\ DOMAIN g = {"records"}
    BY <1>4, <2>11
  <2>13. /\ DOMAIN g.records = DOMAIN f.records \union {x}
         /\ RecordOf(g, x) = new
         /\ \A ip : ip # x => RecordOf(g, ip) = RecordOf(f, ip)
    <3> HIDE DEF new
    <3> QED BY <2>12 DEF With, RecordOf
  <2>14. /\ DOMAIN RecordOf(f, x) = DOMAIN NewRecord /\ RecordOf(f, x).bans \in Nat
         /\ (RecordOf(f, x).bans > 0 <=> x \in BansIn(d))
         /\ RecordOf(f, x).accesses = Len(Filter(p, OfClient(x))) /\ RecordOf(f, x).paths = PathsIn(d, x)
    BY <2>5 DEF RecordsAre
  <2>15. /\ DOMAIN new = DOMAIN NewRecord /\ new.bans = RecordOf(f, x).bans
         /\ new.accesses = RecordOf(f, x).accesses + 1
         /\ new.paths = RecordOf(f, x).paths \union {r.line.route}
    BY <2>14 DEF NewRecord
  <2> HIDE DEF new, g
  <2>16. ASSUME NEW ip
         PROVE  /\ DOMAIN RecordOf(g, ip) = DOMAIN NewRecord
                /\ RecordOf(g, ip).bans \in Nat /\ (RecordOf(g, ip).bans > 0 <=> ip \in BansIn(e))
                /\ RecordOf(g, ip).accesses = Len(Filter(Filter(e, ProbeRefs), OfClient(ip)))
                /\ RecordOf(g, ip).paths = PathsIn(e, ip)
    <3>1. CASE ip = x
      BY <2>3, <2>4, <2>5, <2>9, <2>13, <2>14, <2>15, <3>1
    <3>2. CASE ip # x
      <4>1. RecordOf(g, ip) = RecordOf(f, ip)
        BY <2>13, <3>2
      <4>2. Filter(Filter(e, ProbeRefs), OfClient(ip)) = Filter(Filter(d, ProbeRefs), OfClient(ip))
        BY <2>5, <2>10, <3>2
      <4>3. PathsIn(e, ip) = PathsIn(d, ip)
        BY <2>3, <3>2
      <4> QED BY <2>4, <4>1, <4>2, <4>3 DEF RecordsAre
    <3> QED BY <3>1, <3>2
  <2>17. DOMAIN g.records = BansIn(e) \union ClientsIn(e)
    BY <1>4, <2>2, <2>4, <2>13
  <2> QED BY <2>12, <2>16, <2>17 DEF RecordsAre, e, g
<1> QED BY <1>5, <1>6, <1>7

ProbeCall == call.op = "inspect_probe_blocking_activity" /\ edition = 0

ProbesInv ==
  ProbeCall =>
    /\ Working => RecordsAre(found, Done)
    /\ phase = "answered" => /\ answer = InspectProbeBlockingActivityPayload(found)
                             /\ RecordsAre(found, LinesRead) /\ LinesRead \in Seq(Refs)

LEMMA ProbesInitial == ToolsInit => ProbesInv
BY DEF ToolsInit, ProbesInv, Working

LEMMA EditionGrows ==
  ASSUME ToolsTyped, [ToolsNext]_vars, edition' = 0
  PROVE  edition = 0 /\ ~ Recollect
<1>1. CASE Recollect
  BY <1>1 DEF Recollect, ToolsTyped
<1>2. CASE ~ Recollect
  BY <1>2 DEF ToolsNext, vars, Refuse, BeginScan, OpenSource, SourceMissing, ScanLine, CloseSource,
     SecondPass, Answer, ListLogSnapshotFiles, ReadLogSnapshotFile, GrepLogSnapshot, Reply, NextPage
<1> QED BY <1>1, <1>2

LEMMA ProbesStep ==
  ASSUME ToolsTyped, ToolsTyped', CursorInv, CursorInv', ProbesInv, [ToolsNext]_vars
  PROVE  ProbesInv'
<1> SUFFICES ASSUME ProbeCall'
             PROVE  /\ Working' => RecordsAre(found', Done')
                    /\ phase' = "answered" =>
                         /\ answer' = InspectProbeBlockingActivityPayload(found')
                         /\ RecordsAre(found', LinesRead') /\ LinesRead' \in Seq(Refs)
  BY DEF ProbesInv
<1>1. edition = 0 /\ ~ Recollect
  BY EditionGrows DEF ProbeCall
<1>2. call'.op = call.op /\ ProbeCall
  <2>1. SameRequest /\ "op" \in RequestFields \ {"offset"}
    BY RequestKept DEF RequestFields
  <2>2. call'["op"] = call["op"]
    BY <2>1 DEF SameRequest
  <2> QED BY <1>1, <2>2 DEF ProbeCall
<1>3. ~ Stopped
  BY <1>2 DEF ProbeCall, Stopped, Grouping
<1>4. /\ Working => RecordsAre(found, Done)
      /\ phase = "answered" => /\ answer = InspectProbeBlockingActivityPayload(found)
                               /\ RecordsAre(found, LinesRead) /\ LinesRead \in Seq(Refs)
  BY <1>2 DEF ProbesInv
<1>5. CASE UNCHANGED vars
  <2>1. UNCHANGED <<files, call, phase, todo, handle, found, answer>>
    BY <1>5 DEF vars
  <2>2. UNCHANGED <<LinesRead, Done, Working>>
    BY <2>1 DEF LinesRead, LinesOf, LinesIn, Rest, Done, Working
  <2> QED BY <1>4, <2>1, <2>2
<1>6. CASE BeginScan
  <2>1. /\ edition' = 0 /\ handle' = Closed /\ todo' = Opened(call)' /\ phase' = "scanning"
        /\ found' = NothingFound(call)
    BY <1>1, <1>6 DEF BeginScan, Accepted, ToolsTyped
  <2>2. Done' = << >>
    BY <2>1, NextBegins
  <2>3. found' = NoProbes
    BY <1>2, <2>1 DEF NothingFound, Grouping, ProbeCall
  <2> QED BY <2>1, <2>2, <2>3, NoRecords
<1>7. CASE OpenSource
  <2>1. Done' = Done
    BY <1>1, <1>7, OpensUnread
  <2>2. Working /\ phase' = phase /\ found' = found
    BY <1>2, <1>7 DEF OpenSource, Grouping, ProbeCall
  <2> QED BY <1>4, <2>1, <2>2 DEF Working
<1>8. CASE ScanLine
  <2>1. NextRef \in Refs /\ Done \in Seq(Refs) /\ Done' = Append(Done, NextRef)
    BY <1>1, <1>8, ScanReads
  <2>2. Working /\ phase' = phase /\ found' \in Found(handle.lines[handle.next])
    BY <1>8 DEF ScanLine
  <2>3. found' = ProbeLine(found, NextRef.ref, NextRef.line)
    BY <1>2, <2>2 DEF Found, Grouping, ProbeCall, NextRef
  <2>4. PICK d, r : d = Done /\ r = NextRef
    OBVIOUS
  <2>5. RecordsAre(ProbeLine(found, r.ref, r.line), Append(d, r))
    BY <1>4, <2>1, <2>2, <2>4, RecordsGrow
  <2> QED BY <2>1, <2>2, <2>3, <2>4, <2>5 DEF Working
<1>9. CASE CloseSource
  <2>1. Done' = Done
    BY <1>1, <1>3, <1>9, ClosesRead
  <2>2. Working /\ phase' = phase /\ found' = found
    BY <1>9 DEF CloseSource
  <2> QED BY <1>4, <2>1, <2>2 DEF Working
<1>10. CASE Answer
  <2>1. /\ Working /\ Exhausted /\ phase' = "answered" /\ answer' = Payload(call, found)
        /\ UNCHANGED <<files, call, found>>
    BY <1>10 DEF Answer
  <2>2. Done = LinesRead /\ LinesRead \in Seq(Refs)
    BY <1>1, <1>3, <2>1, ScanEnds
  <2>3. LinesRead' = LinesRead
    BY <2>1 DEF LinesRead, LinesOf, LinesIn
  <2>4. answer' = InspectProbeBlockingActivityPayload(found)
    BY <1>2, <2>1 DEF Payload, ProbeCall
  <2> QED BY <1>4, <2>1, <2>2, <2>3, <2>4 DEF Working
<1>11. ASSUME Refuse \/ SourceMissing \/ NextPage
       PROVE  ~ Working' /\ phase' # "answered"
  BY <1>11 DEF Refuse, SourceMissing, NextPage, Working
<1>12. ~ (SecondPass \/ ListLogSnapshotFiles \/ ReadLogSnapshotFile \/ GrepLogSnapshot)
  BY <1>2 DEF ProbeCall, SecondPass, ListLogSnapshotFiles, ReadLogSnapshotFile, GrepLogSnapshot
<1> QED
  BY <1>1, <1>5, <1>6, <1>7, <1>8, <1>9, <1>10, <1>11, <1>12 DEF ToolsNext

\* What the records say of an address.
LEMMA RecordsSay ==
  ASSUME NEW f, NEW d \in Seq(Refs), RecordsAre(f, d)
  PROVE  /\ {ip \in DOMAIN f.records : f.records[ip].accesses > 0} = ClientsIn(d)
         /\ {ip \in DOMAIN f.records : f.records[ip].bans > 0} = BansIn(d)
         /\ \A ip \in DOMAIN f.records :
              /\ f.records[ip].accesses = Len(Filter(Filter(d, ProbeRefs), OfClient(ip)))
              /\ f.records[ip].paths = PathsIn(d, ip)
              /\ f.records[ip].bans > 0 <=> ip \in BansIn(d)
              /\ f.records[ip].accesses > 0 <=> ip \in ClientsIn(d)
<1>1. PICK p \in Seq(Refs) : p = Filter(d, ProbeRefs) /\ ToSet(p) = ToSet(d) \intersect ProbeRefs
  BY FilterElements
<1>2. ASSUME NEW ip PROVE Len(Filter(p, OfClient(ip))) > 0 <=> ip \in ClientsIn(d)
  <2>1. PICK q \in Seq(Refs) : q = Filter(p, OfClient(ip)) /\ ToSet(q) = ToSet(p) \intersect OfClient(ip)
    BY FilterElements
  <2>2. Len(q) > 0 <=> ToSet(q) # {}
    <3>1. DOMAIN q = 1..Len(q) /\ Len(q) \in Nat
      BY LenProperties
    <3>2. ASSUME Len(q) > 0 PROVE ToSet(q) # {}
      <4>1. 1 \in DOMAIN q
        BY <3>1, <3>2
      <4> QED BY <4>1 DEF ToSet
    <3>3. ASSUME ~ (Len(q) > 0) PROVE ToSet(q) = {}
      <4>1. DOMAIN q = {}
        BY <3>1, <3>3
      <4> QED BY <4>1 DEF ToSet
    <3> QED BY <3>2, <3>3
  <2>3. ToSet(p) \intersect OfClient(ip) # {} <=> ip \in ClientsIn(d)
    BY <1>1 DEF ClientsIn, OfClient, ProbeRefs
  <2> QED BY <2>1, <2>2, <2>3
<1>3. ASSUME NEW ip \in DOMAIN f.records
      PROVE  /\ f.records[ip].accesses = Len(Filter(p, OfClient(ip)))
             /\ f.records[ip].paths = PathsIn(d, ip)
             /\ f.records[ip].bans > 0 <=> ip \in BansIn(d)
  BY <1>1 DEF RecordsAre, RecordOf
<1>4. DOMAIN f.records = BansIn(d) \union ClientsIn(d)
  BY DEF RecordsAre
<1>5. \A ip \in DOMAIN f.records : f.records[ip].accesses > 0 <=> ip \in ClientsIn(d)
  BY <1>2, <1>3
<1>6. {ip \in DOMAIN f.records : f.records[ip].accesses > 0} = ClientsIn(d)
  BY <1>4, <1>5
<1>7. {ip \in DOMAIN f.records : f.records[ip].bans > 0} = BansIn(d)
  BY <1>3, <1>4
<1> QED BY <1>1, <1>3, <1>5, <1>6, <1>7

\* ProbesAreCorrelated, of an answer a and the lines d that were read.
Correlated(a, d) ==
  LET fromBans(l) == l.ref.key = "crowdsec_runtime"
      bannedIps == {d[i].line.bans : i \in {j \in DOMAIN d : fromBans(d[j])}} \ {""}
      probes == Where(d, LAMBDA l : ~fromBans(l) /\ SensitiveProbe(l.line))
      ips == {probes[i].line.client : i \in DOMAIN probes}
  IN /\ a.ips = {[ip |-> ip, banned |-> ip \in bannedIps,
           accesses |-> Len(Where(probes, LAMBDA l : l.line.client = ip)),
           paths |-> {probes[i].line.route : i \in {j \in DOMAIN probes :
                                                    probes[j].line.client = ip}}] : ip \in ips}
     /\ {[ip |-> b.ip, context |-> b.context] : b \in a.bans}
          = {[ip |-> ip, context |-> ip \in ips] : ip \in bannedIps}

LEMMA ProbesTrue == ToolsTyped /\ ProbesInv => ProbesAreCorrelated
<1> SUFFICES ASSUME ToolsTyped, ProbesInv, Answered("inspect_probe_blocking_activity")
             PROVE  ProbesAreCorrelated
  BY DEF ProbesAreCorrelated
<1>1. /\ answer = InspectProbeBlockingActivityPayload(found)
      /\ RecordsAre(found, LinesRead) /\ LinesRead \in Seq(Refs)
  BY DEF ProbesInv, ProbeCall, Answered
<1>2. PICK d \in Seq(Refs) : d = LinesRead
  BY <1>1
<1> DEFINE fromBans(l) == l.ref.key = "crowdsec_runtime"
           banned == {d[i].line.bans : i \in {j \in DOMAIN d : fromBans(d[j])}} \ {""}
           probes == Where(d, LAMBDA l : ~fromBans(l) /\ SensitiveProbe(l.line))
           ips == {probes[i].line.client : i \in DOMAIN probes}
           ofIp(ip) == Where(probes, LAMBDA l : l.line.client = ip)
           paths(ip) == {probes[i].line.route : i \in {j \in DOMAIN probes : probes[j].line.client = ip}}
<1>3. banned = BansIn(d)
  BY DEF BansIn, ToSet, Banning
<1>4. PICK p \in Seq(Refs) : p = Filter(d, ProbeRefs) /\ ToSet(p) = ToSet(d) \intersect ProbeRefs
  BY FilterElements
<1>5. probes = p
  <2>1. ToSet(d) \subseteq Refs
    BY DEF ToSet
  <2>2. PICK S : S = {x \in ToSet(d) : ~fromBans(x) /\ SensitiveProbe(x.line)}
    OBVIOUS
  <2>3. \A x \in ToSet(d) : x \in S <=> x \in ProbeRefs
    BY <2>1, <2>2 DEF ProbeRefs, Banning
  <2>4. Filter(d, S) = Filter(d, ProbeRefs)
    BY <2>3, FilterSame
  <2> QED BY <1>4, <2>2, <2>4 DEF Where
<1> HIDE DEF probes
<1>6. ips = ClientsIn(d)
  <2>1. ips = {r.line.client : r \in ToSet(p)}
    BY <1>5 DEF ToSet
  <2> QED BY <1>4, <2>1 DEF ClientsIn
<1>7. ASSUME NEW ip PROVE ofIp(ip) = Filter(Filter(d, ProbeRefs), OfClient(ip))
  <2>1. ToSet(p) \subseteq Refs
    BY DEF ToSet
  <2>2. PICK S : S = {x \in ToSet(p) : x.line.client = ip}
    OBVIOUS
  <2>3. \A x \in ToSet(p) : x \in S <=> x \in OfClient(ip)
    BY <2>1, <2>2 DEF OfClient
  <2>4. Filter(p, S) = Filter(p, OfClient(ip))
    BY <2>3, FilterSame
  <2> QED BY <1>4, <1>5, <2>2, <2>4 DEF Where
<1>8. ASSUME NEW ip PROVE paths(ip) = PathsIn(d, ip)
  <2>1. ToSet(p) \subseteq Refs /\ ToSet(p) = {p[i] : i \in DOMAIN p}
    BY DEF ToSet
  <2>2. PathsIn(d, ip) = {r.line.route : r \in ToSet(p) \intersect OfClient(ip)}
    BY <1>4 DEF PathsIn
  <2>3. ToSet(p) \intersect OfClient(ip) = {p[i] : i \in {j \in DOMAIN p : p[j].line.client = ip}}
    BY <2>1 DEF OfClient
  <2> QED BY <1>5, <2>2, <2>3
<1>9. /\ {ip \in DOMAIN found.records : found.records[ip].accesses > 0} = ClientsIn(d)
      /\ {ip \in DOMAIN found.records : found.records[ip].bans > 0} = BansIn(d)
      /\ \A ip \in DOMAIN found.records :
           /\ found.records[ip].accesses = Len(Filter(Filter(d, ProbeRefs), OfClient(ip)))
           /\ found.records[ip].paths = PathsIn(d, ip)
           /\ found.records[ip].bans > 0 <=> ip \in BansIn(d)
           /\ found.records[ip].accesses > 0 <=> ip \in ClientsIn(d)
  BY <1>1, <1>2, RecordsSay
<1>10. ClientsIn(d) \subseteq DOMAIN found.records /\ BansIn(d) \subseteq DOMAIN found.records
  BY <1>9
<1>11. answer.ips = {[ip |-> ip, accesses |-> found.records[ip].accesses,
                      paths |-> found.records[ip].paths,
                      banned |-> found.records[ip].bans > 0] : ip \in ClientsIn(d)}
  BY <1>1, <1>9 DEF InspectProbeBlockingActivityPayload
<1>12. answer.bans = {[ip |-> ip, bans |-> found.records[ip].bans,
                       context |-> found.records[ip].accesses > 0] : ip \in BansIn(d)}
  BY <1>1, <1>9 DEF InspectProbeBlockingActivityPayload
<1> HIDE DEF banned, ips, ofIp, paths
<1>13. ASSUME NEW ip \in ClientsIn(d)
       PROVE  [ip |-> ip, accesses |-> found.records[ip].accesses, paths |-> found.records[ip].paths,
               banned |-> found.records[ip].bans > 0]
              = [ip |-> ip, banned |-> ip \in banned, accesses |-> Len(ofIp(ip)), paths |-> paths(ip)]
  <2>1. found.records[ip].accesses = Len(ofIp(ip)) /\ found.records[ip].paths = paths(ip)
    BY <1>7, <1>8, <1>9, <1>10
  <2>2. (found.records[ip].bans > 0) = (ip \in banned)
    BY <1>3, <1>9, <1>10
  <2> QED BY <2>1, <2>2
<1>14. answer.ips = {[ip |-> ip, banned |-> ip \in banned, accesses |-> Len(ofIp(ip)),
                      paths |-> paths(ip)] : ip \in ips}
  BY <1>6, <1>11, <1>13
<1>15. {[ip |-> b.ip, context |-> b.context] : b \in answer.bans}
         = {[ip |-> ip, context |-> ip \in ips] : ip \in banned}
  <2>1. {[ip |-> b.ip, context |-> b.context] : b \in answer.bans}
          = {[ip |-> ip, context |-> found.records[ip].accesses > 0] : ip \in BansIn(d)}
    <3> DEFINE ban(ip) == [ip |-> ip, bans |-> found.records[ip].bans,
                           context |-> found.records[ip].accesses > 0]
               said(b) == [ip |-> b.ip, context |-> b.context]
    <3>1. answer.bans = {ban(ip) : ip \in BansIn(d)}
      BY <1>12
    <3>2. \A ip : said(ban(ip)) = [ip |-> ip, context |-> found.records[ip].accesses > 0]
      OBVIOUS
    <3> HIDE DEF ban, said
    <3>3. {said(b) : b \in answer.bans} = {said(ban(ip)) : ip \in BansIn(d)}
      BY <3>1
    <3>4. {said(ban(ip)) : ip \in BansIn(d)}
            = {[ip |-> ip, context |-> found.records[ip].accesses > 0] : ip \in BansIn(d)}
      BY <3>2
    <3> QED BY <3>3, <3>4 DEF said
  <2>2. \A ip \in BansIn(d) : (found.records[ip].accesses > 0) = (ip \in ips)
    BY <1>6, <1>9, <1>10
  <2> QED BY <1>3, <2>1, <2>2
<1>16. PICK a : a = answer
  OBVIOUS
<1>17. Correlated(a, d)
  <2>1. /\ a.ips = {[ip |-> ip, banned |-> ip \in banned, accesses |-> Len(ofIp(ip)),
                     paths |-> paths(ip)] : ip \in ips}
        /\ {[ip |-> b.ip, context |-> b.context] : b \in a.bans}
             = {[ip |-> ip, context |-> ip \in ips] : ip \in banned}
    BY <1>14, <1>15, <1>16
  <2> QED BY <2>1 DEF Correlated, banned, ips, ofIp, paths, probes
<1>18. Correlated(answer, LinesRead)
  BY <1>2, <1>16, <1>17
<1> QED BY <1>18 DEF ProbesAreCorrelated, Correlated

-----------------------------------------------------------------------------
(* Routes, as the two passes find them.                                    *)

\* The estimates, as a set with an element for each of their units.
Units(e) == {p \in (DOMAIN e) \X (Nat \ {0}) : p[2] <= e[p[1]]}

SumsTo(e, n) == IsFiniteSet(Units(e)) /\ Cardinality(Units(e)) = n

\* Every line counted adds one to the sum of the estimates, whatever is given up.
LEMMA UnitsGrow ==
  ASSUME NEW e, \A s \in DOMAIN e : e[s] \in Nat \ {0}, NEW n \in Nat, SumsTo(e, n),
         NEW limit, NEW r, NEW f, Counts(e, f, r, limit)
  PROVE  SumsTo(f, n + 1)
<1>1. IsFiniteSet(Units(e)) /\ Cardinality(Units(e)) = n
  BY DEF SumsTo
<1>2. CASE r \in DOMAIN e
  <2>1. /\ DOMAIN f = DOMAIN e
        /\ \A s \in DOMAIN e : f[s] = IF s = r THEN e[s] + 1 ELSE e[s]
    BY <1>2 DEF Counts
  <2>2. e[r] + 1 \in Nat \ {0} /\ <<r, e[r] + 1>> \notin Units(e)
    BY <1>2 DEF Units
  <2>3. Units(f) = Units(e) \union {<<r, e[r] + 1>>}
    <3>1. ASSUME NEW p \in Units(f) PROVE p \in Units(e) \union {<<r, e[r] + 1>>}
      <4>1. p \in (DOMAIN e) \X (Nat \ {0}) /\ p[2] <= f[p[1]]
        BY <2>1 DEF Units
      <4>2. PICK s \in DOMAIN e, k \in Nat \ {0} : p = <<s, k>> /\ k <= f[s]
        BY <4>1
      <4>3. k <= e[s] \/ (s = r /\ k = e[r] + 1)
        BY <2>1, <4>2
      <4> QED BY <4>2, <4>3 DEF Units
    <3>2. ASSUME NEW p \in Units(e) PROVE p \in Units(f)
      <4>1. PICK s \in DOMAIN e, k \in Nat \ {0} : p = <<s, k>> /\ k <= e[s]
        BY DEF Units
      <4>2. k <= f[s]
        BY <2>1, <4>1
      <4> QED BY <2>1, <4>1, <4>2 DEF Units
    <3>3. <<r, e[r] + 1>> \in Units(f)
      BY <1>2, <2>1, <2>2 DEF Units
    <3> QED BY <3>1, <3>2, <3>3
  <2>4. IsFiniteSet(Units(f)) /\ Cardinality(Units(f)) = n + 1
    BY <1>1, <2>2, <2>3, FS_AddElement
  <2> QED BY <2>4 DEF SumsTo
<1>3. CASE r \notin DOMAIN e /\ f = [s \in DOMAIN e \union {r} |-> IF s = r THEN 1 ELSE e[s]]
  <2>1. /\ DOMAIN f = DOMAIN e \union {r}
        /\ \A s \in DOMAIN f : f[s] = IF s = r THEN 1 ELSE e[s]
    BY <1>3
  <2>2. <<r, 1>> \notin Units(e)
    BY <1>3 DEF Units
  <2>3. Units(f) = Units(e) \union {<<r, 1>>}
    <3>1. ASSUME NEW p \in Units(f) PROVE p \in Units(e) \union {<<r, 1>>}
      <4>1. PICK s \in DOMAIN f, k \in Nat \ {0} : p = <<s, k>> /\ k <= f[s]
        BY DEF Units
      <4>2. (s \in DOMAIN e /\ k <= e[s]) \/ (s = r /\ k = 1)
        BY <2>1, <4>1
      <4> QED BY <4>1, <4>2 DEF Units
    <3>2. ASSUME NEW p \in Units(e) PROVE p \in Units(f)
      <4>1. PICK s \in DOMAIN e, k \in Nat \ {0} : p = <<s, k>> /\ k <= e[s]
        BY DEF Units
      <4>2. s # r /\ s \in DOMAIN f /\ k <= f[s]
        BY <1>3, <2>1, <4>1
      <4> QED BY <4>1, <4>2 DEF Units
    <3>3. <<r, 1>> \in Units(f)
      BY <2>1 DEF Units
    <3> QED BY <3>1, <3>2, <3>3
  <2>4. IsFiniteSet(Units(f)) /\ Cardinality(Units(f)) = n + 1
    BY <1>1, <2>2, <2>3, FS_AddElement
  <2> QED BY <2>4 DEF SumsTo
<1>4. ASSUME r \notin DOMAIN e, NEW v \in DOMAIN e,
             f = [s \in (DOMAIN e \ {v}) \union {r} |-> IF s = r THEN e[v] + 1 ELSE e[s]]
      PROVE  SumsTo(f, n + 1)
  <2>1. /\ DOMAIN f = (DOMAIN e \ {v}) \union {r}
        /\ \A s \in DOMAIN f : f[s] = IF s = r THEN e[v] + 1 ELSE e[s]
    BY <1>4
  <2>2. r # v /\ e[v] \in Nat \ {0} /\ e[v] + 1 \in Nat \ {0}
    BY <1>4
  <2> DEFINE m == [p \in Units(e) |-> IF p[1] = v THEN <<r, p[2]>> ELSE p]
             U == Units(f) \ {<<r, e[v] + 1>>}
  <2>3. ASSUME NEW p \in Units(e) PROVE m[p] \in U
    <3>1. PICK s \in DOMAIN e, k \in Nat \ {0} : p = <<s, k>> /\ k <= e[s]
      BY DEF Units
    <3>2. CASE s = v
      <4>1. m[p] = <<r, k>> /\ k <= f[r] /\ k # e[v] + 1
        BY <2>1, <2>2, <3>1, <3>2
      <4> QED BY <2>1, <4>1 DEF Units
    <3>3. CASE s # v
      <4>1. m[p] = <<s, k>> /\ s # r /\ s \in DOMAIN f /\ k <= f[s]
        BY <1>4, <2>1, <3>1, <3>3
      <4> QED BY <4>1 DEF Units
    <3> QED BY <3>2, <3>3
  <2>4. ASSUME NEW q \in U PROVE \E p \in Units(e) : m[p] = q
    <3>1. PICK s \in DOMAIN f, k \in Nat \ {0} : q = <<s, k>> /\ k <= f[s]
      BY DEF Units
    <3>2. CASE s = r
      <4>1. k # e[v] + 1 /\ f[s] = e[v] + 1
        BY <2>1, <3>1, <3>2
      <4>2. k <= e[v]
        BY <2>2, <3>1, <4>1
      <4>3. <<v, k>> \in Units(e)
        BY <4>2 DEF Units
      <4>4. m[<<v, k>>] = q
        BY <3>1, <3>2, <4>3
      <4> QED BY <4>3, <4>4
    <3>3. CASE s # r
      <4>1. s \in DOMAIN e /\ s # v /\ k <= e[s]
        BY <2>1, <3>1, <3>3
      <4>2. q \in Units(e)
        BY <3>1, <4>1 DEF Units
      <4>3. m[q] = q
        BY <3>1, <4>1, <4>2
      <4> QED BY <4>2, <4>3
    <3> QED BY <3>2, <3>3
  <2>5. ASSUME NEW p \in Units(e), NEW q \in Units(e), m[p] = m[q] PROVE p = q
    <3>1. PICK s \in DOMAIN e, k \in Nat \ {0} : p = <<s, k>>
      BY DEF Units
    <3>2. PICK x \in DOMAIN e, j \in Nat \ {0} : q = <<x, j>>
      BY DEF Units
    <3>3. s # r /\ x # r
      BY <1>4
    <3>4. m[p] = (IF s = v THEN <<r, k>> ELSE <<s, k>>) /\ m[q] = (IF x = v THEN <<r, j>> ELSE <<x, j>>)
      BY <3>1, <3>2
    <3> QED BY <2>5, <3>1, <3>2, <3>3, <3>4
  <2>6. m \in Bijection(Units(e), U)
    <3>1. m \in [Units(e) -> U]
      BY <2>3
    <3> HIDE DEF m, U
    <3>2. m \in Injection(Units(e), U)
      BY <2>5, <3>1 DEF Injection, IsInjective
    <3>3. m \in Surjection(Units(e), U)
      BY <2>4, <3>1 DEF Surjection
    <3> QED BY <3>2, <3>3 DEF Bijection
  <2> HIDE DEF m, U
  <2>7. IsFiniteSet(U) /\ Cardinality(U) = n
    BY <1>1, <2>6, FS_Bijection DEF ExistsBijection
  <2>8. <<r, e[v] + 1>> \in Units(f) /\ <<r, e[v] + 1>> \notin U
    BY <2>1, <2>2 DEF Units, U
  <2>9. Units(f) = U \union {<<r, e[v] + 1>>}
    BY <2>8 DEF U
  <2>10. IsFiniteSet(Units(f)) /\ Cardinality(Units(f)) = n + 1
    <3>1. PICK x : x = <<r, e[v] + 1>>
      OBVIOUS
    <3>2. IsFiniteSet(U \union {x}) /\ Cardinality(U \union {x}) = Cardinality(U) + 1
      BY <2>7, <2>8, <3>1, FS_AddElement
    <3> QED BY <2>7, <2>9, <3>1, <3>2
  <2> QED BY <2>10 DEF SumsTo
<1> QED BY <1>2, <1>3, <1>4 DEF Counts

\* The least estimate, times the number of candidates, is no more than the lines counted.
LEMMA UnitsShare ==
  ASSUME NEW e, \A s \in DOMAIN e : e[s] \in Nat \ {0}, NEW n \in Nat, SumsTo(e, n),
         IsFiniteSet(DOMAIN e), NEW m \in Nat, \A s \in DOMAIN e : m <= e[s]
  PROVE  m * Cardinality(DOMAIN e) <= n
<1>1. IsFiniteSet(1..m) /\ Cardinality(1..m) = m
  BY FS_Interval
<1>2. /\ IsFiniteSet((DOMAIN e) \X (1..m))
      /\ Cardinality((DOMAIN e) \X (1..m)) = Cardinality(DOMAIN e) * m
  BY <1>1, FS_Product
<1>3. (DOMAIN e) \X (1..m) \subseteq Units(e)
  <2>1. ASSUME NEW s \in DOMAIN e, NEW k \in 1..m PROVE <<s, k>> \in Units(e)
    BY DEF Units
  <2> QED BY <2>1
<1>4. Cardinality((DOMAIN e) \X (1..m)) <= n
  BY <1>3, FS_Subset DEF SumsTo
<1>5. Cardinality(DOMAIN e) \in Nat
  BY FS_CardinalityType
<1>6. Cardinality(DOMAIN e) * m = m * Cardinality(DOMAIN e)
  BY <1>5
<1> QED BY <1>2, <1>4, <1>6

RouteRefs == {r \in Refs : HasRoute(r.line) /\ ~ HealthRequest(r.line)}

OfRoute(x) == {r \in Refs : RouteKey(r.line) = x}

Requested(d, x) == Len(Filter(Filter(d, RouteRefs), OfRoute(x)))

AllRoutes == DOMAIN NoRoutes.seen

Limit == ProxyRouteCandidateLimit(call)

\* What the first pass has counted after the lines d, with a table of some limit.
FirstPass(f, d, limit) ==
  /\ DOMAIN f = DOMAIN NoRoutes
  /\ f.statused = Len(Filter(d, RouteRefs))
  /\ f.seen \in [AllRoutes -> Nat] /\ \A x \in AllRoutes : f.seen[x] = Requested(d, x)
  /\ \A x \in DOMAIN f.table : f.table[x].count \in Nat
  /\ TableGood(Estimates(f.table), f.overflowed, f.seen, AllRoutes, limit)
  /\ SumsTo(Estimates(f.table), f.statused)
  /\ \A x \in DOMAIN f.table : f.seen[x] > 0
  /\ f.overflowed => \E x \in AllRoutes \ DOMAIN f.table : f.seen[x] > 0

LEMMA LimitIsPositive == ToolsTyped => Limit \in Nat \ {0}
<1> SUFFICES ASSUME ToolsTyped PROVE Limit \in Nat \ {0}
  OBVIOUS
<1>1. MinCandidates \in Nat \ {0} /\ Multiplier \in Nat /\ call.limit \in Int
  BY LimitsAssumption DEF ToolsTyped
<1>2. PICK n \in Int : n = call.limit * Multiplier
  BY <1>1
<1>3. Limit = IF n > MinCandidates THEN n ELSE MinCandidates
  BY <1>2 DEF Limit, ProxyRouteCandidateLimit
<1> QED BY <1>1, <1>2, <1>3

LEMMA NothingRequested == \A x : Requested(<< >>, x) = 0
BY FilterEmpty, EmptySeq DEF Requested

LEMMA FirstPassBegins ==
  ASSUME NEW limit \in Nat \ {0}
  PROVE  FirstPass(NoRoutes, << >>, limit) /\ NoRoutes.routes = Empty
<1>1. /\ NoRoutes.statused = 0 /\ NoRoutes.table = Empty /\ NoRoutes.overflowed = FALSE
      /\ NoRoutes.routes = Empty /\ NoRoutes.seen = [x \in AllRoutes |-> 0]
  BY DEF NoRoutes, AllRoutes
<1>2. DOMAIN Empty = {}
  BY DEF Empty
<1>3. PICK e : e = Estimates(NoRoutes.table)
  OBVIOUS
<1>4. DOMAIN e = {}
  BY <1>1, <1>2, <1>3 DEF Estimates
<1>5. IsFiniteSet(DOMAIN e) /\ Cardinality(DOMAIN e) = 0
  BY <1>4, FS_EmptySet
<1>6. e \in [DOMAIN e -> Nat \ {0}]
  <2>1. e = [x \in DOMAIN e |-> e[x]]
    BY <1>3 DEF Estimates
  <2> QED BY <1>4, <2>1
<1>7. TableGood(e, FALSE, NoRoutes.seen, AllRoutes, limit)
  BY <1>1, <1>4, <1>5, <1>6 DEF TableGood
<1>8. SumsTo(e, 0)
  <2>1. Units(e) = {}
    BY <1>4 DEF Units
  <2> QED BY <2>1, FS_EmptySet DEF SumsTo
<1>9. Filter(<< >>, RouteRefs) = << >> /\ Len(<< >>) = 0
  BY FilterEmpty, EmptySeq
<1>10. \A x \in AllRoutes : NoRoutes.seen[x] = Requested(<< >>, x) /\ NoRoutes.seen[x] \in Nat
  BY <1>1, NothingRequested
<1> QED
  BY <1>1, <1>2, <1>3, <1>7, <1>8, <1>9, <1>10 DEF FirstPass

\* One more line, of a route or not.
LEMMA RequestedGrows ==
  ASSUME NEW d \in Seq(Refs), NEW r \in Refs
  PROVE  /\ Len(Filter(Append(d, r), RouteRefs)) = Len(Filter(d, RouteRefs)) + (IF r \in RouteRefs THEN 1 ELSE 0)
         /\ Len(Filter(d, RouteRefs)) \in Nat
         /\ \A x : /\ Requested(d, x) \in Nat
                   /\ Requested(Append(d, r), x) =
                        IF r \in RouteRefs /\ x = RouteKey(r.line) THEN Requested(d, x) + 1 ELSE Requested(d, x)
<1>1. PICK p \in Seq(Refs) : p = Filter(d, RouteRefs)
  BY FilterElements
<1>2. Filter(Append(d, r), RouteRefs) = IF r \in RouteRefs THEN Append(p, r) ELSE p
  BY <1>1, FilterAppend
<1>3. Len(Append(p, r)) = Len(p) + 1 /\ Len(p) \in Nat
  BY AppendProperties, LenProperties
<1>4. ASSUME NEW x
      PROVE  /\ Requested(d, x) \in Nat
             /\ Requested(Append(d, r), x) =
                  IF r \in RouteRefs /\ x = RouteKey(r.line) THEN Requested(d, x) + 1 ELSE Requested(d, x)
  <2>1. PICK q \in Seq(Refs) : q = Filter(p, OfRoute(x))
    BY FilterElements
  <2>2. Requested(d, x) = Len(q) /\ Len(q) \in Nat
    BY <1>1, <2>1, LenProperties DEF Requested
  <2>3. r \in OfRoute(x) <=> x = RouteKey(r.line)
    BY DEF OfRoute
  <2>4. Filter(Append(p, r), OfRoute(x)) = IF x = RouteKey(r.line) THEN Append(q, r) ELSE q
    BY <2>1, <2>3, FilterAppend
  <2>5. Len(Append(q, r)) = Len(q) + 1
    BY AppendProperties
  <2>6. CASE r \in RouteRefs
    <3>1. Requested(Append(d, r), x) = Len(Filter(Append(p, r), OfRoute(x)))
      BY <1>2, <2>6 DEF Requested
    <3> QED BY <2>2, <2>4, <2>5, <2>6, <3>1
  <2>7. CASE r \notin RouteRefs
    BY <1>1, <1>2, <2>2, <2>7 DEF Requested
  <2> QED BY <2>6, <2>7
<1>5. /\ Len(Filter(Append(d, r), RouteRefs)) = Len(p) + (IF r \in RouteRefs THEN 1 ELSE 0)
  BY <1>2, <1>3
<1> QED BY <1>1, <1>3, <1>4, <1>5

\* What a line leaves of the counts.
LEMMA CandidateLineIs ==
  ASSUME NEW f, DOMAIN f = DOMAIN NoRoutes, NEW r \in Refs, NEW g \in CandidateLine(f, r.line)
  PROVE  /\ DOMAIN g = DOMAIN NoRoutes /\ g.routes = f.routes
         /\ r \notin RouteRefs => g.statused = f.statused /\ g.table = f.table
                                  /\ g.overflowed = f.overflowed /\ g.seen = f.seen
         /\ r \in RouteRefs =>
              /\ g.statused = f.statused + 1
              /\ g.table \in Recorded(f.table, RouteKey(r.line), UpstreamError(r.line), Limit)
              /\ g.overflowed = (f.overflowed \/ Displaced(f.table, RouteKey(r.line), Limit))
              /\ g.seen = [f.seen EXCEPT ![RouteKey(r.line)] = @ + 1]
BY ZenonT(30) DEF CandidateLine, NoRoutes, RouteRefs, HasRoute, Limit

LEMMA RefRoute ==
  ASSUME NEW r \in Refs PROVE RouteKey(r.line) \in AllRoutes
<1>1. PICK b \in Bodies : r.line \in ToSet(b)
  BY DEF Refs
<1>2. r.line \in Lines
  BY <1>1 DEF Lines, ToSet, Range
<1>3. AllRoutes = {RouteKey(l) : l \in Lines}
  BY DEF AllRoutes, NoRoutes
<1> QED BY <1>2, <1>3

LEMMA FirstPassGrows ==
  ASSUME ToolsTyped, NEW f, NEW d \in Seq(Refs), NEW r \in Refs, FirstPass(f, d, Limit),
         NEW g \in CandidateLine(f, r.line)
  PROVE  FirstPass(g, Append(d, r), Limit)
<1>1. /\ DOMAIN f = DOMAIN NoRoutes /\ f.statused = Len(Filter(d, RouteRefs))
      /\ f.seen \in [AllRoutes -> Nat] /\ \A x \in AllRoutes : f.seen[x] = Requested(d, x)
      /\ \A x \in DOMAIN f.table : f.table[x].count \in Nat
      /\ TableGood(Estimates(f.table), f.overflowed, f.seen, AllRoutes, Limit)
      /\ SumsTo(Estimates(f.table), f.statused)
      /\ \A x \in DOMAIN f.table : f.seen[x] > 0
      /\ f.overflowed => \E x \in AllRoutes \ DOMAIN f.table : f.seen[x] > 0
  BY DEF FirstPass
<1>2. DOMAIN g = DOMAIN NoRoutes
  BY <1>1 DEF CandidateLine, NoRoutes
<1>3. /\ Len(Filter(Append(d, r), RouteRefs)) = f.statused + (IF r \in RouteRefs THEN 1 ELSE 0)
      /\ f.statused \in Nat
      /\ \A x : /\ Requested(d, x) \in Nat
                /\ Requested(Append(d, r), x) =
                     IF r \in RouteRefs /\ x = RouteKey(r.line) THEN Requested(d, x) + 1 ELSE Requested(d, x)
  BY <1>1, RequestedGrows
<1>4. CASE r \notin RouteRefs
  <2>1. g.statused = f.statused /\ g.table = f.table /\ g.overflowed = f.overflowed /\ g.seen = f.seen
    BY <1>1, <1>4, CandidateLineIs
  <2>2. g.statused = Len(Filter(Append(d, r), RouteRefs))
    BY <1>3, <1>4, <2>1
  <2>3. \A x \in AllRoutes : g.seen[x] = Requested(Append(d, r), x)
    BY <1>1, <1>3, <1>4, <2>1
  <2> QED BY <1>1, <1>2, <2>1, <2>2, <2>3 DEF FirstPass
<1>5. CASE r \in RouteRefs
  <2>1. PICK k \in AllRoutes : k = RouteKey(r.line)
    BY RefRoute
  <2>2. PICK up : up = UpstreamError(r.line)
    OBVIOUS
  <2>3. PICK limit \in Nat \ {0} : limit = Limit
    BY LimitIsPositive
  <2>4. PICK t, u : t = f.table /\ u = g.table
    OBVIOUS
  <2>5. PICK over, sn : over = f.overflowed /\ sn = f.seen
    OBVIOUS
  <2>6. /\ g.statused = f.statused + 1 /\ u \in Recorded(t, k, up, limit)
        /\ g.overflowed = (over \/ Displaced(t, k, limit)) /\ g.seen = [sn EXCEPT ![k] = @ + 1]
    BY <1>1, <1>5, <2>1, <2>2, <2>3, <2>4, <2>5, CandidateLineIs
  <2>7. \A s \in DOMAIN t : t[s].count \in Nat
    BY <1>1, <2>4
  <2>8. /\ \A s \in DOMAIN u : u[s].count \in Nat
        /\ Counts(Estimates(t), Estimates(u), k, limit)
        /\ Displaced(t, k, limit) <=> k \notin DOMAIN t /\ ~ (Cardinality(DOMAIN t) < limit)
    BY <2>6, <2>7, RecordingEstimates
  <2>9. PICK e, h : e = Estimates(t) /\ h = Estimates(u)
    OBVIOUS
  <2>10. DOMAIN e = DOMAIN t /\ DOMAIN h = DOMAIN u
    BY <2>9 DEF Estimates
  <2>11. TableGood(e, over, sn, AllRoutes, limit) /\ SumsTo(e, f.statused)
    BY <1>1, <2>3, <2>4, <2>5, <2>9
  <2>12. over \in BOOLEAN /\ \A s \in DOMAIN e : e[s] \in Nat \ {0}
    BY <2>11 DEF TableGood
  <2>13. g.overflowed = (over \/ (k \notin DOMAIN e /\ ~ (Cardinality(DOMAIN e) < limit)))
    BY <2>6, <2>8, <2>10, <2>12
  <2>14. TableGood(h, g.overflowed, g.seen, AllRoutes, limit)
    <3>1. PICK o, R : o = g.overflowed /\ R = AllRoutes
      OBVIOUS
    <3>2. o = (over \/ (k \notin DOMAIN e /\ ~ (Cardinality(DOMAIN e) < limit)))
      BY <2>13, <3>1
    <3>3. Counts(e, h, k, limit) /\ TableGood(e, over, sn, R, limit) /\ k \in R
      BY <2>1, <2>8, <2>9, <2>11, <3>1
    <3>4. TableGood(h, o, [sn EXCEPT ![k] = @ + 1], R, limit)
      BY <3>2, <3>3, TableKeeps
    <3> QED BY <2>6, <3>1, <3>4
  <2>15. PICK n \in Nat : n = f.statused
    BY <1>3
  <2>16. SumsTo(h, n + 1)
    BY <2>8, <2>9, <2>11, <2>12, <2>15, UnitsGrow
  <2>17. g.seen \in [AllRoutes -> Nat] /\ \A x \in AllRoutes : g.seen[x] = IF x = k THEN sn[x] + 1 ELSE sn[x]
    BY <1>1, <2>5, <2>6
  <2>18. \A x \in AllRoutes : g.seen[x] = Requested(Append(d, r), x)
    BY <1>1, <1>3, <1>5, <2>1, <2>5, <2>17
  <2>19. \A x \in AllRoutes : sn[x] \in Nat /\ (sn[x] > 0 => g.seen[x] > 0)
    BY <1>1, <2>5, <2>17
  <2>20. g.seen[k] > 0
    BY <2>17, <2>19
  <2>21. DOMAIN e \subseteq AllRoutes
    BY <2>11 DEF TableGood
  <2>22. DOMAIN h \subseteq DOMAIN e \union {k}
    BY <2>8, <2>9 DEF Counts
  <2>23. \A x \in DOMAIN u : g.seen[x] > 0
    BY <1>1, <2>4, <2>5, <2>10, <2>19, <2>20, <2>21, <2>22
  <2>24. ASSUME g.overflowed PROVE \E x \in AllRoutes \ DOMAIN u : g.seen[x] > 0
    <3>1. CASE Cardinality(DOMAIN e) < limit
      <4>1. over
        BY <2>13, <2>24, <3>1
      <4> QED BY <2>3, <2>11, <3>1, <4>1 DEF TableGood
    <3>2. CASE ~ (Cardinality(DOMAIN e) < limit) /\ k \in DOMAIN e
      <4>1. over /\ DOMAIN h = DOMAIN e
        BY <2>8, <2>9, <2>13, <2>24, <3>2 DEF Counts
      <4>2. PICK x \in AllRoutes \ DOMAIN t : sn[x] > 0
        BY <1>1, <2>4, <2>5, <4>1
      <4> QED BY <2>10, <2>19, <4>1, <4>2
    <3>3. CASE ~ (Cardinality(DOMAIN e) < limit) /\ k \notin DOMAIN e
      <4>1. PICK v \in DOMAIN e : DOMAIN h = (DOMAIN e \ {v}) \union {k}
        BY <2>8, <2>9, <3>3 DEF Counts
      <4>2. v # k /\ v \notin DOMAIN u /\ v \in AllRoutes
        BY <2>10, <2>21, <3>3, <4>1
      <4>3. sn[v] > 0
        BY <1>1, <2>4, <2>5, <2>10
      <4> QED BY <2>19, <4>2, <4>3
    <3> QED BY <3>1, <3>2, <3>3
  <2>25. g.statused = n + 1 /\ g.statused = Len(Filter(Append(d, r), RouteRefs))
    BY <1>3, <1>5, <2>6, <2>15
  <2> QED
    BY <1>2, <2>3, <2>4, <2>8, <2>9, <2>14, <2>16, <2>17, <2>18, <2>23, <2>24, <2>25 DEF FirstPass
<1> QED BY <1>4, <1>5

\* The routes that the lines d ask for.
RoutesIn(d) == {RouteKey(r.line) : r \in ToSet(d) \intersect RouteRefs}

LEMMA RequestedIs ==
  ASSUME NEW d \in Seq(Refs), NEW x
  PROVE  /\ Requested(d, x) \in Nat
         /\ Requested(d, x) > 0 <=> x \in RoutesIn(d)
<1>1. PICK p \in Seq(Refs) : p = Filter(d, RouteRefs) /\ ToSet(p) = ToSet(d) \intersect RouteRefs
  BY FilterElements
<1>2. PICK q \in Seq(Refs) : q = Filter(p, OfRoute(x)) /\ ToSet(q) = ToSet(p) \intersect OfRoute(x)
  BY FilterElements
<1>3. Requested(d, x) = Len(q) /\ Len(q) \in Nat /\ DOMAIN q = 1..Len(q)
  BY <1>1, <1>2, LenProperties DEF Requested
<1>4. ToSet(q) # {} <=> x \in RoutesIn(d)
  BY <1>1, <1>2 DEF RoutesIn, OfRoute, RouteRefs
<1>5. CASE Len(q) > 0
  <2>1. 1 \in DOMAIN q
    BY <1>3, <1>5
  <2>2. ToSet(q) # {}
    BY <2>1 DEF ToSet
  <2> QED BY <1>3, <1>4, <1>5, <2>2
<1>6. CASE ~ (Len(q) > 0)
  <2>1. DOMAIN q = {}
    BY <1>3, <1>6
  <2>2. ToSet(q) = {}
    BY <2>1 DEF ToSet
  <2> QED BY <1>3, <1>4, <1>6, <2>2
<1> QED BY <1>5, <1>6

\* What the second pass has counted after the lines d.
SecondPassed(f, d) ==
  /\ DOMAIN f.routes = {x \in DOMAIN f.table : Requested(d, x) > 0}
  /\ \A x \in DOMAIN f.routes : f.routes[x].count = Requested(d, x)
  /\ \A x \in DOMAIN f.routes : DOMAIN f.routes[x] = DOMAIN NewRoute

LEMMA SecondPassBegins ==
  ASSUME NEW f, f.routes = Empty PROVE SecondPassed(f, << >>)
<1>1. DOMAIN f.routes = {}
  BY DEF Empty
<1>2. \A x : ~ (Requested(<< >>, x) > 0)
  BY NothingRequested
<1> QED BY <1>1, <1>2 DEF SecondPassed

\* A health check asks for no route that other requests ask for.
LEMMA RouteOrHealth ==
  ASSUME NEW d \in Seq(Refs), NEW r \in Refs, HasRoute(r.line), RouteKey(r.line) \in RoutesIn(d)
  PROVE  r \in RouteRefs
<1>1. PICK s \in RouteRefs : RouteKey(r.line) = RouteKey(s.line)
  BY DEF RoutesIn
<1>2. r.line.route = s.line.route /\ r.line.status = s.line.status
  BY <1>1 DEF RouteKey
<1> QED BY <1>1, <1>2 DEF RouteRefs, HealthRequest

LEMMA SecondPassGrows ==
  ASSUME NEW f, DOMAIN f = DOMAIN NoRoutes, NEW d \in Seq(Refs), NEW r \in Refs, SecondPassed(f, d),
         NEW all \in Seq(Refs), \A x \in DOMAIN f.table : x \in RoutesIn(all),
         NEW g, g = RouteLine(f, r.ref, r.line)
  PROVE  /\ SecondPassed(g, Append(d, r))
         /\ DOMAIN g = DOMAIN f /\ g.statused = f.statused /\ g.table = f.table
         /\ g.overflowed = f.overflowed /\ g.seen = f.seen
<1>1. /\ DOMAIN f.routes = {x \in DOMAIN f.table : Requested(d, x) > 0}
      /\ \A x \in DOMAIN f.routes : f.routes[x].count = Requested(d, x) /\ DOMAIN f.routes[x] = DOMAIN NewRoute
  BY DEF SecondPassed
<1>2. \A x : /\ Requested(d, x) \in Nat
             /\ Requested(Append(d, r), x) =
                  IF r \in RouteRefs /\ x = RouteKey(r.line) THEN Requested(d, x) + 1 ELSE Requested(d, x)
  BY RequestedGrows
<1>3. PICK k : k = RouteKey(r.line)
  OBVIOUS
<1>4. CASE ~ (HasRoute(r.line) /\ k \in DOMAIN f.table)
  <2>1. g = f
    BY <1>3, <1>4 DEF RouteLine
  <2>2. \A x \in DOMAIN f.table : Requested(Append(d, r), x) = Requested(d, x)
    BY <1>2, <1>3, <1>4 DEF RouteRefs
  <2>3. SecondPassed(f, Append(d, r))
    BY <1>1, <2>2 DEF SecondPassed
  <2> QED BY <2>1, <2>3
<1>5. CASE HasRoute(r.line) /\ k \in DOMAIN f.table
  <2>1. r \in RouteRefs
    BY <1>3, <1>5, RouteOrHealth
  <2>2. PICK route : route = IF k \in DOMAIN f.routes THEN f.routes[k] ELSE NewRoute
    OBVIOUS
  <2>3. PICK more : more = AddRouteEvent(route, r.ref, r.line)
    OBVIOUS
  <2>4. g = [f EXCEPT !.routes = With(f.routes, k, more)]
    BY <1>3, <1>5, <2>2, <2>3 DEF RouteLine
  <2>5. /\ DOMAIN g = DOMAIN f /\ g.statused = f.statused /\ g.table = f.table
        /\ g.overflowed = f.overflowed /\ g.seen = f.seen /\ g.routes = With(f.routes, k, more)
    BY <2>4 DEF NoRoutes
  <2>6. DOMAIN route = DOMAIN NewRoute /\ route.count = Requested(d, k)
    <3>1. CASE k \in DOMAIN f.routes
      BY <1>1, <2>2, <3>1
    <3>2. CASE k \notin DOMAIN f.routes
      <4>1. Requested(d, k) = 0
        BY <1>1, <1>2, <1>5, <3>2
      <4>2. NewRoute.count = 0
        BY DEF NewRoute
      <4> QED BY <2>2, <3>2, <4>1, <4>2
    <3> QED BY <3>1, <3>2
  <2>7. DOMAIN more = DOMAIN NewRoute /\ more.count = Requested(d, k) + 1
    BY <2>3, <2>6 DEF AddRouteEvent, NewRoute
  <2>8. /\ DOMAIN g.routes = DOMAIN f.routes \union {k}
        /\ g.routes[k] = more
        /\ \A x \in DOMAIN f.routes \ {k} : g.routes[x] = f.routes[x]
    BY <2>5 DEF With
  <2>9. /\ Requested(Append(d, r), k) = Requested(d, k) + 1
        /\ \A x : x # k => Requested(Append(d, r), x) = Requested(d, x)
    BY <1>2, <1>3, <2>1
  <2>10. DOMAIN g.routes = {x \in DOMAIN g.table : Requested(Append(d, r), x) > 0}
    <3>1. Requested(Append(d, r), k) > 0
      BY <1>2, <2>9
    <3> QED BY <1>1, <1>5, <2>5, <2>8, <2>9, <3>1
  <2>11. \A x \in DOMAIN g.routes : g.routes[x].count = Requested(Append(d, r), x)
                                    /\ DOMAIN g.routes[x] = DOMAIN NewRoute
    BY <1>1, <2>7, <2>8, <2>9
  <2> QED BY <2>5, <2>10, <2>11 DEF SecondPassed
<1> QED BY <1>4, <1>5

ProxyCall == call.op = "inspect_proxy_activity" /\ edition = 0

RoutesFound ==
  ProxyCall =>
    /\ phase \in {"scanning", "rescanning", "answered"} => call.limit \in 1..MaxWindow
    /\ phase = "scanning" => FirstPass(found, Done, Limit) /\ found.routes = Empty
    /\ phase = "rescanning" => /\ LinesRead \in Seq(Refs) /\ FirstPass(found, LinesRead, Limit)
                               /\ SecondPassed(found, Done)
    /\ phase = "answered" => /\ LinesRead \in Seq(Refs) /\ FirstPass(found, LinesRead, Limit)
                             /\ SecondPassed(found, LinesRead)
                             /\ answer = InspectProxyActivityPayload(call, found)

LEMMA GroupsNotRefused ==
  ASSUME NEW c, c.op \in Grouping \union {"inspect_proxy_activity"}, Refusal(c) = 0
  PROVE  c.limit \in 1..MaxWindow /\ ~ (c.offset < 0)
<1>1. Checks(c) = SnapshotChecks(c) \o GroupWindow(c) \o KeyChecks(c) \o FoundKeys(c)
  BY DEF Checks, Grouping
<1>2. /\ Len(Checks(c)) = 5
      /\ Checks(c)[2] = GroupWindow(c)[1]
      /\ Checks(c)[3] = GroupWindow(c)[2]
  BY <1>1 DEF SnapshotChecks, GroupWindow, KeyChecks, FoundKeys
<1>3. Refusal(c) = 0 <=> \A i \in 1..5 : ~ Checks(c)[i][2]
  BY <1>2, NotRefused
<1>4. ~ Checks(c)[2][2] /\ ~ Checks(c)[3][2]
  BY <1>3
<1>5. Checks(c)[2][2] <=> c.limit \notin 1..MaxWindow
  BY ZenonT(30), <1>2, FailsIff DEF GroupWindow
<1>6. Checks(c)[3][2] = (c.offset < 0)
  <2>1. PICK code, b : code = "invalid_group_offset" /\ b = (c.offset < 0)
    OBVIOUS
  <2>2. GroupWindow(c)[2] = <<code, b>>
    BY <2>1 DEF GroupWindow, Fails
  <2> QED BY <1>2, <2>1, <2>2
<1> QED BY <1>4, <1>5, <1>6

LEMMA RoutesFoundInitial == ToolsInit => RoutesFound
BY DEF ToolsInit, RoutesFound

LEMMA TableAsked ==
  ASSUME NEW f, NEW d \in Seq(Refs), NEW limit, FirstPass(f, d, limit)
  PROVE  \A x \in DOMAIN f.table : x \in RoutesIn(d)
<1>1. DOMAIN Estimates(f.table) = DOMAIN f.table
  BY DEF Estimates
<1>2. /\ DOMAIN f.table \subseteq AllRoutes
      /\ \A x \in AllRoutes : f.seen[x] = Requested(d, x)
      /\ \A x \in DOMAIN f.table : f.seen[x] > 0
  BY <1>1 DEF FirstPass, TableGood
<1> QED BY <1>2, RequestedIs

LEMMA RoutesFoundStep ==
  ASSUME ToolsTyped, ToolsTyped', CursorInv, CursorInv', RoutesFound, [ToolsNext]_vars
  PROVE  RoutesFound'
<1> SUFFICES ASSUME ProxyCall'
             PROVE  /\ phase' \in {"scanning", "rescanning", "answered"} => call'.limit \in 1..MaxWindow
                    /\ phase' = "scanning" => FirstPass(found', Done', Limit') /\ found'.routes = Empty
                    /\ phase' = "rescanning" =>
                         /\ LinesRead' \in Seq(Refs) /\ FirstPass(found', LinesRead', Limit')
                         /\ SecondPassed(found', Done')
                    /\ phase' = "answered" =>
                         /\ LinesRead' \in Seq(Refs) /\ FirstPass(found', LinesRead', Limit')
                         /\ SecondPassed(found', LinesRead')
                         /\ answer' = InspectProxyActivityPayload(call', found')
  BY DEF RoutesFound
<1>1. edition = 0 /\ ~ Recollect
  BY EditionGrows DEF ProxyCall
<1>2. call'.op = call.op /\ ProxyCall
  <2>1. SameRequest /\ "op" \in RequestFields \ {"offset"}
    BY RequestKept DEF RequestFields
  <2>2. call'["op"] = call["op"]
    BY <2>1 DEF SameRequest
  <2> QED BY <1>1, <2>2 DEF ProxyCall
<1>3. ~ Stopped
  BY <1>2 DEF ProxyCall, Stopped, Grouping
<1>4. /\ phase \in {"scanning", "rescanning", "answered"} => call.limit \in 1..MaxWindow
      /\ phase = "scanning" => FirstPass(found, Done, Limit) /\ found.routes = Empty
      /\ phase = "rescanning" => /\ LinesRead \in Seq(Refs) /\ FirstPass(found, LinesRead, Limit)
                                 /\ SecondPassed(found, Done)
      /\ phase = "answered" => /\ LinesRead \in Seq(Refs) /\ FirstPass(found, LinesRead, Limit)
                               /\ SecondPassed(found, LinesRead)
                               /\ answer = InspectProxyActivityPayload(call, found)
  BY <1>2 DEF RoutesFound
<1>5. CASE UNCHANGED vars
  <2>1. UNCHANGED <<files, call, phase, todo, handle, found, answer>>
    BY <1>5 DEF vars
  <2>2. UNCHANGED <<LinesRead, Done, Limit>>
    BY <2>1 DEF LinesRead, LinesOf, LinesIn, Rest, Done, Limit
  <2> QED BY <1>4, <2>1, <2>2
<1>6. CASE BeginScan
  <2>1. /\ edition' = 0 /\ handle' = Closed /\ todo' = Opened(call)' /\ phase' = "scanning"
        /\ found' = NothingFound(call) /\ call' = call /\ Refusal(call) = 0
    BY <1>1, <1>6 DEF BeginScan, Accepted, ToolsTyped
  <2>2. Done' = << >>
    BY <2>1, NextBegins
  <2>3. found' = NoRoutes
    BY <1>2, <2>1 DEF NothingFound, Grouping, ProxyCall
  <2>4. Limit' = Limit /\ Limit \in Nat \ {0}
    BY <2>1, LimitIsPositive DEF Limit
  <2>5. FirstPass(NoRoutes, << >>, Limit) /\ NoRoutes.routes = Empty
    BY <2>4, FirstPassBegins
  <2>6. call.limit \in 1..MaxWindow
    BY <1>2, <2>1, GroupsNotRefused DEF ProxyCall
  <2> QED BY <2>1, <2>2, <2>3, <2>4, <2>5, <2>6
<1>7. CASE OpenSource
  <2>1. Done' = Done /\ LinesRead' = LinesRead
    BY <1>1, <1>7, OpensUnread
  <2>2. Working /\ phase' = phase /\ found' = found /\ call' = call
    BY <1>2, <1>7 DEF OpenSource, Grouping, ProxyCall
  <2>3. Limit' = Limit
    BY <2>2 DEF Limit
  <2> QED BY <1>4, <2>1, <2>2, <2>3 DEF Working
<1>8. CASE ScanLine
  <2>1. NextRef \in Refs /\ Done \in Seq(Refs) /\ Done' = Append(Done, NextRef) /\ LinesRead' = LinesRead
    BY <1>1, <1>8, ScanReads
  <2>2. /\ Working /\ phase' = phase /\ call' = call
        /\ found' \in Found(handle.lines[handle.next])
    BY <1>8 DEF ScanLine
  <2>3. Limit' = Limit
    BY <2>2 DEF Limit
  <2>4. PICK d, r, f, g : d = Done /\ r = NextRef /\ f = found /\ g = found'
    OBVIOUS
  <2>5. CASE phase = "scanning"
    <3>1. g \in CandidateLine(f, r.line)
      BY <1>2, <2>2, <2>4, <2>5 DEF Found, Grouping, ProxyCall, NextRef
    <3>2. FirstPass(f, d, Limit) /\ f.routes = Empty
      BY <1>4, <2>4, <2>5
    <3>3. FirstPass(g, Append(d, r), Limit)
      BY <2>1, <2>4, <3>1, <3>2, FirstPassGrows
    <3>4. g.routes = f.routes
      <4>1. DOMAIN f = DOMAIN NoRoutes
        BY <3>2 DEF FirstPass
      <4> QED BY <3>1, <4>1 DEF CandidateLine, NoRoutes
    <3> QED BY <1>4, <2>1, <2>2, <2>3, <2>4, <2>5, <3>2, <3>3, <3>4
  <2>6. CASE phase = "rescanning"
    <3>1. g = RouteLine(f, r.ref, r.line)
      BY <1>2, <2>2, <2>4, <2>6 DEF Found, Grouping, ProxyCall, NextRef
    <3>2. PICK all \in Seq(Refs) : all = LinesRead
      BY <1>4, <2>6
    <3>3. FirstPass(f, all, Limit) /\ SecondPassed(f, d)
      BY <1>4, <2>4, <2>6, <3>2
    <3>4. \A x \in DOMAIN f.table : x \in RoutesIn(all)
      BY <3>3, TableAsked
    <3>5. DOMAIN f = DOMAIN NoRoutes
      BY <3>3 DEF FirstPass
    <3>6. /\ SecondPassed(g, Append(d, r))
          /\ DOMAIN g = DOMAIN f /\ g.statused = f.statused /\ g.table = f.table
          /\ g.overflowed = f.overflowed /\ g.seen = f.seen
      BY <2>1, <2>4, <3>1, <3>3, <3>4, <3>5, SecondPassGrows
    <3>7. FirstPass(g, all, Limit)
      BY <3>3, <3>6 DEF FirstPass
    <3> QED BY <1>4, <2>1, <2>2, <2>3, <2>4, <2>6, <3>2, <3>6, <3>7
  <2> QED BY <2>2, <2>5, <2>6 DEF Working
<1>9. CASE CloseSource
  <2>1. Done' = Done /\ LinesRead' = LinesRead
    BY <1>1, <1>3, <1>9, ClosesRead
  <2>2. Working /\ phase' = phase /\ found' = found /\ call' = call
    BY <1>9 DEF CloseSource
  <2>3. Limit' = Limit
    BY <2>2 DEF Limit
  <2> QED BY <1>4, <2>1, <2>2, <2>3 DEF Working
<1>10. CASE SecondPass
  <2>1. /\ phase = "scanning" /\ Exhausted /\ phase' = "rescanning" /\ todo' = Selected(call)
        /\ UNCHANGED <<files, edition, call, handle, found>>
    BY <1>10 DEF SecondPass
  <2>2. Done = LinesRead /\ LinesRead \in Seq(Refs)
    BY <1>1, <1>3, <2>1, ScanEnds DEF Working
  <2>3. LinesRead' = LinesRead /\ Limit' = Limit
    BY <2>1 DEF LinesRead, LinesOf, LinesIn, Limit
  <2>4. handle' = Closed /\ todo' = Opened(call)'
    BY <1>2, <2>1, ProxyOpensAll DEF ProxyCall, Exhausted
  <2>5. Done' = << >>
    BY <1>1, <2>1, <2>4, NextBegins
  <2>6. FirstPass(found, Done, Limit) /\ found.routes = Empty
    BY <1>4, <2>1
  <2>7. SecondPassed(found, << >>)
    BY <2>6, SecondPassBegins
  <2> QED BY <1>4, <2>1, <2>2, <2>3, <2>5, <2>6, <2>7
<1>11. CASE Answer
  <2>1. /\ phase = "rescanning" /\ Exhausted /\ phase' = "answered" /\ answer' = Payload(call, found)
        /\ UNCHANGED <<files, call, found>>
    BY <1>2, <1>11 DEF Answer, ProxyCall
  <2>2. Done = LinesRead /\ LinesRead \in Seq(Refs)
    BY <1>1, <1>3, <2>1, ScanEnds DEF Working
  <2>3. LinesRead' = LinesRead /\ Limit' = Limit
    BY <2>1 DEF LinesRead, LinesOf, LinesIn, Limit
  <2>4. answer' = InspectProxyActivityPayload(call, found)
    BY <1>2, <2>1 DEF Payload, ProxyCall
  <2> QED BY <1>4, <2>1, <2>2, <2>3, <2>4
<1>12. ASSUME Refuse \/ SourceMissing \/ NextPage
       PROVE  phase' \notin {"scanning", "rescanning", "answered"}
  BY <1>12 DEF Refuse, SourceMissing, NextPage
<1>13. ~ (ListLogSnapshotFiles \/ ReadLogSnapshotFile \/ GrepLogSnapshot)
  BY <1>2 DEF ProxyCall, ListLogSnapshotFiles, ReadLogSnapshotFile, GrepLogSnapshot
<1> QED
  BY <1>1, <1>5, <1>6, <1>7, <1>8, <1>9, <1>10, <1>11, <1>12, <1>13 DEF ToolsNext

LEMMA RoutesTold ==
  \A x, y \in AllRoutes : OrderOf(x) \in Nat /\ (OrderOf(x) = OrderOf(y) => x = y)
<1>1. AllRoutes = {RouteKey(l) : l \in Lines}
  BY DEF AllRoutes, NoRoutes
<1> QED BY <1>1, OrderAssumption

\* The order of an answer's routes never puts a rarer one first.
LEMMA RoutesSorted ==
  ASSUME NEW R, IsFiniteSet(DOMAIN R), DOMAIN R \subseteq AllRoutes,
         \A x \in DOMAIN R : x[2] \in Int /\ R[x].count \in Nat
  PROVE  /\ RouteSort(R) \in SetToSeqs(DOMAIN R)
         /\ \A i, j \in DOMAIN RouteSort(R) :
              i < j => R[RouteSort(R)[i]].count >= R[RouteSort(R)[j]].count
<1> DEFINE S == DOMAIN R
           e == [x \in S |-> -(R[x].count)]
           f == [x \in S |-> IF UpstreamErrorRoute(x, R[x]) THEN 0 ELSE 1]
           g == [x \in S |-> -(x[2])]
           h == [x \in S |-> OrderOf(x)]
<1>1. \A x \in S : /\ R[x].count \in Nat /\ x[2] \in Int /\ OrderOf(x) \in Nat
                   /\ \A y \in S : OrderOf(x) = OrderOf(y) => x = y
  BY RoutesTold
<1>2. e \in [S -> Int] /\ f \in [S -> Int] /\ g \in [S -> Int] /\ h \in [S -> Int]
  BY <1>1
<1>3. \A x \in S : e[x] = -(R[x].count) /\ g[x] = -(x[2]) /\ h[x] = OrderOf(x)
                   /\ f[x] = IF UpstreamErrorRoute(x, R[x]) THEN 0 ELSE 1
  OBVIOUS
<1> HIDE DEF e, f, g, h
<1>4. StrictOrder(ByKeys(S, e, f, g, h), S)
  BY SMTT(30), <1>1, <1>2, <1>3, KeysOrder
<1>5. PICK s \in SetToSeqs(S) : \A i, j \in DOMAIN s : i < j => <<s[i], s[j]>> \in ByKeys(S, e, f, g, h)
  BY <1>4, CanBeSorted
<1> DEFINE Before(a, b) ==
             \/ R[a].count > R[b].count
             \/ /\ R[a].count = R[b].count
                /\ \/ UpstreamErrorRoute(a, R[a]) /\ ~ UpstreamErrorRoute(b, R[b])
                   \/ UpstreamErrorRoute(a, R[a]) = UpstreamErrorRoute(b, R[b]) /\ a[2] > b[2]
                   \/ UpstreamErrorRoute(a, R[a]) = UpstreamErrorRoute(b, R[b]) /\ a[2] = b[2]
                      /\ FingerprintBefore(a, b)
<1>6. ASSUME NEW a \in S, NEW b \in S, <<a, b>> \in ByKeys(S, e, f, g, h) PROVE Before(a, b)
  <2>1. UpstreamErrorRoute(a, R[a]) \in BOOLEAN /\ UpstreamErrorRoute(b, R[b]) \in BOOLEAN
    BY DEF UpstreamErrorRoute
  <2>2. \/ e[a] < e[b]
        \/ e[a] = e[b] /\ f[a] < f[b]
        \/ e[a] = e[b] /\ f[a] = f[b] /\ g[a] < g[b]
        \/ e[a] = e[b] /\ f[a] = f[b] /\ g[a] = g[b] /\ h[a] < h[b]
    BY <1>6 DEF ByKeys
  <2>3. /\ e[a] < e[b] => R[a].count > R[b].count
        /\ e[a] = e[b] => R[a].count = R[b].count
        /\ g[a] < g[b] => a[2] > b[2]
        /\ g[a] = g[b] => a[2] = b[2]
        /\ h[a] < h[b] => FingerprintBefore(a, b)
    BY <1>1, <1>3 DEF FingerprintBefore
  <2>4. /\ f[a] < f[b] => UpstreamErrorRoute(a, R[a]) /\ ~ UpstreamErrorRoute(b, R[b])
        /\ f[a] = f[b] => UpstreamErrorRoute(a, R[a]) = UpstreamErrorRoute(b, R[b])
    <3>1. f[a] = (IF UpstreamErrorRoute(a, R[a]) THEN 0 ELSE 1) /\ f[b] = (IF UpstreamErrorRoute(b, R[b]) THEN 0 ELSE 1)
      BY <1>3
    <3> QED BY <2>1, <3>1
  <2> QED BY <2>2, <2>3, <2>4
<1>7. \A i \in DOMAIN s : s[i] \in S
  <2>1. s \in Seq(S)
    BY SetToSeqsElements
  <2> QED BY <2>1
<1>8. \A i, j \in DOMAIN s : i < j => Before(s[i], s[j])
  BY <1>5, <1>6, <1>7
<1> DEFINE Good(t) == t \in SetToSeqs(S) /\ \A i, j \in DOMAIN t : i < j => Before(t[i], t[j])
<1>9. RouteSort(R) = CHOOSE t : Good(t)
  BY DEF RouteSort, SortedBy
<1>10. Good(RouteSort(R))
  <2>1. Good(s)
    BY <1>8
  <2> HIDE DEF Good
  <2> QED BY <1>9, <2>1
<1>11. \A i \in DOMAIN RouteSort(R) : RouteSort(R)[i] \in S
  <2>1. RouteSort(R) \in Seq(S)
    BY <1>10, SetToSeqsElements
  <2> QED BY <2>1
<1>12. \A a, b \in S : Before(a, b) => R[a].count >= R[b].count
  OBVIOUS
<1> QED BY <1>10, <1>11, <1>12

LEMMA FinitelyMany ==
  ASSUME NEW d \in Seq(Refs) PROVE IsFiniteSet(RoutesIn(d))
<1>1. PICK n \in Nat : n = Len(d) /\ DOMAIN d = 1..n
  BY LenProperties
<1>2. IsFiniteSet(1..n)
  BY <1>1, FS_Interval
<1> DEFINE m == [i \in 1..n |-> RouteKey(d[i].line)]
           X == {m[i] : i \in 1..n}
<1>3. m \in Surjection(1..n, X)
  BY DEF Surjection
<1>4. IsFiniteSet(X)
  BY <1>2, <1>3, FS_Surjection
<1>5. ToSet(d) = {d[i] : i \in 1..n}
  BY <1>1 DEF ToSet
<1>6. RoutesIn(d) \subseteq X
  BY <1>5 DEF RoutesIn
<1> QED BY <1>4, <1>6, FS_Subset

\* What the table and the counts of two passes are of the routes that were read.
TableIs(f, d, limit) ==
  /\ DOMAIN f.table \subseteq RoutesIn(d) /\ DOMAIN f.table \subseteq AllRoutes
  /\ IsFiniteSet(DOMAIN f.table)
  /\ f.overflowed \in BOOLEAN
  /\ f.overflowed => \E x \in RoutesIn(d) : x \notin DOMAIN f.table
  /\ ~ f.overflowed => RoutesIn(d) = DOMAIN f.table
  /\ \A x \in RoutesIn(d) \ DOMAIN f.table : Requested(d, x) * limit <= f.statused
  /\ DOMAIN f.routes = DOMAIN f.table
  /\ \A x \in DOMAIN f.routes : f.routes[x].count = Requested(d, x) /\ x[2] \in Int

LEMMA PassesSay ==
  ASSUME NEW f, NEW d \in Seq(Refs), NEW limit \in Nat \ {0}, FirstPass(f, d, limit), SecondPassed(f, d)
  PROVE  TableIs(f, d, limit)
<1>1. PICK e, t, over, sn : e = Estimates(f.table) /\ t = f.table /\ over = f.overflowed /\ sn = f.seen
  OBVIOUS
<1>0. PICK n \in Nat : n = f.statused
  <2>1. PICK p \in Seq(Refs) : p = Filter(d, RouteRefs)
    BY FilterElements
  <2> QED BY <2>1, LenProperties DEF FirstPass
<1>2. /\ TableGood(e, over, sn, AllRoutes, limit) /\ SumsTo(e, n)
      /\ \A x \in AllRoutes : sn[x] = Requested(d, x)
      /\ \A x \in DOMAIN t : sn[x] > 0
      /\ over => \E x \in AllRoutes \ DOMAIN t : sn[x] > 0
  BY <1>0, <1>1 DEF FirstPass
<1>3. DOMAIN e = DOMAIN t
  BY <1>1 DEF Estimates
<1>4. RoutesIn(d) \subseteq AllRoutes /\ \A x \in RoutesIn(d) : x[2] \in Int
  <2>1. ASSUME NEW r \in RouteRefs PROVE RouteKey(r.line) \in AllRoutes /\ RouteKey(r.line)[2] \in Int
    <3>1. r \in Refs /\ HasRoute(r.line)
      BY DEF RouteRefs
    <3>2. r.line.status \in 100..599
      BY <3>1 DEF HasRoute, StatusClass
    <3>3. RouteKey(r.line)[2] \in Int
      <4>1. PICK b \in 100..599 : b = r.line.status
        BY <3>2
      <4>2. RouteKey(r.line) = <<r.line.route, b>>
        BY <4>1 DEF RouteKey
      <4> QED BY <4>1, <4>2
    <3> QED BY <3>1, <3>3, RefRoute
  <2> QED BY <2>1 DEF RoutesIn
<1>5. \A x : Requested(d, x) \in Nat /\ (Requested(d, x) > 0 <=> x \in RoutesIn(d))
  BY RequestedIs
<1>6. DOMAIN t \subseteq AllRoutes /\ DOMAIN t \subseteq RoutesIn(d)
  BY <1>2, <1>3, <1>5 DEF TableGood
<1>7. over \in BOOLEAN /\ IsFiniteSet(DOMAIN t) /\ (over => Cardinality(DOMAIN e) = limit)
  BY <1>2, <1>3 DEF TableGood
<1>8. over => \E x \in RoutesIn(d) : x \notin DOMAIN t
  BY <1>2, <1>5
<1>9. ASSUME ~ over PROVE RoutesIn(d) = DOMAIN t
  <2>1. \A x \in AllRoutes \ DOMAIN t : sn[x] = 0
    BY <1>2, <1>3, <1>9 DEF TableGood
  <2>2. \A x \in RoutesIn(d) : x \in DOMAIN t
    BY <1>2, <1>4, <1>5, <2>1
  <2> QED BY <1>6, <2>2
<1>10. ASSUME NEW x \in RoutesIn(d) \ DOMAIN t PROVE Requested(d, x) * limit <= n
  <2>1. PICK m \in Nat : m = Requested(d, x)
    BY <1>5
  <2>2. m = sn[x] /\ x \in AllRoutes \ DOMAIN e
    BY <1>2, <1>3, <1>4, <2>1
  <2>3. \A s \in DOMAIN e : m <= e[s]
    BY <1>2, <2>2 DEF TableGood
  <2>4. \A s \in DOMAIN e : e[s] \in Nat \ {0}
    BY <1>2 DEF TableGood
  <2>5. over
    BY <1>9
  <2>6. m * Cardinality(DOMAIN e) <= n
    BY <1>2, <1>3, <1>7, <2>3, <2>4, UnitsShare
  <2> QED BY <1>7, <2>1, <2>5, <2>6
<1>11. DOMAIN f.routes = DOMAIN t
  BY <1>1, <1>5, <1>6 DEF SecondPassed
<1>12. \A x \in DOMAIN f.routes : f.routes[x].count = Requested(d, x) /\ x[2] \in Int
  BY <1>4, <1>6, <1>11 DEF SecondPassed
<1> QED BY <1>0, <1>1, <1>6, <1>7, <1>8, <1>9, <1>10, <1>11, <1>12 DEF TableIs

\* The first page is what comes first.
LEMMA FirstPage ==
  ASSUME NEW T, NEW s \in Seq(T), NEW n \in Nat
  PROVE  /\ Page(s, 0, n) \in Seq(T)
         /\ Len(Page(s, 0, n)) = IF n <= Len(s) THEN n ELSE Len(s)
         /\ \A i \in 1..Len(Page(s, 0, n)) : Page(s, 0, n)[i] = s[i]
<1>1. PICK m \in Nat, k \in Nat : m = Len(s) /\ DOMAIN s = 1..m /\ k = IF n <= m THEN n ELSE m
  BY LenProperties
<1>2. PICK p : p = Page(s, 0, n)
  OBVIOUS
<1>3. p = SubSeq(s, 1, k)
  <2>1. 0 + n = n /\ 0 + 1 = 1 /\ n \in Int /\ m \in Int
    OBVIOUS
  <2>2. Min({n, m}) = k
    BY <1>1, <2>1, LeastOfTwo
  <2> QED BY <1>1, <1>2, <2>1, <2>2 DEF Page
<1>4. \A i \in 1..k : s[i] \in T /\ i \in 1..(k - 1 + 1) /\ 1 + i - 1 = i
  BY <1>1
<1>5. /\ p \in Seq(T) /\ Len(p) = (IF 1 <= k THEN k - 1 + 1 ELSE 0)
      /\ \A i \in 1..(k - 1 + 1) : p[i] = s[1 + i - 1]
  BY <1>3, <1>4, SubSeqProperties
<1>6. Len(p) = k
  BY <1>5
<1> QED BY <1>1, <1>2, <1>4, <1>5, <1>6

\* RoutesAreExact, of an answer a to a call c and the lines d that were read.
Exact(a, c, d) ==
  LET counts(l) == HasRoute(l.line) /\ ~HealthRequest(l.line)
      lines == Where(d, counts)
      routes == {RouteKey(lines[i].line) : i \in DOMAIN lines}
      of(r) == Len(Where(lines, LAMBDA l : RouteKey(l.line) = r))
      listed == {a.routes[i].key : i \in DOMAIN a.routes}
  IN /\ a.statused = Len(lines)
     /\ \A i \in DOMAIN a.routes : a.routes[i].count = of(a.routes[i].key)
     /\ a.distinct <= Cardinality(routes)
     /\ a.exact => a.distinct = Cardinality(routes)
     /\ \A r \in routes \ listed :
           a.exact \/ of(r) * ProxyRouteCandidateLimit(c) > a.statused =>
               Len(a.routes) = c.limit /\ \A s \in listed : of(s) >= of(r)

\* What an answer lists is what the property asks of it.
LEMMA AnswerIsExact ==
  ASSUME NEW f, NEW c, c.limit \in Nat \ {0}, NEW d \in Seq(Refs),
         NEW limit \in Nat \ {0}, limit = ProxyRouteCandidateLimit(c),
         f.statused = Len(Filter(d, RouteRefs)), TableIs(f, d, limit),
         NEW a, a = InspectProxyActivityPayload(c, f)
  PROVE  Exact(a, c, d)
<1>1. /\ DOMAIN f.table \subseteq RoutesIn(d) /\ DOMAIN f.table \subseteq AllRoutes
      /\ IsFiniteSet(DOMAIN f.table) /\ f.overflowed \in BOOLEAN
      /\ f.overflowed => \E x \in RoutesIn(d) : x \notin DOMAIN f.table
      /\ ~ f.overflowed => RoutesIn(d) = DOMAIN f.table
      /\ \A x \in RoutesIn(d) \ DOMAIN f.table : Requested(d, x) * limit <= f.statused
      /\ DOMAIN f.routes = DOMAIN f.table
      /\ \A x \in DOMAIN f.routes : f.routes[x].count = Requested(d, x) /\ x[2] \in Int
  BY DEF TableIs
<1>2. \A x : Requested(d, x) \in Nat
  BY RequestedIs
<1>3. PICK R, S : R = f.routes /\ S = DOMAIN R
  OBVIOUS
<1>4. IsFiniteSet(S) /\ S \subseteq AllRoutes /\ \A x \in S : x[2] \in Int /\ R[x].count \in Nat
  BY <1>1, <1>2, <1>3
<1>5. PICK full : full = RouteSort(R)
  OBVIOUS
<1>6. full \in SetToSeqs(S) /\ \A i, j \in DOMAIN full : i < j => R[full[i]].count >= R[full[j]].count
  BY <1>3, <1>4, <1>5, RoutesSorted
<1>7. full \in Seq(S) /\ ToSet(full) = S
  BY <1>4, <1>6, SetToSeqsElements
<1>8. PICK order : order = Page(full, 0, c.limit)
  OBVIOUS
<1>9. PICK m \in Nat, n \in Nat : m = Len(full) /\ DOMAIN full = 1..m /\ n = c.limit
  BY <1>7
<1>10. /\ order \in Seq(S) /\ Len(order) = (IF n <= m THEN n ELSE m)
       /\ \A i \in 1..Len(order) : order[i] = full[i]
  <2>1. full \in Seq(S) /\ order = Page(full, 0, n)
    BY <1>7, <1>8, <1>9
  <2> QED BY <1>9, <2>1, FirstPage
<1>11. PICK k \in Nat : k = Len(order) /\ DOMAIN order = 1..k /\ k = IF n <= m THEN n ELSE m
  BY <1>9, <1>10
<1>12. /\ a.statused = f.statused /\ a.exact = ~ f.overflowed
       /\ a.distinct = Cardinality(DOMAIN f.table) + (IF f.overflowed THEN 1 ELSE 0)
       /\ a.routes = [i \in DOMAIN order |->
                        [key |-> order[i], count |-> R[order[i]].count,
                         error |-> UpstreamErrorRoute(order[i], R[order[i]])]]
  BY <1>3, <1>5, <1>8 DEF InspectProxyActivityPayload
<1>13. /\ DOMAIN a.routes = 1..k /\ Len(a.routes) = k
       /\ \A i \in 1..k : /\ a.routes[i].key = full[i] /\ full[i] \in S
                          /\ a.routes[i].count = Requested(d, full[i])
  <2>1. \A i \in 1..k : order[i] = full[i] /\ order[i] \in S
    BY <1>10, <1>11
  <2>2. DOMAIN a.routes = 1..k /\ a.routes \in Seq(ToSet(a.routes))
    BY <1>11, <1>12 DEF ToSet
  <2> QED BY <1>1, <1>3, <1>11, <1>12, <2>1, <2>2
<1> DEFINE counts(l) == HasRoute(l.line) /\ ~HealthRequest(l.line)
           lines == Where(d, counts)
           routes == {RouteKey(lines[i].line) : i \in DOMAIN lines}
           of(r) == Len(Where(lines, LAMBDA l : RouteKey(l.line) = r))
           listed == {a.routes[i].key : i \in DOMAIN a.routes}
<1>14. PICK p \in Seq(Refs) : p = Filter(d, RouteRefs) /\ ToSet(p) = ToSet(d) \intersect RouteRefs
  BY FilterElements
<1>15. lines = p
  <2>1. ToSet(d) \subseteq Refs
    BY DEF ToSet
  <2>2. PICK T : T = {x \in ToSet(d) : counts(x)}
    OBVIOUS
  <2>3. \A x \in ToSet(d) : x \in T <=> x \in RouteRefs
    BY <2>1, <2>2 DEF RouteRefs
  <2>4. Filter(d, T) = Filter(d, RouteRefs)
    BY <2>3, FilterSame
  <2> QED BY <1>14, <2>2, <2>4 DEF Where
<1> HIDE DEF lines
<1>16. routes = RoutesIn(d)
  <2>1. routes = {RouteKey(r.line) : r \in ToSet(p)}
    BY <1>15 DEF ToSet
  <2> QED BY <1>14, <2>1 DEF RoutesIn
<1>17. ASSUME NEW r PROVE of(r) = Requested(d, r)
  <2>1. ToSet(p) \subseteq Refs
    BY DEF ToSet
  <2>2. PICK T : T = {x \in ToSet(p) : RouteKey(x.line) = r}
    OBVIOUS
  <2>3. \A x \in ToSet(p) : x \in T <=> x \in OfRoute(r)
    BY <2>1, <2>2 DEF OfRoute
  <2>4. Filter(p, T) = Filter(p, OfRoute(r))
    BY <2>3, FilterSame
  <2> QED BY <1>14, <1>15, <2>2, <2>4 DEF Where, Requested
<1>18. listed = {full[i] : i \in 1..k}
  BY SMTT(30), <1>13
<1> HIDE DEF routes, of, listed
<1>19. a.statused = Len(lines)
  BY <1>12, <1>14, <1>15
<1>20. \A i \in DOMAIN a.routes : a.routes[i].count = of(a.routes[i].key)
  BY <1>13, <1>17
<1>21. a.distinct <= Cardinality(routes) /\ (a.exact => a.distinct = Cardinality(routes))
  <2>1. IsFiniteSet(RoutesIn(d)) /\ Cardinality(RoutesIn(d)) \in Nat /\ Cardinality(DOMAIN f.table) \in Nat
    BY <1>1, FinitelyMany, FS_CardinalityType
  <2>2. CASE ~ f.overflowed
    <3>1. Cardinality(RoutesIn(d)) = Cardinality(DOMAIN f.table)
      BY <1>1, <2>2
    <3> QED BY <1>12, <1>16, <2>1, <2>2, <3>1
  <2>3. CASE f.overflowed
    <3>1. PICK x \in RoutesIn(d) : x \notin DOMAIN f.table
      BY <1>1, <2>3
    <3>2. Cardinality(DOMAIN f.table \union {x}) = Cardinality(DOMAIN f.table) + 1
      BY <1>1, <3>1, FS_AddElement
    <3>3. Cardinality(DOMAIN f.table \union {x}) <= Cardinality(RoutesIn(d))
      <4>1. DOMAIN f.table \union {x} \subseteq RoutesIn(d)
        BY <1>1
      <4> QED BY <2>1, <4>1, FS_Subset
    <3> QED BY <1>12, <1>16, <2>1, <2>3, <3>2, <3>3
  <2> QED BY <1>1, <2>2, <2>3
<1>22. ASSUME NEW r \in routes \ listed,
              a.exact \/ of(r) * ProxyRouteCandidateLimit(c) > a.statused
       PROVE  Len(a.routes) = c.limit /\ \A s \in listed : of(s) >= of(r)
  <2>1. r \in RoutesIn(d) /\ f.statused \in Nat
    BY <1>14, <1>16, LenProperties
  <2>2. r \in S
    <3>1. CASE f.overflowed
      <4>1. Requested(d, r) * limit > f.statused
        BY <1>12, <1>17, <1>22, <3>1
      <4>2. Requested(d, r) * limit \in Nat
        BY <1>2
      <4> QED BY <1>1, <1>3, <2>1, <4>1, <4>2
    <3> QED BY <1>1, <1>3, <2>1, <3>1
  <2>3. PICK j \in 1..m : r = full[j]
    BY <1>7, <1>9, <2>2 DEF ToSet
  <2>4. j > k
    BY <1>9, <1>11, <1>18, <2>3
  <2>5. k = n
    BY <1>9, <1>11, <2>3, <2>4
  <2>6. ASSUME NEW s \in listed PROVE of(s) >= of(r)
    <3>1. PICK i \in 1..k : s = full[i]
      BY <1>18
    <3>2. i < j /\ i \in 1..m
      BY <1>9, <1>11, <2>3, <2>4, <3>1
    <3>3. R[full[i]].count >= R[full[j]].count
      BY <1>6, <1>9, <2>3, <3>2
    <3>4. s \in S
      BY <1>13, <3>1
    <3> QED BY <1>1, <1>3, <1>17, <2>2, <2>3, <3>1, <3>3, <3>4
  <2> QED BY <1>9, <1>13, <2>5, <2>6
<1>23. Exact(a, c, d)
  BY <1>19, <1>20, <1>21, <1>22 DEF Exact, routes, of, listed, lines
<1> QED BY <1>23

LEMMA RoutesTrue == ToolsTyped /\ RoutesFound => RoutesAreExact
<1> SUFFICES ASSUME ToolsTyped, RoutesFound, Answered("inspect_proxy_activity")
             PROVE  RoutesAreExact
  BY DEF RoutesAreExact
<1>1. /\ LinesRead \in Seq(Refs) /\ FirstPass(found, LinesRead, Limit)
      /\ SecondPassed(found, LinesRead) /\ call.limit \in 1..MaxWindow
      /\ answer = InspectProxyActivityPayload(call, found)
  BY DEF RoutesFound, ProxyCall, Answered
<1>2. PICK limit \in Nat \ {0} : limit = Limit
  BY LimitIsPositive
<1>3. PICK a, c, f : a = answer /\ c = call /\ f = found
  OBVIOUS
<1>4. PICK d \in Seq(Refs) : d = LinesRead
  BY <1>1
<1>5. TableIs(f, d, limit)
  BY <1>1, <1>2, <1>3, <1>4, PassesSay
<1>6. /\ c.limit \in Nat \ {0} /\ limit = ProxyRouteCandidateLimit(c)
      /\ f.statused = Len(Filter(d, RouteRefs)) /\ a = InspectProxyActivityPayload(c, f)
  <2>1. MaxWindow \in Nat
    BY LimitsAssumption
  <2> QED BY <1>1, <1>2, <1>3, <1>4, <2>1 DEF Limit, FirstPass
<1>7. Exact(a, c, d)
  BY <1>5, <1>6, AnswerIsExact
<1>8. Exact(answer, call, LinesRead)
  BY <1>3, <1>4, <1>7
<1> QED BY <1>8 DEF RoutesAreExact, Exact

\* What is said of routes and of probes is exact, whatever the bounded table gave up:
\* the property ActivityIsExact.
THEOREM ActivityExact == ToolsSpec => []ActivityIsExact
<1>1. ToolsInit => ToolsTyped /\ CursorInv /\ RoutesFound /\ ProbesInv
  BY ToolsInitial, CursorInitial, RoutesFoundInitial, ProbesInitial
<1>2. ToolsTyped /\ CursorInv /\ RoutesFound /\ ProbesInv /\ [ToolsNext]_vars =>
        (ToolsTyped /\ CursorInv /\ RoutesFound /\ ProbesInv)'
  BY ToolsTypedStep, CursorStep, RoutesFoundStep, ProbesStep
<1>3. ToolsTyped /\ RoutesFound /\ ProbesInv => ActivityIsExact
  BY RoutesTrue, ProbesTrue DEF ActivityIsExact
<1> QED BY <1>1, <1>2, <1>3, PTL DEF ToolsSpec

-----------------------------------------------------------------------------
(* The groups of errors, as a scan finds them and a client gets them.       *)

\* A scan for groups of errors, as the lines lead it from one state to the next.
GroupStep(f, r) == IF f.complete THEN GroupLine(f, r.ref, r.line) ELSE f

LeadsThrough(h, f, d) ==
  /\ h[0] = NoGroups /\ h[Len(d)] = f
  /\ \A k \in 0..Len(d) : k < Len(d) => h[k + 1] = GroupStep(h[k], d[k + 1])

\* The lines d lead the scan to f.
Leads(f, d) == \E h : LeadsThrough(h, f, d)

LEMMA LeadsNowhere == Leads(NoGroups, << >>)
<1> DEFINE h == [k \in {0} |-> NoGroups]
<1>1. h[0] = NoGroups /\ Len(<< >>) = 0
  BY EmptySeq
<1>2. \A k \in 0..0 : ~ (k < 0)
  OBVIOUS
<1> HIDE DEF h
<1> QED BY <1>1, <1>2 DEF Leads, LeadsThrough

LEMMA LeadsOn ==
  ASSUME NEW d \in Seq(Refs), NEW r \in Refs, NEW f, Leads(f, d)
  PROVE  Leads(GroupStep(f, r), Append(d, r))
<1>1. PICK n \in Nat : n = Len(d)
  BY LenProperties
<1>2. PICK h : LeadsThrough(h, f, d)
  BY DEF Leads
<1>3. PICK e \in Seq(Refs) : e = Append(d, r)
  BY AppendProperties
<1>4. Len(e) = n + 1 /\ e[n + 1] = r /\ \A k \in 1..n : e[k] = d[k]
  BY <1>1, <1>3, AppendProperties
<1>5. PICK v : v = GroupStep(f, r)
  OBVIOUS
<1> DEFINE g == [k \in 0..(n + 1) |-> IF k = n + 1 THEN v ELSE h[k]]
<1>6. g[0] = h[0] /\ g[n + 1] = v
  <2>1. 0 \in 0..(n + 1) /\ n + 1 \in 0..(n + 1) /\ 0 # n + 1
    BY <1>1
  <2> QED BY <2>1
<1>7. ASSUME NEW k \in 0..(n + 1), k < n + 1 PROVE g[k + 1] = GroupStep(g[k], e[k + 1])
  <2>1. k + 1 \in 0..(n + 1) /\ k # n + 1 /\ k \in 0..n
    BY <1>1, <1>7
  <2>2. g[k] = h[k] /\ g[k + 1] = IF k + 1 = n + 1 THEN v ELSE h[k + 1]
    BY <2>1
  <2> HIDE DEF g
  <2>3. CASE k = n
    <3>1. h[k] = f
      BY <1>1, <1>2, <2>3 DEF LeadsThrough
    <3> QED BY <1>4, <1>5, <2>2, <2>3, <3>1
  <2>4. CASE k # n
    <3>1. k < n /\ k + 1 \in 1..n /\ k + 1 # n + 1
      BY <1>1, <2>1, <2>4
    <3>2. h[k + 1] = GroupStep(h[k], d[k + 1])
      BY <1>1, <1>2, <2>1, <3>1 DEF LeadsThrough
    <3> QED BY <1>4, <2>2, <3>1, <3>2
  <2> QED BY <2>3, <2>4
<1> HIDE DEF g
<1>8. g[0] = NoGroups
  BY <1>2, <1>6 DEF LeadsThrough
<1>9. LeadsThrough(g, v, e)
  BY <1>4, <1>6, <1>7, <1>8 DEF LeadsThrough
<1> QED BY <1>3, <1>5, <1>9 DEF Leads

LEMMA LedFrom ==
  ASSUME NEW d \in Seq(Refs), NEW r \in Refs, NEW f, Leads(f, Append(d, r))
  PROVE  \E g : Leads(g, d) /\ f = GroupStep(g, r)
<1>1. PICK n \in Nat : n = Len(d)
  BY LenProperties
<1>2. PICK e \in Seq(Refs) : e = Append(d, r)
  BY AppendProperties
<1>3. Len(e) = n + 1 /\ e[n + 1] = r /\ \A k \in 1..n : e[k] = d[k]
  BY <1>1, <1>2, AppendProperties
<1>4. PICK h : LeadsThrough(h, f, e)
  BY <1>2 DEF Leads
<1>5. /\ h[0] = NoGroups /\ h[n + 1] = f
      /\ \A k \in 0..(n + 1) : k < n + 1 => h[k + 1] = GroupStep(h[k], e[k + 1])
  BY <1>3, <1>4 DEF LeadsThrough
<1>6. h[n + 1] = GroupStep(h[n], r)
  <2>1. n \in 0..(n + 1) /\ n < n + 1
    BY <1>1
  <2> QED BY <1>3, <1>5, <2>1
<1>7. LeadsThrough(h, h[n], d)
  <2>1. ASSUME NEW k \in 0..n, k < n PROVE h[k + 1] = GroupStep(h[k], d[k + 1])
    <3>1. k \in 0..(n + 1) /\ k < n + 1 /\ k + 1 \in 1..n
      BY <1>1, <2>1
    <3> QED BY <1>3, <1>5, <3>1
  <2> QED BY <1>1, <1>5, <2>1 DEF LeadsThrough
<1> QED BY <1>5, <1>6, <1>7 DEF Leads

\* Lines lead to one state alone.
LEMMA LeadsOnce ==
  ASSUME NEW d \in Seq(Refs), NEW f, NEW g, Leads(f, d), Leads(g, d)
  PROVE  f = g
<1> DEFINE G == {x \in Seq(Refs) : \A a, b : Leads(a, x) /\ Leads(b, x) => a = b}
<1>1. << >> \in G
  <2>1. Len(<< >>) = 0 /\ << >> \in Seq(Refs)
    BY EmptySeq
  <2>2. ASSUME NEW a, Leads(a, << >>) PROVE a = NoGroups
    BY <2>1, <2>2 DEF Leads, LeadsThrough
  <2> QED BY <2>1, <2>2
<1>2. ASSUME NEW x \in Seq(Refs), NEW r \in Refs, x \in G PROVE Append(x, r) \in G
  <2>1. ASSUME NEW a, NEW b, Leads(a, Append(x, r)), Leads(b, Append(x, r)) PROVE a = b
    <3>1. PICK a0 : Leads(a0, x) /\ a = GroupStep(a0, r)
      BY <2>1, LedFrom
    <3>2. PICK b0 : Leads(b0, x) /\ b = GroupStep(b0, r)
      BY <2>1, LedFrom
    <3>3. a0 = b0
      BY <1>2, <3>1, <3>2
    <3> QED BY <3>1, <3>2, <3>3
  <2>2. Append(x, r) \in Seq(Refs)
    BY AppendProperties
  <2> QED BY <2>1, <2>2
<1> HIDE DEF G
<1>3. d \in G
  BY <1>1, <1>2, SequenceInduction
<1> QED BY <1>3 DEF G

\* A scan that met its limit stays where it is, whatever lines are left.
LEMMA LeadsNoFurther ==
  ASSUME NEW d \in Seq(Refs), NEW f, Leads(f, d), ~ f.complete, NEW e \in Seq(Refs)
  PROVE  Leads(f, d \o e)
<1> DEFINE G == {x \in Seq(Refs) : Leads(f, d \o x)}
<1>1. << >> \in G
  <2>1. d \o << >> = d /\ << >> \in Seq(Refs)
    BY ConcatEmptySeq, EmptySeq
  <2> QED BY <2>1
<1>2. ASSUME NEW x \in Seq(Refs), NEW r \in Refs, x \in G PROVE Append(x, r) \in G
  <2>1. Append(x, r) \in Seq(Refs) /\ d \o x \in Seq(Refs)
    BY AppendProperties, ConcatProperties
  <2>2. Leads(GroupStep(f, r), Append(d \o x, r))
    BY <1>2, <2>1, LeadsOn
  <2>3. GroupStep(f, r) = f
    BY DEF GroupStep
  <2>4. Append(d \o x, r) = d \o Append(x, r)
    BY SMTT(30)
  <2> QED BY <2>1, <2>2, <2>3, <2>4
<1> HIDE DEF G
<1>3. e \in G
  BY <1>1, <1>2, SequenceInduction
<1> QED BY <1>3 DEF G

-----------------------------------------------------------------------------
ErrorRefs == {r \in Refs : IsError(r.line)}

RefDigest(r) == DigestOf(r.ref.key, r.line)

DigestsIn(d) == {RefDigest(r) : r \in ToSet(d) \intersect ErrorRefs}

CountsOf(groups) == [x \in DOMAIN groups |-> groups[x].count]

GroupFields == {"category", "severity", "count", "sources", "times", "first", "last"}

\* A group of the digest x, first seen in one of the lines d.
GroupOf(g, x, d) ==
  /\ DOMAIN g = GroupFields /\ g.count \in Nat \ {0}
  /\ \E r \in ToSet(d) \intersect ErrorRefs : RefDigest(r) = x /\ g.first = <<r.ref>>

\* What the groups are of the lines read: a partition of the errors, or of those
\* before the one that found no room.
GroupsAre(f, d) ==
  /\ DOMAIN f = DOMAIN NoGroups /\ f.complete \in BOOLEAN
  /\ IsFiniteSet(DOMAIN f.groups) /\ Cardinality(DOMAIN f.groups) <= GroupLimit
  /\ \A x \in DOMAIN f.groups : GroupOf(f.groups[x], x, d)
  /\ IF f.complete
     THEN /\ f.matching = Len(Filter(d, ErrorRefs)) /\ DOMAIN f.groups = DigestsIn(d)
          /\ SumsTo(CountsOf(f.groups), f.matching)
     ELSE /\ Cardinality(DOMAIN f.groups) = GroupLimit
          /\ f.matching \in Nat \ {0} /\ f.matching <= Len(Filter(d, ErrorRefs))
          /\ SumsTo(CountsOf(f.groups), f.matching - 1)

LEMMA NoGroupsAre == GroupsAre(NoGroups, << >>)
<1>1. NoGroups.groups = Empty /\ NoGroups.complete = TRUE /\ NoGroups.matching = 0 /\ DOMAIN Empty = {}
  BY DEF NoGroups, Empty
<1>2. GroupLimit \in Nat /\ IsFiniteSet({}) /\ Cardinality({}) = 0
  BY LimitsAssumption, FS_EmptySet
<1>3. Filter(<< >>, ErrorRefs) = << >> /\ Len(<< >>) = 0
  BY FilterEmpty, EmptySeq
<1>4. DigestsIn(<< >>) = {}
  <2>1. ToSet(<< >>) = {}
    BY EmptySeq DEF ToSet
  <2> QED BY <2>1 DEF DigestsIn
<1>5. SumsTo(CountsOf(Empty), 0)
  <2>1. DOMAIN CountsOf(Empty) = {}
    BY <1>1 DEF CountsOf
  <2>2. Units(CountsOf(Empty)) = {}
    BY <2>1 DEF Units
  <2> QED BY <1>2, <2>2 DEF SumsTo
<1>6. PICK f, d : f = NoGroups /\ d = << >>
  OBVIOUS
<1>7. DOMAIN f.groups = {} /\ f.complete = TRUE /\ f.matching = 0 /\ f.groups = Empty
  BY <1>1, <1>6
<1>8. Len(Filter(d, ErrorRefs)) = 0 /\ DigestsIn(d) = {}
  BY <1>3, <1>4, <1>6
<1>9. SumsTo(CountsOf(f.groups), f.matching)
  BY <1>5, <1>7
<1>10. IsFiniteSet(DOMAIN f.groups) /\ Cardinality(DOMAIN f.groups) <= GroupLimit
  BY <1>2, <1>7
<1>11. \A x \in DOMAIN f.groups : GroupOf(f.groups[x], x, d)
  BY <1>7
<1>12. f.matching = Len(Filter(d, ErrorRefs)) /\ DOMAIN f.groups = DigestsIn(d) /\ f.complete
  BY <1>7, <1>8
<1>13. DOMAIN f = DOMAIN NoGroups /\ f.complete \in BOOLEAN
  BY <1>6, <1>7
<1>14. GroupsAre(f, d)
  BY <1>9, <1>10, <1>11, <1>12, <1>13 DEF GroupsAre
<1> QED BY <1>6, <1>14

\* One more line, an error or not.
LEMMA ErrorsGrow ==
  ASSUME NEW d \in Seq(Refs), NEW r \in Refs
  PROVE  /\ Len(Filter(d, ErrorRefs)) \in Nat
         /\ Len(Filter(Append(d, r), ErrorRefs)) = Len(Filter(d, ErrorRefs)) + (IF r \in ErrorRefs THEN 1 ELSE 0)
         /\ DigestsIn(Append(d, r)) = DigestsIn(d) \union (IF r \in ErrorRefs THEN {RefDigest(r)} ELSE {})
         /\ ToSet(Append(d, r)) = ToSet(d) \union {r}
         /\ \A g, x : GroupOf(g, x, d) => GroupOf(g, x, Append(d, r))
<1>1. PICK p \in Seq(Refs) : p = Filter(d, ErrorRefs)
  BY FilterElements
<1>2. Filter(Append(d, r), ErrorRefs) = IF r \in ErrorRefs THEN Append(p, r) ELSE p
  BY <1>1, FilterAppend
<1>3. Len(Append(p, r)) = Len(p) + 1 /\ Len(p) \in Nat
  BY AppendProperties, LenProperties
<1>4. ToSet(Append(d, r)) = ToSet(d) \union {r}
  BY ToSetAppend
<1>5. DigestsIn(Append(d, r)) = DigestsIn(d) \union (IF r \in ErrorRefs THEN {RefDigest(r)} ELSE {})
  BY <1>4 DEF DigestsIn
<1>6. ASSUME NEW g, NEW x, GroupOf(g, x, d) PROVE GroupOf(g, x, Append(d, r))
  BY <1>4, <1>6 DEF GroupOf
<1> QED BY <1>1, <1>2, <1>3, <1>4, <1>5, <1>6

\* What an error adds to its group.
LEMMA EventAdded ==
  ASSUME NEW g, DOMAIN g = GroupFields, NEW ref, NEW line
  PROVE  LET a == AddEvent(g, ref, line)
         IN DOMAIN a = GroupFields /\ a.count = g.count + 1 /\ a.severity = g.severity
            /\ a.first = IF g.first = << >> THEN <<ref>> ELSE g.first
BY DEF AddEvent, GroupFields

\* What a line makes of f: nothing, one more error, or one for which there is no room.
LineGrouped(g, f, r, x, a) ==
  /\ DOMAIN g = DOMAIN NoGroups
  /\ ~ IsError(r.line) => g = f
  /\ IsError(r.line) =>
       /\ g.matching = f.matching + 1
       /\ IF x \notin DOMAIN f.groups /\ Cardinality(DOMAIN f.groups) >= GroupLimit
          THEN g.groups = f.groups /\ g.complete = FALSE
          ELSE g.complete = f.complete /\ g.groups = With(f.groups, x, a)

LEMMA GroupLineIs ==
  ASSUME NEW f, DOMAIN f = DOMAIN NoGroups, NEW r, NEW x, x = RefDigest(r), NEW a,
         a = AddEvent(IF x \in DOMAIN f.groups THEN f.groups[x] ELSE NewGroup(r.line), r.ref, r.line)
  PROVE  LineGrouped(GroupLine(f, r.ref, r.line), f, r, x, a)
<1>1. DOMAIN f = {"matching", "groups", "complete", "searched"}
  BY DEF NoGroups
<1> QED BY <1>1 DEF GroupLine, NoGroups, RefDigest, LineGrouped

GroupAdded(H, G, c, x, n, limit) ==
  /\ DOMAIN H = DOMAIN G \union {x} /\ IsFiniteSet(DOMAIN H) /\ Cardinality(DOMAIN H) <= limit
  /\ \A y \in DOMAIN H : GroupOf(H[y], y, c)
  /\ SumsTo(CountsOf(H), n + 1)

\* An error that finds room in its group, or for one of its own.
LEMMA GroupGrows ==
  ASSUME NEW d \in Seq(Refs), NEW r \in ErrorRefs, NEW G, IsFiniteSet(DOMAIN G),
         \A x \in DOMAIN G : GroupOf(G[x], x, d), NEW x, x = RefDigest(r),
         NEW limit \in Nat, Cardinality(DOMAIN G) <= limit, x \in DOMAIN G \/ Cardinality(DOMAIN G) < limit,
         NEW n \in Nat, SumsTo(CountsOf(G), n), NEW H,
         H = With(G, x, AddEvent(IF x \in DOMAIN G THEN G[x] ELSE NewGroup(r.line), r.ref, r.line))
  PROVE  GroupAdded(H, G, Append(d, r), x, n, limit)
<1>0. r \in Refs
  BY DEF ErrorRefs
<1>1. PICK g : g = IF x \in DOMAIN G THEN G[x] ELSE NewGroup(r.line)
  OBVIOUS
<1>2. PICK a : a = AddEvent(g, r.ref, r.line)
  OBVIOUS
<1>3. H = With(G, x, a)
  BY <1>1, <1>2
<1>4. DOMAIN H = DOMAIN G \union {x} /\ \A y \in DOMAIN H : H[y] = IF y = x THEN a ELSE G[y]
  BY <1>3 DEF With
<1>5. /\ DOMAIN g = GroupFields
      /\ x \in DOMAIN G => g = G[x] /\ g.count \in Nat \ {0} /\ g.first # << >>
      /\ x \notin DOMAIN G => g.count = 0 /\ g.first = << >>
  <2>1. CASE x \in DOMAIN G
    <3>1. GroupOf(g, x, d) /\ g = G[x]
      BY <1>1, <2>1
    <3>2. PICK q : g.first = <<q.ref>>
      BY <3>1 DEF GroupOf
    <3>3. \A e : <<e>> # << >>
      OBVIOUS
    <3>4. g.first # << >>
      BY <3>2, <3>3
    <3>5. DOMAIN g = GroupFields /\ g.count \in Nat \ {0}
      BY <3>1 DEF GroupOf
    <3> QED BY <2>1, <3>1, <3>4, <3>5
  <2>2. CASE x \notin DOMAIN G
    BY <1>1, <2>2 DEF NewGroup, GroupFields
  <2> QED BY <2>1, <2>2
<1>6. /\ DOMAIN a = GroupFields /\ a.count = g.count + 1
      /\ a.first = IF g.first = << >> THEN <<r.ref>> ELSE g.first
  BY <1>2, <1>5, EventAdded
<1>7. r \in ToSet(Append(d, r)) /\ \A z, y : GroupOf(z, y, d) => GroupOf(z, y, Append(d, r))
  BY <1>0, ErrorsGrow
<1>8. GroupOf(a, x, Append(d, r))
  <2>1. CASE x \in DOMAIN G
    <3>1. GroupOf(g, x, Append(d, r))
      BY <1>5, <1>7, <2>1
    <3>2. a.first = g.first /\ a.count \in Nat \ {0}
      BY <1>5, <1>6, <2>1
    <3> QED BY <1>6, <3>1, <3>2 DEF GroupOf
  <2>2. CASE x \notin DOMAIN G
    <3>1. a.first = <<r.ref>> /\ a.count = 1
      BY <1>5, <1>6, <2>2
    <3> QED BY <1>6, <1>7, <3>1 DEF GroupOf
  <2> QED BY <2>1, <2>2
<1>9. \A y \in DOMAIN H : GroupOf(H[y], y, Append(d, r))
  BY <1>4, <1>7, <1>8
<1>10. IsFiniteSet(DOMAIN H) /\ Cardinality(DOMAIN H) <= limit
  <2>1. IsFiniteSet(DOMAIN H)
        /\ Cardinality(DOMAIN H) = IF x \in DOMAIN G THEN Cardinality(DOMAIN G) ELSE Cardinality(DOMAIN G) + 1
    BY <1>4, FS_AddElement
  <2>2. Cardinality(DOMAIN G) \in Nat
    BY FS_CardinalityType
  <2> QED BY <2>1, <2>2
<1>11. PICK e, f : e = CountsOf(G) /\ f = CountsOf(H)
  OBVIOUS
<1>12. /\ DOMAIN e = DOMAIN G /\ \A s \in DOMAIN e : e[s] = G[s].count /\ e[s] \in Nat \ {0}
       /\ DOMAIN f = DOMAIN G \union {x} /\ f = [s \in DOMAIN G \union {x} |-> IF s = x THEN a.count ELSE G[s].count]
  <2>1. \A s \in DOMAIN G : G[s].count \in Nat \ {0}
    BY DEF GroupOf
  <2> QED BY <1>4, <1>11, <2>1 DEF CountsOf
<1>13. Counts(e, f, x, limit)
  <2>1. CASE x \in DOMAIN G
    <3>1. DOMAIN G \union {x} = DOMAIN G /\ a.count = e[x] + 1
      BY <1>5, <1>6, <1>12, <2>1
    <3>2. f = [s \in DOMAIN e |-> IF s = x THEN e[x] + 1 ELSE e[s]]
      BY <1>12, <3>1
    <3>3. e = [s \in DOMAIN e |-> e[s]]
      BY <1>11 DEF CountsOf
    <3>4. f = [e EXCEPT ![x] = @ + 1]
      BY <1>12, <2>1, <3>2, <3>3
    <3> QED BY <1>12, <2>1, <3>4 DEF Counts
  <2>2. CASE x \notin DOMAIN G
    <3>1. a.count = 1 /\ x \notin DOMAIN e /\ Cardinality(DOMAIN e) < limit
      BY <1>5, <1>6, <1>12, <2>2
    <3>2. f = [s \in DOMAIN e \union {x} |-> IF s = x THEN 1 ELSE e[s]]
      BY <1>12, <2>2, <3>1
    <3> QED BY <3>1, <3>2 DEF Counts
  <2> QED BY <2>1, <2>2
<1>14. SumsTo(f, n + 1)
  <2>1. SumsTo(e, n) /\ \A s \in DOMAIN e : e[s] \in Nat \ {0}
    BY <1>11, <1>12
  <2> QED BY <1>13, <2>1, UnitsGrow
<1> QED BY <1>4, <1>9, <1>10, <1>11, <1>14 DEF GroupAdded

LEMMA GroupsGrow ==
  ASSUME NEW d \in Seq(Refs), NEW r \in Refs, NEW f, GroupsAre(f, d)
  PROVE  GroupsAre(GroupStep(f, r), Append(d, r))
<1>1. PICK g, c : g = GroupStep(f, r) /\ c = Append(d, r)
  OBVIOUS
<1>0. PICK x : x = RefDigest(r)
  OBVIOUS
<1>2. PICK m \in Nat, limit \in Nat : m = Len(Filter(d, ErrorRefs)) /\ limit = GroupLimit /\ x = RefDigest(r)
  BY <1>0, ErrorsGrow, LimitsAssumption
<1>3. /\ Len(Filter(c, ErrorRefs)) = m + (IF r \in ErrorRefs THEN 1 ELSE 0)
      /\ DigestsIn(c) = DigestsIn(d) \union (IF r \in ErrorRefs THEN {x} ELSE {})
      /\ \A a, y : GroupOf(a, y, d) => GroupOf(a, y, c)
  BY <1>1, <1>2, ErrorsGrow
<1>4. /\ DOMAIN f = DOMAIN NoGroups /\ f.complete \in BOOLEAN
      /\ IsFiniteSet(DOMAIN f.groups) /\ Cardinality(DOMAIN f.groups) <= limit
      /\ \A y \in DOMAIN f.groups : GroupOf(f.groups[y], y, d)
  BY <1>2 DEF GroupsAre
<1> DEFINE a == AddEvent(IF x \in DOMAIN f.groups THEN f.groups[x] ELSE NewGroup(r.line), r.ref, r.line)
<1>8. LineGrouped(GroupLine(f, r.ref, r.line), f, r, x, a)
  BY <1>2, <1>4, GroupLineIs
<1> HIDE DEF a
<1>5. CASE ~ f.complete
  <2>1. g = f
    BY <1>1, <1>5 DEF GroupStep
  <2>2. /\ Cardinality(DOMAIN f.groups) = limit /\ f.matching \in Nat \ {0} /\ f.matching <= m
        /\ SumsTo(CountsOf(f.groups), f.matching - 1)
    BY <1>2, <1>5 DEF GroupsAre
  <2>3. f.matching <= Len(Filter(c, ErrorRefs))
    BY <1>2, <1>3, <2>2
  <2> QED BY <1>1, <1>2, <1>3, <1>4, <1>5, <2>1, <2>2, <2>3 DEF GroupsAre
<1>6. CASE f.complete /\ r \notin ErrorRefs
  <2>1. ~ IsError(r.line)
    BY <1>6 DEF ErrorRefs
  <2>2. g = f
    BY <1>1, <1>6, <1>8, <2>1 DEF GroupStep, LineGrouped
  <2>3. f.matching = m /\ DOMAIN f.groups = DigestsIn(d) /\ SumsTo(CountsOf(f.groups), f.matching)
    BY <1>2, <1>6 DEF GroupsAre
  <2>4. Len(Filter(c, ErrorRefs)) = m /\ DigestsIn(c) = DigestsIn(d)
    BY <1>2, <1>3, <1>6
  <2> QED BY <1>1, <1>2, <1>3, <1>4, <1>6, <2>2, <2>3, <2>4 DEF GroupsAre
<1>7. CASE f.complete /\ r \in ErrorRefs
  <2>1. IsError(r.line) /\ g = GroupLine(f, r.ref, r.line)
    BY <1>1, <1>7 DEF ErrorRefs, GroupStep
  <2>2. f.matching = m /\ DOMAIN f.groups = DigestsIn(d) /\ SumsTo(CountsOf(f.groups), m)
    BY <1>2, <1>7 DEF GroupsAre
  <2>3. Len(Filter(c, ErrorRefs)) = m + 1 /\ DigestsIn(c) = DigestsIn(d) \union {x}
    BY <1>3, <1>7
  <2>0. LineGrouped(g, f, r, x, a)
    BY <1>8, <2>1
  <2>4. DOMAIN g = DOMAIN NoGroups /\ g.matching = m + 1
    BY <2>0, <2>1, <2>2 DEF LineGrouped
  <2>5. PICK k \in Nat : k = Cardinality(DOMAIN f.groups)
    BY <1>4, FS_CardinalityType
  <2>6. CASE x \notin DOMAIN f.groups /\ k >= limit
    <3>1. g.groups = f.groups /\ g.complete = FALSE
      BY <1>2, <2>0, <2>1, <2>5, <2>6 DEF LineGrouped
    <3>2. k = limit /\ m + 1 \in Nat \ {0} /\ m + 1 <= m + 1 /\ (m + 1) - 1 = m
      BY <1>4, <2>5, <2>6
    <3>3. Cardinality(DOMAIN g.groups) = GroupLimit /\ Cardinality(DOMAIN g.groups) <= GroupLimit
      BY <1>2, <2>5, <3>1, <3>2
    <3>4. SumsTo(CountsOf(g.groups), g.matching - 1)
      BY <2>2, <2>4, <3>1, <3>2
    <3>5. \A y \in DOMAIN g.groups : GroupOf(g.groups[y], y, c)
      BY <1>3, <1>4, <3>1
    <3> QED BY <1>1, <1>4, <2>3, <2>4, <3>1, <3>2, <3>3, <3>4, <3>5 DEF GroupsAre
  <2>7. CASE x \in DOMAIN f.groups \/ k < limit
    <3>1. ~ (x \notin DOMAIN f.groups /\ k >= limit)
      BY <2>7
    <3>2. PICK G, H : G = f.groups /\ H = g.groups
      OBVIOUS
    <3>3. /\ g.complete = f.complete
          /\ H = With(G, x, AddEvent(IF x \in DOMAIN G THEN G[x] ELSE NewGroup(r.line), r.ref, r.line))
      <4>1. g.complete = f.complete /\ g.groups = With(f.groups, x, a)
        BY <1>2, <2>0, <2>1, <2>5, <3>1 DEF LineGrouped
      <4> QED BY <3>2, <4>1 DEF a
    <3>4. GroupAdded(H, G, c, x, m, limit)
      <4>1. /\ IsFiniteSet(DOMAIN G) /\ \A y \in DOMAIN G : GroupOf(G[y], y, d)
            /\ Cardinality(DOMAIN G) <= limit /\ SumsTo(CountsOf(G), m)
            /\ (x \in DOMAIN G \/ Cardinality(DOMAIN G) < limit)
        BY <1>4, <2>2, <2>5, <2>7, <3>2
      <4>2. r \in ErrorRefs /\ x = RefDigest(r)
        BY <1>2, <1>7
      <4> HIDE DEF a
      <4>3. PICK e : e = AddEvent(IF x \in DOMAIN G THEN G[x] ELSE NewGroup(r.line), r.ref, r.line)
        OBVIOUS
      <4>4. GroupAdded(H, G, Append(d, r), x, m, limit)
        BY <3>3, <4>1, <4>2, GroupGrows
      <4> QED BY <1>1, <4>4
    <3> QED BY <1>1, <1>2, <1>7, <2>2, <2>3, <2>4, <3>2, <3>3, <3>4 DEF GroupsAre, GroupAdded
  <2> QED BY <2>5, <2>6, <2>7
<1> QED BY <1>4, <1>5, <1>6, <1>7

LEMMA LeadsToGroups ==
  ASSUME NEW d \in Seq(Refs), NEW f, Leads(f, d)
  PROVE  GroupsAre(f, d)
<1> DEFINE G == {x \in Seq(Refs) : \A g : Leads(g, x) => GroupsAre(g, x)}
<1>1. << >> \in G
  <2>1. Leads(NoGroups, << >>) /\ GroupsAre(NoGroups, << >>) /\ << >> \in Seq(Refs)
    BY LeadsNowhere, NoGroupsAre, EmptySeq
  <2> QED BY <2>1, LeadsOnce
<1>2. ASSUME NEW x \in Seq(Refs), NEW r \in Refs, x \in G PROVE Append(x, r) \in G
  <2>1. ASSUME NEW g, Leads(g, Append(x, r)) PROVE GroupsAre(g, Append(x, r))
    <3>1. PICK h : Leads(h, x) /\ g = GroupStep(h, r)
      BY <2>1, LedFrom
    <3>2. GroupsAre(h, x)
      BY <1>2, <3>1
    <3> QED BY <3>1, <3>2, GroupsGrow
  <2>2. Append(x, r) \in Seq(Refs)
    BY AppendProperties
  <2> QED BY <2>1, <2>2
<1> HIDE DEF G
<1>3. d \in G
  BY <1>1, <1>2, SequenceInduction
<1> QED BY <1>3 DEF G

\* The units of the numbers at some of the indices.
UnitsAt(s, t) == {p \in Units(s) : p[1] \in t}

\* One more index.
LEMMA UnitsOneMore ==
  ASSUME NEW n \in Nat, NEW s \in [1..n -> Nat], NEW t \in SUBSET (1..n), NEW x \in t,
         IsFiniteSet(UnitsAt(s, t \ {x}))
  PROVE  /\ IsFiniteSet(UnitsAt(s, t))
         /\ Cardinality(UnitsAt(s, t)) = s[x] + Cardinality(UnitsAt(s, t \ {x}))
<1>1. PICK k \in Nat : k = s[x]
  OBVIOUS
<1> DEFINE A == UnitsAt(s, t \ {x})
           B == {x} \X (1..k)
<1>2. IsFiniteSet(B) /\ Cardinality(B) = k
  <2>1. PICK X, K : X = {x} /\ K = 1..k
    OBVIOUS
  <2>2. IsFiniteSet(X) /\ Cardinality(X) = 1
    BY <2>1, FS_Singleton
  <2>3. IsFiniteSet(K) /\ Cardinality(K) = k
    BY <1>1, <2>1, FS_Interval
  <2>4. IsFiniteSet(X \X K) /\ Cardinality(X \X K) = Cardinality(X) * Cardinality(K)
    BY <2>2, <2>3, FS_Product
  <2>5. 1 * k = k
    OBVIOUS
  <2> QED BY <2>1, <2>2, <2>3, <2>4, <2>5
<1>3. UnitsAt(s, t) = A \union B
  <2>1. ASSUME NEW p PROVE p \in UnitsAt(s, t) <=> p \in A \/ p \in B
    <3>1. p \in UnitsAt(s, t) <=> /\ p \in (1..n) \X (Nat \ {0}) /\ p[2] <= s[p[1]] /\ p[1] \in t
      BY DEF UnitsAt, Units
    <3>2. p \in A <=> /\ p \in (1..n) \X (Nat \ {0}) /\ p[2] <= s[p[1]] /\ p[1] \in t \ {x}
      BY DEF UnitsAt, Units
    <3>3. p \in B <=> /\ p \in (1..n) \X (Nat \ {0}) /\ p[2] <= k /\ p[1] = x
      <4>1. x \in 1..n
        OBVIOUS
      <4> QED BY <1>1, <4>1
    <3> QED BY <1>1, <3>1, <3>2, <3>3
  <2> QED BY <2>1
<1>4. A \intersect B = {}
  BY DEF UnitsAt
<1>5. PICK a, b : a = A /\ b = B
  OBVIOUS
<1> HIDE DEF A, B
<1>6. IsFiniteSet(a) /\ IsFiniteSet(b) /\ a \intersect b = {} /\ Cardinality(b) = k
  BY <1>2, <1>4, <1>5 DEF A
<1>7. IsFiniteSet(a \union b) /\ Cardinality(a \union b) = Cardinality(a) + Cardinality(b) - Cardinality(a \intersect b)
  BY <1>6, FS_Union
<1>8. Cardinality(a \intersect b) = 0 /\ Cardinality(a) \in Nat
  BY <1>6, FS_EmptySet, FS_CardinalityType
<1> QED BY <1>1, <1>3, <1>5, <1>6, <1>7, <1>8 DEF A

\* What FoldSeq's function satisfies when it adds.
Adds(h, n, s) ==
  h = [t \in SUBSET (1..n) |->
         IF t = {} THEN 0 ELSE s[CHOOSE x \in t : TRUE] + h[t \ {CHOOSE x \in t : TRUE}]]

\* The sum of some numbers is how many units they have.
LEMMA SumIs ==
  ASSUME NEW n \in Nat, NEW s \in [1..n -> Nat]
  PROVE  SumsTo(s, SumOf(s))
<1> DEFINE G == {k \in 0..n : \A t \in SUBSET (1..n) : Cardinality(t) = k => IsFiniteSet(UnitsAt(s, t))}
<1>1. \A t \in SUBSET (1..n) : IsFiniteSet(t) /\ Cardinality(t) \in 0..n
  <2>1. PICK D : D = 1..n /\ IsFiniteSet(D) /\ Cardinality(D) = n
    BY FS_Interval
  <2>2. ASSUME NEW t \in SUBSET (1..n) PROVE IsFiniteSet(t) /\ Cardinality(t) \in 0..n
    <3>0. t \in SUBSET D
      BY <2>1
    <3>1. IsFiniteSet(t) /\ Cardinality(t) <= n
      BY <2>1, <3>0, FS_Subset
    <3>2. Cardinality(t) \in Nat
      BY <3>1, FS_CardinalityType
    <3> QED BY <3>1, <3>2
  <2> QED BY <2>2
<1>2. UnitsAt(s, {}) = {} /\ IsFiniteSet({}) /\ Cardinality({}) = 0
  BY FS_EmptySet DEF UnitsAt
<1>3. \A t \in SUBSET (1..n) : Cardinality(t) = 0 => t = {}
  BY <1>1, FS_EmptySet
<1>4. ASSUME NEW t \in SUBSET (1..n), NEW x \in t
      PROVE  t \ {x} \in SUBSET (1..n) /\ Cardinality(t \ {x}) = Cardinality(t) - 1
  BY <1>1, FS_RemoveElement
<1>5. \A t \in SUBSET (1..n) : IsFiniteSet(UnitsAt(s, t))
  <2>1. 0 \in G
    <3>1. ASSUME NEW t \in SUBSET (1..n), Cardinality(t) = 0 PROVE IsFiniteSet(UnitsAt(s, t))
      <4>1. t = {}
        BY <1>3, <3>1
      <4> QED BY <1>2, <4>1
    <3> QED BY <3>1
  <2>2. ASSUME NEW k \in 0..n, k \in G, k < n PROVE k + 1 \in G
    <3>1. ASSUME NEW t \in SUBSET (1..n), Cardinality(t) = k + 1 PROVE IsFiniteSet(UnitsAt(s, t))
      <4>1. t # {}
        <5>1. k + 1 # 0
          BY <2>2
        <5> HIDE DEF G
        <5> QED BY <1>2, <3>1, <5>1
      <4>2. PICK x \in t : TRUE
        BY <4>1
      <4>3. IsFiniteSet(UnitsAt(s, t \ {x}))
        BY <1>4, <2>2, <3>1
      <4> QED BY <4>3, UnitsOneMore
    <3> QED BY <2>2, <3>1
  <2> HIDE DEF G
  <2>3. \A k \in 0..n : k \in G
    BY <2>1, <2>2, UpTo
  <2> QED BY <1>1, <2>3 DEF G
<1> HIDE DEF G
<1> DEFINE F == [t \in SUBSET (1..n) |-> Cardinality(UnitsAt(s, t))]
           Chosen(t) == CHOOSE x \in t : TRUE
           iter == CHOOSE h : Adds(h, n, s)
<1>6. ASSUME NEW t \in SUBSET (1..n), t # {}
      PROVE  Cardinality(UnitsAt(s, t)) = s[Chosen(t)] + Cardinality(UnitsAt(s, t \ {Chosen(t)}))
  <2>1. PICK x \in t : x = Chosen(t)
    BY <1>6
  <2>2. IsFiniteSet(UnitsAt(s, t \ {x}))
    BY <1>4, <1>5
  <2>3. Cardinality(UnitsAt(s, t)) = s[x] + Cardinality(UnitsAt(s, t \ {x}))
    BY <2>2, UnitsOneMore
  <2> QED BY <2>1, <2>3
<1>7. Adds(F, n, s)
  <2>1. ASSUME NEW t \in SUBSET (1..n)
        PROVE  F[t] = IF t = {} THEN 0 ELSE s[Chosen(t)] + F[t \ {Chosen(t)}]
    <3>1. CASE t = {}
      BY <1>2, <3>1
    <3>2. CASE t # {}
      <4>1. t \ {Chosen(t)} \in SUBSET (1..n)
        OBVIOUS
      <4> QED BY <1>6, <3>2, <4>1
    <3> QED BY <3>1, <3>2
  <2> HIDE DEF Chosen
  <2>2. F = [t \in SUBSET (1..n) |-> IF t = {} THEN 0 ELSE s[Chosen(t)] + F[t \ {Chosen(t)}]]
    <3>1. PICK f : f = F
      OBVIOUS
    <3>2. f = [t \in SUBSET (1..n) |-> f[t]]
      BY <3>1
    <3>3. \A t \in SUBSET (1..n) : f[t] = IF t = {} THEN 0 ELSE s[Chosen(t)] + f[t \ {Chosen(t)}]
      BY <2>1, <3>1
    <3> HIDE DEF F
    <3>4. f = [t \in SUBSET (1..n) |-> IF t = {} THEN 0 ELSE s[Chosen(t)] + f[t \ {Chosen(t)}]]
      BY <3>2, <3>3
    <3> QED BY <3>1, <3>4
  <2> QED BY <2>2 DEF Adds, Chosen
<1>8. Adds(iter, n, s)
  <2> HIDE DEF F
  <2> QED BY <1>7
<1>9. SumOf(s) = iter[1..n]
  BY DEF SumOf, FoldSeq, FoldFunction, FoldFunctionOnSet, MapThenFoldSet, Adds
<1> HIDE DEF iter
<1> DEFINE J == {k \in 0..n : \A t \in SUBSET (1..n) : Cardinality(t) = k => iter[t] = Cardinality(UnitsAt(s, t))}
<1>10. ASSUME NEW t \in SUBSET (1..n)
       PROVE  iter[t] = IF t = {} THEN 0 ELSE s[Chosen(t)] + iter[t \ {Chosen(t)}]
  BY <1>8 DEF Adds
<1>11. 0 \in J
  <2>1. ASSUME NEW t \in SUBSET (1..n), Cardinality(t) = 0 PROVE iter[t] = Cardinality(UnitsAt(s, t))
    <3>1. t = {}
      BY <1>3, <2>1
    <3>2. iter[t] = 0
      BY <1>10, <3>1
    <3> QED BY <1>2, <3>1, <3>2
  <2> QED BY <2>1
<1>12. ASSUME NEW k \in 0..n, k \in J, k < n PROVE k + 1 \in J
  <2>1. ASSUME NEW t \in SUBSET (1..n), Cardinality(t) = k + 1 PROVE iter[t] = Cardinality(UnitsAt(s, t))
    <3>1. t # {}
      <4>1. k + 1 # 0
        BY <1>12
      <4> HIDE DEF J, F, Chosen
      <4> QED BY <1>2, <2>1, <4>1
    <3>2. PICK x \in t : x = Chosen(t)
      BY <3>1
    <3>3. iter[t \ {x}] = Cardinality(UnitsAt(s, t \ {x}))
      BY <1>4, <1>12, <2>1
    <3> HIDE DEF J, F
    <3>4. iter[t] = s[x] + iter[t \ {x}]
      BY <1>10, <3>1, <3>2
    <3>5. Cardinality(UnitsAt(s, t)) = s[x] + Cardinality(UnitsAt(s, t \ {x}))
      BY <1>6, <3>1, <3>2
    <3> QED BY <3>3, <3>4, <3>5
  <2> QED BY <1>12, <2>1
<1>13. iter[1..n] = Cardinality(UnitsAt(s, 1..n))
  <2> HIDE DEF J
  <2>1. \A k \in 0..n : k \in J
    BY <1>11, <1>12, UpTo
  <2> QED BY <1>1, <2>1 DEF J
<1>14. UnitsAt(s, 1..n) = Units(s)
  BY DEF UnitsAt, Units
<1>15. IsFiniteSet(UnitsAt(s, 1..n))
  BY <1>5
<1> QED BY <1>9, <1>13, <1>14, <1>15 DEF SumsTo

-----------------------------------------------------------------------------
AllDigests == {DigestOf(k, l) : k \in KeysOf(Sources), l \in Lines}

LEMMA DigestsTold ==
  \A x, y \in AllDigests : OrderOf(x) \in Nat /\ (OrderOf(x) = OrderOf(y) => x = y)
BY OrderAssumption DEF AllDigests

LEMMA RefIsDigested ==
  ASSUME NEW r \in Refs PROVE RefDigest(r) \in AllDigests
<1>1. PICK k \in KeysOf(Sources), b \in Bodies : r.line \in ToSet(b) /\ r.ref.key = k
  BY DEF Refs, Reference
<1>2. r.line \in Lines
  BY <1>1 DEF Lines, ToSet, Range
<1> QED BY <1>1, <1>2 DEF AllDigests, RefDigest

\* The graver groups come first.
LEMMA GroupsSorted ==
  ASSUME NEW G, IsFiniteSet(DOMAIN G), DOMAIN G \subseteq AllDigests,
         \A x \in DOMAIN G : G[x].count \in Nat
  PROVE  /\ FingerprintSort(G) \in SetToSeqs(DOMAIN G)
         /\ \A i, j \in DOMAIN FingerprintSort(G) :
              i < j => SeverityRank(G[FingerprintSort(G)[i]].severity)
                         <= SeverityRank(G[FingerprintSort(G)[j]].severity)
<1> DEFINE S == DOMAIN G
           rank(x) == SeverityRank(G[x].severity)
           e == [x \in S |-> rank(x)]
           f == [x \in S |-> -(G[x].count)]
           g == [x \in S |-> 0]
           h == [x \in S |-> OrderOf(x)]
<1>1. \A x \in S : /\ G[x].count \in Nat /\ OrderOf(x) \in Nat
                   /\ \A y \in S : OrderOf(x) = OrderOf(y) => x = y
  BY DigestsTold
<1>2. \A x \in S : rank(x) \in Int
  BY DEF SeverityRank
<1>3. e \in [S -> Int] /\ f \in [S -> Int] /\ g \in [S -> Int] /\ h \in [S -> Int]
  BY <1>1, <1>2
<1>4. \A x \in S : e[x] = rank(x) /\ f[x] = -(G[x].count) /\ g[x] = 0 /\ h[x] = OrderOf(x)
  OBVIOUS
<1> HIDE DEF e, f, g, h, rank
<1>5. StrictOrder(ByKeys(S, e, f, g, h), S)
  BY <1>1, <1>3, <1>4, KeysOrder
<1>6. PICK s \in SetToSeqs(S) : \A i, j \in DOMAIN s : i < j => <<s[i], s[j]>> \in ByKeys(S, e, f, g, h)
  BY <1>5, CanBeSorted
<1> DEFINE Before(a, b) ==
             \/ rank(a) < rank(b)
             \/ rank(a) = rank(b) /\ G[a].count > G[b].count
             \/ rank(a) = rank(b) /\ G[a].count = G[b].count /\ FingerprintBefore(a, b)
<1>7. ASSUME NEW a \in S, NEW b \in S, <<a, b>> \in ByKeys(S, e, f, g, h) PROVE Before(a, b)
  <2>1. \/ e[a] < e[b]
        \/ e[a] = e[b] /\ f[a] < f[b]
        \/ e[a] = e[b] /\ f[a] = f[b] /\ h[a] < h[b]
    BY <1>4, <1>7 DEF ByKeys
  <2>2. /\ e[a] < e[b] => rank(a) < rank(b)
        /\ e[a] = e[b] => rank(a) = rank(b)
        /\ f[a] < f[b] => G[a].count > G[b].count
        /\ f[a] = f[b] => G[a].count = G[b].count
        /\ h[a] < h[b] => FingerprintBefore(a, b)
    BY <1>1, <1>4 DEF FingerprintBefore
  <2> QED BY <2>1, <2>2
<1>8. \A i \in DOMAIN s : s[i] \in S
  <2>1. s \in Seq(S)
    BY SetToSeqsElements
  <2> QED BY <2>1
<1>9. \A i, j \in DOMAIN s : i < j => Before(s[i], s[j])
  BY <1>6, <1>7, <1>8
<1> DEFINE Good(t) == t \in SetToSeqs(S) /\ \A i, j \in DOMAIN t : i < j => Before(t[i], t[j])
<1>10. FingerprintSort(G) = CHOOSE t : Good(t)
  BY DEF FingerprintSort, SortedBy, rank
<1>11. Good(FingerprintSort(G))
  <2>1. Good(s)
    BY <1>9
  <2> HIDE DEF Good
  <2> QED BY <1>10, <2>1
<1>12. \A i \in DOMAIN FingerprintSort(G) : FingerprintSort(G)[i] \in S
  <2>1. FingerprintSort(G) \in Seq(S)
    BY <1>11, SetToSeqsElements
  <2> QED BY <2>1
<1>13. \A a, b \in S : Before(a, b) => rank(a) <= rank(b)
  BY <1>2 DEF rank
<1>14. ASSUME NEW i \in DOMAIN FingerprintSort(G), NEW j \in DOMAIN FingerprintSort(G), i < j
       PROVE  rank(FingerprintSort(G)[i]) <= rank(FingerprintSort(G)[j])
  BY <1>11, <1>12, <1>13, <1>14
<1> QED BY <1>11, <1>14 DEF rank

\* The numbers of some groups, in any order, have the sum of the groups' counts.
LEMMA SumInOrder ==
  ASSUME NEW e, NEW m \in Nat, \A x \in DOMAIN e : e[x] \in Nat, IsFiniteSet(DOMAIN e), SumsTo(e, m),
         NEW s \in SetToSeqs(DOMAIN e)
  PROVE  SumOf([i \in DOMAIN s |-> e[s[i]]]) = m
<1>1. PICK n \in Nat : n = Cardinality(DOMAIN e)
  BY FS_CardinalityType
<1>2. /\ s \in [1..n -> DOMAIN e] /\ \A i, j \in 1..n : s[i] = s[j] => i = j
      /\ \A x \in DOMAIN e : \E i \in 1..n : s[i] = x
  <2>1. s \in Seq(DOMAIN e) /\ Len(s) = n /\ ToSet(s) = DOMAIN e
    BY <1>1, SetToSeqsElements
  <2>2. \A x \in DOMAIN e : \E i \in 1..n : s[i] = x
    BY <2>1 DEF ToSet
  <2> QED BY <1>1, <2>2 DEF SetToSeqs
<1>3. PICK c \in [1..n -> Nat] : c = [i \in DOMAIN s |-> e[s[i]]]
  BY <1>2
<1>4. \A i \in 1..n : c[i] = e[s[i]]
  BY <1>2, <1>3
<1>5. SumsTo(c, SumOf(c))
  BY SumIs
<1> DEFINE b == [p \in Units(c) |-> <<s[p[1]], p[2]>>]
<1>6. ASSUME NEW p \in Units(c)
      PROVE  /\ p = <<p[1], p[2]>> /\ p[1] \in 1..n /\ p[2] \in Nat \ {0} /\ p[2] <= e[s[p[1]]]
             /\ b[p] = <<s[p[1]], p[2]>> /\ b[p] \in Units(e)
  <2>1. p \in (1..n) \X (Nat \ {0}) /\ p[2] <= c[p[1]]
    BY DEF Units
  <2>2. p[1] \in 1..n /\ s[p[1]] \in DOMAIN e /\ p[2] <= e[s[p[1]]]
    BY <1>2, <1>4, <2>1
  <2> QED BY <2>1, <2>2 DEF Units
<1>7. b \in [Units(c) -> Units(e)]
  BY <1>6
<1>8. ASSUME NEW p \in Units(c), NEW q \in Units(c), b[p] = b[q] PROVE p = q
  <2>1. s[p[1]] = s[q[1]] /\ p[2] = q[2]
    BY <1>6, <1>8
  <2>2. p[1] = q[1]
    BY <1>2, <1>6, <2>1
  <2> QED BY <1>6, <2>1, <2>2
<1>9. ASSUME NEW q \in Units(e) PROVE \E p \in Units(c) : b[p] = q
  <2>1. q \in (DOMAIN e) \X (Nat \ {0}) /\ q[2] <= e[q[1]]
    BY DEF Units
  <2>2. PICK i \in 1..n : s[i] = q[1]
    BY <1>2, <2>1
  <2>3. <<i, q[2]>> \in Units(c)
    BY <1>4, <2>1, <2>2 DEF Units
  <2>4. b[<<i, q[2]>>] = q
    BY <2>1, <2>2, <2>3
  <2> QED BY <2>3, <2>4
<1> HIDE DEF b
<1>10. b \in Bijection(Units(c), Units(e))
  BY <1>7, <1>8, <1>9 DEF Bijection, Injection, Surjection, IsInjective
<1>11. Cardinality(Units(e)) = Cardinality(Units(c))
  <2>1. ExistsBijection(Units(c), Units(e))
    BY <1>10 DEF ExistsBijection
  <2>2. IsFiniteSet(Units(c))
    BY <1>5 DEF SumsTo
  <2> QED BY <2>1, <2>2, FS_Bijection
<1> QED BY <1>3, <1>5, <1>11 DEF SumsTo

-----------------------------------------------------------------------------
\* One place holds one line.
Coherent(d) == \A r, q \in ToSet(d) : r.ref = q.ref => RefDigest(r) = RefDigest(q)

Counted(f) == IF f.complete THEN f.matching ELSE f.matching - 1

\* The groups f as they are answered.
Listed(A, f) ==
  /\ A \in Seq(ToSet(A)) /\ Len(A) = Cardinality(DOMAIN f.groups)
  /\ \A i, j \in DOMAIN A : i < j =>
       /\ SeverityRank(A[i].severity) <= SeverityRank(A[j].severity)
       /\ A[i].first # A[j].first
  /\ SumOf([i \in DOMAIN A |-> A[i].count]) = Counted(f)

\* What is answered of the group g of a digest.
ListedAs(a, g, x, d) ==
  /\ a.count = g.count /\ a.severity = g.severity
  /\ \E r \in ToSet(d) \intersect ErrorRefs : RefDigest(r) = x /\ a.first = r.ref

LEMMA ListsGroup ==
  ASSUME NEW g, NEW x, NEW d, GroupOf(g, x, d)
  PROVE  ListedAs([g EXCEPT !.first = @[1], !.last = @[1]], g, x, d)
<1>0. PICK a : a = [g EXCEPT !.first = @[1], !.last = @[1]]
  OBVIOUS
<1>1. DOMAIN g = GroupFields
  BY DEF GroupOf
<1>2. a.count = g.count /\ a.severity = g.severity /\ a.first = g.first[1]
  BY <1>0, <1>1 DEF GroupFields
<1>3. PICK r \in ToSet(d) \intersect ErrorRefs : RefDigest(r) = x /\ g.first = <<r.ref>>
  BY DEF GroupOf
<1>4. \A e : <<e>>[1] = e
  OBVIOUS
<1> QED BY <1>0, <1>2, <1>3, <1>4 DEF ListedAs

LEMMA GroupsListed ==
  ASSUME NEW d, Coherent(d), NEW f, GroupsAre(f, d)
  PROVE  Listed(SortedGroups(f), f)
<1>1. PICK G, m : G = f.groups /\ m = Counted(f)
  OBVIOUS
<1>2. IsFiniteSet(DOMAIN G) /\ \A x \in DOMAIN G : GroupOf(G[x], x, d)
  BY <1>1 DEF GroupsAre
<1>3. m \in Nat /\ SumsTo(CountsOf(G), m)
  <2>1. CASE f.complete
    <3>1. m = f.matching /\ SumsTo(CountsOf(G), m)
      BY <1>1, <2>1 DEF GroupsAre, Counted
    <3>2. IsFiniteSet(Units(CountsOf(G))) /\ Cardinality(Units(CountsOf(G))) = m
      BY <3>1 DEF SumsTo
    <3> QED BY <3>1, <3>2, FS_CardinalityType
  <2>2. CASE ~ f.complete
    BY <1>1, <2>2 DEF GroupsAre, Counted
  <2> QED BY <2>1, <2>2
<1>4. \A x \in DOMAIN G : G[x].count \in Nat /\ x \in AllDigests
  <2>1. ASSUME NEW x \in DOMAIN G PROVE G[x].count \in Nat /\ x \in AllDigests
    <3>1. PICK r \in ErrorRefs : RefDigest(r) = x
      BY <1>2 DEF GroupOf
    <3>2. r \in Refs
      BY DEF ErrorRefs
    <3>3. G[x].count \in Nat
      BY <1>2 DEF GroupOf
    <3> QED BY <3>1, <3>2, <3>3, RefIsDigested
  <2> QED BY <2>1
<1>5. PICK s : s = FingerprintSort(G)
  OBVIOUS
<1>6. /\ s \in SetToSeqs(DOMAIN G)
      /\ \A i, j \in DOMAIN s : i < j => SeverityRank(G[s[i]].severity) <= SeverityRank(G[s[j]].severity)
  <2>1. DOMAIN G \subseteq AllDigests /\ \A x \in DOMAIN G : G[x].count \in Nat
    BY <1>4
  <2> QED BY <1>2, <1>5, <2>1, GroupsSorted
<1>7. PICK n \in Nat : n = Cardinality(DOMAIN G)
  BY <1>2, FS_CardinalityType
<1>8. /\ DOMAIN s = 1..n /\ \A i \in 1..n : s[i] \in DOMAIN G
      /\ \A i, j \in 1..n : i # j => s[i] # s[j]
  BY <1>6, <1>7 DEF SetToSeqs
<1> DEFINE one(x) == [G[x] EXCEPT !.first = @[1], !.last = @[1]]
           A == [i \in 1..n |-> one(s[i])]
<1>9. SortedGroups(f) = A
  BY <1>1, <1>5, <1>8 DEF SortedGroups
<1>10. \A i \in 1..n : A[i] = one(s[i])
  OBVIOUS
<1>11. DOMAIN A = 1..n /\ A \in Seq(ToSet(A)) /\ Len(A) = n
  <2>0. A = [i \in 1..n |-> A[i]] /\ DOMAIN A = 1..n
    OBVIOUS
  <2> HIDE DEF A
  <2>1. PICK T : T = ToSet(A)
    OBVIOUS
  <2>2. \A i \in 1..n : A[i] \in T
    BY <2>0, <2>1 DEF ToSet
  <2>3. A \in [1..n -> T]
    BY <2>0, <2>2
  <2> QED BY <2>1, <2>3
<1> HIDE DEF A
<1>12. ASSUME NEW i \in 1..n
       PROVE  /\ A[i].count = G[s[i]].count /\ A[i].severity = G[s[i]].severity
              /\ \E r \in ToSet(d) \intersect ErrorRefs : RefDigest(r) = s[i] /\ A[i].first = r.ref
  <2>1. PICK x, g : x = s[i] /\ g = G[x]
    OBVIOUS
  <2>2. GroupOf(g, x, d)
    BY <1>2, <1>8, <2>1
  <2>3. ListedAs([g EXCEPT !.first = @[1], !.last = @[1]], g, x, d)
    BY <2>2, ListsGroup
  <2>4. ListedAs(A[i], G[s[i]], s[i], d)
    BY <1>10, <2>1, <2>3
  <2> QED BY <2>4 DEF ListedAs
<1> HIDE DEF one
<1>13. ASSUME NEW i \in 1..n, NEW j \in 1..n, i < j
       PROVE  SeverityRank(A[i].severity) <= SeverityRank(A[j].severity) /\ A[i].first # A[j].first
  <2>1. SeverityRank(A[i].severity) <= SeverityRank(A[j].severity)
    BY <1>6, <1>8, <1>12, <1>13
  <2>2. PICK r \in ToSet(d) : RefDigest(r) = s[i] /\ A[i].first = r.ref
    BY <1>12
  <2>3. PICK q \in ToSet(d) : RefDigest(q) = s[j] /\ A[j].first = q.ref
    BY <1>12
  <2>4. s[i] # s[j]
    <3>1. i # j
      BY <1>13
    <3> QED BY <1>8, <3>1
  <2>5. A[i].first # A[j].first
    BY <2>2, <2>3, <2>4 DEF Coherent
  <2> QED BY <2>1, <2>5
<1>14. SumOf([i \in DOMAIN A |-> A[i].count]) = m
  <2>1. PICK e : e = CountsOf(G)
    OBVIOUS
  <2>2. DOMAIN e = DOMAIN G /\ \A x \in DOMAIN G : e[x] = G[x].count
    BY <2>1 DEF CountsOf
  <2>3. SumOf([i \in DOMAIN s |-> e[s[i]]]) = m
    <3>1. \A x \in DOMAIN e : e[x] \in Nat
      BY <1>4, <2>2
    <3>2. s \in SetToSeqs(DOMAIN e) /\ IsFiniteSet(DOMAIN e) /\ SumsTo(e, m)
      BY <1>2, <1>3, <1>6, <2>1, <2>2
    <3> QED BY <1>3, <3>1, <3>2, SumInOrder
  <2>4. [i \in DOMAIN s |-> e[s[i]]] = [i \in DOMAIN A |-> A[i].count]
    BY <1>8, <1>11, <1>12, <2>2
  <2> QED BY <2>3, <2>4
<1> QED BY <1>1, <1>7, <1>9, <1>11, <1>13, <1>14 DEF Listed

\* The lines as the files have them.
Placed == {r \in Refs : r.line = files[r.ref.key][r.ref.number]}

LEMMA FileIsPlaced ==
  ASSUME ToolsTyped, edition = 0, NEW s \in ToSet(Sources)
  PROVE  LinesIn(s) \in Seq(Placed)
<1>1. CASE files[s.key] = NoFile
  BY <1>1, EmptySeq DEF LinesIn
<1>2. CASE files[s.key] # NoFile
  <2>1. PICK k \in KeysOf(Sources), b \in Bodies : k = s.key /\ b = files[s.key] /\ LinesIn(s) = LinesFrom(k, b, 1)
    BY <1>2, LinesInIs
  <2>2. PICK m \in Nat : m = Len(b) /\ DOMAIN b = 1..m
    BY InputsAssumption, LenProperties
  <2> DEFINE at(i) == [ref |-> Reference(k, i, b[i]), line |-> b[i]]
  <2>3. ASSUME NEW i \in 1..m PROVE at(i) \in Placed
    <3>1. i \in Nat \ {0} /\ b[i] \in ToSet(b)
      BY <2>2 DEF ToSet
    <3>2. at(i) \in Refs
      BY <3>1 DEF Refs
    <3>3. at(i).ref.key = k /\ at(i).ref.number = i /\ at(i).line = b[i]
      BY DEF Reference
    <3> QED BY <2>1, <3>2, <3>3 DEF Placed
  <2>4. LinesFrom(k, b, 1) = [i \in 1..m |-> at(i)]
    <3>1. m - 1 + 1 = m /\ \A i \in 1..m : 1 + i - 1 = i
      BY <2>2
    <3> QED BY <2>2, <3>1 DEF LinesFrom
  <2> HIDE DEF at
  <2>5. [i \in 1..m |-> at(i)] \in Seq(Placed)
    BY <2>2, <2>3
  <2> QED BY <2>1, <2>4, <2>5
<1> QED BY <1>1, <1>2

LEMMA LinesPlaced ==
  ASSUME ToolsTyped, edition = 0, NEW ss \in Seq(ToSet(Sources))
  PROVE  LinesOf(ss) \in Seq(Placed)
<1>1. PICK S, T : S = ToSet(Sources) /\ T = Placed
  OBVIOUS
<1>2. PICK ll : ll = [i \in DOMAIN ss |-> LinesIn(ss[i])]
  OBVIOUS
<1>3. ll \in Seq(Seq(T))
  <2>1. DOMAIN ss = 1..Len(ss) /\ Len(ss) \in Nat /\ \A i \in 1..Len(ss) : ss[i] \in S
    BY <1>1, LenProperties, ElementOfSeq
  <2>2. \A i \in DOMAIN ss : LinesIn(ss[i]) \in Seq(T)
    BY <1>1, <2>1, FileIsPlaced
  <2> QED BY <1>2, <2>1, <2>2
<1>4. << >> \in Seq(T)
  BY EmptySeq
<1>5. FlattenSeq(ll) \in Seq(T)
  BY <1>3, <1>4, FlattenAppend
<1> QED BY <1>1, <1>2, <1>5 DEF LinesOf

LEMMA ReadIsCoherent ==
  ASSUME ToolsTyped, edition = 0
  PROVE  Coherent(LinesRead)
<1>1. PICK d, T : d = LinesRead /\ T = Placed
  OBVIOUS
<1>2. d \in Seq(T)
  BY <1>1, SelectsSources, LinesPlaced DEF LinesRead
<1>3. ToSet(d) \subseteq T
  BY <1>2, LenProperties, ElementOfSeq DEF ToSet
<1>4. ASSUME NEW r \in T, NEW q \in T, r.ref = q.ref PROVE RefDigest(r) = RefDigest(q)
  BY <1>1, <1>4 DEF Placed, RefDigest
<1> QED BY <1>1, <1>3, <1>4 DEF Coherent

-----------------------------------------------------------------------------
\* What a scan for groups has found, without the names of the files it searched.
Bare(f) == [f EXCEPT !.searched = << >>]

LEMMA BareGroups ==
  ASSUME NEW f, DOMAIN f = DOMAIN NoGroups, NEW r
  PROVE  /\ Bare(GroupLine(f, r.ref, r.line)) = GroupLine(Bare(f), r.ref, r.line)
         /\ DOMAIN GroupLine(f, r.ref, r.line) = DOMAIN NoGroups
<1>1. DOMAIN f = {"matching", "groups", "complete", "searched"}
  BY DEF NoGroups
<1>2. PICK x, a : x = DigestOf(r.ref.key, r.line) /\ a = AddEvent(IF x \in DOMAIN f.groups THEN f.groups[x] ELSE NewGroup(r.line), r.ref, r.line)
  OBVIOUS
<1>3. PICK g : g = Bare(f)
  OBVIOUS
<1>4. /\ DOMAIN g = DOMAIN f /\ g.matching = f.matching /\ g.groups = f.groups /\ g.complete = f.complete
      /\ g = [f EXCEPT !.searched = << >>]
  BY <1>1, <1>3 DEF Bare
<1>5. /\ GroupLine(f, r.ref, r.line) =
           IF ~ IsError(r.line) THEN f
           ELSE IF x \notin DOMAIN f.groups /\ Cardinality(DOMAIN f.groups) >= GroupLimit
           THEN [f EXCEPT !.matching = @ + 1, !.complete = FALSE]
           ELSE [f EXCEPT !.matching = @ + 1, !.groups = With(@, x, a)]
      /\ GroupLine(g, r.ref, r.line) =
           IF ~ IsError(r.line) THEN g
           ELSE IF x \notin DOMAIN f.groups /\ Cardinality(DOMAIN f.groups) >= GroupLimit
           THEN [g EXCEPT !.matching = @ + 1, !.complete = FALSE]
           ELSE [g EXCEPT !.matching = @ + 1, !.groups = With(@, x, a)]
  BY <1>2, <1>4 DEF GroupLine
<1>6. \A h : DOMAIN h = DOMAIN f =>
        /\ [[f EXCEPT !.matching = @ + 1, !.complete = FALSE] EXCEPT !.searched = << >>]
             = [[f EXCEPT !.searched = << >>] EXCEPT !.matching = @ + 1, !.complete = FALSE]
        /\ [[f EXCEPT !.matching = @ + 1, !.groups = With(@, x, a)] EXCEPT !.searched = << >>]
             = [[f EXCEPT !.searched = << >>] EXCEPT !.matching = @ + 1, !.groups = With(@, x, a)]
  BY <1>1
<1> QED BY <1>1, <1>3, <1>4, <1>5, <1>6 DEF Bare

LEMMA BareNothing == Bare(NoGroups) = NoGroups /\ DOMAIN NoGroups = {"matching", "groups", "complete", "searched"}
<1>1. PICK m, g, c, e : m = 0 /\ g = Empty /\ c = TRUE /\ e = << >>
  OBVIOUS
<1>2. NoGroups = [matching |-> m, groups |-> g, complete |-> c, searched |-> e]
  BY <1>1 DEF NoGroups
<1>3. [[matching |-> m, groups |-> g, complete |-> c, searched |-> e] EXCEPT !.searched = e]
        = [matching |-> m, groups |-> g, complete |-> c, searched |-> e]
  OBVIOUS
<1> QED BY <1>1, <1>2, <1>3 DEF Bare

GroupsGot == FlattenSeq([i \in DOMAIN pages |-> pages[i].groups])

\* All the groups of the lines read, as they are answered.
AllGroups == SortedGroups(CHOOSE f : Leads(f, LinesRead))

Led == LinesRead \in Seq(Refs) /\ \E f : Leads(f, LinesRead)

\* What a scan for groups has found is where the lines read lead.
GroupsScanned ==
  /\ DOMAIN found = DOMAIN NoGroups
  /\ IF found.complete THEN Leads(Bare(found), Done)
     ELSE LinesRead \in Seq(Refs) /\ Leads(Bare(found), LinesRead)

GroupsAnswered ==
  /\ DOMAIN found = DOMAIN NoGroups
  /\ LinesRead \in Seq(Refs) /\ Leads(Bare(found), LinesRead)
  /\ answer = GroupErrorsPayload(call, found)

\* What the client has is a part of the groups, up to where the call begins.
GroupPages ==
  /\ pages \in Seq(ToSet(pages)) /\ AllIn(pages, "groups", ToSet(AllGroups))
  /\ pages # << >> =>
       /\ Led /\ call.offset \in 0..Len(AllGroups)
       /\ \E start \in 0..call.offset :
            /\ GroupsGot = SubSeq(AllGroups, start + 1, call.offset)
            /\ pages[1].nextOffset = start + Len(pages[1].groups)

GroupsFound ==
  call.op = "group_errors" =>
    /\ call.offset \in Int
    /\ phase \in {"scanning", "answered"} => call.limit \in 1..MaxWindow /\ call.offset \in Nat
    /\ phase = "scanning" => GroupsScanned
    /\ phase = "answered" => GroupsAnswered
    /\ GroupPages

LEMMA GroupsInitial == ToolsInit => GroupsFound
<1> SUFFICES ASSUME ToolsInit PROVE GroupsFound
  OBVIOUS
<1>1. phase = "checking" /\ pages = << >> /\ call.offset \in Int
  BY InputsAssumption DEF ToolsInit
<1>2. << >> \in Seq(ToSet(<< >>)) /\ DOMAIN << >> = {}
  BY EmptySeq
<1> QED BY <1>1, <1>2 DEF GroupsFound, GroupPages, AllIn

\* No step of a call for groups changes what there is to read.
LEMMA GroupsReadSame ==
  ASSUME ToolsTyped, ToolsTyped', [ToolsNext]_vars, call.op = "group_errors"
  PROVE  /\ edition = 0 /\ edition' = 0 /\ call'.op = call.op /\ call'.limit = call.limit
         /\ LinesRead' = LinesRead /\ AllGroups' = AllGroups
<1>1. call'.op = call.op /\ call'.keys = call.keys /\ call'.limit = call.limit
  <2>1. SameRequest
    BY RequestKept
  <2> QED BY <2>1 DEF SameRequest, RequestFields
<1>2. edition = 0 /\ edition' = 0
  BY <1>1 DEF ToolsTyped
<1>3. files' = files
  <2>1. CASE Recollect
    BY <2>1 DEF Recollect, ToolsTyped
  <2>2. CASE ~ Recollect
    BY <2>2 DEF ToolsNext, vars, Refuse, BeginScan, OpenSource, SourceMissing, ScanLine, CloseSource,
       SecondPass, Answer, ListLogSnapshotFiles, ReadLogSnapshotFile, GrepLogSnapshot, Reply, NextPage
  <2> QED BY <2>1, <2>2
<1>4. Opened(call') = Opened(call)
  <2>1. Selected(call') = Selected(call)
    BY <1>1 DEF Selected
  <2>2. Opened(call) = Selected(call)
    BY ProxyOpensAll
  <2>3. PICK c : c = call'
    OBVIOUS
  <2>4. c.op # "inspect_probe_blocking_activity"
    BY <1>1, <2>3
  <2>5. Opened(c) = Selected(c)
    BY <2>4, ProxyOpensAll
  <2> QED BY <2>1, <2>2, <2>3, <2>5
<1>5. LinesRead' = LinesRead
  BY <1>3, <1>4 DEF LinesRead, LinesOf, LinesIn
<1>6. AllGroups' = AllGroups
  BY <1>5 DEF AllGroups
<1> QED BY <1>1, <1>2, <1>5, <1>6

\* The groups of the lines that were read.
LEMMA AllGroupsAre ==
  ASSUME ToolsTyped, edition = 0, LinesRead \in Seq(Refs), NEW f, Leads(f, LinesRead)
  PROVE  AllGroups = SortedGroups(f) /\ Listed(AllGroups, f) /\ GroupsAre(f, LinesRead)
<1>1. PICK d \in Seq(Refs) : d = LinesRead
  OBVIOUS
<1>2. PICK g : g = CHOOSE x : Leads(x, d)
  OBVIOUS
<1>3. Leads(g, d)
  BY <1>1, <1>2
<1>4. g = f
  BY <1>1, <1>3, LeadsOnce
<1>5. GroupsAre(f, d)
  BY <1>1, LeadsToGroups
<1>6. Coherent(d)
  BY <1>1, ReadIsCoherent
<1>7. Listed(SortedGroups(f), f)
  BY <1>5, <1>6, GroupsListed
<1> QED BY <1>1, <1>2, <1>4, <1>5, <1>7 DEF AllGroups

\* An answer does not say what was searched.
LEMMA BareAnswer ==
  ASSUME NEW c, NEW f, DOMAIN f = DOMAIN NoGroups
  PROVE  LET a == GroupErrorsPayload(c, f)
             p == Page(SortedGroups(Bare(f)), c.offset, c.limit)
         IN /\ a.groups = p /\ a.nextOffset = c.offset + Len(p)
            /\ a.truncated = (c.offset + Len(p) < Len(SortedGroups(Bare(f))))
            /\ a.matching = Bare(f).matching /\ a.complete = Bare(f).complete
<1>1. Bare(f).groups = f.groups /\ Bare(f).matching = f.matching /\ Bare(f).complete = f.complete
  BY DEF Bare, NoGroups
<1>2. SortedGroups(Bare(f)) = SortedGroups(f)
  BY <1>1 DEF SortedGroups
<1> QED BY <1>1, <1>2 DEF GroupErrorsPayload

\* The next page goes on where the last one ended.
LEMMA GroupsPaged ==
  ASSUME ToolsTyped, ToolsTyped', GroupsFound, [ToolsNext]_vars, call.op = "group_errors", NextPage
  PROVE  GroupPages' /\ call'.offset \in Int
<1>1. /\ phase = "answered" /\ More /\ pages' = Append(pages, answer)
      /\ call' = [call EXCEPT !.offset = Advance]
  BY DEF NextPage
<1>2. edition = 0 /\ LinesRead' = LinesRead /\ AllGroups' = AllGroups
  BY GroupsReadSame
<1>3. GroupsAnswered /\ GroupPages /\ call.limit \in 1..MaxWindow /\ call.offset \in Nat
  BY <1>1 DEF GroupsFound
<1>4. PICK n \in Nat, o \in Nat : n = call.limit /\ o = call.offset
  BY <1>3, LimitsAssumption
<1>5. PICK f : f = Bare(found)
  OBVIOUS
<1>6. LinesRead \in Seq(Refs) /\ Leads(f, LinesRead)
  BY <1>3, <1>5 DEF GroupsAnswered
<1>7. PICK A, T : A = AllGroups /\ T = ToSet(A)
  OBVIOUS
<1>8. A = SortedGroups(f) /\ A \in Seq(T) /\ Len(A) \in Nat
  BY <1>2, <1>6, <1>7, AllGroupsAre, LenProperties DEF Listed
<1>9. PICK p, a : p = Page(A, o, n) /\ a = answer
  OBVIOUS
<1>10. a.groups = p /\ a.nextOffset = o + Len(p) /\ a.truncated = (o + Len(p) < Len(A))
  BY <1>3, <1>4, <1>5, <1>8, <1>9, BareAnswer DEF GroupsAnswered
<1>11. /\ p \in Seq(T)
       /\ o <= Len(A) => \A start \in 0..o :
            SubSeq(A, start + 1, o) \o p = SubSeq(A, start + 1, o + Len(p))
  <2>1. A \in Seq(T) /\ p = Page(A, o, n)
    BY <1>8, <1>9
  <2> QED BY <2>1, PageIs
<1>12. o + Len(p) < Len(A) /\ Len(p) \in Nat
  <2>1. a.truncated
    BY <1>1, <1>9 DEF More
  <2> QED BY <1>10, <1>11, <2>1, LenProperties
<1>13. call'.offset = o + Len(p)
  BY <1>1, <1>9, <1>10 DEF Advance, ToolsTyped, RequestFields
<1>14. PageAdded(Append(pages, a), pages, a, "groups", T)
  <2>1. PICK ps : ps = pages
    OBVIOUS
  <2>2. ps \in Seq(ToSet(ps)) /\ AllIn(ps, "groups", T) /\ a["groups"] \in Seq(T)
    BY <1>3, <1>7, <1>10, <1>11, <2>1 DEF GroupPages
  <2>3. PageAdded(Append(ps, a), ps, a, "groups", T)
    BY <2>2, OneMorePage
  <2> QED BY <2>1, <2>3
<1>15. /\ pages' \in Seq(ToSet(pages')) /\ pages' # << >> /\ AllIn(pages', "groups", T)
       /\ GroupsGot' = GroupsGot \o p
       /\ pages # << >> => pages'[1] = pages[1]
       /\ pages = << >> => pages'[1] = a
  BY <1>1, <1>9, <1>10, <1>14 DEF PageAdded, GroupsGot, Fields
<1>16. PICK start \in 0..o : /\ GroupsGot = SubSeq(A, start + 1, o)
                             /\ pages'[1].nextOffset = start + Len(pages'[1].groups)
  <2>1. CASE pages = << >>
    <3>1. GroupsGot = << >>
      BY <2>1, FlattenEmpty DEF GroupsGot
    <3>2. SubSeq(A, o + 1, o) = << >> /\ o \in 0..o
      BY SubSeqEmpty
    <3>3. pages'[1].nextOffset = o + Len(pages'[1].groups)
      BY <1>10, <1>15, <2>1
    <3> QED BY <3>1, <3>2, <3>3
  <2>2. CASE pages # << >>
    BY <1>3, <1>4, <1>7, <1>15, <2>2 DEF GroupPages
  <2> QED BY <2>1, <2>2
<1>17. GroupsGot' = SubSeq(A, start + 1, call'.offset)
  <2>1. o <= Len(A)
    BY <1>8, <1>12
  <2> QED BY <1>11, <1>13, <1>15, <1>16, <2>1
<1>18. call'.offset \in 0..Len(A) /\ call'.offset \in Int /\ start \in 0..call'.offset
  BY <1>8, <1>12, <1>13
<1>19. Led'
  BY <1>2, <1>6 DEF Led
<1>20. AllGroups' = A /\ ToSet(AllGroups)' = T
  BY <1>2, <1>7
<1> QED BY <1>15, <1>16, <1>17, <1>18, <1>19, <1>20 DEF GroupPages

LEMMA GroupsFoundStep ==
  ASSUME ToolsTyped, ToolsTyped', CursorInv, CursorInv', GroupsFound, [ToolsNext]_vars
  PROVE  GroupsFound'
<1>1. call'.op = call.op
  <2>1. SameRequest
    BY RequestKept
  <2> QED BY <2>1 DEF SameRequest, RequestFields
<1> SUFFICES ASSUME call.op = "group_errors" PROVE GroupsFound'
  BY <1>1 DEF GroupsFound
<1>2. edition = 0 /\ edition' = 0 /\ LinesRead' = LinesRead /\ AllGroups' = AllGroups
  BY GroupsReadSame
<1>3. /\ call.offset \in Int
      /\ phase \in {"scanning", "answered"} => call.limit \in 1..MaxWindow /\ call.offset \in Nat
      /\ phase = "scanning" => GroupsScanned
      /\ phase = "answered" => GroupsAnswered
      /\ GroupPages
  BY DEF GroupsFound
<1>4. phase # "rescanning"
  BY DEF ToolsTyped
<1>5. ASSUME UNCHANGED <<call, pages>> PROVE GroupPages' /\ call'.offset \in Int
  <2>1. GroupsGot' = GroupsGot /\ Led' = Led
    BY <1>2, <1>5 DEF GroupsGot, Led
  <2> QED BY <1>2, <1>3, <1>5, <2>1 DEF GroupPages, AllIn
<1>6. CASE UNCHANGED vars
  <2>1. UNCHANGED <<files, call, phase, todo, handle, found, answer, pages>>
    BY <1>6 DEF vars
  <2>2. Done' = Done
    BY <2>1 DEF LinesRead, LinesOf, LinesIn, Rest, Done
  <2>3. (GroupsScanned => GroupsScanned') /\ (GroupsAnswered => GroupsAnswered')
    BY <1>2, <2>1, <2>2 DEF GroupsScanned, GroupsAnswered
  <2> QED BY <1>3, <1>5, <2>1, <2>3 DEF GroupsFound
<1>7. CASE BeginScan
  <2>1. /\ handle' = Closed /\ todo' = Opened(call)' /\ phase' = "scanning"
        /\ found' = NothingFound(call) /\ call' = call /\ pages' = pages /\ Refusal(call) = 0
    BY <1>7 DEF BeginScan, Accepted, ToolsTyped
  <2>2. Done' = << >>
    BY <1>2, <2>1, NextBegins
  <2>3. found' = NoGroups
    BY <2>1 DEF NothingFound, Grouping
  <2>4. NoGroups.complete = TRUE
    BY DEF NoGroups
  <2>5. GroupsScanned'
    BY <2>2, <2>3, <2>4, BareNothing, LeadsNowhere DEF GroupsScanned
  <2>6. call.limit \in 1..MaxWindow /\ call.offset \in Nat
    <3>1. call.limit \in 1..MaxWindow /\ ~ (call.offset < 0)
      BY <2>1, GroupsNotRefused DEF Grouping
    <3> QED BY <1>3, <3>1
  <2> QED BY <1>5, <2>1, <2>5, <2>6 DEF GroupsFound
<1>8. CASE OpenSource
  <2>1. Done' = Done
    BY <1>2, <1>8, OpensUnread
  <2>2. /\ Working /\ ~ Stopped /\ phase' = phase /\ call' = call /\ pages' = pages
        /\ \E x : found' = [found EXCEPT !.searched = x]
    BY <1>8 DEF OpenSource, Grouping
  <2>3. phase = "scanning" /\ found.complete
    BY <1>4, <2>2 DEF Working, Stopped, Grouping
  <2>4. DOMAIN found = DOMAIN NoGroups /\ Leads(Bare(found), Done)
    BY <1>3, <2>3 DEF GroupsScanned
  <2>5. DOMAIN found' = DOMAIN NoGroups /\ found'.complete = found.complete /\ Bare(found') = Bare(found)
    <3>1. PICK f, g, x : f = found /\ g = found' /\ g = [f EXCEPT !.searched = x]
      BY <2>2
    <3>2. DOMAIN f = {"matching", "groups", "complete", "searched"}
      BY <2>4, <3>1, BareNothing
    <3>3. DOMAIN g = DOMAIN f /\ g.complete = f.complete
      BY <3>1, <3>2
    <3>4. [[f EXCEPT !.searched = x] EXCEPT !.searched = << >>] = [f EXCEPT !.searched = << >>]
      BY <3>2
    <3> QED BY <2>4, <3>1, <3>3, <3>4 DEF Bare
  <2>6. GroupsScanned'
    BY <2>1, <2>3, <2>4, <2>5 DEF GroupsScanned
  <2> QED BY <1>3, <1>5, <2>2, <2>3, <2>6 DEF GroupsFound
<1>9. CASE ScanLine
  <2>1. /\ NextRef \in Refs /\ Done \in Seq(Refs) /\ Done' = Append(Done, NextRef)
        /\ LinesRead = Done' \o Rest' /\ Rest' \in Seq(Refs)
    BY <1>2, <1>9, ScanReads
  <2>2. /\ Working /\ ~ Stopped /\ phase' = phase /\ call' = call /\ pages' = pages
        /\ found' \in Found(handle.lines[handle.next])
    BY <1>9 DEF ScanLine
  <2>3. phase = "scanning" /\ found.complete
    BY <1>4, <2>2 DEF Working, Stopped, Grouping
  <2>4. DOMAIN found = DOMAIN NoGroups /\ Leads(Bare(found), Done)
    BY <1>3, <2>3 DEF GroupsScanned
  <2>5. found' = GroupLine(found, NextRef.ref, NextRef.line)
    BY <2>2 DEF Found, Grouping, NextRef
  <2>6. PICK d, r, f, g : d = Done /\ r = NextRef /\ f = found /\ g = found'
    OBVIOUS
  <2>7. DOMAIN f = DOMAIN NoGroups /\ g = GroupLine(f, r.ref, r.line)
    BY <2>4, <2>5, <2>6
  <2>8. Bare(g) = GroupLine(Bare(f), r.ref, r.line) /\ DOMAIN g = DOMAIN NoGroups
    BY <2>7, BareGroups
  <2>9. Bare(g).complete = g.complete /\ Bare(f).complete = f.complete
    BY <2>7, <2>8, BareNothing DEF Bare
  <2>10. Leads(Bare(g), Append(d, r))
    <3>1. Leads(GroupStep(Bare(f), r), Append(d, r))
      BY <2>1, <2>4, <2>6, LeadsOn
    <3>2. GroupStep(Bare(f), r) = Bare(g)
      BY <2>3, <2>6, <2>8, <2>9 DEF GroupStep
    <3> QED BY <3>1, <3>2
  <2>11. GroupsScanned'
    <3>1. CASE g.complete
      BY <2>1, <2>6, <2>8, <2>10, <3>1 DEF GroupsScanned
    <3>2. CASE ~ g.complete
      <4>1. PICK all \in Seq(Refs), rest \in Seq(Refs) : all = Append(d, r) /\ rest = Rest'
        BY <2>1, <2>6, AppendProperties
      <4>2. Leads(Bare(g), all) /\ ~ Bare(g).complete
        BY <2>9, <2>10, <3>2, <4>1
      <4>3. Leads(Bare(g), all \o rest) /\ all \o rest \in Seq(Refs)
        BY <4>2, LeadsNoFurther, ConcatProperties
      <4>4. LinesRead' = all \o rest
        BY <1>2, <2>1, <2>6, <4>1
      <4> QED BY <2>6, <2>8, <3>2, <4>3, <4>4 DEF GroupsScanned
    <3> QED BY <3>1, <3>2
  <2> QED BY <1>3, <1>5, <2>2, <2>3, <2>11 DEF GroupsFound
<1>10. CASE CloseSource
  <2>1. Working /\ phase' = phase /\ found' = found /\ call' = call /\ pages' = pages
    BY <1>10 DEF CloseSource
  <2>2. phase = "scanning" /\ GroupsScanned
    BY <1>3, <1>4, <2>1 DEF Working
  <2>3. found.complete => Done' = Done
    BY <1>2, <1>10, ClosesRead DEF Stopped
  <2>4. GroupsScanned'
    BY <1>2, <2>1, <2>2, <2>3 DEF GroupsScanned
  <2> QED BY <1>3, <1>5, <2>1, <2>2, <2>4 DEF GroupsFound
<1>11. CASE Answer
  <2>1. /\ Working /\ Exhausted /\ phase' = "answered" /\ answer' = Payload(call, found)
        /\ UNCHANGED <<call, found, pages>>
    BY <1>11 DEF Answer
  <2>2. phase = "scanning" /\ GroupsScanned
    BY <1>3, <1>4, <2>1 DEF Working
  <2>3. LinesRead \in Seq(Refs) /\ Leads(Bare(found), LinesRead)
    <3>1. CASE found.complete
      <4>1. ~ Stopped
        BY <3>1 DEF Stopped
      <4>2. Done = LinesRead /\ LinesRead \in Seq(Refs)
        BY <1>2, <2>1, <4>1, ScanEnds
      <4> QED BY <2>2, <3>1, <4>2 DEF GroupsScanned
    <3>2. CASE ~ found.complete
      BY <2>2, <3>2 DEF GroupsScanned
    <3> QED BY <3>1, <3>2
  <2>4. answer' = GroupErrorsPayload(call, found)
    BY <2>1 DEF Payload
  <2>5. GroupsAnswered'
    BY <1>2, <2>1, <2>2, <2>3, <2>4 DEF GroupsAnswered, GroupsScanned
  <2> QED BY <1>3, <1>5, <2>1, <2>2, <2>5 DEF GroupsFound
<1>12. CASE NextPage
  <2>1. phase' = "checking"
    BY <1>12 DEF NextPage
  <2>2. GroupPages' /\ call'.offset \in Int
    BY <1>12, GroupsPaged
  <2> QED BY <2>1, <2>2 DEF GroupsFound
<1>13. CASE Refuse \/ SourceMissing
  <2>1. phase' = "refused" /\ UNCHANGED <<call, pages>>
    BY <1>13 DEF Refuse, SourceMissing
  <2> QED BY <1>5, <2>1 DEF GroupsFound
<1>14. ~ (ListLogSnapshotFiles \/ ReadLogSnapshotFile \/ GrepLogSnapshot \/ SecondPass \/ Recollect)
  BY <1>4 DEF ListLogSnapshotFiles, ReadLogSnapshotFile, GrepLogSnapshot, SecondPass, Recollect
<1> QED
  BY <1>6, <1>7, <1>8, <1>9, <1>10, <1>11, <1>12, <1>13, <1>14 DEF ToolsNext

\* GroupPagesPartition, of all the groups and the answer a to the lines d.
Partition(all, a, d) ==
  LET counted == SumOf([i \in DOMAIN all |-> all[i].count])
      errors == Where(d, LAMBDA l : IsError(l.line))
  IN /\ \A i, j \in DOMAIN all : i < j =>
            /\ SeverityRank(all[i].severity) <= SeverityRank(all[j].severity)
            /\ all[i].first # all[j].first
     /\ IF a.complete
        THEN /\ counted = Len(errors) /\ a.matching = counted
             /\ Len(all) = Cardinality({DigestOf(errors[i].ref.key, errors[i].line) : i \in DOMAIN errors})
        ELSE /\ Len(all) = GroupLimit
             /\ a.matching = counted + 1
             /\ a.matching <= Len(errors)

LEMMA ErrorsAre ==
  ASSUME NEW d \in Seq(Refs)
  PROVE  LET errors == Where(d, LAMBDA l : IsError(l.line))
         IN /\ errors = Filter(d, ErrorRefs)
            /\ {DigestOf(errors[i].ref.key, errors[i].line) : i \in DOMAIN errors} = DigestsIn(d)
<1>1. PICK S, e : S = {l \in ToSet(d) : IsError(l.line)} /\ e = Filter(d, S)
  OBVIOUS
<1>2. ToSet(d) \subseteq Refs
  BY LenProperties, ElementOfSeq DEF ToSet
<1>3. \A x \in ToSet(d) : x \in S <=> x \in ErrorRefs
  BY <1>1, <1>2 DEF ErrorRefs
<1>4. e = Filter(d, ErrorRefs)
  BY <1>1, <1>3, FilterSame
<1>5. ToSet(e) = ToSet(d) \intersect ErrorRefs
  BY <1>4, FilterElements
<1>6. {DigestOf(e[i].ref.key, e[i].line) : i \in DOMAIN e} = {RefDigest(r) : r \in ToSet(e)}
  BY DEF RefDigest, ToSet
<1> QED BY <1>1, <1>4, <1>5, <1>6 DEF Where, DigestsIn

LEMMA ListedPartition ==
  ASSUME NEW d \in Seq(Refs), NEW f, GroupsAre(f, d), NEW A, Listed(A, f),
         NEW a, a.matching = f.matching, a.complete = f.complete
  PROVE  Partition(A, a, d)
<1>1. PICK e, D : e = Filter(d, ErrorRefs) /\ D = DigestsIn(d)
  OBVIOUS
<1>2. PICK m \in Nat : m = Len(e)
  BY <1>1, FilterElements, LenProperties
<1>3. /\ \A i, j \in DOMAIN A : i < j =>
           /\ SeverityRank(A[i].severity) <= SeverityRank(A[j].severity)
           /\ A[i].first # A[j].first
      /\ SumOf([i \in DOMAIN A |-> A[i].count]) = Counted(f)
      /\ Len(A) = Cardinality(DOMAIN f.groups)
  BY DEF Listed
<1>4. CASE a.complete
  <2>1. f.matching = m /\ DOMAIN f.groups = D /\ Counted(f) = m
    BY <1>1, <1>2, <1>4 DEF GroupsAre, Counted
  <2> QED BY <1>1, <1>2, <1>3, <1>4, <2>1, ErrorsAre DEF Partition
<1>5. CASE ~ a.complete
  <2>1. /\ Len(A) = GroupLimit /\ f.matching \in Nat \ {0} /\ f.matching <= m
        /\ Counted(f) = f.matching - 1
    BY <1>1, <1>2, <1>3, <1>5 DEF GroupsAre, Counted
  <2>2. f.matching = Counted(f) + 1
    BY <2>1
  <2> QED BY <1>1, <1>2, <1>3, <1>5, <2>1, <2>2, ErrorsAre DEF Partition
<1> QED BY <1>4, <1>5

\* A client that began at the first group has all of them with the last answer.
LEMMA AllGroupsGot ==
  ASSUME ToolsTyped, GroupsFound, Answered("group_errors"), ~ answer.truncated,
         NEW begin, begin = Head(Append(pages, answer)), begin.nextOffset = Len(begin.groups)
  PROVE  GroupsGot \o answer.groups = AllGroups
<1>1. GroupsAnswered /\ GroupPages /\ call.limit \in 1..MaxWindow /\ call.offset \in Nat /\ edition = 0
  BY DEF GroupsFound, Answered
<1>2. PICK n \in Nat, o \in Nat : n = call.limit /\ o = call.offset
  BY <1>1, LimitsAssumption
<1>3. PICK f, A, T : f = Bare(found) /\ A = AllGroups /\ T = ToSet(A)
  OBVIOUS
<1>4. A = SortedGroups(f) /\ A \in Seq(T) /\ Len(A) \in Nat
  BY <1>1, <1>3, AllGroupsAre, LenProperties DEF Listed, GroupsAnswered
<1>5. PICK p, a : p = Page(A, o, n) /\ a = answer
  OBVIOUS
<1>6. a.groups = p /\ a.nextOffset = o + Len(p) /\ ~ (o + Len(p) < Len(A))
  BY <1>1, <1>2, <1>3, <1>4, <1>5, BareAnswer DEF GroupsAnswered
<1>7. p \in Seq(T) /\ Len(p) \in Nat
  <2>1. A \in Seq(T) /\ p = Page(A, o, n)
    BY <1>4, <1>5
  <2>2. p \in Seq(T)
    BY <2>1, PageIs
  <2> QED BY <2>2, LenProperties
<1>8. o <= Len(A) /\ GroupsGot = SubSeq(A, 1, o)
  <2>0. PICK ps : ps = pages /\ ps \in Seq(ToSet(ps))
    BY <1>1 DEF GroupPages
  <2>1. CASE pages = << >>
    <3>1. GroupsGot = << >>
      BY <2>1, FlattenEmpty DEF GroupsGot
    <3>2. begin = a
      <4>1. Head(Append(<< >>, a)) = a
        OBVIOUS
      <4> QED BY <1>5, <2>1, <4>1
    <3>3. o = 0
      BY <1>6, <1>7, <3>2
    <3>4. SubSeq(A, 1, 0) = << >>
      BY SubSeqEmpty
    <3> QED BY <1>4, <3>1, <3>3, <3>4
  <2>2. CASE pages # << >>
    <3>1. PICK start \in 0..o : /\ GroupsGot = SubSeq(A, start + 1, o)
                                /\ pages[1].nextOffset = start + Len(pages[1].groups)
      BY <1>1, <1>2, <1>3, <2>2 DEF GroupPages
    <3>2. o <= Len(A)
      BY <1>1, <1>2, <1>3, <2>2 DEF GroupPages
    <3>3. begin = pages[1]
      <4>1. ps # << >> /\ Len(ps) \in Nat /\ Len(ps) # 0 /\ DOMAIN ps = 1..Len(ps)
        BY <2>0, <2>2, LenProperties, EmptySeq
      <4>2. Head(Append(ps, a)) = ps[1]
        BY <2>0, <4>1
      <4> QED BY <1>5, <2>0, <4>2
    <3>4. Len(pages[1].groups) \in Nat
      <4>1. 1 \in DOMAIN ps
        BY <2>0, <2>2
      <4>2. pages[1].groups \in Seq(ToSet(AllGroups))
        BY <1>1, <2>0, <4>1 DEF GroupPages, AllIn
      <4> QED BY <4>2, LenProperties
    <3>5. start = 0
      BY <3>1, <3>3, <3>4
    <3> QED BY <3>1, <3>2, <3>5
  <2> QED BY <2>1, <2>2
<1>9. SubSeq(A, 1, o) \o p = A
  BY <1>4, <1>5, <1>6, <1>8, LastPage
<1> QED BY <1>3, <1>5, <1>6, <1>8, <1>9

LEMMA GroupsTrue == ToolsTyped /\ GroupsFound => GroupPagesPartition
<1> SUFFICES ASSUME ToolsTyped, GroupsFound, Answered("group_errors"), ~ answer.truncated,
                    NEW begin, begin = Head(Append(pages, answer)), begin.nextOffset = Len(begin.groups)
             PROVE  Partition(GroupsGot \o answer.groups, answer, LinesRead)
  BY DEF GroupPagesPartition, Partition, GroupsGot
<1>1. GroupsAnswered /\ edition = 0
  BY DEF GroupsFound, Answered
<1>0. PICK f, A, a : f = Bare(found) /\ A = AllGroups /\ a = answer
  OBVIOUS
<1>2. PICK d \in Seq(Refs) : d = LinesRead /\ f = Bare(found) /\ A = AllGroups /\ a = answer
  BY <1>0, <1>1 DEF GroupsAnswered
<1>3. Listed(A, f) /\ GroupsAre(f, d)
  BY <1>1, <1>2, AllGroupsAre DEF GroupsAnswered
<1>4. a.matching = f.matching /\ a.complete = f.complete
  BY <1>1, <1>2, BareAnswer DEF GroupsAnswered
<1>5. Partition(A, a, d)
  BY <1>3, <1>4, ListedPartition
<1> QED BY <1>2, <1>5, AllGroupsGot

\* In every behaviour of the tools, whatever the files hold, the limit of groups and
\* the client's windows: the pages of group_errors that begin at the first group are
\* a partition of the error-like lines (group_errors in src/tools/analysis.py).
THEOREM GroupsPartition == ToolsSpec => []GroupPagesPartition
<1>1. ToolsInit => ToolsTyped /\ CursorInv /\ GroupsFound
  BY ToolsInitial, CursorInitial, GroupsInitial
<1>2. ToolsTyped /\ CursorInv /\ GroupsFound /\ [ToolsNext]_vars => (ToolsTyped /\ CursorInv /\ GroupsFound)'
  <2> SUFFICES ASSUME ToolsTyped, CursorInv, GroupsFound, [ToolsNext]_vars
               PROVE  ToolsTyped' /\ CursorInv' /\ GroupsFound'
    OBVIOUS
  <2>1. ToolsTyped'
    BY ToolsTypedStep
  <2>2. CursorInv'
    BY <2>1, CursorStep
  <2> QED BY <2>1, <2>2, GroupsFoundStep
<1>3. ToolsTyped /\ GroupsFound => GroupPagesPartition
  BY GroupsTrue
<1> QED BY <1>1, <1>2, <1>3, PTL DEF ToolsSpec

-----------------------------------------------------------------------------
(* Views, as a scan finds them.                                            *)

\* The page of a page, and a bounded list with one more.
LEMMA FirstAdded ==
  ASSUME NEW T, NEW s \in Seq(T), NEW x \in T, NEW n \in Nat
  PROVE  Bounded(n, Page(s, 0, n), x) = Page(Append(s, x), 0, n)
<1>1. PICK m \in Nat : m = Len(s)
  BY LenProperties
<1>2. PICK t \in Seq(T) : t = Append(s, x)
  BY AppendProperties
<1>3. Len(t) = m + 1 /\ t[m + 1] = x /\ \A i \in 1..m : t[i] = s[i]
  BY <1>1, <1>2, AppendProperties
<1>4. PICK p \in Seq(T), q \in Seq(T) : p = Page(s, 0, n) /\ q = Page(t, 0, n)
  BY FirstPage
<1>5. /\ Len(p) = IF n <= m THEN n ELSE m
      /\ \A i \in 1..Len(p) : p[i] = s[i]
      /\ Len(q) = IF n <= m + 1 THEN n ELSE m + 1
      /\ \A i \in 1..Len(q) : q[i] = t[i]
  BY <1>1, <1>3, <1>4, FirstPage
<1>6. CASE n <= m
  <2>1. Len(p) = n /\ Len(q) = n
    BY <1>5, <1>6
  <2>2. \A i \in 1..n : p[i] = q[i]
    BY <1>3, <1>5, <1>6, <2>1
  <2>3. p = q
    BY <2>1, <2>2, SeqEqual
  <2> QED BY <1>2, <1>4, <2>1, <2>3 DEF Bounded
<1>7. CASE m < n
  <2>1. Len(p) = m /\ Len(q) = m + 1
    BY <1>5, <1>7
  <2>2. PICK a \in Seq(T) : a = Append(p, x)
    BY AppendProperties
  <2>3. Len(a) = m + 1 /\ a[m + 1] = x /\ \A i \in 1..m : a[i] = p[i]
    BY <2>1, <2>2, AppendProperties
  <2>4. \A i \in 1..(m + 1) : i \in 1..m \/ i = m + 1
    OBVIOUS
  <2>5. \A i \in 1..(m + 1) : a[i] = q[i]
    BY <1>3, <1>5, <2>1, <2>3, <2>4
  <2>6. a = q
    BY <2>1, <2>3, <2>5, SeqEqual
  <2> QED BY <1>2, <1>4, <1>7, <2>1, <2>2, <2>6 DEF Bounded
<1> QED BY <1>1, <1>6, <1>7

LEMMA FirstOfFirst ==
  ASSUME NEW T, NEW s \in Seq(T), NEW n \in Nat
  PROVE  Page(Page(s, 0, n), 0, n) = Page(s, 0, n)
<1>1. PICK m \in Nat : m = Len(s)
  BY LenProperties
<1>2. PICK p \in Seq(T) : p = Page(s, 0, n)
  BY FirstPage
<1>3. Len(p) = IF n <= m THEN n ELSE m
  BY <1>1, <1>2, FirstPage
<1>4. PICK q \in Seq(T) : q = Page(p, 0, n)
  BY FirstPage
<1>5. PICK k \in Nat : k = Len(p)
  BY LenProperties
<1>7. k <= n
  BY <1>1, <1>3, <1>5
<1>6. Len(q) = k /\ \A i \in 1..k : q[i] = p[i]
  <2>1. /\ Len(q) = IF n <= k THEN n ELSE k
        /\ \A i \in 1..Len(q) : q[i] = p[i]
    BY <1>4, <1>5, FirstPage
  <2> QED BY <1>7, <2>1
<1> QED BY <1>2, <1>4, <1>5, <1>6, SeqEqual

\* The first of two lists, from the first of each.
LEMMA FirstOfBoth ==
  ASSUME NEW T, NEW s \in Seq(T), NEW t \in Seq(T), NEW n \in Nat
  PROVE  Page(Page(s, 0, n) \o Page(t, 0, n), 0, n) = Page(s \o t, 0, n)
<1>1. PICK a \in Nat, b \in Nat : a = Len(s) /\ b = Len(t)
  BY LenProperties
<1>2. PICK p \in Seq(T), q \in Seq(T) : p = Page(s, 0, n) /\ q = Page(t, 0, n)
  BY FirstPage
<1>3. PICK c \in Nat, d \in Nat : c = Len(p) /\ d = Len(q)
  BY LenProperties
<1>11. /\ c = (IF n <= a THEN n ELSE a) /\ d = (IF n <= b THEN n ELSE b)
       /\ \A i \in 1..c : p[i] = s[i]
       /\ \A i \in 1..d : q[i] = t[i]
  BY <1>1, <1>2, <1>3, FirstPage
<1>4. PICK u \in Seq(T), v \in Seq(T) : u = p \o q /\ v = s \o t
  BY ConcatProperties
<1>5. /\ Len(u) = c + d /\ Len(v) = a + b
      /\ \A i \in 1..c : u[i] = p[i]
      /\ \A i \in 1..a : v[i] = s[i]
      /\ \A i \in 1..d : u[c + i] = q[i]
      /\ \A i \in 1..b : v[a + i] = t[i]
  <2>1. /\ Len(u) = Len(p) + Len(q)
        /\ \A i \in 1..(Len(p) + Len(q)) : u[i] = IF i <= Len(p) THEN p[i] ELSE q[i - Len(p)]
    BY <1>4, ConcatProperties
  <2>2. /\ Len(v) = Len(s) + Len(t)
        /\ \A i \in 1..(Len(s) + Len(t)) : v[i] = IF i <= Len(s) THEN s[i] ELSE t[i - Len(s)]
    BY <1>4, ConcatProperties
  <2>3. ASSUME NEW i \in 1..d PROVE u[c + i] = q[i]
    <3>1. c + i \in 1..(c + d) /\ ~ (c + i <= c) /\ (c + i) - c = i
      OBVIOUS
    <3> QED BY <1>3, <2>1, <3>1
  <2>4. ASSUME NEW i \in 1..b PROVE v[a + i] = t[i]
    <3>1. a + i \in 1..(a + b) /\ ~ (a + i <= a) /\ (a + i) - a = i
      OBVIOUS
    <3> QED BY <1>1, <2>2, <3>1
  <2> QED BY <1>1, <1>3, <2>1, <2>2, <2>3, <2>4
<1>6. PICK x \in Seq(T), y \in Seq(T) : x = Page(u, 0, n) /\ y = Page(v, 0, n)
  BY FirstPage
<1>7. /\ Len(x) = (IF n <= c + d THEN n ELSE c + d) /\ Len(y) = (IF n <= a + b THEN n ELSE a + b)
      /\ \A i \in 1..Len(x) : x[i] = u[i]
      /\ \A i \in 1..Len(y) : y[i] = v[i]
  BY <1>5, <1>6, FirstPage
<1>8. Len(x) = Len(y)
  BY <1>7, <1>11
<1>9. ASSUME NEW i \in 1..Len(x) PROVE x[i] = y[i]
  <2>4. PICK k \in Nat : k = Len(x) /\ k = Len(y)
    BY <1>8, LenProperties
  <2>5. k = (IF n <= c + d THEN n ELSE c + d) /\ k = (IF n <= a + b THEN n ELSE a + b)
    BY <1>7, <2>4
  <2>6. i \in 1..k
    BY <2>4
  <2>7. x[i] = u[i] /\ y[i] = v[i]
    BY <1>7, <2>4, <2>6
  <2>1. x[i] = u[i] /\ y[i] = v[i] /\ i \in 1..(c + d) /\ i \in 1..(a + b) /\ i <= n
    BY <2>5, <2>6, <2>7
  <2>2. CASE i <= a
    <3>1. i \in 1..c
      BY <1>11, <2>1, <2>2
    <3> QED BY <1>5, <1>11, <2>1, <2>2, <3>1
  <2>3. CASE a < i
    <3>1. c = a
      BY <1>11, <2>1, <2>3
    <3>2. PICK j \in 1..d : j \in 1..b /\ i = a + j /\ i = c + j
      <4>1. i - a \in 1..d /\ i - a \in 1..b /\ i = a + (i - a)
        BY SMTT(30), <2>1, <2>3, <3>1
      <4> QED BY <3>1, <4>1
    <3>3. u[i] = q[j] /\ v[i] = t[j] /\ q[j] = t[j]
      BY <1>5, <1>11, <3>2
    <3> QED BY <2>1, <3>3
  <2> QED BY <2>1, <2>2, <2>3
<1>10. x = y
  BY <1>8, <1>9, SeqEqual
<1> QED BY <1>2, <1>4, <1>6, <1>10

\* The elements of a list in a set, and those that are not.
LEMMA FilterBoth ==
  ASSUME NEW T, NEW s \in Seq(T), NEW S
  PROVE  Len(Filter(s, S)) + Len(Filter(s, T \ S)) = Len(s)
<1> DEFINE G == {t \in Seq(T) : Len(Filter(t, S)) + Len(Filter(t, T \ S)) = Len(t)}
<1>1. << >> \in G
  <2>1. Filter(<< >>, S) = << >> /\ Filter(<< >>, T \ S) = << >> /\ << >> \in Seq(T) /\ Len(<< >>) = 0
    BY FilterEmpty, EmptySeq
  <2>2. Len(Filter(<< >>, S)) + Len(Filter(<< >>, T \ S)) = Len(<< >>)
    BY <2>1
  <2> QED BY <2>1, <2>2
<1>2. ASSUME NEW t \in Seq(T), NEW e \in T, t \in G PROVE Append(t, e) \in G
  <2>1. PICK a \in Seq(T), b \in Seq(T) : a = Filter(t, S) /\ b = Filter(t, T \ S)
    BY FilterElements
  <2>2. /\ Filter(Append(t, e), S) = IF e \in S THEN Append(a, e) ELSE a
        /\ Filter(Append(t, e), T \ S) = IF e \in T \ S THEN Append(b, e) ELSE b
    BY SMTT(30), <2>1, FilterAppend
  <2>3. Len(a) \in Nat /\ Len(b) \in Nat /\ Len(t) \in Nat /\ Len(a) + Len(b) = Len(t)
    BY <1>2, <2>1, LenProperties
  <2>4. /\ Len(Append(a, e)) = Len(a) + 1 /\ Len(Append(b, e)) = Len(b) + 1
        /\ Len(Append(t, e)) = Len(t) + 1 /\ Append(t, e) \in Seq(T)
    BY <2>1, AppendProperties
  <2> QED BY <2>2, <2>3, <2>4
<1> HIDE DEF G
<1>3. \A t \in Seq(T) : t \in G
  BY <1>1, <1>2, SequenceInduction
<1> QED BY <1>3 DEF G

KeptRefs == {r \in Refs : Exclusion(SourceOf(r.ref.key).noise, r.line) = ""}

IncidentRefs == {r \in Refs : IncidentLine(r.line)}

OfSource(k) == {r \in Refs : r.ref.key = k}

LineRefs == {r.ref : r \in Refs}

RefsOf(s) == [i \in DOMAIN s |-> s[i].ref]

LEMMA RefsOfIs ==
  ASSUME NEW s \in Seq(Refs)
  PROVE  /\ RefsOf(s) \in Seq(LineRefs) /\ Len(RefsOf(s)) = Len(s)
         /\ \A i \in 1..Len(s) : RefsOf(s)[i] = s[i].ref
<1>1. PICK n \in Nat : n = Len(s) /\ DOMAIN s = 1..n
  BY LenProperties
<1>2. \A i \in 1..n : s[i].ref \in LineRefs
  BY <1>1, ElementOfSeq DEF LineRefs
<1> QED BY <1>1, <1>2 DEF RefsOf

LEMMA RefsOfAppend ==
  ASSUME NEW s \in Seq(Refs), NEW r \in Refs
  PROVE  RefsOf(Append(s, r)) = Append(RefsOf(s), r.ref)
<1>1. PICK n \in Nat : n = Len(s)
  BY LenProperties
<1>2. PICK t \in Seq(Refs), x \in LineRefs : t = Append(s, r) /\ x = r.ref
  BY AppendProperties DEF LineRefs
<1>3. Len(t) = n + 1 /\ t[n + 1] = r /\ \A i \in 1..n : t[i] = s[i]
  BY <1>1, <1>2, AppendProperties
<1>4. PICK a \in Seq(LineRefs), b \in Seq(LineRefs) : a = RefsOf(t) /\ b = RefsOf(s)
  BY RefsOfIs
<1>5. Len(a) = n + 1 /\ (\A i \in 1..(n + 1) : a[i] = t[i].ref) /\ Len(b) = n /\ \A i \in 1..n : b[i] = s[i].ref
  BY <1>1, <1>3, <1>4, RefsOfIs
<1>6. PICK c \in Seq(LineRefs) : c = Append(b, x)
  BY AppendProperties
<1>7. Len(c) = n + 1 /\ c[n + 1] = x /\ \A i \in 1..n : c[i] = b[i]
  BY <1>5, <1>6, AppendProperties
<1>8. \A i \in 1..(n + 1) : i \in 1..n \/ i = n + 1
  OBVIOUS
<1>9. \A i \in 1..(n + 1) : a[i] = c[i]
  BY SMTT(30), <1>2, <1>3, <1>5, <1>7, <1>8
<1>10. a = c
  BY <1>5, <1>7, <1>9, SeqEqual
<1> QED BY <1>2, <1>4, <1>6, <1>10

\* The first n of the lines that are in S.
FirstOf(s, S, n) == Page(RefsOf(Filter(s, S)), 0, n)

LEMMA FirstGrows ==
  ASSUME NEW s \in Seq(Refs), NEW r \in Refs, NEW S, NEW n \in Nat
  PROVE  FirstOf(Append(s, r), S, n)
           = IF r \in S THEN Bounded(n, FirstOf(s, S, n), r.ref) ELSE FirstOf(s, S, n)
<1>1. PICK a \in Seq(Refs) : a = Filter(s, S)
  BY FilterElements
<1>2. Filter(Append(s, r), S) = IF r \in S THEN Append(a, r) ELSE a
  BY <1>1, FilterAppend
<1>3. PICK b \in Seq(LineRefs), x \in LineRefs : b = RefsOf(a) /\ x = r.ref
  BY RefsOfIs DEF LineRefs
<1>4. RefsOf(Append(a, r)) = Append(b, x)
  BY <1>3, RefsOfAppend
<1>5. Bounded(n, Page(b, 0, n), x) = Page(Append(b, x), 0, n)
  BY FirstAdded
<1> QED BY <1>1, <1>2, <1>3, <1>4, <1>5 DEF FirstOf

LEMMA FirstOfNone ==
  ASSUME NEW S, NEW n \in Nat
  PROVE  FirstOf(<< >>, S, n) = << >>
<1>1. Filter(<< >>, S) = << >>
  BY FilterEmpty
<1>2. PICK e \in Seq(LineRefs) : e = RefsOf(<< >>) /\ Len(e) = 0
  BY RefsOfIs, EmptySeq
<1>3. PICK p \in Seq(LineRefs) : p = Page(e, 0, n)
  BY FirstPage
<1>4. Len(p) = IF n <= 0 THEN n ELSE 0
  BY <1>2, <1>3, FirstPage
<1>5. Len(p) = 0
  BY <1>4
<1>6. p = << >>
  BY <1>3, <1>5, EmptySeq
<1> QED BY <1>1, <1>2, <1>3, <1>6 DEF FirstOf

\* A scan for a view holds the first of the lines s, those that its mode needs.
Stored(f, s, mode, n) ==
  /\ DOMAIN f = DOMAIN NoView /\ f.samples = [k \in KeysOf(Sources) |-> f.samples[k]]
  /\ mode = "head" => f.head = FirstOf(s, Refs, n)
  /\ mode = "errors" => /\ f.incidents = FirstOf(s, IncidentRefs, n)
                        /\ f.regular = FirstOf(s, Refs \ IncidentRefs, n)
  /\ mode = "sample" => \A k \in KeysOf(Sources) : f.samples[k] = FirstOf(s, OfSource(k), n)

\* And it has counted the lines, and those it keeps.
ViewIs(f, d, mode, n) ==
  /\ Stored(f, Filter(d, KeptRefs), mode, n)
  /\ f.total = Len(d) /\ f.kept = Len(Filter(d, KeptRefs))

LEMMA ViewBegins ==
  ASSUME NEW mode, NEW n \in Nat
  PROVE  ViewIs(NoView, << >>, mode, n)
<1>1. Filter(<< >>, KeptRefs) = << >> /\ Len(<< >>) = 0
  BY FilterEmpty, EmptySeq
<1>2. \A S : FirstOf(<< >>, S, n) = << >>
  BY FirstOfNone
<1>3. /\ NoView.total = 0 /\ NoView.kept = 0 /\ NoView.head = << >> /\ NoView.incidents = << >>
      /\ NoView.regular = << >> /\ NoView.samples = [k \in KeysOf(Sources) |-> << >>]
  BY DEF NoView
<1> QED BY <1>1, <1>2, <1>3 DEF ViewIs, Stored

Modes == {"head", "errors", "sample"}

\* A line that is kept, stored as its mode says.
LEMMA CandidateStored ==
  ASSUME NEW f, NEW s \in Seq(Refs), NEW r \in Refs, NEW mode \in Modes, NEW n \in Nat,
         mode = call.mode, n = call.limit, r.ref.key \in KeysOf(Sources), Stored(f, s, mode, n)
  PROVE  LET g == StoreCandidate(f, r.ref, r.line)
         IN Stored(g, Append(s, r), mode, n) /\ g.total = f.total /\ g.kept = f.kept
<1> DEFINE g == StoreCandidate(f, r.ref, r.line)
           t == Append(s, r)
<1>1. DOMAIN NoView = {"total", "kept", "excluded", "head", "incidents", "regular", "samples"}
  BY DEF NoView
<1>2. \A S : FirstOf(t, S, n) = IF r \in S THEN Bounded(n, FirstOf(s, S, n), r.ref) ELSE FirstOf(s, S, n)
  BY FirstGrows
<1>3. r \in IncidentRefs <=> IncidentLine(r.line)
  BY DEF IncidentRefs
<1>4. \A k : r \in OfSource(k) <=> k = r.ref.key
  BY DEF OfSource
<1>9. /\ DOMAIN f = DOMAIN NoView /\ DOMAIN f.samples = KeysOf(Sources)
      /\ f.samples = [k \in KeysOf(Sources) |-> f.samples[k]]
      /\ mode = "head" => f.head = FirstOf(s, Refs, n)
      /\ mode = "errors" => /\ f.incidents = FirstOf(s, IncidentRefs, n)
                            /\ f.regular = FirstOf(s, Refs \ IncidentRefs, n)
      /\ mode = "sample" => \A k \in KeysOf(Sources) : f.samples[k] = FirstOf(s, OfSource(k), n)
  BY DEF Stored
<1> HIDE DEF t
<1>5. CASE mode = "head"
  <2>1. g = [f EXCEPT !.head = Bounded(n, @, r.ref)]
    BY <1>5 DEF StoreCandidate
  <2>2. g.head = Bounded(n, f.head, r.ref) /\ g.total = f.total /\ g.kept = f.kept /\ g.samples = f.samples
        /\ DOMAIN g = DOMAIN NoView
    BY <1>1, <1>9, <2>1
  <2>3. FirstOf(t, Refs, n) = Bounded(n, FirstOf(s, Refs, n), r.ref)
    BY <1>2
  <2> QED BY <1>9, <1>5, <2>2, <2>3 DEF t, Stored
<1>6. CASE mode = "errors" /\ IncidentLine(r.line)
  <2>1. g = [f EXCEPT !.incidents = Bounded(n, @, r.ref)]
    BY <1>6 DEF StoreCandidate
  <2>2. /\ g.incidents = Bounded(n, f.incidents, r.ref) /\ g.regular = f.regular
        /\ g.total = f.total /\ g.kept = f.kept /\ g.samples = f.samples /\ DOMAIN g = DOMAIN NoView
    BY <1>1, <1>9, <2>1
  <2>3. FirstOf(t, IncidentRefs, n) = Bounded(n, FirstOf(s, IncidentRefs, n), r.ref)
        /\ FirstOf(t, Refs \ IncidentRefs, n) = FirstOf(s, Refs \ IncidentRefs, n)
    BY <1>2, <1>3, <1>6
  <2> QED BY <1>9, <1>6, <2>2, <2>3 DEF t, Stored
<1>7. CASE mode = "errors" /\ ~ IncidentLine(r.line)
  <2>1. g = [f EXCEPT !.regular = Bounded(n, @, r.ref)]
    BY <1>7 DEF StoreCandidate
  <2>2. /\ g.regular = Bounded(n, f.regular, r.ref) /\ g.incidents = f.incidents
        /\ g.total = f.total /\ g.kept = f.kept /\ g.samples = f.samples /\ DOMAIN g = DOMAIN NoView
    BY <1>1, <1>9, <2>1
  <2>3. r \in Refs \ IncidentRefs /\ r \notin IncidentRefs
    BY <1>3, <1>7
  <2>4. FirstOf(t, Refs \ IncidentRefs, n) = Bounded(n, FirstOf(s, Refs \ IncidentRefs, n), r.ref)
        /\ FirstOf(t, IncidentRefs, n) = FirstOf(s, IncidentRefs, n)
    BY <1>2, <2>3
  <2> QED BY <1>9, <1>7, <2>2, <2>4 DEF t, Stored
<1>8. CASE mode = "sample"
  <2>1. g = [f EXCEPT !.samples[r.ref.key] = Bounded(n, @, r.ref)]
    BY <1>8 DEF StoreCandidate
  <2>2. /\ g.samples = [f.samples EXCEPT ![r.ref.key] = Bounded(n, @, r.ref)]
        /\ g.total = f.total /\ g.kept = f.kept /\ DOMAIN g = DOMAIN NoView
    BY <1>1, <1>9, <2>1
  <2>3. ASSUME NEW k \in KeysOf(Sources) PROVE g.samples[k] = FirstOf(t, OfSource(k), n)
    <3>1. FirstOf(t, OfSource(k), n)
            = IF k = r.ref.key THEN Bounded(n, FirstOf(s, OfSource(k), n), r.ref) ELSE FirstOf(s, OfSource(k), n)
      BY <1>2, <1>4
    <3> QED BY <1>8, <1>9, <2>2, <3>1
  <2>4. g.samples = [k \in KeysOf(Sources) |-> g.samples[k]]
    BY <1>9, <2>2
  <2> QED BY <1>9, <1>8, <2>2, <2>3, <2>4 DEF t, Stored
<1> QED BY <1>5, <1>6, <1>7, <1>8 DEF Modes

LEMMA ViewGrows ==
  ASSUME NEW f, NEW d \in Seq(Refs), NEW r \in Refs, NEW mode \in Modes, NEW n \in Nat,
         mode = call.mode, n = call.limit, ViewIs(f, d, mode, n)
  PROVE  ViewIs(ViewLine(f, r.ref, r.line), Append(d, r), mode, n)
<1>1. PICK s \in Seq(Refs) : s = Filter(d, KeptRefs)
  BY FilterElements
<1>2. Filter(Append(d, r), KeptRefs) = IF r \in KeptRefs THEN Append(s, r) ELSE s
  BY <1>1, FilterAppend
<1>3. Len(Append(d, r)) = Len(d) + 1 /\ Len(Append(s, r)) = Len(s) + 1
  BY AppendProperties
<1>4. Stored(f, s, mode, n) /\ f.total = Len(d) /\ f.kept = Len(s) /\ DOMAIN f = DOMAIN NoView
  BY <1>1 DEF ViewIs, Stored
<1>5. DOMAIN NoView = {"total", "kept", "excluded", "head", "incidents", "regular", "samples"}
  BY DEF NoView
<1>6. r.ref.key \in KeysOf(Sources)
  BY DEF Refs, Reference
<1>7. r \in KeptRefs <=> Exclusion(SourceOf(r.ref.key).noise, r.line) = ""
  BY DEF KeptRefs
<1>8. CASE r \in KeptRefs
  <2>1. PICK h : h = [f EXCEPT !.total = @ + 1, !.kept = @ + 1]
    OBVIOUS
  <2>2. /\ DOMAIN h = DOMAIN NoView /\ h.total = f.total + 1 /\ h.kept = f.kept + 1
        /\ h.head = f.head /\ h.incidents = f.incidents /\ h.regular = f.regular /\ h.samples = f.samples
    BY <1>4, <1>5, <2>1
  <2>3. [[f EXCEPT !.total = @ + 1] EXCEPT !.kept = @ + 1] = h
    BY <1>4, <1>5, <2>1
  <2>4. ViewLine(f, r.ref, r.line) = StoreCandidate(h, r.ref, r.line)
    BY <1>7, <1>8, <2>3 DEF ViewLine
  <2>5. PICK g : g = StoreCandidate(h, r.ref, r.line)
    OBVIOUS
  <2>6. Stored(h, s, mode, n)
    BY <1>4, <2>2 DEF Stored
  <2>7. Stored(g, Append(s, r), mode, n) /\ g.total = h.total /\ g.kept = h.kept
    BY <1>6, <2>5, <2>6, CandidateStored
  <2>8. ViewIs(g, Append(d, r), mode, n)
    BY <1>2, <1>3, <1>4, <1>8, <2>2, <2>7 DEF ViewIs
  <2> QED BY <2>4, <2>5, <2>8
<1>9. CASE r \notin KeptRefs
  <2>1. PICK g : g = ViewLine(f, r.ref, r.line)
    OBVIOUS
  <2>2. PICK reason : reason = Exclusion(SourceOf(r.ref.key).noise, r.line)
    OBVIOUS
  <2>3. g = [[f EXCEPT !.total = @ + 1] EXCEPT !.excluded[r.ref.key] = Append(@, reason)]
    BY <1>7, <1>9, <2>1, <2>2 DEF ViewLine
  <2>4. /\ DOMAIN g = DOMAIN NoView /\ g.total = f.total + 1 /\ g.kept = f.kept
        /\ g.head = f.head /\ g.incidents = f.incidents /\ g.regular = f.regular /\ g.samples = f.samples
    BY <1>4, <1>5, <2>3
  <2>5. ViewIs(g, Append(d, r), mode, n)
    BY <1>2, <1>3, <1>4, <1>9, <2>4 DEF ViewIs, Stored
  <2> QED BY <2>1, <2>5
<1> QED BY <1>8, <1>9

ViewCall == call.op = "create_filtered_view" /\ edition = 0

ViewFound ==
  ViewCall =>
    /\ phase \in {"scanning", "rescanning", "answered"} => call.limit \in 1..MaxWindow /\ call.mode \in Modes
    /\ Working => ViewIs(found, Done, call.mode, call.limit)
    /\ phase = "answered" => /\ answer = CreateFilteredViewPayload(call, found)
                             /\ ViewIs(found, LinesRead, call.mode, call.limit)
                             /\ LinesRead \in Seq(Refs)

LEMMA ViewNotRefused ==
  ASSUME NEW c, c.op = "create_filtered_view", Refusal(c) = 0
  PROVE  c.limit \in 1..MaxWindow /\ c.mode \in Modes
<1>1. Checks(c) = SnapshotChecks(c) \o ViewWindow(c) \o KeyChecks(c) \o FoundKeys(c)
  BY DEF Checks, Grouping
<1>2. /\ Len(Checks(c)) = 5
      /\ Checks(c)[2] = ViewWindow(c)[1]
      /\ Checks(c)[3] = ViewWindow(c)[2]
  BY <1>1 DEF SnapshotChecks, ViewWindow, KeyChecks, FoundKeys
<1>3. Refusal(c) = 0 <=> \A i \in 1..5 : ~ Checks(c)[i][2]
  BY <1>2, NotRefused
<1>4. ~ Checks(c)[2][2] /\ ~ Checks(c)[3][2]
  BY <1>3
<1>5. Checks(c)[2][2] = (c.limit \notin 1..MaxWindow)
  <2>1. PICK code, b : code = "invalid_filtered_view_limit" /\ b = (c.limit \notin 1..MaxWindow)
    OBVIOUS
  <2>2. ViewWindow(c)[1] = <<code, b>>
    BY <2>1 DEF ViewWindow, Fails
  <2> QED BY <1>2, <2>1, <2>2
<1>6. Checks(c)[3][2] = (c.mode \notin Modes)
  <2>1. PICK code, b : code = "invalid_filtered_view_mode" /\ b = (c.mode \notin Modes)
    OBVIOUS
  <2>2. ViewWindow(c)[2] = <<code, b>>
    BY <2>1 DEF ViewWindow, Fails, Modes
  <2> QED BY <1>2, <2>1, <2>2
<1> QED BY <1>4, <1>5, <1>6

LEMMA ViewInitial == ToolsInit => ViewFound
BY DEF ToolsInit, ViewFound, Working

LEMMA ViewFoundStep ==
  ASSUME ToolsTyped, ToolsTyped', CursorInv, CursorInv', ViewFound, [ToolsNext]_vars
  PROVE  ViewFound'
<1> SUFFICES ASSUME ViewCall'
             PROVE  /\ phase' \in {"scanning", "rescanning", "answered"} =>
                         call'.limit \in 1..MaxWindow /\ call'.mode \in Modes
                    /\ Working' => ViewIs(found', Done', call'.mode, call'.limit)
                    /\ phase' = "answered" =>
                         /\ answer' = CreateFilteredViewPayload(call', found')
                         /\ ViewIs(found', LinesRead', call'.mode, call'.limit)
                         /\ LinesRead' \in Seq(Refs)
  BY DEF ViewFound
<1>1. edition = 0 /\ ~ Recollect
  BY EditionGrows DEF ViewCall
<1>2. call'.op = call.op /\ call'.limit = call.limit /\ call'.mode = call.mode /\ ViewCall
  <2>1. SameRequest /\ {"op", "limit", "mode"} \subseteq RequestFields \ {"offset"}
    BY RequestKept DEF RequestFields
  <2>2. call'["op"] = call["op"] /\ call'["limit"] = call["limit"] /\ call'["mode"] = call["mode"]
    BY <2>1 DEF SameRequest
  <2> QED BY <1>1, <2>2 DEF ViewCall
<1>3. ~ Stopped
  BY <1>2 DEF ViewCall, Stopped, Grouping
<1>4. PICK mode, n : mode = call.mode /\ n = call.limit
  OBVIOUS
<1>5. /\ phase \in {"scanning", "rescanning", "answered"} => n \in 1..MaxWindow /\ mode \in Modes
      /\ Working => ViewIs(found, Done, mode, n)
      /\ phase = "answered" => /\ answer = CreateFilteredViewPayload(call, found)
                               /\ ViewIs(found, LinesRead, mode, n) /\ LinesRead \in Seq(Refs)
  BY <1>2, <1>4 DEF ViewFound
<1>6. MaxWindow \in Nat
  BY LimitsAssumption
<1>7. Working => n \in Nat /\ mode \in Modes /\ n \in 1..MaxWindow
  BY <1>5, <1>6 DEF Working
<1> SUFFICES /\ phase' \in {"scanning", "rescanning", "answered"} => n \in 1..MaxWindow /\ mode \in Modes
             /\ Working' => ViewIs(found', Done', mode, n)
             /\ phase' = "answered" => /\ answer' = CreateFilteredViewPayload(call', found')
                                       /\ ViewIs(found', LinesRead', mode, n)
                                       /\ LinesRead' \in Seq(Refs)
  BY <1>2, <1>4
<1>8. CASE UNCHANGED vars
  <2>1. UNCHANGED <<files, call, phase, todo, handle, found, answer>>
    BY <1>8 DEF vars
  <2>2. UNCHANGED <<LinesRead, Done, Working>>
    BY <2>1 DEF LinesRead, LinesOf, LinesIn, Rest, Done, Working
  <2> QED BY <1>5, <2>1, <2>2
<1>9. CASE BeginScan
  <2>1. /\ edition' = 0 /\ handle' = Closed /\ todo' = Opened(call)' /\ phase' = "scanning"
        /\ found' = NothingFound(call) /\ Refusal(call) = 0
    BY <1>1, <1>9 DEF BeginScan, Accepted, ToolsTyped
  <2>2. Done' = << >>
    BY <2>1, NextBegins
  <2>3. found' = NoView
    BY <1>2, <2>1 DEF NothingFound, Grouping, ViewCall
  <2>4. n \in 1..MaxWindow /\ mode \in Modes /\ n \in Nat
    BY <1>2, <1>4, <1>6, <2>1, ViewNotRefused DEF ViewCall
  <2>5. ViewIs(NoView, << >>, mode, n)
    BY <2>4, ViewBegins
  <2> QED BY <2>1, <2>2, <2>3, <2>4, <2>5
<1>10. CASE OpenSource
  <2>1. Done' = Done
    BY <1>1, <1>10, OpensUnread
  <2>2. Working /\ phase' = phase /\ found' = found
    BY <1>2, <1>10 DEF OpenSource, Grouping, ViewCall
  <2> QED BY <1>5, <2>1, <2>2 DEF Working
<1>11. CASE ScanLine
  <2>1. NextRef \in Refs /\ Done \in Seq(Refs) /\ Done' = Append(Done, NextRef)
    BY <1>1, <1>11, ScanReads
  <2>2. Working /\ phase' = phase /\ found' \in Found(handle.lines[handle.next])
    BY <1>11 DEF ScanLine
  <2>3. found' = ViewLine(found, NextRef.ref, NextRef.line)
    BY <1>2, <2>2 DEF Found, Grouping, ViewCall, NextRef
  <2>4. PICK d, r : d = Done /\ r = NextRef
    OBVIOUS
  <2>5. ViewIs(ViewLine(found, r.ref, r.line), Append(d, r), mode, n)
    BY <1>4, <1>5, <1>7, <2>1, <2>2, <2>4, ViewGrows
  <2> QED BY <1>7, <2>1, <2>2, <2>3, <2>4, <2>5 DEF Working
<1>12. CASE CloseSource
  <2>1. Done' = Done
    BY <1>1, <1>3, <1>12, ClosesRead
  <2>2. Working /\ phase' = phase /\ found' = found
    BY <1>12 DEF CloseSource
  <2> QED BY <1>5, <2>1, <2>2 DEF Working
<1>13. CASE Answer
  <2>1. /\ Working /\ Exhausted /\ phase' = "answered" /\ answer' = Payload(call, found)
        /\ UNCHANGED <<files, call, found>>
    BY <1>13 DEF Answer
  <2>2. Done = LinesRead /\ LinesRead \in Seq(Refs)
    BY <1>1, <1>3, <2>1, ScanEnds
  <2>3. LinesRead' = LinesRead
    BY <2>1 DEF LinesRead, LinesOf, LinesIn
  <2>4. answer' = CreateFilteredViewPayload(call, found)
    BY <1>2, <2>1 DEF Payload, ViewCall
  <2> QED BY <1>5, <1>7, <2>1, <2>2, <2>3, <2>4 DEF Working
<1>14. ASSUME Refuse \/ SourceMissing \/ NextPage
       PROVE  ~ Working' /\ phase' # "answered" /\ phase' \notin {"scanning", "rescanning", "answered"}
  BY <1>14 DEF Refuse, SourceMissing, NextPage, Working
<1>15. ~ (SecondPass \/ ListLogSnapshotFiles \/ ReadLogSnapshotFile \/ GrepLogSnapshot)
  BY <1>2 DEF ViewCall, SecondPass, ListLogSnapshotFiles, ReadLogSnapshotFile, GrepLogSnapshot
<1> QED
  BY <1>1, <1>8, <1>9, <1>10, <1>11, <1>12, <1>13, <1>14, <1>15 DEF ToolsNext

DistinctKeys(ss) == \A i, j \in DOMAIN ss : ss[i].key = ss[j].key => i = j

DistinctRefs(d) == \A i, j \in DOMAIN d : d[i].ref = d[j].ref => i = j

\* The lines of files of different sources have different references.
LinesAreOf(d, ss) ==
  DistinctKeys(ss) => DistinctRefs(d) /\ \A i \in DOMAIN d : \E j \in DOMAIN ss : d[i].ref.key = ss[j].key

LEMMA FileIsDistinct ==
  ASSUME ToolsTyped, edition = 0, NEW s \in ToSet(Sources)
  PROVE  DistinctRefs(LinesIn(s)) /\ \A i \in DOMAIN LinesIn(s) : LinesIn(s)[i].ref.key = s.key
<1>1. CASE files[s.key] = NoFile
  <2>1. LinesIn(s) = << >> /\ DOMAIN LinesIn(s) = {}
    BY <1>1, EmptySeq DEF LinesIn
  <2> QED BY <2>1 DEF DistinctRefs
<1>2. CASE files[s.key] # NoFile
  <2>1. PICK k \in KeysOf(Sources), b \in Bodies : k = s.key /\ b = files[s.key] /\ LinesIn(s) = LinesFrom(k, b, 1)
    BY <1>2, LinesInIs
  <2>2. PICK m \in Nat : m = Len(b)
    BY InputsAssumption, LenProperties
  <2>3. m - 1 + 1 = m /\ \A i \in 1..m : 1 + i - 1 = i
    OBVIOUS
  <2>4. LinesIn(s) = [i \in 1..m |-> [ref |-> Reference(k, i, b[i]), line |-> b[i]]]
    BY <2>1, <2>2, <2>3 DEF LinesFrom
  <2>5. PICK d : d = LinesIn(s)
    OBVIOUS
  <2>6. DOMAIN d = 1..m /\ \A i \in 1..m : d[i].ref.key = k /\ d[i].ref.number = i
    BY <2>4, <2>5 DEF Reference
  <2> QED BY <2>1, <2>5, <2>6 DEF DistinctRefs
<1> QED BY <1>1, <1>2

LEMMA LinesAreOfMore ==
  ASSUME NEW S, NEW ss \in Seq(S), NEW s \in S, NEW d \in Seq(Refs), NEW e \in Seq(Refs),
         LinesAreOf(d, ss), DistinctRefs(e), \A i \in DOMAIN e : e[i].ref.key = s.key
  PROVE  LinesAreOf(d \o e, Append(ss, s))
<1>1. PICK n \in Nat, a \in Nat, b \in Nat : n = Len(ss) /\ a = Len(d) /\ b = Len(e)
  BY LenProperties
<1>2. PICK tt \in Seq(S), c \in Seq(Refs) : tt = Append(ss, s) /\ c = d \o e
  BY AppendProperties, ConcatProperties
<1>3. /\ Len(tt) = n + 1 /\ tt[n + 1] = s /\ \A i \in 1..n : tt[i] = ss[i]
      /\ DOMAIN tt = 1..(n + 1) /\ DOMAIN ss = 1..n
  BY <1>1, <1>2, AppendProperties, LenProperties
<1>4. /\ Len(c) = a + b /\ \A i \in 1..(a + b) : c[i] = IF i <= a THEN d[i] ELSE e[i - a]
  <2>1. Len(c) = Len(d) + Len(e) /\ \A i \in 1..(Len(d) + Len(e)) : c[i] = IF i <= Len(d) THEN d[i] ELSE e[i - Len(d)]
    BY <1>2, ConcatProperties
  <2> QED BY <1>1, <2>1
<1>5. DOMAIN c = 1..(a + b) /\ DOMAIN d = 1..a /\ DOMAIN e = 1..b
  BY <1>1, <1>4, LenProperties
<1>6. SUFFICES ASSUME DistinctKeys(tt)
               PROVE  DistinctRefs(c) /\ \A i \in DOMAIN c : \E j \in DOMAIN tt : c[i].ref.key = tt[j].key
  BY <1>2 DEF LinesAreOf
<1>7. DistinctKeys(ss) /\ \A j \in 1..n : ss[j].key # s.key
  <2>1. \A j \in 1..n : j \in 1..(n + 1) /\ n + 1 \in 1..(n + 1) /\ j # n + 1
    OBVIOUS
  <2> QED BY <1>3, <1>6, <2>1 DEF DistinctKeys
<1>8. DistinctRefs(d) /\ \A i \in 1..a : \E j \in 1..n : d[i].ref.key = ss[j].key
  BY <1>3, <1>5, <1>7 DEF LinesAreOf
<1>9. \A i \in 1..(a + b) : \/ i \in 1..a /\ c[i] = d[i]
                            \/ i \notin 1..a /\ i - a \in 1..b /\ c[i] = e[i - a] /\ c[i].ref.key = s.key
  <2> SUFFICES ASSUME NEW i \in 1..(a + b)
               PROVE  \/ i \in 1..a /\ c[i] = d[i]
                      \/ i \notin 1..a /\ i - a \in 1..b /\ c[i] = e[i - a] /\ c[i].ref.key = s.key
    OBVIOUS
  <2>1. CASE i <= a
    BY <1>4, <2>1
  <2>2. CASE ~ (i <= a)
    <3>1. i \notin 1..a /\ i - a \in 1..b
      BY <2>2
    <3> QED BY <1>4, <1>5, <2>2, <3>1
  <2> QED BY <2>1, <2>2
<1>10. ASSUME NEW i \in 1..(a + b) PROVE \E j \in 1..(n + 1) : c[i].ref.key = tt[j].key
  <2>1. \A j \in 1..n : j \in 1..(n + 1) /\ n + 1 \in 1..(n + 1)
    OBVIOUS
  <2>3. n + 1 \in 1..(n + 1)
    OBVIOUS
  <2>2. \/ i \in 1..a /\ c[i] = d[i]
        \/ c[i].ref.key = s.key
    BY <1>9
  <2> QED BY <1>3, <1>8, <2>1, <2>2, <2>3
<1>11. ASSUME NEW i \in 1..(a + b), NEW j \in 1..(a + b), c[i].ref = c[j].ref PROVE i = j
  <2>1. \/ i \in 1..a /\ c[i] = d[i]
        \/ i \notin 1..a /\ i - a \in 1..b /\ c[i] = e[i - a] /\ c[i].ref.key = s.key
    BY <1>9
  <2>2. \/ j \in 1..a /\ c[j] = d[j]
        \/ j \notin 1..a /\ j - a \in 1..b /\ c[j] = e[j - a] /\ c[j].ref.key = s.key
    BY <1>9
  <2>3. \A k \in 1..a : d[k].ref.key # s.key
    BY <1>7, <1>8
  <2>4. CASE i \in 1..a /\ c[i] = d[i]
    <3>1. c[j].ref.key # s.key
      BY <1>11, <2>3, <2>4
    <3>2. j \in 1..a /\ c[j] = d[j]
      BY <2>2, <3>1
    <3> QED BY <1>5, <1>8, <1>11, <2>4, <3>2 DEF DistinctRefs
  <2>5. CASE i \notin 1..a /\ i - a \in 1..b /\ c[i] = e[i - a] /\ c[i].ref.key = s.key
    <3>1. c[j].ref.key = s.key
      BY <1>11, <2>5
    <3>2. j - a \in 1..b /\ c[j] = e[j - a]
      BY <2>2, <2>3, <3>1
    <3>3. PICK k \in 1..b, l \in 1..b : k = i - a /\ l = j - a
      BY <2>5, <3>2
    <3>4. e[k].ref = e[l].ref
      BY <1>11, <2>5, <3>2, <3>3
    <3>5. k = l
      BY <1>5, <3>4 DEF DistinctRefs
    <3> QED BY <3>3, <3>5
  <2> QED BY <2>1, <2>4, <2>5
<1> QED BY <1>3, <1>5, <1>10, <1>11 DEF DistinctRefs

LEMMA ReadFromSources ==
  ASSUME ToolsTyped, edition = 0, NEW ss \in Seq(ToSet(Sources))
  PROVE  LinesAreOf(LinesOf(ss), ss)
<1>1. PICK S : S = ToSet(Sources)
  OBVIOUS
<1>2. PICK f : f = [s \in S |-> LinesIn(s)]
  OBVIOUS
<1>3. f \in [S -> Seq(Refs)]
  BY <1>1, <1>2, LinesInIs
<1>4. \A s \in S : DistinctRefs(f[s]) /\ \A i \in DOMAIN f[s] : f[s][i].ref.key = s.key
  BY <1>1, <1>2, FileIsDistinct
<1> DEFINE G == {tt \in Seq(S) : LinesAreOf(FlattenSeq(Mapped(f, tt)), tt)}
<1>5. << >> \in G
  <2>1. << >> \in Seq(S) /\ DOMAIN << >> = {}
    BY EmptySeq
  <2>2. Mapped(f, << >>) = << >>
    BY <2>1 DEF Mapped
  <2>3. FlattenSeq(Mapped(f, << >>)) = << >>
    BY <2>2, FlattenEmpty
  <2>4. LinesAreOf(FlattenSeq(Mapped(f, << >>)), << >>)
    BY <2>1, <2>3 DEF LinesAreOf, DistinctRefs
  <2> QED BY <2>1, <2>4
<1>6. ASSUME NEW tt \in Seq(S), NEW s \in S, tt \in G PROVE Append(tt, s) \in G
  <2>1. PICK d : d = FlattenSeq(Mapped(f, tt))
    OBVIOUS
  <2>2. MapsOneMore(f, tt, s, Refs)
    BY <1>3, FlattenMap
  <2>3. d \in Seq(Refs) /\ FlattenSeq(Mapped(f, Append(tt, s))) = d \o f[s] /\ f[s] \in Seq(Refs)
    BY <1>3, <2>1, <2>2 DEF MapsOneMore
  <2>4. PICK e \in Seq(Refs) : e = f[s] /\ DistinctRefs(e) /\ \A i \in DOMAIN e : e[i].ref.key = s.key
    BY <1>4, <2>3
  <2>5. LinesAreOf(d, tt)
    BY <1>6, <2>1
  <2>6. LinesAreOf(d \o e, Append(tt, s))
    BY <2>3, <2>4, <2>5, LinesAreOfMore
  <2>7. Append(tt, s) \in Seq(S)
    BY AppendProperties
  <2> QED BY <2>3, <2>4, <2>6, <2>7
<1> HIDE DEF G
<1>7. ss \in G
  BY <1>1, <1>5, <1>6, SequenceInduction
<1>8. LinesAreOf(FlattenSeq(Mapped(f, ss)), ss)
  BY <1>7 DEF G
<1>9. [i \in DOMAIN ss |-> LinesIn(ss[i])] = Mapped(f, ss)
  <2>1. \A i \in DOMAIN ss : ss[i] \in S /\ f[ss[i]] = LinesIn(ss[i])
    BY <1>1, <1>2, LenProperties, ElementOfSeq
  <2> QED BY <2>1 DEF Mapped
<1> QED BY <1>8, <1>9 DEF LinesOf

\* A list of the elements of X, each of them once.
ListsOnce(s, X) == ToSet(s) = X /\ \A i, j \in DOMAIN s : s[i] = s[j] => i = j

\* And in the order of their levels.
InRounds(s, X, level) ==
  ListsOnce(s, X) /\ \A i, j \in DOMAIN s : i < j => level[s[i]] <= level[s[j]]

UpToLevel(X, level, k) == {x \in X : level[x] <= k}

AtLevel(X, level, k) == {x \in X : level[x] = k}

LEMMA RoundAdded ==
  ASSUME NEW T, NEW X, NEW n \in Nat, NEW level \in [X -> 1..n], NEW k \in Nat,
         NEW p \in Seq(T), InRounds(p, UpToLevel(X, level, k), level),
         NEW q \in Seq(T), ListsOnce(q, AtLevel(X, level, k + 1))
  PROVE  InRounds(p \o q, UpToLevel(X, level, k + 1), level)
<1>1. PICK a \in Nat, b \in Nat : a = Len(p) /\ b = Len(q)
  BY LenProperties
<1>2. PICK c \in Seq(T) : c = p \o q
  BY ConcatProperties
<1>3. /\ Len(c) = a + b /\ \A i \in 1..(a + b) : c[i] = IF i <= a THEN p[i] ELSE q[i - a]
  <2>1. Len(c) = Len(p) + Len(q) /\ \A i \in 1..(Len(p) + Len(q)) : c[i] = IF i <= Len(p) THEN p[i] ELSE q[i - Len(p)]
    BY <1>2, ConcatProperties
  <2> QED BY <1>1, <2>1
<1>4. DOMAIN c = 1..(a + b) /\ DOMAIN p = 1..a /\ DOMAIN q = 1..b
  BY <1>1, <1>3, LenProperties
<1>5. /\ \A i \in 1..a : p[i] \in X /\ level[p[i]] <= k
      /\ \A x \in X : level[x] <= k => \E i \in 1..a : x = p[i]
      /\ \A i, j \in 1..a : p[i] = p[j] => i = j
      /\ \A i, j \in 1..a : i < j => level[p[i]] <= level[p[j]]
  <2>1. PICK Y : Y = UpToLevel(X, level, k)
    OBVIOUS
  <2>2. ToSet(p) = Y /\ ToSet(p) = {p[i] : i \in 1..a}
    BY <1>4, <2>1 DEF InRounds, ListsOnce, ToSet
  <2>3. \A x : x \in Y <=> x \in X /\ level[x] <= k
    BY <2>1 DEF UpToLevel
  <2>4. (\A i \in 1..a : p[i] \in Y) /\ \A x \in Y : \E i \in 1..a : x = p[i]
    BY <2>2
  <2>5. /\ \A i, j \in 1..a : p[i] = p[j] => i = j
        /\ \A i, j \in 1..a : i < j => level[p[i]] <= level[p[j]]
    BY <1>4 DEF InRounds, ListsOnce
  <2> QED BY <2>3, <2>4, <2>5
<1>6. /\ \A i \in 1..b : q[i] \in X /\ level[q[i]] = k + 1
      /\ \A x \in X : level[x] = k + 1 => \E i \in 1..b : x = q[i]
      /\ \A i, j \in 1..b : q[i] = q[j] => i = j
  <2>1. PICK Y : Y = AtLevel(X, level, k + 1)
    OBVIOUS
  <2>2. ToSet(q) = Y /\ ToSet(q) = {q[i] : i \in 1..b}
    BY <1>4, <2>1 DEF ListsOnce, ToSet
  <2>3. \A x : x \in Y <=> x \in X /\ level[x] = k + 1
    BY <2>1 DEF AtLevel
  <2>4. (\A i \in 1..b : q[i] \in Y) /\ \A x \in Y : \E i \in 1..b : x = q[i]
    BY <2>2
  <2>5. \A i, j \in 1..b : q[i] = q[j] => i = j
    BY <1>4 DEF ListsOnce
  <2> QED BY <2>3, <2>4, <2>5
<1>7. \A x \in X : level[x] \in Int
  OBVIOUS
<1>8. \A i \in 1..(a + b) : \/ i \in 1..a /\ c[i] = p[i]
                            \/ ~ (i <= a) /\ i - a \in 1..b /\ c[i] = q[i - a]
  <2> SUFFICES ASSUME NEW i \in 1..(a + b)
               PROVE  \/ i \in 1..a /\ c[i] = p[i]
                      \/ ~ (i <= a) /\ i - a \in 1..b /\ c[i] = q[i - a]
    OBVIOUS
  <2>1. CASE i <= a
    BY <1>3, <2>1
  <2>2. CASE ~ (i <= a)
    <3>1. i - a \in 1..b
      BY <2>2
    <3> QED BY <1>3, <2>2, <3>1
  <2> QED BY <2>1, <2>2
<1>9. ASSUME NEW i \in 1..(a + b) PROVE c[i] \in X /\ level[c[i]] <= k + 1
  <2>1. CASE i \in 1..a /\ c[i] = p[i]
    <3>1. p[i] \in X /\ level[p[i]] <= k /\ level[p[i]] \in Int
      BY <1>5, <1>7, <2>1
    <3> QED BY <2>1, <3>1
  <2>2. CASE ~ (i <= a) /\ i - a \in 1..b /\ c[i] = q[i - a]
    <3>1. q[i - a] \in X /\ level[q[i - a]] = k + 1
      BY <1>6, <2>2
    <3> QED BY <2>2, <3>1
  <2> QED BY <1>8, <2>1, <2>2
<1>10. ASSUME NEW x \in X, level[x] <= k + 1 PROVE \E i \in 1..(a + b) : x = c[i]
  <2>1. level[x] \in Int
    BY <1>7
  <2>2. CASE level[x] <= k
    <3>1. PICK i \in 1..a : x = p[i]
      BY <1>5, <2>2
    <3>2. i \in 1..(a + b) /\ i <= a
      OBVIOUS
    <3> QED BY <1>3, <3>1, <3>2
  <2>3. CASE level[x] = k + 1
    <3>1. PICK i \in 1..b : x = q[i]
      BY <1>6, <2>3
    <3>2. a + i \in 1..(a + b) /\ ~ (a + i <= a) /\ (a + i) - a = i
      OBVIOUS
    <3> QED BY <1>3, <3>1, <3>2
  <2> QED BY <1>10, <2>1, <2>2, <2>3
<1>11. ToSet(c) = UpToLevel(X, level, k + 1)
  BY <1>4, <1>9, <1>10 DEF ToSet, UpToLevel
<1>12. ASSUME NEW i \in 1..(a + b), NEW j \in 1..(a + b)
       PROVE  /\ c[i] = c[j] => i = j
              /\ i < j => level[c[i]] <= level[c[j]]
  <2>1. \/ i \in 1..a /\ c[i] = p[i]
        \/ ~ (i <= a) /\ i - a \in 1..b /\ c[i] = q[i - a]
    BY <1>8
  <2>2. \/ j \in 1..a /\ c[j] = p[j]
        \/ ~ (j <= a) /\ j - a \in 1..b /\ c[j] = q[j - a]
    BY <1>8
  <2>3. CASE i \in 1..a /\ c[i] = p[i]
    <3>1. CASE j \in 1..a /\ c[j] = p[j]
      BY <1>5, <2>3, <3>1
    <3>2. CASE ~ (j <= a) /\ j - a \in 1..b /\ c[j] = q[j - a]
      <4>1. level[c[i]] <= k /\ level[c[i]] \in Int /\ level[c[j]] = k + 1
        BY <1>5, <1>6, <1>7, <2>3, <3>2
      <4> QED BY <4>1
    <3> QED BY <2>2, <3>1, <3>2
  <2>4. CASE ~ (i <= a) /\ i - a \in 1..b /\ c[i] = q[i - a]
    <3>1. CASE j \in 1..a /\ c[j] = p[j]
      <4>1. level[c[j]] <= k /\ level[c[j]] \in Int /\ level[c[i]] = k + 1
        BY <1>5, <1>6, <1>7, <2>4, <3>1
      <4>2. ~ (i < j)
        BY <2>4, <3>1
      <4> QED BY <4>1, <4>2
    <3>2. CASE ~ (j <= a) /\ j - a \in 1..b /\ c[j] = q[j - a]
      <4>1. level[c[i]] = k + 1 /\ level[c[j]] = k + 1
        BY <1>6, <2>4, <3>2
      <4>2. c[i] = c[j] => i - a = j - a
        BY <1>6, <2>4, <3>2
      <4> QED BY <4>1, <4>2
    <3> QED BY <2>2, <3>1, <3>2
  <2> QED BY <2>1, <2>3, <2>4
<1> QED BY <1>2, <1>4, <1>11, <1>12 DEF InRounds, ListsOnce

\* Lists of what each level has, joined.
LEMMA RoundsJoined ==
  ASSUME NEW T, NEW X, NEW n \in Nat, NEW level \in [X -> 1..n], NEW rs \in Seq(Seq(T)),
         Len(rs) = n, \A i \in 1..n : ListsOnce(rs[i], AtLevel(X, level, i))
  PROVE  FlattenSeq(rs) \in Seq(T) /\ InRounds(FlattenSeq(rs), X, level)
<1>1. PICK f \in [0..n -> Seq(T)] : FlattensTo(f, rs)
  BY FlattenSteps
<1>2. /\ f[0] = << >> /\ f[n] = FlattenSeq(rs)
      /\ \A k \in 0..n : k < n => f[k + 1] = f[k] \o rs[k + 1]
  BY <1>1 DEF FlattensTo
<1> DEFINE G == {k \in 0..n : InRounds(f[k], UpToLevel(X, level, k), level)}
<1>3. 0 \in G
  <2>1. UpToLevel(X, level, 0) = {}
    <3>1. \A x \in X : level[x] \in 1..n /\ ~ (level[x] <= 0)
      OBVIOUS
    <3> QED BY <3>1 DEF UpToLevel
  <2>2. DOMAIN << >> = {} /\ ToSet(<< >>) = {}
    BY EmptySeq DEF ToSet
  <2>3. InRounds(f[0], UpToLevel(X, level, 0), level)
    BY <1>2, <2>1, <2>2 DEF InRounds, ListsOnce
  <2> QED BY <2>3
<1>4. ASSUME NEW k \in 0..n, k \in G, k < n PROVE k + 1 \in G
  <2>1. k \in Nat /\ k + 1 \in 1..n /\ k + 1 \in 0..n
    BY <1>4
  <2>2. PICK p \in Seq(T), q \in Seq(T) : p = f[k] /\ q = rs[k + 1]
    BY <2>1, ElementOfSeq
  <2>3. InRounds(p, UpToLevel(X, level, k), level) /\ ListsOnce(q, AtLevel(X, level, k + 1))
    BY <1>4, <2>1, <2>2
  <2>4. InRounds(p \o q, UpToLevel(X, level, k + 1), level)
    BY <2>1, <2>3, RoundAdded
  <2>5. f[k + 1] = p \o q
    BY <1>2, <1>4, <2>2
  <2> QED BY <2>1, <2>4, <2>5
<1> HIDE DEF G
<1>5. n \in G
  <2>1. \A k \in 0..n : k \in G /\ k < n => k + 1 \in G
    BY <1>4
  <2>2. \A k \in 0..n : k \in G
    BY <1>3, <2>1, UpTo
  <2>3. n \in 0..n
    OBVIOUS
  <2> QED BY <2>2, <2>3
<1>6. UpToLevel(X, level, n) = X
  <2>1. \A x \in X : level[x] \in 1..n /\ level[x] <= n
    OBVIOUS
  <2> QED BY <2>1 DEF UpToLevel
<1>7. n \in 0..n
  OBVIOUS
<1> QED BY <1>2, <1>5, <1>6, <1>7 DEF G

\* What each of the sources has, for a sample: a list of its own lines.
SamplesAre(S, order, n) ==
  /\ \A i, j \in DOMAIN order : order[i] = order[j] => i = j
  /\ \A k \in ToSet(order) : /\ Len(S[k]) <= n
                             /\ \A i \in DOMAIN S[k] : S[k][i].key = k
                             /\ \A i, j \in DOMAIN S[k] : S[k][i] = S[k][j] => i = j

AllSamples(S, order) == UNION {ToSet(S[k]) : k \in ToSet(order)}

\* The place of a line among those of its source.
LevelIn(S, order) ==
  [x \in AllSamples(S, order) |-> CHOOSE i \in DOMAIN S[x.key] : S[x.key][i] = x]

LEMMA LevelsAre ==
  ASSUME NEW K, NEW T, NEW order \in Seq(K), NEW S \in [K -> Seq(T)], NEW n \in Nat, SamplesAre(S, order, n)
  PROVE  /\ LevelIn(S, order) \in [AllSamples(S, order) -> 1..n]
         /\ \A k \in ToSet(order) : k \in K /\ DOMAIN S[k] = 1..Len(S[k]) /\ Len(S[k]) \in Nat
         /\ \A k \in ToSet(order) : \A i \in DOMAIN S[k] :
              S[k][i] \in AllSamples(S, order) /\ LevelIn(S, order)[S[k][i]] = i
         /\ \A x \in AllSamples(S, order) : \E k \in ToSet(order) : \E i \in DOMAIN S[k] : x = S[k][i]
<1>1. PICK X, level : X = AllSamples(S, order) /\ level = LevelIn(S, order)
  OBVIOUS
<1>2. \A k \in ToSet(order) : k \in K
  BY LenProperties, ElementOfSeq DEF ToSet
<1>3. \A k \in ToSet(order) : DOMAIN S[k] = 1..Len(S[k]) /\ Len(S[k]) \in Nat /\ Len(S[k]) <= n
  BY <1>2, LenProperties DEF SamplesAre
<1>4. \A k \in ToSet(order) : \A i \in DOMAIN S[k] : S[k][i] \in X
  BY <1>1 DEF AllSamples, ToSet
<1>5. ASSUME NEW x \in X PROVE \E k \in ToSet(order) : \E i \in DOMAIN S[k] : x = S[k][i]
  <2>1. PICK k \in ToSet(order) : x \in ToSet(S[k])
    BY <1>1 DEF AllSamples
  <2> QED BY <2>1 DEF ToSet
<1>6. ASSUME NEW k \in ToSet(order), NEW i \in DOMAIN S[k] PROVE level[S[k][i]] = i
  <2>1. PICK x : x = S[k][i]
    OBVIOUS
  <2>2. x \in X /\ x.key = k
    BY <1>4, <2>1 DEF SamplesAre
  <2>3. level[x] = CHOOSE j \in DOMAIN S[k] : S[k][j] = x
    BY <1>1, <2>2 DEF LevelIn
  <2>4. \A j \in DOMAIN S[k] : S[k][j] = x <=> j = i
    BY <2>1 DEF SamplesAre
  <2>5. level[x] = i
    BY <2>3, <2>4
  <2> QED BY <2>1, <2>5
<1>7. ASSUME NEW x \in X PROVE level[x] \in 1..n
  <2>1. PICK k \in ToSet(order) : \E i \in DOMAIN S[k] : x = S[k][i]
    BY <1>5
  <2>2. PICK i \in DOMAIN S[k] : x = S[k][i]
    BY <2>1
  <2>3. i \in 1..n
    BY <1>3
  <2> QED BY <1>6, <2>2, <2>3
<1>8. level \in [X -> 1..n]
  <2>1. level = [x \in X |-> level[x]]
    BY <1>1 DEF LevelIn
  <2> QED BY <1>7, <2>1
<1> QED BY <1>1, <1>2, <1>3, <1>4, <1>5, <1>6, <1>8

\* What one round takes: a line of every source that still has one.
RoundOf(S, order, i) ==
  LET having == Where(order, LAMBDA key : i <= Len(S[key]))
  IN [j \in DOMAIN having |-> S[having[j]][i]]

LEMMA RoundIs ==
  ASSUME NEW K, NEW T, NEW order \in Seq(K), NEW S \in [K -> Seq(T)], NEW n \in Nat, SamplesAre(S, order, n),
         NEW i \in 1..n
  PROVE  /\ RoundOf(S, order, i) \in Seq(T)
         /\ ListsOnce(RoundOf(S, order, i), AtLevel(AllSamples(S, order), LevelIn(S, order), i))
<1>1. PICK X, level : X = AllSamples(S, order) /\ level = LevelIn(S, order)
  OBVIOUS
<1>2. /\ level \in [X -> 1..n]
      /\ \A k \in ToSet(order) : k \in K /\ DOMAIN S[k] = 1..Len(S[k]) /\ Len(S[k]) \in Nat
      /\ \A k \in ToSet(order) : \A j \in DOMAIN S[k] : S[k][j] \in X /\ level[S[k][j]] = j
      /\ \A x \in X : \E k \in ToSet(order) : \E j \in DOMAIN S[k] : x = S[k][j]
  BY <1>1, LevelsAre
<1>3. PICK B : B = {k \in ToSet(order) : i <= Len(S[k])}
  OBVIOUS
<1>4. PICK h \in Seq(K) : h = Filter(order, B)
  BY FilterElements
<1>5. ToSet(h) = B /\ \A a, b \in DOMAIN h : h[a] = h[b] => a = b
  <2>1. \A a, b \in DOMAIN order : order[a] = order[b] => a = b
    BY DEF SamplesAre
  <2>2. ToSet(h) = ToSet(order) \intersect B
    BY <1>4, FilterElements
  <2>3. \A a, b \in DOMAIN h : h[a] = h[b] => a = b
    BY <1>4, <2>1, FilterElements
  <2> QED BY <1>3, <2>2, <2>3
<1>6. PICK r : r = [j \in DOMAIN h |-> S[h[j]][i]]
  OBVIOUS
<1>7. RoundOf(S, order, i) = r
  BY <1>3, <1>4, <1>6 DEF RoundOf, Where
<1>8. PICK m \in Nat : m = Len(h) /\ DOMAIN h = 1..m
  BY LenProperties
<1>9. \A k \in B : k \in ToSet(order) /\ k \in K /\ i \in DOMAIN S[k] /\ S[k][i] \in T /\ S[k][i].key = k
  <2> SUFFICES ASSUME NEW k \in B
               PROVE  k \in ToSet(order) /\ k \in K /\ i \in DOMAIN S[k] /\ S[k][i] \in T /\ S[k][i].key = k
    OBVIOUS
  <2>1. k \in ToSet(order) /\ i <= Len(S[k]) /\ k \in K /\ S[k] \in Seq(T)
    BY <1>2, <1>3
  <2>2. i \in DOMAIN S[k] /\ i \in 1..Len(S[k])
    BY <1>2, <2>1
  <2> QED BY <2>1, <2>2, ElementOfSeq DEF SamplesAre
<1>10. \A j \in 1..m : h[j] \in B /\ r[j] = S[h[j]][i]
  BY <1>5, <1>6, <1>8 DEF ToSet
<1>11. r \in Seq(T) /\ DOMAIN r = 1..m
  <2>1. \A j \in 1..m : r[j] \in T
    BY <1>9, <1>10
  <2>2. r \in [1..m -> T]
    <3>1. r = [j \in 1..m |-> S[h[j]][i]] /\ \A j \in 1..m : S[h[j]][i] \in T
      BY <1>6, <1>8, <1>10, <2>1
    <3> QED BY <3>1
  <2> QED BY <2>2
<1>12. ASSUME NEW a \in 1..m, NEW b \in 1..m, r[a] = r[b] PROVE a = b
  <2>1. r[a].key = h[a] /\ r[b].key = h[b]
    BY <1>9, <1>10
  <2> QED BY <1>5, <1>8, <1>12, <2>1
<1>13. ToSet(r) = {x \in X : level[x] = i}
  <2>1. ASSUME NEW j \in 1..m PROVE r[j] \in X /\ level[r[j]] = i
    <3>1. PICK k : k = h[j] /\ k \in B /\ r[j] = S[k][i]
      BY <1>10
    <3>2. k \in ToSet(order) /\ i \in DOMAIN S[k]
      BY <1>9, <3>1
    <3> QED BY <1>2, <3>1, <3>2
  <2>2. ASSUME NEW x \in X, level[x] = i PROVE \E j \in 1..m : x = r[j]
    <3>1. PICK k \in ToSet(order) : \E j \in DOMAIN S[k] : x = S[k][j]
      BY <1>2
    <3>2. x = S[k][i] /\ i \in DOMAIN S[k]
      BY <1>2, <2>2, <3>1
    <3>3. k \in B
      BY <1>2, <1>3, <3>2
    <3>4. PICK j \in 1..m : h[j] = k
      BY <1>5, <1>8, <3>3 DEF ToSet
    <3> QED BY <1>10, <3>2, <3>4
  <2>3. ToSet(r) = {r[j] : j \in 1..m}
    BY <1>11 DEF ToSet
  <2>4. \A x : x \in ToSet(r) <=> x \in X /\ level[x] = i
    BY <2>1, <2>2, <2>3
  <2> QED BY <2>4
<1>14. ListsOnce(r, AtLevel(X, level, i))
  BY <1>11, <1>12, <1>13 DEF ListsOnce, AtLevel
<1> QED BY <1>1, <1>7, <1>11, <1>14

\* A sample is the first of a list that goes round by round.
LEMMA SampledIs ==
  ASSUME NEW K, NEW T, NEW order \in Seq(K), NEW S \in [K -> Seq(T)], NEW n \in Nat, SamplesAre(S, order, n)
  PROVE  \E all \in Seq(T) : /\ Sampled(S, order, n) = Page(all, 0, n)
                             /\ InRounds(all, AllSamples(S, order), LevelIn(S, order))
<1>1. PICK X, level : X = AllSamples(S, order) /\ level = LevelIn(S, order)
  OBVIOUS
<1>2. level \in [X -> 1..n]
  BY <1>1, LevelsAre
<1>3. PICK rs : rs = [i \in 1..n |-> RoundOf(S, order, i)]
  OBVIOUS
<1>4. \A i \in 1..n : RoundOf(S, order, i) \in Seq(T) /\ ListsOnce(RoundOf(S, order, i), AtLevel(X, level, i))
  BY <1>1, RoundIs
<1>5. rs \in Seq(Seq(T)) /\ DOMAIN rs = 1..n
  BY <1>3, <1>4
<1>6. Len(rs) = n /\ \A i \in 1..n : ListsOnce(rs[i], AtLevel(X, level, i))
  BY <1>3, <1>4, <1>5, LenProperties
<1>7. PICK all \in Seq(T) : all = FlattenSeq(rs) /\ InRounds(all, X, level)
  BY <1>2, <1>5, <1>6, RoundsJoined
<1>8. Sampled(S, order, n) = Page(all, 0, n)
  BY <1>3, <1>7 DEF Sampled, RoundOf
<1> QED BY <1>1, <1>7, <1>8

SampleIs(u, k, n, X, level) ==
  /\ Len(u) \in Nat /\ Len(u) <= n /\ DOMAIN u = 1..Len(u)
  /\ \A i, j \in DOMAIN u : u[i] = u[j] => i = j
  /\ \A i \in DOMAIN u : u[i] \in X /\ u[i].key = k /\ level[u[i]] = i

\* One source of those that are sampled.
LEMMA OneSample ==
  ASSUME NEW K, NEW T, NEW order \in Seq(K), NEW S \in [K -> Seq(T)], NEW n \in Nat, SamplesAre(S, order, n),
         NEW k \in ToSet(order)
  PROVE  S[k] \in Seq(T) /\ SampleIs(S[k], k, n, AllSamples(S, order), LevelIn(S, order))
<1>1. PICK X, level : X = AllSamples(S, order) /\ level = LevelIn(S, order)
  OBVIOUS
<1>2. /\ \A c \in ToSet(order) : c \in K /\ DOMAIN S[c] = 1..Len(S[c]) /\ Len(S[c]) \in Nat
      /\ \A c \in ToSet(order) : \A i \in DOMAIN S[c] : S[c][i] \in X /\ level[S[c][i]] = i
  BY <1>1, LevelsAre
<1>3. S[k] \in Seq(T)
  BY <1>2
<1>4. /\ Len(S[k]) <= n
      /\ \A i \in DOMAIN S[k] : S[k][i].key = k
      /\ \A i, j \in DOMAIN S[k] : S[k][i] = S[k][j] => i = j
  BY DEF SamplesAre
<1>5. PICK u : u = S[k]
  OBVIOUS
<1>6. /\ Len(u) \in Nat /\ Len(u) <= n /\ DOMAIN u = 1..Len(u)
      /\ \A i, j \in DOMAIN u : u[i] = u[j] => i = j
      /\ \A i \in DOMAIN u : u[i] \in X /\ u[i].key = k /\ level[u[i]] = i
  BY <1>2, <1>4, <1>5
<1>7. SampleIs(u, k, n, X, level)
  BY <1>6 DEF SampleIs
<1> QED BY <1>1, <1>3, <1>5, <1>7

\* How many elements the first j places of a list without repetition have.
FirstIn(s, j) == {s[i] : i \in {x \in DOMAIN s : x <= j}}

LEMMA FirstElements ==
  ASSUME NEW T, NEW s \in Seq(T), \A a, b \in DOMAIN s : s[a] = s[b] => a = b, NEW j \in Nat
  PROVE  IsFiniteSet(FirstIn(s, j)) /\ Cardinality(FirstIn(s, j)) = IF j <= Len(s) THEN j ELSE Len(s)
<1>1. PICK n \in Nat : n = Len(s) /\ DOMAIN s = 1..n
  BY LenProperties
<1>2. PICK p \in Seq(T) : p = Page(s, 0, j)
  BY FirstPage
<1>3. PICK m \in Nat : m = (IF j <= n THEN j ELSE n)
  OBVIOUS
<1>4. Len(p) = m /\ \A i \in 1..m : p[i] = s[i]
  <2>1. Len(p) = (IF j <= Len(s) THEN j ELSE Len(s)) /\ \A i \in 1..Len(p) : p[i] = s[i]
    BY <1>2, FirstPage
  <2>2. Len(p) = m
    BY <1>1, <1>3, <2>1
  <2> QED BY <2>1, <2>2
<1>5. DOMAIN p = 1..m
  BY <1>4, LenProperties
<1>6. \A i : i \in 1..m <=> i \in 1..n /\ i <= j
  BY <1>3
<1>7. \A a, b \in DOMAIN p : p[a] = p[b] => a = b
  BY <1>1, <1>4, <1>5, <1>6
<1>8. IsFiniteSet(ToSet(p)) /\ Cardinality(ToSet(p)) = m
  BY <1>4, <1>7, LengthWithoutRepetition
<1>9. ToSet(p) = FirstIn(s, j)
  <2>1. PICK I : I = {x \in DOMAIN s : x <= j}
    OBVIOUS
  <2>2. I = 1..m
    BY <1>1, <1>6, <2>1
  <2>3. ToSet(p) = {s[i] : i \in 1..m}
    BY <1>4, <1>5 DEF ToSet
  <2> QED BY <2>1, <2>2, <2>3 DEF FirstIn
<1> QED BY <1>1, <1>3, <1>8, <1>9

\* The sources have the first n of their lines among those of M, or all of them.
MinesAre(S, order, n, M) ==
  /\ IsFiniteSet(M) /\ \A x \in M : x.key \in ToSet(order)
  /\ \A k \in ToSet(order) : /\ ToSet(S[k]) \subseteq {x \in M : x.key = k}
                             /\ Len(S[k]) < n => ToSet(S[k]) = {x \in M : x.key = k}

OfKey(X, k) == {x \in X : x.key = k}

\* The first n of a list have as many elements as the first n of M would.
CountsAs(all, M, n) ==
  /\ ToSet(all) \subseteq M
  /\ (IF n <= Len(all) THEN n ELSE Len(all)) = (IF Cardinality(M) <= n THEN Cardinality(M) ELSE n)

LEMMA SampleCounts ==
  ASSUME NEW K, NEW T, NEW order \in Seq(K), NEW S \in [K -> Seq(T)], NEW n \in Nat, SamplesAre(S, order, n),
         NEW M, MinesAre(S, order, n, M), NEW all \in Seq(T),
         InRounds(all, AllSamples(S, order), LevelIn(S, order))
  PROVE  CountsAs(all, M, n)
<1>1. PICK X : X = AllSamples(S, order)
  OBVIOUS
<1>2. ToSet(all) = X /\ \A i, j \in DOMAIN all : all[i] = all[j] => i = j
  BY <1>1 DEF InRounds, ListsOnce
<1>3. IsFiniteSet(X) /\ Len(all) = Cardinality(X)
  BY <1>2, LengthWithoutRepetition
<1>4. X \subseteq M
  <2>1. \A k \in ToSet(order) : ToSet(S[k]) \subseteq M
    BY DEF MinesAre
  <2> QED BY <1>1, <2>1 DEF AllSamples
<1>5. PICK x \in Nat, m \in Nat : x = Cardinality(X) /\ m = Cardinality(M)
  BY <1>3, FS_CardinalityType DEF MinesAre
<1>6. x <= m
  BY <1>3, <1>4, <1>5, FS_Subset DEF MinesAre
<1>7. ASSUME x < n PROVE X = M
  <2>1. ASSUME NEW k \in ToSet(order) PROVE ToSet(S[k]) = {y \in M : y.key = k}
    <3>1. PICK u : u = S[k]
      OBVIOUS
    <3>2. u \in Seq(T) /\ Len(u) \in Nat /\ \A i, j \in DOMAIN u : u[i] = u[j] => i = j
      <4>1. PICK level : level = LevelIn(S, order)
        OBVIOUS
      <4>2. S[k] \in Seq(T) /\ SampleIs(S[k], k, n, AllSamples(S, order), LevelIn(S, order))
        BY OneSample
      <4>3. u \in Seq(T) /\ SampleIs(u, k, n, X, level)
        BY <1>1, <3>1, <4>1, <4>2
      <4> QED BY <4>3 DEF SampleIs
    <3>3. IsFiniteSet(ToSet(u)) /\ Len(u) = Cardinality(ToSet(u))
      BY <3>2, LengthWithoutRepetition
    <3>4. ToSet(u) \subseteq X
      BY <1>1, <3>1 DEF AllSamples
    <3>5. Cardinality(ToSet(u)) <= x
      BY <1>3, <1>5, <3>4, FS_Subset
    <3>6. Len(u) < n
      BY <1>7, <3>2, <3>3, <3>5
    <3> QED BY <3>1, <3>6 DEF MinesAre
  <2>2. \A y \in M : y.key \in ToSet(order)
    BY DEF MinesAre
  <2>3. M \subseteq X
    BY <1>1, <2>1, <2>2 DEF AllSamples
  <2> QED BY <1>4, <2>3
<1>8. (IF n <= x THEN n ELSE x) = (IF m <= n THEN m ELSE n)
  <2>1. CASE x < n
    BY <1>5, <1>6, <1>7, <2>1
  <2>2. CASE n <= x
    BY <1>6, <2>2
  <2> QED BY <2>1, <2>2
<1> QED BY <1>2, <1>3, <1>4, <1>5, <1>8 DEF CountsAs

\* No source has two lines more in it than another that still had some.
EvenShare(X, M, k, m) ==
  \/ Cardinality(OfKey(X, k)) + 1 >= Cardinality(OfKey(X, m))
  \/ OfKey(X, k) = OfKey(M, k)

LEMMA SampleIsEven ==
  ASSUME NEW K, NEW T, NEW order \in Seq(K), NEW S \in [K -> Seq(T)], NEW n \in Nat, SamplesAre(S, order, n),
         NEW M, MinesAre(S, order, n, M), NEW all \in Seq(T),
         InRounds(all, AllSamples(S, order), LevelIn(S, order)),
         NEW k \in ToSet(order), NEW m \in ToSet(order)
  PROVE  EvenShare(ToSet(Page(all, 0, n)), M, k, m)
<1>0. PICK X : X = ToSet(Page(all, 0, n))
  OBVIOUS
<1>1. PICK level : level = LevelIn(S, order)
  OBVIOUS
<1>2. PICK u, v : u = S[k] /\ v = S[m]
  OBVIOUS
<1>3. /\ u \in Seq(T) /\ v \in Seq(T)
      /\ \A i, j \in DOMAIN u : u[i] = u[j] => i = j
      /\ \A i, j \in DOMAIN v : v[i] = v[j] => i = j
      /\ \A i \in DOMAIN u : u[i] \in ToSet(all) /\ level[u[i]] = i /\ u[i].key = k
      /\ \A i \in DOMAIN v : v[i] \in ToSet(all) /\ level[v[i]] = i /\ v[i].key = m
  <2>1. ToSet(all) = AllSamples(S, order)
    BY DEF InRounds, ListsOnce
  <2>2. /\ u \in Seq(T) /\ \A i, j \in DOMAIN u : u[i] = u[j] => i = j
        /\ \A i \in DOMAIN u : u[i] \in ToSet(all) /\ level[u[i]] = i /\ u[i].key = k
    <3>1. PICK Y : Y = AllSamples(S, order)
      OBVIOUS
    <3>2. S[k] \in Seq(T) /\ SampleIs(S[k], k, n, AllSamples(S, order), LevelIn(S, order))
      BY OneSample
    <3>3. u \in Seq(T) /\ SampleIs(u, k, n, Y, level)
      BY <1>1, <1>2, <3>1, <3>2
    <3>4. Y = ToSet(all)
      BY <2>1, <3>1
    <3> QED BY <3>3, <3>4 DEF SampleIs
  <2>3. /\ v \in Seq(T) /\ \A i, j \in DOMAIN v : v[i] = v[j] => i = j
        /\ \A i \in DOMAIN v : v[i] \in ToSet(all) /\ level[v[i]] = i /\ v[i].key = m
    <3>1. PICK Y : Y = AllSamples(S, order)
      OBVIOUS
    <3>2. S[m] \in Seq(T) /\ SampleIs(S[m], m, n, AllSamples(S, order), LevelIn(S, order))
      BY OneSample
    <3>3. v \in Seq(T) /\ SampleIs(v, m, n, Y, level)
      BY <1>1, <1>2, <3>1, <3>2
    <3>4. Y = ToSet(all)
      BY <2>1, <3>1
    <3> QED BY <3>3, <3>4 DEF SampleIs
  <2> QED BY <2>2, <2>3
<1>4. PICK c \in Nat, a \in Nat, b \in Nat : /\ c = Len(all) /\ a = Len(v) /\ b = Len(u)
  BY <1>3, LenProperties
<1>5. DOMAIN all = 1..c /\ DOMAIN v = 1..a /\ DOMAIN u = 1..b
  BY <1>3, <1>4, LenProperties
<1>6. PICK e \in Nat : e = (IF n <= c THEN n ELSE c)
  OBVIOUS
<1>7. X = {all[i] : i \in 1..e} /\ e <= c /\ e <= n
  <2>1. PICK p \in Seq(T) : p = Page(all, 0, n)
    BY FirstPage
  <2>2. Len(p) = e /\ \A i \in 1..Len(p) : p[i] = all[i]
    BY <1>4, <1>6, <2>1, FirstPage
  <2>3. DOMAIN p = 1..e
    BY <2>2, LenProperties
  <2>4. X = {p[i] : i \in 1..e}
    BY <1>0, <2>1, <2>3 DEF ToSet
  <2>5. \A i \in 1..e : p[i] = all[i]
    BY <2>2
  <2>6. \A z : z \in X <=> \E i \in 1..e : z = all[i]
    BY <2>4, <2>5
  <2>7. X = {all[i] : i \in 1..e}
    BY <2>6
  <2> QED BY <1>6, <2>7
<1>8. X \subseteq ToSet(all) /\ ToSet(all) \subseteq M
  <2>1. X \subseteq ToSet(all)
    <3>1. \A i \in 1..e : i \in 1..c
      BY <1>7
    <3> QED BY <1>5, <1>7, <3>1 DEF ToSet
  <2> QED BY <2>1, SampleCounts DEF CountsAs
<1>9. \A i, j \in 1..c : i < j => level[all[i]] <= level[all[j]]
  BY <1>1, <1>5 DEF InRounds
<1>10. IsFiniteSet(X)
  <2>1. IsFiniteSet(ToSet(all))
    BY LengthWithoutRepetition DEF InRounds, ListsOnce
  <2> QED BY <1>8, <2>1, FS_Subset
<1>11. PICK A, B : A = OfKey(X, m) /\ B = OfKey(X, k)
  OBVIOUS
<1>12. A \subseteq X /\ B \subseteq X /\ IsFiniteSet(A) /\ IsFiniteSet(B)
  <2>1. A \subseteq X /\ B \subseteq X
    BY <1>11 DEF OfKey
  <2> QED BY <1>10, <2>1, FS_Subset
<1>13. PICK x \in Nat, y \in Nat : x = Cardinality(A) /\ y = Cardinality(B)
  BY <1>12, FS_CardinalityType
<1>14. SUFFICES ASSUME y + 2 <= x PROVE B = OfKey(M, k)
  BY <1>0, <1>11, <1>13 DEF EvenShare
<1>15. ToSet(u) \subseteq OfKey(M, k) /\ (b < n => ToSet(u) = OfKey(M, k))
  BY <1>2, <1>4 DEF MinesAre, OfKey
<1>16. ToSet(v) \subseteq OfKey(M, m)
  BY <1>2 DEF MinesAre, OfKey
<1>17. A \subseteq ToSet(v)
  <2>1. ASSUME NEW z \in A PROVE z \in ToSet(v)
    <3>1. z \in ToSet(all) /\ z.key = m
      BY <1>8, <1>11, <1>12 DEF OfKey
    <3>2. z \in AllSamples(S, order)
      BY <3>1 DEF InRounds, ListsOnce
    <3>3. PICK q \in ToSet(order) : \E i \in DOMAIN S[q] : z = S[q][i]
      BY <3>2, LevelsAre
    <3>4. PICK i \in DOMAIN S[q] : z = S[q][i]
      BY <3>3
    <3>5. q = m
      BY <3>1, <3>4 DEF SamplesAre
    <3> QED BY <1>2, <3>4, <3>5 DEF ToSet
  <2> QED BY <2>1
<1>18. PICK i \in 1..a : v[i] \in X /\ x <= i
  <2> SUFFICES ASSUME \A i \in 1..a : v[i] \in X => ~ (x <= i) PROVE FALSE
    OBVIOUS
  <2>1. PICK w \in Nat : w = x - 1
    BY <1>14
  <2>2. PICK F : F = FirstIn(v, w)
    OBVIOUS
  <2>3. IsFiniteSet(F) /\ Cardinality(F) = (IF w <= a THEN w ELSE a)
    BY <1>3, <1>4, <2>2, FirstElements
  <2>4. A \subseteq F
    <3>1. ASSUME NEW z \in A PROVE z \in F
      <4>1. PICK i \in 1..a : z = v[i]
        BY <1>5, <1>17 DEF ToSet
      <4>2. ~ (x <= i)
        BY <1>12, <4>1
      <4>3. i <= w
        BY <2>1, <4>2
      <4> QED BY <1>5, <2>2, <4>1, <4>3 DEF FirstIn
    <3> QED BY <3>1
  <2>5. x <= Cardinality(F)
    BY <1>13, <2>3, <2>4, FS_Subset
  <2> QED BY <2>1, <2>3, <2>5
<1>19. PICK p \in 1..e : v[i] = all[p]
  BY <1>7, <1>18
<1>20. ASSUME NEW j \in 1..b, j < i PROVE u[j] \in B
  <2>0. u[j] \in ToSet(all)
    BY <1>3, <1>5
  <2>1. PICK q \in 1..c : u[j] = all[q]
    BY <1>5, <2>0 DEF ToSet
  <2>2. level[all[q]] = j /\ level[all[p]] = i
    BY <1>3, <1>5, <1>19, <2>1
  <2>3. p \in 1..c
    BY <1>7
  <2>4. q < p
    <3>1. q # p
      BY <1>20, <2>2
    <3>2. ASSUME p < q PROVE FALSE
      <4>1. level[all[p]] <= level[all[q]]
        BY <1>9, <2>3, <3>2
      <4> QED BY <1>20, <2>2, <4>1
    <3> QED BY <3>1, <3>2
  <2>5. q \in 1..e
    BY <2>4
  <2>6. u[j] \in X /\ u[j].key = k
    <3>1. all[q] \in X
      BY <1>7, <2>5
    <3> QED BY <1>3, <1>5, <2>1, <3>1
  <2> QED BY <1>11, <2>6 DEF OfKey
<1>21. b < i
  <2> SUFFICES ASSUME ~ (b < i) PROVE FALSE
    OBVIOUS
  <2>1. PICK w \in Nat : w = i - 1
    OBVIOUS
  <2>2. PICK F : F = FirstIn(u, w)
    OBVIOUS
  <2>3. IsFiniteSet(F) /\ Cardinality(F) = (IF w <= b THEN w ELSE b)
    BY <1>3, <1>4, <2>2, FirstElements
  <2>4. F \subseteq B
    <3>1. ASSUME NEW j \in DOMAIN u, j <= w PROVE u[j] \in B
      <4>1. j \in 1..b /\ j < i
        BY <1>5, <2>1, <3>1
      <4> QED BY <1>20, <4>1
    <3> QED BY <2>2, <3>1 DEF FirstIn
  <2>5. Cardinality(F) <= y
    BY <1>12, <1>13, <2>4, FS_Subset
  <2> QED BY <1>14, <1>18, <2>1, <2>3, <2>5
<1>22. ToSet(u) \subseteq B
  <2>1. \A j \in 1..b : j < i
    BY <1>21
  <2> QED BY <1>5, <1>20, <2>1 DEF ToSet
<1>23. b < n
  <2>1. a <= n
    BY <1>2, <1>4 DEF SamplesAre
  <2> QED BY <1>21, <2>1
<1>24. B \subseteq OfKey(M, k)
  BY <1>8, <1>11 DEF OfKey
<1> QED BY <1>15, <1>22, <1>23, <1>24

NoRepetition(s) == \A i, j \in DOMAIN s : s[i] = s[j] => i = j

\* The first of a list without repetition.
LEMMA FirstDistinct ==
  ASSUME NEW T, NEW s \in Seq(T), NoRepetition(s), NEW n \in Nat
  PROVE  /\ Page(s, 0, n) \in Seq(T) /\ NoRepetition(Page(s, 0, n))
         /\ Len(Page(s, 0, n)) \in Nat /\ Len(Page(s, 0, n)) <= n
         /\ ToSet(Page(s, 0, n)) \subseteq ToSet(s)
         /\ Len(Page(s, 0, n)) < n => ToSet(Page(s, 0, n)) = ToSet(s)
<1>1. PICK m \in Nat : m = Len(s) /\ DOMAIN s = 1..m
  BY LenProperties
<1>2. PICK p \in Seq(T) : p = Page(s, 0, n)
  BY FirstPage
<1>3. PICK k \in Nat : k = (IF n <= m THEN n ELSE m)
  OBVIOUS
<1>4. Len(p) = k /\ \A i \in 1..k : p[i] = s[i]
  <2>1. Len(p) = (IF n <= Len(s) THEN n ELSE Len(s)) /\ \A i \in 1..Len(p) : p[i] = s[i]
    BY <1>2, FirstPage
  <2>2. Len(p) = k
    BY <1>1, <1>3, <2>1
  <2> QED BY <2>1, <2>2
<1>5. DOMAIN p = 1..k
  BY <1>4, LenProperties
<1>6. k <= n /\ k <= m /\ (k < n => k = m)
  BY <1>3
<1>7. \A i \in 1..k : i \in 1..m
  BY <1>6
<1>8. NoRepetition(p)
  BY <1>1, <1>4, <1>5, <1>7 DEF NoRepetition
<1>9. ToSet(p) \subseteq ToSet(s)
  BY <1>1, <1>4, <1>5, <1>7 DEF ToSet
<1>10. ASSUME k < n PROVE ToSet(p) = ToSet(s)
  BY <1>1, <1>4, <1>5, <1>6, <1>10 DEF ToSet
<1> QED BY <1>2, <1>4, <1>6, <1>8, <1>9, <1>10

\* Of lines with references of their own, those in S have such references too.
LEMMA RefsDistinct ==
  ASSUME NEW d \in Seq(Refs), DistinctRefs(d), NEW S
  PROVE  /\ Filter(d, S) \in Seq(Refs) /\ DistinctRefs(Filter(d, S))
         /\ RefsOf(Filter(d, S)) \in Seq(LineRefs) /\ NoRepetition(RefsOf(Filter(d, S)))
         /\ ToSet(RefsOf(Filter(d, S))) = {r.ref : r \in ToSet(d) \intersect S}
<1>1. PICK f \in Seq(Refs) : f = Filter(d, S)
  BY FilterElements
<1>2. \A i, j \in DOMAIN d : d[i] = d[j] => i = j
  BY DEF DistinctRefs
<1>3. ToSet(f) = ToSet(d) \intersect S
  BY <1>1, FilterElements
<1>4. \A i, j \in DOMAIN f : f[i] = f[j] => i = j
  BY <1>1, <1>2, FilterElements
<1>5. PICK n \in Nat : n = Len(f) /\ DOMAIN f = 1..n
  BY LenProperties
<1>6. DistinctRefs(f)
  <2> SUFFICES ASSUME NEW a \in DOMAIN f, NEW b \in DOMAIN f, f[a].ref = f[b].ref PROVE a = b
    BY DEF DistinctRefs
  <2>1. f[a] \in ToSet(d) /\ f[b] \in ToSet(d)
    BY <1>3 DEF ToSet
  <2>2. PICK i, j \in DOMAIN d : f[a] = d[i] /\ f[b] = d[j]
    BY <2>1 DEF ToSet
  <2>3. i = j
    BY <2>2 DEF DistinctRefs
  <2> QED BY <1>4, <2>2, <2>3
<1>7. PICK q \in Seq(LineRefs) : q = RefsOf(f)
  BY RefsOfIs
<1>8. DOMAIN q = 1..n /\ \A i \in 1..n : q[i] = f[i].ref
  BY <1>5, <1>7 DEF RefsOf
<1>9. NoRepetition(q)
  BY <1>5, <1>6, <1>8 DEF NoRepetition, DistinctRefs
<1>10. ToSet(q) = {r.ref : r \in ToSet(d) \intersect S}
  <2>1. ToSet(f) = {f[i] : i \in 1..n} /\ ToSet(q) = {q[i] : i \in 1..n}
    BY <1>5, <1>8 DEF ToSet
  <2>2. ToSet(q) = {r.ref : r \in ToSet(f)}
    BY <1>8, <2>1
  <2> QED BY <1>3, <2>2
<1> QED BY <1>1, <1>6, <1>7, <1>9, <1>10

\* How many elements of a list without repetition have the key k.
LEMMA ShareIs ==
  ASSUME NEW T, NEW s \in Seq(T), NoRepetition(s), NEW k
  PROVE  /\ IsFiniteSet(OfKey(ToSet(s), k)) /\ Cardinality(OfKey(ToSet(s), k)) \in Nat
         /\ Len(Filter(s, OfKey(ToSet(s), k))) = Cardinality(OfKey(ToSet(s), k))
<1>1. PICK S : S = OfKey(ToSet(s), k)
  OBVIOUS
<1>2. PICK f \in Seq(T) : f = Filter(s, S)
  BY FilterElements
<1>3. ToSet(f) = S
  <2>1. ToSet(f) = ToSet(s) \intersect S
    BY <1>2, FilterElements
  <2> QED BY <1>1, <2>1 DEF OfKey
<1>4. \A i, j \in DOMAIN f : f[i] = f[j] => i = j
  <2>1. \A i, j \in DOMAIN s : s[i] = s[j] => i = j
    BY DEF NoRepetition
  <2> QED BY <1>2, <2>1, FilterElements
<1>5. IsFiniteSet(ToSet(f)) /\ Len(f) = Cardinality(ToSet(f))
  BY <1>4, LengthWithoutRepetition
<1> QED BY <1>1, <1>2, <1>3, <1>5, LenProperties

\* Sources with a key each are selected once each.
LEMMA SelectedOnce ==
  ASSUME NEW c, c.op = "create_filtered_view", DistinctKeys(Sources)
  PROVE  /\ Opened(c) = SelectViewFiles(c.keys) /\ Opened(c) \in Seq(ToSet(Sources))
         /\ DistinctKeys(Opened(c))
<1>1. Opened(c) = SelectViewFiles(c.keys)
  <2>1. Opened(c) = Selected(c)
    BY ProxyOpensAll
  <2> QED BY <2>1 DEF Selected
<1>2. PICK ss \in Seq(ToSet(Sources)) : ss = Opened(c)
  BY SelectsSources
<1>3. NoRepetition(Sources)
  BY DEF DistinctKeys, NoRepetition
<1>4. \A S : /\ Filter(Sources, S) \in Seq(ToSet(Sources)) /\ NoRepetition(Filter(Sources, S))
  BY <1>3, InputsAssumption, FilterElements DEF NoRepetition
<1>5. Available(Sources) \in Seq(ToSet(Sources)) /\ NoRepetition(Available(Sources))
  BY <1>4 DEF Available, Where
<1>6. \A keys : NoRepetition(Named(keys, Sources))
  <2>1. PICK a \in Seq(ToSet(Sources)) : a = Available(Sources) /\ NoRepetition(a)
    BY <1>5
  <2>2. \A S : NoRepetition(Filter(a, S))
    BY <2>1, FilterElements DEF NoRepetition
  <2> QED BY <2>1, <2>2 DEF Named, Where
<1>7. NoRepetition(ss)
  BY <1>1, <1>2, <1>5, <1>6 DEF SelectViewFiles
<1>8. DistinctKeys(ss)
  <2> SUFFICES ASSUME NEW a \in DOMAIN ss, NEW b \in DOMAIN ss, ss[a].key = ss[b].key PROVE a = b
    BY DEF DistinctKeys
  <2>1. ss[a] \in ToSet(Sources) /\ ss[b] \in ToSet(Sources)
    BY LenProperties, ElementOfSeq
  <2>2. PICK i, j \in DOMAIN Sources : ss[a] = Sources[i] /\ ss[b] = Sources[j]
    BY <2>1 DEF ToSet
  <2>3. i = j
    BY <2>2 DEF DistinctKeys
  <2> QED BY <1>7, <2>2, <2>3 DEF NoRepetition
<1> QED BY <1>1, <1>2, <1>8

\* What a scan for a sample holds: of every source the first of its kept lines.
LEMMA SamplesHeld ==
  ASSUME NEW d \in Seq(Refs), NEW ss \in Seq(ToSet(Sources)), LinesAreOf(d, ss), DistinctKeys(ss),
         NEW n \in Nat, NEW f, Stored(f, Filter(d, KeptRefs), "sample", n),
         NEW order, order = [i \in DOMAIN ss |-> ss[i].key],
         NEW M, M = ToSet(RefsOf(Filter(d, KeptRefs)))
  PROVE  /\ order \in Seq(KeysOf(Sources)) /\ f.samples \in [KeysOf(Sources) -> Seq(LineRefs)]
         /\ SamplesAre(f.samples, order, n) /\ MinesAre(f.samples, order, n, M)
         /\ \A x \in M : x.key \in ToSet(order)
<1>1. PICK K, S : K = KeysOf(Sources) /\ S = f.samples
  OBVIOUS
<1>2. \A k \in K : S[k] = Page(RefsOf(Filter(Filter(d, KeptRefs), OfSource(k))), 0, n)
  BY <1>1 DEF Stored, FirstOf
<1>3. DistinctRefs(d) /\ \A i \in DOMAIN d : \E j \in DOMAIN ss : d[i].ref.key = ss[j].key
  BY DEF LinesAreOf
<1>4. PICK kept \in Seq(Refs) : /\ kept = Filter(d, KeptRefs) /\ DistinctRefs(kept)
                                /\ NoRepetition(RefsOf(kept)) /\ RefsOf(kept) \in Seq(LineRefs)
  BY <1>3, RefsDistinct
<1>5. M = {r.ref : r \in ToSet(d) \intersect KeptRefs} /\ ToSet(kept) = ToSet(d) \intersect KeptRefs
  BY <1>3, <1>4, RefsDistinct, FilterElements
<1>6. ASSUME NEW k \in K
      PROVE  /\ S[k] \in Seq(LineRefs) /\ NoRepetition(S[k]) /\ Len(S[k]) <= n
             /\ ToSet(S[k]) \subseteq OfKey(M, k)
             /\ Len(S[k]) < n => ToSet(S[k]) = OfKey(M, k)
  <2>1. PICK P \in Seq(LineRefs) : /\ P = RefsOf(Filter(kept, OfSource(k))) /\ NoRepetition(P)
                                   /\ ToSet(P) = {r.ref : r \in ToSet(kept) \intersect OfSource(k)}
    BY <1>4, RefsDistinct
  <2>2. ToSet(P) = OfKey(M, k)
    <3>1. ToSet(kept) \subseteq Refs
      BY DEF ToSet
    <3>2. ToSet(kept) \intersect OfSource(k) = {r \in ToSet(kept) : r.ref.key = k}
      BY <3>1 DEF OfSource
    <3>3. \A x : x \in ToSet(P) <=> \E r \in ToSet(kept) : r.ref.key = k /\ x = r.ref
      BY <2>1, <3>2
    <3>4. \A x : x \in OfKey(M, k) <=> \E r \in ToSet(kept) : x = r.ref /\ x.key = k
      BY <1>5 DEF OfKey
    <3>5. \A x : x \in ToSet(P) <=> x \in OfKey(M, k)
      BY <3>3, <3>4
    <3> QED BY <3>5
  <2>3. S[k] = Page(P, 0, n)
    BY <1>2, <1>4, <2>1
  <2>4. /\ S[k] \in Seq(LineRefs) /\ NoRepetition(S[k]) /\ Len(S[k]) <= n
        /\ ToSet(S[k]) \subseteq ToSet(P) /\ (Len(S[k]) < n => ToSet(S[k]) = ToSet(P))
    BY <2>1, <2>3, FirstDistinct
  <2> QED BY <2>2, <2>4
<1>7. PICK m \in Nat : m = Len(ss) /\ DOMAIN ss = 1..m
  BY LenProperties
<1>8. order \in Seq(K) /\ DOMAIN order = 1..m /\ \A i \in 1..m : order[i] = ss[i].key
  <2>1. \A i \in 1..m : ss[i].key \in K
    <3> SUFFICES ASSUME NEW i \in 1..m PROVE ss[i].key \in K
      OBVIOUS
    <3>1. ss[i] \in ToSet(Sources)
      BY <1>7, ElementOfSeq
    <3> QED BY <1>1, <3>1 DEF KeysOf, ToSet
  <2> QED BY <1>7, <2>1
<1>9. \A k \in ToSet(order) : k \in K
  BY <1>8, LenProperties, ElementOfSeq DEF ToSet
<1>10. S \in [K -> Seq(LineRefs)]
  <2>1. S = [k \in K |-> S[k]]
    BY <1>1 DEF Stored
  <2> QED BY <1>6, <2>1
<1>11. \A i, j \in DOMAIN order : order[i] = order[j] => i = j
  BY <1>7, <1>8 DEF DistinctKeys
<1>12. ASSUME NEW k \in ToSet(order)
       PROVE  /\ Len(S[k]) <= n
              /\ \A i \in DOMAIN S[k] : S[k][i].key = k
              /\ \A i, j \in DOMAIN S[k] : S[k][i] = S[k][j] => i = j
  <2>1. k \in K
    BY <1>9
  <2>2. PICK u : u = S[k]
    OBVIOUS
  <2>3. NoRepetition(u) /\ Len(u) <= n /\ ToSet(u) \subseteq OfKey(M, k)
    BY <1>6, <2>1, <2>2
  <2>4. \A i \in DOMAIN u : u[i].key = k
    BY <2>3 DEF ToSet, OfKey
  <2> QED BY <2>2, <2>3, <2>4 DEF NoRepetition
<1>13. SamplesAre(S, order, n)
  BY <1>11, <1>12 DEF SamplesAre
<1>14. ASSUME NEW x \in M PROVE x.key \in ToSet(order)
  <2>1. PICK r \in ToSet(d) : x = r.ref
    BY <1>5
  <2>2. PICK i \in DOMAIN d : r = d[i]
    BY <2>1 DEF ToSet
  <2>3. PICK j \in 1..m : x.key = ss[j].key
    BY <1>3, <1>7, <2>1, <2>2
  <2> QED BY <1>8, <2>3 DEF ToSet
<1>15. IsFiniteSet(M)
  <2>1. \A i, j \in DOMAIN RefsOf(kept) : RefsOf(kept)[i] = RefsOf(kept)[j] => i = j
    BY <1>4 DEF NoRepetition
  <2> QED BY <1>4, <2>1, LengthWithoutRepetition
<1>16. MinesAre(S, order, n, M)
  <2>1. \A k \in ToSet(order) : /\ ToSet(S[k]) \subseteq {x \in M : x.key = k}
                                /\ Len(S[k]) < n => ToSet(S[k]) = {x \in M : x.key = k}
    BY <1>6, <1>9 DEF OfKey
  <2> QED BY <1>14, <1>15, <2>1 DEF MinesAre
<1> QED BY <1>1, <1>8, <1>10, <1>13, <1>14, <1>16

ShareOf(s, k) == Len(Filter(s, OfKey(ToSet(s), k)))

\* An even share of every source.
EvenlyFrom(shown, q) ==
  \A k, m \in {x.key : x \in ToSet(q)} :
     ShareOf(shown, k) + 1 >= ShareOf(shown, m) \/ ShareOf(shown, k) = ShareOf(q, k)

KeyList(ss) == [i \in DOMAIN ss |-> ss[i].key]

FairSample(shown, q, n) ==
  /\ NoRepetition(shown) /\ ToSet(shown) \subseteq ToSet(q)
  /\ Len(shown) = IF Len(q) <= n THEN Len(q) ELSE n
  /\ EvenlyFrom(shown, q)

LEMMA SampleShown ==
  ASSUME NEW d \in Seq(Refs), NEW ss \in Seq(ToSet(Sources)), LinesAreOf(d, ss), DistinctKeys(ss),
         NEW n \in Nat, NEW f, Stored(f, Filter(d, KeptRefs), "sample", n),
         NEW q, q = RefsOf(Filter(d, KeptRefs))
  PROVE  FairSample(Sampled(f.samples, KeyList(ss), n), q, n)
<1>0. PICK shown : shown = Sampled(f.samples, KeyList(ss), n)
  OBVIOUS
<1>1. PICK order : order = KeyList(ss) /\ order = [i \in DOMAIN ss |-> ss[i].key]
  BY DEF KeyList
<1>2. PICK K, S, M : K = KeysOf(Sources) /\ S = f.samples /\ M = ToSet(q)
  OBVIOUS
<1>3. /\ order \in Seq(K) /\ S \in [K -> Seq(LineRefs)]
      /\ SamplesAre(S, order, n) /\ MinesAre(S, order, n, M)
      /\ \A x \in M : x.key \in ToSet(order)
  BY <1>1, <1>2, SamplesHeld
<1>4. q \in Seq(LineRefs) /\ NoRepetition(q)
  BY RefsDistinct DEF LinesAreOf
<1>5. IsFiniteSet(M) /\ Len(q) = Cardinality(M) /\ Len(q) \in Nat
  BY <1>2, <1>4, LengthWithoutRepetition, LenProperties DEF NoRepetition
<1>6. PICK all \in Seq(LineRefs) : /\ Sampled(S, order, n) = Page(all, 0, n)
                                   /\ InRounds(all, AllSamples(S, order), LevelIn(S, order))
  BY <1>3, SampledIs
<1>7. shown = Page(all, 0, n)
  BY <1>0, <1>1, <1>2, <1>6
<1>8. NoRepetition(all)
  BY <1>6 DEF InRounds, ListsOnce, NoRepetition
<1>9. shown \in Seq(LineRefs) /\ NoRepetition(shown) /\ ToSet(shown) \subseteq ToSet(all)
  <2>1. PICK p : p = Page(all, 0, n)
    OBVIOUS
  <2>2. Page(all, 0, n) \in Seq(LineRefs) /\ NoRepetition(Page(all, 0, n)) /\ ToSet(Page(all, 0, n)) \subseteq ToSet(all)
    BY <1>8, FirstDistinct
  <2> QED BY <1>7, <2>2
<1>10. /\ ToSet(all) \subseteq M
       /\ (IF n <= Len(all) THEN n ELSE Len(all)) = (IF Cardinality(M) <= n THEN Cardinality(M) ELSE n)
  <2>1. SamplesAre(S, order, n) /\ MinesAre(S, order, n, M) /\ order \in Seq(K) /\ S \in [K -> Seq(LineRefs)]
    BY <1>3
  <2>2. InRounds(all, AllSamples(S, order), LevelIn(S, order))
    BY <1>6
  <2>3. CountsAs(all, M, n)
    BY <2>1, <2>2, SampleCounts
  <2> QED BY <2>3 DEF CountsAs
<1>11. Len(shown) = IF n <= Len(all) THEN n ELSE Len(all)
  BY <1>7, FirstPage
<1>12. Len(shown) = IF Len(q) <= n THEN Len(q) ELSE n
  BY <1>5, <1>10, <1>11
<1>13. PICK X : X = ToSet(shown) /\ X = ToSet(Page(all, 0, n))
  BY <1>7
<1>14. ASSUME NEW k \in ToSet(order), NEW m \in ToSet(order)
       PROVE  ShareOf(shown, k) + 1 >= ShareOf(shown, m) \/ ShareOf(shown, k) = ShareOf(q, k)
  <2>1. \/ Cardinality(OfKey(X, k)) + 1 >= Cardinality(OfKey(X, m))
        \/ OfKey(X, k) = OfKey(M, k)
    <3>1. SamplesAre(S, order, n) /\ MinesAre(S, order, n, M) /\ order \in Seq(K) /\ S \in [K -> Seq(LineRefs)]
      BY <1>3
    <3>2. InRounds(all, AllSamples(S, order), LevelIn(S, order)) /\ X = ToSet(Page(all, 0, n))
      BY <1>6, <1>13
    <3>3. EvenShare(ToSet(Page(all, 0, n)), M, k, m)
      BY <3>1, <3>2, SampleIsEven
    <3>4. EvenShare(X, M, k, m)
      BY <3>2, <3>3
    <3> QED BY <3>4 DEF EvenShare
  <2>2. ShareOf(shown, k) = Cardinality(OfKey(X, k)) /\ ShareOf(shown, m) = Cardinality(OfKey(X, m))
    BY <1>9, <1>13, ShareIs DEF ShareOf
  <2>3. ShareOf(q, k) = Cardinality(OfKey(M, k))
    BY <1>2, <1>4, ShareIs DEF ShareOf
  <2> QED BY <2>1, <2>2, <2>3
<1>15. EvenlyFrom(shown, q)
  <2>1. \A k \in {x.key : x \in ToSet(q)} : k \in ToSet(order)
    BY <1>2, <1>3
  <2> QED BY <1>14, <2>1 DEF EvenlyFrom
<1> QED BY <1>0, <1>2, <1>9, <1>10, <1>12, <1>15 DEF FairSample

\* ViewLosesNothing, of the lines shown, in a mode and with a limit, of the lines d.
Viewed(a, mode, n, d) ==
  LET kept == Where(d, LAMBDA l : Exclusion(SourceOf(l.ref.key).noise, l.line) = "")
      refs(s) == [i \in DOMAIN s |-> s[i].ref]
      incidents == Where(kept, LAMBDA l : IncidentLine(l.line))
      regular == Where(kept, LAMBDA l : ~IncidentLine(l.line))
      share(k, s) == Len(Where(s, LAMBDA r : r.key = k))
      shown == a.lines
  IN /\ a.kept = Len(kept) /\ a.total = Len(d)
     /\ Len(shown) = Min({Len(kept), n})
     /\ mode = "head" => shown = Page(refs(kept), 0, n)
     /\ mode = "errors" => shown = Page(refs(incidents) \o refs(regular), 0, n)
     /\ mode = "sample" =>
            /\ IsInjective(shown) /\ Range(shown) \subseteq Range(refs(kept))
            /\ \A k, m \in {kept[i].ref.key : i \in DOMAIN kept} :
                  \/ share(k, shown) + 1 >= share(m, shown)
                  \/ share(k, shown) = share(k, refs(kept))

\* The same, of lists that name the sets they keep.
ShownOf(shown, mode, n, kept) ==
  /\ Len(shown) = IF Len(kept) <= n THEN Len(kept) ELSE n
  /\ mode = "head" => shown = Page(RefsOf(kept), 0, n)
  /\ mode = "errors" =>
        shown = Page(RefsOf(Filter(kept, IncidentRefs)) \o RefsOf(Filter(kept, Refs \ IncidentRefs)), 0, n)
  /\ mode = "sample" => /\ NoRepetition(shown) /\ ToSet(shown) \subseteq ToSet(RefsOf(kept))
                        /\ EvenlyFrom(shown, RefsOf(kept))

LEMMA HeadShown ==
  ASSUME NEW f, NEW s \in Seq(Refs), NEW n \in Nat, Stored(f, s, "head", n)
  PROVE  /\ Page(f.head, 0, n) = Page(RefsOf(s), 0, n)
         /\ Len(Page(f.head, 0, n)) = IF Len(s) <= n THEN Len(s) ELSE n
<1>1. Filter(s, Refs) = s
  BY FilterNothing DEF ToSet
<1>2. PICK q \in Seq(LineRefs) : q = RefsOf(s) /\ Len(q) = Len(s)
  BY RefsOfIs
<1>3. f.head = Page(q, 0, n)
  BY <1>1, <1>2 DEF Stored, FirstOf
<1>4. Page(f.head, 0, n) = Page(q, 0, n)
  BY <1>3, FirstOfFirst
<1>5. Len(Page(q, 0, n)) = IF n <= Len(q) THEN n ELSE Len(q)
  BY FirstPage
<1>6. Len(q) \in Nat
  BY LenProperties
<1> QED BY <1>2, <1>4, <1>5, <1>6

LEMMA ErrorsShown ==
  ASSUME NEW f, NEW s \in Seq(Refs), NEW n \in Nat, Stored(f, s, "errors", n)
  PROVE  LET all == RefsOf(Filter(s, IncidentRefs)) \o RefsOf(Filter(s, Refs \ IncidentRefs))
         IN /\ Page(f.incidents \o f.regular, 0, n) = Page(all, 0, n)
            /\ Len(Page(f.incidents \o f.regular, 0, n)) = IF Len(s) <= n THEN Len(s) ELSE n
<1>1. PICK a \in Seq(Refs), b \in Seq(Refs) : a = Filter(s, IncidentRefs) /\ b = Filter(s, Refs \ IncidentRefs)
  BY FilterElements
<1>2. PICK p \in Seq(LineRefs), q \in Seq(LineRefs) :
        p = RefsOf(a) /\ q = RefsOf(b) /\ Len(p) = Len(a) /\ Len(q) = Len(b)
  BY RefsOfIs
<1>3. f.incidents = Page(p, 0, n) /\ f.regular = Page(q, 0, n)
  BY <1>1, <1>2 DEF Stored, FirstOf
<1>4. Page(f.incidents \o f.regular, 0, n) = Page(p \o q, 0, n)
  BY <1>3, FirstOfBoth
<1>5. Len(a) + Len(b) = Len(s)
  BY <1>1, FilterBoth
<1>6. PICK all \in Seq(LineRefs) : all = p \o q /\ Len(all) = Len(p) + Len(q)
  BY ConcatProperties
<1>7. Len(all) = Len(s) /\ Len(all) \in Nat
  BY <1>2, <1>5, <1>6, LenProperties
<1>8. Len(Page(all, 0, n)) = IF n <= Len(all) THEN n ELSE Len(all)
  BY FirstPage
<1> QED BY <1>1, <1>2, <1>4, <1>6, <1>7, <1>8

\* The property follows, as its lists are these.
LEMMA ViewedIs ==
  ASSUME NEW a, NEW mode, NEW n \in Nat, NEW d \in Seq(Refs),
         a.kept = Len(Filter(d, KeptRefs)), a.total = Len(d), ShownOf(a.lines, mode, n, Filter(d, KeptRefs))
  PROVE  Viewed(a, mode, n, d)
<1> DEFINE keptLines == Where(d, LAMBDA l : Exclusion(SourceOf(l.ref.key).noise, l.line) = "")
<1>1. PICK kept \in Seq(Refs) : kept = Filter(d, KeptRefs)
  BY FilterElements
<1>2. keptLines = kept
  <2>1. ToSet(d) \subseteq Refs
    BY DEF ToSet
  <2>2. PICK S : S = {x \in ToSet(d) : Exclusion(SourceOf(x.ref.key).noise, x.line) = ""}
    OBVIOUS
  <2>3. \A x \in ToSet(d) : x \in S <=> x \in KeptRefs
    BY <2>1, <2>2 DEF KeptRefs
  <2>4. Filter(d, S) = Filter(d, KeptRefs)
    BY <2>3, FilterSame
  <2> QED BY <1>1, <2>2, <2>4 DEF Where
<1>3. ToSet(kept) \subseteq Refs
  BY DEF ToSet
<1>4. Where(kept, LAMBDA l : IncidentLine(l.line)) = Filter(kept, IncidentRefs)
  <2>1. PICK S : S = {x \in ToSet(kept) : IncidentLine(x.line)}
    OBVIOUS
  <2>2. \A x \in ToSet(kept) : x \in S <=> x \in IncidentRefs
    BY <1>3, <2>1 DEF IncidentRefs
  <2>3. Filter(kept, S) = Filter(kept, IncidentRefs)
    BY <2>2, FilterSame
  <2> QED BY <2>1, <2>3 DEF Where
<1>5. Where(kept, LAMBDA l : ~IncidentLine(l.line)) = Filter(kept, Refs \ IncidentRefs)
  <2>1. PICK S : S = {x \in ToSet(kept) : ~IncidentLine(x.line)}
    OBVIOUS
  <2>2. \A x \in ToSet(kept) : x \in S <=> x \in Refs \ IncidentRefs
    BY <1>3, <2>1 DEF IncidentRefs
  <2>3. Filter(kept, S) = Filter(kept, Refs \ IncidentRefs)
    BY <2>2, FilterSame
  <2> QED BY <2>1, <2>3 DEF Where
<1>6. \A k, s : Len(Where(s, LAMBDA r : r.key = k)) = ShareOf(s, k)
  BY DEF Where, ShareOf, OfKey
<1>7. Len(kept) \in Nat /\ Min({Len(kept), n}) = IF Len(kept) <= n THEN Len(kept) ELSE n
  BY LenProperties, LeastOfTwo
<1>8. PICK q \in Seq(LineRefs) : q = RefsOf(kept)
  BY RefsOfIs
<1>9. {kept[i].ref.key : i \in DOMAIN kept} = {x.key : x \in ToSet(q)}
  <2>1. PICK m \in Nat : m = Len(kept) /\ DOMAIN kept = 1..m
    BY LenProperties
  <2>2. ToSet(q) = {kept[i].ref : i \in 1..m}
    BY <1>8, <2>1 DEF RefsOf, ToSet
  <2> QED BY <2>1, <2>2
<1>10. ToSet(q) = Range(q) /\ ToSet(a.lines) = Range(a.lines)
  BY DEF ToSet, Range
<1>11. ShownOf(a.lines, mode, n, kept) /\ a.kept = Len(kept)
  BY <1>1
<1>12. PICK shown : shown = a.lines
  OBVIOUS
<1>13. mode = "sample" =>
         /\ IsInjective(shown) /\ Range(shown) \subseteq Range(q)
         /\ \A k, m \in {kept[i].ref.key : i \in DOMAIN kept} :
               ShareOf(shown, k) + 1 >= ShareOf(shown, m) \/ ShareOf(shown, k) = ShareOf(q, k)
  BY <1>8, <1>9, <1>10, <1>11, <1>12 DEF ShownOf, NoRepetition, IsInjective, EvenlyFrom
<1>14. [i \in DOMAIN kept |-> kept[i].ref] = q
  BY <1>8 DEF RefsOf
<1> DEFINE refs(s) == [i \in DOMAIN s |-> s[i].ref]
           incidents == Where(keptLines, LAMBDA l : IncidentLine(l.line))
           regular == Where(keptLines, LAMBDA l : ~IncidentLine(l.line))
           share(k, s) == Len(Where(s, LAMBDA r : r.key = k))
<1>15. incidents = Filter(kept, IncidentRefs) /\ regular = Filter(kept, Refs \ IncidentRefs)
  <2> HIDE DEF keptLines
  <2> QED BY <1>2, <1>4, <1>5
<1>16. \A k, s : share(k, s) = ShareOf(s, k)
  BY <1>6
<1> HIDE DEF keptLines, incidents, regular, share
<1>17. a.kept = Len(keptLines) /\ Len(a.lines) = Min({Len(keptLines), n})
  BY <1>2, <1>7, <1>11 DEF ShownOf
<1>18. mode = "head" => a.lines = Page(refs(keptLines), 0, n)
  BY <1>2, <1>8, <1>11, <1>14 DEF ShownOf
<1>19. mode = "errors" => a.lines = Page(refs(incidents) \o refs(regular), 0, n)
  BY <1>11, <1>15 DEF ShownOf, RefsOf
<1>20. mode = "sample" =>
         /\ IsInjective(a.lines) /\ Range(a.lines) \subseteq Range(refs(keptLines))
         /\ \A k, m \in {keptLines[i].ref.key : i \in DOMAIN keptLines} :
               \/ share(k, a.lines) + 1 >= share(m, a.lines)
               \/ share(k, a.lines) = share(k, refs(keptLines))
  <2>1. refs(keptLines) = q
    BY <1>2, <1>14
  <2> HIDE DEF refs
  <2> QED BY <1>2, <1>12, <1>13, <1>16, <2>1
<1> USE DEF keptLines, incidents, regular, share
<1> QED BY <1>17, <1>18, <1>19, <1>20 DEF Viewed

\* What is answered, of the lines that were read and of the sources selected.
LEMMA AnswerShown ==
  ASSUME NEW d \in Seq(Refs), NEW ss \in Seq(ToSet(Sources)), LinesAreOf(d, ss),
         NEW c, c.mode \in Modes, c.limit \in Nat, NEW f, ViewIs(f, d, c.mode, c.limit),
         c.mode = "sample" => DistinctKeys(ss) /\ ss = SelectViewFiles(c.keys)
  PROVE  LET a == CreateFilteredViewPayload(c, f)
         IN /\ a.kept = Len(Filter(d, KeptRefs)) /\ a.total = Len(d)
            /\ ShownOf(a.lines, c.mode, c.limit, Filter(d, KeptRefs))
<1>0. PICK mode : mode = c.mode
  OBVIOUS
<1>1. PICK n \in Nat : n = c.limit /\ mode = c.mode
  BY <1>0
<1>2. PICK a : a = CreateFilteredViewPayload(c, f)
  OBVIOUS
<1>3. PICK s \in Seq(Refs) : s = Filter(d, KeptRefs)
  BY FilterElements
<1>4. Stored(f, s, mode, n) /\ f.total = Len(d) /\ f.kept = Len(s)
  BY <1>1, <1>3 DEF ViewIs
<1>5. a.lines = SelectFilteredLines(c, f) /\ a.kept = f.kept /\ a.total = f.total
  BY <1>2 DEF CreateFilteredViewPayload
<1>6. CASE mode = "head"
  <2>1. a.lines = Page(f.head, 0, n)
    BY <1>1, <1>5, <1>6 DEF SelectFilteredLines
  <2>2. a.lines = Page(RefsOf(s), 0, n) /\ Len(a.lines) = IF Len(s) <= n THEN Len(s) ELSE n
    BY <1>4, <1>6, <2>1, HeadShown
  <2>3. ShownOf(a.lines, mode, n, s)
    BY <1>6, <2>2 DEF ShownOf
  <2> QED BY <1>1, <1>2, <1>3, <1>4, <1>5, <2>3
<1>7. CASE mode = "errors"
  <2>1. a.lines = Page(f.incidents \o f.regular, 0, n)
    BY <1>1, <1>5, <1>7 DEF SelectFilteredLines
  <2>4. Stored(f, s, "errors", n)
    BY <1>4, <1>7
  <2>5. PICK all : all = RefsOf(Filter(s, IncidentRefs)) \o RefsOf(Filter(s, Refs \ IncidentRefs))
    OBVIOUS
  <2>6. /\ Page(f.incidents \o f.regular, 0, n) = Page(all, 0, n)
        /\ Len(Page(f.incidents \o f.regular, 0, n)) = IF Len(s) <= n THEN Len(s) ELSE n
    BY <2>4, <2>5, ErrorsShown
  <2>2. /\ a.lines = Page(RefsOf(Filter(s, IncidentRefs)) \o RefsOf(Filter(s, Refs \ IncidentRefs)), 0, n)
        /\ Len(a.lines) = IF Len(s) <= n THEN Len(s) ELSE n
    BY <2>1, <2>5, <2>6
  <2>3. ShownOf(a.lines, mode, n, s)
    BY <1>7, <2>2 DEF ShownOf
  <2> QED BY <1>1, <1>2, <1>3, <1>4, <1>5, <2>3
<1>8. CASE mode = "sample"
  <2>1. DistinctKeys(ss) /\ ss = SelectViewFiles(c.keys)
    BY <1>1, <1>8
  <2>2. a.lines = Sampled(f.samples, KeyList(ss), n)
    BY <1>1, <1>5, <1>8, <2>1 DEF SelectFilteredLines, KeyList
  <2>0. PICK shown : shown = a.lines
    OBVIOUS
  <2>3. PICK q \in Seq(LineRefs) : q = RefsOf(s) /\ Len(q) = Len(s) /\ shown = a.lines
    BY <2>0, RefsOfIs
  <2>4. Stored(f, Filter(d, KeptRefs), "sample", n) /\ q = RefsOf(Filter(d, KeptRefs))
    BY <1>3, <1>4, <1>8, <2>3
  <2>5. /\ NoRepetition(shown) /\ ToSet(shown) \subseteq ToSet(q)
        /\ Len(shown) = IF Len(q) <= n THEN Len(q) ELSE n
        /\ EvenlyFrom(shown, q)
    <3>1. FairSample(Sampled(f.samples, KeyList(ss), n), q, n)
      BY <2>1, <2>4, SampleShown
    <3>2. FairSample(shown, q, n)
      BY <2>2, <2>3, <3>1
    <3> QED BY <3>2 DEF FairSample
  <2>6. ShownOf(shown, mode, n, s)
    BY <1>8, <2>3, <2>5 DEF ShownOf
  <2> QED BY <1>1, <1>2, <1>3, <1>4, <1>5, <2>3, <2>6
<1> QED BY <1>1, <1>6, <1>7, <1>8 DEF Modes

LEMMA ViewTrue == ToolsTyped /\ ViewFound => ViewLosesNothing
<1> SUFFICES ASSUME ToolsTyped, ViewFound, Answered("create_filtered_view"),
                    call.mode = "sample" => IsInjective([i \in DOMAIN Sources |-> Sources[i].key])
             PROVE  Viewed(answer, call.mode, call.limit, LinesRead)
  BY DEF ViewLosesNothing, Viewed
<1>1. /\ answer = CreateFilteredViewPayload(call, found)
      /\ ViewIs(found, LinesRead, call.mode, call.limit) /\ LinesRead \in Seq(Refs)
      /\ call.limit \in 1..MaxWindow /\ call.mode \in Modes
      /\ call.op = "create_filtered_view" /\ edition = 0
  BY DEF ViewFound, ViewCall, Answered
<1>0. PICK c, f, a : c = call /\ f = found /\ a = answer
  OBVIOUS
<1>2. PICK d \in Seq(Refs) : d = LinesRead /\ c = call /\ f = found /\ a = answer
  BY <1>0, <1>1
<1>3. PICK ss \in Seq(ToSet(Sources)) : ss = Opened(call)
  BY SelectsSources
<1>4. LinesAreOf(d, ss)
  <2>1. LinesAreOf(LinesOf(ss), ss)
    BY <1>1, ReadFromSources
  <2> QED BY <1>2, <1>3, <2>1 DEF LinesRead
<1>5. c.limit \in Nat /\ c.mode \in Modes
  BY <1>1, <1>2, LimitsAssumption
<1>6. c.mode = "sample" => DistinctKeys(ss) /\ ss = SelectViewFiles(c.keys)
  <2> SUFFICES ASSUME c.mode = "sample" PROVE DistinctKeys(ss) /\ ss = SelectViewFiles(c.keys)
    OBVIOUS
  <2>1. DistinctKeys(Sources)
    BY <1>2 DEF IsInjective, DistinctKeys
  <2> QED BY <1>1, <1>2, <1>3, <2>1, SelectedOnce
<1>7. /\ a = CreateFilteredViewPayload(c, f) /\ ViewIs(f, d, c.mode, c.limit)
  BY <1>1, <1>2
<1>8. /\ a.kept = Len(Filter(d, KeptRefs)) /\ a.total = Len(d)
      /\ ShownOf(a.lines, c.mode, c.limit, Filter(d, KeptRefs))
  BY <1>4, <1>5, <1>6, <1>7, AnswerShown
<1>9. Viewed(a, c.mode, c.limit, d)
  BY <1>5, <1>8, ViewedIs
<1> QED BY <1>2, <1>9

\* In every behaviour of the tools, whatever the files hold: a view shows what it
\* would if every kept line had been stored, though the scan keeps only the first
\* of each kind (create_filtered_view in src/tools/analysis.py).
THEOREM ViewIsWhole == ToolsSpec => []ViewLosesNothing
<1>1. ToolsInit => ToolsTyped /\ CursorInv /\ ViewFound
  BY ToolsInitial, CursorInitial, ViewInitial
<1>2. ToolsTyped /\ CursorInv /\ ViewFound /\ [ToolsNext]_vars => (ToolsTyped /\ CursorInv /\ ViewFound)'
  <2> SUFFICES ASSUME ToolsTyped, CursorInv, ViewFound, [ToolsNext]_vars
               PROVE  ToolsTyped' /\ CursorInv' /\ ViewFound'
    OBVIOUS
  <2>1. ToolsTyped'
    BY ToolsTypedStep
  <2>2. CursorInv'
    BY <2>1, CursorStep
  <2> QED BY <2>1, <2>2, ViewFoundStep
<1>3. ToolsTyped /\ ViewFound => ViewLosesNothing
  BY ViewTrue
<1> QED BY <1>1, <1>2, <1>3, PTL DEF ToolsSpec
=============================================================================
