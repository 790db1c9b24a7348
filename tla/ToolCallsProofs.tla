-------------------------- MODULE ToolCallsProofs --------------------------
(***************************************************************************)
(* Proofs about ToolCalls: what is collected is on record and in a session *)
(* of its caller, a closed session gets nothing from later calls, a close  *)
(* leaves a trail, the table of sessions has the lifecycle of             *)
(* SessionLifecycle, and what is collected was allowed and offered, for    *)
(* any number of calls, callers, edits and faults.                         *)
(***************************************************************************)
EXTENDS ToolCalls, DataLemmas, TLAPS

Fields == {"pc", "tool", "client", "arg", "requested", "keys", "caller", "allowed", "name",
           "session", "audited", "toLoad", "loaded", "todo", "reply", "allowedOnce",
           "offered", "closedBefore"}

Early   == {"idle", "authenticate", "expand", "session", "insert"}
Working == {"expand", "session", "insert", "audit", "manifests", "tool", "collecting",
            "lookup", "closing", "recording"}
Attached == {"manifests", "tool", "collecting"}

IsCall(k) == DOMAIN k = Fields /\ k.pc \in CallPlace

\* A working call knows its caller, and close_agent_session is called by one of
\* the session workspace.
KnowsCaller(k) ==
  k.pc \in Working =>
    k.caller \in Caller /\ (k.tool = "close_agent_session" => k.caller.workspace = "session")

InsideTool(k) ==
  /\ k.pc = "collecting" => IsCollect(k)
  /\ k.pc \in {"lookup", "closing", "recording"} => k.tool = "close_agent_session"

NamesSession(k) ==
  /\ k.pc \in {"authenticate", "expand"} => k.arg \in SessionArg \union {NoSession}
  /\ k.pc \in {"session", "insert"} => k.name \in SessionArg

\* A call that has a session has one of its caller; one that records a close has
\* closed it.
InSession(k) == k.pc \in {"audit", "closing", "recording"} \/ (IsCollect(k) /\ k.pc \in Attached)

OwnsSession(k) ==
  InSession(k) => \E s \in sessions : /\ s.id = k.session /\ s.caller = k.caller
                                      /\ k.pc = "recording" => s.closed

\* A collection that got past the middleware has its row.
OnRecord(c, k) ==
  IsCollect(k) /\ k.pc \in Attached =>
    \E a \in audit : a.call = c /\ ~a.byTool /\ a.session = k.session /\ a.caller = k.caller

\* What was closed stays closed, and no collection is in a session that was
\* closed when it began.
OpenSince(k) ==
  /\ \A i \in k.closedBefore : \E s \in sessions : s.id = i /\ s.closed
  /\ IsCollect(k) /\ k.pc \in Attached \union {"audit"} => k.session \notin k.closedBefore

Good(c, k) ==
  /\ IsCall(k) /\ KnowsCaller(k) /\ InsideTool(k) /\ NamesSession(k)
  /\ OwnsSession(k) /\ OnRecord(c, k) /\ OpenSince(k)

CallsGood == DOMAIN calls = Call /\ \A c \in Call : Good(c, calls[c])

\* A name has one row, a call inserts at most one, once, and only a caller of
\* the session workspace has its session closed.
SessionsGood ==
  /\ sessions \subseteq SessionRow
  /\ \A s, t \in sessions : s.name = t.name => s = t
  /\ \A s, t \in sessions : s.id = t.id => s = t
  /\ \A s \in sessions : s.closed => s.caller.workspace = "session"
  /\ \A s \in sessions : calls[s.id].pc \notin Early

RecordsGood ==
  /\ \A a \in audit : DOMAIN a = {"call", "byTool", "session", "caller", "completed", "success"}
                      /\ a.byTool \in BOOLEAN
  /\ \A r \in collected : r.call \in Call /\ calls[r.call].pc # "idle"
  /\ edits \in Nat /\ faults \in Nat

CallsInv ==
  /\ CallsGood /\ SessionsGood /\ RecordsGood
  /\ CollectedIsAudited /\ NoLateCollect /\ CloseHasTrail

-----------------------------------------------------------------------------
(* Whose row a token is given.                                             *)

LEMMA LeastOfThree ==
  ASSUME NEW hits, hits # {}, hits \subseteq {1, 2, 3}
  PROVE  Min(hits) \in hits
<1>1. \E i \in hits : \A j \in hits : i <= j
  <2>1. CASE 1 \in hits
    <3>1. \A j \in hits : 1 <= j
      OBVIOUS
    <3> QED BY <2>1, <3>1
  <2>2. CASE 1 \notin hits /\ 2 \in hits
    <3>1. \A j \in hits : 2 <= j
      BY <2>2
    <3> QED BY <2>2, <3>1
  <2>3. CASE 1 \notin hits /\ 2 \notin hits
    <3>1. \A j \in hits : j = 3
      BY <2>3
    <3>2. PICK i \in hits : TRUE
      OBVIOUS
    <3> QED BY <3>1, <3>2
  <2> QED BY <2>1, <2>2, <2>3
<1> QED BY <1>1 DEF Min

LEMMA CallerRowIsOne ==
  ASSUME NEW client, NEW tool, NEW named, CallerRow(client, tool, named) # NoRow
  PROVE  /\ CallerRow(client, tool, named) \in Caller
         /\ tool = "close_agent_session" => CallerRow(client, tool, named).workspace = "session"
<1> DEFINE any == AllowsAnyWorkspace(tool)
           order == << ImpliedWorkspace(tool, named) >> \o
                    (IF any THEN << "session", "workflow" >> ELSE << >>)
           hits == {i \in DOMAIN order : RowsFor(client, order[i]) # {}}
<1>1. hits # {} /\ CallerRow(client, tool, named) = CHOOSE k \in RowsFor(client, order[Min(hits)]) : TRUE
  BY DEF CallerRow
<1>2. DOMAIN order \subseteq {1, 2, 3}
  OBVIOUS
<1>3. Min(hits) \in hits
  BY <1>1, <1>2, LeastOfThree
<1>4. CallerRow(client, tool, named) \in RowsFor(client, order[Min(hits)])
  BY <1>1, <1>3
<1>5. ASSUME tool = "close_agent_session" PROVE order[Min(hits)] = "session"
  <2>1. ~any /\ ImpliedWorkspace(tool, named) = "session"
    BY <1>5 DEF AllowsAnyWorkspace, AgnosticTools, CollectTools, OtherRequests, ImpliedWorkspace
  <2>4. order = << "session" >> \o << >>
    BY <2>1
  <2>5. << "session" >> \in Seq({"session"})
    OBVIOUS
  <2>6. << "session" >> \o << >> = << "session" >>
    BY <2>5, ConcatEmptySeq
  <2>7. order = << "session" >>
    BY <2>4, <2>6
  <2>3. Min(hits) \in DOMAIN order
    BY <1>3
  <2> HIDE DEF order, hits
  <2>2. DOMAIN order = {1} /\ order[1] = "session"
    BY <2>7
  <2> QED BY <2>2, <2>3
<1> HIDE DEF order, hits
<1> QED BY <1>4, <1>5 DEF RowsFor

-----------------------------------------------------------------------------
(* What becomes of a call's record.                                        *)

\* What the invariant says of a call apart from its place.
Stays(k, j) ==
  /\ DOMAIN j = Fields /\ j.tool = k.tool /\ j.caller = k.caller
  /\ j.closedBefore = k.closedBefore

ClosedOnly(k) == \A i \in k.closedBefore : \E s \in sessions : s.id = i /\ s.closed

LEMMA PlaceSet ==
  ASSUME NEW k, DOMAIN k = Fields, NEW p
  PROVE  LET j == [k EXCEPT !.pc = p]
         IN  Stays(k, j) /\ j.pc = p /\ j.session = k.session /\ j.name = k.name /\ j.arg = k.arg
BY DEF Fields, Stays

LEMMA DroppedStays ==
  ASSUME NEW k, DOMAIN k = Fields
  PROVE  Stays(k, Dropped(k)) /\ Dropped(k).pc = "done"
BY DEF Fields, Stays, Dropped

LEMMA EndedStays ==
  ASSUME NEW k, DOMAIN k = Fields, NEW reply
  PROVE  Stays(k, Ended(k, reply)) /\ Ended(k, reply).pc = "done"
<1> DEFINE j == [k EXCEPT !.reply = reply]
<1>1. Stays(k, j)
  BY DEF Fields, Stays
<1>2. Ended(k, reply) = Dropped(j)
  BY DEF Ended
<1> HIDE DEF j
<1> QED BY <1>1, <1>2, DroppedStays DEF Stays

LEMMA ReturnsStays ==
  ASSUME NEW k, DOMAIN k = Fields, NEW reply
  PROVE  Stays(k, Returns(k, reply)) /\ Returns(k, reply).pc = "complete"
BY DEF Fields, Stays, Returns

\* A call that is over needs no more than that.
LEMMA OverIsGood ==
  ASSUME NEW c, NEW k, ClosedOnly(k), NEW j, Stays(k, j), j.pc \in {"done", "complete"}
  PROVE  Good(c, j)
BY DEF ClosedOnly, Stays, Good, IsCall, CallPlace, KnowsCaller, Working, InsideTool,
       NamesSession, OwnsSession, InSession, OnRecord, Attached, OpenSince

LEMMA WithoutSessionGood ==
  ASSUME NEW c, NEW k, Good(c, k), k.pc \in {"session", "insert"}
  PROVE  /\ Good(c, WithoutSession(k)) /\ WithoutSession(k).pc \notin Early
         /\ WithoutSession(k).closedBefore = k.closedBefore
<1>1. DOMAIN k = Fields /\ ClosedOnly(k)
  BY DEF Good, IsCall, OpenSince, ClosedOnly
<1>2. CASE IsCollect(k)
  <2>1. WithoutSession(k) = Ended(k, "error")
    BY <1>2 DEF WithoutSession
  <2> QED BY <1>1, <2>1, EndedStays, OverIsGood DEF Stays, Early
<1>3. CASE ~IsCollect(k)
  <2>1. PICK j : j = [k EXCEPT !.pc = "manifests"]
    OBVIOUS
  <2>2. WithoutSession(k) = j
    BY <1>3, <2>1 DEF WithoutSession
  <2>3. Stays(k, j) /\ j.pc = "manifests"
    BY <1>1, <2>1, PlaceSet
  <2>4. ~IsCollect(j)
    BY <1>3, <2>3 DEF Stays, IsCollect
  <2>5. j.caller \in Caller /\ (j.tool = "close_agent_session" => j.caller.workspace = "session")
    BY <2>3 DEF Good, KnowsCaller, Working, Stays
  <2>6. Good(c, j)
    BY <1>1, <2>3, <2>4, <2>5 DEF ClosedOnly, Stays, Good, IsCall, CallPlace, KnowsCaller, Working,
         InsideTool, NamesSession, OwnsSession, InSession, OnRecord, Attached, OpenSince
  <2> QED BY <2>2, <2>3, <2>6 DEF Stays, Early
<1> QED BY <1>2, <1>3

LEMMA AdoptedGood ==
  ASSUME NEW c, NEW k, Good(c, k), k.pc \in {"session", "insert"}, SessionsGood,
         NEW s \in sessions
  PROVE  /\ Good(c, Adopted(k, s)) /\ Adopted(k, s).pc \notin Early
         /\ Adopted(k, s).closedBefore = k.closedBefore
<1>1. DOMAIN k = Fields /\ ClosedOnly(k)
  BY DEF Good, IsCall, OpenSince, ClosedOnly
<1> DEFINE refused == s.caller # k.caller \/ (k.caller.workspace = "session" /\ s.closed)
<1>2. CASE refused
  <2>1. Adopted(k, s) = WithoutSession(k)
    BY <1>2 DEF Adopted
  <2> QED BY <2>1, WithoutSessionGood
<1>3. CASE ~refused
  <2>1. PICK j : j = [k EXCEPT !.pc = "audit", !.session = s.id]
    OBVIOUS
  <2>2. Adopted(k, s) = j
    BY <1>3, <2>1 DEF Adopted
  <2>3. Stays(k, j) /\ j.pc = "audit" /\ j.session = s.id
    BY <1>1, <2>1 DEF Stays, Fields
  <2>4. s.caller = k.caller /\ ~s.closed
    BY <1>3 DEF SessionsGood
  <2>5. s.id \notin k.closedBefore
    BY <1>1, <2>4 DEF ClosedOnly, SessionsGood
  <2>6. j.caller \in Caller /\ (j.tool = "close_agent_session" => j.caller.workspace = "session")
    BY <2>3 DEF Good, KnowsCaller, Working, Stays
  <2>7. Good(c, j)
    BY <1>1, <2>3, <2>4, <2>5, <2>6 DEF ClosedOnly, Stays, Good, IsCall, CallPlace, KnowsCaller, Working,
         InsideTool, NamesSession, OwnsSession, InSession, OnRecord, Attached, OpenSince
  <2> QED BY <2>2, <2>3, <2>7 DEF Stays, Early
<1> QED BY <1>2, <1>3

LEMMA NamedGood ==
  ASSUME NEW c, NEW k, DOMAIN k = Fields, ClosedOnly(k), k.caller \in Caller,
         k.tool = "close_agent_session" => k.caller.workspace = "session",
         k.arg \in SessionArg \union {NoSession}, NEW g \in GeneratedNames, CallsAssumption
  PROVE  /\ Good(c, Named(k, g)) /\ Named(k, g).pc # "idle"
         /\ Named(k, g).closedBefore = k.closedBefore
<1>1. CASE k.tool \in OtherRequests \/ (~IsCollect(k) /\ k.arg = NoSession)
  <2>1. PICK p \in {"tool", "manifests"} : Named(k, g) = [k EXCEPT !.pc = p]
    BY <1>1 DEF Named, OtherRequests, CollectTools, IsCollect
  <2>2. PICK j : j = [k EXCEPT !.pc = p]
    OBVIOUS
  <2>0. DOMAIN k = Fields
    OBVIOUS
  <2>3. Stays(k, j) /\ j.pc = p
    BY <2>0, <2>2 DEF Stays, Fields
  <2>4. ~IsCollect(j)
    BY <1>1, <2>3 DEF Stays, IsCollect, OtherRequests, CollectTools
  <2>5. Good(c, j)
    BY <2>3, <2>4 DEF ClosedOnly, Stays, Good, IsCall, CallPlace, KnowsCaller, Working,
         InsideTool, NamesSession, OwnsSession, InSession, OnRecord, Attached, OpenSince
  <2> QED BY <2>1, <2>2, <2>3, <2>5 DEF Stays
<1>2. CASE k.tool \notin OtherRequests /\ IsCollect(k) /\ k.arg # NoSession /\ k.arg.long
  <2>1. Named(k, g) = Ended(k, "raised")
    BY <1>2 DEF Named
  <2> QED BY <2>1, EndedStays, OverIsGood DEF Stays
<1>3. CASE /\ k.tool \notin OtherRequests /\ (IsCollect(k) \/ k.arg # NoSession)
           /\ ~(IsCollect(k) /\ k.arg # NoSession /\ k.arg.long)
  <2>1. PICK n \in SessionArg : Named(k, g) = [k EXCEPT !.pc = "session", !.name = n]
    BY <1>3 DEF Named, GeneratedNames, CallsAssumption, Unpadded
  <2>2. PICK j : j = [k EXCEPT !.pc = "session", !.name = n]
    OBVIOUS
  <2>3. Stays(k, j) /\ j.pc = "session" /\ j.name = n
    BY <2>2 DEF Stays, Fields
  <2>4. Good(c, j)
    BY <2>3 DEF ClosedOnly, Stays, Good, IsCall, CallPlace, KnowsCaller, Working,
         InsideTool, NamesSession, OwnsSession, InSession, OnRecord, Attached, OpenSince
  <2> QED BY <2>1, <2>2, <2>3, <2>4 DEF Stays
<1> QED BY <1>1, <1>2, <1>3

-----------------------------------------------------------------------------
(* What a step keeps.                                                      *)

\* Rows are only added, closed or completed, so what was good stays good.
RowsKept ==
  /\ \A s \in sessions : \E t \in sessions' :
       t.id = s.id /\ t.caller = s.caller /\ (s.closed => t.closed)
  /\ \A a \in audit : ~a.byTool =>
       \E b \in audit' : b.call = a.call /\ ~b.byTool /\ b.session = a.session /\ b.caller = a.caller

LEMMA GoodStays ==
  ASSUME NEW c, NEW k, Good(c, k), RowsKept
  PROVE  Good(c, k)'
<1>1. OwnsSession(k)'
  BY DEF Good, OwnsSession, InSession, RowsKept, IsCollect
<1>2. OnRecord(c, k)'
  BY DEF Good, OnRecord, RowsKept, IsCollect
<1>3. OpenSince(k)'
  BY DEF Good, OpenSince, RowsKept, IsCollect
<1> QED BY <1>1, <1>2, <1>3 DEF Good, IsCall, KnowsCaller, InsideTool, NamesSession, IsCollect

LEMMA CollectedStays ==
  ASSUME CollectedIsAudited, RowsKept, collected' = collected
  PROVE  CollectedIsAudited'
<1> SUFFICES ASSUME NEW r \in collected
             PROVE  \E a \in audit', s \in sessions' :
                      a.call = r.call /\ ~a.byTool /\ a.session = r.session /\ s.id = a.session /\ s.caller = a.caller
  BY DEF CollectedIsAudited
<1>1. PICK a \in audit, s \in sessions :
        a.call = r.call /\ ~a.byTool /\ a.session = r.session /\ s.id = a.session /\ s.caller = a.caller
  BY DEF CollectedIsAudited
<1>2. PICK b \in audit' : b.call = a.call /\ ~b.byTool /\ b.session = a.session /\ b.caller = a.caller
  BY <1>1 DEF RowsKept
<1>3. PICK t \in sessions' : t.id = s.id /\ t.caller = s.caller
  BY <1>1 DEF RowsKept
<1> QED BY <1>1, <1>2, <1>3

\* A call goes on: its record stays good, it does not go back before its session,
\* and what was closed when it began is fixed.
Moves(d) ==
  /\ Good(d, calls'[d])
  /\ calls[d].pc \notin Early => calls'[d].pc \notin Early
  /\ calls[d].pc # "idle" => calls'[d].pc # "idle" /\ calls'[d].closedBefore = calls[d].closedBefore
  /\ calls[d].pc = "recording" =>
       faults' > 0 \/ (calls'[d].pc = "recording" /\ calls'[d].session = calls[d].session)

LEMMA MovesKeep ==
  ASSUME CallsInv, UNCHANGED <<sessions, audit, collected>>, edits' \in Nat, faults' \in Nat,
         faults' >= faults, DOMAIN calls' = Call, \A d \in Call : Moves(d)
  PROVE  CallsInv'
<1>1. CallsGood'
  BY DEF CallsGood, Moves, Good, IsCall, KnowsCaller, InsideTool, NamesSession, OwnsSession,
         InSession, IsCollect, OnRecord, OpenSince
<1>2. SessionsGood'
  BY DEF CallsInv, SessionsGood, Moves, SessionRow
<1>3. RecordsGood'
  BY DEF CallsInv, RecordsGood, Moves
<1>4. CollectedIsAudited'
  BY DEF CallsInv, CollectedIsAudited
<1>5. NoLateCollect'
  BY DEF CallsInv, NoLateCollect, RecordsGood, Moves
<1>6. CloseHasTrail'
  BY DEF CallsInv, CloseHasTrail, RecordsGood, Moves, At
<1> QED BY <1>1, <1>2, <1>3, <1>4, <1>5, <1>6 DEF CallsInv

\* One call goes on and the others stay.
LEMMA BecomesKeeps ==
  ASSUME CallsInv, NEW c \in Call, NEW k, Becomes(c, k), KeepTables, Good(c, k),
         calls[c].pc \notin Early => k.pc \notin Early,
         calls[c].pc # "idle" => k.pc # "idle" /\ k.closedBefore = calls[c].closedBefore,
         calls[c].pc # "recording"
  PROVE  CallsInv'
<1>1. DOMAIN calls' = Call /\ calls'[c] = k /\ \A d \in Call \ {c} : calls'[d] = calls[d]
  BY DEF CallsInv, CallsGood, Becomes
<1>2. Moves(c)
  BY <1>1 DEF Moves
<1>3. ASSUME NEW d \in Call \ {c} PROVE Moves(d)
  BY <1>1, <1>3 DEF Moves, CallsInv, CallsGood
<1>4. edits' \in Nat /\ faults' \in Nat /\ faults' >= faults
  BY DEF KeepTables, CallsInv, RecordsGood
<1>5. UNCHANGED <<sessions, audit, collected>>
  BY DEF KeepTables, tables
<1> QED BY <1>1, <1>2, <1>3, <1>4, <1>5, MovesKeep

-----------------------------------------------------------------------------
(* The steps that leave the tables alone.                                  *)

LEMMA BeginKeeps ==
  ASSUME CallsInv, NEW c \in Call, BeginCall(c)
  PROVE  CallsInv'
<1>1. PICK k : /\ Becomes(c, k) /\ DOMAIN k = Fields /\ k.pc = "authenticate"
               /\ k.arg \in SessionArg \union {NoSession}
               /\ k.closedBefore = {s.id : s \in {t \in sessions : t.closed}}
  <2>1. DOMAIN calls[c] = Fields
    BY DEF CallsInv, CallsGood, Good, IsCall
  <2>2. PICK tool, client, arg, requested, keys :
          /\ arg \in SessionArg \union {NoSession}
          /\ Becomes(c, Begun(calls[c], tool, client, arg, requested, keys))
    BY Zenon DEF BeginCall
  <2> DEFINE row == CallerRow(client, tool, arg # NoSession)
             once == AddAllowed({}, row, grants, manifests)
             ended == {s.id : s \in {t \in sessions : t.closed}}
  <2>3. PICK k : k = [calls[c] EXCEPT
          !.pc = "authenticate", !.tool = tool, !.client = client, !.arg = arg,
          !.requested = requested, !.keys = keys, !.allowedOnce = once,
          !.offered = OfferedNow, !.closedBefore = ended]
    OBVIOUS
  <2>4. Becomes(c, k)
    BY <2>2, <2>3 DEF Begun
  <2> HIDE DEF once, ended
  <2>5. DOMAIN k = Fields /\ k.pc = "authenticate" /\ k.arg = arg /\ k.closedBefore = ended
    BY <2>1, <2>3 DEF Fields
  <2> QED BY <2>2, <2>4, <2>5 DEF ended
<1>2. calls[c].pc = "idle" /\ KeepTables /\ DOMAIN k = Fields
  BY <1>1 DEF BeginCall, At, CallsInv, CallsGood, Good, IsCall
<1>3. Good(c, k)
  BY <1>1, <1>2 DEF Good, IsCall, CallPlace, KnowsCaller, Working, InsideTool, NamesSession,
       OwnsSession, InSession, OnRecord, Attached, OpenSince
<1> QED BY <1>1, <1>2, <1>3, BecomesKeeps DEF Early

\* A call that goes from one place to another, with the same session.
LEMMA PlaceKeeps ==
  ASSUME CallsInv, NEW c \in Call, NEW k, Becomes(c, k), KeepTables, Stays(calls[c], k),
         k.session = calls[c].session, k.pc \in Attached, calls[c].pc \in Attached,
         k.pc = "collecting" => IsCollect(calls[c])
  PROVE  CallsInv'
<1>1. Good(c, calls[c])
  BY DEF CallsInv, CallsGood
<1>2. Good(c, k)
  BY <1>1 DEF Stays, Good, IsCall, CallPlace, KnowsCaller, Working, InsideTool, NamesSession,
       OwnsSession, InSession, OnRecord, Attached, OpenSince, IsCollect
<1> QED BY <1>2, BecomesKeeps DEF Attached, Early, Stays

LEMMA OverKeeps ==
  ASSUME CallsInv, NEW c \in Call, NEW k, Becomes(c, k), KeepTables, Stays(calls[c], k),
         k.pc \in {"done", "complete"}, calls[c].pc # "recording"
  PROVE  CallsInv'
<1>1. ClosedOnly(calls[c])
  BY DEF CallsInv, CallsGood, Good, OpenSince, ClosedOnly
<1>2. Good(c, k)
  BY <1>1, OverIsGood
<1> QED BY <1>2, BecomesKeeps DEF Early, Stays

LEMMA AllowedStays ==
  ASSUME NEW k, DOMAIN k = Fields, NEW projects
  PROVE  Stays(k, Allowed(k, projects)) /\ Allowed(k, projects).arg = k.arg
<1>1. PICK order : order = ByName(projects)
  OBVIOUS
<1>2. Allowed(k, projects) = [k EXCEPT !.allowed = projects, !.toLoad = order]
  BY <1>1 DEF Allowed
<1> QED BY <1>2 DEF Fields, Stays

LEMMA AuthenticateKeeps ==
  ASSUME CallsInv, CallsAssumption, NEW c \in Call, Authenticate(c)
  PROVE  CallsInv'
<1> DEFINE k == calls[c]
           row == CallerRow(k.client, k.tool, k.arg # NoSession)
<1>1. DOMAIN k = Fields /\ ClosedOnly(k) /\ k.pc = "authenticate" /\ KeepTables
      /\ k.arg \in SessionArg \union {NoSession}
  BY DEF CallsInv, CallsGood, Good, OpenSince, ClosedOnly, IsCall, NamesSession, Authenticate, At
<1>2. CASE row = NoRow /\ Becomes(c, Ended(k, "error"))
  BY <1>1, <1>2, EndedStays, OverKeeps
<1>3. ASSUME row # NoRow
      PROVE  row \in Caller /\ (k.tool = "close_agent_session" => row.workspace = "session")
  BY <1>3, CallerRowIsOne
<1>4. CASE row # NoRow /\ Becomes(c, [k EXCEPT !.pc = "expand", !.caller = row])
  <2>1. PICK j : j = [k EXCEPT !.pc = "expand", !.caller = row]
    OBVIOUS
  <2>2. DOMAIN j = Fields /\ j.pc = "expand" /\ j.caller = row /\ j.arg = k.arg
        /\ j.tool = k.tool /\ j.closedBefore = k.closedBefore
    BY <1>1, <2>1 DEF Fields
  <2>3. Good(c, j)
    BY <1>1, <1>3, <1>4, <2>2 DEF ClosedOnly, Good, IsCall, CallPlace, KnowsCaller, Working,
         InsideTool, NamesSession, OwnsSession, InSession, OnRecord, Attached, OpenSince
  <2> QED BY <1>1, <1>4, <2>1, <2>2, <2>3, BecomesKeeps DEF Early
<1>5. CASE /\ row # NoRow
           /\ \E g \in GeneratedNames :
                Becomes(c, Named(Allowed([k EXCEPT !.caller = row], grants[row]), g))
  <2>1. PICK g \in GeneratedNames :
          Becomes(c, Named(Allowed([k EXCEPT !.caller = row], grants[row]), g))
    BY <1>5
  <2>2. PICK j : j = [k EXCEPT !.caller = row]
    OBVIOUS
  <2>3. DOMAIN j = Fields /\ j.caller = row /\ j.arg = k.arg /\ j.tool = k.tool
        /\ j.closedBefore = k.closedBefore
    BY <1>1, <2>2 DEF Fields
  <2>4. PICK a : a = Allowed(j, grants[row])
    OBVIOUS
  <2>5. DOMAIN a = Fields /\ a.caller = row /\ a.arg = k.arg /\ a.tool = k.tool
        /\ a.closedBefore = k.closedBefore
    BY <2>3, <2>4, AllowedStays DEF Stays
  <2>6. Good(c, Named(a, g)) /\ Named(a, g).pc # "idle" /\ Named(a, g).closedBefore = k.closedBefore
    BY ZenonT(30), <1>1, <1>3, <1>5, <2>5, NamedGood DEF ClosedOnly
  <2>7. Becomes(c, Named(a, g))
    BY <2>1, <2>2, <2>4
  <2> QED BY <1>1, <2>6, <2>7, BecomesKeeps DEF Early
<1> QED BY <1>2, <1>4, <1>5 DEF Authenticate

LEMMA ExpandKeeps ==
  ASSUME CallsInv, CallsAssumption, NEW c \in Call, ExpandAll(c)
  PROVE  CallsInv'
<1> DEFINE k == calls[c]
<1>1. /\ DOMAIN k = Fields /\ ClosedOnly(k) /\ k.pc = "expand" /\ KeepTables
      /\ k.arg \in SessionArg \union {NoSession} /\ k.caller \in Caller
      /\ k.tool = "close_agent_session" => k.caller.workspace = "session"
  BY DEF CallsInv, CallsGood, Good, OpenSince, ClosedOnly, IsCall, NamesSession, ExpandAll, At,
     KnowsCaller, Working
<1>2. PICK g \in GeneratedNames :
        Becomes(c, Named(Allowed(k, AllowedProjects({AllProjects}, manifests)), g))
  BY DEF ExpandAll
<1>3. PICK a : a = Allowed(k, AllowedProjects({AllProjects}, manifests))
  OBVIOUS
<1>4. Stays(k, a) /\ a.arg = k.arg
  BY <1>1, <1>3, AllowedStays
<1>5. Good(c, Named(a, g)) /\ Named(a, g).pc # "idle" /\ Named(a, g).closedBefore = k.closedBefore
  BY <1>1, <1>4, NamedGood DEF ClosedOnly, Stays
<1> QED BY <1>1, <1>2, <1>3, <1>5, BecomesKeeps DEF Early

LEMMA FindKeeps ==
  ASSUME CallsInv, NEW c \in Call, FindSession(c)
  PROVE  CallsInv'
<1> DEFINE k == calls[c]
<1>1. Good(c, k) /\ SessionsGood /\ k.pc = "session" /\ KeepTables /\ DOMAIN k = Fields
  BY DEF CallsInv, CallsGood, FindSession, At, Good, IsCall
<1>2. CASE \E s \in {t \in sessions : t.name = k.name} : Becomes(c, Adopted(k, s))
  <2>1. PICK s \in sessions : Becomes(c, Adopted(k, s))
    BY <1>2
  <2> QED BY <1>1, <2>1, AdoptedGood, BecomesKeeps DEF Early
<1>3. CASE Becomes(c, [k EXCEPT !.pc = "insert"])
  <2>1. PICK j : j = [k EXCEPT !.pc = "insert"]
    OBVIOUS
  <2>2. Stays(k, j) /\ j.pc = "insert" /\ j.name = k.name
    BY <1>1, <2>1, PlaceSet
  <2>3. Good(c, j)
    BY <1>1, <2>2 DEF Stays, Good, IsCall, CallPlace, KnowsCaller, Working,
         InsideTool, NamesSession, OwnsSession, InSession, OnRecord, Attached, OpenSince
  <2> QED BY <1>1, <1>3, <2>1, <2>2, <2>3, BecomesKeeps DEF Early, Stays
<1> QED BY <1>2, <1>3 DEF FindSession

LEMMA LoadKeeps ==
  ASSUME CallsInv, NEW c \in Call, LoadManifest(c)
  PROVE  CallsInv'
<1> DEFINE k == calls[c]
<1>1. DOMAIN k = Fields /\ k.pc = "manifests" /\ KeepTables
  BY DEF CallsInv, CallsGood, Good, IsCall, LoadManifest, At
<1>2. CASE Becomes(c, [k EXCEPT !.pc = "tool"])
  <2>1. PICK j : j = [k EXCEPT !.pc = "tool"]
    OBVIOUS
  <2>2. Stays(k, j) /\ j.pc = "tool" /\ j.session = k.session
    BY <1>1, <2>1, PlaceSet
  <2> QED BY <1>1, <1>2, <2>1, <2>2, PlaceKeeps DEF Attached
<1>3. CASE Becomes(c, [k EXCEPT !.loaded[Head(k.toLoad)] = manifests[Head(k.toLoad)],
                                !.toLoad = Tail(k.toLoad)])
  <2>1. PICK l, t, j : /\ j = [k EXCEPT !.loaded = l, !.toLoad = t]
                       /\ Becomes(c, j)
    BY <1>3
  <2>2. Stays(k, j) /\ j.pc = k.pc /\ j.session = k.session
    BY <1>1, <2>1 DEF Stays, Fields
  <2> QED BY <1>1, <2>1, <2>2, PlaceKeeps DEF Attached
<1> QED BY <1>2, <1>3 DEF LoadManifest

LEMMA RunToolKeeps ==
  ASSUME CallsInv, NEW c \in Call, RunTool(c)
  PROVE  CallsInv'
<1> DEFINE k == calls[c]
<1>1. DOMAIN k = Fields /\ k.pc = "tool" /\ KeepTables /\ Good(c, k)
  BY DEF CallsInv, CallsGood, Good, IsCall, RunTool, At
<1>2. CASE \E reply \in {"ok", "error", "raised"} : Becomes(c, Returns(k, reply))
  BY <1>1, <1>2, ReturnsStays, OverKeeps
<1>3. CASE /\ IsCollect(k)
           /\ Becomes(c, [k EXCEPT !.pc = "collecting", !.todo = AuthorizeProjects(k.allowed, k.requested)])
  <2>1. PICK t, j : j = [k EXCEPT !.pc = "collecting", !.todo = t] /\ Becomes(c, j)
    BY <1>3
  <2>2. Stays(k, j) /\ j.pc = "collecting" /\ j.session = k.session
    BY <1>1, <2>1 DEF Stays, Fields
  <2> QED BY <1>1, <1>3, <2>1, <2>2, PlaceKeeps DEF Attached
<1>4. CASE k.tool = "close_agent_session" /\ Becomes(c, [k EXCEPT !.pc = "lookup"])
  <2>1. PICK j : j = [k EXCEPT !.pc = "lookup"]
    OBVIOUS
  <2>2. Stays(k, j) /\ j.pc = "lookup"
    BY <1>1, <2>1, PlaceSet
  <2>3. Good(c, j)
    BY <1>1, <1>4, <2>2 DEF Stays, Good, IsCall, CallPlace, KnowsCaller, Working, IsCollect, CollectTools,
         InsideTool, NamesSession, OwnsSession, InSession, OnRecord, Attached, OpenSince
  <2> QED BY <1>1, <1>4, <2>1, <2>2, <2>3, BecomesKeeps DEF Early, Stays
<1> QED BY <1>2, <1>3, <1>4 DEF RunTool

LEMMA LookupKeeps ==
  ASSUME CallsInv, NEW c \in Call, LookupSession(c)
  PROVE  CallsInv'
<1> DEFINE k == calls[c]
<1>1. DOMAIN k = Fields /\ k.pc = "lookup" /\ KeepTables /\ Good(c, k)
  BY DEF CallsInv, CallsGood, Good, IsCall, LookupSession, At
<1>2. CASE \E reply \in {"ok", "error"} : Becomes(c, Returns(k, reply))
  BY <1>1, <1>2, ReturnsStays, OverKeeps
<1>3. CASE \E s \in sessions : s.caller = k.caller /\ Becomes(c, [k EXCEPT !.pc = "closing", !.session = s.id])
  <2>1. PICK s \in sessions : s.caller = k.caller /\ Becomes(c, [k EXCEPT !.pc = "closing", !.session = s.id])
    BY <1>3
  <2>2. PICK j : j = [k EXCEPT !.pc = "closing", !.session = s.id]
    OBVIOUS
  <2>3. Stays(k, j) /\ j.pc = "closing" /\ j.session = s.id
    BY <1>1, <2>2 DEF Stays, Fields
  <2>4. Good(c, j)
    BY <1>1, <2>1, <2>3 DEF Stays, Good, IsCall, CallPlace, KnowsCaller, Working, IsCollect, CollectTools,
         InsideTool, NamesSession, OwnsSession, InSession, OnRecord, Attached, OpenSince
  <2> QED BY <1>1, <2>1, <2>2, <2>3, <2>4, BecomesKeeps DEF Early, Stays
<1> QED BY <1>2, <1>3 DEF LookupSession

-----------------------------------------------------------------------------
(* The steps that write rows.                                              *)

LEMMA OthersStayGood ==
  ASSUME CallsInv, NEW c \in Call, NEW k, Becomes(c, k), RowsKept, Good(c, k)'
  PROVE  CallsGood' /\ calls'[c] = k /\ \A d \in Call \ {c} : calls'[d] = calls[d]
<1>1. DOMAIN calls' = Call /\ calls'[c] = k /\ \A d \in Call \ {c} : calls'[d] = calls[d]
  BY DEF CallsInv, CallsGood, Becomes
<1>2. ASSUME NEW d \in Call \ {c} PROVE Good(d, calls[d])'
  <2>1. PICK j : j = calls[d]
    OBVIOUS
  <2>2. Good(d, j)
    BY <2>1 DEF CallsInv, CallsGood
  <2>3. Good(d, j)'
    BY <2>2, GoodStays
  <2>4. calls'[d] = j
    BY <1>1, <2>1
  <2> QED BY <2>3, <2>4 DEF Good, IsCall, KnowsCaller, InsideTool, NamesSession, OwnsSession,
         InSession, IsCollect, OnRecord, OpenSince
<1>3. Good(c, calls[c])'
  BY <1>1 DEF Good, IsCall, KnowsCaller, InsideTool, NamesSession, OwnsSession,
         InSession, IsCollect, OnRecord, OpenSince
<1> QED BY <1>1, <1>2, <1>3 DEF CallsGood

LEMMA InsertKeeps ==
  ASSUME CallsInv, NEW c \in Call, InsertSession(c)
  PROVE  CallsInv'
<1> DEFINE k == calls[c]
           row == [id |-> c, name |-> k.name, caller |-> k.caller, closed |-> FALSE]
<1>1. /\ DOMAIN k = Fields /\ k.pc = "insert" /\ Good(c, k)
      /\ k.name \in SessionArg /\ k.caller \in Caller
      /\ UNCHANGED <<grants, manifests, audit, collected, edits, faults>>
  BY DEF CallsInv, CallsGood, Good, IsCall, InsertSession, At, NamesSession, KnowsCaller, Working
<1>2. CASE Becomes(c, WithoutSession(k)) /\ UNCHANGED sessions
  <2>1. KeepTables
    BY <1>1, <1>2 DEF KeepTables, tables
  <2> QED BY <1>1, <1>2, <2>1, WithoutSessionGood, BecomesKeeps DEF Early
<1>3. CASE /\ ~\E s \in sessions : s.name = k.name
           /\ sessions' = sessions \union {row} /\ Becomes(c, Adopted(k, row))
  <2>1. PICK j : j = [k EXCEPT !.pc = "audit", !.session = c]
    OBVIOUS
  <2>2. PICK r : r = row
    OBVIOUS
  <2>3. r \in SessionRow /\ r.id = c /\ r.name = k.name /\ r.caller = k.caller /\ r.closed = FALSE
    BY <1>1, <2>2 DEF SessionRow
  <2>4. Adopted(k, r) = j
    BY <2>1, <2>3 DEF Adopted
  <2>5. sessions' = sessions \union {r} /\ Becomes(c, j)
    BY <1>3, <2>2, <2>4
  <2> HIDE DEF row
  <2>6. Stays(k, j) /\ j.pc = "audit" /\ j.session = c
    BY <1>1, <2>1 DEF Stays, Fields
  <2>7. RowsKept
    BY <1>1, <2>5 DEF RowsKept
  <2>8. \A s \in sessions : s.id # c
    BY <1>1 DEF CallsInv, SessionsGood, Early
  <2>9. PICK h : h = k /\ Good(c, h)'
    BY <1>1, <2>7, GoodStays
  <2>10. c \notin k.closedBefore
    BY <1>1, <2>8 DEF Good, OpenSince
  <2>11. Good(c, j)'
    BY <1>1, <2>3, <2>5, <2>6, <2>9, <2>10 DEF Stays, Good, IsCall, CallPlace, KnowsCaller, Working,
         IsCollect, InsideTool, NamesSession, OwnsSession, InSession, OnRecord, Attached, OpenSince
  <2>12. CallsGood' /\ calls'[c] = j /\ \A d \in Call \ {c} : calls'[d] = calls[d]
    BY <2>5, <2>7, <2>11, OthersStayGood
  <2>13. SessionsGood'
    <3>1. /\ sessions' \subseteq SessionRow
          /\ \A s, t \in sessions' : s.name = t.name => s = t
          /\ \A s, t \in sessions' : s.id = t.id => s = t
          /\ \A s \in sessions' : s.closed => s.caller.workspace = "session"
      BY <1>3, <2>3, <2>5, <2>8 DEF CallsInv, SessionsGood
    <3>2. \A s \in sessions' : calls'[s.id].pc \notin Early
      BY <2>3, <2>5, <2>6, <2>12 DEF CallsInv, SessionsGood, Early, SessionRow
    <3> QED BY <3>1, <3>2 DEF SessionsGood
  <2>14. RecordsGood'
    BY <1>1, <2>6, <2>12 DEF CallsInv, RecordsGood
  <2>15. CollectedIsAudited'
    BY <1>1, <2>7, CollectedStays DEF CallsInv
  <2>16. NoLateCollect'
    BY <1>1, <2>6, <2>12 DEF CallsInv, NoLateCollect, RecordsGood, Stays
  <2>17. CloseHasTrail'
    BY <1>1, <2>3, <2>5, <2>12 DEF CallsInv, CloseHasTrail, At
  <2> QED BY <2>12, <2>13, <2>14, <2>15, <2>16, <2>17 DEF CallsInv
<1> QED BY <1>2, <1>3 DEF InsertSession

\* A row of agent_calls is written or completed.
LEMMA AuditKeeps ==
  ASSUME CallsInv, NEW c \in Call, NEW k, Becomes(c, k), RowsKept, Good(c, k)',
         UNCHANGED <<sessions, collected, edits, faults>>,
         k.pc \notin Early, calls[c].pc \notin Early, k.closedBefore = calls[c].closedBefore,
         \A a \in audit' : /\ DOMAIN a = {"call", "byTool", "session", "caller", "completed", "success"}
                           /\ a.byTool \in BOOLEAN,
         \A a \in audit' : a.byTool => \E s \in sessions : s.id = a.session /\ s.closed,
         \A a \in audit : a.byTool =>
           \E b \in audit' : b.byTool /\ b.session = a.session /\ b.caller = a.caller,
         calls[c].pc = "recording" => \A s \in sessions : s.id = calls[c].session =>
           \E b \in audit' : b.byTool /\ b.session = s.id /\ b.caller = s.caller
  PROVE  CallsInv'
<1>1. CallsGood' /\ calls'[c] = k /\ \A d \in Call \ {c} : calls'[d] = calls[d]
  BY OthersStayGood
<1>2. SessionsGood'
  BY <1>1 DEF CallsInv, SessionsGood, SessionRow
<1>3. RecordsGood'
  BY <1>1 DEF CallsInv, RecordsGood, Early
<1>4. CollectedIsAudited'
  BY CollectedStays DEF CallsInv
<1>5. NoLateCollect'
  BY <1>1 DEF CallsInv, NoLateCollect, RecordsGood
<1>6. ASSUME NEW s \in sessions, s.closed
      PROVE  \/ \E a \in audit' : a.byTool /\ a.session = s.id /\ a.caller = s.caller
             \/ \E d \in Call : calls'[d].pc = "recording" /\ calls'[d].session = s.id
             \/ faults > 0
  <2>1. \/ \E a \in audit : a.byTool /\ a.session = s.id /\ a.caller = s.caller
        \/ \E d \in Call : calls[d].pc = "recording" /\ calls[d].session = s.id
        \/ faults > 0
    BY <1>6 DEF CallsInv, CloseHasTrail, At
  <2> QED BY <1>1, <1>6, <2>1
<1>7. CloseHasTrail'
  BY <1>6 DEF CloseHasTrail, At
<1> QED BY <1>1, <1>2, <1>3, <1>4, <1>5, <1>7 DEF CallsInv

LEMMA CreateRowKeeps ==
  ASSUME CallsInv, NEW c \in Call, CreateCallRow(c)
  PROVE  CallsInv'
<1> DEFINE k == calls[c]
<1>1. /\ DOMAIN k = Fields /\ k.pc = "audit" /\ Good(c, k)
      /\ UNCHANGED <<grants, manifests, sessions, collected, edits, faults>>
  BY DEF CallsInv, CallsGood, Good, IsCall, CreateCallRow, At
<1>2. PICK j : j = [k EXCEPT !.pc = "manifests", !.audited = TRUE]
  OBVIOUS
<1>3. Stays(k, j) /\ j.pc = "manifests" /\ j.session = k.session
  BY <1>1, <1>2 DEF Stays, Fields
<1>4. PICK a : a = AuditRowOf(c, FALSE)
  OBVIOUS
<1>5. /\ DOMAIN a = {"call", "byTool", "session", "caller", "completed", "success"}
      /\ a.call = c /\ a.byTool = FALSE /\ a.session = k.session /\ a.caller = k.caller
  BY <1>4 DEF AuditRowOf
<1>6. audit' = audit \union {a} /\ Becomes(c, j)
  BY <1>2, <1>4 DEF CreateCallRow
<1>7. RowsKept
  BY <1>1, <1>6 DEF RowsKept
<1>8. PICK h : h = k /\ Good(c, h)'
  BY <1>1, <1>7, GoodStays
<1>9. j.session \notin j.closedBefore \/ ~IsCollect(k)
  BY <1>1, <1>3 DEF Good, OpenSince, Stays
<1>10. Good(c, j)'
  BY <1>1, <1>3, <1>5, <1>6, <1>8, <1>9 DEF Stays, Good, IsCall, CallPlace, KnowsCaller, Working,
       IsCollect, InsideTool, NamesSession, OwnsSession, InSession, OnRecord, Attached, OpenSince
<1>11. \A b \in audit' : b.byTool => b \in audit
  BY <1>5, <1>6
<1>12. \A b \in audit' : b.byTool => \E s \in sessions : s.id = b.session /\ s.closed
  BY <1>11 DEF CallsInv, CloseHasTrail
<1>13. \A b \in audit' : /\ DOMAIN b = {"call", "byTool", "session", "caller", "completed", "success"}
                         /\ b.byTool \in BOOLEAN
  BY <1>5, <1>6 DEF CallsInv, RecordsGood
<1> QED BY <1>1, <1>3, <1>6, <1>7, <1>10, <1>12, <1>13, AuditKeeps DEF Early, Stays

LEMMA RecordKeeps ==
  ASSUME CallsInv, NEW c \in Call, RecordClose(c)
  PROVE  CallsInv'
<1> DEFINE k == calls[c]
<1>1. /\ DOMAIN k = Fields /\ k.pc = "recording" /\ Good(c, k) /\ ClosedOnly(k)
      /\ UNCHANGED <<grants, manifests, sessions, collected, edits, faults>>
  BY DEF CallsInv, CallsGood, Good, IsCall, RecordClose, At, OpenSince, ClosedOnly
<1>2. PICK j : j = Returns(k, "closed")
  OBVIOUS
<1>3. Stays(k, j) /\ j.pc = "complete"
  BY <1>1, <1>2, ReturnsStays
<1>4. PICK a : a = AuditRowOf(c, TRUE)
  OBVIOUS
<1>5. /\ DOMAIN a = {"call", "byTool", "session", "caller", "completed", "success"}
      /\ a.call = c /\ a.byTool = TRUE /\ a.session = k.session /\ a.caller = k.caller
  BY <1>4 DEF AuditRowOf
<1>6. audit' = audit \union {a} /\ Becomes(c, j)
  BY <1>2, <1>4 DEF RecordClose
<1>7. RowsKept
  BY <1>1, <1>6 DEF RowsKept
<1>8. Good(c, j)
  BY <1>1, <1>3, OverIsGood
<1>9. Good(c, j)'
  BY <1>7, <1>8, GoodStays
<1>10. PICK s \in sessions : s.id = k.session /\ s.caller = k.caller /\ s.closed
  BY <1>1 DEF Good, OwnsSession, InSession
<1>11. \A t \in sessions : t.id = k.session => t = s
  BY <1>10 DEF CallsInv, SessionsGood
<1>12. \A b \in audit' : b.byTool => \E t \in sessions : t.id = b.session /\ t.closed
  BY <1>5, <1>6, <1>10 DEF CallsInv, CloseHasTrail
<1>13. \A b \in audit' : /\ DOMAIN b = {"call", "byTool", "session", "caller", "completed", "success"}
                         /\ b.byTool \in BOOLEAN
  BY <1>5, <1>6 DEF CallsInv, RecordsGood
<1>14. \A t \in sessions : t.id = k.session =>
         \E b \in audit' : b.byTool /\ b.session = t.id /\ b.caller = t.caller
  BY <1>5, <1>6, <1>10, <1>11
<1> QED BY <1>1, <1>3, <1>6, <1>7, <1>9, <1>12, <1>13, <1>14, AuditKeeps DEF Early, Stays

LEMMA CompleteKeeps ==
  ASSUME CallsInv, NEW c \in Call, CompleteCall(c)
  PROVE  CallsInv'
<1> DEFINE k == calls[c]
           filled(r) == [r EXCEPT !.completed = TRUE, !.success = k.reply \notin {"error", "raised"}]
           updated(r) == IF r.call = c /\ ~r.byTool THEN filled(r) ELSE r
<1>1. /\ DOMAIN k = Fields /\ k.pc = "complete" /\ ClosedOnly(k)
      /\ UNCHANGED <<grants, manifests, sessions, collected, edits, faults>>
  BY DEF CallsInv, CallsGood, Good, IsCall, CompleteCall, At, OpenSince, ClosedOnly
<1>2. PICK j : j = Dropped(k)
  OBVIOUS
<1>3. Stays(k, j) /\ j.pc = "done"
  BY <1>1, <1>2, DroppedStays
<1>4. audit' = {updated(r) : r \in audit} /\ Becomes(c, j)
  BY <1>2, Zenon DEF CompleteCall
<1>5. ASSUME NEW r \in audit
      PROVE  /\ DOMAIN updated(r) = {"call", "byTool", "session", "caller", "completed", "success"}
             /\ updated(r).byTool = r.byTool /\ updated(r).call = r.call
             /\ updated(r).session = r.session /\ updated(r).caller = r.caller
  <2>1. DOMAIN r = {"call", "byTool", "session", "caller", "completed", "success"}
    BY DEF CallsInv, RecordsGood
  <2>2. PICK won : won = (k.reply \notin {"error", "raised"})
    OBVIOUS
  <2>3. PICK f : f = [r EXCEPT !.completed = TRUE, !.success = won]
    OBVIOUS
  <2>4. /\ DOMAIN f = DOMAIN r /\ f.byTool = r.byTool /\ f.call = r.call
        /\ f.session = r.session /\ f.caller = r.caller
    BY <2>1, <2>3
  <2>5. updated(r) = f \/ updated(r) = r
    BY <2>2, <2>3
  <2> HIDE DEF updated
  <2> QED BY <2>1, <2>4, <2>5
<1> HIDE DEF updated
<1>6. RowsKept
  BY <1>1, <1>4, <1>5 DEF RowsKept
<1>7. Good(c, j)
  BY <1>1, <1>3, OverIsGood
<1>8. Good(c, j)'
  BY <1>6, <1>7, GoodStays
<1>9. \A b \in audit' : b.byTool => \E s \in sessions : s.id = b.session /\ s.closed
  BY <1>4, <1>5 DEF CallsInv, CloseHasTrail
<1>10. \A b \in audit' : /\ DOMAIN b = {"call", "byTool", "session", "caller", "completed", "success"}
                         /\ b.byTool \in BOOLEAN
  BY <1>4, <1>5 DEF CallsInv, RecordsGood
<1>11. \A a \in audit : a.byTool =>
         \E b \in audit' : b.byTool /\ b.session = a.session /\ b.caller = a.caller
  BY <1>4, <1>5
<1> QED BY <1>1, <1>3, <1>4, <1>6, <1>8, <1>9, <1>10, <1>11, AuditKeeps DEF Early, Stays

LEMMA CloseKeeps ==
  ASSUME CallsInv, NEW c \in Call, CloseSession(c)
  PROVE  CallsInv'
<1> DEFINE k == calls[c]
           shut(s) == IF s.id = k.session THEN [s EXCEPT !.closed = TRUE] ELSE s
<1>1. /\ DOMAIN k = Fields /\ k.pc = "closing" /\ Good(c, k)
      /\ UNCHANGED <<grants, manifests, audit, collected, edits, faults>>
  BY DEF CallsInv, CallsGood, Good, IsCall, CloseSession, At
<1>2. PICK j : j = [k EXCEPT !.pc = "recording"]
  OBVIOUS
<1>3. Stays(k, j) /\ j.pc = "recording" /\ j.session = k.session
  BY <1>1, <1>2, PlaceSet
<1>4. sessions' = {shut(s) : s \in sessions} /\ Becomes(c, j)
  BY <1>2, Zenon DEF CloseSession
<1>5. ASSUME NEW s \in sessions
      PROVE  /\ shut(s) \in SessionRow /\ shut(s).id = s.id /\ shut(s).name = s.name
             /\ shut(s).caller = s.caller
             /\ IF s.id = k.session THEN shut(s).closed = TRUE ELSE shut(s) = s
  <2>1. s \in SessionRow
    BY DEF CallsInv, SessionsGood
  <2>2. PICK f : f = [s EXCEPT !.closed = TRUE]
    OBVIOUS
  <2>3. f \in SessionRow /\ f.id = s.id /\ f.name = s.name /\ f.caller = s.caller /\ f.closed = TRUE
    BY <2>1, <2>2 DEF SessionRow
  <2> QED BY <2>1, <2>2, <2>3
<1> HIDE DEF shut
<1>6. RowsKept
  BY <1>1, <1>4, <1>5 DEF RowsKept
<1>7. PICK h : h = k /\ Good(c, h)'
  BY <1>1, <1>6, GoodStays
<1>8. PICK o \in sessions : o.id = k.session /\ o.caller = k.caller
  BY <1>1 DEF Good, OwnsSession, InSession
<1>9. \A s \in sessions : s.id = k.session => s.caller.workspace = "session"
  <2>1. \A s \in sessions : s.id = k.session => s = o
    BY <1>8 DEF CallsInv, SessionsGood
  <2> QED BY <1>1, <1>8, <2>1 DEF Good, KnowsCaller, Working, InsideTool
<1>10. Good(c, j)'
  <2>1. shut(o) \in sessions' /\ shut(o).id = j.session /\ shut(o).caller = j.caller /\ shut(o).closed
    BY <1>3, <1>4, <1>5, <1>8 DEF Stays
  <2> QED BY <1>1, <1>3, <1>7, <2>1 DEF Stays, Good, IsCall, CallPlace, KnowsCaller, Working,
         IsCollect, CollectTools, InsideTool, NamesSession, OwnsSession, InSession, OnRecord,
         Attached, OpenSince
<1>11. CallsGood' /\ calls'[c] = j /\ \A d \in Call \ {c} : calls'[d] = calls[d]
  BY <1>4, <1>6, <1>10, OthersStayGood
<1>12. SessionsGood'
  <2>0. \A s \in sessions' : \E r \in sessions : s = shut(r)
    BY <1>4
  <2>1. ASSUME NEW s \in sessions', NEW t \in sessions', s.name = t.name \/ s.id = t.id
        PROVE  s = t
    <3>1. PICK s0 \in sessions, t0 \in sessions : s = shut(s0) /\ t = shut(t0)
      BY <2>0
    <3>2. s.name = s0.name /\ t.name = t0.name /\ s.id = s0.id /\ t.id = t0.id
      BY <1>5, <3>1
    <3>3. s0 = t0
      BY <2>1, <3>2 DEF CallsInv, SessionsGood
    <3> QED BY <3>1, <3>3
  <2>2. ASSUME NEW s \in sessions'
        PROVE  s \in SessionRow /\ (s.closed => s.caller.workspace = "session")
    <3>1. PICK s0 \in sessions : s = shut(s0)
      BY <2>0
    <3> QED BY ZenonT(30), <1>5, <1>9, <3>1 DEF CallsInv, SessionsGood
  <2>3. \A s \in sessions : calls'[s.id].pc \notin Early
    BY <1>3, <1>11 DEF CallsInv, SessionsGood, Early, SessionRow
  <2>4. \A s \in sessions' : calls'[s.id].pc \notin Early
    BY <1>4, <1>5, <2>3
  <2> QED BY <2>1, <2>2, <2>4 DEF SessionsGood
<1>13. RecordsGood'
  BY <1>1, <1>3, <1>11 DEF CallsInv, RecordsGood
<1>14. CollectedIsAudited'
  BY <1>1, <1>6, CollectedStays DEF CallsInv
<1>15. NoLateCollect'
  BY <1>1, <1>3, <1>11 DEF CallsInv, NoLateCollect, RecordsGood, Stays
<1>16. CloseHasTrail'
  <2>1. \A a \in audit : a.byTool => \E s \in sessions' : s.id = a.session /\ s.closed
    BY <1>6 DEF CallsInv, CloseHasTrail, RowsKept
  <2>2. ASSUME NEW s \in sessions, shut(s).closed
        PROVE  \/ \E a \in audit : a.byTool /\ a.session = s.id /\ a.caller = s.caller
               \/ \E d \in Call : calls'[d].pc = "recording" /\ calls'[d].session = s.id
               \/ faults > 0
    <3>1. CASE s.id = k.session
      BY <1>3, <1>11, <3>1
    <3>2. CASE s.id # k.session
      <4>1. s.closed
        BY <1>5, <2>2, <3>2
      <4>2. \/ \E a \in audit : a.byTool /\ a.session = s.id /\ a.caller = s.caller
            \/ \E d \in Call : calls[d].pc = "recording" /\ calls[d].session = s.id
            \/ faults > 0
        BY <4>1 DEF CallsInv, CloseHasTrail, At
      <4> QED BY <1>1, <1>11, <4>2
    <3> QED BY <3>1, <3>2
  <2>3. ASSUME NEW t \in sessions', t.closed
        PROVE  \/ \E a \in audit' : a.byTool /\ a.session = t.id /\ a.caller = t.caller
               \/ \E d \in Call : calls'[d].pc = "recording" /\ calls'[d].session = t.id
               \/ faults' > 0
    <3>1. PICK s \in sessions : t = shut(s)
      BY <1>4, <2>3
    <3>2. t.id = s.id /\ t.caller = s.caller
      BY <1>5, <3>1
    <3> QED BY <1>1, <2>2, <2>3, <3>1, <3>2
  <2>4. audit' = audit
    BY <1>1
  <2> QED BY <2>1, <2>3, <2>4 DEF CloseHasTrail, At
<1> QED BY <1>11, <1>12, <1>13, <1>14, <1>15, <1>16 DEF CallsInv

LEMMA CollectKeeps ==
  ASSUME CallsInv, NEW c \in Call, CollectProject(c)
  PROVE  CallsInv'
<1> DEFINE k == calls[c]
<1>1. /\ DOMAIN k = Fields /\ k.pc = "collecting" /\ Good(c, k) /\ IsCollect(k)
      /\ UNCHANGED <<tables, edits, faults>>
  BY DEF CallsInv, CallsGood, Good, IsCall, CollectProject, At, InsideTool
<1>2. CASE \E reply \in {"ok", "error"} : Becomes(c, Returns(k, reply)) /\ UNCHANGED collected
  <2>1. KeepTables
    BY <1>1, <1>2 DEF KeepTables
  <2> QED BY <1>1, <1>2, <2>1, ReturnsStays, OverKeeps
<1>3. CASE \E p, sources :
             /\ collected' = collected \union
                  {[call |-> c, session |-> k.session, project |-> p, sources |-> sources]}
             /\ Becomes(c, [k EXCEPT !.todo = Tail(@)])
  <2>1. PICK r, t, j :
          /\ r.call = c /\ r.session = k.session /\ collected' = collected \union {r}
          /\ j = [k EXCEPT !.todo = t] /\ Becomes(c, j)
    <3>1. PICK p, sources :
             /\ collected' = collected \union
                  {[call |-> c, session |-> k.session, project |-> p, sources |-> sources]}
             /\ Becomes(c, [k EXCEPT !.todo = Tail(@)])
      BY <1>3
    <3>2. PICK r : r = [call |-> c, session |-> k.session, project |-> p, sources |-> sources]
      OBVIOUS
    <3>3. r.call = c /\ r.session = k.session
      BY <3>2
    <3> QED BY <3>1, <3>2, <3>3
  <2>2. Stays(k, j) /\ j.pc = "collecting" /\ j.session = k.session
    BY <1>1, <2>1 DEF Stays, Fields
  <2>3. sessions' = sessions /\ audit' = audit
    BY <1>1 DEF tables
  <2>4. RowsKept
    BY <2>3 DEF RowsKept
  <2>5. Good(c, j)
    BY <1>1, <2>2 DEF Stays, Good, IsCall, CallPlace, KnowsCaller, Working, IsCollect,
         InsideTool, NamesSession, OwnsSession, InSession, OnRecord, Attached, OpenSince
  <2>6. Good(c, j)'
    BY <2>4, <2>5, GoodStays
  <2>7. CallsGood' /\ calls'[c] = j /\ \A d \in Call \ {c} : calls'[d] = calls[d]
    BY <2>1, <2>4, <2>6, OthersStayGood
  <2>8. SessionsGood'
    BY <2>2, <2>3, <2>7 DEF CallsInv, SessionsGood, Early, SessionRow
  <2>9. RecordsGood'
    BY <1>1, <2>1, <2>2, <2>3, <2>7 DEF CallsInv, RecordsGood
  <2>10. CollectedIsAudited'
    <3>1. \E a \in audit, s \in sessions :
            a.call = r.call /\ ~a.byTool /\ a.session = r.session /\ s.id = a.session /\ s.caller = a.caller
      BY <1>1, <2>1 DEF Good, OwnsSession, InSession, OnRecord, Attached
    <3> QED BY <2>1, <2>3, <3>1 DEF CallsInv, CollectedIsAudited
  <2>11. NoLateCollect'
    <3>1. r.session \notin j.closedBefore
      BY <1>1, <2>1, <2>2 DEF Good, OpenSince, Attached, Stays
    <3>2. \A q \in collected : calls'[q.call].closedBefore = calls[q.call].closedBefore
      BY <2>2, <2>7 DEF CallsInv, RecordsGood, Stays
    <3> QED BY <2>1, <2>7, <3>1, <3>2 DEF CallsInv, NoLateCollect
  <2>12. CloseHasTrail'
    BY <1>1, <2>2, <2>3, <2>7 DEF CallsInv, CloseHasTrail, At
  <2> QED BY <2>7, <2>8, <2>9, <2>10, <2>11, <2>12 DEF CallsInv
<1>4. (\E reply \in {"ok", "error"} : Becomes(c, Returns(k, reply)) /\ UNCHANGED collected)
      \/ \E p, sources :
           /\ collected' = collected \union
                {[call |-> c, session |-> k.session, project |-> p, sources |-> sources]}
           /\ Becomes(c, [k EXCEPT !.todo = Tail(@)])
  BY Zenon DEF CollectProject
<1> QED BY <1>2, <1>3, <1>4

-----------------------------------------------------------------------------
(* Faults and edits.                                                       *)

LEMMA ErrorIsGood ==
  ASSUME NEW c, NEW k, Good(c, k),
         k.pc \in {"authenticate", "expand", "session", "insert", "audit", "manifests",
                   "lookup", "closing", "recording", "complete"}
  PROVE  /\ Good(c, AfterDbError(k)) /\ AfterDbError(k).pc \notin Early
         /\ AfterDbError(k).closedBefore = k.closedBefore
<1>1. DOMAIN k = Fields /\ ClosedOnly(k)
  BY DEF Good, IsCall, OpenSince, ClosedOnly
<1>2. CASE k.pc \in {"authenticate", "expand", "audit"}
  <2>1. AfterDbError(k) = Ended(k, "error")
    BY <1>2 DEF AfterDbError
  <2> QED BY <1>1, <2>1, EndedStays, OverIsGood DEF Stays, Early
<1>3. CASE k.pc \in {"session", "insert"}
  <2>1. AfterDbError(k) = WithoutSession(k)
    BY <1>3 DEF AfterDbError
  <2> QED BY <1>3, <2>1, WithoutSessionGood
<1>4. CASE k.pc = "manifests"
  <2>1. PICK l, j : j = [k EXCEPT !.pc = "tool", !.loaded = l] /\ AfterDbError(k) = j
    BY <1>4 DEF AfterDbError
  <2>2. Stays(k, j) /\ j.pc = "tool" /\ j.session = k.session
    BY <1>1, <2>1 DEF Stays, Fields
  <2>3. Good(c, j)
    BY <1>1, <1>4, <2>2 DEF Stays, Good, IsCall, CallPlace, KnowsCaller, Working, IsCollect,
         InsideTool, NamesSession, OwnsSession, InSession, OnRecord, Attached, OpenSince
  <2> QED BY <2>1, <2>2, <2>3 DEF Stays, Early
<1>5. CASE k.pc \in {"lookup", "closing", "recording"}
  <2>1. AfterDbError(k) = Returns(k, "error")
    BY <1>5 DEF AfterDbError
  <2> QED BY <1>1, <2>1, ReturnsStays, OverIsGood DEF Stays, Early
<1>6. CASE k.pc = "complete"
  <2>1. AfterDbError(k) = Dropped(k)
    BY <1>6 DEF AfterDbError
  <2> QED BY <1>1, <2>1, DroppedStays, OverIsGood DEF Stays, Early
<1> QED BY <1>2, <1>3, <1>4, <1>5, <1>6

LEMMA DbErrorKeeps ==
  ASSUME CallsInv, NEW c \in Call, DbError(c)
  PROVE  CallsInv'
<1>1. DOMAIN calls' = Call /\ calls'[c] = AfterDbError(calls[c]) /\ \A d \in Call \ {c} : calls'[d] = calls[d]
  BY DEF CallsInv, CallsGood, DbError, Becomes
<1>2. edits' \in Nat /\ faults' \in Nat /\ faults' > 0 /\ faults' >= faults
      /\ UNCHANGED <<sessions, audit, collected>>
  BY DEF DbError, CallsInv, RecordsGood, tables
<1>3. Moves(c)
  <2>1. Good(c, calls[c])
    BY DEF CallsInv, CallsGood
  <2> QED BY <1>1, <1>2, <2>1, ErrorIsGood DEF Moves, DbError, Early
<1>4. ASSUME NEW d \in Call \ {c} PROVE Moves(d)
  BY <1>1, <1>2, <1>4 DEF Moves, CallsInv, CallsGood
<1> QED BY <1>1, <1>2, <1>3, <1>4, MovesKeep

LEMMA StopKeeps ==
  ASSUME CallsInv, NEW S \in SUBSET Call, Stop(S)
  PROVE  CallsInv'
<1>1. DOMAIN calls' = Call /\ \A d \in Call :
        calls'[d] = IF d \in S THEN Ended(calls[d], "cancelled") ELSE calls[d]
  BY DEF Stop
<1>2. edits' \in Nat /\ faults' \in Nat /\ faults' > 0 /\ faults' >= faults
      /\ UNCHANGED <<sessions, audit, collected>>
  BY DEF Stop, CallsInv, RecordsGood, tables
<1>3. ASSUME NEW d \in S PROVE Moves(d)
  <2>1. DOMAIN calls[d] = Fields /\ ClosedOnly(calls[d])
    BY DEF CallsInv, CallsGood, Good, IsCall, OpenSince, ClosedOnly
  <2> QED BY <1>1, <1>2, <2>1, EndedStays, OverIsGood DEF Moves, Stays, Early
<1>4. ASSUME NEW d \in Call \ S PROVE Moves(d)
  BY <1>1, <1>2 DEF Moves, CallsInv, CallsGood
<1> QED BY <1>1, <1>2, <1>3, <1>4, MovesKeep

LEMMA EditKeeps ==
  ASSUME CallsInv, Edit
  PROVE  CallsInv'
<1>1. edits' \in Nat /\ faults' \in Nat /\ faults' >= faults /\ UNCHANGED <<sessions, audit, collected>>
  BY DEF Edit, CallsInv, RecordsGood
<1>2. DOMAIN calls' = Call
  BY DEF Edit, Witnessed
<1>3. ASSUME NEW d \in Call PROVE Moves(d)
  <2>1. \E a, o : calls'[d] = [calls[d] EXCEPT !.allowedOnce = a, !.offered = o] \/ calls'[d] = calls[d]
    BY Zenon DEF Edit, Witnessed
  <2>2. PICK a, o, j : j = [calls[d] EXCEPT !.allowedOnce = a, !.offered = o]
                       /\ (calls'[d] = j \/ calls'[d] = calls[d])
    BY <2>1
  <2>3. Good(d, calls[d]) /\ DOMAIN calls[d] = Fields
    BY DEF CallsInv, CallsGood, Good, IsCall
  <2>4. Stays(calls[d], j) /\ j.pc = calls[d].pc /\ j.session = calls[d].session
        /\ j.name = calls[d].name /\ j.arg = calls[d].arg
    BY <2>2, <2>3 DEF Stays, Fields
  <2>5. Good(d, j)
    BY <2>3, <2>4 DEF Stays, Good, IsCall, KnowsCaller, IsCollect,
         InsideTool, NamesSession, OwnsSession, InSession, OnRecord, OpenSince
  <2> QED BY <2>2, <2>3, <2>4, <2>5 DEF Moves, Stays
<1> QED BY <1>1, <1>2, <1>3, MovesKeep

-----------------------------------------------------------------------------
(* Theorems.                                                               *)

LEMMA CallsInitial == CallsInit => CallsInv
<1> SUFFICES ASSUME CallsInit PROVE CallsInv
  OBVIOUS
<1>1. sessions = {} /\ audit = {} /\ collected = {} /\ edits = 0 /\ faults = 0 /\ DOMAIN calls = Call
  BY DEF CallsInit
<1>2. ASSUME NEW c \in Call PROVE Good(c, calls[c])
  <2>1. calls[c] = NotCalled
    BY DEF CallsInit
  <2>2. DOMAIN NotCalled = Fields /\ NotCalled.pc = "idle" /\ NotCalled.closedBefore = {}
    BY DEF NotCalled, Fields
  <2> QED BY <2>1, <2>2 DEF Good, IsCall, CallPlace, KnowsCaller, Working, InsideTool, NamesSession,
         OwnsSession, InSession, OnRecord, Attached, OpenSince
<1> QED BY <1>1, <1>2 DEF CallsInv, CallsGood, SessionsGood, RecordsGood, CollectedIsAudited,
       NoLateCollect, CloseHasTrail

LEMMA CallsStep == ASSUME CallsAssumption, CallsInv, [CallsNext]_callVars PROVE CallsInv'
<1>1. ASSUME NEW c \in Call, BeginCall(c) \/ CallStep(c) \/ DbError(c) PROVE CallsInv'
  BY <1>1, BeginKeeps, AuthenticateKeeps, ExpandKeeps, FindKeeps, InsertKeeps, CreateRowKeeps,
     LoadKeeps, RunToolKeeps, CollectKeeps, LookupKeeps, CloseKeeps, RecordKeeps, CompleteKeeps,
     DbErrorKeeps DEF CallStep
<1>2. ASSUME NEW S \in SUBSET Call, Stop(S) PROVE CallsInv'
  BY <1>2, StopKeeps
<1>3. CASE Edit
  BY <1>3, EditKeeps
<1>4. CASE UNCHANGED callVars
  BY <1>4 DEF callVars, tables, CallsInv, CallsGood, SessionsGood, RecordsGood, CollectedIsAudited,
     NoLateCollect, CloseHasTrail, At, Good, IsCall, KnowsCaller, InsideTool, NamesSession,
     OwnsSession, InSession, IsCollect, OnRecord, OpenSince
<1> QED BY <1>1, <1>2, <1>3, <1>4 DEF CallsNext, EditGrants, UploadManifest, UpdateManifest

\* The invariant holds whatever calls run together, fail or are cut off, and
\* whatever the operator edits meanwhile.
THEOREM CallsInvariant == CallsSpec => []CallsInv
BY CallsInitial, CallsStep, CallsAssumption, PTL DEF CallsSpec

\* Whatever is collected is on record first, in a session of its caller.
THEOREM CollectionsOnRecord == CallsSpec => []CollectedIsAudited
<1>1. CallsInv => CollectedIsAudited
  BY DEF CallsInv
<1> QED BY <1>1, CallsInvariant, PTL

\* A session that was closed when a call began gets nothing from it.
THEOREM NothingAfterClose == CallsSpec => []NoLateCollect
<1>1. CallsInv => NoLateCollect
  BY DEF CallsInv
<1> QED BY <1>1, CallsInvariant, PTL

\* A close leaves its row, unless a write failed or a call was stopped.
THEOREM ClosesOnRecord == CallsSpec => []CloseHasTrail
<1>1. CallsInv => CloseHasTrail
  BY DEF CallsInv
<1> QED BY <1>1, CallsInvariant, PTL

-----------------------------------------------------------------------------
(* The refinement.                                                         *)

LEMMA RowIsOne ==
  ASSUME NEW S, \A s, t \in S : s.name = t.name => s = t, NEW s \in S
  PROVE  (CHOOSE t \in S : t.name = s.name) = s
OBVIOUS

Owners == [n \in SessionArg |-> IF n \in SessionNames THEN RowOfName(n).caller ELSE NoRow]
ClosedNames == {n \in SessionNames : RowOfName(n).closed}

LEMMA OwnersAre ==
  ASSUME SessionsGood
  PROVE  /\ \A s \in sessions : Owners[s.name] = s.caller /\ (s.name \in ClosedNames <=> s.closed)
         /\ \A n \in SessionArg : (\A s \in sessions : s.name # n) => Owners[n] = NoRow
         /\ \A n \in ClosedNames : \E s \in sessions : s.name = n /\ s.closed
<1>1. \A s \in sessions : RowOfName(s.name) = s
  BY RowIsOne DEF SessionsGood, RowOfName
<1>2. \A s \in sessions : s.name \in SessionArg /\ s.closed \in BOOLEAN
  BY DEF SessionsGood, SessionRow
<1> QED BY <1>1, <1>2 DEF Owners, ClosedNames, SessionNames

LEMMA OwnersAreNext ==
  ASSUME SessionsGood'
  PROVE  /\ \A s \in sessions' : Owners'[s.name] = s.caller /\ (s.name \in ClosedNames' <=> s.closed)
         /\ \A n \in SessionArg : (\A s \in sessions' : s.name # n) => Owners'[n] = NoRow
         /\ \A n \in ClosedNames' : \E s \in sessions' : s.name = n /\ s.closed
<1>1. \A s \in sessions' : RowOfName(s.name)' = s
  BY RowIsOne DEF SessionsGood, RowOfName
<1>2. \A s \in sessions' : s.name \in SessionArg /\ s.closed \in BOOLEAN
  BY DEF SessionsGood, SessionRow
<1> QED BY <1>1, <1>2 DEF Owners, ClosedNames, SessionNames, RowOfName

LEMMA OpensName ==
  ASSUME SessionsGood, SessionsGood', NEW r, sessions' = sessions \union {r}, r.closed = FALSE,
         \A s \in sessions : s.name # r.name
  PROVE  Lifecycle!LifecycleNext
<1>1. /\ \A s \in sessions : Owners[s.name] = s.caller /\ (s.name \in ClosedNames <=> s.closed)
      /\ \A n \in SessionArg : (\A s \in sessions : s.name # n) => Owners[n] = NoRow
      /\ \A n \in ClosedNames : \E s \in sessions : s.name = n /\ s.closed
  BY OwnersAre
<1>2. /\ \A s \in sessions' : Owners'[s.name] = s.caller /\ (s.name \in ClosedNames' <=> s.closed)
      /\ \A n \in SessionArg : (\A s \in sessions' : s.name # n) => Owners'[n] = NoRow
      /\ \A n \in ClosedNames' : \E s \in sessions' : s.name = n /\ s.closed
  BY OwnersAreNext
<1>3. r.name \in SessionArg /\ r.caller \in Caller
  BY DEF SessionsGood, SessionRow
<1>4. Owners \in [SessionArg -> {Owners[n] : n \in SessionArg}] /\ Owners' = [n \in SessionArg |-> Owners'[n]]
  BY DEF Owners
<1>5. \A n \in SessionArg : Owners'[n] = IF n = r.name THEN r.caller ELSE Owners[n]
  BY <1>1, <1>2
<1>6. Owners' = [Owners EXCEPT ![r.name] = r.caller]
  BY <1>3, <1>4, <1>5
<1>7. Owners[r.name] = NoRow
  BY <1>1, <1>3
<1>8. ClosedNames' = ClosedNames
  BY <1>1, <1>2
<1>9. Lifecycle!Open(r.name, r.caller)
  BY <1>6, <1>7, <1>8 DEF Lifecycle!Open, Owners, ClosedNames
<1> QED BY <1>3, <1>9 DEF Lifecycle!LifecycleNext

LEMMA ClosesName ==
  ASSUME AccessAssumption, SessionsGood, SessionsGood', NEW o \in sessions,
         o.caller.workspace = "session",
         NEW p, p \in sessions', p.name = o.name, p.caller = o.caller, p.closed,
         \A s \in sessions \ {o} : s \in sessions', \A s \in sessions' \ {p} : s \in sessions \ {o}
  PROVE  Lifecycle!LifecycleNext \/ UNCHANGED Lifecycle!lifecycleVars
<1>1. /\ \A s \in sessions : Owners[s.name] = s.caller /\ (s.name \in ClosedNames <=> s.closed)
      /\ \A n \in SessionArg : (\A s \in sessions : s.name # n) => Owners[n] = NoRow
      /\ \A n \in ClosedNames : \E s \in sessions : s.name = n /\ s.closed
  BY OwnersAre
<1>2. /\ \A s \in sessions' : Owners'[s.name] = s.caller /\ (s.name \in ClosedNames' <=> s.closed)
      /\ \A n \in SessionArg : (\A s \in sessions' : s.name # n) => Owners'[n] = NoRow
      /\ \A n \in ClosedNames' : \E s \in sessions' : s.name = n /\ s.closed
  BY OwnersAreNext
<1>3. Owners' = Owners
  <2>1. Owners = [n \in SessionArg |-> Owners[n]] /\ Owners' = [n \in SessionArg |-> Owners'[n]]
    BY DEF Owners
  <2>2. ASSUME NEW n \in SessionArg PROVE Owners'[n] = Owners[n]
    <3>1. CASE n = o.name
      BY <1>1, <1>2, <3>1
    <3>2. CASE n # o.name /\ \E s \in sessions : s.name = n
      BY <1>1, <1>2, <3>2
    <3>3. CASE n # o.name /\ \A s \in sessions : s.name # n
      BY <1>1, <1>2, <3>3
    <3> QED BY <3>1, <3>2, <3>3
  <2> QED BY <2>1, <2>2
<1>4. ClosedNames' = ClosedNames \union {o.name}
  <2>1. \A n \in ClosedNames : n \in ClosedNames'
    <3> SUFFICES ASSUME NEW n \in ClosedNames PROVE n \in ClosedNames'
      OBVIOUS
    <3>1. PICK s \in sessions : s.name = n /\ s.closed
      BY <1>1
    <3> QED BY <1>2, <3>1
  <2>2. \A n \in ClosedNames' : n \in ClosedNames \union {o.name}
    <3> SUFFICES ASSUME NEW n \in ClosedNames' PROVE n \in ClosedNames \union {o.name}
      OBVIOUS
    <3>1. PICK s \in sessions' : s.name = n /\ s.closed
      BY <1>2
    <3> QED BY <1>1, <3>1
  <2>3. o.name \in ClosedNames'
    BY <1>2
  <2> QED BY <2>1, <2>2, <2>3
<1>5. CASE o.name \in ClosedNames
  <2>1. UNCHANGED <<Owners, ClosedNames>>
    BY <1>3, <1>4, <1>5
  <2> QED BY <2>1 DEF Lifecycle!lifecycleVars, Owners, ClosedNames
<1>6. CASE o.name \notin ClosedNames
  <2>1. o.name \in SessionArg /\ o.caller \in Caller
    BY DEF SessionsGood, SessionRow
  <2>2. Owners[o.name] = o.caller /\ o.caller # NoRow
    BY <1>1, <2>1 DEF AccessAssumption
  <2>3. Lifecycle!Close(o.name)
    BY <1>3, <1>4, <1>6, <2>2 DEF Lifecycle!Close, Owners, ClosedNames
  <2> QED BY <2>1, <2>3 DEF Lifecycle!LifecycleNext
<1> QED BY <1>5, <1>6

LEMMA LifecycleStep ==
  ASSUME AccessAssumption, CallsInv, CallsInv', [CallsNext]_callVars
  PROVE  [Lifecycle!LifecycleNext]_(Lifecycle!lifecycleVars)
<1>0. SessionsGood /\ SessionsGood'
  BY DEF CallsInv
<1>1. ASSUME sessions' = sessions PROVE UNCHANGED Lifecycle!lifecycleVars
  BY <1>1 DEF Lifecycle!lifecycleVars, SessionNames, RowOfName
<1>2. ASSUME NEW c \in Call, InsertSession(c)
      PROVE  [Lifecycle!LifecycleNext]_(Lifecycle!lifecycleVars)
  <2>1. CASE sessions' = sessions
    BY <1>1, <2>1
  <2>2. CASE sessions' # sessions
    <3>1. PICK r : /\ r = [id |-> c, name |-> calls[c].name, caller |-> calls[c].caller, closed |-> FALSE]
                   /\ sessions' = sessions \union {r} /\ \A s \in sessions : s.name # calls[c].name
      BY <1>2, <2>2 DEF InsertSession
    <3>2. r.closed = FALSE /\ r.name = calls[c].name
      BY <3>1
    <3> QED BY <1>0, <3>1, <3>2, OpensName
  <2> QED BY <2>1, <2>2
<1>3. ASSUME NEW c \in Call, CloseSession(c)
      PROVE  [Lifecycle!LifecycleNext]_(Lifecycle!lifecycleVars)
  <2>1. calls[c].pc = "closing" /\ Good(c, calls[c])
    BY <1>3 DEF CallsInv, CallsGood, CloseSession, At
  <2>2. PICK o \in sessions : o.id = calls[c].session /\ o.caller = calls[c].caller
    BY <2>1 DEF Good, OwnsSession, InSession
  <2>3. o.caller.workspace = "session"
    BY <2>1, <2>2 DEF Good, KnowsCaller, Working, InsideTool
  <2>4. PICK p : p = [o EXCEPT !.closed = TRUE]
    OBVIOUS
  <2>5. o \in SessionRow /\ \A s \in sessions : s.id = calls[c].session <=> s = o
    BY <2>2 DEF CallsInv, SessionsGood
  <2>6. p.name = o.name /\ p.caller = o.caller /\ p.closed
    BY <2>4, <2>5 DEF SessionRow
  <2>7. sessions' = {IF s = o THEN p ELSE s : s \in sessions}
    BY <1>3, <2>4, <2>5 DEF CloseSession
  <2>8. p \in sessions' /\ (\A s \in sessions \ {o} : s \in sessions')
        /\ \A s \in sessions' \ {p} : s \in sessions \ {o}
    BY <2>7
  <2> QED BY <1>0, <2>3, <2>6, <2>8, ClosesName
<1>4. ASSUME NEW c \in Call,
             BeginCall(c) \/ DbError(c) \/ (CallStep(c) /\ ~InsertSession(c) /\ ~CloseSession(c))
      PROVE  sessions' = sessions
  BY <1>4 DEF CallStep, BeginCall, DbError, Authenticate, ExpandAll, FindSession, CreateCallRow,
       LoadManifest, RunTool, CollectProject, LookupSession, RecordClose, CompleteCall, KeepTables, tables
<1>5. ASSUME (\E S \in SUBSET Call : Stop(S)) \/ Edit \/ UNCHANGED callVars
      PROVE  sessions' = sessions
  BY <1>5 DEF Stop, Edit, callVars, tables
<1> QED BY <1>1, <1>2, <1>3, <1>4, <1>5 DEF CallsNext, CallStep, EditGrants, UploadManifest, UpdateManifest

\* The sessions have the lifecycle of SessionLifecycle: whatever races to create
\* or close one, a name is taken once and for good, and closed once by its owner.
THEOREM SessionsHaveLifecycle == CallsSpec => ImplementsLifecycle
<1>1. CallsInit => Lifecycle!LifecycleInit
  <2> SUFFICES ASSUME CallsInit PROVE Lifecycle!LifecycleInit
    OBVIOUS
  <2>1. SessionNames = {}
    BY DEF CallsInit, SessionNames
  <2> QED BY <2>1 DEF Lifecycle!LifecycleInit
<1>2. CallsInv /\ CallsInv' /\ [CallsNext]_callVars => [Lifecycle!LifecycleNext]_(Lifecycle!lifecycleVars)
  BY LifecycleStep, AccessAssumption
<1> QED
  BY <1>1, <1>2, CallsInvariant, PTL DEF CallsSpec, ImplementsLifecycle, Lifecycle!LifecycleSpec

-----------------------------------------------------------------------------
(* What a call collects was allowed and offered. Between the query for the  *)
(* row, the query for all projects and the loading of the manifests the    *)
(* tables may change: what a call may still read has to count already.      *)

Row(k) == CallerRow(k.client, k.tool, k.arg # NoSession)

\* What a call may still read from the tables counts as allowed, and offered.
Counted(k) ==
  /\ Row(k) # NoRow => grants[Row(k)] \subseteq k.allowedOnce
  /\ AllowedProjects(k.allowedOnce, manifests) \subseteq k.allowedOnce
  /\ OfferedNow \subseteq k.offered

\* So does what it has read.
ReadCounted(k) ==
  /\ k.pc = "expand" => AllProjects \in k.allowedOnce
  /\ k.allowed \subseteq k.allowedOnce /\ k.allowed \subseteq Project
  /\ DOMAIN k.loaded = Project
  /\ \A p \in Project : k.loaded[p] # NoRow => \A x \in k.loaded[p].sources : <<p, x>> \in k.offered

\* A collection goes through projects it asked for, all of them allowed.
Authorized(k) ==
  k.pc = "collecting" =>
    /\ \A i \in DOMAIN k.requested : k.requested[i] \in k.allowed
    /\ k.todo \in Seq(IF k.requested = << >> THEN k.allowed ELSE ToSet(k.requested))

Active(k) == k.pc \notin {"idle", "done"}

Within(k) ==
  /\ k.requested \in Seq(Project \union {NoRow})
  /\ k.pc = "idle" => k.allowed = {} /\ k.loaded = NoManifests
  /\ Active(k) => Counted(k) /\ ReadCounted(k) /\ Authorized(k)

TablesTyped ==
  /\ grants \in [Caller -> SUBSET (Project \union {AllProjects})]
  /\ DOMAIN manifests = Project
  /\ \A p \in Project : manifests[p] # NoRow => manifests[p].sources \subseteq SourceKey

AllowedInv ==
  /\ TablesTyped /\ CollectedWasAllowed
  /\ \A c \in Call : Within(calls[c])

\* The request stays as it was made, and what counts grows.
Grows(k, j) ==
  /\ j.requested = k.requested /\ j.keys = k.keys
  /\ k.allowedOnce \subseteq j.allowedOnce /\ k.offered \subseteq j.offered

LEMMA AllowedKeeps ==
  ASSUME CallsInv, AllowedInv, collected' = collected, TablesTyped',
         \A d \in Call : Within(calls[d])' /\ (calls[d].pc # "idle" => Grows(calls[d], calls'[d]))
  PROVE  AllowedInv'
<1>1. CollectedWasAllowed'
  <2> SUFFICES ASSUME NEW r \in collected
               PROVE  LET k == calls'[r.call]
                      IN  /\ k.requested = << >> \/ \E i \in DOMAIN k.requested : k.requested[i] = r.project
                          /\ r.project \in k.allowedOnce
                          /\ \A x \in r.sources : <<r.project, x>> \in k.offered
                          /\ k.keys = {AllSources} \/ r.sources \subseteq k.keys
                          /\ \A i \in DOMAIN k.requested : k.requested[i] \in k.allowedOnce
    BY DEF CollectedWasAllowed
  <2>1. Grows(calls[r.call], calls'[r.call])
    BY DEF CallsInv, RecordsGood
  <2> QED BY <2>1 DEF AllowedInv, CollectedWasAllowed, Grows
<1> QED BY <1>1 DEF AllowedInv

LEMMA OneCallKeeps ==
  ASSUME CallsInv, AllowedInv, NEW c \in Call, NEW k, Becomes(c, k),
         UNCHANGED <<grants, manifests, collected>>,
         Within(k), calls[c].pc # "idle" => Grows(calls[c], k)
  PROVE  AllowedInv'
<1>1. calls'[c] = k /\ \A d \in Call \ {c} : calls'[d] = calls[d]
  BY DEF CallsInv, CallsGood, Becomes
<1>2. TablesTyped'
  BY DEF AllowedInv, TablesTyped
<1>3. ASSUME NEW j, Within(j) PROVE Within(j)'
  BY <1>3 DEF Within, Active, Counted, ReadCounted, Authorized, Row, CallerRow, AllowedProjects,
     OfferedNow
<1>4. ASSUME NEW d \in Call
      PROVE  Within(calls[d])' /\ (calls[d].pc # "idle" => Grows(calls[d], calls'[d]))
  <2>1. PICK j : j = calls'[d]
    OBVIOUS
  <2>2. Within(j)
    BY <1>1, <2>1 DEF AllowedInv
  <2>3. Within(j)'
    BY <1>3, <2>2
  <2>4. Within(calls[d])'
    BY <2>1, <2>3 DEF Within, Active, Counted, ReadCounted, Authorized, Row
  <2>5. calls[d].pc # "idle" => Grows(calls[d], calls'[d])
    BY <1>1 DEF Grows
  <2> QED BY <2>4, <2>5
<1> QED BY <1>2, <1>4, AllowedKeeps

-----------------------------------------------------------------------------
(* Calls that go on.                                                       *)

\* The call goes on with the same request and the same projects and manifests,
\* or it is over.
Asked(k, j) ==
  j.requested = k.requested /\ j.keys = k.keys /\ j.allowedOnce = k.allowedOnce /\ j.offered = k.offered

Goes(k, j) ==
  /\ DOMAIN j = Fields /\ Asked(k, j)
  /\ \/ j.pc = "done"
     \/ /\ j.pc \notin {"idle", "expand", "collecting"}
        /\ j.tool = k.tool /\ j.client = k.client /\ j.arg = k.arg
        /\ j.allowed = k.allowed /\ j.loaded = k.loaded

LEMMA GoesWithin ==
  ASSUME NEW k, Within(k), Active(k), NEW j, Goes(k, j)
  PROVE  Within(j) /\ Grows(k, j)
BY DEF Within, Active, Goes, Asked, Grows, Counted, ReadCounted, Authorized, Row

LEMMA DroppedGoes ==
  ASSUME NEW k, DOMAIN k = Fields
  PROVE  Goes(k, Dropped(k))
<1>1. PICK l : l = NoManifests
  OBVIOUS
<1>2. Dropped(k) = [k EXCEPT !.pc = "done", !.arg = NoSession, !.name = NoSession, !.allowed = {},
                              !.toLoad = << >>, !.loaded = l, !.todo = << >>]
  BY <1>1 DEF Dropped
<1> QED BY <1>2 DEF Fields, Goes, Asked

LEMMA EndedGoes ==
  ASSUME NEW k, DOMAIN k = Fields, NEW reply
  PROVE  Goes(k, Ended(k, reply))
<1>1. PICK j : j = [k EXCEPT !.reply = reply]
  OBVIOUS
<1>2. DOMAIN j = Fields /\ Asked(k, j)
  BY <1>1 DEF Fields, Asked
<1>3. Goes(j, Dropped(j)) /\ Dropped(j).pc = "done"
  BY <1>2, DroppedGoes, DroppedStays
<1>4. Ended(k, reply) = Dropped(j)
  BY <1>1 DEF Ended
<1> QED BY <1>2, <1>3, <1>4 DEF Goes, Asked

LEMMA PlaceGoes ==
  ASSUME NEW k, DOMAIN k = Fields, NEW p, p \notin {"idle", "expand", "collecting"}
  PROVE  Goes(k, [k EXCEPT !.pc = p])
BY DEF Fields, Goes, Asked

LEMMA ReturnsGoes ==
  ASSUME NEW k, DOMAIN k = Fields, NEW reply
  PROVE  Goes(k, Returns(k, reply))
BY DEF Fields, Goes, Asked, Returns

LEMMA WithoutSessionGoes ==
  ASSUME NEW k, DOMAIN k = Fields
  PROVE  Goes(k, WithoutSession(k))
BY EndedGoes, PlaceGoes DEF WithoutSession

LEMMA SessionSetGoes ==
  ASSUME NEW k, DOMAIN k = Fields, NEW p, p \notin {"idle", "expand", "collecting"}, NEW s
  PROVE  Goes(k, [k EXCEPT !.pc = p, !.session = s])
BY DEF Fields, Goes, Asked

LEMMA AdoptedGoes ==
  ASSUME NEW k, DOMAIN k = Fields, NEW s
  PROVE  Goes(k, Adopted(k, s))
BY WithoutSessionGoes, SessionSetGoes DEF Adopted

LEMMA NameSetGoes ==
  ASSUME NEW k, DOMAIN k = Fields, NEW n
  PROVE  Goes(k, [k EXCEPT !.pc = "session", !.name = n])
BY DEF Fields, Goes, Asked

LEMMA NamedGoes ==
  ASSUME NEW k, DOMAIN k = Fields, NEW g
  PROVE  Goes(k, Named(k, g))
BY EndedGoes, PlaceGoes, NameSetGoes DEF Named

LEMMA AuditedGoes ==
  ASSUME NEW k, DOMAIN k = Fields
  PROVE  Goes(k, [k EXCEPT !.pc = "manifests", !.audited = TRUE])
BY DEF Fields, Goes, Asked

\* What is added to what counts is closed under "all".
LEMMA AddAllowedClosed ==
  ASSUME NEW once, NEW row, NEW allowlists, NEW table, NEW sum,
         sum = AddAllowed(once, row, allowlists, table), AccessAssumption
  PROVE  /\ once \subseteq sum /\ (row # NoRow => allowlists[row] \subseteq sum)
         /\ AllowedProjects(sum, table) \subseteq sum
<1>1. PICK entries : entries = once \union (IF row = NoRow THEN {} ELSE allowlists[row])
  OBVIOUS
<1>2. sum = entries \union AllowedProjects(entries, table)
  BY <1>1 DEF AddAllowed
<1>3. AllProjects \in sum <=> AllProjects \in entries
  BY <1>2 DEF AllowedProjects, AccessAssumption
<1>4. AllowedProjects(sum, table) \subseteq sum
  BY <1>2, <1>3 DEF AllowedProjects
<1> QED BY <1>1, <1>2, <1>4

-----------------------------------------------------------------------------
(* The projects of a collection.                                           *)

\* FirstOccurrences reads its sequence from left to right.
LEMMA FirstOccurrencesSteps ==
  ASSUME NEW T, NEW s \in Seq(T)
  PROVE  \E f \in [0..Len(s) -> Seq(T)] :
           /\ f[0] = << >> /\ f[Len(s)] = FirstOccurrences(s)
           /\ \A k \in 0..Len(s) : k < Len(s) =>
                f[k + 1] = IF Contains(f[k], s[k + 1]) THEN f[k] ELSE Append(f[k], s[k + 1])
<1> DEFINE n == Len(s)
           step == [p \in Seq(T) \X (1..n) |->
                      IF Contains(p[1], s[p[2]]) THEN p[1] ELSE Append(p[1], s[p[2]])]
           Def(h) == [t \in SUBSET DOMAIN s |->
                        IF t = {} THEN << >>
                        ELSE IF Contains(h[t \ {Max(t)}], s[Max(t)]) THEN h[t \ {Max(t)}]
                             ELSE Append(h[t \ {Max(t)}], s[Max(t)])]
           iter == CHOOSE h : h = Def(h)
           f == [k \in 0..n |-> iter[1..k]]
<1>1. n \in Nat /\ DOMAIN s = 1..n /\ << >> \in Seq(T)
  OBVIOUS
<1>2. FirstOccurrences(s) = iter[DOMAIN s]
  BY DEF FirstOccurrences, FoldLeft, MapThenFoldSet
<1>3. step \in [Seq(T) \X (1..n) -> Seq(T)]
  <2>1. ASSUME NEW p \in Seq(T) \X (1..n)
        PROVE  (IF Contains(p[1], s[p[2]]) THEN p[1] ELSE Append(p[1], s[p[2]])) \in Seq(T)
    <3>1. p[1] \in Seq(T) /\ p[2] \in 1..n
      OBVIOUS
    <3>2. s[p[2]] \in T
      BY <3>1
    <3>3. Append(p[1], s[p[2]]) \in Seq(T)
      BY <3>1, <3>2
    <3> QED BY <3>1, <3>3
  <2> QED BY <2>1
<1>4. \A q \in Seq(T), i \in 1..n :
        step[<<q, i>>] = IF Contains(q, s[i]) THEN q ELSE Append(q, s[i])
  OBVIOUS
<1> HIDE DEF step, n
<1>5. PICK h \in [SUBSET (1..n) -> Seq(T)] : FoldsTo(h, << >>, step, n)
  BY <1>1, <1>3, FoldDefined
<1>6. h = Def(h)
  <2>1. ASSUME NEW t \in SUBSET (1..n), t # {}
        PROVE  step[<<h[t \ {Max(t)}], Max(t)>>] =
                    IF Contains(h[t \ {Max(t)}], s[Max(t)]) THEN h[t \ {Max(t)}]
                             ELSE Append(h[t \ {Max(t)}], s[Max(t)])
    <3>1. Max(t) \in t
      BY <1>1, <2>1, LargestIndex
    <3>2. Max(t) \in 1..n /\ h[t \ {Max(t)}] \in Seq(T)
      BY <3>1
    <3> QED BY <1>4, <3>2
  <2> QED BY <1>1, <1>5, <2>1 DEF FoldsTo
<1>7. iter = Def(iter)
  BY <1>6
<1> HIDE DEF iter
<1>8. f[0] = << >>
  BY <1>1, <1>7
<1>9. ASSUME NEW k \in 0..n, k < n
      PROVE  f[k + 1] = IF Contains(f[k], s[k + 1]) THEN f[k] ELSE Append(f[k], s[k + 1])
  <2>1. k \in Nat /\ k + 1 \in 0..n /\ 1..(k + 1) \in SUBSET DOMAIN s
    BY <1>1, <1>9
  <2>2. f[k] = iter[1..k] /\ f[k + 1] = iter[1..(k + 1)]
    BY <2>1
  <2> QED BY <1>7, <2>1, <2>2, LastIndex
<1>10. ASSUME NEW k \in 0..n, k < n, f[k] \in Seq(T) PROVE f[k + 1] \in Seq(T)
  <2>1. s[k + 1] \in T
    BY <1>1, <1>10
  <2>2. Append(f[k], s[k + 1]) \in Seq(T)
    BY <1>10, <2>1
  <2> HIDE DEF f
  <2> QED BY <1>9, <1>10, <2>2
<1>11. \A k \in 0..n : f[k] \in Seq(T)
  <2> DEFINE S == {k \in 0..n : f[k] \in Seq(T)}
  <2> HIDE DEF f
  <2>1. \A k \in 0..n : k < n => k + 1 \in 0..n
    BY <1>1
  <2>2. 0 \in S
    <3>1. 0 \in 0..n /\ << >> \in Seq(T)
      BY <1>1
    <3> QED BY <1>8, <3>1
  <2>3. ASSUME NEW k \in 0..n, k \in S, k < n PROVE k + 1 \in S
    BY <1>10, <2>1, <2>3
  <2> HIDE DEF S
  <2>4. \A k \in 0..n : k \in S
    BY <1>1, <2>2, <2>3, UpTo
  <2> QED BY <2>4 DEF S
<1>12. f[n] = FirstOccurrences(s) /\ f \in [0..n -> Seq(T)]
  BY <1>1, <1>2, <1>11
<1> HIDE DEF f
<1> QED BY <1>8, <1>9, <1>12 DEF n

LEMMA ByNameIsSequence ==
  ASSUME NEW S, IsFiniteSet(S), S \subseteq Nat
  PROVE  ByName(S) \in Seq(S)
<1> DEFINE key == [p \in S |-> p]
<1>1. key \in [S -> Nat] /\ \A p \in S : key[p] = p
  OBVIOUS
<1> HIDE DEF key
<1>2. PICK s \in SetToSeqs(S) : OrderedBy(s, key)
  BY <1>1, CanBeOrdered
<1>3. s \in Seq(S)
  BY SetToSeqsElements
<1>4. \A i, j \in DOMAIN s : i < j => s[i] <= s[j]
  BY <1>1, <1>2, <1>3 DEF OrderedBy
<1>5. ByName(S) \in SetToSeqs(S)
  BY <1>4 DEF ByName, Sorted, InOrder
<1> QED BY <1>5, SetToSeqsElements

\* What a collection goes through when it may.
LEMMA AuthorizedProjects ==
  ASSUME NEW allowed, IsFiniteSet(allowed), allowed \subseteq Nat,
         NEW requested, NEW U, requested \in Seq(U), NEW projects,
         projects = AuthorizeProjects(allowed, requested), projects # Refused
  PROVE  /\ \A i \in DOMAIN requested : requested[i] \in allowed
         /\ projects \in Seq(IF requested = << >> THEN allowed ELSE ToSet(requested))
<1>1. CASE requested = << >>
  <2>1. projects = ByName(allowed)
    BY <1>1 DEF AuthorizeProjects
  <2>2. projects \in Seq(allowed)
    BY <2>1, ByNameIsSequence
  <2> QED BY <1>1, <2>2
<1>2. CASE requested # << >>
  <2>1. \A i \in DOMAIN requested : requested[i] \in allowed
    BY <1>2 DEF AuthorizeProjects
  <2>2. projects = FirstOccurrences(requested)
    BY <1>2, <2>1 DEF AuthorizeProjects
  <2>3. requested \in Seq(ToSet(requested))
    BY DEF ToSet
  <2>4. PICK f \in [0..Len(requested) -> Seq(ToSet(requested))] : f[Len(requested)] = FirstOccurrences(requested)
    BY <2>3, FirstOccurrencesSteps
  <2>5. Len(requested) \in 0..Len(requested)
    OBVIOUS
  <2>6. projects \in Seq(ToSet(requested))
    BY <2>2, <2>4, <2>5
  <2> QED BY <1>2, <2>1, <2>6
<1> QED BY <1>1, <1>2

-----------------------------------------------------------------------------
(* The steps.                                                              *)

LEMMA GoesKeeps ==
  ASSUME CallsInv, AllowedInv, NEW c \in Call, Active(calls[c]), NEW k, Becomes(c, k),
         UNCHANGED <<grants, manifests, collected>>, Goes(calls[c], k)
  PROVE  AllowedInv'
<1>1. Within(calls[c])
  BY DEF AllowedInv
<1>2. Within(k) /\ Grows(calls[c], k)
  BY <1>1, GoesWithin
<1> QED BY <1>2, OneCallKeeps

LEMMA PlainKeeps ==
  ASSUME CallsInv, AllowedInv, NEW c \in Call,
         \/ FindSession(c) \/ InsertSession(c) \/ CreateCallRow(c)
         \/ LookupSession(c) \/ CloseSession(c) \/ RecordClose(c) \/ CompleteCall(c)
  PROVE  AllowedInv'
<1>1. DOMAIN calls[c] = Fields
  BY DEF CallsInv, CallsGood, Good, IsCall
<1>2. UNCHANGED <<grants, manifests, collected>>
  BY DEF FindSession, InsertSession, CreateCallRow, LookupSession, CloseSession, RecordClose,
     CompleteCall, KeepTables, tables
<1>3. Active(calls[c])
  BY DEF FindSession, InsertSession, CreateCallRow, LookupSession, CloseSession, RecordClose,
     CompleteCall, At, Active
<1>4. CASE FindSession(c)
  <2>1. \E j : Becomes(c, j) /\ Goes(calls[c], j)
    BY <1>1, <1>4, AdoptedGoes, PlaceGoes DEF FindSession
  <2> QED BY <1>2, <1>3, <2>1, GoesKeeps
<1>5. CASE InsertSession(c)
  <2>1. \E j : Becomes(c, j) /\ Goes(calls[c], j)
    BY <1>1, <1>5, AdoptedGoes, WithoutSessionGoes DEF InsertSession
  <2> QED BY <1>2, <1>3, <2>1, GoesKeeps
<1>6. CASE CreateCallRow(c)
  <2>1. \E j : Becomes(c, j) /\ Goes(calls[c], j)
    BY <1>1, <1>6, AuditedGoes DEF CreateCallRow
  <2> QED BY <1>2, <1>3, <2>1, GoesKeeps
<1>7. CASE LookupSession(c)
  <2>1. \E j : Becomes(c, j) /\ Goes(calls[c], j)
    BY <1>1, <1>7, ReturnsGoes, SessionSetGoes DEF LookupSession
  <2> QED BY <1>2, <1>3, <2>1, GoesKeeps
<1>8. CASE CloseSession(c)
  <2>1. \E j : Becomes(c, j) /\ Goes(calls[c], j)
    BY <1>1, <1>8, PlaceGoes DEF CloseSession
  <2> QED BY <1>2, <1>3, <2>1, GoesKeeps
<1>9. CASE RecordClose(c)
  <2>1. \E j : Becomes(c, j) /\ Goes(calls[c], j)
    BY <1>1, <1>9, ReturnsGoes DEF RecordClose
  <2> QED BY <1>2, <1>3, <2>1, GoesKeeps
<1>10. CASE CompleteCall(c)
  <2>1. \E j : Becomes(c, j) /\ Goes(calls[c], j)
    BY <1>1, <1>10, DroppedGoes DEF CompleteCall
  <2> QED BY <1>2, <1>3, <2>1, GoesKeeps
<1> QED BY <1>4, <1>5, <1>6, <1>7, <1>8, <1>9, <1>10

LEMMA BeginAllowed ==
  ASSUME AccessAssumption, CallsAssumption, CallsInv, AllowedInv, NEW c \in Call, BeginCall(c)
  PROVE  AllowedInv'
<1>1. PICK tool, client, arg, requested, keys :
        /\ requested \in Seq(Project \union {NoRow})
        /\ Becomes(c, Begun(calls[c], tool, client, arg, requested, keys))
  <2>1. << >> \in Seq(Project \union {NoRow})
    OBVIOUS
  <2>2. PICK tool, client, arg : \E requested \in (IF tool \in CollectTools THEN Requests ELSE {<< >>}) :
          \E keys : Becomes(c, Begun(calls[c], tool, client, arg, requested, keys))
    BY Zenon DEF BeginCall
  <2>3. PICK requested \in (IF tool \in CollectTools THEN Requests ELSE {<< >>}) :
          \E keys : Becomes(c, Begun(calls[c], tool, client, arg, requested, keys))
    BY <2>2, Zenon
  <2>4. requested \in Seq(Project \union {NoRow})
    BY <2>1, <2>3 DEF CallsAssumption
  <2> QED BY <2>3, <2>4
<1>2. PICK row : row = CallerRow(client, tool, arg # NoSession)
  OBVIOUS
<1>3. PICK once, ended : /\ once = AddAllowed({}, row, grants, manifests)
                         /\ ended = {s.id : s \in {t \in sessions : t.closed}}
  OBVIOUS
<1>4. PICK now : now = OfferedNow
  OBVIOUS
<1>5. PICK k : k = [calls[c] EXCEPT
        !.pc = "authenticate", !.tool = tool, !.client = client, !.arg = arg,
        !.requested = requested, !.keys = keys, !.allowedOnce = once,
        !.offered = now, !.closedBefore = ended]
  OBVIOUS
<1>6. Becomes(c, k)
  BY <1>1, <1>2, <1>3, <1>4, <1>5 DEF Begun
<1>7. DOMAIN calls[c] = Fields
  BY DEF CallsInv, CallsGood, Good, IsCall
<1>8. /\ k.pc = "authenticate" /\ k.tool = tool /\ k.client = client /\ k.arg = arg
      /\ k.requested = requested /\ k.allowedOnce = once /\ k.offered = now
      /\ k.allowed = calls[c].allowed /\ k.loaded = calls[c].loaded
  BY <1>5, <1>7 DEF Fields
<1>9. calls[c].pc = "idle" /\ UNCHANGED <<grants, manifests, collected>>
  BY DEF BeginCall, At, KeepTables, tables
<1>10. calls[c].allowed = {} /\ calls[c].loaded = NoManifests
  BY <1>9 DEF AllowedInv, Within
<1>11. Counted(k)
  <2>1. /\ row # NoRow => grants[row] \subseteq once
        /\ AllowedProjects(once, manifests) \subseteq once
    BY <1>3, AddAllowedClosed
  <2> QED BY <1>2, <1>4, <1>8, <2>1 DEF Counted, Row
<1>12. ReadCounted(k)
  BY <1>8, <1>10 DEF ReadCounted, NoManifests
<1>13. Within(k)
  BY <1>1, <1>8, <1>11, <1>12 DEF Within, Authorized
<1> QED BY <1>6, <1>9, <1>13, OneCallKeeps

\* The projects are attached, and the call goes on to its session.
LEMMA AttachedWithin ==
  ASSUME NEW k, DOMAIN k = Fields, Within(k), Active(k), NEW g,
         NEW projects, projects \subseteq k.allowedOnce, projects \subseteq Project
  PROVE  Within(Named(Allowed(k, projects), g)) /\ Grows(k, Named(Allowed(k, projects), g))
<1>1. PICK order : order = ByName(projects)
  OBVIOUS
<1>2. PICK h : h = [k EXCEPT !.pc = "authenticate"]
  OBVIOUS
<1>3. PICK a : a = [k EXCEPT !.allowed = projects, !.toLoad = order]
  OBVIOUS
<1>4. a = Allowed(k, projects)
  BY <1>1, <1>3 DEF Allowed
<1>5. PICK b : b = [a EXCEPT !.pc = "authenticate"]
  OBVIOUS
<1>6. DOMAIN a = Fields /\ Asked(k, a)
  BY <1>3 DEF Fields, Asked
<1>7. /\ b.pc = "authenticate" /\ b.tool = k.tool /\ b.client = k.client /\ b.arg = k.arg
      /\ b.allowed = projects /\ b.loaded = k.loaded /\ Asked(k, b)
  BY <1>3, <1>5 DEF Fields, Asked
<1>8. Within(b)
  BY <1>7 DEF Within, Active, Asked, Counted, ReadCounted, Authorized, Row
<1>9. Goes(a, Named(a, g))
  BY <1>6, NamedGoes
<1>10. Goes(b, Named(a, g))
  <2>1. a.tool = b.tool /\ a.client = b.client /\ a.arg = b.arg /\ a.allowed = b.allowed
        /\ a.loaded = b.loaded /\ Asked(b, a)
    BY <1>3, <1>5, <1>6 DEF Fields, Asked
  <2> QED BY <1>9, <2>1 DEF Goes, Asked
<1>11. Within(Named(a, g)) /\ Grows(b, Named(a, g))
  BY <1>7, <1>8, <1>10, GoesWithin DEF Active
<1> QED BY <1>4, <1>7, <1>11 DEF Grows, Asked

LEMMA AuthenticateAllowed ==
  ASSUME CallsInv, AllowedInv, NEW c \in Call, Authenticate(c)
  PROVE  AllowedInv'
<1> DEFINE k == calls[c]
           row == Row(k)
<1>1. DOMAIN k = Fields /\ Within(k) /\ k.pc = "authenticate" /\ Active(k) /\ TablesTyped
      /\ UNCHANGED <<grants, manifests, collected>>
  BY DEF CallsInv, CallsGood, Good, IsCall, AllowedInv, Authenticate, At, KeepTables, tables, Active
<1>2. \/ Becomes(c, Ended(k, "error"))
      \/ /\ row # NoRow /\ AllProjects \in grants[row]
         /\ Becomes(c, [k EXCEPT !.pc = "expand", !.caller = row])
      \/ /\ row # NoRow /\ AllProjects \notin grants[row]
         /\ \E g \in GeneratedNames :
              Becomes(c, Named(Allowed([k EXCEPT !.caller = row], grants[row]), g))
  BY DEF Authenticate, Row
<1>3. row # NoRow => row \in Caller
  BY CallerRowIsOne DEF Row
<1> HIDE DEF row
<1>4. row # NoRow => grants[row] \subseteq k.allowedOnce /\ grants[row] \subseteq Project \union {AllProjects}
  BY <1>1, <1>3 DEF Within, Counted, TablesTyped, row
<1>5. CASE Becomes(c, Ended(k, "error"))
  BY <1>1, <1>5, EndedGoes, GoesKeeps
<1>6. CASE /\ row # NoRow /\ AllProjects \in grants[row]
           /\ Becomes(c, [k EXCEPT !.pc = "expand", !.caller = row])
  <2>1. PICK j : j = [k EXCEPT !.pc = "expand", !.caller = row]
    OBVIOUS
  <2>2. /\ j.pc = "expand" /\ j.tool = k.tool /\ j.client = k.client /\ j.arg = k.arg
        /\ j.allowed = k.allowed /\ j.loaded = k.loaded /\ Asked(k, j)
    BY <1>1, <2>1 DEF Fields, Asked
  <2>3. Within(j) /\ Grows(k, j)
    BY <1>1, <1>4, <1>6, <2>2 DEF Within, Active, Asked, Counted, ReadCounted, Authorized, Row, Grows
  <2> QED BY <1>1, <1>6, <2>1, <2>3, OneCallKeeps
<1>7. CASE /\ row # NoRow /\ AllProjects \notin grants[row]
           /\ \E g \in GeneratedNames :
                Becomes(c, Named(Allowed([k EXCEPT !.caller = row], grants[row]), g))
  <2>1. PICK g : Becomes(c, Named(Allowed([k EXCEPT !.caller = row], grants[row]), g))
    BY <1>7
  <2>2. PICK j : j = [k EXCEPT !.caller = row]
    OBVIOUS
  <2>3. /\ DOMAIN j = Fields /\ j.pc = k.pc /\ j.tool = k.tool /\ j.client = k.client /\ j.arg = k.arg
        /\ j.allowed = k.allowed /\ j.loaded = k.loaded /\ Asked(k, j)
    BY <1>1, <2>2 DEF Fields, Asked
  <2>4. Within(j) /\ Active(j)
    BY <1>1, <2>3 DEF Within, Active, Asked, Counted, ReadCounted, Authorized, Row
  <2>5. grants[row] \subseteq j.allowedOnce /\ grants[row] \subseteq Project
    BY <1>4, <1>7, <2>3 DEF Asked
  <2>6. PICK n : n = Named(Allowed(j, grants[row]), g)
    OBVIOUS
  <2>7. Within(n) /\ Grows(j, n)
    BY <2>3, <2>4, <2>5, <2>6, AttachedWithin
  <2>8. Grows(k, n)
    BY <2>3, <2>7 DEF Grows, Asked
  <2>9. Becomes(c, n)
    BY <2>1, <2>2, <2>6
  <2> QED BY <1>1, <2>7, <2>8, <2>9, OneCallKeeps
<1> QED BY <1>2, <1>5, <1>6, <1>7

LEMMA ExpandAllowed ==
  ASSUME CallsInv, AllowedInv, NEW c \in Call, ExpandAll(c)
  PROVE  AllowedInv'
<1> DEFINE k == calls[c]
<1>1. DOMAIN k = Fields /\ Within(k) /\ k.pc = "expand" /\ Active(k)
      /\ UNCHANGED <<grants, manifests, collected>>
  BY DEF CallsInv, CallsGood, Good, IsCall, AllowedInv, ExpandAll, At, KeepTables, tables, Active
<1>2. PICK projects : projects = AllowedProjects({AllProjects}, manifests)
  OBVIOUS
<1>3. PICK g : Becomes(c, Named(Allowed(k, projects), g))
  BY <1>2 DEF ExpandAll
<1>4. projects = {p \in Project : manifests[p] # NoRow}
  BY <1>2 DEF AllowedProjects
<1>5. projects \subseteq k.allowedOnce /\ projects \subseteq Project
  BY <1>1, <1>4 DEF Within, Counted, ReadCounted, AllowedProjects
<1>6. PICK n : n = Named(Allowed(k, projects), g)
  OBVIOUS
<1>7. Within(n) /\ Grows(k, n)
  BY <1>1, <1>5, <1>6, AttachedWithin
<1> QED BY <1>1, <1>3, <1>6, <1>7, OneCallKeeps

LEMMA LoadAllowed ==
  ASSUME CallsInv, AllowedInv, NEW c \in Call, LoadManifest(c)
  PROVE  AllowedInv'
<1> DEFINE k == calls[c]
<1>1. DOMAIN k = Fields /\ Within(k) /\ k.pc = "manifests" /\ Active(k) /\ TablesTyped
      /\ UNCHANGED <<grants, manifests, collected>>
  BY DEF CallsInv, CallsGood, Good, IsCall, AllowedInv, LoadManifest, At, KeepTables, tables, Active
<1>2. CASE Becomes(c, [k EXCEPT !.pc = "tool"])
  BY <1>1, <1>2, PlaceGoes, GoesKeeps
<1>3. CASE Becomes(c, [k EXCEPT !.loaded[Head(k.toLoad)] = manifests[Head(k.toLoad)],
                                !.toLoad = Tail(k.toLoad)])
  <2>1. PICK h, t : h = Head(k.toLoad) /\ t = Tail(k.toLoad)
    OBVIOUS
  <2>2. PICK l : l = [k.loaded EXCEPT ![h] = manifests[h]]
    OBVIOUS
  <2>3. PICK j : j = [k EXCEPT !.loaded = l, !.toLoad = t]
    OBVIOUS
  <2>4. j = [k EXCEPT !.loaded[Head(k.toLoad)] = manifests[Head(k.toLoad)],
                      !.toLoad = Tail(k.toLoad)]
    BY <1>1, <2>1, <2>2, <2>3 DEF Fields
  <2>5. /\ j.pc = k.pc /\ j.tool = k.tool /\ j.client = k.client /\ j.arg = k.arg
        /\ j.allowed = k.allowed /\ j.loaded = l /\ Asked(k, j)
    BY <1>1, <2>3 DEF Fields, Asked
  <2>6. DOMAIN l = Project /\ \A p \in Project : l[p] = k.loaded[p] \/ l[p] = manifests[p]
    BY <1>1, <2>2 DEF Within, ReadCounted
  <2>7. ASSUME NEW p \in Project, l[p] # NoRow, NEW x \in l[p].sources
        PROVE  <<p, x>> \in k.offered
    <3>1. CASE l[p] = k.loaded[p]
      BY <1>1, <2>7, <3>1 DEF Within, ReadCounted
    <3>2. CASE l[p] = manifests[p]
      <4>1. x \in SourceKey /\ manifests[p] # NoRow /\ x \in manifests[p].sources
        BY <1>1, <2>7, <3>2 DEF TablesTyped
      <4>2. <<p, x>> \in OfferedNow
        BY <4>1 DEF OfferedNow
      <4> QED BY <1>1, <4>2 DEF Within, Counted
    <3> QED BY <2>6, <3>1, <3>2
  <2>8. ReadCounted(j)
    BY <1>1, <2>5, <2>6, <2>7 DEF Within, ReadCounted, Asked
  <2>9. Within(j) /\ Grows(k, j)
    BY <1>1, <2>5, <2>8 DEF Within, Active, Asked, Counted, Authorized, Row, Grows
  <2> QED BY <1>1, <1>3, <2>4, <2>9, OneCallKeeps
<1> QED BY <1>2, <1>3 DEF LoadManifest

LEMMA RunToolAllowed ==
  ASSUME AccessAssumption, CallsInv, AllowedInv, NEW c \in Call, RunTool(c)
  PROVE  AllowedInv'
<1> DEFINE k == calls[c]
<1>1. DOMAIN k = Fields /\ Within(k) /\ k.pc = "tool" /\ Active(k)
      /\ UNCHANGED <<grants, manifests, collected>>
  BY DEF CallsInv, CallsGood, Good, IsCall, AllowedInv, RunTool, At, KeepTables, tables, Active
<1>2. PICK projects : projects = AuthorizeProjects(k.allowed, k.requested)
  OBVIOUS
<1>3. \/ \E reply : Becomes(c, Returns(k, reply))
      \/ Becomes(c, [k EXCEPT !.pc = "lookup"])
      \/ projects # Refused /\ Becomes(c, [k EXCEPT !.pc = "collecting", !.todo = projects])
  BY <1>2 DEF RunTool
<1>4. CASE \E reply : Becomes(c, Returns(k, reply))
  BY <1>1, <1>4, ReturnsGoes, GoesKeeps
<1>5. CASE Becomes(c, [k EXCEPT !.pc = "lookup"])
  BY <1>1, <1>5, PlaceGoes, GoesKeeps
<1>6. CASE projects # Refused /\ Becomes(c, [k EXCEPT !.pc = "collecting", !.todo = projects])
  <2>1. PICK j : j = [k EXCEPT !.pc = "collecting", !.todo = projects]
    OBVIOUS
  <2>2. /\ j.pc = "collecting" /\ j.tool = k.tool /\ j.client = k.client /\ j.arg = k.arg
        /\ j.allowed = k.allowed /\ j.loaded = k.loaded /\ j.todo = projects /\ Asked(k, j)
    BY <1>1, <2>1 DEF Fields, Asked
  <2>3. k.allowed \subseteq Project
    BY <1>1 DEF Within, ReadCounted
  <2>4. IsFiniteSet(k.allowed) /\ k.allowed \subseteq Nat
    BY <2>3, FS_Subset DEF AccessAssumption
  <2>5. k.requested \in Seq(Project \union {NoRow})
    BY <1>1 DEF Within
  <2>6. /\ \A i \in DOMAIN k.requested : k.requested[i] \in k.allowed
        /\ projects \in Seq(IF k.requested = << >> THEN k.allowed ELSE ToSet(k.requested))
    BY <1>2, <1>6, <2>4, <2>5, AuthorizedProjects
  <2>7. Authorized(j)
    BY <2>2, <2>6 DEF Authorized, Asked
  <2>8. Within(j) /\ Grows(k, j)
    BY <1>1, <2>2, <2>7 DEF Within, Active, Asked, Counted, ReadCounted, Row, Grows
  <2> QED BY <1>1, <1>6, <2>1, <2>8, OneCallKeeps
<1> QED BY <1>3, <1>4, <1>5, <1>6

LEMMA CollectAllowed ==
  ASSUME CallsInv, AllowedInv, NEW c \in Call, CollectProject(c)
  PROVE  AllowedInv'
<1> DEFINE k == calls[c]
<1>1. DOMAIN k = Fields /\ Within(k) /\ k.pc = "collecting" /\ Active(k) /\ DOMAIN calls = Call
      /\ UNCHANGED <<grants, manifests>>
  BY DEF CallsInv, CallsGood, Good, IsCall, AllowedInv, CollectProject, At, tables, Active
<1>2. PICK p, t : p = Head(k.todo) /\ t = Tail(k.todo)
  OBVIOUS
<1>3. PICK s : s = SelectSources(k.loaded[p].sources, k.keys).sources
  OBVIOUS
<1>4. PICK r : r = [call |-> c, session |-> k.session, project |-> p, sources |-> s]
  OBVIOUS
<1>5. PICK j : j = [k EXCEPT !.todo = t]
  OBVIOUS
<1>6. \/ \E reply : Becomes(c, Returns(k, reply)) /\ UNCHANGED collected
      \/ /\ k.todo # << >> /\ k.loaded[p] # NoRow
         /\ collected' = collected \union {r} /\ Becomes(c, j)
  BY <1>2, <1>3, <1>4, <1>5, Zenon DEF CollectProject
<1>7. CASE \E reply : Becomes(c, Returns(k, reply)) /\ UNCHANGED collected
  BY <1>1, <1>7, ReturnsGoes, GoesKeeps
<1>8. CASE /\ k.todo # << >> /\ k.loaded[p] # NoRow
           /\ collected' = collected \union {r} /\ Becomes(c, j)
  <2>1. /\ r.call = c /\ r.project = p /\ r.sources = s
    BY <1>4
  <2>2. PICK T : T = IF k.requested = << >> THEN k.allowed ELSE ToSet(k.requested)
    OBVIOUS
  <2>3. k.todo \in Seq(T) /\ \A i \in DOMAIN k.requested : k.requested[i] \in k.allowed
    BY <1>1, <2>2 DEF Within, Authorized
  <2>4. p \in T /\ t \in Seq(T)
    BY <1>2, <1>8, <2>3
  <2>5. p \in k.allowed /\ (k.requested = << >> \/ \E i \in DOMAIN k.requested : k.requested[i] = p)
    BY <2>2, <2>3, <2>4 DEF ToSet
  <2>6. p \in Project /\ k.allowed \subseteq k.allowedOnce
    BY <1>1, <2>5 DEF Within, ReadCounted
  <2>7. s = IF k.keys = {AllSources} THEN k.loaded[p].sources ELSE k.loaded[p].sources \intersect k.keys
    BY <1>3 DEF SelectSources
  <2>8. s \subseteq k.loaded[p].sources /\ (k.keys = {AllSources} \/ s \subseteq k.keys)
    BY <2>7
  <2>9. \A x \in s : <<p, x>> \in k.offered
    BY <1>1, <1>8, <2>6, <2>8 DEF Within, ReadCounted
  <2>10. /\ j.pc = k.pc /\ j.tool = k.tool /\ j.client = k.client /\ j.arg = k.arg
         /\ j.allowed = k.allowed /\ j.loaded = k.loaded /\ j.todo = t /\ Asked(k, j)
    BY <1>1, <1>5 DEF Fields, Asked
  <2>11. Authorized(j)
    BY <2>2, <2>3, <2>4, <2>10 DEF Authorized, Asked
  <2>12. Within(j)
    BY <1>1, <2>10, <2>11 DEF Within, Active, Asked, Counted, ReadCounted, Row
  <2>13. calls'[c] = j /\ \A d \in Call \ {c} : calls'[d] = calls[d]
    BY <1>1, <1>8 DEF Becomes
  <2>14. TablesTyped'
    BY <1>1 DEF AllowedInv, TablesTyped
  <2>15. \A d \in Call : Within(calls[d])'
    <3>1. ASSUME NEW h, Within(h) PROVE Within(h)'
      BY <1>1, <3>1 DEF Within, Active, Counted, ReadCounted, Authorized, Row, CallerRow, AllowedProjects,
         OfferedNow
    <3>2. ASSUME NEW d \in Call PROVE Within(calls[d])'
      <4>1. PICK h : h = calls'[d]
        OBVIOUS
      <4>2. Within(h)
        BY <2>12, <2>13, <4>1 DEF AllowedInv
      <4>3. Within(h)'
        BY <3>1, <4>2
      <4> QED BY <4>1, <4>3 DEF Within, Active, Counted, ReadCounted, Authorized, Row
    <3> QED BY <3>2
  <2>16. CollectedWasAllowed'
    <3> SUFFICES ASSUME NEW q \in collected'
                 PROVE  LET h == calls'[q.call]
                        IN  /\ h.requested = << >> \/ \E i \in DOMAIN h.requested : h.requested[i] = q.project
                            /\ q.project \in h.allowedOnce
                            /\ \A x \in q.sources : <<q.project, x>> \in h.offered
                            /\ h.keys = {AllSources} \/ q.sources \subseteq h.keys
                            /\ \A i \in DOMAIN h.requested : h.requested[i] \in h.allowedOnce
      BY DEF CollectedWasAllowed
    <3>1. CASE q \in collected
      <4>1. q.call \in Call
        BY <3>1 DEF CallsInv, RecordsGood
      <4>2. Asked(calls[q.call], calls'[q.call])
        BY <2>10, <2>13, <4>1 DEF Asked
      <4> QED BY <3>1, <4>2 DEF AllowedInv, CollectedWasAllowed, Asked
    <3>2. CASE q = r
      <4>1. Asked(k, calls'[q.call])
        BY <2>1, <2>10, <2>13, <3>2
      <4> QED BY <2>1, <2>3, <2>5, <2>6, <2>8, <2>9, <3>2, <4>1 DEF Asked
    <3> QED BY <1>8, <3>1, <3>2
  <2> QED BY <2>14, <2>15, <2>16 DEF AllowedInv
<1> QED BY <1>6, <1>7, <1>8

-----------------------------------------------------------------------------
(* Faults and edits again.                                                 *)

LEMMA ErrorAllowed ==
  ASSUME CallsInv, AllowedInv, NEW c \in Call, DbError(c)
  PROVE  AllowedInv'
<1> DEFINE k == calls[c]
<1>1. DOMAIN k = Fields /\ Within(k) /\ Active(k) /\ Becomes(c, AfterDbError(k))
      /\ UNCHANGED <<grants, manifests, collected>>
  BY DEF CallsInv, CallsGood, Good, IsCall, AllowedInv, DbError, tables, Active
<1>2. CASE k.pc = "manifests"
  <2>1. PICK l : l = NoManifests
    OBVIOUS
  <2>2. PICK j : j = [k EXCEPT !.pc = "tool", !.loaded = l]
    OBVIOUS
  <2>3. AfterDbError(k) = j
    BY <1>2, <2>1, <2>2 DEF AfterDbError
  <2>4. /\ j.pc = "tool" /\ j.tool = k.tool /\ j.client = k.client /\ j.arg = k.arg
        /\ j.allowed = k.allowed /\ j.loaded = NoManifests /\ Asked(k, j)
    BY <1>1, <2>1, <2>2 DEF Fields, Asked
  <2>5. Within(j) /\ Grows(k, j)
    BY <1>1, <2>4 DEF Within, Active, Asked, Counted, ReadCounted, Authorized, Row, Grows, NoManifests
  <2> QED BY <1>1, <2>3, <2>5, OneCallKeeps
<1>3. CASE k.pc # "manifests"
  <2>1. Goes(k, AfterDbError(k))
    BY <1>1, <1>3, EndedGoes, WithoutSessionGoes, ReturnsGoes, DroppedGoes DEF DbError, AfterDbError
  <2> QED BY <1>1, <2>1, GoesKeeps
<1> QED BY <1>2, <1>3

LEMMA StopAllowed ==
  ASSUME CallsInv, AllowedInv, NEW S \in SUBSET Call, Stop(S)
  PROVE  AllowedInv'
<1>1. \A d \in Call : calls'[d] = IF d \in S THEN Ended(calls[d], "cancelled") ELSE calls[d]
  BY DEF Stop
<1>2. TablesTyped' /\ UNCHANGED <<grants, manifests, collected>>
  BY DEF Stop, tables, AllowedInv, TablesTyped
<1>3. ASSUME NEW d \in Call
      PROVE  Within(calls[d])' /\ (calls[d].pc # "idle" => Grows(calls[d], calls'[d]))
  <2>1. Within(calls[d]) /\ DOMAIN calls[d] = Fields
    BY DEF AllowedInv, CallsInv, CallsGood, Good, IsCall
  <2>2. PICK h : h = calls'[d]
    OBVIOUS
  <2>3. Within(h) /\ Grows(calls[d], h)
    <3>1. CASE d \in S
      <4>1. Active(calls[d])
        BY <3>1 DEF Stop, Active
      <4>2. Goes(calls[d], h)
        BY <1>1, <2>1, <2>2, <3>1, EndedGoes
      <4> QED BY <2>1, <4>1, <4>2, GoesWithin
    <3>2. CASE d \notin S
      BY <1>1, <2>1, <2>2, <3>2 DEF Grows
    <3> QED BY <3>1, <3>2
  <2>4. Within(h)'
    BY <1>2, <2>3 DEF Within, Active, Counted, ReadCounted, Authorized, Row, CallerRow, AllowedProjects,
       OfferedNow
  <2> QED BY <2>2, <2>3, <2>4 DEF Within, Active, Counted, ReadCounted, Authorized, Row
<1> QED BY <1>2, <1>3, AllowedKeeps

\* What an operator changed counts for the calls that are under way.
LEMMA EditAllowed ==
  ASSUME AccessAssumption, CallsInv, AllowedInv, Edit, TablesTyped'
  PROVE  AllowedInv'
<1>1. collected' = collected
  BY DEF Edit
<1>2. ASSUME NEW d \in Call
      PROVE  Within(calls[d])' /\ (calls[d].pc # "idle" => Grows(calls[d], calls'[d]))
  <2>1. Within(calls[d]) /\ DOMAIN calls[d] = Fields
    BY DEF AllowedInv, CallsInv, CallsGood, Good, IsCall
  <2>2. PICK k : k = calls[d]
    OBVIOUS
  <2>3. PICK once : once = AddAllowed(k.allowedOnce, Row(k), grants', manifests')
    OBVIOUS
  <2>4. PICK now : now = OfferedNow'
    OBVIOUS
  <2>5. PICK j : j = [k EXCEPT !.allowedOnce = once, !.offered = k.offered \union now]
    OBVIOUS
  <2>6. calls'[d] = IF ~Active(k) THEN k ELSE j
    <3>1. calls'[d] = LET row == Row(k)
                      IN  IF k.pc \in {"idle", "done"} THEN k
                          ELSE [k EXCEPT
                            !.allowedOnce = AddAllowed(@, row, grants', manifests'),
                            !.offered = @ \union OfferedNow']
      BY <2>2 DEF Edit, Witnessed, Row, OfferedNow
    <3> QED BY <2>1, <2>2, <2>3, <2>4, <2>5, <3>1 DEF Active, Fields
  <2>7. CASE ~Active(k)
    <3>1. Within(k)'
      BY <2>1, <2>2, <2>7 DEF Within, Active
    <3>2. calls'[d] = k
      BY <2>6, <2>7
    <3> QED BY <2>2, <3>1, <3>2 DEF Grows, Within, Active, Counted, ReadCounted, Authorized, Row
  <2>8. CASE Active(k)
    <3>1. calls'[d] = j
      BY <2>6, <2>8
    <3>2. /\ j.pc = k.pc /\ j.tool = k.tool /\ j.client = k.client /\ j.arg = k.arg
          /\ j.allowed = k.allowed /\ j.loaded = k.loaded /\ j.todo = k.todo
          /\ j.requested = k.requested /\ j.keys = k.keys
          /\ j.allowedOnce = once /\ j.offered = k.offered \union now
      BY <2>1, <2>2, <2>5 DEF Fields
    <3>3. PICK row : row = Row(k)
      OBVIOUS
    <3>4. PICK a, m : a = grants' /\ m = manifests'
      OBVIOUS
    <3>5. once = AddAllowed(k.allowedOnce, row, a, m)
      BY <2>3, <3>3, <3>4
    <3>6. /\ k.allowedOnce \subseteq once /\ (row # NoRow => a[row] \subseteq once)
          /\ AllowedProjects(once, m) \subseteq once
      BY <3>5, AddAllowedClosed
    <3>7. Row(j) = row
      BY <3>2, <3>3 DEF Row
    <3>8. Counted(j)'
      BY <2>4, <3>2, <3>4, <3>6, <3>7 DEF Counted, Row
    <3>9. ReadCounted(j)
      BY <2>1, <2>2, <2>8, <3>2, <3>6 DEF Within, ReadCounted
    <3>10. Authorized(j)
      BY <2>1, <2>2, <2>8, <3>2 DEF Within, Authorized
    <3>11. Within(j)'
      BY <2>1, <2>2, <2>8, <3>2, <3>8, <3>9, <3>10 DEF Within, Active, ReadCounted, Authorized
    <3>12. Grows(k, j)
      BY <3>2, <3>6 DEF Grows
    <3> QED BY <2>2, <3>1, <3>11, <3>12 DEF Within, Active, Counted, ReadCounted, Authorized, Row
  <2> QED BY <2>7, <2>8
<1> QED BY <1>1, <1>2, AllowedKeeps

LEMMA TablesStay ==
  ASSUME CallsAssumption, TablesTyped,
         \/ \E k \in Caller : EditGrants(k)
         \/ \E p \in Project, f \in Files : UploadManifest(p, f) \/ UpdateManifest(p, f)
  PROVE  Edit /\ TablesTyped'
<1>1. CASE \E k \in Caller : EditGrants(k)
  <2>1. PICK k \in Caller : EditGrants(k)
    BY <1>1
  <2> QED BY <2>1 DEF EditGrants, TablesTyped, CallsAssumption
<1>2. CASE \E p \in Project, f \in Files : UploadManifest(p, f) \/ UpdateManifest(p, f)
  <2>1. PICK p \in Project, f \in Files : UploadManifest(p, f) \/ UpdateManifest(p, f)
    BY <1>2
  <2>2. PICK row : row = UpdatedRow(manifests[p], f)
    OBVIOUS
  <2>3. f.sources \subseteq SourceKey /\ row.sources = f.sources
    BY <2>2 DEF CallsAssumption, UpdatedRow
  <2>4. manifests' = [manifests EXCEPT ![p] = f] \/ manifests' = [manifests EXCEPT ![p] = row]
    BY <2>1, <2>2 DEF UploadManifest, UpdateManifest
  <2>5. grants' = grants /\ Edit
    BY <2>1 DEF UploadManifest, UpdateManifest
  <2> QED BY <2>3, <2>4, <2>5 DEF TablesTyped
<1> QED BY <1>1, <1>2

LEMMA AllowedInitial == ASSUME CallsAssumption, CallsInit PROVE AllowedInv
<1>1. TablesTyped
  BY DEF CallsInit, TablesTyped, CallsAssumption
<1>2. ASSUME NEW c \in Call PROVE Within(calls[c])
  <2>1. calls[c] = NotCalled
    BY DEF CallsInit
  <2>2. /\ NotCalled.pc = "idle" /\ NotCalled.requested = << >> /\ NotCalled.allowed = {}
        /\ NotCalled.loaded = NoManifests
    BY DEF NotCalled
  <2>3. << >> \in Seq(Project \union {NoRow})
    OBVIOUS
  <2> QED BY <2>1, <2>2, <2>3 DEF Within, Active
<1> QED BY <1>1, <1>2 DEF AllowedInv, CollectedWasAllowed, CallsInit

LEMMA AllowedStep ==
  ASSUME AccessAssumption, CallsAssumption, CallsInv, AllowedInv, [CallsNext]_callVars
  PROVE  AllowedInv'
<1>1. ASSUME NEW c \in Call, BeginCall(c) \/ CallStep(c) \/ DbError(c) PROVE AllowedInv'
  BY <1>1, BeginAllowed, AuthenticateAllowed, ExpandAllowed, PlainKeeps, LoadAllowed, RunToolAllowed,
     CollectAllowed, ErrorAllowed DEF CallStep
<1>2. ASSUME NEW S \in SUBSET Call, Stop(S) PROVE AllowedInv'
  BY <1>2, StopAllowed
<1>3. ASSUME \/ \E k \in Caller : EditGrants(k)
             \/ \E p \in Project, f \in Files : UploadManifest(p, f) \/ UpdateManifest(p, f)
      PROVE  AllowedInv'
  BY <1>3, TablesStay, EditAllowed DEF AllowedInv
<1>4. ASSUME UNCHANGED callVars PROVE AllowedInv'
  <2>1. TablesTyped' /\ UNCHANGED <<grants, manifests, collected, calls>>
    BY <1>4 DEF callVars, tables, AllowedInv, TablesTyped
  <2>2. ASSUME NEW d \in Call PROVE Within(calls[d])' /\ Grows(calls[d], calls'[d])
    <3>1. PICK h : h = calls[d]
      OBVIOUS
    <3>2. Within(h)
      BY <3>1 DEF AllowedInv
    <3>3. Within(h)'
      BY <2>1, <3>2 DEF Within, Active, Counted, ReadCounted, Authorized, Row, CallerRow,
         AllowedProjects, OfferedNow
    <3>4. calls'[d] = h
      BY <2>1, <3>1
    <3> QED BY <3>1, <3>3, <3>4 DEF Within, Active, Counted, ReadCounted, Authorized, Row, Grows
  <2> QED BY <2>1, <2>2, AllowedKeeps
<1> QED BY <1>1, <1>2, <1>3, <1>4 DEF CallsNext

\* A call collects only what it asked for, of projects its caller was allowed
\* and sources that a manifest offered at some time since it began.
THEOREM CollectedAllowed == CallsSpec => []CollectedWasAllowed
<1>1. CallsInit => AllowedInv
  BY AllowedInitial, CallsAssumption
<1>2. CallsInv /\ AllowedInv /\ [CallsNext]_callVars => AllowedInv'
  BY AllowedStep, AccessAssumption, CallsAssumption
<1>3. AllowedInv => CollectedWasAllowed
  BY DEF AllowedInv
<1> QED BY <1>1, <1>2, <1>3, CallsInvariant, PTL DEF CallsSpec

=============================================================================
