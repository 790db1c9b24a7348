----------------------- MODULE SessionSnapshotsProofs -----------------------
(***************************************************************************)
(* Theorems about SessionSnapshots, for any sessions, projects, sources    *)
(* and number of concurrent collections, any retention, and interruptions  *)
(* at any step.                                                            *)
(***************************************************************************)
EXTENDS SessionSnapshots, TLAPS

-----------------------------------------------------------------------------
(* The inductive invariant.                                                *)

\* The lock is held by the collection that works, whose number is the last taken.
OneWorks ==
  \A c \in Proc :
    /\ lock = c <=> pc[c] \in Holding
    /\ pc[c] \in Holding => run[c].number = taken /\ taken > 0
    /\ pc[c] \notin {"collect", "drain", "create", "save", "release", "detached"} => usable[c] = {}

\* A detached worker outlived its lock, and only interruptions make one.
Outlasted ==
  /\ \A c \in Proc : pc[c] = "detached" => run[c].number \in outlived
  /\ \A n \in outlived : n <= taken
  /\ interrupts = 0 => outlived = {} /\ \A c \in Proc : pc[c] \notin {"drain", "detached"}

OneDir == \A d, e \in dirs : d.session = e.session /\ d.project = e.project => d = e

\* A row has its number for itself, and only a collection that is saving has its row.
RowsNumbered ==
  /\ \A r, q \in rows : r.number = q.number => r = q
  /\ \A r \in rows : r.number <= taken
  /\ \A c \in Proc : pc[c] \in {"prepare", "collect", "drain", "create"} =>
       \A r \in rows : r.number < taken

Mine(c, x) == x.session = run[c].session /\ x.project = run[c].project

\* The row a collection is saving is a row of its project, of files it collected.
SavesItsRow ==
  \A c \in Proc : pc[c] = "save" =>
    /\ todo[c] \subseteq usable[c]
    /\ \A r \in rows : r.number = taken => Mine(c, r) /\ r.files \subseteq usable[c]

\* A working collection has its own lines in its directory, and those of workers that
\* outlived their lock.
Fresh ==
  /\ \A d \in dirs : \A k \in Source : d.content[k] <= taken
  /\ \A c \in Proc : pc[c] \in {"collect", "drain", "create", "save", "release"} =>
       \A d \in dirs : Mine(c, d) =>
         /\ \A k \in Source : d.content[k] \in {0, taken} \union outlived
         /\ \A k \in usable[c] : d.content[k] \in {taken} \union outlived

Describes(r, d) ==
  \A k \in Source :
    IF k \in r.files THEN d.content[k] = r.number ELSE d.content[k] \in {0, r.number}

\* Without interruptions only a collection at work separates rows and disk.
RowsAgree ==
  interrupts = 0 =>
    \A s \in Session, p \in Project :
      \/ \E c \in Proc : /\ pc[c] \in {"collect", "create"}
                         /\ run[c].session = s /\ run[c].project = p
      \/ \A r \in Newest(s, p), d \in DirOf(s, p) : Describes(r, d)

SessionInv ==
  /\ SessionTypeOK /\ OneWorks /\ OneDir /\ RowsNumbered /\ SavesItsRow /\ Fresh
  /\ Outlasted /\ RowsAgree /\ NeverOlderThanRow

-----------------------------------------------------------------------------
(* Types.                                                                  *)

LEMMA SessionTypeStep ==
  ASSUME SessionTypeOK, OneWorks, [SessionNext]_sessionVars
  PROVE  SessionTypeOK'
<1> USE SessionAssumption DEF SessionTypeOK, Go, Holding
<1>1. CASE UNCHANGED sessionVars \/ Tick
  <2>1. now' \in Nat
    BY <1>1 DEF sessionVars, Tick
  <2>2. UNCHANGED <<rows, folders, dirs, lock, pc, run, todo, usable, taken, interrupts, outlived>>
    BY <1>1 DEF sessionVars, Tick
  <2> QED BY <2>1, <2>2
<1>2. ASSUME NEW c \in Proc, Begin(c) PROVE SessionTypeOK'
  BY <1>2 DEF Begin, Run
<1>3. ASSUME NEW c \in Proc, Acquire(c) PROVE SessionTypeOK'
  <2>1. run' \in [Proc -> Run]
    BY <1>3 DEF Acquire, Run
  <2> QED BY <1>3, <2>1 DEF Acquire
<1>4. ASSUME NEW c \in Proc, Prepare(c) PROVE SessionTypeOK'
  <2>1. run[c].session \in Session /\ run[c].project \in Project
    BY DEF Run
  <2>2. [session |-> run[c].session, mtime |-> now] \in Folder
    BY <2>1 DEF Folder
  <2>3. [session |-> run[c].session, project |-> run[c].project, content |-> [k \in Source |-> 0]]
          \in ProjectDir
    BY <2>1 DEF ProjectDir
  <2> QED BY <1>4, <2>2, <2>3 DEF Prepare
<1>5. ASSUME NEW c \in Proc, CollectSource(c) PROVE SessionTypeOK'
  <2>1. \A d \in dirs, k \in Source : [d EXCEPT !.content[k] = run[c].number] \in ProjectDir
    BY DEF Run, ProjectDir
  <2>2. dirs' \subseteq ProjectDir
    BY <1>5, <2>1 DEF CollectSource, DirOf
  <2> QED BY <1>5, <2>2 DEF CollectSource
<1>6. ASSUME NEW c \in Proc, EndWorker(c) \/ CancelWorker(c) \/ CancelDrain(c)
      PROVE  SessionTypeOK'
  <2>1. pc' \in [Proc -> {"idle", "locking", "detached"} \union Holding]
    BY <1>6 DEF EndWorker, CancelWorker, CancelDrain
  <2>2. outlived' \subseteq Nat
    <3>1. run[c].number \in Nat
      BY DEF Run
    <3>2. outlived' \in {outlived, outlived \union {run[c].number}}
      BY <1>6 DEF EndWorker, CancelWorker, CancelDrain
    <3> QED BY <3>1, <3>2
  <2>3. lock' \in Proc \union {NoProc} /\ interrupts' \in Nat /\ taken' \in Nat /\ now' \in Nat
    BY <1>6 DEF EndWorker, CancelWorker, CancelDrain
  <2>4. UNCHANGED <<rows, folders, dirs, run, todo, usable>>
    BY <1>6 DEF EndWorker, CancelWorker, CancelDrain
  <2> QED BY <2>1, <2>2, <2>3, <2>4
<1>7. ASSUME NEW c \in Proc, CreateRow(c) PROVE SessionTypeOK'
  <2>1. run[c].number # 0
    BY <1>7 DEF CreateRow, OneWorks, Run
  <2>2. [number |-> run[c].number, session |-> run[c].session, project |-> run[c].project,
         files |-> {}] \in SessionRow
    BY <2>1 DEF Run, SessionRow
  <2> QED BY <1>7, <2>2 DEF CreateRow
<1>8. ASSUME NEW c \in Proc, SaveSource(c) PROVE SessionTypeOK'
  <2>1. \A r \in rows, k \in Source : [r EXCEPT !.files = @ \union {k}] \in SessionRow
    BY DEF SessionRow
  <2> QED BY <1>8, <2>1 DEF SaveSource
<1>9. ASSUME NEW c \in Proc, Release(c) \/ Interrupt(c) PROVE SessionTypeOK'
  <2>1. Leave(c) /\ interrupts' \in {interrupts, interrupts + 1}
    BY <1>9 DEF Release, Interrupt
  <2>2. run' = [run EXCEPT ![c].number = 0]
    BY <2>1 DEF Leave
  <2>3. [run[c] EXCEPT !.number = 0] \in Run
    BY DEF Run
  <2>4. run' \in [Proc -> Run]
    BY <2>2, <2>3
  <2>5. pc' \in [Proc -> {"idle", "locking", "detached"} \union Holding] /\ lock' \in Proc \union {NoProc}
    BY <2>1 DEF Leave
  <2>6. todo' \in [Proc -> SUBSET Source] /\ usable' \in [Proc -> SUBSET Source]
    BY <2>1 DEF Leave
  <2>7. interrupts' \in Nat
    BY <2>1
  <2>8. UNCHANGED <<rows, folders, dirs, taken, now, outlived>>
    BY <2>1 DEF Leave
  <2> QED BY <2>4, <2>5, <2>6, <2>7, <2>8
<1> QED BY <1>1, <1>2, <1>3, <1>4, <1>5, <1>6, <1>7, <1>8, <1>9 DEF SessionNext, Collecting

-----------------------------------------------------------------------------
(* Every action keeps the invariant.                                      *)

LEMMA BeginKeeps ==
  ASSUME SessionInv, SessionTypeOK', NEW c \in Proc, Begin(c)
  PROVE  SessionInv'
<1> USE DEF Go
<1>1. /\ SessionTypeOK /\ OneWorks /\ OneDir /\ RowsNumbered /\ SavesItsRow /\ Fresh
      /\ Outlasted /\ RowsAgree /\ NeverOlderThanRow
  BY DEF SessionInv
<1>2. OneWorks'
  BY <1>1, SessionAssumption DEF Begin, SessionTypeOK, OneWorks, Holding
<1>3. OneDir'
  BY <1>1, SessionAssumption DEF Begin, SessionTypeOK, OneDir
<1>4. RowsNumbered'
  BY <1>1, SessionAssumption DEF Begin, SessionTypeOK, RowsNumbered
<1>5. SavesItsRow'
  BY <1>1, SessionAssumption DEF Begin, SessionTypeOK, SavesItsRow, Mine
<1>6. Fresh'
  BY <1>1, SessionAssumption DEF Begin, SessionTypeOK, Fresh, Mine
<1>7. RowsAgree'
  BY <1>1, SessionAssumption DEF Begin, SessionTypeOK, RowsAgree, Newest, RowsOf, DirOf, Describes
<1>8. NeverOlderThanRow'
  BY <1>1, SessionAssumption DEF Begin, SessionTypeOK, NeverOlderThanRow, DirOf
<1>9. Outlasted'
  BY <1>1, SessionAssumption DEF Begin, SessionTypeOK, Outlasted
<1> QED BY <1>2, <1>3, <1>4, <1>5, <1>6, <1>7, <1>8, <1>9 DEF SessionInv

LEMMA AcquireKeeps ==
  ASSUME SessionInv, SessionTypeOK', NEW c \in Proc, Acquire(c)
  PROVE  SessionInv'
<1> USE DEF Go
<1>1. /\ SessionTypeOK /\ OneWorks /\ OneDir /\ RowsNumbered /\ SavesItsRow /\ Fresh
      /\ Outlasted /\ RowsAgree /\ NeverOlderThanRow
  BY DEF SessionInv
<1>2. /\ UNCHANGED <<rows, folders, dirs, usable, interrupts>> /\ taken \in Nat /\ taken' = taken + 1
      /\ pc[c] = "locking" /\ pc'[c] = "prepare" /\ \A d \in Proc : pc[d] \notin Holding
      /\ \A d \in Proc : d # c => pc'[d] = pc[d]
  BY <1>1, SessionAssumption DEF Acquire, SessionTypeOK, OneWorks
<1>3. OneWorks'
  BY <1>1, SessionAssumption DEF Acquire, SessionTypeOK, OneWorks, Holding
<1>4. OneDir'
  BY <1>1, SessionAssumption DEF Acquire, SessionTypeOK, OneDir
<1>5. RowsNumbered'
  <2>1. \A r \in rows : r.number \in Nat
    BY <1>1 DEF SessionTypeOK, SessionRow
  <2> QED BY <1>1, <1>2, <2>1 DEF RowsNumbered, Holding
<1>6. SavesItsRow'
  BY <1>2 DEF SavesItsRow, Holding
<1>7. Fresh'
  <2>1. \A d \in dirs, k \in Source : d.content[k] \in Nat
    BY <1>1 DEF SessionTypeOK, ProjectDir
  <2> QED BY <1>1, <1>2, <2>1 DEF Fresh, Holding
<1>8. RowsAgree'
  BY <1>1, SessionAssumption DEF Acquire, SessionTypeOK, RowsAgree, Newest, RowsOf, DirOf, Describes
<1>9. NeverOlderThanRow'
  BY <1>1, SessionAssumption DEF Acquire, SessionTypeOK, NeverOlderThanRow, DirOf
<1>10. Outlasted'
  BY <1>1, SessionAssumption DEF Acquire, SessionTypeOK, Outlasted
<1> QED BY <1>3, <1>4, <1>5, <1>6, <1>7, <1>8, <1>9, <1>10 DEF SessionInv

LEMMA PrepareKeeps ==
  ASSUME SessionInv, SessionTypeOK', NEW c \in Proc, Prepare(c)
  PROVE  SessionInv'
<1> USE DEF Go
<1>1. /\ SessionTypeOK /\ OneWorks /\ OneDir /\ RowsNumbered /\ SavesItsRow /\ Fresh
      /\ Outlasted /\ RowsAgree /\ NeverOlderThanRow
  BY DEF SessionInv
<1>2. /\ pc[c] \in {"prepare"} /\ lock = c /\ run[c].number = taken /\ taken \in Nat /\ taken > 0
      /\ \A d \in Proc : d # c => pc[d] \notin Holding /\ pc'[d] = pc[d]
      /\ UNCHANGED <<rows, run, usable, taken, interrupts, outlived>>
  BY <1>1, SessionAssumption DEF Prepare, SessionTypeOK, OneWorks, Holding
<1>3. PICK n \in ProjectDir :
        /\ Mine(c, n) /\ \A k \in Source : n.content[k] = 0
        /\ \A d \in dirs' : d = n \/ (d \in dirs /\ ~Mine(c, d))
  <2>1. PICK n : n = [session |-> run[c].session, project |-> run[c].project,
                      content |-> [k \in Source |-> 0]]
    OBVIOUS
  <2>2. n \in ProjectDir /\ Mine(c, n) /\ \A k \in Source : n.content[k] = 0
    BY <1>1, <2>1 DEF SessionTypeOK, Run, ProjectDir, Mine
  <2>3. \A d \in dirs' : d = n \/ (d \in dirs /\ d \notin DirOf(run[c].session, run[c].project))
    BY <2>1 DEF Prepare
  <2> QED BY <2>2, <2>3 DEF DirOf, Mine
<1>4. pc'[c] = "collect" /\ usable[c] = {}
  BY <1>1 DEF Prepare, SessionTypeOK, OneWorks
<1>5. OneWorks'
  BY <1>1, SessionAssumption DEF Prepare, SessionTypeOK, OneWorks, Holding
<1>6. OneDir'
  BY <1>1, <1>3 DEF OneDir, Mine
<1>7. RowsNumbered'
  BY <1>1, SessionAssumption DEF Prepare, SessionTypeOK, RowsNumbered
<1>8. SavesItsRow'
  BY <1>1, SessionAssumption DEF Prepare, SessionTypeOK, SavesItsRow, Mine
<1>9. Fresh'
  <2>1. \A d \in dirs' : \A k \in Source : d.content[k] <= taken
    BY <1>1, <1>2, <1>3 DEF Fresh
  <2>2. \A d \in dirs' : Mine(c, d) => \A k \in Source : d.content[k] = 0
    BY <1>3
  <2> QED BY <1>2, <1>4, <2>1, <2>2 DEF Fresh, Holding, Mine
<1>10. RowsAgree'
  BY <1>1, SessionAssumption DEF Prepare, SessionTypeOK, RowsAgree, Newest, RowsOf, DirOf, Describes
<1>11. NeverOlderThanRow'
  <2> SUFFICES ASSUME NEW r \in rows, NEW d \in dirs', d.session = r.session, d.project = r.project,
                      NEW k \in r.files
               PROVE  d.content[k] = 0 \/ d.content[k] >= r.number \/ d.content[k] \in outlived
    BY <1>2 DEF NeverOlderThanRow, DirOf
  <2>1. k \in Source
    BY <1>1 DEF SessionTypeOK, SessionRow
  <2> QED BY <1>1, <1>3, <2>1 DEF NeverOlderThanRow, DirOf
<1>12. Outlasted'
  BY <1>1, SessionAssumption DEF Prepare, SessionTypeOK, Outlasted
<1> QED BY <1>5, <1>6, <1>7, <1>8, <1>9, <1>10, <1>11, <1>12 DEF SessionInv

LEMMA CollectSourceKeeps ==
  ASSUME SessionInv, SessionTypeOK', NEW c \in Proc, CollectSource(c)
  PROVE  SessionInv'
<1> USE DEF Go
<1> DEFINE w == run[c].number
           Wrote(k, d, n) ==
             /\ Mine(c, d) /\ Mine(c, n) /\ dirs' = (dirs \ {d}) \union {n}
             /\ \A j \in Source : n.content[j] = IF j = k THEN w ELSE d.content[j]
             /\ usable'[c] \subseteq usable[c] \union {k}
             /\ \A e \in Proc : e # c => usable'[e] = usable[e]
<1>1. /\ SessionTypeOK /\ OneWorks /\ OneDir /\ RowsNumbered /\ SavesItsRow /\ Fresh
      /\ Outlasted /\ RowsAgree /\ NeverOlderThanRow
  BY DEF SessionInv
<1>2. /\ UNCHANGED <<rows, run, pc, lock, taken, interrupts, outlived>>
      /\ w \in Nat /\ taken \in Nat /\ w <= taken
      /\ \/ /\ pc[c] \in {"collect", "drain"} /\ w = taken
            /\ \A e \in Proc : e # c => pc[e] \notin Holding
         \/ pc[c] = "detached" /\ w \in outlived
  <2>1. w \in Nat /\ taken \in Nat
    BY <1>1 DEF SessionTypeOK, Run
  <2>2. CASE pc[c] \in {"collect", "drain"}
    BY <1>1, <2>1, <2>2, SessionAssumption DEF CollectSource, SessionTypeOK, OneWorks, Holding
  <2>3. CASE pc[c] = "detached"
    BY <1>1, <2>1, <2>3 DEF CollectSource, Outlasted
  <2> QED BY <2>2, <2>3 DEF CollectSource
<1>3. UNCHANGED <<dirs, usable>> \/ \E k \in Source, d \in dirs, n \in ProjectDir : Wrote(k, d, n)
  <2>1. CASE UNCHANGED <<dirs, usable>>
    BY <2>1
  <2>2. CASE ~UNCHANGED <<dirs, usable>>
    <3>1. PICK k \in todo[c], d \in DirOf(run[c].session, run[c].project) :
            /\ dirs' = (dirs \ {d}) \union {[d EXCEPT !.content[k] = run[c].number]}
            /\ usable' \in {usable, [usable EXCEPT ![c] = @ \union {k}]}
      BY <2>2 DEF CollectSource
    <3>2. PICK n : n = [d EXCEPT !.content[k] = run[c].number]
      OBVIOUS
    <3>3. k \in Source /\ d \in ProjectDir /\ d \in dirs /\ Mine(c, d)
      BY <1>1, <3>1 DEF SessionTypeOK, DirOf, Mine
    <3>4. n \in ProjectDir /\ Mine(c, n)
      BY <1>2, <3>2, <3>3 DEF ProjectDir, Mine
    <3>5. \A j \in Source : n.content[j] = IF j = k THEN w ELSE d.content[j]
      BY <1>2, <3>2, <3>3 DEF ProjectDir
    <3>6. usable'[c] \subseteq usable[c] \union {k} /\ \A e \in Proc : e # c => usable'[e] = usable[e]
      BY <1>1, <3>1 DEF SessionTypeOK
    <3> QED BY <3>1, <3>2, <3>3, <3>4, <3>5, <3>6
  <2> QED BY <2>1, <2>2
<1>4. OneWorks'
  <2>1. \A e \in Proc :
          pc[e] \notin {"collect", "drain", "create", "save", "release", "detached"} => e # c
    BY <1>2
  <2>2. \A e \in Proc : e # c => usable'[e] = usable[e]
    BY <1>3
  <2> QED BY <1>1, <1>2, <2>1, <2>2 DEF OneWorks
<1>5. OneDir'
  <2>1. ASSUME NEW k \in Source, NEW d \in dirs, NEW n \in ProjectDir, Wrote(k, d, n)
        PROVE  OneDir'
    BY <1>1, <2>1 DEF OneDir, Mine
  <2> QED BY <1>1, <1>3, <2>1 DEF OneDir
<1>6. RowsNumbered'
  BY <1>1, <1>2 DEF RowsNumbered
<1>7. SavesItsRow'
  BY <1>1, <1>2, SessionAssumption DEF CollectSource, SessionTypeOK, SavesItsRow, Mine
<1>8. Outlasted'
  BY <1>1, <1>2 DEF Outlasted
<1>9. Fresh'
  <2>1. CASE UNCHANGED <<dirs, usable>>
    BY <1>1, <1>2, <2>1 DEF Fresh, Mine
  <2>2. ASSUME NEW k \in Source, NEW d \in dirs, NEW n \in ProjectDir, Wrote(k, d, n)
        PROVE  Fresh'
    <3>1. \A e \in dirs' : \A j \in Source : e.content[j] <= taken
      BY <1>1, <1>2, <2>2 DEF Fresh
    <3> SUFFICES ASSUME NEW e \in Proc, NEW x \in dirs', Mine(e, x),
                        pc[e] \in {"collect", "drain", "create", "save", "release"}
                 PROVE  /\ \A j \in Source : x.content[j] \in {0, taken} \union outlived
                        /\ \A j \in usable'[e] : x.content[j] \in {taken} \union outlived
      BY <1>2, <3>1 DEF Fresh, Mine
    <3>2. w \in {taken} \union outlived /\ (e # c => w \in outlived)
      BY <1>2 DEF Holding
    <3>3. usable'[e] \subseteq Source /\ usable[e] \subseteq Source
      BY <1>1 DEF SessionTypeOK
    <3>4. CASE x # n
      <4>1. x \in dirs /\ e # c
        BY <1>1, <2>2, <3>4 DEF OneDir, Mine
      <4> QED BY <1>1, <2>2, <4>1 DEF Fresh
    <3>5. CASE x = n
      <4>1. Mine(e, d)
        BY <2>2, <3>5 DEF Mine
      <4>2. /\ \A j \in Source : d.content[j] \in {0, taken} \union outlived
            /\ \A j \in usable[e] : d.content[j] \in {taken} \union outlived
        BY <1>1, <4>1 DEF Fresh
      <4>3. usable'[e] \subseteq usable[e] \union {k}
        BY <2>2
      <4> QED BY <2>2, <3>2, <3>3, <3>5, <4>2, <4>3
    <3> QED BY <3>4, <3>5
  <2> QED BY <1>3, <2>1, <2>2
<1>10. RowsAgree'
  <2>1. CASE UNCHANGED <<dirs, usable>>
    BY <1>1, <1>2, <2>1 DEF RowsAgree, Newest, RowsOf, DirOf, Describes
  <2>2. ASSUME NEW k \in Source, NEW d \in dirs, NEW n \in ProjectDir, Wrote(k, d, n)
        PROVE  RowsAgree'
    <3> SUFFICES ASSUME interrupts = 0, NEW s \in Session, NEW p \in Project
                 PROVE  \/ \E e \in Proc : /\ pc[e] \in {"collect", "create"}
                                           /\ run[e].session = s /\ run[e].project = p
                        \/ \A r \in Newest(s, p), e \in DirOf(s, p)' : Describes(r, e)
      BY <1>2 DEF RowsAgree, Newest, RowsOf, Describes
    <3>1. CASE run[c].session = s /\ run[c].project = p
      BY <1>1, <1>2, <3>1 DEF Outlasted
    <3>2. CASE ~(run[c].session = s /\ run[c].project = p)
      <4>1. DirOf(s, p)' = DirOf(s, p)
        BY <2>2, <3>2 DEF DirOf, Mine
      <4> QED BY <1>1, <4>1 DEF RowsAgree
    <3> QED BY <3>1, <3>2
  <2> QED BY <1>3, <2>1, <2>2
<1>11. NeverOlderThanRow'
  <2>1. CASE UNCHANGED <<dirs, usable>>
    BY <1>1, <1>2, <2>1 DEF NeverOlderThanRow, DirOf
  <2>2. ASSUME NEW k \in Source, NEW d \in dirs, NEW n \in ProjectDir, Wrote(k, d, n)
        PROVE  NeverOlderThanRow'
    <3> SUFFICES ASSUME NEW r \in rows, NEW e \in dirs', e.session = r.session, e.project = r.project,
                        NEW j \in r.files
                 PROVE  e.content[j] = 0 \/ e.content[j] >= r.number \/ e.content[j] \in outlived
      BY <1>2 DEF NeverOlderThanRow, DirOf
    <3>1. j \in Source /\ r.number \in Nat /\ r.number <= taken
      BY <1>1 DEF SessionTypeOK, SessionRow, RowsNumbered
    <3>2. CASE e = n
      <4>1. d.session = r.session /\ d.project = r.project
        BY <2>2, <3>2 DEF Mine
      <4>2. d.content[j] = 0 \/ d.content[j] >= r.number \/ d.content[j] \in outlived
        BY <1>1, <4>1 DEF NeverOlderThanRow, DirOf
      <4> QED BY <1>2, <2>2, <3>1, <3>2, <4>2
    <3>3. CASE e # n
      BY <1>1, <2>2, <3>3 DEF NeverOlderThanRow, DirOf
    <3> QED BY <3>2, <3>3
  <2> QED BY <1>3, <2>1, <2>2
<1> QED BY <1>4, <1>5, <1>6, <1>7, <1>8, <1>9, <1>10, <1>11 DEF SessionInv

LEMMA EndWorkerKeeps ==
  ASSUME SessionInv, SessionTypeOK', NEW c \in Proc, EndWorker(c)
  PROVE  SessionInv'
<1> USE DEF Go
<1>1. /\ SessionTypeOK /\ OneWorks /\ OneDir /\ RowsNumbered /\ SavesItsRow /\ Fresh
      /\ Outlasted /\ RowsAgree /\ NeverOlderThanRow
  BY DEF SessionInv
<1>2. OneWorks'
  BY <1>1, SessionAssumption DEF EndWorker, SessionTypeOK, OneWorks, Holding
<1>3. OneDir'
  BY <1>1, SessionAssumption DEF EndWorker, SessionTypeOK, OneDir
<1>4. RowsNumbered'
  BY <1>1, SessionAssumption DEF EndWorker, SessionTypeOK, RowsNumbered
<1>5. SavesItsRow'
  BY <1>1, SessionAssumption DEF EndWorker, SessionTypeOK, SavesItsRow, Mine
<1>6. Fresh'
  BY <1>1, SessionAssumption DEF EndWorker, SessionTypeOK, Fresh, Mine
<1>7. RowsAgree'
  BY <1>1, SessionAssumption DEF EndWorker, SessionTypeOK, RowsAgree, Newest, RowsOf, DirOf, Describes
<1>8. NeverOlderThanRow'
  BY <1>1, SessionAssumption DEF EndWorker, SessionTypeOK, NeverOlderThanRow, DirOf
<1>9. Outlasted'
  BY <1>1, SessionAssumption DEF EndWorker, SessionTypeOK, Outlasted
<1> QED BY <1>2, <1>3, <1>4, <1>5, <1>6, <1>7, <1>8, <1>9 DEF SessionInv

LEMMA CancelWorkerKeeps ==
  ASSUME SessionInv, SessionTypeOK', NEW c \in Proc, CancelWorker(c)
  PROVE  SessionInv'
<1> USE DEF Go
<1>1. /\ SessionTypeOK /\ OneWorks /\ OneDir /\ RowsNumbered /\ SavesItsRow /\ Fresh
      /\ Outlasted /\ RowsAgree /\ NeverOlderThanRow
  BY DEF SessionInv
<1>2. OneWorks'
  BY <1>1, SessionAssumption DEF CancelWorker, SessionTypeOK, OneWorks, Holding
<1>3. OneDir'
  BY <1>1, SessionAssumption DEF CancelWorker, SessionTypeOK, OneDir
<1>4. RowsNumbered'
  BY <1>1, SessionAssumption DEF CancelWorker, SessionTypeOK, RowsNumbered
<1>5. SavesItsRow'
  BY <1>1, SessionAssumption DEF CancelWorker, SessionTypeOK, SavesItsRow, Mine
<1>6. Fresh'
  BY <1>1, SessionAssumption DEF CancelWorker, SessionTypeOK, Fresh, Mine
<1>7. RowsAgree'
  BY <1>1, SessionAssumption DEF CancelWorker, SessionTypeOK, RowsAgree, Newest, RowsOf, DirOf, Describes
<1>8. NeverOlderThanRow'
  BY <1>1, SessionAssumption DEF CancelWorker, SessionTypeOK, NeverOlderThanRow, DirOf
<1>9. Outlasted'
  BY <1>1, SessionAssumption DEF CancelWorker, SessionTypeOK, Outlasted
<1> QED BY <1>2, <1>3, <1>4, <1>5, <1>6, <1>7, <1>8, <1>9 DEF SessionInv

LEMMA CancelDrainKeeps ==
  ASSUME SessionInv, SessionTypeOK', NEW c \in Proc, CancelDrain(c)
  PROVE  SessionInv'
<1> USE DEF Go
<1>1. /\ SessionTypeOK /\ OneWorks /\ OneDir /\ RowsNumbered /\ SavesItsRow /\ Fresh
      /\ Outlasted /\ RowsAgree /\ NeverOlderThanRow
  BY DEF SessionInv
<1>2. OneWorks'
  BY <1>1, SessionAssumption DEF CancelDrain, SessionTypeOK, OneWorks, Holding
<1>3. OneDir'
  BY <1>1, SessionAssumption DEF CancelDrain, SessionTypeOK, OneDir
<1>4. RowsNumbered'
  BY <1>1, SessionAssumption DEF CancelDrain, SessionTypeOK, RowsNumbered
<1>5. SavesItsRow'
  BY <1>1, SessionAssumption DEF CancelDrain, SessionTypeOK, SavesItsRow, Mine
<1>6. Fresh'
  BY <1>1, SessionAssumption DEF CancelDrain, SessionTypeOK, Fresh, Mine
<1>7. RowsAgree'
  BY <1>1, SessionAssumption DEF CancelDrain, SessionTypeOK, RowsAgree, Newest, RowsOf, DirOf, Describes
<1>8. NeverOlderThanRow'
  BY <1>1, SessionAssumption DEF CancelDrain, SessionTypeOK, NeverOlderThanRow, DirOf
<1>9. Outlasted'
  <2>1. run[c].number = taken /\ UNCHANGED <<run, taken>>
    BY <1>1 DEF CancelDrain, OneWorks, Holding
  <2>2. interrupts' # 0 /\ taken \in Nat
    BY <1>1 DEF CancelDrain, SessionTypeOK
  <2>3. pc' = [pc EXCEPT ![c] = "detached"]
    BY DEF CancelDrain
  <2> QED BY <1>1, <2>1, <2>2, <2>3 DEF CancelDrain, SessionTypeOK, Outlasted
<1> QED BY <1>2, <1>3, <1>4, <1>5, <1>6, <1>7, <1>8, <1>9 DEF SessionInv

LEMMA CreateRowKeeps ==
  ASSUME SessionInv, SessionTypeOK', NEW c \in Proc, CreateRow(c)
  PROVE  SessionInv'
<1> USE DEF Go
<1>1. /\ SessionTypeOK /\ OneWorks /\ OneDir /\ RowsNumbered /\ SavesItsRow /\ Fresh
      /\ Outlasted /\ RowsAgree /\ NeverOlderThanRow
  BY DEF SessionInv
<1>2. /\ pc[c] \in {"create"} /\ lock = c /\ run[c].number = taken /\ taken \in Nat /\ taken > 0
      /\ \A d \in Proc : d # c => pc[d] \notin Holding /\ pc'[d] = pc[d]
      /\ UNCHANGED <<dirs, run, usable, taken, interrupts, outlived>>
  BY <1>1, SessionAssumption DEF CreateRow, SessionTypeOK, OneWorks, Holding
<1>3. PICK n \in SessionRow : /\ n.number = taken /\ Mine(c, n) /\ n.files = {}
                              /\ rows' = rows \union {n}
  <2>1. PICK n : n = [number |-> run[c].number, session |-> run[c].session,
                      project |-> run[c].project, files |-> {}]
    OBVIOUS
  <2>2. n \in SessionRow /\ n.number = taken /\ Mine(c, n) /\ n.files = {}
    BY <1>1, <1>2, <2>1 DEF SessionTypeOK, Run, SessionRow, Mine
  <2> QED BY <2>1, <2>2 DEF CreateRow
<1>4. pc'[c] = "save" /\ todo'[c] = usable[c] /\ \A r \in rows : r.number \in Nat /\ r.number < taken
  BY <1>1, <1>2 DEF CreateRow, SessionTypeOK, SessionRow, RowsNumbered
<1>5. OneWorks'
  BY <1>1, SessionAssumption DEF CreateRow, SessionTypeOK, OneWorks, Holding
<1>6. OneDir'
  BY <1>1, SessionAssumption DEF CreateRow, SessionTypeOK, OneDir
<1>7. RowsNumbered'
  BY <1>1, <1>2, <1>3, <1>4 DEF RowsNumbered, Holding
<1>8. SavesItsRow'
  BY <1>1, <1>2, <1>3, <1>4 DEF SavesItsRow, Holding, Mine
<1>9. Fresh'
  BY <1>1, SessionAssumption DEF CreateRow, SessionTypeOK, Fresh, Mine
<1>10. RowsAgree'
  <2> SUFFICES ASSUME interrupts = 0, NEW s \in Session, NEW p \in Project,
                      NEW r \in Newest(s, p)', NEW d \in DirOf(s, p)
               PROVE  Describes(r, d)
    BY <1>1, <1>2, <1>4 DEF RowsAgree, DirOf, Describes, Holding
  <2>1. CASE run[c].session = s /\ run[c].project = p
    <3>1. r = n
      BY <1>1, <1>2, <1>3, <1>4, <2>1 DEF Newest, RowsOf, Mine, RowsNumbered
    <3>2. Mine(c, d) /\ d \in dirs
      BY <2>1 DEF Mine, DirOf
    <3> QED BY <1>1, <1>2, <1>3, <3>1, <3>2 DEF Fresh, Describes, Outlasted
  <2>2. CASE ~(run[c].session = s /\ run[c].project = p)
    <3>1. r \in Newest(s, p)
      BY <1>3, <2>2 DEF Newest, RowsOf, Mine
    <3>2. \A e \in Proc : ~(pc[e] \in {"collect", "create"} /\ run[e].session = s /\ run[e].project = p)
      BY <1>2, <2>2 DEF Holding
    <3> QED BY <1>1, <3>1, <3>2 DEF RowsAgree
  <2> QED BY <2>1, <2>2
<1>11. NeverOlderThanRow'
  BY <1>1, SessionAssumption DEF CreateRow, SessionTypeOK, NeverOlderThanRow, DirOf
<1>12. Outlasted'
  BY <1>1, SessionAssumption DEF CreateRow, SessionTypeOK, Outlasted
<1> QED BY <1>5, <1>6, <1>7, <1>8, <1>9, <1>10, <1>11, <1>12 DEF SessionInv

LEMMA SaveSourceKeeps ==
  ASSUME SessionInv, SessionTypeOK', NEW c \in Proc, SaveSource(c)
  PROVE  SessionInv'
<1> USE DEF Go
<1>1. /\ SessionTypeOK /\ OneWorks /\ OneDir /\ RowsNumbered /\ SavesItsRow /\ Fresh
      /\ Outlasted /\ RowsAgree /\ NeverOlderThanRow
  BY DEF SessionInv
<1>2. /\ pc[c] \in {"save"} /\ lock = c /\ run[c].number = taken /\ taken \in Nat /\ taken > 0
      /\ \A d \in Proc : d # c => pc[d] \notin Holding /\ pc'[d] = pc[d]
      /\ UNCHANGED <<dirs, run, usable, taken, interrupts, outlived>>
  BY <1>1, SessionAssumption DEF SaveSource, SessionTypeOK, OneWorks, Holding
<1>3. \/ UNCHANGED <<rows, todo>> /\ pc'[c] = "release"
      \/ \E k \in usable[c], q \in rows, n \in SessionRow :
           /\ Mine(c, q) /\ Mine(c, n) /\ q.number = taken /\ n.number = taken
           /\ q.files \subseteq usable[c] /\ n.files = q.files \union {k}
           /\ rows' = (rows \ {q}) \union {n}
           /\ pc'[c] = "save" /\ todo'[c] \subseteq usable[c]
  <2>1. CASE Go(c, "save", "release") /\ UNCHANGED <<rows, todo>>
    BY <1>1, <2>1 DEF SessionTypeOK
  <2>2. CASE Go(c, "save", "save")
    <3>1. pc'[c] = "save" /\ pc'[c] # "release"
      BY <1>1, <2>2 DEF SessionTypeOK
    <3>2. PICK k \in todo[c], q \in rows :
            /\ q.number = run[c].number
            /\ rows' = (rows \ {q}) \union {[q EXCEPT !.files = @ \union {k}]}
            /\ todo' = [todo EXCEPT ![c] = @ \ {k}]
      BY <1>1, <2>2, <3>1 DEF SaveSource, SessionTypeOK
    <3>3. PICK n : n = [q EXCEPT !.files = @ \union {k}]
      OBVIOUS
    <3>4. /\ k \in usable[c] /\ todo[c] \subseteq usable[c] /\ k \in Source
          /\ q \in SessionRow /\ q.number = taken /\ Mine(c, q) /\ q.files \subseteq usable[c]
      BY <1>1, <1>2, <3>2 DEF SessionTypeOK, SavesItsRow
    <3>5. n \in SessionRow /\ Mine(c, n) /\ n.number = taken /\ n.files = q.files \union {k}
      BY <3>3, <3>4 DEF SessionRow, Mine
    <3>6. todo'[c] \subseteq usable[c]
      BY <1>1, <3>2, <3>4 DEF SessionTypeOK
    <3> QED BY <3>1, <3>2, <3>3, <3>4, <3>5, <3>6
  <2> QED BY <2>1, <2>2 DEF SaveSource
<1>4. OneWorks'
  BY <1>1, SessionAssumption DEF SaveSource, SessionTypeOK, OneWorks, Holding
<1>5. OneDir'
  BY <1>1, SessionAssumption DEF SaveSource, SessionTypeOK, OneDir
<1>6. RowsNumbered'
  <2>1. CASE UNCHANGED <<rows, todo>> /\ pc'[c] = "release"
    BY <1>1, <1>2, <2>1 DEF RowsNumbered, Holding
  <2>2. ASSUME NEW k \in usable[c], NEW q \in rows, NEW n \in SessionRow,
               Mine(c, q), Mine(c, n), q.number = taken, n.number = taken,
               q.files \subseteq usable[c], n.files = q.files \union {k},
               rows' = (rows \ {q}) \union {n}, pc'[c] = "save", todo'[c] \subseteq usable[c]
        PROVE  RowsNumbered'
    BY <1>1, <1>2, <2>2 DEF RowsNumbered, Holding
  <2> QED BY <1>3, <2>1, <2>2
<1>7. SavesItsRow'
  <2>1. CASE UNCHANGED <<rows, todo>> /\ pc'[c] = "release"
    BY <1>1, <1>2, <2>1 DEF SavesItsRow, Mine, Holding
  <2>2. ASSUME NEW k \in usable[c], NEW q \in rows, NEW n \in SessionRow,
               Mine(c, q), Mine(c, n), q.number = taken, n.number = taken,
               q.files \subseteq usable[c], n.files = q.files \union {k},
               rows' = (rows \ {q}) \union {n}, pc'[c] = "save", todo'[c] \subseteq usable[c]
        PROVE  SavesItsRow'
    <3>1. \A r \in rows' : r.number = taken => r = n
      BY <1>1, <2>2 DEF RowsNumbered
    <3>2. n.files \subseteq usable[c]
      BY <2>2
    <3> QED BY <1>2, <2>2, <3>1, <3>2 DEF SavesItsRow, Holding, Mine
  <2> QED BY <1>3, <2>1, <2>2
<1>8. Fresh'
  BY <1>1, SessionAssumption DEF SaveSource, SessionTypeOK, Fresh, Mine
<1>9. RowsAgree'
  <2>1. CASE UNCHANGED <<rows, todo>> /\ pc'[c] = "release"
    BY <1>1, <1>2, <2>1 DEF RowsAgree, Newest, RowsOf, DirOf, Describes, Holding
  <2>2. ASSUME NEW k \in usable[c], NEW q \in rows, NEW n \in SessionRow,
               Mine(c, q), Mine(c, n), q.number = taken, n.number = taken,
               q.files \subseteq usable[c], n.files = q.files \union {k},
               rows' = (rows \ {q}) \union {n}, pc'[c] = "save", todo'[c] \subseteq usable[c]
        PROVE  RowsAgree'
    <3> SUFFICES ASSUME interrupts = 0, NEW s \in Session, NEW p \in Project,
                        NEW r \in Newest(s, p)', NEW d \in DirOf(s, p)
                 PROVE  Describes(r, d)
      BY <1>1, <1>2, <2>2 DEF RowsAgree, DirOf, Describes, Holding
    <3>1. CASE run[c].session = s /\ run[c].project = p
      <4>1. r = n
        <5>1. /\ n \in RowsOf(s, p)' /\ r \in rows' /\ r.number >= taken
        BY <2>2, <3>1 DEF Newest, RowsOf, Mine
      <5>2. r \in rows => r.number \in Nat /\ r.number <= taken
        BY <1>1 DEF SessionTypeOK, SessionRow, RowsNumbered
      <5> QED BY <1>1, <1>2, <2>2, <5>1, <5>2 DEF RowsNumbered
      <4>2. Mine(c, d) /\ d \in dirs
        BY <3>1 DEF Mine, DirOf
      <4> QED BY <1>1, <1>2, <2>2, <4>1, <4>2 DEF Fresh, Describes, Outlasted
    <3>2. CASE ~(run[c].session = s /\ run[c].project = p)
      <4>1. r \in Newest(s, p)
        BY <2>2, <3>2 DEF Newest, RowsOf, Mine
      <4>2. \A e \in Proc : ~(pc[e] \in {"collect", "create"} /\ run[e].session = s /\ run[e].project = p)
        BY <1>2, <3>2 DEF Holding
      <4> QED BY <1>1, <4>1, <4>2 DEF RowsAgree
    <3> QED BY <3>1, <3>2
  <2> QED BY <1>3, <2>1, <2>2
<1>10. NeverOlderThanRow'
  <2>1. CASE UNCHANGED <<rows, todo>> /\ pc'[c] = "release"
    BY <1>1, <1>2, <2>1 DEF NeverOlderThanRow, DirOf, Holding
  <2>2. ASSUME NEW k \in usable[c], NEW q \in rows, NEW n \in SessionRow,
               Mine(c, q), Mine(c, n), q.number = taken, n.number = taken,
               q.files \subseteq usable[c], n.files = q.files \union {k},
               rows' = (rows \ {q}) \union {n}, pc'[c] = "save", todo'[c] \subseteq usable[c]
        PROVE  NeverOlderThanRow'
    <3>1. ASSUME NEW r \in rows', r # n PROVE r \in rows
      BY <2>2, <3>1
    <3>2. ASSUME NEW d \in DirOf(n.session, n.project), NEW j \in n.files
          PROVE  d.content[j] >= n.number \/ d.content[j] \in outlived
      <4>1. Mine(c, d) /\ d \in dirs /\ j \in usable[c]
        BY <2>2, <3>2 DEF DirOf, Mine
      <4>2. d.content[j] \in {taken} \union outlived
        BY <1>1, <1>2, <4>1 DEF Fresh
      <4> QED BY <1>2, <2>2, <4>2
    <3> QED BY <1>1, <1>2, <3>1, <3>2 DEF NeverOlderThanRow, DirOf
  <2> QED BY <1>3, <2>1, <2>2
<1>11. Outlasted'
  BY <1>1, SessionAssumption DEF SaveSource, SessionTypeOK, Outlasted
<1> QED BY <1>4, <1>5, <1>6, <1>7, <1>8, <1>9, <1>10, <1>11 DEF SessionInv

LEMMA LeavesKeeps ==
  ASSUME SessionInv, SessionTypeOK', NEW c \in Proc, Leave(c),
         (pc[c] \in {"release", "detached"} /\ UNCHANGED interrupts) \/ interrupts' = interrupts + 1
  PROVE  SessionInv'
<1> USE DEF Go
<1>1. /\ SessionTypeOK /\ OneWorks /\ OneDir /\ RowsNumbered /\ SavesItsRow /\ Fresh
      /\ Outlasted /\ RowsAgree /\ NeverOlderThanRow
  BY DEF SessionInv
<1>2. OneWorks'
  BY <1>1, SessionAssumption DEF Leave, SessionTypeOK, OneWorks, Holding
<1>3. OneDir'
  BY <1>1, SessionAssumption DEF Leave, SessionTypeOK, OneDir
<1>4. RowsNumbered'
  BY <1>1, SessionAssumption DEF Leave, SessionTypeOK, RowsNumbered
<1>5. SavesItsRow'
  BY <1>1, SessionAssumption DEF Leave, SessionTypeOK, SavesItsRow, Mine
<1>6. Fresh'
  BY <1>1, SessionAssumption DEF Leave, SessionTypeOK, Fresh, Mine
<1>7. RowsAgree'
  <2>1. CASE pc[c] \in {"release", "detached"} /\ UNCHANGED interrupts
    <3>1. \A e \in Proc : pc'[e] \in {"collect", "create", "drain"} <=> pc[e] \in {"collect", "create", "drain"}
      BY <1>1, <2>1 DEF Leave, SessionTypeOK
    <3>2. \A e \in Proc : pc[e] \in {"collect", "create", "drain"} => pc'[e] = pc[e] /\ run'[e] = run[e]
      BY <1>1, <2>1 DEF Leave, SessionTypeOK
    <3>3. UNCHANGED <<rows, dirs>>
      BY DEF Leave
    <3> QED BY <1>1, <2>1, <3>1, <3>2, <3>3 DEF RowsAgree, Newest, RowsOf, DirOf, Describes
  <2>2. CASE interrupts' = interrupts + 1
    BY <1>1, <2>2 DEF RowsAgree, SessionTypeOK
  <2> QED BY <2>1, <2>2
<1>8. NeverOlderThanRow'
  BY <1>1, SessionAssumption DEF Leave, SessionTypeOK, NeverOlderThanRow, DirOf
<1>9. Outlasted'
  BY <1>1, SessionAssumption DEF Leave, SessionTypeOK, Outlasted
<1> QED BY <1>2, <1>3, <1>4, <1>5, <1>6, <1>7, <1>8, <1>9 DEF SessionInv

-----------------------------------------------------------------------------
(* The invariant.                                                          *)

LEMMA SessionInvInit == SessionInit => SessionInv
<1> SUFFICES ASSUME SessionInit PROVE SessionInv
  OBVIOUS
<1>1. SessionTypeOK
  BY SessionAssumption DEF SessionInit, SessionTypeOK, Run, Holding
<1>2. OneWorks
  BY SessionAssumption DEF SessionInit, OneWorks, Holding
<1> QED
  BY <1>1, <1>2
  DEF SessionInit, SessionInv, Outlasted, OneDir, RowsNumbered, SavesItsRow, Fresh, RowsAgree, Newest,
      RowsOf, NeverOlderThanRow

LEMMA SessionInvStep ==
  ASSUME SessionInv, [SessionNext]_sessionVars
  PROVE  SessionInv'
<1>1. SessionTypeOK'
  BY SessionTypeStep DEF SessionInv
<1>2. CASE UNCHANGED sessionVars \/ Tick
  <2>1. UNCHANGED <<rows, folders, dirs, lock, pc, run, todo, usable, taken, interrupts, outlived>>
    BY <1>2 DEF sessionVars, Tick
  <2> QED
    BY <1>1, <2>1
    DEF SessionInv, OneWorks, Outlasted, OneDir, RowsNumbered, SavesItsRow, Mine, Fresh, RowsAgree, Newest,
        RowsOf, DirOf, Describes, NeverOlderThanRow
<1>3. ASSUME NEW c \in Proc, Begin(c) \/ Acquire(c) \/ Collecting(c) \/ CancelWorker(c)
                          \/ CancelDrain(c)
      PROVE  SessionInv'
  BY <1>1, <1>3, BeginKeeps, AcquireKeeps, PrepareKeeps, CollectSourceKeeps, EndWorkerKeeps,
     CancelWorkerKeeps, CancelDrainKeeps, CreateRowKeeps, SaveSourceKeeps
  DEF Collecting
<1>4. ASSUME NEW c \in Proc, Release(c) \/ Interrupt(c) PROVE SessionInv'
  <2>1. Leave(c) /\ ((pc[c] \in {"release", "detached"} /\ UNCHANGED interrupts) \/ interrupts' = interrupts + 1)
    BY <1>4 DEF Release, Interrupt
  <2> QED BY <1>1, <2>1, LeavesKeeps
<1> QED BY <1>2, <1>3, <1>4 DEF SessionNext

\* The inductive invariant holds of the session snapshots in every state.
THEOREM SessionInvariant == SessionSpec => []SessionInv
BY SessionInvInit, SessionInvStep, PTL DEF SessionSpec

-----------------------------------------------------------------------------
(* What session snapshots promise.                                         *)

\* While no collection was interrupted, the row a session's reader gets describes the
\* disk (log_collection.py, snapshots.py).
THEOREM RowsDescribeDisk == SessionSpec => []NewestDescribesDisk
<1>1. SessionInv => NewestDescribesDisk
  <2> SUFFICES ASSUME SessionInv, interrupts = 0, lock = NoProc,
                      NEW s \in Session, NEW p \in Project
               PROVE  \A r \in Newest(s, p), d \in DirOf(s, p) : Describes(r, d)
    BY DEF NewestDescribesDisk, Describes
  <2>1. \A c \in Proc : pc[c] \notin {"collect", "create"}
    BY SessionAssumption DEF SessionInv, OneWorks, Holding
  <2> QED BY <2>1 DEF SessionInv, RowsAgree
<1> QED BY <1>1, SessionInvariant, PTL

\* Whatever is interrupted, the file a row names is never older than the row, unless a
\* worker that outlived the lock of its cancelled collection wrote it.
THEOREM FilesNeverOlder == SessionSpec => []NeverOlderThanRow
BY SessionInvariant, PTL DEF SessionInv

\* Lines leave a session only when their project is collected into it again, by a
\* collection or by the worker it left behind, or with an idle folder.
THEOREM LinesKept == SessionSpec => LostOnlyReplacedOrIdle
<1> DEFINE Kept(d, k) ==
             d.content[k] # 0 =>
               \/ \E e \in DirOf(d.session, d.project)' : e.content[k] = d.content[k]
               \/ \E c \in Proc : Writing(c, d.session, d.project)
               \/ \E f \in folders : f.session = d.session /\ f.mtime + Retention < now
<1>1. SessionInv /\ [SessionNext]_sessionVars
        => [\A d \in dirs : \A k \in Source : Kept(d, k)]_sessionVars
  <2> SUFFICES ASSUME SessionInv, SessionNext, NEW d \in dirs, NEW k \in Source PROVE Kept(d, k)
    OBVIOUS
  <2>1. d \in dirs' => Kept(d, k)
    BY DEF DirOf
  <2>2. ASSUME NEW c \in Proc, lock = c \/ pc[c] = "detached", Mine(c, d) PROVE Kept(d, k)
    BY <2>2 DEF Mine, Writing
  <2>3. ASSUME NEW c \in Proc, Prepare(c) PROVE Kept(d, k)
    <3>1. lock = c
      BY <2>3 DEF SessionInv, OneWorks, Prepare, Go, Holding
    <3>2. CASE d \in DirOf(run[c].session, run[c].project)
      BY <2>2, <3>1, <3>2 DEF DirOf, Mine
    <3>3. CASE \E f \in ExpiredFolders : f.session = d.session
      BY <3>3 DEF ExpiredFolders
    <3>4. CASE d \notin DirOf(run[c].session, run[c].project)
               /\ ~\E f \in ExpiredFolders : f.session = d.session
      BY <2>1, <2>3, <3>4 DEF Prepare
    <3> QED BY <3>2, <3>3, <3>4
  <2>4. ASSUME NEW c \in Proc, CollectSource(c) PROVE Kept(d, k)
    <3>1. lock = c \/ pc[c] = "detached"
      BY <2>4 DEF SessionInv, OneWorks, CollectSource, Holding
    <3>2. CASE Mine(c, d)
      BY <2>2, <3>1, <3>2
    <3>3. CASE ~Mine(c, d)
      BY <2>1, <2>4, <3>3 DEF CollectSource, DirOf, Mine
    <3> QED BY <3>2, <3>3
  <2>5. ASSUME UNCHANGED dirs PROVE Kept(d, k)
    BY <2>1, <2>5
  <2>6. CASE Tick
    BY <2>5, <2>6 DEF Tick
  <2>7. ASSUME NEW c \in Proc,
               Begin(c) \/ Acquire(c) \/ EndWorker(c) \/ CreateRow(c) \/ SaveSource(c) \/ Release(c)
                 \/ CancelWorker(c) \/ CancelDrain(c) \/ Interrupt(c)
        PROVE  Kept(d, k)
    <3>1. UNCHANGED dirs
      BY <2>7 DEF Begin, Acquire, EndWorker, CreateRow, SaveSource, Release, CancelWorker,
                  CancelDrain, Interrupt, Leave
    <3> QED BY <2>5, <3>1
  <2> QED BY <2>3, <2>4, <2>6, <2>7 DEF SessionNext, Collecting
<1> QED BY <1>1, SessionInvariant, PTL DEF SessionSpec, LostOnlyReplacedOrIdle
=============================================================================
