----------------------- MODULE LogTransferSpoolProofs -----------------------
(***************************************************************************)
(* Theorems about LogTransferSpool, for any number of request threads and  *)
(* collections, any lengths of the logs, any limits, and any number of     *)
(* restarts and given-up requests.                                         *)
(***************************************************************************)
EXTENDS LogTransferSpool, SequenceTheorems, TLAPS

-----------------------------------------------------------------------------
(* The inductive invariant.                                                *)

Serving(h) == hpc[h] # "idle"

\* The lock is held by the thread that cleans up or reads.
LockHeld == \A h \in Handler : rlock = h <=> hpc[h] \in Locked

\* A thread that is not idle has a request.
Employed == \A h \in Handler : Serving(h) => job[h].client \in Client

\* A thread serves a collection that waits for it or has given up, from where the
\* collection stands, and no other thread serves that collection.
ThreadsServe ==
  \A h \in Handler : Serving(h) =>
    /\ cpc[job[h].client] \in {"asking", "failed"}
    /\ cpc[job[h].client] = "asking" => job[h].offset = Len(got[job[h].client])
    /\ \A g \in Handler : Serving(g) /\ job[g].client = job[h].client => g = h

\* The first n bytes of a log.
Bytes(n) == [i \in 1..n |-> i]

\* What a collection received is a prefix of its log, and all of it in the end.
PrefixReceived ==
  \A c \in Client :
    /\ Len(got[c]) <= logs[c] /\ got[c] = Bytes(Len(got[c]))
    /\ cpc[c] = "collected" => Len(got[c]) = logs[c]

\* A collection has one file and one transfer at most, and neither before its first
\* request.
OneEach ==
  /\ \A f, g \in files : f.id = g.id => f = g
  /\ \A t, u \in transfers : t.id = u.id => t = u
  /\ \A c \in Client : cpc[c] = "idle" => FileOf(c, TRUE) = {} /\ FileOf(c, FALSE) = {}
                                          /\ TransferOf(c) = {}

\* What a thread that creates a spool has made so far.
ThreadFiles(h) ==
  LET c == job[h].client
  IN  /\ hpc[h] \in {"create", "write", "rename", "register"} => TransferOf(c) = {}
      /\ hpc[h] = "create" => FileOf(c, TRUE) = {} /\ FileOf(c, FALSE) = {} /\ Written(h) = 0
      /\ hpc[h] \in {"write", "rename"} =>
           FileOf(c, FALSE) = {} /\ \A f \in FileOf(c, TRUE) : f.bytes = Written(h)
      /\ hpc[h] = "write" => Written(h) <= logs[c]
      /\ hpc[h] \in {"rename", "register"} => Written(h) = logs[c]

\* A file that is being written holds what its thread wrote; a spool and a transfer
\* that were completed are as long as the log.
FilesWhole ==
  /\ \A f \in files : ~f.part => f.bytes = logs[f.id]
  /\ \A t \in transfers : t.bytes = logs[t.id]
  /\ \A h \in Handler : ThreadFiles(h)

\* A page that is about to be answered lies in the log, and reaches its end unless
\* it is said to be truncated.
PageInLog ==
  \A h \in Handler : hpc[h] = "answer" =>
    LET c == job[h].client
    IN  /\ job[h].to <= logs[c]
        /\ cpc[c] = "asking" => job[h].offset <= job[h].to
        /\ ~job[h].more => job[h].to = logs[c]

\* The clean-up that a thread is in knows every transfer that a client pages.
PagedAreActive ==
  \A h \in Handler : hpc[h] \in {"spools", "parts", "page"} =>
    \A t \in transfers : t.next > 0 => t.id \in job[h].active

SpoolInv ==
  /\ SpoolTypeOK /\ Employed /\ LockHeld /\ ThreadsServe /\ PrefixReceived /\ OneEach /\ FilesWhole
  /\ PageInLog /\ PagedAreActive /\ PagedHasSpool

-----------------------------------------------------------------------------
(* Bytes.                                                                  *)

LEMMA BytesIsSeq ==
  ASSUME NEW n \in Nat
  PROVE  Bytes(n) \in Seq(Nat) /\ Len(Bytes(n)) = n /\ DOMAIN Bytes(n) = 1..n
<1>1. \A i \in 1..n : i \in Nat
  OBVIOUS
<1> QED BY <1>1, IsASeq, LenProperties DEF Bytes

LEMMA BytesGrow ==
  ASSUME NEW n \in Nat, NEW m \in Nat, n <= m
  PROVE  Bytes(n) \o [i \in 1..(m - n) |-> n + i] = Bytes(m)
<1>1. PICK k \in Nat : k = m - n
  OBVIOUS
<1> DEFINE s == Bytes(n)
           t == [i \in 1..k |-> n + i]
<1>2. s \in Seq(Nat) /\ Len(s) = n /\ \A i \in 1..n : s[i] = i
  BY BytesIsSeq DEF Bytes
<1>3. t \in [1..k -> Nat] /\ \A i \in 1..k : t[i] = n + i
  OBVIOUS
<1>4. t \in Seq(Nat) /\ Len(t) = k
  BY <1>3, LenProperties
<1>5. Bytes(m) \in Seq(Nat) /\ Len(Bytes(m)) = m /\ \A i \in 1..m : Bytes(m)[i] = i
  BY BytesIsSeq DEF Bytes
<1> HIDE DEF s, t
<1>6. /\ s \o t \in Seq(Nat) /\ Len(s \o t) = n + k
      /\ \A i \in 1..(n + k) : (s \o t)[i] = IF i <= n THEN s[i] ELSE t[i - n]
  BY <1>2, <1>4, ConcatProperties
<1>7. \A i \in 1..m : (s \o t)[i] = i
  BY <1>1, <1>2, <1>3, <1>6
<1>8. s \o t = Bytes(m)
  BY <1>1, <1>5, <1>6, <1>7, SeqEqual
<1> QED BY <1>1, <1>8 DEF s, t

-----------------------------------------------------------------------------
(* Types.                                                                  *)

\* What reading a page does to a transfer and its spool.
Answered(h, t, f, to, more) ==
  /\ job' = [job EXCEPT ![h].to = to, ![h].more = more]
  /\ transfers' = (transfers \ {t}) \union IF more THEN {[t EXCEPT !.next = to, !.last = clock]} ELSE {}
  /\ files' = IF more THEN files ELSE files \ {f}

\* A page is a sequence of bytes.
LEMMA UnitsAreBytes ==
  ASSUME NEW h \in Handler, job[h] \in Job
  PROVE  PageUnits(h) \in Seq(Nat)
<1> DEFINE n == IF job[h].offset <= job[h].to THEN job[h].to - job[h].offset ELSE 0
<1>1. job[h].to \in Nat /\ job[h].offset \in Nat
  BY DEF Job
<1>2. n \in Nat /\ 1..(job[h].to - job[h].offset) = 1..n
  BY <1>1
<1>3. PageUnits(h) = [i \in 1..n |-> job[h].offset + i]
  BY <1>2 DEF PageUnits
<1>4. \A i \in 1..n : job[h].offset + i \in Nat
  BY <1>1
<1> HIDE DEF n
<1>5. PageUnits(h) \in [1..n -> Nat]
  BY <1>3, <1>4
<1> QED BY <1>2, <1>5

\* Every variable keeps its type; that a serving thread has a request is needed for it.
THEOREM SpoolTypeCorrect == SpoolSpec => [](SpoolTypeOK /\ Employed)
<1>1. SpoolInit => SpoolTypeOK /\ Employed
  <2> SUFFICES ASSUME SpoolInit PROVE SpoolTypeOK /\ Employed
    OBVIOUS
  <2>1. NoJob \in Job
    BY DEF NoJob, Job
  <2>2. \A c \in Client : << >> \in Seq(Nat)
    OBVIOUS
  <2> QED
    BY <2>1, <2>2, SpoolAssumption DEF SpoolInit, SpoolTypeOK, Employed, Serving, HandlerStep
<1>2. SpoolTypeOK /\ Employed /\ [SpoolNext]_svars => SpoolTypeOK' /\ Employed'
  <2> SUFFICES ASSUME SpoolTypeOK, Employed, [SpoolNext]_svars PROVE SpoolTypeOK' /\ Employed'
    OBVIOUS
  <2> USE SpoolAssumption DEF SpoolTypeOK, Employed, Serving, Turn, server, counts, HandlerStep, Locked
  <2>1. CASE UNCHANGED svars
    BY <2>1 DEF svars
  <2>2. CASE SpoolTick
    BY <2>2 DEF SpoolTick
  <2>3. CASE Restart
    <3>1. NoJob \in Job
      BY DEF NoJob, Job
    <3>2. files' \subseteq File
      BY <2>3 DEF Restart
    <3> QED BY <2>3, <3>1, <3>2 DEF Restart
  <2>4. ASSUME NEW c \in Client, TimeOut(c) PROVE SpoolTypeOK' /\ Employed'
    BY <2>4 DEF TimeOut
  <2>5. ASSUME NEW c \in Client, Ask(c) PROVE SpoolTypeOK' /\ Employed'
    <3> DEFINE J == [NoJob EXCEPT !.client = c, !.new = cpc[c] = "idle", !.offset = Len(got[c])]
    <3>1. Len(got[c]) \in Nat
      BY LenProperties
    <3>2. J \in Job /\ J.client = c
      BY <3>1 DEF NoJob, Job
    <3> HIDE DEF J
    <3>3. PICK h \in Handler :
            /\ Turn(h, "idle", IF cpc[c] = "idle" THEN "create" ELSE "lock")
            /\ job' = [job EXCEPT ![h] = J]
      BY <2>5 DEF Ask, J
    <3> QED BY <2>5, <3>2, <3>3 DEF Ask
  <2>6. ASSUME NEW h \in Handler, Create(h) PROVE SpoolTypeOK' /\ Employed'
    <3>1. CASE OpenPart(h)
      <4>1. job[h].client \in Client
        BY <3>1 DEF OpenPart
      <4>2. [id |-> job[h].client, part |-> TRUE, bytes |-> 0, mtime |-> clock] \in File
        BY <4>1 DEF File
      <4> QED BY <3>1, <4>2 DEF OpenPart
    <3>2. CASE WriteChunk(h)
      <4>1. job[h].to + 1 \in Nat
        BY DEF Job
      <4>2. job' \in [Handler -> Job] /\ \A g \in Handler : job'[g].client = job[g].client
        <5>1. CASE job' = job
          BY <5>1
        <5>2. CASE job' = [job EXCEPT ![h].to = @ + 1]
          <6>1. PICK j : j = [job[h] EXCEPT !.to = job[h].to + 1]
            OBVIOUS
          <6>2. j \in Job /\ j.client = job[h].client
            BY <4>1, <6>1 DEF Job
          <6>3. job' = [job EXCEPT ![h] = j]
            BY <5>2, <6>1
          <6> QED BY <6>2, <6>3
        <5> QED BY <3>2, <5>1, <5>2 DEF WriteChunk
      <4>3. files' \subseteq File
        <5>1. ASSUME NEW f \in files, NEW g \in Touched(f)
              PROVE  [g EXCEPT !.bytes = @ + 1] \in File
          <6>1. f \in File /\ [f EXCEPT !.mtime = clock] \in File
            BY DEF File
          <6>2. g \in File
            BY <6>1 DEF Touched
          <6>3. g.bytes + 1 \in Nat
            BY <6>2 DEF File
          <6> QED BY <6>2, <6>3 DEF File
        <5> QED BY <3>2, <5>1 DEF WriteChunk, FileOf
      <4> QED BY <3>2, <4>2, <4>3 DEF WriteChunk
    <3>3. CASE ClosePart(h)
      BY <3>3 DEF ClosePart
    <3>4. CASE RenamePart(h)
      <4>1. \A f \in files : [f EXCEPT !.part = FALSE] \in File
        BY ZenonT(30) DEF File
      <4> QED BY <3>4, <4>1 DEF RenamePart, FileOf
    <3>5. CASE Register(h)
      <4>1. job[h].client \in Client /\ job[h].to \in Nat
        BY <3>5 DEF Register, Job
      <4>2. [id |-> job[h].client, next |-> 0, bytes |-> Written(h), last |-> clock] \in Transfer
        BY <4>1 DEF Transfer, Written
      <4> QED BY <3>5, <4>2 DEF Register
    <3> QED BY <2>6, <3>1, <3>2, <3>3, <3>4, <3>5 DEF Create
  <2>7. ASSUME NEW h \in Handler, TakeLock(h) \/ ExpireTransfers(h) \/ RemoveOrphans(h)
        PROVE  SpoolTypeOK' /\ Employed'
    BY <2>7 DEF TakeLock, ExpireTransfers, RemoveOrphans
  <2>8. ASSUME NEW h \in Handler, ListActive(h) PROVE SpoolTypeOK' /\ Employed'
    <3>1. {t.id : t \in transfers} \subseteq Client
      BY DEF Transfer
    <3>2. job' \in [Handler -> Job] /\ \A g \in Handler : job'[g].client = job[g].client
      <4>1. PICK j : j = [job[h] EXCEPT !.active = {t.id : t \in transfers}, !.deadline = clock]
        OBVIOUS
      <4>2. j \in Job /\ j.client = job[h].client
        BY <3>1, <4>1 DEF Job
      <4>3. job' = [job EXCEPT ![h] = j]
        BY <2>8, <4>1 DEF ListActive
      <4> QED BY <4>2, <4>3
    <3> QED BY <2>8, <3>2 DEF ListActive
  <2>9. ASSUME NEW h \in Handler, ReadPage(h) PROVE SpoolTypeOK' /\ Employed'
    <3>1. CASE Turn(h, "page", "error") /\ UNCHANGED <<job, transfers, files>>
      BY <2>9, <3>1 DEF ReadPage
    <3>2. CASE Turn(h, "page", "answer")
      <4>1. PICK t \in TransferOf(job[h].client), f \in FileOf(job[h].client, FALSE) :
              Answered(h, t, f, PageEnd(f, t.next), PageEnd(f, t.next) < t.bytes)
        BY <2>9, <3>2 DEF ReadPage, Answered
      <4>2. PICK to \in Nat : to = PageEnd(f, t.next)
        BY DEF PageEnd, TransferOf, FileOf, Transfer, File
      <4>3. Answered(h, t, f, to, TRUE) \/ Answered(h, t, f, to, FALSE)
        <5>1. CASE to < t.bytes
          BY <4>1, <4>2, <5>1 DEF Answered
        <5>2. CASE ~(to < t.bytes)
          <6>1. (to < t.bytes) = FALSE
            BY <5>2, SMT
          <6>2. Answered(h, t, f, to, to < t.bytes)
            BY <4>1, <4>2
          <6> QED BY <6>1, <6>2, Zenon
        <5> QED BY <5>1, <5>2
      <4>5. [t EXCEPT !.next = to, !.last = clock] \in Transfer
        BY <4>2 DEF TransferOf, Transfer
      <4>6. job' \in [Handler -> Job] /\ \A g \in Handler : job'[g].client = job[g].client
        <5>1. CASE job' = [job EXCEPT ![h].to = to, ![h].more = TRUE]
          <6>1. PICK j : j = [job[h] EXCEPT !.to = to, !.more = TRUE]
            OBVIOUS
          <6>2. j \in Job /\ j.client = job[h].client
            BY ZenonT(30), <4>2, <6>1 DEF Job
          <6> QED BY <5>1, <6>1, <6>2
        <5>2. CASE job' = [job EXCEPT ![h].to = to, ![h].more = FALSE]
          <6>1. PICK j : j = [job[h] EXCEPT !.to = to, !.more = FALSE]
            OBVIOUS
          <6>2. j \in Job /\ j.client = job[h].client
            BY ZenonT(30), <4>2, <6>1 DEF Job
          <6> QED BY <5>2, <6>1, <6>2
        <5> QED BY <4>3, <5>1, <5>2 DEF Answered
      <4>7. transfers' \subseteq Transfer /\ files' \subseteq File
        BY <4>3, <4>5 DEF Answered, TransferOf
      <4> QED BY <2>9, <3>2, <4>6, <4>7 DEF ReadPage
    <3> QED BY <2>9, <3>1, <3>2 DEF ReadPage
  <2>10. ASSUME NEW h \in Handler, AnswerPage(h) \/ AnswerError(h) PROVE SpoolTypeOK' /\ Employed'
    <3>1. NoJob \in Job /\ job[h] \in Job
      BY DEF NoJob, Job
    <3>2. job' \in [Handler -> Job]
      BY <2>10, <3>1 DEF AnswerPage, AnswerError
    <3>3. got' \in [Client -> Seq(Nat)]
      <4>1. PageUnits(h) \in Seq(Nat)
        BY <3>1, UnitsAreBytes
      <4>2. \A c \in Client : got[c] \o PageUnits(h) \in Seq(Nat)
        BY <4>1, ConcatProperties
      <4>3. CASE UNCHANGED got
        BY <4>3
      <4>4. CASE got' = [got EXCEPT ![job[h].client] = @ \o PageUnits(h)]
        BY <4>2, <4>4
      <4> QED BY <2>10, <4>3, <4>4 DEF AnswerPage, AnswerError
    <3>4. cpc' \in [Client -> {"idle", "asking", "paging", "collected", "failed"}]
      BY ZenonT(30), <2>10 DEF AnswerPage, AnswerError
    <3>5. \A g \in Handler : hpc'[g] # "idle" => g # h /\ hpc'[g] = hpc[g] /\ job'[g] = job[g]
      BY <2>10 DEF AnswerPage, AnswerError
    <3> QED BY SMTT(30), <2>10, <3>2, <3>3, <3>4, <3>5 DEF AnswerPage, AnswerError
  <2> QED
    BY <2>1, <2>2, <2>3, <2>4, <2>5, <2>6, <2>7, <2>8, <2>9, <2>10 DEF SpoolNext, Serve, CleanUp
<1> QED BY <1>1, <1>2, PTL DEF SpoolSpec


-----------------------------------------------------------------------------
(* Every action keeps the invariant.                                      *)

LEMMA AskKeeps ==
  ASSUME SpoolInv, SpoolTypeOK', Employed', NEW c \in Client, Ask(c)
  PROVE  SpoolInv'
<1> USE DEF Turn, server, counts
<1>1. SpoolTypeOK /\ Employed /\ LockHeld /\ ThreadsServe /\ PrefixReceived /\ OneEach
      /\ FilesWhole /\ PageInLog /\ PagedAreActive /\ PagedHasSpool
  BY DEF SpoolInv
<1>2. PICK h \in Handler :
        /\ Turn(h, "idle", IF cpc[c] = "idle" THEN "create" ELSE "lock")
        /\ job' = [job EXCEPT ![h] = [NoJob EXCEPT !.client = c, !.new = cpc[c] = "idle",
                                                   !.offset = Len(got[c])]]
  BY DEF Ask
<1>3. /\ job'[h].client = c /\ job'[h].offset = Len(got[c]) /\ job'[h].to = 0
      /\ hpc[h] = "idle" /\ hpc'[h] \in {"create", "lock"}
      /\ hpc'[h] = "create" => cpc[c] = "idle"
      /\ \A g \in Handler : g # h => job'[g] = job[g] /\ hpc'[g] = hpc[g]
  BY <1>1, <1>2 DEF SpoolTypeOK, NoJob
<1>4. /\ cpc[c] \in {"idle", "paging"} /\ cpc'[c] = "asking"
      /\ \A d \in Client : d # c => cpc'[d] = cpc[d]
      /\ UNCHANGED <<logs, server, got, counts>>
  BY <1>1 DEF Ask, SpoolTypeOK
<1>5. \A g \in Handler : Serving(g) => job[g].client \in Client /\ job[g].client # c
  BY <1>1, <1>4 DEF ThreadsServe, Employed
<1>6. LockHeld'
  BY <1>1 DEF Ask, SpoolTypeOK, LockHeld, Locked
<1>7. ThreadsServe'
  <2> SUFFICES ASSUME NEW g \in Handler, Serving(g)'
               PROVE  /\ cpc'[job'[g].client] \in {"asking", "failed"}
                      /\ cpc'[job'[g].client] = "asking" => job'[g].offset = Len(got'[job'[g].client])
                      /\ \A f \in Handler : Serving(f)' /\ job'[f].client = job'[g].client => f = g
    BY DEF ThreadsServe
  <2>1. CASE g = h
    BY <1>3, <1>4, <1>5, <2>1 DEF Serving
  <2>2. CASE g # h
    BY <1>1, <1>3, <1>4, <1>5, <2>2 DEF Serving, ThreadsServe
  <2> QED BY <2>1, <2>2
<1>8. PrefixReceived'
  BY <1>1 DEF Ask, SpoolTypeOK, PrefixReceived
<1>9. OneEach'
  BY <1>1 DEF Ask, SpoolTypeOK, OneEach, FileOf, TransferOf
<1>10. FilesWhole'
  <2>1. \A g \in Handler : g # h => job'[g] = job[g] /\ hpc'[g] = hpc[g]
    BY <1>3
  <2>2. hpc'[h] = "create" => FileOf(c, TRUE) = {} /\ FileOf(c, FALSE) = {} /\ TransferOf(c) = {}
    BY <1>1, <1>3 DEF OneEach
  <2> QED BY <1>1, <1>3, <1>4, <2>1, <2>2 DEF FilesWhole, ThreadFiles, FileOf, TransferOf, Written
<1>11. PageInLog'
  BY <1>1, <1>3, <1>4, <1>5 DEF PageInLog, Serving
<1>12. PagedAreActive'
  BY <1>1, <1>3, <1>4 DEF PagedAreActive
<1>13. PagedHasSpool'
  BY <1>1 DEF Ask, SpoolTypeOK, PagedHasSpool, FileOf
<1> QED BY <1>6, <1>7, <1>8, <1>9, <1>10, <1>11, <1>12, <1>13 DEF SpoolInv

LEMMA TimeOutKeeps ==
  ASSUME SpoolInv, SpoolTypeOK', Employed', NEW c \in Client, TimeOut(c)
  PROVE  SpoolInv'
<1> USE DEF Turn, server, counts
<1>1. SpoolTypeOK /\ Employed /\ LockHeld /\ ThreadsServe /\ PrefixReceived /\ OneEach
      /\ FilesWhole /\ PageInLog /\ PagedAreActive /\ PagedHasSpool
  BY DEF SpoolInv
<1>2. LockHeld'
  BY <1>1 DEF TimeOut, SpoolTypeOK, LockHeld, Locked
<1>3. ThreadsServe'
  BY <1>1 DEF TimeOut, SpoolTypeOK, ThreadsServe, Serving
<1>4. PrefixReceived'
  BY <1>1 DEF TimeOut, SpoolTypeOK, PrefixReceived
<1>5. OneEach'
  BY <1>1 DEF TimeOut, SpoolTypeOK, OneEach, FileOf, TransferOf
<1>6. FilesWhole'
  BY <1>1 DEF TimeOut, SpoolTypeOK, FilesWhole, ThreadFiles, FileOf, TransferOf, Written
<1>7. PageInLog'
  BY <1>1 DEF TimeOut, SpoolTypeOK, PageInLog
<1>8. PagedAreActive'
  BY <1>1 DEF TimeOut, SpoolTypeOK, PagedAreActive
<1>9. PagedHasSpool'
  BY <1>1 DEF TimeOut, SpoolTypeOK, PagedHasSpool, FileOf
<1> QED BY <1>2, <1>3, <1>4, <1>5, <1>6, <1>7, <1>8, <1>9 DEF SpoolInv

LEMMA OpenPartKeeps ==
  ASSUME SpoolInv, SpoolTypeOK', Employed', NEW h \in Handler, OpenPart(h)
  PROVE  SpoolInv'
<1> USE DEF Turn, server, counts
<1>1. SpoolTypeOK /\ Employed /\ LockHeld /\ ThreadsServe /\ PrefixReceived /\ OneEach
      /\ FilesWhole /\ PageInLog /\ PagedAreActive /\ PagedHasSpool
  BY DEF SpoolInv
<1>2. PICK c \in Client : c = job[h].client
  BY <1>1 DEF Employed, Serving, OpenPart
<1>3. /\ cpc[c] \in {"asking", "failed"}
      /\ \A g \in Handler : g # h /\ hpc[g] # "idle" => job[g].client \in Client /\ job[g].client # c
  BY <1>1, <1>2 DEF ThreadsServe, Serving, Employed, OpenPart
<1>4. \A g \in Handler : g # h => hpc'[g] = hpc[g] /\ job'[g] = job[g]
  BY <1>1 DEF SpoolTypeOK, OpenPart
<1>5. \A d \in Client : d # c => /\ FileOf(d, TRUE)' = FileOf(d, TRUE)
                                 /\ FileOf(d, FALSE)' = FileOf(d, FALSE)
                                 /\ TransferOf(d)' = TransferOf(d)
  BY <1>1, <1>2 DEF SpoolTypeOK, FileOf, TransferOf, OpenPart
<1>6. cpc' = cpc /\ logs' = logs
  BY DEF OpenPart
<1>7. LockHeld'
  BY <1>1 DEF OpenPart, SpoolTypeOK, LockHeld, Locked
<1>8. ThreadsServe'
  BY <1>1 DEF OpenPart, SpoolTypeOK, ThreadsServe, Serving
<1>9. PrefixReceived'
  BY <1>1 DEF OpenPart, SpoolTypeOK, PrefixReceived
<1>10. OneEach'
  <2>1. \A f \in files : f.id # c
    BY <1>1, <1>2 DEF FilesWhole, ThreadFiles, OpenPart, FileOf, SpoolTypeOK, File
  <2>2. \A d \in Client : cpc[d] = "idle" => d # c
    BY <1>3
  <2>3. PICK n : n = [id |-> job[h].client, part |-> TRUE, bytes |-> 0, mtime |-> clock]
    OBVIOUS
  <2>4. n.id = c /\ (files' = files \/ files' = files \union {n})
    BY <1>2, <2>3 DEF OpenPart
  <2>5. \A f, g \in files' : f.id = g.id => f = g
    BY <1>1, <2>1, <2>4 DEF OneEach
  <2> QED BY <1>1, <1>5, <1>6, <2>2, <2>5 DEF OneEach, OpenPart
<1>11. FilesWhole'
  <2>1. /\ \A f \in files' : ~f.part => f.bytes = logs'[f.id]
        /\ \A t \in transfers' : t.bytes = logs'[t.id]
    BY <1>1 DEF FilesWhole, OpenPart
  <2>2. ThreadFiles(h)'
    <3>1. ThreadFiles(h) /\ hpc[h] = "create" /\ job' = job
      BY <1>1 DEF FilesWhole, OpenPart
    <3>2. CASE hpc'[h] = "error"
      BY <3>2 DEF ThreadFiles
    <3>3. CASE /\ hpc'[h] = "write"
               /\ files' = files \union
                    {[id |-> job[h].client, part |-> TRUE, bytes |-> 0, mtime |-> clock]}
      <4>1. FileOf(c, FALSE)' = {} /\ TransferOf(c)' = {}
        BY <1>2, <3>1, <3>3 DEF ThreadFiles, FileOf, TransferOf, OpenPart
      <4>2. \A f \in FileOf(c, TRUE)' : f.bytes = 0
        BY <1>2, <3>1, <3>3 DEF ThreadFiles, FileOf
      <4>3. Written(h)' = 0 /\ 0 <= logs[c]
        BY <1>1, <3>1 DEF ThreadFiles, Written, SpoolTypeOK
      <4> QED BY <1>2, <1>6, <3>1, <3>3, <4>1, <4>2, <4>3 DEF ThreadFiles
    <3> QED BY <1>1, <3>2, <3>3 DEF OpenPart, SpoolTypeOK
  <2>3. ASSUME NEW g \in Handler, g # h PROVE ThreadFiles(g)'
    <3>1. hpc[g] # "idle" => job[g].client \in Client /\ job[g].client # c
      BY <1>3, <2>3
    <3>2. hpc'[g] = hpc[g] /\ job'[g] = job[g] /\ ThreadFiles(g)
      BY <1>1, <1>4, <2>3 DEF FilesWhole
    <3> QED BY <1>5, <1>6, <3>1, <3>2 DEF ThreadFiles, Written
  <2> QED BY <2>1, <2>2, <2>3 DEF FilesWhole
<1>12. PageInLog'
  BY <1>1 DEF OpenPart, SpoolTypeOK, PageInLog
<1>13. PagedAreActive'
  BY <1>1 DEF OpenPart, SpoolTypeOK, PagedAreActive
<1>14. PagedHasSpool'
  BY <1>1 DEF OpenPart, SpoolTypeOK, PagedHasSpool, FileOf
<1> QED BY <1>7, <1>8, <1>9, <1>10, <1>11, <1>12, <1>13, <1>14 DEF SpoolInv

LEMMA WriteChunkKeeps ==
  ASSUME SpoolInv, SpoolTypeOK', Employed', NEW h \in Handler, WriteChunk(h)
  PROVE  SpoolInv'
<1> USE DEF Turn, server, counts
<1>1. SpoolTypeOK /\ Employed /\ LockHeld /\ ThreadsServe /\ PrefixReceived /\ OneEach
      /\ FilesWhole /\ PageInLog /\ PagedAreActive /\ PagedHasSpool
  BY DEF SpoolInv
<1>2. PICK c \in Client : c = job[h].client
  BY <1>1 DEF Employed, Serving, WriteChunk
<1>3. /\ cpc[c] \in {"asking", "failed"}
      /\ \A g \in Handler : g # h /\ hpc[g] # "idle" => job[g].client \in Client /\ job[g].client # c
  BY <1>1, <1>2 DEF ThreadsServe, Serving, Employed, WriteChunk
<1>4. \A g \in Handler : g # h => hpc'[g] = hpc[g] /\ job'[g] = job[g]
  BY <1>1 DEF SpoolTypeOK, WriteChunk
<1>5. cpc' = cpc /\ logs' = logs
  BY DEF WriteChunk
<1>6. /\ hpc[h] = "write" /\ transfers' = transfers
      /\ job'[h].client = c /\ job'[h].offset = job[h].offset
      /\ \/ hpc'[h] = "error" /\ files' = files \ FileOf(c, TRUE)
         \/ /\ hpc'[h] = "write" /\ Written(h) < logs[c] /\ Written(h)' = Written(h) + 1
            /\ \/ FileOf(c, TRUE) = {} /\ files' = files
               \/ \E f \in FileOf(c, TRUE), n \in File :
                    /\ n.id = c /\ n.part = TRUE /\ n.bytes = f.bytes + 1
                    /\ files' = (files \ {f}) \union {n}
  <2>1. CASE Turn(h, "write", "error")
    BY <1>1, <1>2, <2>1 DEF WriteChunk, SpoolTypeOK
  <2>2. CASE ~Turn(h, "write", "error")
    <3>1. /\ Turn(h, "write", "write")
          /\ Written(h) < logs[c]
          /\ job' = [job EXCEPT ![h].to = @ + 1]
          /\ \/ FileOf(c, TRUE) = {} /\ UNCHANGED files
             \/ \E f \in FileOf(c, TRUE) : \E g \in Touched(f) :
                  files' = (files \ {f}) \union {[g EXCEPT !.bytes = @ + 1]}
      BY <1>2, <2>2 DEF WriteChunk
    <3>2. /\ job'[h].client = c /\ job'[h].offset = job[h].offset
          /\ Written(h)' = Written(h) + 1
      <4>1. PICK j : j = [job[h] EXCEPT !.to = job[h].to + 1]
        OBVIOUS
      <4>2. job[h] \in Job
        BY <1>1 DEF SpoolTypeOK
      <4>3. j.client = c /\ j.offset = job[h].offset /\ j.to = job[h].to + 1
        BY <1>2, <4>1, <4>2 DEF Job
      <4>4. job'[h] = j
        BY <1>1, <3>1, <4>1 DEF SpoolTypeOK
      <4> QED BY <4>3, <4>4 DEF Written
    <3>3. ASSUME NEW f \in FileOf(c, TRUE), NEW g \in Touched(f)
          PROVE  LET n == [g EXCEPT !.bytes = @ + 1]
                 IN  n \in File /\ n.id = c /\ n.part = TRUE /\ n.bytes = f.bytes + 1
      <4>1. f \in File /\ f.id = c /\ f.part = TRUE
        BY <1>1 DEF SpoolTypeOK, FileOf
      <4>2. g \in File /\ g.id = c /\ g.part = TRUE /\ g.bytes = f.bytes
        BY <1>1, <4>1 DEF Touched, File, SpoolTypeOK
      <4>3. g.bytes + 1 \in Nat
        BY <4>2 DEF File
      <4> QED BY <4>2, <4>3 DEF File
    <3>4. hpc[h] = "write" /\ hpc'[h] = "write" /\ transfers' = transfers
      BY <1>1, <3>1 DEF WriteChunk, SpoolTypeOK
    <3>5. CASE FileOf(c, TRUE) = {} /\ UNCHANGED files
      BY <3>1, <3>2, <3>4, <3>5
    <3>6. ASSUME NEW f \in FileOf(c, TRUE), NEW g \in Touched(f),
                 files' = (files \ {f}) \union {[g EXCEPT !.bytes = @ + 1]}
          PROVE  \E e \in FileOf(c, TRUE), n \in File :
                   /\ n.id = c /\ n.part = TRUE /\ n.bytes = e.bytes + 1
                   /\ files' = (files \ {e}) \union {n}
      <4>1. PICK n : n = [g EXCEPT !.bytes = @ + 1]
        OBVIOUS
      <4>2. n \in File /\ n.id = c /\ n.part = TRUE /\ n.bytes = f.bytes + 1
        BY <3>3, <4>1
      <4>3. files' = (files \ {f}) \union {n}
        BY <3>6, <4>1
      <4> QED BY <4>2, <4>3
    <3> QED BY <3>1, <3>2, <3>4, <3>5, <3>6
  <2> QED BY <2>1, <2>2
<1>7. \A d \in Client : d # c => /\ FileOf(d, TRUE)' = FileOf(d, TRUE)
                                 /\ FileOf(d, FALSE)' = FileOf(d, FALSE)
                                 /\ TransferOf(d)' = TransferOf(d)
  <2>1. \A f : f.id # c => (f \in files' <=> f \in files)
    BY <1>2, <1>6 DEF FileOf
  <2>2. \A u : u.id # c => (u \in transfers' <=> u \in transfers)
    BY <1>2, <1>6
  <2> QED BY <2>1, <2>2 DEF FileOf, TransferOf
<1>8. LockHeld'
  BY <1>1 DEF WriteChunk, SpoolTypeOK, LockHeld, Locked
<1>9. ThreadsServe'
  BY <1>1, <1>2, <1>4, <1>5, <1>6 DEF ThreadsServe, Serving, WriteChunk
<1>10. PrefixReceived'
  BY <1>1 DEF WriteChunk, SpoolTypeOK, PrefixReceived
<1>11. OneEach'
  <2>1. \A d \in Client : cpc[d] = "idle" => d # c
    BY <1>3
  <2>2. \A f, g \in files' : f.id = g.id => f = g
    BY <1>1, <1>6 DEF OneEach, FileOf
  <2> QED BY <1>1, <1>7, <1>5, <1>6, <2>1, <2>2 DEF OneEach
<1>12. FilesWhole'
  <2>1. ThreadFiles(h) /\ Written(h) \in Nat /\ logs[c] \in Nat
    BY <1>1 DEF FilesWhole, Written, SpoolTypeOK, Job
  <2>2. \A f \in files' : ~f.part => f \in files
    BY <1>6
  <2>3. ThreadFiles(h)'
    <3>1. CASE hpc'[h] = "error"
      BY <3>1 DEF ThreadFiles
    <3>2. CASE hpc'[h] = "write"
      <4>1. FileOf(c, FALSE)' = {} /\ TransferOf(c)' = {}
        BY <1>2, <1>6, <2>1, <2>2 DEF ThreadFiles, FileOf, TransferOf
      <4>2. \A f \in FileOf(c, TRUE)' : f.bytes = Written(h)'
        <5>1. \A f \in FileOf(c, TRUE) : f.bytes = Written(h)
          BY <1>2, <1>6, <2>1 DEF ThreadFiles
        <5>2. \A e, f \in FileOf(c, TRUE) : e = f
          BY <1>1 DEF OneEach, FileOf
        <5> QED BY <1>6, <3>2, <5>1, <5>2 DEF FileOf
      <4>3. Written(h)' <= logs'[c]
        BY <1>5, <1>6, <2>1, <3>2
      <4> QED BY <1>6, <3>2, <4>1, <4>2, <4>3 DEF ThreadFiles
    <3> QED BY <1>6, <3>1, <3>2
  <2>4. ASSUME NEW g \in Handler, g # h PROVE ThreadFiles(g)'
    <3>1. hpc[g] # "idle" => job[g].client \in Client /\ job[g].client # c
      BY <1>3, <2>4
    <3>2. hpc'[g] = hpc[g] /\ job'[g] = job[g] /\ ThreadFiles(g)
      BY <1>1, <1>4, <2>4 DEF FilesWhole
    <3> QED BY <1>7, <1>5, <3>1, <3>2 DEF ThreadFiles, Written
  <2> QED BY <1>1, <1>5, <1>6, <2>2, <2>3, <2>4 DEF FilesWhole
<1>13. PageInLog'
  BY <1>1 DEF WriteChunk, SpoolTypeOK, PageInLog
<1>14. PagedAreActive'
  BY <1>1 DEF WriteChunk, SpoolTypeOK, PagedAreActive
<1>15. PagedHasSpool'
  BY <1>1 DEF WriteChunk, SpoolTypeOK, PagedHasSpool, FileOf
<1> QED BY <1>8, <1>9, <1>10, <1>11, <1>12, <1>13, <1>14, <1>15 DEF SpoolInv

LEMMA ClosePartKeeps ==
  ASSUME SpoolInv, SpoolTypeOK', Employed', NEW h \in Handler, ClosePart(h)
  PROVE  SpoolInv'
<1> USE DEF Turn, server, counts
<1>1. SpoolTypeOK /\ Employed /\ LockHeld /\ ThreadsServe /\ PrefixReceived /\ OneEach
      /\ FilesWhole /\ PageInLog /\ PagedAreActive /\ PagedHasSpool
  BY DEF SpoolInv
<1>2. LockHeld'
  BY <1>1 DEF ClosePart, SpoolTypeOK, LockHeld, Locked
<1>3. ThreadsServe'
  BY <1>1 DEF ClosePart, SpoolTypeOK, ThreadsServe, Serving
<1>4. PrefixReceived'
  BY <1>1 DEF ClosePart, SpoolTypeOK, PrefixReceived
<1>5. OneEach'
  BY <1>1 DEF ClosePart, SpoolTypeOK, OneEach, FileOf, TransferOf
<1>6. FilesWhole'
  BY <1>1 DEF ClosePart, SpoolTypeOK, FilesWhole, ThreadFiles, FileOf, TransferOf, Written
<1>7. PageInLog'
  BY <1>1 DEF ClosePart, SpoolTypeOK, PageInLog
<1>8. PagedAreActive'
  BY <1>1 DEF ClosePart, SpoolTypeOK, PagedAreActive
<1>9. PagedHasSpool'
  BY <1>1 DEF ClosePart, SpoolTypeOK, PagedHasSpool, FileOf
<1> QED BY <1>2, <1>3, <1>4, <1>5, <1>6, <1>7, <1>8, <1>9 DEF SpoolInv

LEMMA RenamePartKeeps ==
  ASSUME SpoolInv, SpoolTypeOK', Employed', NEW h \in Handler, RenamePart(h)
  PROVE  SpoolInv'
<1> USE DEF Turn, server, counts
<1>1. SpoolTypeOK /\ Employed /\ LockHeld /\ ThreadsServe /\ PrefixReceived /\ OneEach
      /\ FilesWhole /\ PageInLog /\ PagedAreActive /\ PagedHasSpool
  BY DEF SpoolInv
<1>2. PICK c \in Client : c = job[h].client
  BY <1>1 DEF Employed, Serving, RenamePart
<1>3. /\ cpc[c] \in {"asking", "failed"}
      /\ \A g \in Handler : g # h /\ hpc[g] # "idle" => job[g].client \in Client /\ job[g].client # c
  BY <1>1, <1>2 DEF ThreadsServe, Serving, Employed, RenamePart
<1>4. \A g \in Handler : g # h => hpc'[g] = hpc[g] /\ job'[g] = job[g]
  BY <1>1 DEF SpoolTypeOK, RenamePart
<1>5. cpc' = cpc /\ logs' = logs
  BY DEF RenamePart
<1>6. /\ hpc[h] = "rename" /\ transfers' = transfers /\ job' = job
      /\ \/ hpc'[h] = "error" /\ files' = files
         \/ /\ hpc'[h] = "register"
            /\ \E f \in FileOf(c, TRUE), n \in File :
                 /\ n.id = c /\ ~n.part /\ n.bytes = f.bytes
                 /\ files' = (files \ {f}) \union {n}
  <2>1. CASE Turn(h, "rename", "error")
    BY <1>1, <1>2, <2>1 DEF RenamePart, SpoolTypeOK
  <2>2. CASE ~Turn(h, "rename", "error")
    <3>1. PICK f \in FileOf(c, TRUE) :
            /\ Turn(h, "rename", "register")
            /\ files' = (files \ {f}) \union {[f EXCEPT !.part = FALSE]}
      BY <1>2, <2>2 DEF RenamePart
    <3>2. PICK n : n = [f EXCEPT !.part = FALSE]
      OBVIOUS
    <3>3. f \in File /\ f.id = c
      BY <1>1 DEF SpoolTypeOK, FileOf
    <3>4. n \in File /\ n.id = c /\ n.part = FALSE /\ n.bytes = f.bytes
      BY <3>2, <3>3 DEF File
    <3> QED BY <1>1, <3>1, <3>2, <3>4 DEF RenamePart, SpoolTypeOK
  <2> QED BY <2>1, <2>2
<1>7. \A d \in Client : d # c => /\ FileOf(d, TRUE)' = FileOf(d, TRUE)
                                 /\ FileOf(d, FALSE)' = FileOf(d, FALSE)
                                 /\ TransferOf(d)' = TransferOf(d)
  <2>1. \A f : f.id # c => (f \in files' <=> f \in files)
    BY <1>2, <1>6 DEF FileOf
  <2>2. \A u : u.id # c => (u \in transfers' <=> u \in transfers)
    BY <1>2, <1>6
  <2> QED BY <2>1, <2>2 DEF FileOf, TransferOf
<1>8. LockHeld'
  BY <1>1 DEF RenamePart, SpoolTypeOK, LockHeld, Locked
<1>9. ThreadsServe'
  BY <1>1, <1>2, <1>4, <1>5, <1>6 DEF ThreadsServe, Serving, RenamePart
<1>10. PrefixReceived'
  BY <1>1 DEF RenamePart, SpoolTypeOK, PrefixReceived
<1>11. OneEach'
  <2>1. \A d \in Client : cpc[d] = "idle" => d # c
    BY <1>3
  <2>2. \A f, g \in files' : f.id = g.id => f = g
    BY <1>1, <1>6 DEF OneEach, FileOf
  <2> QED BY <1>1, <1>7, <1>5, <1>6, <2>1, <2>2 DEF OneEach
<1>12. FilesWhole'
  <2>1. ThreadFiles(h)
    BY <1>1 DEF FilesWhole
  <2>2. \A f \in files' : ~f.part => f.bytes = logs'[f.id]
    <3>1. \A f \in FileOf(c, TRUE) : f.bytes = logs[c]
      BY <1>2, <1>6, <2>1 DEF ThreadFiles
    <3> QED BY <1>1, <1>5, <1>6, <3>1 DEF FilesWhole
  <2>3. ThreadFiles(h)'
    BY <1>2, <1>5, <1>6, <2>1 DEF ThreadFiles, Written, TransferOf
  <2>4. ASSUME NEW g \in Handler, g # h PROVE ThreadFiles(g)'
    <3>1. hpc[g] # "idle" => job[g].client \in Client /\ job[g].client # c
      BY <1>3, <2>4
    <3>2. hpc'[g] = hpc[g] /\ job'[g] = job[g] /\ ThreadFiles(g)
      BY <1>1, <1>4, <2>4 DEF FilesWhole
    <3> QED BY <1>7, <1>5, <3>1, <3>2 DEF ThreadFiles, Written
  <2> QED BY <1>1, <1>5, <1>6, <2>2, <2>3, <2>4 DEF FilesWhole
<1>13. PageInLog'
  BY <1>1 DEF RenamePart, SpoolTypeOK, PageInLog
<1>14. PagedAreActive'
  BY <1>1 DEF RenamePart, SpoolTypeOK, PagedAreActive
<1>15. PagedHasSpool'
  BY <1>1 DEF RenamePart, SpoolTypeOK, PagedHasSpool, FileOf
<1> QED BY <1>8, <1>9, <1>10, <1>11, <1>12, <1>13, <1>14, <1>15 DEF SpoolInv

LEMMA RegisterKeeps ==
  ASSUME SpoolInv, SpoolTypeOK', Employed', NEW h \in Handler, Register(h)
  PROVE  SpoolInv'
<1> USE DEF Turn, server, counts
<1>1. SpoolTypeOK /\ Employed /\ LockHeld /\ ThreadsServe /\ PrefixReceived /\ OneEach
      /\ FilesWhole /\ PageInLog /\ PagedAreActive /\ PagedHasSpool
  BY DEF SpoolInv
<1>2. PICK c \in Client : c = job[h].client
  BY <1>1 DEF Employed, Serving, Register
<1>3. /\ cpc[c] \in {"asking", "failed"}
      /\ \A g \in Handler : g # h /\ hpc[g] # "idle" => job[g].client \in Client /\ job[g].client # c
  BY <1>1, <1>2 DEF ThreadsServe, Serving, Employed, Register
<1>4. \A g \in Handler : g # h =>
        /\ job'[g] = job[g]
        /\ \/ hpc'[g] = hpc[g]
           \/ hpc[g] \in {"expire", "active"} /\ hpc'[g] = "error"
  <2>1. job' = job
    BY DEF Register
  <2>2. CASE Turn(h, "register", "lock")
    BY <1>1, <2>2, <2>1 DEF SpoolTypeOK
  <2>3. ASSUME NEW f \in Handler, hpc[f] \in {"expire", "active"},
               hpc' = [hpc EXCEPT ![h] = "lock", ![f] = "error"]
        PROVE  \A g \in Handler : g # h =>
                 \/ hpc'[g] = hpc[g]
                 \/ hpc[g] \in {"expire", "active"} /\ hpc'[g] = "error"
    <3>1. PICK e : e = [hpc EXCEPT ![h] = "lock"]
      OBVIOUS
    <3>2. e \in [Handler -> HandlerStep] /\ hpc' = [e EXCEPT ![f] = "error"]
      BY <1>1, <2>3, <3>1 DEF SpoolTypeOK, HandlerStep
    <3>3. \A g \in Handler : g # h => e[g] = hpc[g]
      BY <1>1, <3>1 DEF SpoolTypeOK
    <3>4. \A g \in Handler : hpc'[g] = IF g = f THEN "error" ELSE e[g]
      BY <3>2
    <3> QED BY <2>3, <3>3, <3>4
  <2> QED BY <2>2, <2>3, <2>1 DEF Register
<1>5. cpc' = cpc /\ logs' = logs
  BY DEF Register
<1>6. /\ hpc[h] = "register" /\ hpc'[h] = "lock" /\ files' = files /\ job' = job
      /\ \E t \in Transfer :
           /\ t.id = c /\ t.next = 0 /\ t.bytes = Written(h)
           /\ transfers' = transfers \union {t}
  <2>1. PICK t : t = [id |-> job[h].client, next |-> 0, bytes |-> Written(h), last |-> clock]
    OBVIOUS
  <2>2. t \in Transfer /\ t.id = c /\ t.next = 0 /\ t.bytes = Written(h)
    BY <1>1, <1>2, <2>1 DEF SpoolTypeOK, Job, Transfer, Written
  <2> QED BY <1>1, <2>1, <2>2 DEF Register, SpoolTypeOK
<1>7. \A d \in Client : d # c => /\ FileOf(d, TRUE)' = FileOf(d, TRUE)
                                 /\ FileOf(d, FALSE)' = FileOf(d, FALSE)
                                 /\ TransferOf(d)' = TransferOf(d)
  <2>1. \A f : f.id # c => (f \in files' <=> f \in files)
    BY <1>2, <1>6 DEF FileOf
  <2>2. \A u : u.id # c => (u \in transfers' <=> u \in transfers)
    BY <1>2, <1>6
  <2> QED BY <2>1, <2>2 DEF FileOf, TransferOf
<1>8. LockHeld'
  BY SMTT(30), <1>1, SpoolAssumption DEF Register, SpoolTypeOK, LockHeld, Locked
<1>9. ThreadsServe'
  BY <1>1, <1>2, <1>4, <1>5, <1>6 DEF ThreadsServe, Serving, Register
<1>10. PrefixReceived'
  BY <1>1 DEF Register, SpoolTypeOK, PrefixReceived
<1>11. OneEach'
  <2>1. \A d \in Client : cpc[d] = "idle" => d # c
    BY <1>3
  <2>2. \A u \in transfers : u.id # c
    BY <1>1, <1>2, <1>6 DEF FilesWhole, ThreadFiles, TransferOf
  <2>3. \A u, v \in transfers' : u.id = v.id => u = v
    BY <1>1, <1>6, <2>2 DEF OneEach
  <2> QED BY <1>1, <1>7, <1>5, <1>6, <2>1, <2>3 DEF OneEach
<1>12. FilesWhole'
  <2>1. \A u \in transfers' : u.bytes = logs'[u.id]
    BY <1>1, <1>2, <1>5, <1>6 DEF FilesWhole, ThreadFiles
  <2>2. ThreadFiles(h)'
    BY <1>6 DEF ThreadFiles
  <2>3. ASSUME NEW g \in Handler, g # h PROVE ThreadFiles(g)'
    <3>1. hpc[g] # "idle" => job[g].client \in Client /\ job[g].client # c
      BY <1>3, <2>3
    <3>2. job'[g] = job[g] /\ ThreadFiles(g) /\ (hpc'[g] = hpc[g] \/ hpc'[g] = "error")
      BY <1>1, <1>4, <2>3 DEF FilesWhole
    <3> QED BY <1>7, <1>5, <3>1, <3>2 DEF ThreadFiles, Written
  <2> QED BY <1>1, <1>5, <1>6, <2>1, <2>2, <2>3 DEF FilesWhole
<1>13. PageInLog'
  BY <1>1 DEF Register, SpoolTypeOK, PageInLog
<1>14. PagedAreActive'
  BY <1>1, <1>4, <1>6 DEF PagedAreActive
<1>15. PagedHasSpool'
  BY <1>1 DEF Register, SpoolTypeOK, PagedHasSpool, FileOf
<1> QED BY <1>8, <1>9, <1>10, <1>11, <1>12, <1>13, <1>14, <1>15 DEF SpoolInv

LEMMA TakeLockKeeps ==
  ASSUME SpoolInv, SpoolTypeOK', Employed', NEW h \in Handler, TakeLock(h)
  PROVE  SpoolInv'
<1> USE DEF Turn, server, counts
<1>1. SpoolTypeOK /\ Employed /\ LockHeld /\ ThreadsServe /\ PrefixReceived /\ OneEach
      /\ FilesWhole /\ PageInLog /\ PagedAreActive /\ PagedHasSpool
  BY DEF SpoolInv
<1>2. LockHeld'
  BY <1>1, SpoolAssumption DEF TakeLock, SpoolTypeOK, LockHeld, Locked
<1>3. ThreadsServe'
  BY <1>1 DEF TakeLock, SpoolTypeOK, ThreadsServe, Serving
<1>4. PrefixReceived'
  BY <1>1 DEF TakeLock, SpoolTypeOK, PrefixReceived
<1>5. OneEach'
  BY <1>1 DEF TakeLock, SpoolTypeOK, OneEach, FileOf, TransferOf
<1>6. FilesWhole'
  BY <1>1 DEF TakeLock, SpoolTypeOK, FilesWhole, ThreadFiles, FileOf, TransferOf, Written
<1>7. PageInLog'
  BY <1>1 DEF TakeLock, SpoolTypeOK, PageInLog
<1>8. PagedAreActive'
  BY <1>1 DEF TakeLock, SpoolTypeOK, PagedAreActive
<1>9. PagedHasSpool'
  BY <1>1 DEF TakeLock, SpoolTypeOK, PagedHasSpool, FileOf
<1> QED BY <1>2, <1>3, <1>4, <1>5, <1>6, <1>7, <1>8, <1>9 DEF SpoolInv

LEMMA ExpireTransfersKeeps ==
  ASSUME SpoolInv, SpoolTypeOK', Employed', NEW h \in Handler, ExpireTransfers(h)
  PROVE  SpoolInv'
<1> USE DEF Turn, server, counts
<1>1. SpoolTypeOK /\ Employed /\ LockHeld /\ ThreadsServe /\ PrefixReceived /\ OneEach
      /\ FilesWhole /\ PageInLog /\ PagedAreActive /\ PagedHasSpool
  BY DEF SpoolInv
<1>2. LockHeld'
  BY <1>1 DEF ExpireTransfers, SpoolTypeOK, LockHeld, Locked
<1>3. ThreadsServe'
  BY <1>1 DEF ExpireTransfers, SpoolTypeOK, ThreadsServe, Serving
<1>4. PrefixReceived'
  BY <1>1 DEF ExpireTransfers, SpoolTypeOK, PrefixReceived
<1>5. OneEach'
  BY <1>1 DEF ExpireTransfers, SpoolTypeOK, OneEach, FileOf, TransferOf
<1>6. FilesWhole'
  BY <1>1 DEF ExpireTransfers, SpoolTypeOK, FilesWhole, ThreadFiles, FileOf, TransferOf, Written
<1>7. PageInLog'
  BY <1>1 DEF ExpireTransfers, SpoolTypeOK, PageInLog
<1>8. PagedAreActive'
  BY <1>1 DEF ExpireTransfers, SpoolTypeOK, PagedAreActive
<1>9. PagedHasSpool'
  <2> SUFFICES ASSUME NEW t \in transfers', t.next > 0
               PROVE  \E f \in FileOf(t.id, FALSE)' : f.bytes = t.bytes /\ t.bytes = logs'[t.id]
    BY DEF PagedHasSpool
  <2>1. t \in transfers /\ ~Stale(t.last, clock) /\ logs' = logs
    BY DEF ExpireTransfers
  <2>2. PICK f \in FileOf(t.id, FALSE) : f.bytes = t.bytes /\ t.bytes = logs[t.id]
    BY <1>1, <2>1 DEF PagedHasSpool
  <2>3. \A u \in transfers : Stale(u.last, clock) => u.id # t.id
    BY <1>1, <2>1 DEF OneEach
  <2>4. f \in files'
    BY <2>2, <2>3 DEF ExpireTransfers, FileOf
  <2> QED BY <2>1, <2>2, <2>4 DEF FileOf
<1> QED BY <1>2, <1>3, <1>4, <1>5, <1>6, <1>7, <1>8, <1>9 DEF SpoolInv

LEMMA ListActiveKeeps ==
  ASSUME SpoolInv, SpoolTypeOK', Employed', NEW h \in Handler, ListActive(h)
  PROVE  SpoolInv'
<1> USE DEF Turn, server, counts
<1>1. SpoolTypeOK /\ Employed /\ LockHeld /\ ThreadsServe /\ PrefixReceived /\ OneEach
      /\ FilesWhole /\ PageInLog /\ PagedAreActive /\ PagedHasSpool
  BY DEF SpoolInv
<1>2. LockHeld'
  BY <1>1 DEF ListActive, SpoolTypeOK, LockHeld, Locked
<1>3. ThreadsServe'
  BY <1>1 DEF ListActive, SpoolTypeOK, ThreadsServe, Serving
<1>4. PrefixReceived'
  BY <1>1 DEF ListActive, SpoolTypeOK, PrefixReceived
<1>5. OneEach'
  BY <1>1 DEF ListActive, SpoolTypeOK, OneEach, FileOf, TransferOf
<1>6. FilesWhole'
  BY <1>1 DEF ListActive, SpoolTypeOK, FilesWhole, ThreadFiles, FileOf, TransferOf, Written
<1>7. PageInLog'
  BY <1>1 DEF ListActive, SpoolTypeOK, PageInLog
<1>8. PagedAreActive'
  BY <1>1 DEF ListActive, SpoolTypeOK, PagedAreActive
<1>9. PagedHasSpool'
  BY <1>1 DEF ListActive, SpoolTypeOK, PagedHasSpool, FileOf
<1> QED BY <1>2, <1>3, <1>4, <1>5, <1>6, <1>7, <1>8, <1>9 DEF SpoolInv

LEMMA RemoveOrphansKeeps ==
  ASSUME SpoolInv, SpoolTypeOK', Employed', NEW h \in Handler, RemoveOrphans(h)
  PROVE  SpoolInv'
<1> USE DEF Turn, server, counts
<1>1. SpoolTypeOK /\ Employed /\ LockHeld /\ ThreadsServe /\ PrefixReceived /\ OneEach
      /\ FilesWhole /\ PageInLog /\ PagedAreActive /\ PagedHasSpool
  BY DEF SpoolInv
<1>2. LockHeld'
  BY <1>1 DEF RemoveOrphans, SpoolTypeOK, LockHeld, Locked
<1>3. ThreadsServe'
  BY <1>1 DEF RemoveOrphans, SpoolTypeOK, ThreadsServe, Serving
<1>4. PrefixReceived'
  BY <1>1 DEF RemoveOrphans, SpoolTypeOK, PrefixReceived
<1>5. OneEach'
  BY <1>1 DEF RemoveOrphans, SpoolTypeOK, OneEach, FileOf, TransferOf
<1>6. FilesWhole'
  BY <1>1 DEF RemoveOrphans, SpoolTypeOK, FilesWhole, ThreadFiles, FileOf, TransferOf, Written
<1>7. PageInLog'
  BY <1>1 DEF RemoveOrphans, SpoolTypeOK, PageInLog
<1>8. PagedAreActive'
  BY <1>1 DEF RemoveOrphans, SpoolTypeOK, PagedAreActive
<1>9. PagedHasSpool'
  <2> SUFFICES ASSUME NEW t \in transfers', t.next > 0
               PROVE  \E f \in FileOf(t.id, FALSE)' : f.bytes = t.bytes /\ t.bytes = logs'[t.id]
    BY DEF PagedHasSpool
  <2>1. t \in transfers /\ logs' = logs /\ hpc[h] \in {"spools", "parts"}
    BY DEF RemoveOrphans
  <2>2. PICK f \in FileOf(t.id, FALSE) : f.bytes = t.bytes /\ t.bytes = logs[t.id]
    BY <1>1, <2>1 DEF PagedHasSpool
  <2>3. t.id \in job[h].active
    BY <1>1, <2>1 DEF PagedAreActive
  <2>4. f \in files'
    BY <2>2, <2>3 DEF RemoveOrphans, FileOf, Orphans
  <2> QED BY <2>1, <2>2, <2>4 DEF FileOf
<1> QED BY <1>2, <1>3, <1>4, <1>5, <1>6, <1>7, <1>8, <1>9 DEF SpoolInv

LEMMA ReadPageKeeps ==
  ASSUME SpoolInv, SpoolTypeOK', Employed', NEW h \in Handler, ReadPage(h)
  PROVE  SpoolInv'
<1> USE DEF Turn, server, counts
<1>1. SpoolTypeOK /\ Employed /\ LockHeld /\ ThreadsServe /\ PrefixReceived /\ OneEach
      /\ FilesWhole /\ PageInLog /\ PagedAreActive /\ PagedHasSpool
  BY DEF SpoolInv
<1>2. PICK c \in Client : c = job[h].client
  BY <1>1 DEF Employed, Serving, ReadPage
<1>3. /\ cpc[c] \in {"asking", "failed"}
      /\ \A g \in Handler : g # h /\ hpc[g] # "idle" => job[g].client \in Client /\ job[g].client # c
  BY <1>1, <1>2 DEF ThreadsServe, Serving, Employed, ReadPage
<1>4. cpc' = cpc /\ logs' = logs /\ got' = got
  BY DEF ReadPage
<1>5. /\ hpc[h] = "page"
      /\ \A g \in Handler : g # h => hpc'[g] = hpc[g] /\ job'[g] = job[g]
      /\ job'[h].client = c /\ job'[h].offset = job[h].offset
      /\ \/ hpc'[h] = "error" /\ job' = job /\ transfers' = transfers /\ files' = files
         \/ /\ hpc'[h] = "answer"
            /\ \E t \in TransferOf(c), f \in FileOf(c, FALSE) :
                 LET to == PageEnd(f, t.next)
                 IN  /\ t.next = job[h].offset /\ job'[h].to = to
                     /\ \/ /\ job'[h].more = TRUE /\ files' = files
                           /\ \E n \in Transfer : /\ n.id = c /\ n.bytes = t.bytes
                                                  /\ transfers' = (transfers \ {t}) \union {n}
                        \/ /\ job'[h].more = FALSE /\ ~(to < t.bytes)
                           /\ files' = files \ {f} /\ transfers' = transfers \ {t}
  <2>1. CASE Turn(h, "page", "error") /\ UNCHANGED <<job, transfers, files>>
    BY <1>1, <1>2, <2>1 DEF SpoolTypeOK
  <2>2. CASE Turn(h, "page", "answer")
    <3>1. hpc'[h] = "answer" /\ ~(hpc' = [hpc EXCEPT ![h] = "error"])
      BY <1>1, <2>2 DEF SpoolTypeOK
    <3>2. PICK t \in {u \in TransferOf(job[h].client) : u.next = job[h].offset},
               f \in FileOf(job[h].client, FALSE) :
            Answered(h, t, f, PageEnd(f, t.next), PageEnd(f, t.next) < t.bytes)
      BY <3>1, Zenon DEF ReadPage, Answered
    <3>3. /\ t \in TransferOf(c) /\ f \in FileOf(c, FALSE) /\ t.next = job[h].offset
          /\ Answered(h, t, f, PageEnd(f, t.next), PageEnd(f, t.next) < t.bytes)
      BY <1>2, <3>2
    <3>4. PICK to : to = PageEnd(f, t.next)
      OBVIOUS
    <3>5. t \in Transfer /\ f \in File /\ t.id = c /\ to \in Nat
      <4>1. t \in Transfer /\ f \in File /\ t.id = c
        BY <1>1, <3>3 DEF SpoolTypeOK, TransferOf, FileOf
      <4>2. t.next \in Nat /\ f.bytes \in Nat /\ PageBytes \in Nat
        BY <4>1, SpoolAssumption DEF Transfer, File
      <4> QED BY <3>4, <4>1, <4>2 DEF PageEnd
    <3>6. job[h] \in Job
      BY <1>1 DEF SpoolTypeOK
    <3>7. hpc[h] = "page" /\ hpc'[h] = "answer" /\ \A g \in Handler : g # h => hpc'[g] = hpc[g]
      BY <1>1, <2>2 DEF SpoolTypeOK
    <3>8. CASE to < t.bytes
      <4>1. Answered(h, t, f, to, TRUE)
        BY <3>3, <3>4, <3>8 DEF Answered
      <4>2. PICK j : j = [job[h] EXCEPT !.to = to, !.more = TRUE]
        OBVIOUS
      <4>3. j.client = c /\ j.offset = job[h].offset /\ j.to = to /\ j.more = TRUE
        BY <1>2, <3>5, <3>6, <4>2 DEF Job
      <4>4. job'[h] = j /\ \A g \in Handler : g # h => job'[g] = job[g]
        BY <1>1, <4>1, <4>2 DEF SpoolTypeOK, Answered
      <4>5. PICK n : n = [t EXCEPT !.next = to, !.last = clock]
        OBVIOUS
      <4>6. n \in Transfer /\ n.id = c /\ n.bytes = t.bytes
        BY <1>1, <3>5, <4>5 DEF SpoolTypeOK, Transfer
      <4>7. files' = files /\ transfers' = (transfers \ {t}) \union {n}
        BY <4>1, <4>5 DEF Answered
      <4> QED BY <3>3, <3>4, <3>7, <4>3, <4>4, <4>6, <4>7
    <3>9. CASE ~(to < t.bytes)
      <4>1. Answered(h, t, f, to, FALSE)
        <5>1. (to < t.bytes) = FALSE
          BY <3>9, SMT
        <5>2. Answered(h, t, f, to, to < t.bytes)
          BY <3>3, <3>4
        <5> QED BY <5>1, <5>2, Zenon
      <4>2. PICK j : j = [job[h] EXCEPT !.to = to, !.more = FALSE]
        OBVIOUS
      <4>3. j.client = c /\ j.offset = job[h].offset /\ j.to = to /\ j.more = FALSE
        BY <1>2, <3>5, <3>6, <4>2 DEF Job
      <4>4. job'[h] = j /\ \A g \in Handler : g # h => job'[g] = job[g]
        BY <1>1, <4>1, <4>2 DEF SpoolTypeOK, Answered
      <4>5. files' = files \ {f} /\ transfers' = transfers \ {t}
        BY <4>1 DEF Answered
      <4> QED BY <3>3, <3>4, <3>7, <3>9, <4>3, <4>4, <4>5
    <3> QED BY <3>8, <3>9
  <2> QED BY <2>1, <2>2 DEF ReadPage
<1>6. \A g \in Handler : g # h => hpc'[g] = hpc[g] /\ job'[g] = job[g]
  BY <1>5
<1>7. \A d \in Client : d # c => /\ FileOf(d, TRUE)' = FileOf(d, TRUE)
                                 /\ FileOf(d, FALSE)' = FileOf(d, FALSE)
                                 /\ TransferOf(d)' = TransferOf(d)
  <2>1. \A f : f.id # c => (f \in files' <=> f \in files)
    BY <1>5 DEF FileOf
  <2>2. \A u : u.id # c => (u \in transfers' <=> u \in transfers)
    BY <1>5 DEF TransferOf
  <2> QED BY <2>1, <2>2 DEF FileOf, TransferOf
<1>8. \/ transfers' = transfers
      \/ \E t \in TransferOf(c) :
           \/ transfers' = transfers \ {t}
           \/ \E n \in Transfer : /\ n.id = c /\ n.bytes = t.bytes
                                  /\ transfers' = (transfers \ {t}) \union {n}
  BY <1>5
<1>9. LockHeld'
  BY <1>1, SpoolAssumption DEF ReadPage, SpoolTypeOK, LockHeld, Locked
<1>10. ThreadsServe'
  BY <1>1, <1>2, <1>6, <1>4, <1>5 DEF ThreadsServe, Serving
<1>11. PrefixReceived'
  BY <1>1 DEF ReadPage, SpoolTypeOK, PrefixReceived
<1>12. OneEach'
  <2>1. \A d \in Client : cpc[d] = "idle" => d # c
    BY <1>3
  <2>2. \A f, g \in files' : f.id = g.id => f = g
    BY <1>1, <1>5 DEF OneEach
  <2>3. \A u, v \in transfers' : u.id = v.id => u = v
    BY <1>1, <1>8 DEF OneEach, TransferOf
  <2> QED BY <1>1, <1>7, <1>4, <2>1, <2>2, <2>3 DEF OneEach
<1>13. FilesWhole'
  <2>1. \A f \in files' : f \in files
    BY <1>5
  <2>2. ThreadFiles(h)'
    BY <1>5 DEF ThreadFiles
  <2>3. \A t \in transfers' : t.bytes = logs'[t.id]
    BY <1>1, <1>4, <1>8 DEF FilesWhole, TransferOf
  <2>4. ASSUME NEW g \in Handler, g # h PROVE ThreadFiles(g)'
    <3>1. hpc[g] # "idle" => job[g].client \in Client /\ job[g].client # c
      BY <1>3, <2>4
    <3>2. hpc'[g] = hpc[g] /\ job'[g] = job[g] /\ ThreadFiles(g)
      BY <1>1, <1>6, <2>4 DEF FilesWhole
    <3> QED BY <1>7, <1>4, <3>1, <3>2 DEF ThreadFiles, Written
  <2> QED BY <1>1, <1>4, <2>1, <2>2, <2>4, <2>3 DEF FilesWhole
<1>14. PageInLog'
  <2>1. ASSUME hpc'[h] = "answer"
        PROVE  /\ job'[h].to <= logs[c]
               /\ cpc[c] = "asking" => job'[h].offset <= job'[h].to
               /\ ~job'[h].more => job'[h].to = logs[c]
    <3>1. PICK t \in TransferOf(c), f \in FileOf(c, FALSE) :
            /\ t.next = job[h].offset /\ job'[h].to = PageEnd(f, t.next)
            /\ job'[h].more = TRUE \/ ~(PageEnd(f, t.next) < t.bytes)
      BY <1>5, <2>1
    <3>2. /\ f.bytes = logs[c] /\ t.bytes = logs[c] /\ logs[c] \in Nat
          /\ job[h].offset \in Nat
      BY <1>1 DEF FilesWhole, FileOf, TransferOf, SpoolTypeOK, Job
    <3>3. cpc[c] = "asking" => job[h].offset <= logs[c]
      BY <1>1, <1>2, <1>5 DEF ThreadsServe, Serving, PrefixReceived
    <3>4. PageEnd(f, t.next) \in Nat /\ PageEnd(f, t.next) <= logs[c]
      BY <3>1, <3>2, SpoolAssumption DEF PageEnd
    <3>5. cpc[c] = "asking" => job[h].offset <= PageEnd(f, t.next)
      BY <3>1, <3>2, <3>3, SpoolAssumption DEF PageEnd
    <3> QED BY <1>5, <3>1, <3>2, <3>4, <3>5
  <2> QED BY <1>1, <1>6, <1>4, <1>5, <2>1 DEF PageInLog
<1>15. PagedAreActive'
  <2>1. hpc'[h] \in {"error", "answer"}
    BY <1>5
  <2>2. \A g \in Handler : g # h => hpc[g] \notin {"spools", "parts", "page"}
    BY <1>1, <1>5 DEF LockHeld, Locked
  <2> QED BY <1>6, <2>1, <2>2 DEF PagedAreActive
<1>16. PagedHasSpool'
  <2>1. CASE transfers' = transfers /\ files' = files
    BY <1>1, <1>4, <2>1 DEF PagedHasSpool, FileOf
  <2>2. ASSUME NEW t \in TransferOf(c), NEW f \in FileOf(c, FALSE), NEW n \in Transfer,
               n.id = c, n.bytes = t.bytes, files' = files, transfers' = (transfers \ {t}) \union {n}
        PROVE  PagedHasSpool'
    <3>1. f \in FileOf(n.id, FALSE)' /\ f.bytes = n.bytes /\ n.bytes = logs'[n.id]
      BY <1>1, <1>4, <2>2 DEF FilesWhole, FileOf, TransferOf
    <3> QED BY <1>1, <1>4, <2>2, <3>1 DEF PagedHasSpool, FileOf
  <2>3. ASSUME NEW t \in TransferOf(c), NEW f \in FileOf(c, FALSE),
               files' = files \ {f}, transfers' = transfers \ {t}
        PROVE  PagedHasSpool'
    <3>1. \A u \in transfers' : u \in transfers /\ u.id # c
      BY <1>1, <2>3 DEF OneEach, TransferOf
    <3>2. \A u \in transfers' : \A g \in FileOf(u.id, FALSE) : g \in files'
      BY <2>3, <3>1 DEF FileOf
    <3> QED BY <1>1, <1>4, <3>1, <3>2 DEF PagedHasSpool, FileOf
  <2> QED BY <1>5, <2>1, <2>2, <2>3
<1> QED BY <1>9, <1>10, <1>11, <1>12, <1>13, <1>14, <1>15, <1>16 DEF SpoolInv

\* What answering a page does: nothing for a client that has given up, and more of the
\* log for one that waits, all of it if the collection ends well.
LEMMA AnswerGrows ==
  ASSUME SpoolInv, NEW h \in Handler, AnswerPage(h), NEW c \in Client, c = job[h].client
  PROVE  \/ UNCHANGED <<cpc, got>>
         \/ /\ cpc[c] = "asking"
            /\ \E s \in {"collected", "failed", "paging"}, n \in Len(got[c])..logs[c] :
                 /\ cpc' = [cpc EXCEPT ![c] = s]
                 /\ got' = [got EXCEPT ![c] = Bytes(n)]
                 /\ s = "collected" => n = logs[c]
                 /\ s = "failed" => got' = got
<1>1. /\ SpoolTypeOK /\ PageInLog /\ ThreadsServe /\ PrefixReceived
      /\ hpc[h] = "answer"
  BY DEF SpoolInv, AnswerPage, Turn
<1>2. CASE cpc[c] # "asking"
  BY <1>2 DEF AnswerPage
<1>3. CASE cpc[c] = "asking"
  <2>1. /\ job[h].to \in Nat /\ job[h].offset \in Nat /\ job[h].offset <= job[h].to
        /\ job[h].to <= logs[c] /\ (~job[h].more => job[h].to = logs[c])
        /\ job[h].offset = Len(got[c]) /\ got[c] = Bytes(job[h].offset)
    BY <1>1, <1>3 DEF SpoolTypeOK, Job, PageInLog, ThreadsServe, Serving, PrefixReceived
  <2>2. got[c] \o PageUnits(h) = Bytes(job[h].to)
    BY <2>1, BytesGrow DEF PageUnits
  <2>3. got' = [got EXCEPT ![c] = got[c] \o PageUnits(h)]
    BY <1>3 DEF AnswerPage
  <2>4. got' = [got EXCEPT ![c] = Bytes(job[h].to)]
    BY <2>2, <2>3
  <2>5. PICK s : s = IF ~job[h].more THEN "collected"
                     ELSE IF PageUnits(h) = << >> THEN "failed" ELSE "paging"
    OBVIOUS
  <2>6. cpc' = [cpc EXCEPT ![c] = s]
    BY <1>3, <2>5 DEF AnswerPage
  <2>7. s \in {"collected", "failed", "paging"} /\ (s = "collected" => ~job[h].more)
    BY <2>5
  <2>8. ASSUME s = "failed" PROVE got' = got
    <3>1. PageUnits(h) = << >>
      BY <2>5, <2>8
    <3>2. got \in [Client -> Seq(Nat)] /\ got[c] \in Seq(Nat)
      BY <1>1 DEF SpoolTypeOK
    <3>3. got[c] \o << >> = got[c]
      BY <3>2, ConcatEmptySeq
    <3> QED BY <2>3, <3>1, <3>2, <3>3
  <2>9. job[h].to \in Len(got[c])..logs[c] /\ (s = "collected" => job[h].to = logs[c])
    BY <1>1, <2>1, <2>7 DEF SpoolTypeOK
  <2> QED BY <1>3, <2>4, <2>6, <2>7, <2>8, <2>9
<1> QED BY <1>2, <1>3

LEMMA AnswerPageKeeps ==
  ASSUME SpoolInv, SpoolTypeOK', Employed', NEW h \in Handler, AnswerPage(h)
  PROVE  SpoolInv'
<1> USE DEF Turn, server, counts
<1>1. SpoolTypeOK /\ Employed /\ LockHeld /\ ThreadsServe /\ PrefixReceived /\ OneEach
      /\ FilesWhole /\ PageInLog /\ PagedAreActive /\ PagedHasSpool
  BY DEF SpoolInv
<1>2. PICK c \in Client : c = job[h].client
  BY <1>1 DEF Employed, Serving, AnswerPage
<1>3. \A g \in Handler : g # h /\ hpc[g] # "idle" => job[g].client \in Client /\ job[g].client # c
  BY <1>1, <1>2 DEF ThreadsServe, Serving, Employed, AnswerPage
<1>4. /\ hpc[h] = "answer" /\ hpc'[h] = "idle" /\ logs' = logs
      /\ \A g \in Handler : g # h => hpc'[g] = hpc[g] /\ job'[g] = job[g]
  BY <1>1 DEF SpoolTypeOK, AnswerPage
<1>5. /\ \A d \in Client : d # c => cpc'[d] = cpc[d] /\ got'[d] = got[d]
      /\ \/ cpc'[c] = cpc[c] /\ got'[c] = got[c]
         \/ \E n \in Nat :
              /\ got'[c] = Bytes(n) /\ n <= logs[c]
              /\ cpc'[c] \in {"collected", "failed", "paging"}
              /\ cpc'[c] = "collected" => n = logs[c]
  <2>1. CASE UNCHANGED <<cpc, got>>
    BY <2>1
  <2>2. ASSUME NEW s \in {"collected", "failed", "paging"}, NEW n \in Len(got[c])..logs[c],
               cpc' = [cpc EXCEPT ![c] = s], got' = [got EXCEPT ![c] = Bytes(n)],
               s = "collected" => n = logs[c]
        PROVE  /\ \A d \in Client : d # c => cpc'[d] = cpc[d] /\ got'[d] = got[d]
               /\ cpc'[c] = s /\ got'[c] = Bytes(n) /\ n \in Nat /\ n <= logs[c]
    <3>1. Len(got[c]) \in Nat /\ logs[c] \in Nat
      BY <1>1, LenProperties DEF SpoolTypeOK
    <3> QED BY <1>1, <2>2, <3>1 DEF SpoolTypeOK
  <2> QED BY <1>2, <2>1, <2>2, AnswerGrows
<1>6. LockHeld'
  BY <1>1 DEF AnswerPage, SpoolTypeOK, LockHeld, Locked
<1>7. ThreadsServe'
  BY <1>1, <1>3, <1>4, <1>5 DEF ThreadsServe, Serving, Employed
<1>8. PrefixReceived'
  <2>1. ASSUME NEW d \in Client, d # c
        PROVE  /\ Len(got'[d]) <= logs'[d] /\ got'[d] = Bytes(Len(got'[d]))
               /\ cpc'[d] = "collected" => Len(got'[d]) = logs'[d]
    BY <1>1, <1>4, <1>5, <2>1 DEF PrefixReceived
  <2>2. CASE cpc'[c] = cpc[c] /\ got'[c] = got[c]
    BY <1>1, <1>4, <2>1, <2>2 DEF PrefixReceived
  <2>3. ASSUME NEW n \in Nat, got'[c] = Bytes(n), n <= logs[c],
               cpc'[c] = "collected" => n = logs[c]
        PROVE  PrefixReceived'
    <3>1. Len(got'[c]) = n
      BY <2>3, BytesIsSeq
    <3> QED BY <1>4, <2>1, <2>3, <3>1 DEF PrefixReceived
  <2> QED BY <1>5, <2>2, <2>3
<1>9. OneEach'
  BY <1>1 DEF AnswerPage, SpoolTypeOK, OneEach, FileOf, TransferOf
<1>10. FilesWhole'
  BY <1>1 DEF AnswerPage, SpoolTypeOK, FilesWhole, ThreadFiles, FileOf, TransferOf, Written
<1>11. PageInLog'
  BY <1>1, <1>3, <1>4, <1>5 DEF PageInLog
<1>12. PagedAreActive'
  BY <1>1 DEF AnswerPage, SpoolTypeOK, PagedAreActive
<1>13. PagedHasSpool'
  BY <1>1 DEF AnswerPage, SpoolTypeOK, PagedHasSpool, FileOf
<1> QED BY <1>6, <1>7, <1>8, <1>9, <1>10, <1>11, <1>12, <1>13 DEF SpoolInv

LEMMA AnswerErrorKeeps ==
  ASSUME SpoolInv, SpoolTypeOK', Employed', NEW h \in Handler, AnswerError(h)
  PROVE  SpoolInv'
<1> USE DEF Turn, server, counts
<1>1. SpoolTypeOK /\ Employed /\ LockHeld /\ ThreadsServe /\ PrefixReceived /\ OneEach
      /\ FilesWhole /\ PageInLog /\ PagedAreActive /\ PagedHasSpool
  BY DEF SpoolInv
<1>2. LockHeld'
  BY <1>1 DEF AnswerError, SpoolTypeOK, LockHeld, Locked
<1>3. ThreadsServe'
  BY <1>1 DEF AnswerError, SpoolTypeOK, ThreadsServe, Serving
<1>4. PrefixReceived'
  BY <1>1 DEF AnswerError, SpoolTypeOK, PrefixReceived
<1>5. OneEach'
  BY <1>1 DEF AnswerError, SpoolTypeOK, OneEach, FileOf, TransferOf
<1>6. FilesWhole'
  BY <1>1 DEF AnswerError, SpoolTypeOK, FilesWhole, ThreadFiles, FileOf, TransferOf, Written
<1>7. PageInLog'
  BY <1>1 DEF AnswerError, SpoolTypeOK, PageInLog
<1>8. PagedAreActive'
  BY <1>1 DEF AnswerError, SpoolTypeOK, PagedAreActive
<1>9. PagedHasSpool'
  BY <1>1 DEF AnswerError, SpoolTypeOK, PagedHasSpool, FileOf
<1> QED BY <1>2, <1>3, <1>4, <1>5, <1>6, <1>7, <1>8, <1>9 DEF SpoolInv

LEMMA RestartKeeps ==
  ASSUME SpoolInv, SpoolTypeOK', Employed', Restart
  PROVE  SpoolInv'
<1> USE DEF Turn, server, counts
<1>1. SpoolTypeOK /\ Employed /\ LockHeld /\ ThreadsServe /\ PrefixReceived /\ OneEach
      /\ FilesWhole /\ PageInLog /\ PagedAreActive /\ PagedHasSpool
  BY DEF SpoolInv
<1>2. LockHeld'
  BY <1>1, SpoolAssumption DEF Restart, SpoolTypeOK, LockHeld, Locked
<1>3. ThreadsServe'
  BY <1>1 DEF Restart, SpoolTypeOK, ThreadsServe, Serving
<1>4. PrefixReceived'
  BY <1>1 DEF Restart, SpoolTypeOK, PrefixReceived
<1>5. OneEach'
  BY <1>1 DEF Restart, SpoolTypeOK, OneEach, FileOf, TransferOf
<1>6. FilesWhole'
  BY <1>1 DEF Restart, SpoolTypeOK, FilesWhole, ThreadFiles, FileOf, TransferOf, Written
<1>7. PageInLog'
  BY <1>1 DEF Restart, SpoolTypeOK, PageInLog
<1>8. PagedAreActive'
  BY <1>1 DEF Restart, SpoolTypeOK, PagedAreActive
<1>9. PagedHasSpool'
  BY <1>1 DEF Restart, SpoolTypeOK, PagedHasSpool, FileOf
<1> QED BY <1>2, <1>3, <1>4, <1>5, <1>6, <1>7, <1>8, <1>9 DEF SpoolInv

-----------------------------------------------------------------------------
(* The invariant.                                                          *)

LEMMA SpoolInvInit == SpoolInit => SpoolInv
<1> SUFFICES ASSUME SpoolInit PROVE SpoolInv
  OBVIOUS
<1>1. SpoolTypeOK /\ Employed
  <2>1. NoJob \in Job
    BY DEF NoJob, Job
  <2>2. \A c \in Client : << >> \in Seq(Nat)
    OBVIOUS
  <2> QED
    BY <2>1, <2>2, SpoolAssumption DEF SpoolInit, SpoolTypeOK, Employed, Serving, HandlerStep
<1>2. LockHeld
  BY SpoolAssumption DEF SpoolInit, LockHeld, Locked
<1>3. PrefixReceived
  <2>1. Len(<< >>) = 0 /\ Bytes(0) = << >>
    BY DEF Bytes
  <2>2. \A c \in Client : logs[c] \in Nat /\ got[c] = << >> /\ cpc[c] = "idle"
    BY SpoolAssumption DEF SpoolInit
  <2> QED BY <2>1, <2>2 DEF PrefixReceived
<1> QED
  BY <1>1, <1>2, <1>3
  DEF SpoolInit, SpoolInv, ThreadsServe, Serving, OneEach, FileOf, TransferOf, FilesWhole,
      ThreadFiles, PageInLog, PagedAreActive, PagedHasSpool

LEMMA SpoolInvStep ==
  ASSUME SpoolInv, SpoolTypeOK', Employed', [SpoolNext]_svars
  PROVE  SpoolInv'
<1>1. CASE UNCHANGED svars \/ SpoolTick
  <2>1. UNCHANGED <<logs, transfers, files, rlock, hpc, job, cpc, got>>
    BY <1>1 DEF SpoolTick, svars, server, counts
  <2> QED
    BY <2>1
    DEF SpoolInv, LockHeld, ThreadsServe, Serving, PrefixReceived, OneEach, FileOf, TransferOf,
        FilesWhole, ThreadFiles, Written, PageInLog, PagedAreActive, PagedHasSpool
<1>2. CASE Restart
  BY <1>2, RestartKeeps
<1>3. ASSUME NEW c \in Client, Ask(c) \/ TimeOut(c) PROVE SpoolInv'
  BY <1>3, AskKeeps, TimeOutKeeps
<1>4. ASSUME NEW h \in Handler, Serve(h) PROVE SpoolInv'
  BY <1>4, OpenPartKeeps, WriteChunkKeeps, ClosePartKeeps, RenamePartKeeps, RegisterKeeps,
     TakeLockKeeps, ExpireTransfersKeeps, ListActiveKeeps, RemoveOrphansKeeps, ReadPageKeeps,
     AnswerPageKeeps, AnswerErrorKeeps
  DEF Serve, Create, CleanUp
<1> QED BY <1>1, <1>2, <1>3, <1>4 DEF SpoolNext

\* The inductive invariant holds of the transfers in every state.
THEOREM SpoolInvariant == SpoolSpec => []SpoolInv
<1>1. SpoolInit => SpoolInv
  BY SpoolInvInit
<1>2. SpoolInv /\ (SpoolTypeOK /\ Employed)' /\ [SpoolNext]_svars => SpoolInv'
  BY SpoolInvStep
<1> QED BY <1>1, <1>2, SpoolTypeCorrect, PTL DEF SpoolSpec

-----------------------------------------------------------------------------
(* What the transfers promise.                                             *)

\* A source is collected only with every byte of its log, once and in order, whatever
\* the cap, the clean-up, a broken stream, a time-out or a restart did (log_source.py,
\* _log_transfer.py).
THEOREM TransfersExact == SpoolSpec => []ExactLogs
<1>1. SpoolInv => ExactLogs
  BY DEF SpoolInv, PrefixReceived, ExactLogs, Bytes
<1> QED BY <1>1, SpoolInvariant, PTL

\* A clean-up never takes the spool file of a transfer in use, whichever thread does it.
THEOREM SpoolsKept == SpoolSpec => []PagedHasSpool
<1>1. SpoolInv => PagedHasSpool
  BY DEF SpoolInv
<1> QED BY <1>1, SpoolInvariant, PTL

\* One step forgets a transfer only with its last page, after the TTL, or by a restart.
THEOREM TransfersKept == SpoolSpec => KeptWhileUsed
<1> DEFINE Kept(t) == \/ TransferOf(t.id)' # {}
                      \/ t.last + TTL <= clock
                      \/ restarts' # restarts
                      \/ \E h \in Handler : hpc[h] = "page" /\ job[h].client = t.id
<1>1. SpoolInv /\ [SpoolNext]_svars => [\A t \in transfers : Kept(t)]_svars
  <2> SUFFICES ASSUME SpoolInv, SpoolNext, NEW t \in transfers PROVE Kept(t)
    OBVIOUS
  <2>1. t \in transfers' => Kept(t)
    BY DEF TransferOf
  <2>2. CASE transfers \subseteq transfers'
    BY <2>1, <2>2
  <2>3. CASE Restart
    <3>1. restarts \in Nat
      BY DEF SpoolInv, SpoolTypeOK
    <3> QED BY <2>3, <3>1 DEF Restart
  <2>4. ASSUME NEW h \in Handler, ExpireTransfers(h) PROVE Kept(t)
    BY <2>1, <2>4 DEF ExpireTransfers, Stale
  <2>5. ASSUME NEW h \in Handler, ReadPage(h) PROVE Kept(t)
    <3>1. CASE job[h].client = t.id
      BY <2>5, <3>1 DEF ReadPage, Turn
    <3>2. CASE job[h].client # t.id
      BY <2>1, <2>5, <3>2 DEF ReadPage, TransferOf
    <3> QED BY <3>1, <3>2
  <2>6. CASE SpoolTick \/ \E c \in Client : Ask(c) \/ TimeOut(c)
    BY <2>2, <2>6 DEF SpoolTick, Ask, TimeOut, server
  <2>7. ASSUME NEW h \in Handler,
               Create(h) \/ TakeLock(h) \/ ListActive(h) \/ RemoveOrphans(h) \/ AnswerPage(h)
                 \/ AnswerError(h)
        PROVE  Kept(t)
    <3>1. transfers \subseteq transfers'
      BY <2>7 DEF Create, OpenPart, WriteChunk, ClosePart, RenamePart, Register, TakeLock,
                  ListActive, RemoveOrphans, AnswerPage, AnswerError, server
    <3> QED BY <2>2, <3>1
  <2> QED BY <2>3, <2>4, <2>5, <2>6, <2>7 DEF SpoolNext, Serve, CleanUp
<1> QED BY <1>1, SpoolInvariant, PTL DEF SpoolSpec, KeptWhileUsed

-----------------------------------------------------------------------------
(* The transfers implement the streams.                                    *)

LEMMA StreamStep ==
  ASSUME SpoolInv, [SpoolNext]_svars
  PROVE  [Streams!StreamNext]_(Streams!streamVars)
<1> DEFINE left  == {c \in Client : cpc[c] \notin {"collected", "failed"}}
           whole == {c \in Client : cpc[c] = "collected"}
<1>0. SpoolTypeOK
  BY DEF SpoolInv
<1>1. ASSUME UNCHANGED <<logs, got, cpc>> PROVE UNCHANGED Streams!streamVars
  BY <1>1 DEF Streams!streamVars
<1>2. ASSUME UNCHANGED <<logs, got>>,
             \A c \in Client : /\ cpc'[c] = "collected" <=> cpc[c] = "collected"
                               /\ cpc[c] = "failed" => cpc'[c] = "failed"
      PROVE  Streams!Break
  BY <1>2 DEF Streams!Break
<1>3. CASE UNCHANGED svars \/ SpoolTick
  BY <1>1, <1>3 DEF svars, SpoolTick
<1>4. CASE Restart
  <2>1. \A c \in Client : cpc'[c] = IF cpc[c] = "asking" THEN "failed" ELSE cpc[c]
    BY <1>4 DEF Restart
  <2>2. UNCHANGED <<logs, got>>
    BY <1>4 DEF Restart
  <2> QED BY <1>2, <2>1, <2>2 DEF Streams!StreamNext
<1>5. ASSUME NEW c \in Client, Ask(c) \/ TimeOut(c)
      PROVE  Streams!StreamNext
  <2>1. /\ UNCHANGED <<logs, got>>
        /\ cpc[c] \in {"idle", "paging", "asking"} /\ cpc'[c] \in {"asking", "failed"}
        /\ \A d \in Client : d # c => cpc'[d] = cpc[d]
    BY <1>0, <1>5 DEF Ask, TimeOut, SpoolTypeOK
  <2> QED BY <1>2, <2>1 DEF Streams!StreamNext
<1>6. ASSUME NEW h \in Handler, AnswerPage(h)
      PROVE  [Streams!StreamNext]_(Streams!streamVars)
  <2>1. PICK c \in Client : c = job[h].client
    BY <1>6 DEF SpoolInv, Employed, Serving, AnswerPage, Turn
  <2>2. UNCHANGED logs
    BY <1>6 DEF AnswerPage
  <2>3. CASE UNCHANGED <<cpc, got>>
    BY <1>1, <2>2, <2>3
  <2>4. ASSUME cpc[c] = "asking",
               NEW s \in {"collected", "failed", "paging"}, NEW n \in Len(got[c])..logs[c],
               cpc' = [cpc EXCEPT ![c] = s], got' = [got EXCEPT ![c] = Bytes(n)],
               s = "collected" => n = logs[c], s = "failed" => got' = got
        PROVE  Streams!StreamNext
    <3>1. cpc'[c] = s /\ \A d \in Client : d # c => cpc'[d] = cpc[d]
      BY <1>0, <2>4 DEF SpoolTypeOK
    <3>2. CASE s = "failed"
      BY <1>2, <2>2, <2>4, <3>1, <3>2 DEF Streams!StreamNext
    <3>3. CASE s = "paging"
      <4>1. left' = left /\ whole' = whole
        BY <2>4, <3>1, <3>3
      <4>2. c \in left
        BY <2>4
      <4>3. got' = [got EXCEPT ![c] = Streams!Prefix(n)]
        BY <2>4 DEF Streams!Prefix, Bytes
      <4> QED BY <2>2, <4>1, <4>2, <4>3 DEF Streams!StreamNext, Streams!Receive
    <3>4. CASE s = "collected"
      <4>1. left' = left \ {c} /\ whole' = whole \union {c}
        BY <2>4, <3>1, <3>4
      <4>2. c \in left
        BY <2>4
      <4>3. got' = [got EXCEPT ![c] = Streams!Prefix(n)] /\ n = logs[c]
        BY <2>4, <3>4 DEF Streams!Prefix, Bytes
      <4>4. got'[c] = Streams!Prefix(logs[c])
        BY <1>0, <4>3 DEF SpoolTypeOK
      <4> QED BY <2>2, <4>1, <4>2, <4>3, <4>4 DEF Streams!StreamNext, Streams!Receive
    <3> QED BY <3>2, <3>3, <3>4
  <2> QED BY <1>6, <2>1, <2>3, <2>4, AnswerGrows
<1>7. ASSUME NEW h \in Handler, AnswerError(h)
      PROVE  Streams!StreamNext
  <2>1. PICK c \in Client : c = job[h].client
    BY <1>7 DEF SpoolInv, Employed, Serving, AnswerError, Turn
  <2>2. cpc' = [cpc EXCEPT ![c] = IF cpc[c] = "asking" THEN "failed" ELSE cpc[c]]
    BY <1>7, <2>1 DEF AnswerError
  <2>3. \A d \in Client : cpc'[d] = IF d = c /\ cpc[c] = "asking" THEN "failed" ELSE cpc[d]
    BY <1>0, <2>2 DEF SpoolTypeOK
  <2>4. UNCHANGED <<logs, got>>
    BY <1>7 DEF AnswerError
  <2> QED BY <1>2, <2>3, <2>4 DEF Streams!StreamNext
<1>8. ASSUME NEW h \in Handler, Create(h) \/ TakeLock(h) \/ CleanUp(h) \/ ReadPage(h)
      PROVE  UNCHANGED Streams!streamVars
  <2>1. UNCHANGED <<logs, got, cpc>>
    BY <1>8 DEF Create, OpenPart, WriteChunk, ClosePart, RenamePart, Register, TakeLock, CleanUp,
                ExpireTransfers, ListActive, RemoveOrphans, ReadPage
  <2> QED BY <1>1, <2>1
<1> QED BY <1>3, <1>4, <1>5, <1>6, <1>7, <1>8 DEF SpoolNext, Serve

\* To its collection a transfer is a stream of the log that ends whole or in an error.
THEOREM TransfersAreStreams == SpoolSpec => ImplementsStreams
<1>1. SpoolInit => Streams!StreamInit
  <2> SUFFICES ASSUME SpoolInit PROVE Streams!StreamInit
    OBVIOUS
  <2>1. logs \in [Client -> Nat]
    BY SpoolAssumption DEF SpoolInit
  <2> QED BY <2>1 DEF SpoolInit, Streams!StreamInit
<1>2. SpoolInv /\ [SpoolNext]_svars => [Streams!StreamNext]_(Streams!streamVars)
  BY StreamStep
<1> QED
  BY <1>1, <1>2, SpoolInvariant, PTL DEF SpoolSpec, ImplementsStreams, Streams!StreamSpec

-----------------------------------------------------------------------------
(* What a clean-up leaves.                                                 *)

\* A request that has renamed its spool and is about to register it, or just has.
Joining(f) ==
  \E g \in Handler : job[g].client = f.id /\ job[g].new /\ hpc[g] \in {"register", "lock"}

CreatorsNew ==
  \A h \in Handler : hpc[h] \in {"create", "write", "rename", "register"} => job[h].new

Sweeping(h) == hpc[h] \in {"spools", "parts", "page"}

\* Spools are swept before part files, by one deadline: only a rename in between
\* makes a stale spool.
Swept(h) ==
  /\ Sweeping(h) => job[h].deadline <= clock
  /\ \A f \in Orphans(job[h].active, job[h].deadline) :
       /\ hpc[h] \in {"parts", "page"} => f.part \/ Joining(f)
       /\ hpc[h] = "page" => ~f.part

SweepInv == CreatorsNew /\ \A h \in Handler : Swept(h)

\* Every file was there before, as a part file perhaps, or has just been written.
FilesOld ==
  \A e \in files' :
    \/ e \in files
    \/ e.mtime = clock
    \/ \E f \in files : f.part /\ f.id = e.id /\ f.mtime = e.mtime /\ (e.part \/ Joining(e)')

JoinersStay == \A f \in files : Joining(f) => Joining(f)'

LEMMA SweepGoesOn ==
  ASSUME TTL # 0, SpoolTypeOK, SpoolTypeOK', FilesOld, JoinersStay, clock' >= clock,
         NEW h \in Handler, Swept(h), hpc'[h] = hpc[h], Sweeping(h) => job'[h] = job[h]
  PROVE  Swept(h)'
<1> USE SpoolAssumption DEF SpoolTypeOK
<1>1. CASE ~Sweeping(h)
  BY <1>1 DEF Swept, Sweeping
<1>2. CASE Sweeping(h)
  <2>1. job'[h] = job[h] /\ job[h].deadline \in Nat /\ job[h].deadline <= clock
    BY <1>2 DEF Swept, Job
  <2>2. ASSUME NEW e \in files', Stale(e.mtime, job[h].deadline),
               e.part \/ e.id \notin job[h].active
        PROVE  /\ hpc[h] \in {"parts", "page"} => e.part \/ Joining(e)'
               /\ hpc[h] = "page" => ~e.part
    <3>1. CASE e \in files
      BY <2>2, <3>1 DEF Swept, Orphans, JoinersStay
    <3>2. CASE e.mtime = clock
      BY <2>1, <2>2, <3>2 DEF Stale
    <3>3. CASE \E f \in files : f.part /\ f.id = e.id /\ f.mtime = e.mtime /\ (e.part \/ Joining(e)')
      BY <2>2, <3>3 DEF Swept, Orphans
    <3> QED BY <3>1, <3>2, <3>3 DEF FilesOld
  <2> QED BY <1>2, <2>1, <2>2 DEF Swept, Sweeping, Orphans, Stale
<1> QED BY <1>1, <1>2

LEMMA SweepStep ==
  ASSUME TTL # 0, SpoolInv, SpoolTypeOK', SweepInv, [SpoolNext]_svars
  PROVE  SweepInv'
<1> USE SpoolAssumption DEF SpoolTypeOK, Turn
<1>1. SpoolTypeOK /\ LockHeld /\ ThreadsServe /\ CreatorsNew /\ \A h \in Handler : Swept(h)
  BY DEF SpoolInv, SweepInv
\* A sweeping thread has the lock, so that nobody who waits for it gets it.
<1>2. \A h \in Handler : Sweeping(h) => rlock = h
  BY <1>1 DEF LockHeld, Sweeping, Locked
<1>3. CASE UNCHANGED svars \/ SpoolTick
  <2>1. UNCHANGED <<hpc, job, files>> /\ clock' >= clock
    BY <1>1, <1>3 DEF svars, SpoolTick, server, counts
  <2>2. FilesOld /\ JoinersStay
    BY <2>1 DEF FilesOld, JoinersStay, Joining
  <2> QED BY <1>1, <2>1, <2>2, SweepGoesOn DEF SweepInv, CreatorsNew
<1>4. CASE Restart
  BY <1>4 DEF Restart, SweepInv, CreatorsNew, Swept, Sweeping
<1>5. ASSUME NEW c \in Client, Ask(c) PROVE SweepInv'
  <2>1. PICK h \in Handler :
          /\ Turn(h, "idle", IF cpc[c] = "idle" THEN "create" ELSE "lock")
          /\ job' = [job EXCEPT ![h] = [NoJob EXCEPT !.client = c, !.new = cpc[c] = "idle",
                                                     !.offset = Len(got[c])]]
    BY <1>5 DEF Ask
  <2>2. /\ hpc[h] = "idle" /\ hpc'[h] \in {"create", "lock"}
        /\ hpc'[h] = "create" => job'[h].new
        /\ \A g \in Handler : g # h => job'[g] = job[g] /\ hpc'[g] = hpc[g]
        /\ UNCHANGED <<files, clock>>
    BY <1>1, <1>5, <2>1 DEF Ask, NoJob, server, counts
  <2>3. FilesOld /\ JoinersStay
    BY <2>2 DEF FilesOld, JoinersStay, Joining
  <2>4. \A g \in Handler : g # h => Swept(g)'
    BY <1>1, <2>2, <2>3, SweepGoesOn
  <2> QED BY <1>1, <2>2, <2>4 DEF SweepInv, CreatorsNew, Swept, Sweeping
<1>6. ASSUME NEW c \in Client, TimeOut(c) PROVE SweepInv'
  <2>1. UNCHANGED <<hpc, job, files, clock>>
    BY <1>6 DEF TimeOut, server
  <2>2. FilesOld /\ JoinersStay
    BY <2>1 DEF FilesOld, JoinersStay, Joining
  <2> QED BY <1>1, <2>1, <2>2, SweepGoesOn DEF SweepInv, CreatorsNew
\* The steps outside the clean-up: each leaves the sweep of every other thread alone.
<1>7. ASSUME NEW h \in Handler, ~Sweeping(h), ~Sweeping(h)', FilesOld, JoinersStay, UNCHANGED clock,
             hpc'[h] \in {"create", "write", "rename", "register"} => job'[h].new,
             \A g \in Handler : g # h =>
               /\ job'[g] = job[g]
               /\ hpc'[g] = hpc[g] \/ (~Sweeping(g) /\ hpc'[g] = "error")
      PROVE  SweepInv'
  <2>1. ASSUME NEW g \in Handler PROVE Swept(g)'
    <3>1. CASE ~Sweeping(g)'
      BY <3>1 DEF Swept, Sweeping
    <3>2. CASE Sweeping(g)'
      <4>1. hpc'[g] = hpc[g] /\ Sweeping(g) /\ job'[g] = job[g]
        BY <1>7, <3>2 DEF Sweeping
      <4>2. clock' >= clock
        BY <1>1, <1>7
      <4> QED BY <1>1, <1>7, <4>1, <4>2, SweepGoesOn
    <3> QED BY <3>1, <3>2
  <2>2. CreatorsNew'
    BY <1>1, <1>7 DEF CreatorsNew
  <2> QED BY <2>1, <2>2 DEF SweepInv
<1>8. ASSUME NEW h \in Handler, OpenPart(h) PROVE SweepInv'
  <2>1. FilesOld
    BY <1>8 DEF OpenPart, FilesOld
  <2>2. JoinersStay
    BY <1>1, <1>8 DEF OpenPart, JoinersStay, Joining
  <2> QED BY <1>1, <1>7, <1>8, <2>1, <2>2 DEF OpenPart, CreatorsNew, Sweeping, counts
<1>9. ASSUME NEW h \in Handler, WriteChunk(h) PROVE SweepInv'
  <2>1. FilesOld
    <3>1. CASE \E f \in FileOf(job[h].client, TRUE) : \E g \in Touched(f) :
                 files' = (files \ {f}) \union {[g EXCEPT !.bytes = @ + 1]}
      <4>1. PICK f \in FileOf(job[h].client, TRUE) : \E g \in Touched(f) :
              files' = (files \ {f}) \union {[g EXCEPT !.bytes = @ + 1]}
        BY <3>1
      <4>2. f \in files /\ f.part
        BY DEF FileOf
      <4>5. PICK g \in Touched(f) : files' = (files \ {f}) \union {[g EXCEPT !.bytes = @ + 1]}
        BY <4>1
      <4>6. g \in File /\ g.id = f.id /\ g.part = f.part /\ (g.mtime = f.mtime \/ g.mtime = clock)
        BY <1>1, <4>2 DEF Touched, File
      <4> DEFINE e == [g EXCEPT !.bytes = @ + 1]
      <4>3. e.id = f.id /\ e.part = f.part /\ (e.mtime = f.mtime \/ e.mtime = clock)
        BY <4>6 DEF File
      <4>4. files' = (files \ {f}) \union {e}
        BY <4>5
      <4> HIDE DEF e
      <4> QED BY <4>2, <4>3, <4>4 DEF FilesOld
    <3>2. CASE \A e \in files' : e \in files
      BY <3>2 DEF FilesOld
    <3> QED BY <1>9, <3>1, <3>2 DEF WriteChunk
  <2>2. \A g \in Handler : job'[g].client = job[g].client /\ job'[g].new = job[g].new
    <3>1. CASE job' = [job EXCEPT ![h].to = @ + 1]
      <4>1. job'[h] = [job[h] EXCEPT !.to = @ + 1] /\ \A g \in Handler : g # h => job'[g] = job[g]
        BY <1>1, <3>1
      <4>2. job'[h].client = job[h].client /\ job'[h].new = job[h].new
        BY <1>1, <4>1 DEF Job
      <4> QED BY <4>1, <4>2
    <3>2. CASE UNCHANGED job
      BY <3>2
    <3> QED BY <1>9, <3>1, <3>2 DEF WriteChunk
  <2>3. /\ hpc[h] = "write" /\ hpc'[h] \in {"write", "error"} /\ UNCHANGED clock
        /\ \A g \in Handler : g # h => job'[g] = job[g] /\ hpc'[g] = hpc[g]
    BY <1>1, <1>9 DEF WriteChunk, counts
  <2>4. JoinersStay
    BY <2>2, <2>3 DEF JoinersStay, Joining
  <2> QED BY <1>1, <1>7, <2>1, <2>2, <2>3, <2>4 DEF CreatorsNew, Sweeping
<1>10. ASSUME NEW h \in Handler, ClosePart(h) PROVE SweepInv'
  <2>1. FilesOld
    BY <1>10 DEF ClosePart, FilesOld, server
  <2>2. JoinersStay
    BY <1>1, <1>10 DEF ClosePart, JoinersStay, Joining
  <2> QED BY <1>1, <1>7, <1>10, <2>1, <2>2 DEF ClosePart, CreatorsNew, Sweeping, counts
<1>11. ASSUME NEW h \in Handler, RenamePart(h) PROVE SweepInv'
  <2>1. UNCHANGED <<job, clock>> /\ hpc[h] = "rename" /\ job[h].new
    BY <1>1, <1>11 DEF RenamePart, CreatorsNew, counts
  <2>2. FilesOld
    <3>1. CASE /\ Turn(h, "rename", "register")
               /\ \E f \in FileOf(job[h].client, TRUE) :
                    files' = (files \ {f}) \union {[f EXCEPT !.part = FALSE]}
      <4>1. PICK f \in FileOf(job[h].client, TRUE) :
              files' = (files \ {f}) \union {[f EXCEPT !.part = FALSE]}
        BY <3>1
      <4>2. f \in files /\ f.part /\ f.id = job[h].client
        BY DEF FileOf
      <4> DEFINE e == [f EXCEPT !.part = FALSE]
      <4>3. e.id = f.id /\ e.mtime = f.mtime
        BY <4>2 DEF File
      <4>4. files' = (files \ {f}) \union {e}
        BY <4>1
      <4> HIDE DEF e
      <4>5. Joining(e)'
        BY <1>1, <2>1, <3>1, <4>2, <4>3 DEF Joining
      <4> QED BY <4>2, <4>3, <4>4, <4>5 DEF FilesOld
    <3>2. CASE UNCHANGED files
      BY <3>2 DEF FilesOld
    <3> QED BY <1>11, <3>1, <3>2 DEF RenamePart
  <2>3. JoinersStay
    BY <1>1, <1>11 DEF RenamePart, JoinersStay, Joining
  <2> QED BY <1>1, <1>7, <1>11, <2>1, <2>2, <2>3 DEF RenamePart, Sweeping
<1>12. ASSUME NEW h \in Handler, Register(h) PROVE SweepInv'
  <2>1. /\ UNCHANGED <<job, files, clock>> /\ hpc[h] = "register" /\ hpc'[h] = "lock"
        /\ \A g \in Handler : g # h =>
             hpc'[g] = hpc[g] \/ (hpc[g] \in {"expire", "active"} /\ hpc'[g] = "error")
    BY <1>1, <1>12 DEF Register, counts
  <2>2. FilesOld
    BY <2>1 DEF FilesOld
  <2>3. JoinersStay
    BY <2>1 DEF JoinersStay, Joining
  <2> QED BY <1>1, <1>7, <2>1, <2>2, <2>3 DEF Sweeping
<1>13. ASSUME NEW h \in Handler, TakeLock(h) PROVE SweepInv'
  <2>1. \A g \in Handler : ~Sweeping(g)
    BY <1>2, <1>13 DEF TakeLock
  <2>2. \A g \in Handler : ~Sweeping(g)'
    BY <1>1, <1>13, <2>1 DEF TakeLock, Sweeping
  <2> QED BY <1>1, <1>13, <2>2 DEF TakeLock, SweepInv, CreatorsNew, Swept, Sweeping
<1>14. ASSUME NEW h \in Handler, ExpireTransfers(h) PROVE SweepInv'
  <2>1. FilesOld
    BY <1>14 DEF ExpireTransfers, FilesOld
  <2>2. JoinersStay
    BY <1>1, <1>14 DEF ExpireTransfers, JoinersStay, Joining
  <2> QED BY <1>1, <1>7, <1>14, <2>1, <2>2 DEF ExpireTransfers, Sweeping, counts
<1>15. ASSUME NEW h \in Handler, ListActive(h) PROVE SweepInv'
  <2>1. \A g \in Handler : g # h => ~Sweeping(g)'
    BY <1>1, <1>15 DEF ListActive, LockHeld, Locked, Sweeping
  <2>2. hpc'[h] = "spools" /\ job'[h].deadline = clock /\ UNCHANGED clock
    BY ZenonT(30), <1>1, <1>15 DEF ListActive, Job, counts
  <2>3. CreatorsNew'
    BY <1>1, <1>15 DEF ListActive, CreatorsNew
  <2> QED BY <2>1, <2>2, <2>3 DEF SweepInv, Swept, Sweeping
<1>16. ASSUME NEW h \in Handler, RemoveOrphans(h) PROVE SweepInv'
  <2>1. UNCHANGED <<job, clock>> /\ \A e \in files' : e \in files
    BY <1>16 DEF RemoveOrphans, counts
  <2>2. \A g \in Handler : g # h => ~Sweeping(g)'
    BY <1>1, <1>16 DEF RemoveOrphans, LockHeld, Locked, Sweeping
  <2>3. \A f \in files : Joining(f) => Joining(f)'
    BY <1>1, <1>16 DEF RemoveOrphans, Joining
  <2>4. Swept(h) /\ Sweeping(h)
    BY <1>1, <1>16 DEF RemoveOrphans, Sweeping
  <2>5. Swept(h)'
    <3>1. CASE Turn(h, "spools", "parts")
      BY <1>1, <1>16, <2>1, <2>4, <3>1 DEF RemoveOrphans, Swept, Sweeping, Orphans, Stale
    <3>2. CASE Turn(h, "parts", "page")
      BY <1>1, <1>16, <2>1, <2>3, <2>4, <3>2 DEF RemoveOrphans, Swept, Sweeping, Orphans, Stale
    <3> QED BY <1>16, <3>1, <3>2 DEF RemoveOrphans
  <2>6. CreatorsNew'
    BY <1>1, <1>16 DEF RemoveOrphans, CreatorsNew
  <2>7. \A g \in Handler : Swept(g)'
    BY <2>2, <2>5 DEF Swept, Sweeping
  <2> QED BY <2>6, <2>7 DEF SweepInv
<1>17. ASSUME NEW h \in Handler, ReadPage(h) PROVE SweepInv'
  <2>1. /\ hpc[h] = "page" /\ hpc'[h] \in {"answer", "error"}
        /\ \A g \in Handler : g # h => hpc'[g] = hpc[g] /\ job'[g] = job[g]
    BY <1>1, <1>17 DEF ReadPage
  <2>2. \A g \in Handler : ~Sweeping(g)'
    BY <1>2, <2>1 DEF Sweeping
  <2>3. CreatorsNew'
    BY <1>1, <2>1 DEF CreatorsNew
  <2> QED BY <2>2, <2>3 DEF SweepInv, Swept, Sweeping
<1>18. ASSUME NEW h \in Handler, AnswerPage(h) \/ AnswerError(h) PROVE SweepInv'
  <2>1. /\ hpc[h] \in {"answer", "error"} /\ hpc'[h] = "idle" /\ UNCHANGED <<files, clock>>
        /\ \A g \in Handler : g # h => hpc'[g] = hpc[g] /\ job'[g] = job[g]
    BY <1>1, <1>18 DEF AnswerPage, AnswerError, server, counts
  <2>2. FilesOld /\ JoinersStay
    BY <2>1 DEF FilesOld, JoinersStay, Joining
  <2> QED BY <1>7, <2>1, <2>2 DEF Sweeping
<1> QED
  BY <1>3, <1>4, <1>5, <1>6, <1>8, <1>9, <1>10, <1>11, <1>12, <1>13, <1>14, <1>15, <1>16,
     <1>17, <1>18 DEF SpoolNext, Serve, Create, CleanUp

\* When a page is read, the clean-up that ran before it has left no stale file but
\* one renamed meanwhile, provided that files may stay at all (a positive TTL).
THEOREM SweptBeforePage ==
  ASSUME TTL # 0
  PROVE  SpoolSpec => []CleanBeforePage
<1>1. SpoolInit => SweepInv
  BY DEF SpoolInit, SweepInv, CreatorsNew, Swept, Sweeping
<1>2. SpoolInv /\ SpoolInv' /\ SweepInv /\ [SpoolNext]_svars => SweepInv'
  BY SweepStep DEF SpoolInv
<1>3. SweepInv => CleanBeforePage
  BY DEF SweepInv, Swept, CleanBeforePage, Joining
<1> QED BY <1>1, <1>2, <1>3, SpoolInvariant, PTL DEF SpoolSpec
=============================================================================
