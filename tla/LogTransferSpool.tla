-------------------------- MODULE LogTransferSpool --------------------------
(***************************************************************************)
(* The Docker-log transfers of the socket app and the page loop of their   *)
(* client.  A collection asks for the logs of a container; the socket app  *)
(* streams them into a spool file, answers the first page, and keeps the   *)
(* file for the pages that are asked for next.  Every request runs in a    *)
(* thread of its own, which goes on when its client has given up.          *)
(*                                                                         *)
(* One RLock guards paging and clean-up.  Creating a spool, renaming it    *)
(* from .part and registering it happen outside that lock.                 *)
(*                                                                         *)
(* Abstracted: a collection asks for one transfer, which has its name, as  *)
(* ids and file names are unique; bytes come in units, known by their      *)
(* place in the log; the monotonic and the wall clock advance together;    *)
(* a thread is at hand whenever a request is sent.                         *)
(***************************************************************************)
EXTENDS Naturals, Sequences

CONSTANTS
  Handler,       \* request threads of the socket app
  Client,        \* collections of one Docker source each
  NoHandler,     \* the RLock is free
  NoClient,      \* a thread without a request
  TTL,           \* LOG_TRANSFER_TTL_SECONDS
  MaxBytes,      \* MAX_LOG_TRANSFER_BYTES
  PageBytes,     \* byte limit of one page
  MaxRestarts,   \* bound: restarts of the socket app
  MaxTimeouts,   \* bound: requests given up by their client
  MaxTime        \* bound: the clock

ASSUME SpoolAssumption ==
  /\ NoHandler \notin Handler /\ NoClient \notin Client
  /\ TTL \in Nat
  /\ MaxBytes \in Nat \ {0} /\ PageBytes \in Nat \ {0}
  /\ MaxRestarts \in Nat /\ MaxTimeouts \in Nat /\ MaxTime \in Nat

VARIABLES
  logs,        \* what Docker streams for each collection, frozen by its until
  transfers,   \* _transfers: the registered transfers
  files,       \* files in LOG_TRANSFER_DIR
  rlock,       \* holder of the RLock
  hpc,         \* step of each request thread
  job,         \* the request each thread serves
  cpc,         \* state of each collection
  got,         \* the bytes it has written to its output file
  clock,       \* seconds
  restarts,    \* restarts so far (bounds the model)
  timeouts     \* requests given up so far (bounds the model)

server  == <<transfers, files, rlock>>
counts  == <<clock, restarts, timeouts>>
svars   == <<logs, server, hpc, job, cpc, got, counts>>

Locked == {"expire", "active", "spools", "parts", "page"}

HandlerStep == {"idle", "create", "write", "rename", "register", "lock",
                "answer", "error"} \union Locked

Transfer == [id : Client, next : Nat, bytes : Nat, last : Nat]
File     == [id : Client, part : BOOLEAN, bytes : Nat, mtime : Nat]

\* new: the request creates the transfer; offset, to: the page, asked and answered;
\* more: whether it is truncated; deadline, active: what the clean-up works with.
Job == [client : Client \union {NoClient}, new : BOOLEAN, offset : Nat, to : Nat, more : BOOLEAN,
        deadline : Nat, active : SUBSET Client]

SpoolTypeOK ==
  /\ logs \in [Client -> Nat]
  /\ transfers \subseteq Transfer
  /\ files \subseteq File
  /\ rlock \in Handler \union {NoHandler}
  /\ hpc \in [Handler -> HandlerStep]
  /\ job \in [Handler -> Job]
  /\ cpc \in [Client -> {"idle", "asking", "paging", "collected", "failed"}]
  /\ got \in [Client -> Seq(Nat)]
  /\ clock \in Nat /\ restarts \in Nat /\ timeouts \in Nat

\* Definitions with a Mutant suffix are used by no specification: each is the
\* definition below it with a plausible mistake, which a property must detect.

TransferOf(c) == {t \in transfers : t.id = c}
FileOf(c, part) == {f \in files : f.id = c /\ f.part = part}

StaleMutant(time, deadline) == time <= deadline

\* Last used TTL seconds before the deadline, or earlier.
Stale(time, deadline) == time + TTL <= deadline

Turn(h, from, to) == hpc[h] = from /\ hpc' = [hpc EXCEPT ![h] = to]

NoJob == [client |-> NoClient, new |-> FALSE, offset |-> 0, to |-> 0,
          more |-> FALSE, deadline |-> 0, active |-> {}]

SpoolInit ==
  /\ logs \in [Client -> 0..(MaxBytes + 1)]
  /\ transfers = {} /\ files = {} /\ rlock = NoHandler
  /\ hpc = [h \in Handler |-> "idle"]
  /\ job = [h \in Handler |-> NoJob]
  /\ cpc = [c \in Client |-> "idle"]
  /\ got = [c \in Client |-> << >>]
  /\ clock = 0 /\ restarts = 0 /\ timeouts = 0

-----------------------------------------------------------------------------
(* The collection.                                                         *)

\* The first request creates the transfer, the others go on at the next offset,
\* which is the number of bytes received so far.
Ask(c) ==
  /\ cpc[c] \in {"idle", "paging"}
  /\ cpc' = [cpc EXCEPT ![c] = "asking"]
  /\ \E h \in Handler :
       /\ Turn(h, "idle", IF cpc[c] = "idle" THEN "create" ELSE "lock")
       /\ job' = [job EXCEPT ![h] = [NoJob EXCEPT !.client = c, !.new = cpc[c] = "idle",
                                                  !.offset = Len(got[c])]]
  /\ UNCHANGED <<logs, server, got, counts>>

\* No answer within the socket timeout: the source fails, the thread goes on.
TimeOut(c) ==
  /\ timeouts < MaxTimeouts /\ timeouts' = timeouts + 1
  /\ cpc[c] = "asking" /\ cpc' = [cpc EXCEPT ![c] = "failed"]
  /\ UNCHANGED <<logs, server, hpc, job, got, clock, restarts>>

-----------------------------------------------------------------------------
(* Creating a spool, without the lock.                                     *)

\* containers.get may refuse before the file is created.
OpenPart(h) ==
  /\ \/ /\ Turn(h, "create", "write")
        /\ files' = files \union
             {[id |-> job[h].client, part |-> TRUE, bytes |-> 0, mtime |-> clock]}
     \/ Turn(h, "create", "error") /\ UNCHANGED files
  /\ UNCHANGED <<logs, transfers, rlock, job, cpc, got, counts>>

\* The part file as the thread sees it: writing goes on when it has been removed.
Written(h) == job[h].to

Touched(f) == {[f EXCEPT !.mtime = clock], f}

\* A chunk that would pass the cap, or a stream that breaks, removes the part file.
\* The write is buffered: the file's mtime may still be that of an earlier flush.
WriteChunk(h) ==
  /\ \/ /\ Turn(h, "write", "write")
        /\ Written(h) < logs[job[h].client] /\ Written(h) + 1 <= MaxBytes
        /\ job' = [job EXCEPT ![h].to = @ + 1]
        /\ \/ FileOf(job[h].client, TRUE) = {} /\ UNCHANGED files
           \/ \E f \in FileOf(job[h].client, TRUE) : \E g \in Touched(f) :
                files' = (files \ {f}) \union {[g EXCEPT !.bytes = @ + 1]}
     \/ /\ Turn(h, "write", "error")
        /\ files' = files \ FileOf(job[h].client, TRUE)
        /\ UNCHANGED job
  /\ UNCHANGED <<logs, transfers, rlock, cpc, got, counts>>

ClosePartMutant(h) ==
  /\ Turn(h, "write", "rename")
  /\ Written(h) = logs[job[h].client] \/ Written(h) = MaxBytes
  /\ UNCHANGED <<logs, server, job, cpc, got, counts>>

\* The stream has ended and the file is closed.
ClosePart(h) ==
  /\ Turn(h, "write", "rename")
  /\ Written(h) = logs[job[h].client]
  /\ UNCHANGED <<logs, server, job, cpc, got, counts>>

\* A part file that a clean-up removed meanwhile cannot be renamed.
RenamePart(h) ==
  /\ \/ /\ Turn(h, "rename", "register")
        /\ \E f \in FileOf(job[h].client, TRUE) :
             files' = (files \ {f}) \union {[f EXCEPT !.part = FALSE]}
     \/ /\ Turn(h, "rename", "error")
        /\ FileOf(job[h].client, TRUE) = {} /\ UNCHANGED files
  /\ UNCHANGED <<logs, transfers, rlock, job, cpc, got, counts>>

\* Another thread may be iterating over the transfers: its loop then fails, and its
\* request with it, giving the lock back.
Register(h) ==
  /\ transfers' = transfers \union
       {[id |-> job[h].client, next |-> 0, bytes |-> Written(h), last |-> clock]}
  /\ \/ Turn(h, "register", "lock") /\ UNCHANGED rlock
     \/ /\ transfers # {}
        /\ hpc[h] = "register"
        /\ \E g \in Handler :
             /\ hpc[g] \in {"expire", "active"}
             /\ hpc' = [hpc EXCEPT ![h] = "lock", ![g] = "error"]
        /\ rlock' = NoHandler
  /\ UNCHANGED <<logs, files, job, cpc, got, counts>>

-----------------------------------------------------------------------------
(* A page, under the lock: clean up, then read.                            *)

TakeLock(h) ==
  /\ rlock = NoHandler /\ rlock' = h
  /\ Turn(h, "lock", "expire")
  /\ UNCHANGED <<logs, transfers, files, job, cpc, got, counts>>

\* Transfers nobody used for the TTL, and their spool files.
ExpireTransfers(h) ==
  /\ Turn(h, "expire", "active")
  /\ LET expired == {t \in transfers : Stale(t.last, clock)}
     IN /\ transfers' = transfers \ expired
        /\ files' = {f \in files : f.part \/ \A t \in expired : t.id # f.id}
  /\ UNCHANGED <<logs, rlock, job, cpc, got, counts>>

ListActiveMutant(h) ==
  /\ Turn(h, "active", "spools")
  /\ job' = [job EXCEPT ![h].active = {t.id : t \in transfers}, ![h].deadline = clock - TTL]
  /\ UNCHANGED <<logs, server, cpc, got, counts>>

ListActive(h) ==
  /\ Turn(h, "active", "spools")
  /\ job' = [job EXCEPT ![h].active = {t.id : t \in transfers}, ![h].deadline = clock]
  /\ UNCHANGED <<logs, server, cpc, got, counts>>

OrphansMutant(active, deadline) == {f \in files : Stale(f.mtime, deadline)}

\* Files of no active transfer, unchanged for the TTL.
Orphans(active, deadline) ==
  {f \in files : (f.part \/ f.id \notin active) /\ Stale(f.mtime, deadline)}

RemoveOrphansMutant(h) ==
  /\ \/ Turn(h, "spools", "parts") /\ files' = {f \in files :
          f.part \/ f \notin Orphans(job[h].active, job[h].deadline)}
     \/ Turn(h, "parts", "page") /\ UNCHANGED files
  /\ UNCHANGED <<logs, transfers, rlock, job, cpc, got, counts>>

RemoveOrphans(h) ==
  /\ \/ Turn(h, "spools", "parts") /\ files' = {f \in files :
          f.part \/ f \notin Orphans(job[h].active, job[h].deadline)}
     \/ Turn(h, "parts", "page") /\ files' = {f \in files :
          ~f.part \/ f \notin Orphans(job[h].active, job[h].deadline)}
  /\ UNCHANGED <<logs, transfers, rlock, job, cpc, got, counts>>

PageEndMutant(f, offset) == offset + PageBytes

\* What a page from offset holds of a file.
PageEnd(f, offset) == IF offset + PageBytes < f.bytes THEN offset + PageBytes ELSE f.bytes

ReadPageMutant(h) ==
  /\ UNCHANGED <<logs, cpc, got, counts>>
  /\ LET mine == {t \in TransferOf(job[h].client) : t.next = job[h].offset}
         spool == FileOf(job[h].client, FALSE)
     IN \/ /\ Turn(h, "page", "answer") /\ rlock' = NoHandler
           /\ \E t \in mine, f \in spool :
                LET to   == PageEnd(f, t.next)
                    more == to < t.bytes
                IN /\ job' = [job EXCEPT ![h].to = to, ![h].more = more]
                   /\ transfers' = (transfers \ {t}) \union
                        IF more THEN {[t EXCEPT !.next = to, !.last = clock]} ELSE {}
                   /\ files' = IF more THEN files ELSE files \ {f}
        \/ /\ Turn(h, "page", "error")
           /\ mine = {} \/ spool = {}
           /\ UNCHANGED <<job, transfers, files, rlock>>

\* A page that is not the last moves the cursor; the last removes transfer and file.
\* Unknown or expired, another offset, or no file: an error.  A transfer that expired
\* before its first page has lost its file as well.
ReadPage(h) ==
  /\ rlock' = NoHandler
  /\ UNCHANGED <<logs, cpc, got, counts>>
  /\ LET mine == {t \in TransferOf(job[h].client) : t.next = job[h].offset}
         spool == FileOf(job[h].client, FALSE)
     IN \/ /\ Turn(h, "page", "answer")
           /\ \E t \in mine, f \in spool :
                LET to   == PageEnd(f, t.next)
                    more == to < t.bytes
                IN /\ job' = [job EXCEPT ![h].to = to, ![h].more = more]
                   /\ transfers' = (transfers \ {t}) \union
                        IF more THEN {[t EXCEPT !.next = to, !.last = clock]} ELSE {}
                   /\ files' = IF more THEN files ELSE files \ {f}
        \/ /\ Turn(h, "page", "error")
           /\ mine = {} \/ spool = {}
           /\ UNCHANGED <<job, transfers, files>>

-----------------------------------------------------------------------------
(* The answer, which a client that has given up does not read.             *)

PageUnits(h) == [i \in 1..(job[h].to - job[h].offset) |-> job[h].offset + i]

\* A truncated page that brings nothing is refused by the client.
AnswerPage(h) ==
  /\ Turn(h, "answer", "idle") /\ job' = [job EXCEPT ![h] = NoJob]
  /\ LET c == job[h].client
     IN IF cpc[c] # "asking" THEN UNCHANGED <<cpc, got>>
        ELSE /\ got' = [got EXCEPT ![c] = @ \o PageUnits(h)]
             /\ cpc' = [cpc EXCEPT ![c] = IF ~job[h].more THEN "collected"
                                          ELSE IF PageUnits(h) = << >> THEN "failed"
                                          ELSE "paging"]
  /\ UNCHANGED <<logs, server, counts>>

AnswerError(h) ==
  /\ Turn(h, "error", "idle") /\ job' = [job EXCEPT ![h] = NoJob]
  /\ LET c == job[h].client
     IN cpc' = [cpc EXCEPT ![c] = IF @ = "asking" THEN "failed" ELSE @]
  /\ UNCHANGED <<logs, server, got, counts>>

-----------------------------------------------------------------------------
\* Threads, transfers and lock are gone; spool files stay unless they are stale.
Restart ==
  /\ restarts < MaxRestarts /\ restarts' = restarts + 1
  /\ transfers' = {} /\ rlock' = NoHandler
  /\ files' = files \ Orphans({}, clock)
  /\ hpc' = [h \in Handler |-> "idle"]
  /\ job' = [h \in Handler |-> NoJob]
  /\ cpc' = [c \in Client |-> IF cpc[c] = "asking" THEN "failed" ELSE cpc[c]]
  /\ UNCHANGED <<logs, got, clock, timeouts>>

SpoolTick ==
  /\ clock < MaxTime /\ clock' = clock + 1
  /\ UNCHANGED <<logs, server, hpc, job, cpc, got, restarts, timeouts>>

Create(h)  == OpenPart(h) \/ WriteChunk(h) \/ ClosePart(h) \/ RenamePart(h) \/ Register(h)
CleanUp(h) == ExpireTransfers(h) \/ ListActive(h) \/ RemoveOrphans(h)
Serve(h)   == Create(h) \/ TakeLock(h) \/ CleanUp(h) \/ ReadPage(h)
                \/ AnswerPage(h) \/ AnswerError(h)

SpoolNext ==
  \/ SpoolTick \/ Restart
  \/ \E c \in Client : Ask(c) \/ TimeOut(c)
  \/ \E h \in Handler : Serve(h)

SpoolSpec == SpoolInit /\ [][SpoolNext]_svars

\* Threads run, time passes, and a collection that has a page asks for the next.
SpoolFairness ==
  /\ \A h \in Handler : WF_svars(Serve(h))
  /\ \A c \in Client : WF_svars(cpc[c] = "paging" /\ Ask(c))
  /\ WF_svars(SpoolTick)

FairSpoolSpec == SpoolSpec /\ SpoolFairness

-----------------------------------------------------------------------------
(* Properties.                                                             *)

\* A source is collected only with every byte Docker streamed for it, once and in
\* order: never short after a cap, a broken stream, an expiry or a restart.
ExactLogs == \A c \in Client : cpc[c] = "collected" => got[c] = [i \in 1..logs[c] |-> i]

\* Once its first page was answered, a transfer has its whole file until it ends:
\* no clean-up, by whichever thread, takes the file of a transfer in use.
PagedHasSpool ==
  \A t \in transfers :
    t.next > 0 => \E f \in FileOf(t.id, FALSE) : f.bytes = t.bytes /\ t.bytes = logs[t.id]

\* When a page is read, no stale file is left but one that was renamed and is being
\* registered while the clean-up ran.
CleanBeforePage ==
  \A h \in Handler : hpc[h] = "page" =>
    \A f \in Orphans(job[h].active, job[h].deadline) :
      \E g \in Handler : job[g].client = f.id /\ job[g].new /\ hpc[g] \in {"register", "lock"}

\* A transfer is forgotten only with its last page, unused for the TTL, or by a restart.
KeptWhileUsed ==
  [][\A t \in transfers :
       \/ TransferOf(t.id)' # {}
       \/ t.last + TTL <= clock
       \/ restarts' # restarts
       \/ \E h \in Handler : hpc[h] = "page" /\ job[h].client = t.id]_svars

\* To its collection a transfer is a stream of the log that ends whole or in an error.
Streams == INSTANCE LogStreams WITH
             left  <- {c \in Client : cpc[c] \notin {"collected", "failed"}},
             whole <- {c \in Client : cpc[c] = "collected"}

ImplementsStreams == Streams!StreamSpec

\* A collection that asked ends, whatever its request met: no thread keeps the lock.
TransferEnds == \A c \in Client : cpc[c] = "asking" ~> cpc[c] \in {"collected", "failed"}
=============================================================================
