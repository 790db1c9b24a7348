-------------------------- MODULE SnapshotReaders --------------------------
(***************************************************************************)
(* The snapshot tools beside the collections of WorkflowSnapshots.  A tool *)
(* call loads a row, then its source rows, then opens the file the source  *)
(* row names: three steps, and no lock, so a collection may run in         *)
(* between.  A client keeps the pages it got, each with the locator it     *)
(* asked for and the snapshot_collected_at it was told.                    *)
(***************************************************************************)
EXTENDS WorkflowSnapshots

CONSTANTS
  Reader,      \* clients, each with one snapshot tool call in flight
  MaxReads     \* bound: files opened over a behaviour

VARIABLES
  rpc,         \* step of each call
  ctx,         \* SnapshotContext: the row asked for, then its source rows
  pages,       \* what each client has read
  reads        \* files opened so far (bounds the model)

rvars == <<rpc, ctx, pages, reads>>

Context == [project : Project, ask : Place, row : Nat, marker : Nat,
            files : [Source -> Place \union {NoFile}]]

\* row: the row whose metadata came with the page; content: whose lines it holds.
Page == [project : Project, ask : Place, marker : Nat, row : Nat, content : Nat]

ReadersTypeOK ==
  /\ TypeOK
  /\ rpc \in [Reader -> {"idle", "row", "context"}]
  /\ ctx \in [Reader -> Context]
  /\ pages \in [Reader -> SUBSET Page]
  /\ reads \in Nat

NoContext == [project |-> CHOOSE p \in Project : TRUE, ask |-> Latest, row |-> 0,
              marker |-> 0, files |-> [s \in Source |-> NoFile]]

ReadersInit ==
  /\ Init
  /\ rpc = [k \in Reader |-> "idle"]
  /\ ctx = [k \in Reader |-> NoContext]
  /\ pages = [k \in Reader |-> {}]
  /\ reads = 0

LocatedMutant(p, n) == IF n = Latest THEN LatestRows(p) ELSE ArchivedRows(p)

\* Without archive_name the latest row, else a row that has the name.
Located(p, n) == IF n = Latest THEN LatestRows(p) ELSE Claiming(p, n)

\* A lookup that finds no row is answered at once and changes nothing.
LoadRow(k) ==
  /\ reads < MaxReads
  /\ rpc[k] = "idle" /\ rpc' = [rpc EXCEPT ![k] = "row"]
  /\ \E p \in Project, n \in {Latest} \union {ArchiveName(r) : r \in rows} :
       \E r \in Located(p, n) :
         ctx' = [ctx EXCEPT ![k].project = p, ![k].ask = n,
                            ![k].row = r.id, ![k].marker = r.at]
  /\ UNCHANGED <<vars, pages, reads>>

LoadSourcesMutant(k) ==
  /\ rpc[k] = "row" /\ rpc' = [rpc EXCEPT ![k] = "context"]
  /\ \E r \in rows : r.id = ctx[k].row /\ ctx' = [ctx EXCEPT ![k].files = r.files[CHOOSE s \in Source : TRUE]]
  /\ UNCHANGED <<vars, pages, reads>>

\* The source rows by their foreign key: none if the row was deleted meanwhile.
LoadSources(k) ==
  /\ rpc[k] = "row" /\ rpc' = [rpc EXCEPT ![k] = "context"]
  /\ \/ \E r \in rows : r.id = ctx[k].row /\ ctx' = [ctx EXCEPT ![k].files = r.files]
     \/ (\A r \in rows : r.id # ctx[k].row) /\ UNCHANGED ctx
  /\ UNCHANGED <<vars, pages, reads>>

\* What opening the path of source s finds: nothing when the file is missing.
Opened(c, s) == {d.content[s] : d \in DirAt(c.project, c.files[s])} \ {0}

\* An unknown source, or a missing file, is an error result without a page.
ReadSource(k) ==
  /\ rpc[k] = "context" /\ rpc' = [rpc EXCEPT ![k] = "idle"]
  /\ reads' = reads + 1
  /\ \E s \in Source :
       pages' = [pages EXCEPT ![k] = @ \union
         {[project |-> ctx[k].project, ask |-> ctx[k].ask, marker |-> ctx[k].marker,
           row |-> ctx[k].row, content |-> w] : w \in Opened(ctx[k], s)}]
  /\ ctx' = [ctx EXCEPT ![k] = NoContext]
  /\ UNCHANGED vars

ReaderStep(k) == LoadRow(k) \/ LoadSources(k) \/ ReadSource(k)

ReadersNext ==
  \/ Next /\ UNCHANGED rvars
  \/ \E k \in Reader : ReaderStep(k)

ReadersSpec == ReadersInit /\ [][ReadersNext]_<<vars, rvars>>

-----------------------------------------------------------------------------
(* Properties.                                                             *)

SameLocator(g, h) == g.project = h.project /\ g.ask = h.ask

\* Keeping to an archive_name, a client reads one revision however many pages it
\* takes and whatever is collected, archived or pruned meanwhile (playbook).
ArchivePagesOneRevision ==
  \A k \in Reader : \A g, h \in pages[k] :
    SameLocator(g, h) /\ g.ask # Latest => g.content = h.content

\* A page is never older than the metadata that came with it: "latest" may have
\* been replaced by a newer snapshot between the lookup and the read, not an older.
NeverOlderThanMetadata == \A k \in Reader : \A g \in pages[k] : g.content >= g.row

\* snapshot_collected_at tells revisions apart: pages that carry the same marker
\* come from the same revision and may be combined (playbook).
MarkerIdentifiesRevision ==
  \A k \in Reader : \A g, h \in pages[k] :
    SameLocator(g, h) /\ g.marker = h.marker => g.content = h.content
=============================================================================
