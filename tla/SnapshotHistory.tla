-------------------------- MODULE SnapshotHistory --------------------------
(***************************************************************************)
(* What the workflow snapshot metadata promises, without files, locks or   *)
(* interruptions.  Each project has at most one current revision, retired  *)
(* before the next one is published; revisions are numbered in the order   *)
(* they are published; a retired revision is forgotten only once it is     *)
(* older than the retention.                                               *)
(***************************************************************************)
EXTENDS Naturals

CONSTANTS Project, Retention

VARIABLES
  current,   \* per project, the set of current revisions: none or one
  retired,   \* per project, the archived revisions
  issued,    \* revisions published so far, which number them
  clock

hvars == <<current, retired, issued, clock>>

Revision == [id : Nat \ {0}, at : Nat]

HTypeOK ==
  /\ current \in [Project -> SUBSET Revision]
  /\ retired \in [Project -> SUBSET Revision]
  /\ issued \in Nat
  /\ clock \in Nat

HInit ==
  /\ current = [p \in Project |-> {}]
  /\ retired = [p \in Project |-> {}]
  /\ issued = 0
  /\ clock = 0

Retire(p) ==
  /\ \E v \in current[p] :
       /\ current' = [current EXCEPT ![p] = @ \ {v}]
       /\ retired' = [retired EXCEPT ![p] = @ \union {v}]
  /\ UNCHANGED <<issued, clock>>

\* The clock may have moved on to the second the revision is dated with.
PublishRevision(p) ==
  /\ current[p] = {}
  /\ clock' \in {clock, clock + 1}
  /\ issued' = issued + 1
  /\ current' = [current EXCEPT ![p] = {[id |-> issued', at |-> clock']}]
  /\ UNCHANGED retired

Forget(p) ==
  /\ \E v \in retired[p] :
       /\ v.at + Retention < clock
       /\ retired' = [retired EXCEPT ![p] = @ \ {v}]
  /\ UNCHANGED <<current, issued, clock>>

Pass == clock' = clock + 1 /\ UNCHANGED <<current, retired, issued>>

HNext == Pass \/ \E p \in Project : Retire(p) \/ PublishRevision(p) \/ Forget(p)

HSpec == HInit /\ [][HNext]_hvars
=============================================================================
