---------------------------- MODULE LogStreams ----------------------------
(***************************************************************************)
(* What a Docker-log transfer promises to the collection that reads it: a  *)
(* prefix of the log that grows page by page, in order and without gaps,   *)
(* and ends either with the whole log or with an error.                    *)
(***************************************************************************)
EXTENDS Naturals, Sequences

CONSTANT Client

VARIABLES
  logs,     \* the length of each log
  got,      \* what each collection has received
  left,     \* the collections that have not ended
  whole     \* the collections that ended without an error

streamVars == <<logs, got, left, whole>>

Prefix(n) == [i \in 1..n |-> i]

StreamInit ==
  /\ logs \in [Client -> Nat]
  /\ got = [c \in Client |-> << >>]
  /\ left = Client
  /\ whole = {}

Receive(c) ==
  /\ c \in left
  /\ \E n \in Len(got[c])..logs[c] : got' = [got EXCEPT ![c] = Prefix(n)]
  /\ \/ UNCHANGED <<left, whole>>
     \/ /\ got'[c] = Prefix(logs[c])
        /\ left' = left \ {c} /\ whole' = whole \union {c}
  /\ UNCHANGED logs

\* One error, or the socket app's restart, can end several.
Break ==
  /\ left' \subseteq left
  /\ UNCHANGED <<logs, got, whole>>

StreamNext == Break \/ \E c \in Client : Receive(c)

StreamSpec == StreamInit /\ [][StreamNext]_streamVars
=============================================================================
