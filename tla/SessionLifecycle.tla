-------------------------- MODULE SessionLifecycle --------------------------
(***************************************************************************)
(* What the agent_sessions table promises: a name is taken once, by one      *)
(* caller, and is theirs for good; a session is open, then closed, and only  *)
(* a caller of the session workspace closes it.                            *)
(***************************************************************************)
CONSTANTS Name, Owner, Absent

VARIABLES owner,   \* who has the name
          closed   \* the names of closed sessions

lifecycleVars == <<owner, closed>>

LifecycleInit == owner = [n \in Name |-> Absent] /\ closed = {}

Open(n, k) ==
  /\ owner[n] = Absent
  /\ owner' = [owner EXCEPT ![n] = k]
  /\ UNCHANGED closed

Close(n) ==
  /\ owner[n] # Absent /\ owner[n].workspace = "session" /\ n \notin closed
  /\ closed' = closed \union {n}
  /\ UNCHANGED owner

LifecycleNext == \E n \in Name : Close(n) \/ \E k \in Owner : Open(n, k)

LifecycleSpec == LifecycleInit /\ [][LifecycleNext]_lifecycleVars
=============================================================================
