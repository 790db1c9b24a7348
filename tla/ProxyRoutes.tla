---------------------------- MODULE ProxyRoutes ----------------------------
(***************************************************************************)
(* The bounded table of route candidates that inspect_proxy_activity keeps *)
(* while it scans (src/services/log_analysis.py, _analyze_proxy_activity   *)
(* and _record_proxy_route_candidate).  A table that is full gives up its  *)
(* candidate of least estimate, and the newcomer inherits that estimate.   *)
(* seen, kept here only to state what the table promises, is the number of *)
(* lines of each route scanned so far.                                     *)
(***************************************************************************)
EXTENDS Integers, FiniteSets

CONSTANTS Route, CandidateLimit

\* A full table has a candidate to give up.
LimitPositive == CandidateLimit \in Nat \ {0}

VARIABLES estimates,   \* candidate -> estimated count
          overflowed,  \* a candidate was given up
          seen
routeVars == <<estimates, overflowed, seen>>

Candidates == DOMAIN estimates

Least(r) == \A s \in Candidates : estimates[r] <= estimates[s]

RoutesInit ==
    /\ estimates = [r \in {} |-> 0]
    /\ overflowed = FALSE
    /\ seen = [r \in Route |-> 0]

Estimated(r) ==
    /\ r \in Candidates
    /\ estimates' = [estimates EXCEPT ![r] = @ + 1]
    /\ UNCHANGED overflowed

Joins(r) ==
    /\ r \notin Candidates
    /\ Cardinality(Candidates) < CandidateLimit
    /\ estimates' = [s \in Candidates \union {r} |-> IF s = r THEN 1 ELSE estimates[s]]
    /\ UNCHANGED overflowed

Displaces(r, victim) ==
    /\ r \notin Candidates
    /\ ~(Cardinality(Candidates) < CandidateLimit)
    /\ victim \in Candidates /\ Least(victim)
    /\ estimates' = [s \in (Candidates \ {victim}) \union {r} |->
                        IF s = r THEN estimates[victim] + 1 ELSE estimates[s]]
    /\ overflowed' = TRUE

RecordRoute(r) ==
    /\ Estimated(r) \/ Joins(r) \/ \E victim \in Candidates : Displaces(r, victim)
    /\ seen' = [seen EXCEPT ![r] = @ + 1]

RoutesNext == \E r \in Route : RecordRoute(r)

RoutesSpec == RoutesInit /\ [][RoutesNext]_routeVars
-----------------------------------------------------------------------------
RoutesTypeOK ==
    /\ Candidates \subseteq Route
    /\ estimates \in [Candidates -> Nat \ {0}]
    /\ overflowed \in BOOLEAN
    /\ seen \in [Route -> Nat]

\* No estimate is too low, and a route that is not a candidate was not seen more
\* often than any candidate is estimated: what the table lets go is never more
\* frequent than what it keeps claims to be.
NothingHeavyDropped ==
    /\ \A r \in Candidates : seen[r] <= estimates[r]
    /\ \A r \in Route \ Candidates : \A s \in Candidates : seen[r] <= estimates[s]

\* Until it overflows the table is the exact count of every route.
ExactUntilFull ==
    ~overflowed => /\ \A r \in Candidates : estimates[r] = seen[r]
                   /\ \A r \in Route \ Candidates : seen[r] = 0

\* The table never exceeds its limit, and is full once it overflowed.
TableBounded ==
    /\ IsFiniteSet(Candidates)
    /\ Cardinality(Candidates) <= CandidateLimit
    /\ overflowed => Cardinality(Candidates) = CandidateLimit

RoutesInv == RoutesTypeOK /\ NothingHeavyDropped /\ ExactUntilFull /\ TableBounded
=============================================================================
