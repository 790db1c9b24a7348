---------------------------- MODULE PythonLists ----------------------------
(***************************************************************************)
(* Python's sorted(), for a key that is a number (what has the same key    *)
(* may come in any order) and for a key whose order tells all apart, and   *)
(* the list comprehension with a condition.                                *)
(***************************************************************************)
EXTENDS Integers, Sequences, SequencesExt

InOrder(s, Key(_)) == \A i, j \in DOMAIN s : i < j => Key(s[i]) <= Key(s[j])

Sorted(S, Key(_)) == CHOOSE s \in SetToSeqs(S) : InOrder(s, Key)

SortedBy(S, Before(_, _)) ==
  CHOOSE s \in SetToSeqs(S) : \A i, j \in DOMAIN s : i < j => Before(s[i], s[j])

\* [x for x in s if x is in S]
Filter(s, S) == FoldLeft(LAMBDA kept, x : IF x \in S THEN Append(kept, x) ELSE kept, << >>, s)

\* [x for x in s if P(x)]
Where(s, P(_)) == Filter(s, {x \in ToSet(s) : P(x)})
=============================================================================
