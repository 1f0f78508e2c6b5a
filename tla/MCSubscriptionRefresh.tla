----------------------- MODULE MCSubscriptionRefresh -----------------------
(* SubscriptionRefresh for TLC: the node lists a fetch may return. *)
EXTENDS SubscriptionRefresh, TLC
CONSTANTS u1, u2

\* One node; nothing parsable, two nodes or one node twice; the same two.
OneBody == {<<u1>>}
TwiceBodies == {<<>>, <<u1, u2>>, <<u2, u2>>}
SteadyBodies == {<<u1, u2>>}

\* Where selects as SelectSeq does, on every list of up to three rows.
ASSUME WhereSelects ==
    \A n \in 0 .. 3 : \A rows \in [1 .. n -> Uris] : \A T \in SUBSET Uris :
        Where(rows, T) = SelectSeq(rows, LAMBDA r : r \in T)

WorkerSymmetry == Permutations(Workers)
=============================================================================
