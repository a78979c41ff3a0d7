----------------------------- MODULE MCTlsScan -----------------------------
(* Instances of TlsScan for TLC. *)
EXTENDS TlsScan, TLC

CONSTANTS ab, ba, cd, dc

\* One connection's two tuples, and two connections'.
OneTuple == {ab, ba}
OneReverse == (ab :> ba) @@ (ba :> ab)
TwoTuples == OneTuple \cup {cd, dc}
TwoReverse == OneReverse @@ (cd :> dc) @@ (dc :> cd)

\* The permutations of the tuples that Reverse commutes with.
OneSymmetry == Permutations(OneTuple)
TwoSymmetry == {p \in Permutations(TwoTuples) : \A k \in TwoTuples : p[TwoReverse[k]] = TwoReverse[p[k]]}

\* Spans that nest, overlap at one end, and follow one another.
NestedSpans == {<<1, 1>>, <<1, 3>>, <<3, 4>>}
\* Spans of tuples used again and again.
RepeatedSpans == {<<1, 1>>, <<2, 2>>, <<3, 3>>, <<1, 3>>}
=============================================================================
