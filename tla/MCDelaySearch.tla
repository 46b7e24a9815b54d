--------------------------- MODULE MCDelaySearch ---------------------------
(* An instance of DelaySearch for TLC: three single-band delays with two    *)
(* points each. *)
EXTENDS DelaySearch

\* up to two bins have a power, of two sizes: ties and maxima anywhere
MCSpectra ==
  {f \in [Bin -> 0..2] : Cardinality({b \in Bin : f[b] > 0}) <= 2}

\* the windows select an interval of slices and an interval of their points:
\* all, none, or the second point of the last two slices
Selected(slices, points) ==
  {b \in Bin : b \div PerSlice \in slices /\ b % PerSlice \in points}
MCWindows == {Bin, {}, Selected({1, 2}, {1})}

MCNone == -1
=============================================================================
