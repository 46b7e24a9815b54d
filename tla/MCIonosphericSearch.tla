-------------------------- MODULE MCIonosphericSearch -------------------------
(* Instances of IonosphericSearch for TLC. *)
EXTENDS IonosphericSearch

\* numbers of coarse points and their distances, up to the width of the medium grid
Grids == {<<1, 0>>, <<2, 40>>, <<3, 4>>, <<3, 220>>, <<5, 60>>, <<6, 40>>, <<7, 20>>, <<12, 44>>, <<13, 40>>}

Fit(g, p, h, smooth, win, caching) ==
  [npts |-> g[1], from |-> -100, by |-> g[2], peak |-> p, height |-> h,
   smooth |-> smooth, sbWin |-> win, caching |-> caching]

\* the signal below, at both ends of, between and beyond the coarse points; seen
\* from everywhere, or from near it only
SomeSetups ==
  {Fit(g, -100 + d, h, smooth, win, TRUE) :
     g \in Grids, d \in {-30, 0, 3, 31, 60, 110, 130, 200, 217, 440}, h \in {12, 40, 90, 700},
     smooth \in BOOLEAN, win \in BOOLEAN}
  \cup
  {Fit(g, -100 + d, h, smooth, win, FALSE) :
     g \in {<<1, 0>>, <<3, 4>>, <<5, 60>>, <<12, 44>>}, d \in {0, 31, 130, 200}, h \in {40, 90, 700},
     smooth \in BOOLEAN, win \in BOOLEAN}
=============================================================================
