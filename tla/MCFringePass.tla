---------------------------- MODULE MCFringePass -----------------------------
(***************************************************************************)
(* Experiments and command lines for FringePass.                           *)
(***************************************************************************)
EXTENDS FringePass

Cor(a, b, groups, pols) ==
  [code |-> <<a, b>>, pair |-> <<a, "s", "-", b, "s">>, groups |-> groups, pols |-> pols]
GE == Cor("G", "E", <<"X">>, <<"XX">>)
GG == Cor("G", "G", <<"X">>, <<"XX">>)
EWsx == Cor("E", "W", <<"S", "X">>, <<"XX">>)
GEboth == [GE EXCEPT !.pols = <<"XX", "YY">>]
Odd == [GE EXCEPT !.code = <<"G">>]

Scan(cor) == [root |-> TRUE, cor |-> cor, stations |-> TRUE, comma |-> FALSE]
NoRoot(cor) == [Scan(cor) EXCEPT !.root = FALSE]

Single(cor) == [top |-> Scan(cor), subs |-> <<Scan(<<GE>>)>>]
Several == [top |-> NoRoot(<<>>),
            subs |-> <<Scan(<<EWsx>>), NoRoot(<<GE>>), Scan(<<GE>>)>>]

Ask(baseline, group, pol, exclude) ==
  [baseline |-> baseline, group |-> group, pol |-> pol, exclude_autos |-> exclude]
All == Ask(<<"?", "?">>, "?", "??", FALSE)

For(e, c) == [experiment |-> e, cmdline |-> c]

\* three passes, of two scans, two of them groups of one file; two, products of one file, an
\* autocorrelation left out; one or none: a pair of stations with a sum of products, the first
\* of two files for a baseline, of which the second is loaded, a file that is not of a
\* baseline, a scan without station files, one with a comma in its name, an empty directory
SomeInputs ==
  << For(Several, All),
     For(Single(<<GG, GEboth>>), Ask(<<"?", "?">>, "?", "??", TRUE)),
     For(Single(<<EWsx, GE>>), Ask(EWsx.pair, "X", "I", FALSE)),
     For(Single(<<GE, [GE EXCEPT !.groups = <<"S">>]>>), Ask(<<"?", "E">>, "X", "??", FALSE)),
     For(Single(<<Odd, EWsx>>), Ask(Odd.pair, "?", "??", FALSE)),
     For([Several EXCEPT !.subs[3].stations = FALSE], Ask(<<"G", "?">>, "X", "??", FALSE)),
     For([Several EXCEPT !.subs[3].comma = TRUE], Ask(<<"G", "E">>, "?", "XX", FALSE)),
     For([Several EXCEPT !.subs = <<>>], All) >>

OneInput == << For(Single(<<GE>>), All) >>
=============================================================================
