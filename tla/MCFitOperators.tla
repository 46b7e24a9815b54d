---------------------------- MODULE MCFitOperators ----------------------------
(* Instances of FitOperators for TLC. *)
EXTENDS FitOperators

MCStation == {"ref", "rem"}

S(kind, named) ==
  [kind |-> kind, base |-> kind, named |-> named, on |-> TRUE, priority |-> 0]
Off(kind) == [S(kind, {}) EXCEPT !.on = FALSE]
Python(kind, function) == [S(kind, {}) EXCEPT !.base = function]
Early(s) == [s EXCEPT !.priority = 300]

\* what a control file may say, in a block for stations or for all
Said ==
  {S("chan_ids", {}),
   S("adhoc_flag_file", {}), S("adhoc_flag_file", {"ref"}), S("adhoc_flag_file", {"rem", "Q"}),
   S("notches", {}), S("pc_phases", {"ref"}), S("pc_phases", {}), S("pc_phases", {"Q"}),
   S("adhoc_phase", {}), S("mixed_pol_yshift90", {}), Off("mixed_pol_yshift90"),
   Python("python_labeling", "script:f"), Python("python_calibration", "script:f"),
   Early(Python("python_calibration", "script:g")), Python("python_postfit", "script:f")}

\* the statements that are added to the first block: for a sum of products, for one
\* linear product, for one circular product
Defaults(last, pcal, samplers) ==
  << S("coarse_selection", {}),
     [S("sampler_labeler", {}) EXCEPT !.on = samplers],
     [S("ref_multitone_pcal", {}) EXCEPT !.on = "ref" \in pcal],
     [S("rem_multitone_pcal", {}) EXCEPT !.on = "rem" \in pcal],
     S(last, {}) >>

\* two or three statements, before and after those that are added; for a sum of products also
\* an operator that may ask for another fit; and the polarizations of the data and
\* of the phase calibration exchanged
MCControls ==
  {[statements |-> <<a>> \o Defaults("polproduct_sum", {"ref", "rem"}, FALSE)
                     \o <<b, c, Python("python_postfit", "script:f")>>,
    pcal |-> {"ref", "rem"}] :
     a \in Said, b \in Said,
     c \in {S("chan_ids", {}), S("adhoc_flag_file", {"ref"}), S("pc_phases", {"rem"})}}
  \cup
  {[statements |-> <<a>> \o Defaults(last, {"rem"}, TRUE) \o <<b>>, pcal |-> {"rem"}] :
     a \in Said, b \in Said, last \in {"dpar_corr", "circ_field_rotation_corr"}}
  \cup
  {[statements |-> <<S("swap_pol_labels", {"rem"}), a>>, pcal |-> {"rem"}] :
     a \in {S("chan_ids", {}), S("pc_phases", {"rem"})}}
=============================================================================
