----------------------------- MODULE MCPassStore ------------------------------
(* Constants of PassStore for TLC: baseline files with two visibility objects, *)
(* in double precision, both, and with other names; two stations, one with     *)
(* itself, and one that has no phase cal.                                     *)
EXTENDS PassStore

MCObject == 1..13

MCType == {"visibility_store", "weight_store", "visibility", "weight", "station",
           "multitone_pcal", "phasors"}

MCId == {"v", "v2", "w", "sta_A", "pcal_A", "sta_B", "pcal_B", "sta_C",
         "cached_v", "cached_w", "sbd", "phasors"}

MCName == {"vis", "weight", "odd", "sta", "pcal", "ref_sta", "ref_pcal", "rem_sta",
           "rem_pcal", "cached_v", "cached_w", "sbd", "phasors"}

Rec(t, i, n) == [type |-> t, id |-> i, name |-> n]

MCBaselineFiles ==
  LET v == Rec("visibility_store", "v", "vis")
      w == Rec("weight_store", "w", "weight")
  IN { <<v, w>>,
       <<v, Rec("visibility_store", "v2", "vis"), w>>,
       <<v, Rec("visibility", "v2", "vis"), w>>,
       <<Rec("visibility", "v", "vis"), Rec("weight", "w", "weight")>>,
       <<Rec("visibility_store", "v", "odd"), w>> }

MCBaselines == {<<"A", "B">>, <<"A", "A">>, <<"A", "C">>, <<"C", "A">>}

MCStationFile(s) ==
  CASE s = "A" -> <<Rec("station", "sta_A", "sta"), Rec("multitone_pcal", "pcal_A", "pcal")>>
    [] s = "B" -> <<Rec("station", "sta_B", "sta"), Rec("multitone_pcal", "pcal_B", "pcal")>>
    [] s = "C" -> <<Rec("station", "sta_C", "sta")>>
=============================================================================
