----------------------------- MODULE MCSettings -----------------------------
(***************************************************************************)
(* An instance of Settings for TLC: names in capitals, longer than a known *)
(* one and unknown; a port above 32767 and one that is not a number.       *)
(***************************************************************************)
EXTENDS Settings

MCNames == {"General", "general", "logging", "port", "portrange", "logfile"}
MCTexts == {"40000", "/log"}
MCLower == [n \in MCNames |-> IF n = "General" THEN "general" ELSE n]
MCPrefix == {<<"general", "general">>, <<"logging", "logging">>,
             <<"port", "port">>, <<"port", "portrange">>,
             <<"logfile", "logfile">>}
MCStrtol == [v \in MCTexts |-> IF v = "40000" THEN 40000 ELSE 0]
=============================================================================
