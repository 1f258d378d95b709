------------------------------ MODULE MCClient ------------------------------
(***************************************************************************)
(* Instances of Client for TLC: a name for each way a request can go.      *)
(***************************************************************************)
EXTENDS Client

MCNames == {"", "index.html", "Index.html", "logo.gif", "gone.html"}
MCLower == [n \in MCNames |-> IF n = "Index.html" THEN "index.html" ELSE n]
MCExt == [n \in MCNames |-> IF n = "" THEN "" ELSE IF n = "logo.gif" THEN "gif"
                            ELSE "html"]
MCDisk == {"index.html", "logo.gif"}
=============================================================================
