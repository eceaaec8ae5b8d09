---------------------------- MODULE MCFrontEndViews -----------------------------
(* Small instances of FrontEndViews.                                           *)
EXTENDS FrontEndViews

MCText == {"", "x"}
MCStoredText == [v \in AllViews |-> [k \in 1 .. 2 |-> "x"]]

=================================================================================
