------------------------------ MODULE MC_UaLs ------------------------------
EXTENDS UaLs

(* root organises a and the Variable v1; a references root back (a cycle  *)
(* of hierarchical references) and the unreadable Variable v2.            *)
MCChildren == [n \in {"root", "a", "v1", "v2"} |->
                 CASE n = "root" -> <<"a", "v1">>
                   [] n = "a"    -> <<"root", "v2">>
                   [] OTHER      -> <<>>]

(* -d 0 and a negative -d, which argparse accepts as type=int.            *)
MCNonPositiveDepths == {0, -1}
=============================================================================
