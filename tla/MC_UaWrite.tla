----------------------------- MODULE MC_UaWrite -----------------------------
EXTENDS UaWrite

MCIntTexts == {"1"}
MCFloatTexts == {"1.5"}
MCNodeIdTexts == {"i=5"}
MCPieces == {"1", "1.5", "true", "x", "i=5"}

(* VALUE texts: scalars of each kind, an int list and a mixed list.       *)
MCValues == {<<"1">>, <<"1.5">>, <<"true">>, <<"x">>, <<"i=5">>, <<"1", "1">>, <<"1", "x">>}

(* -n/-p combinations: the default root with and without a path (a        *)
(* leading 0:Root, a missing child), and an explicit node.                 *)
MCTargets == {[nodeid |-> "i=84", path |-> <<>>],
              [nodeid |-> "i=84", path |-> <<"0:Root", "2:Obj">>],
              [nodeid |-> "i=84", path |-> <<"2:Missing">>],
              [nodeid |-> "ns=2;i=7", path |-> <<>>]}

MCArgs == {[nodeid |-> t.nodeid, path |-> t.path, datatype |-> d, array |-> a, value |-> v] :
              t \in MCTargets, d \in DatatypeChoices, a \in {"guess", "true", "false"}, v \in MCValues}

MCNodeOf == [t \in {"i=84", "ns=2;i=7"} |-> IF t = "i=84" THEN "root" ELSE "var"]
MCChildren == [n \in {"root", "obj", "var"} |-> IF n = "root" THEN [m \in {"2:Obj"} |-> "obj"]
                                                ELSE [m \in {} |-> "obj"]]
=============================================================================
