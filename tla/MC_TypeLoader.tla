--------------------------- MODULE MC_TypeLoader ---------------------------
(* Model-checking instance of TypeLoader: a server with two type            *)
(* dictionaries besides "Opc.Ua", one custom enumeration, and four          *)
(* concurrent tasks: load_type_definitions twice, load_enums and         *)
(* uageneratestructs.                                                       *)
EXTENDS TypeLoader

MCPrimitives == {"Int32", "Char"}
MCEnumNames == {"Color"}
MCStructNames == {"Shape", "Line", "Point"}
MCFieldBases == {"A", "B"}
MCMemberNames == {"Red", "Green"}

RF(form, base, t, sw) ==
    [name |-> [form |-> form, base |-> base], type |-> [prefix |-> "opc", local |-> t], switch |-> sw]

ColorDecl == [kind |-> "enum", name |-> "Color",
              values |-> <<[name |-> "Red", value |-> 0], [name |-> "Green", value |-> 1]>>]
ShapeDecl == [kind |-> "struct", name |-> "Shape",
              fields |-> <<RF("plain", "A", "Int32", TRUE), RF("plain", "B", "Color", FALSE)>>]
LineDecl == [kind |-> "struct", name |-> "Line",
             fields |-> <<RF("NoOf", "A", "Int32", FALSE), RF("plain", "A", "Char", FALSE)>>]
PointDecl == [kind |-> "struct", name |-> "Point", fields |-> <<RF("plain", "A", "Int32", FALSE)>>]

MCTasks == {"ltd", "ltd2", "enums", "gen"}
MCTaskKind == [t \in MCTasks |-> IF t = "ltd2" THEN "ltd" ELSE t]
MCForce == [t \in MCTasks |-> FALSE]

MCBinaryChildren == <<[node |-> "n0", browse |-> "Opc.Ua"],
                      [node |-> "n1", browse |-> "Dict1"],
                      [node |-> "n2", browse |-> "Dict2"]>>
MCNodeXml == [n \in {"n0", "n1", "n2"} |->
                CASE n = "n1" -> <<ShapeDecl, ColorDecl>>
                  [] n = "n2" -> <<LineDecl, PointDecl>>
                  [] OTHER    -> <<>>]

D(name, refs, typeid) == [name |-> name, refs |-> refs, typeid |-> typeid]

(* Dict1 describes Color (no encoding, so no HasDescription reference),  *)
(* a stray "Ghost" and Shape; Dict2 describes Line and Point.             *)
MCNodeDescs == [n \in {"n0", "n1", "n2"} |->
                  CASE n = "n1" -> <<D("Color", FALSE, "i=3001"), D("Ghost", TRUE, "i=3002"),
                                     D("Shape", TRUE, "i=3003")>>
                    [] n = "n2" -> <<D("Line", TRUE, "i=3004"), D("Point", TRUE, "i=3005")>>
                    [] OTHER    -> <<>>]

(* Dict2 also lists a descriptor "Shape" (a type Dict1 defines) and one    *)
(* named "List"; Point has no HasDescription reference.                    *)
MCNodeDescsForeign == [n \in {"n0", "n1", "n2"} |->
                  CASE n = "n1" -> <<D("Shape", TRUE, "i=3003")>>
                    [] n = "n2" -> <<D("Shape", TRUE, "i=3006"), D("List", TRUE, "i=3007"),
                                     D("Line", TRUE, "i=3004"), D("Point", FALSE, "i=3005")>>
                    [] OTHER    -> <<>>]

MCServerEnums == <<[name |-> "Color", props |-> <<"EnumStrings">>],
                   [name |-> "Level", props |-> <<"EnumValues">>],
                   [name |-> "MessageSecurityMode", props |-> <<"EnumValues", "NamespaceUri">>]>>
MCInitialUa == {"MessageSecurityMode"}
=============================================================================
