------------------------- MODULE MC_StructGenerator -------------------------
(* Model-checking instance of StructGenerator: one enum "Color", one       *)
(* struct "Shape", and every struct of up to MaxFields Field children      *)
(* drawn from an alphabet that holds each case _make_model tells apart.    *)
EXTENDS StructGenerator

MaxFields == 3

MCPrimitives == {"Int32", "Char"}
MCEnumNames == {"Color"}
MCStructNames == {"Shape"}
MCFieldBases == {"A", "SwitchField"}
MCMemberNames == {"Red", "None"}
MCTypeIds == {"ns=1;i=5001"}

RF(form, base, t, sw) ==
    [name |-> [form |-> form, base |-> base], type |-> [prefix |-> "opc", local |-> t], switch |-> sw]

FieldAlphabet == {
    RF("NoOf", "A", "Int32", FALSE),       \* NoOfA: array length marker
    RF("__Length", "A", "Int32", FALSE),   \* __ALength: Codesys marker
    RF("#", "A", "Int32", FALSE),          \* #A: B&R marker
    RF("__", "A", "Int32", FALSE),         \* __A: not a marker
    RF("plain", "A", "Bit", FALSE),        \* filler bit
    RF("plain", "A", "Int32", TRUE),       \* optional field
    RF("plain", "A", "Color", FALSE),      \* enum-typed field
    RF("plain", "A", "Char", FALSE)        \* Char, a Char array after a marker
}

FieldSeqs == UNION {[1..n -> FieldAlphabet] : n \in 0..MaxFields}

EnumDecls == {[kind |-> "enum", name |-> "Color", values |-> vs] :
                vs \in {<<>>, <<[name |-> "Red", value |-> 0]>>,
                        <<[name |-> "None", value |-> 0], [name |-> "Red", value |-> 1]>>}}

StructDecls == {[kind |-> "struct", name |-> "Shape", fields |-> fs] : fs \in FieldSeqs}

MCDocs == {Malformed}
          \cup {<<e, s>> : e \in EnumDecls, s \in StructDecls}
          \cup {<<s, e>> : e \in EnumDecls, s \in StructDecls}
=============================================================================
