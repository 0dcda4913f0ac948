------------------------------ MODULE ToolArgs ------------------------------
(***************************************************************************)
(* The argument handling shared by the command line tools of               *)
(* src/asyncua/tools.py: parse_args / _require_nodeid, the browse path of  *)
(* get_node, and the conversion of a VALUE text to a ua.Variant done by    *)
(* _val_to_variant, _arg_to_variant, _args_to_array and _arg_to_bool.      *)
(* A text is the sequence of its comma-separated pieces: "1,2" is          *)
(* <<"1", "2">>, and "," occurs in it iff it has more than one piece.      *)
(***************************************************************************)
EXTENDS Naturals, Sequences, TLC

CONSTANTS
    IntTexts,     \* pieces int() accepts, e.g. "1"
    FloatTexts,   \* pieces float() accepts and int() rejects, e.g. "1.5"
    NodeIdTexts,  \* pieces ua.NodeId.from_string accepts, e.g. "i=5"
    Pieces,       \* every piece a VALUE may contain
    None          \* Python None

BoolTexts == {"true", "True", "false", "False"}

(* The --datatype choices argparse accepts for uawrite.                   *)
DatatypeChoices ==
    {"guess", "byte", "sbyte", "nodeid", "expandednodeid", "qualifiedname", "browsename",
     "string", "float", "double", "int16", "int32", "int64", "uint16", "uint32", "uint64",
     "bool", "datetime", "bytestring", "xmlelement", "statuscode", "localizedtext"}

(************************** parse_args, get_node **************************)
(* _require_nodeid: the default node "i=84" with no browse path counts as  *)
(* "no node given" and the tool exits with status 1.                      *)
NodeGiven(args) == ~(args.nodeid = "i=84" /\ args.path = <<>>)

(* get_node: the path (split at ",") is browsed from the node, a leading  *)
(* "0:Root" dropped when the node is the root i=84.                       *)
BrowsePath(args) ==
    IF args.nodeid = "i=84" /\ args.path # <<>> /\ args.path[1] = "0:Root"
    THEN Tail(args.path) ELSE args.path

(************************** _val_to_variant *******************************)
(* _args_to_array: with --array guess a comma makes it a list; a list is  *)
(* the pieces, a scalar the whole text.                                    *)
ArgsToArray(val, array) ==
    LET isList == array = "true" \/ (array = "guess" /\ Len(val) > 1)
    IN [list |-> isList,
        items |-> IF isList THEN [i \in DOMAIN val |-> <<val[i]>>] ELSE <<val>>]

(* Whether ptype(text) returns: int, float and NodeId.from_string reject   *)
(* a text with a comma; bytes(str) raises TypeError for every text.        *)
Parses(ptype, s) ==
    CASE ptype = "int"    -> Len(s) = 1 /\ s[1] \in IntTexts
      [] ptype = "float"  -> Len(s) = 1 /\ s[1] \in IntTexts \cup FloatTexts
      [] ptype = "nodeid" -> Len(s) = 1 /\ s[1] \in NodeIdTexts
      [] ptype = "bytes"  -> FALSE
      [] OTHER            -> TRUE

BoolValue(b) == [py |-> "bool", text |-> IF b THEN <<"True">> ELSE <<"False">>]

(* _arg_to_bool is val in ("true", "True"); the other converters keep the *)
(* text, tagged with the Python type they produce.                         *)
Convert(ptype, s) ==
    IF ptype = "bool" THEN BoolValue(s \in {<<"true">>, <<"True">>}) ELSE [py |-> ptype, text |-> s]

(* ua.Variant(val) without a VariantType guesses it from the Python type   *)
(* (outside src/, from the ua package).                                    *)
GuessVariantType(ptype) ==
    CASE ptype = "int" -> "Int64" [] ptype = "float" -> "Double"
      [] ptype = "bool" -> "Boolean" [] OTHER -> "String"

Raised(exc) == [kind |-> "raise", exc |-> exc, type |-> None, array |-> FALSE, items |-> <<>>]
NoVariant == [kind |-> "none", exc |-> None, type |-> None, array |-> FALSE, items |-> <<>>]

(* _arg_to_variant(val, array, ptype, varianttype): the first item ptype   *)
(* rejects raises out of the list comprehension.                           *)
ArgToVariant(val, array, ptype, vt) ==
    LET a == ArgsToArray(val, array)
    IN IF \A i \in DOMAIN a.items : Parses(ptype, a.items[i])
       THEN [kind |-> "variant", exc |-> None,
             type |-> IF vt = None THEN GuessVariantType(ptype) ELSE vt,
             array |-> a.list, items |-> [i \in DOMAIN a.items |-> Convert(ptype, a.items[i])]]
       ELSE Raised(IF ptype = "bytes" THEN "TypeError" ELSE "ValueError")

(* The elif chain of _val_to_variant, for the branches that call           *)
(* _arg_to_variant with a fixed converter and VariantType.  Its keys are   *)
(* the strings the code compares args.datatype with.                       *)
B(ptype, vt) == [ptype |-> ptype, vt |-> vt]
Branch ==
    ("sbyte" :> B("int", "SByte")) @@ ("byte" :> B("int", "Byte"))
    @@ ("uint16" :> B("int", "UInt16")) @@ ("uint32" :> B("int", "UInt32"))
    @@ ("uint64" :> B("int", "UInt64")) @@ ("int16" :> B("int", "Int16"))
    @@ ("int32" :> B("int", "Int32")) @@ ("int64" :> B("int", "Int64"))
    @@ ("float" :> B("float", "Float")) @@ ("double" :> B("float", "Double"))
    @@ ("string" :> B("str", "String")) @@ ("Guid" :> B("bytes", "Guid"))
    @@ ("ByteString" :> B("bytes", "ByteString")) @@ ("xml" :> B("str", "XmlElement"))
    @@ ("nodeid" :> B("nodeid", "NodeId")) @@ ("expandednodeid" :> B("nodeid", "ExpandedNodeId"))
    @@ ("statuscode" :> B("int", "StatusCode")) @@ ("qualifiedname" :> B("qname", "QualifiedName"))
    @@ ("browsename" :> B("qname", "QualifiedName")) @@ ("LocalizedText" :> B("ltext", "LocalizedText"))

(* Mutant of GuessVariant: float tried before int.                        *)
GuessVariantFloatFirst(val, array) ==
    IF Len(val) = 1 /\ val[1] \in BoolTexts
    THEN ArgToVariant(val, array, "bool", None)
    ELSE LET asInt == ArgToVariant(val, array, "int", None)
             asFloat == ArgToVariant(val, array, "float", None)
         IN IF asFloat.kind = "variant" THEN asFloat
            ELSE IF asInt.kind = "variant" THEN asInt
            ELSE ArgToVariant(val, array, "str", None)

(* guess: a whole text that is a boolean word is a bool; otherwise int,    *)
(* float and str are tried in that order, each ValueError caught.          *)
GuessVariant(val, array) ==
    IF Len(val) = 1 /\ val[1] \in BoolTexts
    THEN ArgToVariant(val, array, "bool", None)
    ELSE LET asInt == ArgToVariant(val, array, "int", None)
             asFloat == ArgToVariant(val, array, "float", None)
         IN IF asInt.kind = "variant" THEN asInt
            ELSE IF asFloat.kind = "variant" THEN asFloat
            ELSE ArgToVariant(val, array, "str", None)

(* _val_to_variant(val, args): a datatype matched by no branch falls off   *)
(* the end of the chain and the function returns None.                     *)
ValToVariant(val, datatype, array) ==
    CASE datatype = "guess"     -> GuessVariant(val, array)
      [] datatype = "bool"      -> [kind |-> "variant", exc |-> None, type |-> "Boolean", array |-> FALSE,
                                    items |-> <<BoolValue(val \in {<<"1">>, <<"True">>, <<"true">>})>>]
      [] datatype = "datetime"  -> Raised("NotImplementedError")
      [] datatype \in DOMAIN Branch -> ArgToVariant(val, array, Branch[datatype].ptype, Branch[datatype].vt)
      [] OTHER                  -> NoVariant
=============================================================================
