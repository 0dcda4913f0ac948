---------------------------- MODULE StructModel ----------------------------
(***************************************************************************)
(* The data side of src/asyncua/common/structures.py: the schema document  *)
(* a StructGenerator parses, the EnumType / Struct / Field objects that    *)
(* _make_model builds from it, and what get_code and _make_registration    *)
(* emit for them.  Generated Python text is abstracted to the records that *)
(* the text encodes: one record per emitted field (name, type annotation,  *)
(* default) and one per registration statement.                           *)
(***************************************************************************)
EXTENDS Naturals, Sequences, SequencesExt

CONSTANTS
    Primitives,    \* built-in type names a schema field may use, e.g. "Int32", "Char"
    EnumNames,     \* names of EnumeratedType elements
    StructNames,   \* names of StructuredType elements
    FieldBases,    \* base names of Field elements ("SwitchField" may be one)
    MemberNames,   \* names of EnumeratedValue elements ("None" may be one)
    None,          \* Python None
    Malformed      \* an XML text ET.fromstring cannot parse

(* A Field name as _is_array_field sees it: "NoOf<X>", "__<X>Length",       *)
(* "#<X>", "__<X>" (leading "__" without the "Length" suffix) or plain.     *)
NameForms == {"plain", "NoOf", "__Length", "__", "#"}
FieldName == [form : NameForms, base : FieldBases]
Plain(b) == [form |-> "plain", base |-> b]

(* TypeName attribute "prefix:Local"; only the local part is kept.          *)
TypeNames == Primitives \cup EnumNames \cup StructNames \cup {"Bit"}
TypeRef == [prefix : {"opc", "tns"}, local : TypeNames]

RawField == [name : FieldName, type : TypeRef, switch : BOOLEAN]
EnumValueDecl == [name : MemberNames, value : Nat]

(* A document is ET.fromstring(xml): a sequence of child elements, or      *)
(* the model value Malformed when the XML cannot be parsed.                 *)

(*************************** get_default_value ****************************)
(* structures104.get_default_value(uatype, enums, hack=True) lies outside   *)
(* src/: modelled from the spec (4.2).  An enum known to the side map gets  *)
(* a "ua.<E>(<value>)" factory, a primitive a literal zero, any other name  *)
(* a "ua.<T>()" factory.  "field(default_factory=list)" is ListDefault.     *)
GetDefaultValue(uatype, enums) ==
    CASE uatype \in DOMAIN enums -> [kind |-> "factory", call |-> uatype, arg |-> enums[uatype]]
      [] uatype \in Primitives   -> [kind |-> "literal", call |-> uatype, arg |-> None]
      [] OTHER                   -> [kind |-> "factory", call |-> uatype, arg |-> None]
ListDefault == [kind |-> "list", call |-> None, arg |-> None]

(***************************** _make_model *******************************)
IsArrayField(name) == name.form \in {"NoOf", "__Length", "#"}

LocalType(t) == t.local

(* EnumeratedValue.__init__: "None" is renamed "None_".                     *)
EnumeratedValueName(n) == IF n = "None" THEN "None_" ELSE n

MakeEnumType(e) ==
    [kind |-> "enum", name |-> e.name, typeid |-> None, option_counter |-> 0,
     fields |-> [i \in DOMAIN e.values |->
                   [name |-> EnumeratedValueName(e.values[i].name), value |-> e.values[i].value]]]

(* The side map "enums": for every EnumeratedValue, enums[type name] is     *)
(* overwritten with its value, so each enum keeps its LAST value and an     *)
(* enum without values is absent.                                           *)
EnumSideMapStep(enums, child) ==
    IF child.kind = "enum" /\ child.values # <<>>
    THEN [n \in DOMAIN enums \cup {child.name} |->
            IF n = child.name THEN Last(child.values).value ELSE enums[n]]
    ELSE enums

(* Mutant of FieldStep: "array = False" forgotten after the array field.  *)
FieldStepNoReset(enums, acc, xf) ==
    LET uatype == LocalType(xf.type)
        f == [name |-> xf.name, uatype |-> uatype, is_optional |-> xf.switch,
              array |-> acc.array,
              value |-> IF acc.array THEN ListDefault ELSE GetDefaultValue(uatype, enums)]
    IN CASE IsArrayField(xf.name) -> [acc EXCEPT !.array = TRUE]
         [] uatype = "Bit"        -> acc
         [] OTHER -> [fields |-> Append(acc.fields, f), array |-> acc.array,
                      option_counter |-> acc.option_counter + (IF xf.switch THEN 1 ELSE 0)]

(* One iteration of the loop over the Field children of a StructuredType;  *)
(* acc holds struct.fields, struct.option_counter and the local "array".   *)
FieldStep(enums, acc, xf) ==
    LET uatype == LocalType(xf.type)
        f == [name |-> xf.name, uatype |-> uatype, is_optional |-> xf.switch,
              array |-> acc.array,
              value |-> IF acc.array THEN ListDefault ELSE GetDefaultValue(uatype, enums)]
    IN CASE IsArrayField(xf.name) -> [acc EXCEPT !.array = TRUE]
         [] uatype = "Bit"        -> acc
         [] OTHER -> [fields |-> Append(acc.fields, f), array |-> FALSE,
                      option_counter |-> acc.option_counter + (IF xf.switch THEN 1 ELSE 0)]

MakeStruct(enums, s) ==
    LET r == FoldLeft(LAMBDA a, x : FieldStep(enums, a, x),
                      [fields |-> <<>>, array |-> FALSE, option_counter |-> 0], s.fields)
    IN [kind |-> "struct", name |-> s.name, typeid |-> None,
        fields |-> r.fields, option_counter |-> r.option_counter]

(* Mutant of MakeModel: a single pass over the children, so a struct sees *)
(* only the enums declared before it.                                      *)
MakeModelOnePass(root) ==
    LET Step(acc, c) ==
          IF c.kind = "enum"
          THEN [model |-> Append(acc.model, MakeEnumType(c)), enums |-> EnumSideMapStep(acc.enums, c)]
          ELSE [model |-> Append(acc.model, MakeStruct(acc.enums, c)), enums |-> acc.enums]
    IN FoldLeft(Step, [model |-> <<>>, enums |-> [n \in {} |-> 0]], root).model

(* _make_model: first pass over all children for the enums (and the side  *)
(* map), second pass for the structs, whose defaults see the whole map.   *)
MakeModel(root) ==
    LET enums == FoldLeft(EnumSideMapStep, [n \in {} |-> 0], root)
        enumDecls == SelectSeq(root, LAMBDA c : c.kind = "enum")
        structDecls == SelectSeq(root, LAMBDA c : c.kind = "struct")
    IN [i \in DOMAIN enumDecls |-> MakeEnumType(enumDecls[i])]
       \o [i \in DOMAIN structDecls |-> MakeStruct(enums, structDecls[i])]

(******************************* get_code *********************************)
(* The synthetic Field("Encoding") with uatype "UInt32" and value None.     *)
EncodingField ==
    [name |-> Plain("Encoding"), uatype |-> "UInt32", is_optional |-> FALSE,
     array |-> FALSE, value |-> [kind |-> "literal", call |-> None, arg |-> None]]

(* The annotation text f"'ua.{uatype}'", wrapped in List[...] for arrays:  *)
(* the element name is always quoted.  The text "List[ua.Char]" that       *)
(* get_code compares it with has an unquoted element.                      *)
Annotation(f) == [list |-> f.array, quoted |-> TRUE, elem |-> f.uatype]
CharListText == [list |-> TRUE, quoted |-> FALSE, elem |-> "Char"]
StringText == [list |-> FALSE, quoted |-> FALSE, elem |-> "String"]

EmitField(f) ==
    LET t0 == Annotation(f)
        t == IF t0 = CharListText THEN StringText ELSE t0
    IN IF f.is_optional
       THEN [name |-> f.name, type |-> t, optional |-> TRUE, default |-> None]
       ELSE [name |-> f.name, type |-> t, optional |-> FALSE, default |-> f.value]

(* Struct.get_code prepends the Encoding field to self.fields itself (the  *)
(* object is changed, not a copy) whenever option_counter > 0, then emits  *)
(* every field not named "SwitchField".                                    *)
StructAfterGetCode(s) ==
    IF s.option_counter > 0 THEN [s EXCEPT !.fields = <<EncodingField>> \o s.fields] ELSE s

(* EnumType.get_code: one "name = value" line per EnumeratedValue.        *)
EnumGetCode(e) == [kind |-> "enum", name |-> e.name, members |-> e.fields, fields |-> <<>>]

GetCode(e) ==
    IF e.kind = "enum"
    THEN EnumGetCode(e)
    ELSE LET s == StructAfterGetCode(e)
             kept == SelectSeq(s.fields, LAMBDA f : f.name # Plain("SwitchField"))
         IN [kind |-> "struct", name |-> s.name, members |-> <<>>,
             fields |-> [i \in DOMAIN kept |-> EmitField(kept[i])]]

(* The element after get_code returned: only Structs change.               *)
AfterGetCode(e) == IF e.kind = "struct" THEN StructAfterGetCode(e) ELSE e

(************************** _make_registration ****************************)
(* One ua.register_extension_object(name, NodeId.from_string(typeid))       *)
(* statement per Struct of the model, enums skipped.                        *)
MakeRegistration(model) ==
    LET structs == SelectSeq(model, LAMBDA e : e.kind = "struct")
    IN [i \in DOMAIN structs |-> [name |-> structs[i].name, typeid |-> structs[i].typeid]]

(************************ _generate_python_class *************************)
(* Before exec-ing anything, _generate_python_class puts the names the     *)
(* generated code uses into env, each only when its guard key is absent:   *)
(* "timezone" is guarded by "datetime", and "IntEnum" by "enum", a key     *)
(* nothing sets, so IntEnum is written every time.  lib[n] is the library *)
(* object bound to n.                                                      *)
HelperNames == {"ua", "datetime", "timezone", "uuid", "IntEnum", "dataclass", "field", "List", "Optional"}
HelperGuard(n) == CASE n = "timezone" -> "datetime"
                    [] n = "IntEnum"  -> "enum"
                    [] OTHER          -> n
AddHelpers(env, lib) ==
    [n \in DOMAIN env \cup {h \in HelperNames : HelperGuard(h) \notin DOMAIN env} |->
        IF n \in HelperNames /\ HelperGuard(n) \notin DOMAIN env THEN lib[n] ELSE env[n]]

(******************************* set_typeid *******************************)
(* Mutant of SetTypeid: the arguments swapped.                             *)
SetTypeidSwapped(model, name, typeid) ==
    LET i == SelectInSeq(model, LAMBDA e : e.name = name)
    IN IF i = 0 THEN model ELSE [model EXCEPT ![i].typeid = name]

(* The first element of the model with that name gets the typeid.          *)
SetTypeid(model, name, typeid) ==
    LET i == SelectInSeq(model, LAMBDA e : e.name = name)
    IN IF i = 0 THEN model ELSE [model EXCEPT ![i].typeid = typeid]
=============================================================================
