--------------------------- MODULE StructGenerator ---------------------------
(***************************************************************************)
(* One StructGenerator object of src/asyncua/common/structures.py and the  *)
(* calls a client may make on it in any order: make_model_from_string /   *)
(* make_model_from_file, get_python_classes (which runs                    *)
(* _generate_python_class over the model), save_to_file and set_typeid.   *)
(***************************************************************************)
EXTENDS StructModel, FiniteSets

CONSTANTS
    Docs,       \* schema documents the XML may parse to (or Malformed)
    TypeIds,    \* NodeId strings a caller may pass to set_typeid
    MaxDocs,    \* bound on make_model_* calls on one generator
    MaxCalls    \* bound on all other calls

VARIABLES
    model,      \* self.model
    env,        \* the namespace dict the classes are exec'd in: name -> emitted class
    file,       \* what the last save_to_file wrote, or None
    raised,     \* exception raised by the last call: None, "parse" or "generation"
    parsed,     \* ghost: the documents successfully given to _make_model, in order
    calls       \* number of calls other than make_model_*

vars == <<model, env, file, raised, parsed, calls>>

Init ==
    /\ model = <<>>
    /\ env = [n \in {} |-> None]
    /\ file = None
    /\ raised = None
    /\ parsed = <<>>
    /\ calls = 0

(* make_model_from_string / make_model_from_file: ET.fromstring raises on  *)
(* malformed XML before the model is touched; otherwise _make_model         *)
(* APPENDS to self.model.                                                   *)
MakeModelFromString(doc) ==
    /\ Len(parsed) < MaxDocs
    /\ IF doc = Malformed
       THEN /\ raised' = "parse"
            /\ UNCHANGED <<model, parsed>>
       ELSE /\ model' = model \o MakeModel(doc)
            /\ parsed' = Append(parsed, doc)
            /\ raised' = None
    /\ UNCHANGED <<env, file, calls>>

HelperDef(n) == [kind |-> "helper", name |-> n, members |-> <<>>, fields |-> <<>>]

(* exec(code, env) defines the class under its name: last write wins.      *)
ExecInto(e, defs) ==
    [n \in DOMAIN e \cup {defs[i].name : i \in DOMAIN defs} |->
        IF \E i \in DOMAIN defs : defs[i].name = n
        THEN defs[SelectLastInSeq(defs, LAMBDA d : d.name = n)]
        ELSE e[n]]

(* _generate_python_class(self.model, env): for each element in order,     *)
(* get_code() (which changes a Struct with options) then exec.  An exec    *)
(* failing at element k is logged and re-raised: elements before k are     *)
(* already defined in env, elements up to k have run get_code.             *)
GetPythonClasses ==
    /\ calls < MaxCalls
    /\ \E failAt \in {0} \cup DOMAIN model :
        LET done == IF failAt = 0 THEN Len(model) ELSE failAt
            ran == [i \in DOMAIN model |-> IF i <= done THEN AfterGetCode(model[i]) ELSE model[i]]
            defined == [i \in 1..(IF failAt = 0 THEN Len(model) ELSE failAt - 1) |-> GetCode(model[i])]
        IN /\ model' = ran
           /\ env' = ExecInto(AddHelpers(env, [h \in HelperNames |-> HelperDef(h)]), defined)
           /\ raised' = IF failAt = 0 THEN None ELSE "generation"
    /\ calls' = calls + 1
    /\ UNCHANGED <<file, parsed>>

(* save_to_file(path, register): header, get_code() of every element, and *)
(* with register=True the output of _make_registration.                    *)
SaveToFile(register) ==
    /\ calls < MaxCalls
    /\ model' = [i \in DOMAIN model |-> AfterGetCode(model[i])]
    /\ file' = [defs |-> [i \in DOMAIN model |-> GetCode(model[i])],
                regs |-> IF register THEN MakeRegistration(model) ELSE <<>>]
    /\ raised' = None
    /\ calls' = calls + 1
    /\ UNCHANGED <<env, parsed>>

SetTypeidCall(name, typeid) ==
    /\ calls < MaxCalls
    /\ model' = SetTypeid(model, name, typeid)
    /\ raised' = None
    /\ calls' = calls + 1
    /\ UNCHANGED <<env, file, parsed>>

Next ==
    \/ \E doc \in Docs : MakeModelFromString(doc)
    \/ GetPythonClasses
    \/ \E register \in BOOLEAN : SaveToFile(register)
    \/ \E name \in EnumNames \cup StructNames, typeid \in TypeIds : SetTypeidCall(name, typeid)

Spec == Init /\ [][Next]_vars

-----------------------------------------------------------------------------
TypeOK ==
    /\ \A i \in DOMAIN model :
         /\ model[i].kind \in {"enum", "struct"}
         /\ model[i].typeid \in TypeIds \cup {None}
         /\ model[i].option_counter \in Nat
    /\ DOMAIN env \subseteq EnumNames \cup StructNames \cup HelperNames
    /\ raised \in {None, "parse", "generation"}
    /\ Len(parsed) <= MaxDocs
    /\ calls \in 0..MaxCalls

(*************************** reference model ******************************)
(* What _make_model should produce, stated per raw field rather than by    *)
(* replaying the loop: a field is materialised iff it is neither an array  *)
(* length marker nor of type Bit; it is an array iff some marker precedes  *)
(* it with no materialised field in between; a struct counts one option    *)
(* per materialised field with a SwitchField; enums come before structs.   *)
RefStruct(s) ==
    LET raw == s.fields
        Real(i) == ~IsArrayField(raw[i].name) /\ raw[i].type.local # "Bit"
        kept == SelectSeq([i \in DOMAIN raw |-> i], Real)
        ArrayAt(i) == \E j \in 1..(i - 1) :
                         IsArrayField(raw[j].name) /\ \A k \in (j + 1)..(i - 1) : ~Real(k)
    IN [kind |-> "struct", name |-> s.name,
        option_counter |-> Cardinality({i \in DOMAIN raw : Real(i) /\ raw[i].switch}),
        fields |-> [n \in DOMAIN kept |->
                      [name |-> raw[kept[n]].name, uatype |-> raw[kept[n]].type.local,
                       array |-> ArrayAt(kept[n]), is_optional |-> raw[kept[n]].switch,
                       listDefault |-> ArrayAt(kept[n])]]]

RefEnum(e) == [kind |-> "enum", name |-> e.name, option_counter |-> 0,
               fields |-> [i \in DOMAIN e.values |-> [name |-> EnumeratedValueName(e.values[i].name),
                                                      value |-> e.values[i].value]]]

RefModel(doc) ==
    LET es == SelectSeq(doc, LAMBDA c : c.kind = "enum")
        ss == SelectSeq(doc, LAMBDA c : c.kind = "struct")
    IN [i \in DOMAIN es |-> RefEnum(es[i])] \o [i \in DOMAIN ss |-> RefStruct(ss[i])]

(* The model with the synthetic Encoding fields that get_code prepended    *)
(* taken out, typeids dropped, and defaults reduced to "is the list one".  *)
Shape(e) ==
    IF e.kind = "enum"
    THEN [kind |-> "enum", name |-> e.name, option_counter |-> 0, fields |-> e.fields]
    ELSE LET fs == SelectSeq(e.fields, LAMBDA f : f # EncodingField)
         IN [kind |-> "struct", name |-> e.name, option_counter |-> e.option_counter,
             fields |-> [i \in DOMAIN fs |->
                           [name |-> fs[i].name, uatype |-> fs[i].uatype, array |-> fs[i].array,
                            is_optional |-> fs[i].is_optional, listDefault |-> fs[i].value = ListDefault]]]

(* The model built from the documents parsed so far is, element by element *)
(* and field by field, the reference model: array-length markers flag      *)
(* exactly the next materialised field, Bit fillers vanish, the option     *)
(* counter counts the SwitchField fields, and enums precede structs, in    *)
(* every order of calls (get_code's prepending aside).                     *)
ModelMatchesReference ==
    [i \in DOMAIN model |-> Shape(model[i])]
        = FlattenSeq([k \in DOMAIN parsed |-> RefModel(parsed[k])])

(* A non-array field typed by an enum of the model that has members gets a *)
(* default that constructs one of those members (ua.E(v) with v a member   *)
(* value), never ua.E() which an IntEnum rejects when the class is used.   *)
EnumDefaultsConstructMembers ==
    \A i, j \in DOMAIN model :
        (model[i].kind = "enum" /\ model[i].fields # <<>> /\ model[j].kind = "struct") =>
            \A k \in DOMAIN model[j].fields :
                LET f == model[j].fields[k] IN
                (f.uatype = model[i].name /\ ~f.array) =>
                    /\ f.value.kind = "factory"
                    /\ \E m \in DOMAIN model[i].fields : f.value.arg = model[i].fields[m].value

(* Spec 4.3 / 8: a struct with optional fields is emitted with exactly one *)
(* Encoding field, the first, however many times get_code has been called  *)
(* (get_python_classes and then save_to_file both call it).                *)
EncodingFirstAndUnique ==
    LET defs == {env[n] : n \in DOMAIN env \ HelperNames}
                \cup (IF file = None THEN {} ELSE {file.defs[i] : i \in DOMAIN file.defs})
        IsEnc(f) == f.name = Plain("Encoding")
    IN \A d \in defs : d.kind = "struct" /\ (\E k \in DOMAIN d.fields : IsEnc(d.fields[k])) =>
         /\ IsEnc(d.fields[1])
         /\ \A k \in DOMAIN d.fields : k > 1 => ~IsEnc(d.fields[k])
=============================================================================
