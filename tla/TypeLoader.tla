----------------------------- MODULE TypeLoader -----------------------------
(***************************************************************************)
(* The loaders of src/asyncua/common/structures.py run as asyncio tasks    *)
(* against one server: load_type_definitions (no node list: every child of *)
(* "0:OPC Binary" but "Opc.Ua"), the uageneratestructs tool of             *)
(* src/asyncua/tools.py (load_type_definitions([node]) then               *)
(* save_to_file(path, True)), and load_enums.  A task runs without         *)
(* interruption from one await to the next, so one action is one await     *)
(* returning (or raising) plus the synchronous code up to the next await.  *)
(* The tasks share the ua module namespace and the extension-object        *)
(* registry that ua.register_extension_object writes.                      *)
(***************************************************************************)
EXTENDS StructModel, FiniteSets

CONSTANTS
    Tasks,         \* the concurrent asyncio tasks
    TaskKind,      \* [Tasks -> {"ltd", "gen", "enums"}]
    GenNode,       \* the --nodeid given to uageneratestructs
    Force,         \* [Tasks -> BOOLEAN]: load_enums(force=...)
    BinaryChildren,\* children of "0:OPC Binary": sequence of [node, browse]
    NodeXml,       \* [node -> document] the value of each dictionary node
    NodeDescs,     \* [node -> sequence of [name, refs, typeid]] its children
    ServerEnums,   \* children of Enumeration: sequence of [name, props]
    InitialUa,     \* names the ua module defines before any load
    CallsMayFail   \* whether a remote read may raise

Pcs == {"browse", "read", "children", "refs", "props", "readprop", "done"}

VARIABLES
    pc, result,    \* where each task is, and "running", "ok" or "failed"
    todo,          \* nodes (ltd, gen) or enum descriptions (enums) still to do
    descs,         \* descriptors (ltd, gen) or properties (enums) of the current one
    sdict,         \* the local structs_dict of load_type_definitions
    gens,          \* the local generators list: the model of each generator
    emodel, ec,    \* the local model list and "c" of load_enums
    ua,            \* the ua module namespace: name -> class
    extTypeids,    \* ua.extension_object_typeids: name -> typeid
    extByTypeid,   \* ua.extension_objects_by_typeid: typeid -> class
    file,          \* what uageneratestructs wrote, per task, or None
    failedDocs     \* ghost: the documents whose generation raised

vars == <<pc, result, todo, descs, sdict, gens, emodel, ec, ua, extTypeids,
          extByTypeid, file, failedDocs>>

(* A class object: what kind of element it came from, its name, the        *)
(* document (dictionary node, or "server" for load_enums) and the task.    *)
ClassOf(t, src, e) == [kind |-> e.kind, name |-> e.name, src |-> src, by |-> t]
LibClass(n) == [kind |-> "helper", name |-> n, src |-> "lib", by |-> "lib"]

Init ==
    /\ pc = [t \in Tasks |-> CASE TaskKind[t] = "gen" -> "read" [] OTHER -> "browse"]
    /\ result = [t \in Tasks |-> "running"]
    /\ todo = [t \in Tasks |-> IF TaskKind[t] = "gen" THEN <<GenNode>> ELSE <<>>]
    /\ descs = [t \in Tasks |-> <<>>]
    /\ sdict = [t \in Tasks |-> [n \in {} |-> LibClass(n)]]
    /\ gens = [t \in Tasks |-> <<>>]
    /\ emodel = [t \in Tasks |-> <<>>]
    /\ ec = [t \in Tasks |-> None]
    /\ ua = [n \in InitialUa |-> LibClass(n)]
    /\ extTypeids = [n \in {} |-> None]
    /\ extByTypeid = [i \in {} |-> LibClass(i)]
    /\ file = [t \in Tasks |-> None]
    /\ failedDocs = {}

(* _generate_python_class(model, env) stopped at failAt (0: no failure):   *)
(* the namespace after the helpers and the elements before failAt.         *)
Generated(env, t, src, model, failAt) ==
    LET last == IF failAt = 0 THEN Len(model) ELSE failAt - 1
        defs == SubSeq(model, 1, last)
        env1 == AddHelpers(env, [h \in HelperNames |-> LibClass(h)])
    IN [n \in DOMAIN env1 \cup {defs[i].name : i \in DOMAIN defs} |->
          IF \E i \in DOMAIN defs : defs[i].name = n
          THEN ClassOf(t, src, defs[SelectLastInSeq(defs, LAMBDA d : d.name = n)])
          ELSE env1[n]]
RanGetCode(model, failAt) ==
    [i \in DOMAIN model |-> IF failAt = 0 \/ i <= failAt THEN AfterGetCode(model[i]) ELSE model[i]]

(* Mutant of Registered: the key stored in place of the value.            *)
RegisteredSwapped(m, name, x) == [n \in DOMAIN m \cup {name} |-> IF n = name THEN name ELSE m[n]]

(* ua.register_extension_object(name, nodeid, class) lies outside src/:   *)
(* from the spec (3, 4.4) it records both directions and sets ua.<name>.  *)
Registered(m, name, x) == [n \in DOMAIN m \cup {name} |-> IF n = name THEN x ELSE m[n]]

Fail(t) ==
    /\ pc' = [pc EXCEPT ![t] = "done"]
    /\ result' = [result EXCEPT ![t] = "failed"]

(* A remote call raising: the exception leaves the task; nothing shared    *)
(* has been written since the last await.                                  *)
CallRaises(t) ==
    /\ CallsMayFail
    /\ pc[t] \in Pcs \ {"done"}
    /\ Fail(t)
    /\ UNCHANGED <<todo, descs, sdict, gens, emodel, ec, ua, extTypeids, extByTypeid,
                   file, failedDocs>>

(**************************** load_type_definitions ***********************)
(* The synchronous end of one node: every enum of structs_dict is exposed  *)
(* in ua; the next node's read_value is awaited, or the function returns   *)
(* and uageneratestructs saves generators[0] with register=True.          *)
(* Mutant of ExposeEnums: the setattr loop left out.                      *)
ExposeEnumsSkipped(u, sd) == u

ExposeEnums(u, sd) ==
    LET es == {k \in DOMAIN sd : sd[k].kind = "enum" /\ k # "IntEnum"}
    IN [n \in DOMAIN u \cup es |-> IF n \in es THEN sd[n] ELSE u[n]]

(* uageneratestructs, once load_type_definitions([node]) has returned:    *)
(* generators[0].save_to_file(output_path, True).                         *)
SaveGenerated(gs) ==
    [defs |-> [i \in DOMAIN gs[1] |-> GetCode(gs[1][i])], regs |-> MakeRegistration(gs[1])]

(* Mutant of FinishNode: the function returns after the first node.       *)
FinishNodeStop(t, u, gs) ==
    /\ ua' = ExposeEnums(u, sdict[t])
    /\ todo' = [todo EXCEPT ![t] = <<>>]
    /\ gens' = [gens EXCEPT ![t] = gs]
    /\ pc' = [pc EXCEPT ![t] = "done"]
    /\ result' = [result EXCEPT ![t] = "ok"]
    /\ file' = IF TaskKind[t] = "gen" THEN [file EXCEPT ![t] = SaveGenerated(gs)] ELSE file

FinishNode(t, u, gs) ==
    /\ ua' = ExposeEnums(u, sdict[t])
    /\ todo' = [todo EXCEPT ![t] = Tail(todo[t])]
    /\ gens' = [gens EXCEPT ![t] = gs]
    /\ IF Tail(todo[t]) # <<>>
       THEN /\ pc' = [pc EXCEPT ![t] = "read"]
            /\ UNCHANGED <<result, file>>
       ELSE /\ pc' = [pc EXCEPT ![t] = "done"]
            /\ result' = [result EXCEPT ![t] = "ok"]
            /\ file' = IF TaskKind[t] = "gen" THEN [file EXCEPT ![t] = SaveGenerated(gs)] ELSE file

(* get_children_descriptions of "0:OPC Binary" returned.                   *)
BrowseBinary(t) ==
    /\ pc[t] = "browse" /\ TaskKind[t] = "ltd"
    /\ LET nodes == SelectSeq(BinaryChildren, LAMBDA c : c.browse # "Opc.Ua")
       IN /\ todo' = [todo EXCEPT ![t] = [i \in DOMAIN nodes |-> nodes[i].node]]
          /\ IF nodes = <<>>
             THEN pc' = [pc EXCEPT ![t] = "done"] /\ result' = [result EXCEPT ![t] = "ok"]
             ELSE pc' = [pc EXCEPT ![t] = "read"] /\ UNCHANGED result
    /\ UNCHANGED <<descs, sdict, gens, emodel, ec, ua, extTypeids, extByTypeid, file, failedDocs>>

(* make_model() of each well-formed dictionary's XML: it depends on the  *)
(* document alone.                                                         *)
NodeModel == [n \in {x \in DOMAIN NodeXml : NodeXml[x] # Malformed} |-> MakeModel(NodeXml[n])]

(* node.read_value() returned the XML: a new generator is appended, its   *)
(* model made, and its classes exec'd into structs_dict; then the node's  *)
(* children are awaited.  A parse or exec error leaves the function.      *)
ReadXml(t) ==
    /\ pc[t] = "read"
    /\ LET node == Head(todo[t]) IN
       IF NodeXml[node] = Malformed
       THEN /\ Fail(t)
            /\ UNCHANGED <<todo, descs, sdict, gens, emodel, ec, ua, extTypeids,
                           extByTypeid, file, failedDocs>>
       ELSE LET m == NodeModel[node] IN
            \E failAt \in {0} \cup DOMAIN m :
               /\ gens' = [gens EXCEPT ![t] = Append(gens[t], RanGetCode(m, failAt))]
               /\ IF failAt = 0
                  THEN /\ sdict' = [sdict EXCEPT ![t] = Generated(sdict[t], t, node, m, 0)]
                       /\ pc' = [pc EXCEPT ![t] = "children"]
                       /\ UNCHANGED <<result, failedDocs>>
                  ELSE /\ Fail(t)
                       /\ failedDocs' = failedDocs \cup {[task |-> t, src |-> node]}
                       /\ UNCHANGED sdict
               /\ UNCHANGED <<todo, descs, emodel, ec, ua, extTypeids, extByTypeid, file>>

(* node.get_children_descriptions() returned.                              *)
NodeChildren(t) ==
    /\ pc[t] = "children"
    /\ LET ds == NodeDescs[Head(todo[t])] IN
       IF ds = <<>>
       THEN /\ FinishNode(t, ua, gens[t])
            /\ UNCHANGED <<descs, sdict, emodel, ec, extTypeids, extByTypeid, failedDocs>>
       ELSE /\ descs' = [descs EXCEPT ![t] = ds]
            /\ pc' = [pc EXCEPT ![t] = "refs"]
            /\ UNCHANGED <<result, todo, sdict, gens, emodel, ec, ua, extTypeids,
                           extByTypeid, file, failedDocs>>

(* Mutant of BindDescriptor: the HasDescription test left out.            *)
BindDescriptorNoRefs(t, d) == d.name \in DOMAIN sdict[t]

(* get_references(HasDescription, Inverse) of one descriptor returned.     *)
(* A non-empty list whose cleaned name is a key of structs_dict registers  *)
(* structs_dict[name] and sets the typeid in the current generator; an     *)
(* unknown name is logged and skipped.                                     *)
BindDescriptor(t, d) ==
    d.refs /\ d.name \in DOMAIN sdict[t]

DescriptorRefs(t) ==
    /\ pc[t] = "refs"
    /\ LET d == Head(descs[t])
           bind == BindDescriptor(t, d)
           cls == IF bind THEN sdict[t][d.name] ELSE LibClass(d.name)
           u1 == IF bind THEN Registered(ua, d.name, cls) ELSE ua
           gs == IF bind
                 THEN [gens[t] EXCEPT ![Len(gens[t])] = SetTypeid(gens[t][Len(gens[t])], d.name, d.typeid)]
                 ELSE gens[t]
       IN /\ extTypeids' = IF bind THEN Registered(extTypeids, d.name, d.typeid) ELSE extTypeids
          /\ extByTypeid' = IF bind THEN Registered(extByTypeid, d.typeid, cls) ELSE extByTypeid
          /\ descs' = [descs EXCEPT ![t] = Tail(descs[t])]
          /\ IF Tail(descs[t]) # <<>>
             THEN /\ ua' = u1 /\ gens' = [gens EXCEPT ![t] = gs]
                  /\ UNCHANGED <<pc, result, todo, file>>
             ELSE FinishNode(t, u1, gs)
    /\ UNCHANGED <<sdict, emodel, ec, failedDocs>>

(********************************* load_enums *****************************)
(* The synchronous walk to the next await: enum descriptions are skipped   *)
(* while "not force and hasattr(ua, name)"; the first one kept has its     *)
(* properties awaited.  With none left, _generate_python_class(model,     *)
(* env=None) execs the model into ua itself, one EnumType at a time.      *)
NextEnum(t, rem, model) ==
    LET idx == SelectInSeq(rem, LAMBDA e : Force[t] \/ e.name \notin DOMAIN ua)
    IN IF idx = 0
       THEN \E failAt \in {0} \cup DOMAIN model :
              /\ ua' = Generated(ua, t, "server", model, failAt)
              /\ pc' = [pc EXCEPT ![t] = "done"]
              /\ result' = [result EXCEPT ![t] = IF failAt = 0 THEN "ok" ELSE "failed"]
              /\ failedDocs' = IF failAt = 0 THEN failedDocs
                               ELSE failedDocs \cup {[task |-> t, src |-> "server"]}
              /\ todo' = [todo EXCEPT ![t] = <<>>]
              /\ emodel' = [emodel EXCEPT ![t] = model]
              /\ ec' = [ec EXCEPT ![t] = None]
       ELSE /\ todo' = [todo EXCEPT ![t] = SubSeq(rem, idx, Len(rem))]
            /\ emodel' = [emodel EXCEPT ![t] = model]
            /\ ec' = [ec EXCEPT ![t] = None]
            /\ pc' = [pc EXCEPT ![t] = "props"]
            /\ UNCHANGED <<ua, result, failedDocs>>

(* Within one enum: the next EnumStrings or EnumValues property has its    *)
(* value awaited (other properties only log a warning); when none is left  *)
(* c, if set, joins the model and the walk goes on to the next enum.       *)
NextProperty(t, props, c) ==
    LET idx == SelectInSeq(props, LAMBDA p : p \in {"EnumStrings", "EnumValues"})
    IN IF idx = 0
       THEN /\ descs' = [descs EXCEPT ![t] = <<>>]
            /\ NextEnum(t, Tail(todo[t]),
                        IF c = None THEN emodel[t] ELSE Append(emodel[t], c))
       ELSE /\ descs' = [descs EXCEPT ![t] = SubSeq(props, idx, Len(props))]
            /\ ec' = [ec EXCEPT ![t] = c]
            /\ pc' = [pc EXCEPT ![t] = "readprop"]
            /\ UNCHANGED <<todo, emodel, ua, result, failedDocs>>

(* enum_data_type.get_children_descriptions(HasSubtype) returned.           *)
BrowseEnums(t) ==
    /\ pc[t] = "browse" /\ TaskKind[t] = "enums"
    /\ NextEnum(t, ServerEnums, <<>>)
    /\ UNCHANGED <<descs, sdict, gens, extTypeids, extByTypeid, file>>

(* enum_node.get_children_descriptions(HasProperty) returned.              *)
EnumProperties(t) ==
    /\ pc[t] = "props"
    /\ NextProperty(t, Head(todo[t]).props, None)
    /\ UNCHANGED <<sdict, gens, extTypeids, extByTypeid, file>>

(* read_value() of EnumStrings or EnumValues returned: _get_enum_strings / *)
(* _get_enum_values build a fresh EnumType that replaces c.                *)
ReadEnumProperty(t) ==
    /\ pc[t] = "readprop"
    /\ LET e == Head(todo[t])
           c == [kind |-> "enum", name |-> e.name, typeid |-> None, option_counter |-> 0,
                 fields |-> <<Head(descs[t])>>]
       IN NextProperty(t, Tail(descs[t]), c)
    /\ UNCHANGED <<sdict, gens, extTypeids, extByTypeid, file>>

-----------------------------------------------------------------------------
Step(t) ==
    \/ CallRaises(t)
    \/ BrowseBinary(t)
    \/ ReadXml(t)
    \/ NodeChildren(t)
    \/ DescriptorRefs(t)
    \/ BrowseEnums(t)
    \/ EnumProperties(t)
    \/ ReadEnumProperty(t)

(* Every task has returned or raised; the process goes on without them.    *)
Finished == \A t \in Tasks : pc[t] = "done"

Next == (\E t \in Tasks : Step(t)) \/ (Finished /\ UNCHANGED vars)

Spec == Init /\ [][Next]_vars

-----------------------------------------------------------------------------
AllDescs == UNION {{NodeDescs[n][i] : i \in DOMAIN NodeDescs[n]} : n \in DOMAIN NodeDescs}
TypeIdsOf == {d.typeid : d \in AllDescs}
Names == EnumNames \cup StructNames \cup HelperNames \cup InitialUa
         \cup {ServerEnums[i].name : i \in DOMAIN ServerEnums}
         \cup {d.name : d \in AllDescs}

TypeOK ==
    /\ pc \in [Tasks -> Pcs]
    /\ result \in [Tasks -> {"running", "ok", "failed"}]
    /\ DOMAIN ua \subseteq Names
    /\ DOMAIN extTypeids \subseteq Names
    /\ \A n \in DOMAIN extTypeids : extTypeids[n] \in TypeIdsOf
    /\ DOMAIN extByTypeid \subseteq TypeIdsOf
    /\ \A t \in Tasks : file[t] # None => TaskKind[t] = "gen" /\ result[t] = "ok"

(* The dictionary nodes a load_type_definitions task works through.       *)
NodesOf(t) ==
    IF TaskKind[t] = "gen" THEN {GenNode}
    ELSE {BinaryChildren[i].node : i \in {j \in DOMAIN BinaryChildren : BinaryChildren[j].browse # "Opc.Ua"}}
DocNames(node) == {NodeXml[node][i].name : i \in DOMAIN NodeXml[node]}

(* Scenario E of the spec: once load_type_definitions has returned, every  *)
(* descriptor of every dictionary node that has a HasDescription reference *)
(* and names a type of that node's XML is registered: its typeid decodes   *)
(* to the class generated from that node, whatever other loads ran in      *)
(* between and whichever descriptors were skipped as mismatches.           *)
BindingComplete ==
    \A t \in Tasks : TaskKind[t] \in {"ltd", "gen"} /\ result[t] = "ok" =>
        \A node \in NodesOf(t) : \A i \in DOMAIN NodeDescs[node] :
            LET d == NodeDescs[node][i] IN
            d.refs /\ d.name \in DocNames(node) =>
                /\ d.typeid \in DOMAIN extByTypeid
                /\ extByTypeid[d.typeid].src = node
                /\ extByTypeid[d.typeid].name = d.name

(* Spec 4.5: once load_type_definitions has returned, every enum of the    *)
(* documents it loaded is reachable in the shared ua namespace as an enum  *)
(* class of that name, so struct defaults "ua.<E>(v)" resolve.             *)
EnumsExposedAfterLoad ==
    \A t \in Tasks : TaskKind[t] \in {"ltd", "gen"} /\ result[t] = "ok" =>
        \A node \in NodesOf(t) : \A i \in DOMAIN NodeXml[node] :
            NodeXml[node][i].kind = "enum" =>
                /\ NodeXml[node][i].name \in DOMAIN ua
                /\ ua[NodeXml[node][i].name].kind = "enum"

(* Spec 4.4 / 7: no type of a document whose generation failed is ever     *)
(* committed into the shared ua namespace.                                 *)
NoPartialCommit ==
    \A f \in failedDocs : \A n \in DOMAIN ua : ~(ua[n].by = f.task /\ ua[n].src = f.src)

(* Spec 4.6: load_enums without force skips every enum type already in    *)
(* the ua namespace: its generation step never rebinds a name of a server  *)
(* enumeration that ua already holds.                                      *)
EnumsKeepExisting ==
    [][\A t \in Tasks :
         (TaskKind[t] = "enums" /\ ~Force[t] /\ pc[t] # "done" /\ pc'[t] = "done") =>
            \A n \in DOMAIN ua \cap {ServerEnums[i].name : i \in DOMAIN ServerEnums} :
                ua'[n] = ua[n]]_vars
-----------------------------------------------------------------------------
(* The registry as ExtensionRegistry sees it: each class by its name and  *)
(* the dictionary node it came from.                                       *)
DescribedTypes ==
    UNION {{[node |-> n, name |-> NodeDescs[n][i].name, typeid |-> NodeDescs[n][i].typeid] :
               i \in {j \in DOMAIN NodeDescs[n] : NodeDescs[n][j].refs}} : n \in DOMAIN NodeDescs}

Registry == INSTANCE ExtensionRegistry WITH
    Described <- DescribedTypes,
    DefinedBy <- [n \in DOMAIN NodeXml |-> DocNames(n)],
    byName    <- extTypeids,
    byTypeid  <- [i \in DOMAIN extByTypeid |-> [name |-> extByTypeid[i].name, src |-> extByTypeid[i].src]]

(* Spec 4.4 / 4.5: whatever the tasks interleave and whichever call       *)
(* raises, the registry only ever binds a described type to the class its *)
(* own dictionary node defines, both maps in one step: load_type_         *)
(* definitions and uageneratestructs implement ExtensionRegistry.          *)
RegistryRefinement == Registry!Spec

=============================================================================
