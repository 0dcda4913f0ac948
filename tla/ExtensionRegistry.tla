-------------------------- MODULE ExtensionRegistry --------------------------
(***************************************************************************)
(* What the loaders promise of ua's extension-object registry: it starts  *)
(* empty and changes only by binding one described type, a child of a     *)
(* dictionary node with a HasDescription reference, to the class that     *)
(* node's own XML defines; the name->typeid and typeid->class maps change *)
(* together in that one step.  A class is seen as its name and the        *)
(* dictionary node it was generated from.                                  *)
(***************************************************************************)
EXTENDS TLC

CONSTANTS
    Described,  \* the described types: [node, name, typeid]
    DefinedBy   \* [node -> the type names its XML defines]

VARIABLES
    byName,     \* ua.extension_object_typeids: name -> typeid
    byTypeid    \* ua.extension_objects_by_typeid: typeid -> [name, src]

Init ==
    /\ byName = [n \in {} |-> n]
    /\ byTypeid = [i \in {} |-> i]

(* register_extension_object(name, nodeid, structs_dict[name]) for a      *)
(* descriptor d whose name its own node defines.                           *)
Bind(d) ==
    /\ d.name \in DefinedBy[d.node]
    /\ byName' = (d.name :> d.typeid) @@ byName
    /\ byTypeid' = (d.typeid :> [name |-> d.name, src |-> d.node]) @@ byTypeid

Next == \E d \in Described : Bind(d)

Spec == Init /\ [][Next]_<<byName, byTypeid>>
=============================================================================
