------------------------------ MODULE UaWrite ------------------------------
(***************************************************************************)
(* The uawrite tool of src/asyncua/tools.py (_uawrite): parse the          *)
(* arguments, configure the client, then inside try / except Exception /  *)
(* finally: connect, resolve the node, convert VALUE with _val_to_variant *)
(* and write it; the finally clause disconnects.  One action is one await *)
(* returning or raising plus the synchronous code up to the next await.   *)
(***************************************************************************)
EXTENDS ToolArgs, SequencesExt

CONSTANTS
    Args,          \* the command lines: [nodeid, path, datatype, array, value]
    NodeOf,        \* [nodeid text -> node]: client.get_node
    Children,      \* [node -> [browse name -> node]]: what get_child can follow
    SecurityMayFail \* whether set_security_string may reject the --security text

Pcs == {"parse", "configure", "connect", "getnode", "write", "disconnect", "done"}

VARIABLES
    args,          \* the parsed command line
    pc,            \* the next await of the coroutine
    node,          \* the node get_node returned, or None
    sent,          \* the write_attribute request sent, or None
    acked,         \* whether write_attribute returned
    err,           \* an exception the except clause caught
    exitCode,      \* None, or the process exit status 0 or 1
    traceback,     \* the process ended by an uncaught exception (status 1)
    connecting,    \* ghost: client.connect() was awaited
    closed         \* client.disconnect(): None (not awaited), "ok" or "raised"

vars == <<args, pc, node, sent, acked, err, exitCode, traceback, connecting, closed>>

(* node.get_child(path): each browse name followed from the node reached  *)
(* so far; None when a step has no such child (BadNoMatch).               *)
Resolve(n, path) ==
    FoldLeft(LAMBDA cur, name : IF cur # None /\ name \in DOMAIN Children[cur]
                                THEN Children[cur][name] ELSE None, n, path)

Init ==
    /\ args \in Args
    /\ pc = "parse"
    /\ node = None /\ sent = None /\ acked = FALSE /\ err = FALSE
    /\ exitCode = None /\ traceback = FALSE /\ connecting = FALSE /\ closed = None

(* parse_args(parser, requirenodeid=True): no node given exits with 1.   *)
ParseArgs ==
    /\ pc = "parse"
    /\ IF NodeGiven(args)
       THEN pc' = "configure" /\ UNCHANGED exitCode
       ELSE pc' = "done" /\ exitCode' = 1
    /\ UNCHANGED <<args, node, sent, acked, err, connecting, closed, traceback>>

(* await _configure_client_with_args(client, args), outside the try: a    *)
(* rejected security string is an uncaught exception.                      *)
Configure ==
    /\ pc = "configure"
    /\ \E ok \in IF SecurityMayFail THEN BOOLEAN ELSE {TRUE} :
         IF ok THEN pc' = "connect" /\ UNCHANGED <<exitCode, traceback>>
         ELSE pc' = "done" /\ exitCode' = 1 /\ traceback' = TRUE
    /\ UNCHANGED <<args, node, sent, acked, err, connecting, closed>>

(* Mutant of ConvertAndSend: the conversion result sent unchecked.        *)
ConvertAndSendUnchecked(n) ==
    LET v == ValToVariant(args.value, args.datatype, args.array)
    IN pc' = "write" /\ sent' = [node |-> n, value |-> v] /\ UNCHANGED err

(* The code after the node is known: _val_to_variant, then the await of   *)
(* node.write_attribute(attribute, ua.DataValue(val)).  A conversion      *)
(* error goes to the except clause.                                        *)
ConvertAndSend(n) ==
    LET v == ValToVariant(args.value, args.datatype, args.array)
    IN IF v.kind = "raise"
       THEN pc' = "disconnect" /\ err' = TRUE /\ UNCHANGED sent
       ELSE pc' = "write" /\ sent' = [node |-> n, value |-> v] /\ UNCHANGED err

(* await client.connect() returned or raised; get_node with an empty path *)
(* does not await, so conversion and the write request follow at once.    *)
Connect ==
    /\ pc = "connect"
    /\ connecting' = TRUE
    /\ \/ /\ pc' = "disconnect" /\ err' = TRUE
          /\ UNCHANGED <<node, sent>>
       \/ IF BrowsePath(args) = <<>>
          THEN node' = NodeOf[args.nodeid] /\ ConvertAndSend(NodeOf[args.nodeid])
          ELSE pc' = "getnode" /\ UNCHANGED <<node, sent, err>>
    /\ UNCHANGED <<args, acked, exitCode, closed, traceback>>

(* await node.get_child(path) returned or raised.                          *)
GetNode ==
    /\ pc = "getnode"
    /\ LET target == Resolve(NodeOf[args.nodeid], BrowsePath(args)) IN
       \/ /\ pc' = "disconnect" /\ err' = TRUE
          /\ UNCHANGED <<node, sent>>
       \/ /\ target # None
          /\ node' = target
          /\ ConvertAndSend(target)
    /\ UNCHANGED <<args, acked, exitCode, connecting, closed, traceback>>

(* Mutant of WriteDone: a failed write leaves without the finally clause. *)
WriteDoneNoFinally ==
    /\ pc = "write"
    /\ \/ pc' = "disconnect" /\ acked' = TRUE /\ UNCHANGED <<err, exitCode>>
       \/ pc' = "done" /\ err' = TRUE /\ exitCode' = 1 /\ UNCHANGED acked
    /\ UNCHANGED <<args, node, sent, connecting, closed, traceback>>

(* await node.write_attribute(...) returned, or raised (a Bad status or a *)
(* lost connection).                                                       *)
WriteDone ==
    /\ pc = "write"
    /\ pc' = "disconnect"
    /\ \/ acked' = TRUE /\ UNCHANGED err
       \/ err' = TRUE /\ UNCHANGED acked
    /\ UNCHANGED <<args, node, sent, exitCode, connecting, closed, traceback>>

(* finally: await client.disconnect(); then sys.exit(1) from the except   *)
(* clause or sys.exit(0) after the try statement.  A disconnect that      *)
(* raises replaces whatever was leaving the try (the SystemExit of the    *)
(* except clause included): a traceback, status 1.                        *)
Disconnect ==
    /\ pc = "disconnect"
    /\ pc' = "done"
    /\ \/ closed' = "ok" /\ exitCode' = (IF err THEN 1 ELSE 0) /\ UNCHANGED traceback
       \/ closed' = "raised" /\ exitCode' = 1 /\ traceback' = TRUE
    /\ UNCHANGED <<args, node, sent, acked, err, connecting>>

Done == pc = "done" /\ UNCHANGED vars

Next == ParseArgs \/ Configure \/ Connect \/ GetNode \/ WriteDone \/ Disconnect \/ Done

Spec == Init /\ [][Next]_vars

-----------------------------------------------------------------------------
TypeOK ==
    /\ args \in Args
    /\ pc \in Pcs
    /\ exitCode \in {None, 0, 1}
    /\ traceback => exitCode = 1
    /\ sent # None => sent.value.kind \in {"variant", "none"}

(* The VariantType each --datatype choice names.                           *)
ChoiceType ==
    [c \in DatatypeChoices \ {"guess"} |->
        CASE c \in {"qualifiedname", "browsename"} -> "QualifiedName"
          [] c = "expandednodeid" -> "ExpandedNodeId" [] c = "nodeid" -> "NodeId"
          [] c = "bytestring" -> "ByteString" [] c = "xmlelement" -> "XmlElement"
          [] c = "localizedtext" -> "LocalizedText" [] c = "statuscode" -> "StatusCode"
          [] c = "bool" -> "Boolean" [] c = "datetime" -> "DateTime"
          [] c = "sbyte" -> "SByte" [] c = "byte" -> "Byte" [] c = "string" -> "String"
          [] c = "float" -> "Float" [] c = "double" -> "Double"
          [] c = "int16" -> "Int16" [] c = "int32" -> "Int32" [] c = "int64" -> "Int64"
          [] c = "uint16" -> "UInt16" [] c = "uint32" -> "UInt32" [] OTHER -> "UInt64"]

(* --array: "true" always, "guess" when VALUE has a comma.                 *)
ListExpected(a) == a.datatype # "bool" /\ (a.array = "true" \/ (a.array = "guess" /\ Len(a.value) > 1))

(* guess: a single boolean word is Boolean, else the narrowest of Int64,   *)
(* Double and String that takes every element.                             *)
GuessType(a) ==
    LET elems == IF ListExpected(a) THEN {<<a.value[i]>> : i \in DOMAIN a.value} ELSE {a.value}
    IN IF Len(a.value) = 1 /\ a.value[1] \in BoolTexts THEN "Boolean"
       ELSE IF \A e \in elems : Parses("int", e) THEN "Int64"
       ELSE IF \A e \in elems : Parses("float", e) THEN "Double"
       ELSE "String"

(* A value uawrite sends is the VALUE text as the --datatype / --array     *)
(* options ask: the VariantType the choice names (or the guessed one), an  *)
(* array exactly when --array asks for one, and, unless a boolean, the     *)
(* same pieces in the same order.                                          *)
SentValueFaithful ==
    sent # None /\ sent.value.kind = "variant" =>
        /\ sent.value.type = IF args.datatype = "guess" THEN GuessType(args) ELSE ChoiceType[args.datatype]
        /\ sent.value.array = ListExpected(args)
        /\ sent.value.type # "Boolean" =>
              FlattenSeq([i \in DOMAIN sent.value.items |-> sent.value.items[i].text]) = args.value

(* uawrite exits with status 0 exactly when the server acknowledged the   *)
(* write and the finally clause's disconnect returned, and whenever       *)
(* connect was attempted that disconnect was awaited before the exit.     *)
ExitStatusReflectsWrite ==
    pc = "done" =>
        /\ (exitCode = 0) <=> (acked /\ closed = "ok")
        /\ connecting => closed # None
=============================================================================
