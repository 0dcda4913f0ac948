------------------------------- MODULE UaLs -------------------------------
(***************************************************************************)
(* The uals tool of src/asyncua/tools.py: _uals connects (async with       *)
(* client), resolves the node and calls _lsprint_0, _lsprint_1 or          *)
(* _lsprint_long (by -l) with args.depth - 1.  Each of them browses the   *)
(* children of its node, prints a line per child (_lsprint_1 awaits the    *)
(* value of a Variable, _lsprint_long its attributes) and, while "if       *)
(* depth:" holds, awaits itself on the child with depth - 1.  The chain of *)
(* awaiting coroutines is a stack of frames; Python's recursion limit is   *)
(* RecursionLimit frames.                                                   *)
(***************************************************************************)
EXTENDS Integers, SequencesExt

CONSTANTS
    Starts,          \* the nodes -n may name
    Children,        \* [node -> sequence of nodes]: get_children_descriptions
    Variables,       \* nodes of NodeClass Variable
    Unreadable,      \* Variables whose read_value raises UaStatusCodeError
    Depths,          \* values of -d
    Formats,         \* values of args.long_format: None -> 1, "-l" -> 3, "-l N" -> N
    CallsMayFail,    \* whether connect and browse may raise
    RecursionLimit,  \* frames of nested _lsprint_* before RecursionError
    None

VARIABLES
    start, depth, format,  \* the parsed arguments
    pc,                    \* "connect", "run" or "done"
    stack,                 \* frames [node, depth, todo]: todo is None until browsed
    listed,                \* the printed lines [level, node, shown]
    exitCode,              \* None, 0 or 1
    traceback,             \* the process ended by an uncaught exception
    failed                 \* ghost: a connect or browse call raised

vars == <<start, depth, format, pc, stack, listed, exitCode, traceback, failed>>

Frame(n, d) == [node |-> n, depth |-> d, todo |-> None]
Top == stack[Len(stack)]

Init ==
    /\ start \in Starts /\ depth \in Depths /\ format \in Formats
    /\ pc = "connect" /\ stack = <<>> /\ listed = <<>>
    /\ exitCode = None /\ traceback = FALSE /\ failed = FALSE

(* Leave _uals: OSError and TimeoutError are caught (status 1), anything   *)
(* else is a traceback.                                                     *)
Exit(code, uncaught) ==
    /\ pc' = "done" /\ exitCode' = code /\ traceback' = uncaught

(* Mutant of ListDepth: the -d value passed on unchanged.                  *)
ListDepthSame(d) == d

(* _uals calls _lsprint_*(node, args.depth - 1).                           *)
ListDepth(d) == d - 1

(* Mutant of NextDepth: the recursive call passes depth itself.            *)
NextDepthSame(d) == d

(* _lsprint_* recurse with depth - 1.                                      *)
NextDepth(d) == d - 1

(* _configure_client_with_args (before the try: a rejected security      *)
(* string is uncaught), then async with client: connect returned or       *)
(* raised (a lost connection is caught, a Bad status is not); get_node    *)
(* (no -p) does not await; the _lsprint_* call begins with its browse.    *)
Connect ==
    /\ pc = "connect"
    /\ \/ /\ CallsMayFail /\ failed' = TRUE
          /\ \E uncaught \in BOOLEAN : Exit(1, uncaught)
          /\ UNCHANGED stack
       \/ /\ stack' = <<Frame(start, ListDepth(depth))>> /\ pc' = "run"
          /\ UNCHANGED <<exitCode, traceback, failed>>
    /\ UNCHANGED <<start, depth, format, listed>>

(* await node.get_children_descriptions() (get_children for the long      *)
(* format) returned, or raised: a lost connection is an OSError the        *)
(* except clause catches, a Bad status a UaStatusCodeError nothing does.   *)
Browse ==
    /\ pc = "run" /\ stack # <<>> /\ Top.todo = None
    /\ \/ /\ stack' = [stack EXCEPT ![Len(stack)].todo = Children[Top.node]]
          /\ UNCHANGED <<pc, exitCode, traceback, failed>>
       \/ /\ CallsMayFail /\ failed' = TRUE
          /\ \E uncaught \in BOOLEAN : Exit(1, uncaught)
          /\ UNCHANGED stack
    /\ UNCHANGED <<start, depth, format, listed>>

(* What the line of a child shows: _lsprint_1 awaits read_value of a       *)
(* Variable and prints "Bad (0x..)" for a UaStatusCodeError; the long      *)
(* format's read_attributes reports a bad Value as None; _lsprint_0 reads  *)
(* nothing.                                                                 *)
Shown(c) ==
    CASE c \notin Variables \/ format = 0 -> "-"
      [] c \in Unreadable                -> IF format = 1 THEN "bad" ELSE "null"
      [] OTHER                           -> "value"

(* One child of the loop: its line is printed (after the value read, for  *)
(* _lsprint_1 and _lsprint_long), then "if depth:" awaits the recursive    *)
(* call on it, whose first step is its browse.  Only depth 0 is false: a  *)
(* negative depth recurses until RecursionError.                           *)
Visit ==
    /\ pc = "run" /\ stack # <<>> /\ Top.todo \notin {None, <<>>}
    /\ LET c == Head(Top.todo)
           rest == [stack EXCEPT ![Len(stack)].todo = Tail(Top.todo)]
       IN /\ listed' = Append(listed, [level |-> Len(stack), node |-> c, shown |-> Shown(c)])
          /\ IF Top.depth = 0
             THEN stack' = rest /\ UNCHANGED <<pc, exitCode, traceback>>
             ELSE IF Len(stack) = RecursionLimit
             THEN Exit(1, TRUE) /\ UNCHANGED stack
             ELSE stack' = Append(rest, Frame(c, NextDepth(Top.depth))) /\ UNCHANGED <<pc, exitCode, traceback>>
    /\ UNCHANGED <<start, depth, format, failed>>

(* Mutant of Return: the outermost return forgets sys.exit(0).            *)
ReturnNoExit ==
    /\ pc = "run" /\ stack # <<>> /\ Top.todo = <<>>
    /\ stack' = Front(stack)
    /\ IF Len(stack) = 1 THEN pc' = "done" ELSE UNCHANGED pc
    /\ UNCHANGED <<start, depth, format, listed, exitCode, traceback, failed>>

(* A loop ran out of children and its coroutine returns to the caller's   *)
(* loop; the outermost return leaves async with and sys.exit(0).           *)
Return ==
    /\ pc = "run" /\ stack # <<>> /\ Top.todo = <<>>
    /\ stack' = Front(stack)
    /\ IF Len(stack) = 1 THEN Exit(0, FALSE) ELSE UNCHANGED <<pc, exitCode, traceback>>
    /\ UNCHANGED <<start, depth, format, listed, failed>>

Done == pc = "done" /\ UNCHANGED vars

Next == Connect \/ Browse \/ Visit \/ Return \/ Done

Spec == Init /\ [][Next]_vars

-----------------------------------------------------------------------------
TypeOK ==
    /\ pc \in {"connect", "run", "done"}
    /\ (pc = "done") = (exitCode # None)
    /\ exitCode \in {None, 0, 1}
    /\ traceback => exitCode = 1
    /\ Len(stack) <= RecursionLimit

(* The listing "-d D" should print, in browse order, every node reached    *)
(* by a path of 1 to D children from the start node, indented by its       *)
(* path length (nodes reached twice through a cycle are printed again).    *)
RECURSIVE RefListing(_, _, _)
RefListing(n, level, d) ==
    FlattenSeq([i \in DOMAIN Children[n] |->
                  <<[level |-> level, node |-> Children[n][i]]>>
                  \o (IF level < d THEN RefListing(Children[n][i], level + 1, d) ELSE <<>>)])

(* When uals exits with status 0, the lines it printed are exactly the    *)
(* reference listing for the requested depth: the depth - 1 passed by      *)
(* _uals and the "if depth:" test of _lsprint_* stop at level D, no       *)
(* earlier and no later, also when the references form a cycle.           *)
ListingMatchesReference ==
    exitCode = 0 =>
        [i \in DOMAIN listed |-> [level |-> listed[i].level, node |-> listed[i].node]]
            = RefListing(start, 1, depth)

(* Unless a connect or browse call raised, uals ends with status 0: the   *)
(* recursion of _lsprint_* stops by itself, before Python's recursion     *)
(* limit, for every -d that argparse accepts (type=int, "Browse depth")   *)
(* and whatever the server's reference graph is.                          *)
ListingEndsCleanly ==
    (pc = "done" /\ ~failed) => exitCode = 0
=============================================================================
