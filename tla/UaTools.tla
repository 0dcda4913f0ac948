------------------------------ MODULE UaTools ------------------------------
(***************************************************************************)
(* The command line tools of src/asyncua/tools.py other than uawrite and  *)
(* uals: uaread, uasubscribe, uaclient, uadiscover, uahistoryread, uacall, *)
(* uageneratestructs and uaserver.  Each parses its command   *)
(* line, then awaits a fixed sequence of client calls: some before its     *)
(* try statement (an exception there is a traceback), the others inside    *)
(* it (an exception goes to the except clause, if one catches it, and      *)
(* always through the finally clause or the async with exit, which         *)
(* disconnects a connected client).  The calls of one run are its "plan", *)
(* computed from the parsed arguments; one step is one call returning or   *)
(* raising.  uasubscribe's "while True: await asyncio.sleep(1)" ends only  *)
(* by Ctrl-C.                                                              *)
(***************************************************************************)
EXTENDS ToolArgs

CONSTANTS
    CmdLines,      \* the command lines, one record per run (fields below)
    TimeTexts,     \* texts one of the three strptime formats of str_to_datetime accepts
    CallsMayFail   \* whether calls to the server may raise

(* A command line: tool, nodeid (None when -n is absent), path (the -p     *)
(* pieces), eventtype, events (-e), starttime / endtime (None if absent), *)
(* method (None if absent), value (pieces, None if absent), datatype,     *)
(* array, user (None if absent), certificate, private_key, network, and   *)
(* uaserver's xml, populate and shell.                                     *)

(* The exceptions a call may raise: a lost or refused connection, a Bad   *)
(* status from the server, a ValueError of the tool's own code, and the   *)
(* ValueError x509_from_der raises for a malformed server certificate.    *)
Conn == "OSError"
Bad  == "UaStatusCodeError"

(* A call before the try, one inside it that may raise, and one that       *)
(* raises whatever the server does.                                        *)
Pre(call, may)  == [call |-> call, zone |-> "pre", may |-> may, must |-> FALSE]
Try(call, may)  == [call |-> call, zone |-> "try", may |-> may, must |-> FALSE]
Fails(call, e)  == [call |-> call, zone |-> "try", may |-> {e}, must |-> TRUE]

VARIABLES
    cmd,           \* the command line
    args,          \* the parsed arguments: [nodeid, path, user]
    pc,            \* "parse", "run", "finally", "done"
    plan,          \* the calls of this run
    next,          \* index of the next call of plan
    connected,     \* the client session was opened or the server started
    closed,        \* the finally clause / async with exit: None, "ok" or "raised"
    userSet,       \* client.set_user was called with args.user
    exc,           \* the exception that left the try body, or None
    calls,         \* the calls that returned: [call, node, start, end]
    exitCode,      \* None, or the exit status
    traceback      \* the process ended by an uncaught exception

vars == <<cmd, args, pc, plan, next, connected, closed, userSet, exc, calls, exitCode, traceback>>

(**************************** argument handling ****************************)
(* argparse: -n defaults to "i=84"; the other arguments as given.         *)
Parsed(c) == [nodeid |-> IF c.nodeid = None THEN "i=84" ELSE c.nodeid, path |-> c.path, user |-> c.user]

(* uasubscribe: with -t event and the default node the Server node i=2253 *)
(* is used instead ("FIXME: this is broken, someone may have written i=84 *)
(* on purpose").                                                           *)
SubscribeArgs(c) ==
    LET a == Parsed(c) IN
    IF c.eventtype = "event" /\ a.nodeid = "i=84" /\ a.path = <<>> THEN [a EXCEPT !.nodeid = "i=2253"] ELSE a

(* Whether parse_args / _require_nodeid (and argparse's required=True for *)
(* uageneratestructs) let the run go on, and the exit status if not.      *)
ParseExit(c) ==
    CASE c.tool = "uageneratestructs" /\ c.nodeid = None        -> 2
      [] c.tool \in {"uaread", "uahistoryread", "uacall", "uageneratestructs"}
           /\ ~NodeGiven(Parsed(c))                             -> 1
      [] c.tool = "uasubscribe" /\ c.eventtype = "datachange"
           /\ ~NodeGiven(Parsed(c))                             -> 1
      [] OTHER                                                  -> None

(* str_to_datetime(s, default): no text gives the default; a text one of  *)
(* the formats accepts gives that time; any other text falls off the end  *)
(* of the format loop and gives None.                                      *)
StrToDatetime(s, default) ==
    IF s = None THEN default ELSE IF s \in TimeTexts THEN [time |-> s] ELSE None

(* get_node: awaits get_child only when a path is given.                  *)
GetNode(a) == IF a.path = <<>> THEN <<>> ELSE <<Try("get_node", {Conn, Bad})>>

(********************************** plans **********************************)
(* _uaread: set_security_string and connect before the try; get_node and  *)
(* read_attribute inside it.                                               *)
UaReadPlan(c, a) ==
    <<Pre("set_security_string", {"ValueError"}), Pre("connect", {Conn})>>
    \o GetNode(a) \o <<Try("read_attribute", {Conn, Bad})>>

(* _uaserver: init, the certificate, key and XML loads and the sample     *)
(* nodes before the try; "async with server" starts it, then embed() or   *)
(* the endless sleep (and write) loop.  Ctrl-C reaches the suspended      *)
(* coroutine as the cancellation asyncio.run delivers, which "except       *)
(* KeyboardInterrupt" does not catch: the server is stopped by the async  *)
(* with exit and asyncio.run re-raises KeyboardInterrupt.                 *)
UaServerPlan(c, a) ==
    <<Pre("init", {})>>
    \o (IF c.certificate THEN <<Pre("load_certificate", {"ValueError"})>> ELSE <<>>)
    \o (IF c.private_key THEN <<Pre("load_private_key", {"ValueError"})>> ELSE <<>>)
    \o (IF c.xml THEN <<Pre("import_xml", {"ValueError"})>> ELSE <<>>)
    \o (IF c.populate THEN <<Pre("populate", {})>> ELSE <<>>)
    \o <<Try("start", {Conn})>>
    \o (IF c.shell THEN <<Try("embed", {})>> ELSE <<Try("sleep", {"KeyboardInterrupt"})>>)

(* _uasubscribe: create_subscription, subscribe_data_change or            *)
(* subscribe_events, then the endless sleep loop.                          *)
UaSubscribePlan(c, a) ==
    <<Pre("configure", {"ValueError"}), Pre("connect", {Conn})>>
    \o GetNode(a)
    \o <<Try("create_subscription", {Conn, Bad}),
         Try(IF c.eventtype = "datachange" THEN "subscribe_data_change" ELSE "subscribe_events", {Conn, Bad}),
         Try("sleep", {"KeyboardInterrupt"})>>

(* _uaclient: the certificate and key are loaded before the try; async    *)
(* with client connects and get_node runs inside it.                       *)
UaClientPlan(c, a) ==
    <<Pre("configure", {"ValueError"})>>
    \o (IF c.certificate THEN <<Pre("load_client_certificate", {"ValueError"})>> ELSE <<>>)
    \o (IF c.private_key THEN <<Pre("load_private_key", {"ValueError"})>> ELSE <<>>)
    \o <<Try("connect", {Conn})>> \o GetNode(a)

(* _uadiscover: each connect_and_* call opens and closes its own          *)
(* connection; endpoint_to_strings runs x509_from_der on each server      *)
(* certificate (cert_to_string).                                           *)
UaDiscoverPlan(c, a) ==
    (IF c.network THEN <<Try("connect_and_find_servers_on_network", {Conn})>> ELSE <<>>)
    \o <<Try("connect_and_find_servers", {Conn}),
         Try("connect_and_get_server_endpoints", {Conn, "ValueError"})>>

(* _uahistoryread: read_event_history (-e) or read_raw_history between    *)
(* the parsed start and end times.                                         *)
UaHistoryReadPlan(c, a) ==
    <<Pre("configure", {"ValueError"}), Pre("connect", {Conn})>>
    \o GetNode(a)
    \o <<Try(IF c.events THEN "read_event_history" ELSE "read_raw_history", {Conn, Bad})>>

(* _uacall: each comma piece of VALUE is converted by _val_to_variant; no *)
(* -m means get_methods, whose empty answer raises ValueError.            *)
UaCallPlan(c, a) ==
    <<Pre("configure", {"ValueError"}), Pre("connect", {Conn})>>
    \o GetNode(a)
    \o (IF c.value # None /\ \E i \in DOMAIN c.value :
              ValToVariant(<<c.value[i]>>, c.datatype, c.array).kind = "raise"
        THEN <<Fails("val_to_variant", "ValueError")>> ELSE <<>>)
    \o (IF c.method = None THEN <<Try("get_methods", {Conn, Bad, "ValueError"})>> ELSE <<>>)
    \o <<Try("call_method", {Conn, Bad})>>

(* _uageneratestructs: load_type_definitions and save_to_file.           *)
UaGenerateStructsPlan(c, a) ==
    <<Pre("configure", {"ValueError"}), Pre("connect", {Conn})>>
    \o GetNode(a) \o <<Try("load_type_definitions", {Conn, Bad}), Try("save_to_file", {"OSError"})>>

Plan(c, a) ==
    CASE c.tool = "uaread"            -> UaReadPlan(c, a)
      [] c.tool = "uasubscribe"       -> UaSubscribePlan(c, a)
      [] c.tool = "uaclient"          -> UaClientPlan(c, a)
      [] c.tool = "uadiscover"        -> UaDiscoverPlan(c, a)
      [] c.tool = "uahistoryread"     -> UaHistoryReadPlan(c, a)
      [] c.tool = "uacall"            -> UaCallPlan(c, a)
      [] c.tool = "uaserver"          -> UaServerPlan(c, a)
      [] OTHER                        -> UaGenerateStructsPlan(c, a)

(* Whether the tool's except clause catches e (then sys.exit(1)): "except *)
(* Exception" catches all but KeyboardInterrupt, "except (OSError,        *)
(* concurrent.futures.TimeoutError)" only connection errors.              *)
CaughtBy(tool, e) ==
    \/ tool \in {"uaread", "uahistoryread", "uacall"} /\ e # "KeyboardInterrupt"
    \/ tool \in {"uaclient", "uadiscover", "uaserver"} /\ e = Conn

HistoryCalls == {"read_raw_history", "read_event_history"}

(* What a returned call is recorded with: the node of get_node, and for   *)
(* the history reads the start and end that str_to_datetime gave (default *)
(* now - one day and now).                                                 *)
Record(s) ==
    [call |-> s.call, node |-> args.nodeid,
     start |-> IF s.call \in HistoryCalls THEN StrToDatetime(cmd.starttime, "now-1d") ELSE None,
     end   |-> IF s.call \in HistoryCalls THEN StrToDatetime(cmd.endtime, "now") ELSE None]

(******************************** the run **********************************)
Init ==
    /\ cmd \in CmdLines /\ args = None /\ pc = "parse" /\ plan = <<>> /\ next = 1
    /\ connected = FALSE /\ closed = None /\ userSet = FALSE
    /\ exc = None /\ calls = <<>> /\ exitCode = None /\ traceback = FALSE

(* parse_args, then the tool's own checks of the node; the plan follows.  *)
Parse ==
    /\ pc = "parse"
    /\ IF ParseExit(cmd) # None
       THEN pc' = "done" /\ exitCode' = ParseExit(cmd) /\ UNCHANGED <<args, plan>>
       ELSE LET a == IF cmd.tool = "uasubscribe" THEN SubscribeArgs(cmd) ELSE Parsed(cmd)
            IN args' = a /\ plan' = Plan(cmd, a) /\ pc' = "run" /\ UNCHANGED exitCode
    /\ UNCHANGED <<cmd, next, connected, closed, userSet, exc, calls, traceback>>

(* The calls that open a session or start the server.                     *)
Opens == {"connect", "start"}

(* The next call returned: connect opens the session, configure           *)
(* (_configure_client_with_args) calls set_user when --user is given.      *)
(* asyncio.sleep returning only starts the loop again.                     *)
Return ==
    /\ pc = "run" /\ next <= Len(plan)
    /\ LET s == plan[next] IN
       /\ ~s.must /\ s.call # "sleep"
       /\ next' = next + 1
       /\ connected' = (connected \/ s.call \in Opens)
       /\ userSet' = (userSet \/ (s.call = "configure" /\ args.user # None))
       /\ calls' = Append(calls, Record(s))
    /\ UNCHANGED <<cmd, args, pc, plan, closed, exc, exitCode, traceback>>

(* Mutant of Raise: an exception before the try ends the run without an   *)
(* exit status being set.                                                  *)
RaisePreNoStatus ==
    /\ pc = "run" /\ next <= Len(plan)
    /\ LET s == plan[next] IN
       /\ s.must \/ CallsMayFail \/ s.call = "sleep"
       /\ \E e \in s.may :
            IF s.zone = "pre"
            THEN pc' = "done" /\ traceback' = TRUE /\ UNCHANGED <<exc, exitCode>>
            ELSE pc' = "finally" /\ exc' = e /\ UNCHANGED <<exitCode, traceback>>
    /\ UNCHANGED <<cmd, args, plan, next, connected, closed, userSet, calls>>

(* The next call raised: before the try the process ends with a           *)
(* traceback; inside it the exception goes to except / finally.  The      *)
(* sleep loop raises only by Ctrl-C.                                       *)
Raise ==
    /\ pc = "run" /\ next <= Len(plan)
    /\ LET s == plan[next] IN
       /\ s.must \/ CallsMayFail \/ s.call = "sleep"
       /\ \E e \in s.may :
            IF s.zone = "pre"
            THEN pc' = "done" /\ exitCode' = 1 /\ traceback' = TRUE /\ UNCHANGED exc
            ELSE pc' = "finally" /\ exc' = e /\ UNCHANGED <<exitCode, traceback>>
    /\ UNCHANGED <<cmd, args, plan, next, connected, closed, userSet, calls>>

(* The try body completed.                                                 *)
BodyDone ==
    /\ pc = "run" /\ next > Len(plan)
    /\ pc' = "finally"
    /\ UNCHANGED <<cmd, args, plan, next, connected, closed, userSet, exc, calls, exitCode, traceback>>

(* The tools whose client is closed by "async with" inside the try, so   *)
(* that an exception of its exit reaches the except clause.               *)
AsyncWith == {"uaclient"}

(* The exit status of an exception e that left the try (None: none did). *)
ExitStatus(e) == IF e = None THEN 0 ELSE IF e = "KeyboardInterrupt" THEN 130 ELSE 1

(* client.disconnect() (or the client's __aexit__) raising e: the new      *)
(* exception replaces whatever was leaving the try, sys.exit's SystemExit  *)
(* and Ctrl-C included.  Server.stop() is local and is not given a fault. *)
CloseRaises ==
    /\ connected /\ CallsMayFail /\ cmd.tool # "uaserver"
    /\ closed' = "raised"
    /\ \E e \in {Conn, Bad} :
         /\ exitCode' = 1
         /\ traceback' = ~(cmd.tool \in AsyncWith /\ CaughtBy(cmd.tool, e))

(* Mutant of Finally: disconnect only after a body that raised nothing.  *)
FinallyOnlyOnSuccess ==
    /\ pc = "finally"
    /\ pc' = "done"
    /\ \/ /\ closed' = IF connected /\ exc = None THEN "ok" ELSE None
          /\ exitCode' = ExitStatus(exc)
          /\ traceback' = (exc # None /\ ~CaughtBy(cmd.tool, exc))
       \/ CloseRaises
    /\ UNCHANGED <<cmd, args, plan, next, connected, userSet, exc, calls>>

(* Mutant of Finally: a disconnect that raises is taken as a clean exit.  *)
FinallyIgnoreClose ==
    /\ pc = "finally"
    /\ pc' = "done"
    /\ \/ /\ closed' = IF connected THEN "ok" ELSE None
          /\ exitCode' = ExitStatus(exc)
          /\ traceback' = (exc # None /\ ~CaughtBy(cmd.tool, exc))
       \/ /\ connected /\ CallsMayFail /\ cmd.tool # "uaserver"
          /\ closed' = "raised"
          /\ exitCode' = ExitStatus(exc)
          /\ traceback' = (exc # None /\ ~CaughtBy(cmd.tool, exc))
    /\ UNCHANGED <<cmd, args, plan, next, connected, userSet, exc, calls>>

(* finally: await client.disconnect() (async with: __aexit__) for a       *)
(* connected client; then sys.exit(1) from the except clause, sys.exit(0) *)
(* or the return after the try, or the uncaught exception's traceback     *)
(* (Ctrl-C: asyncio.run re-raises KeyboardInterrupt, status 130).  Or the *)
(* disconnect itself raises.                                               *)
Finally ==
    /\ pc = "finally"
    /\ pc' = "done"
    /\ \/ /\ closed' = IF connected THEN "ok" ELSE None
          /\ exitCode' = ExitStatus(exc)
          /\ traceback' = (exc # None /\ ~CaughtBy(cmd.tool, exc))
       \/ CloseRaises
    /\ UNCHANGED <<cmd, args, plan, next, connected, userSet, exc, calls>>

Done == pc = "done" /\ UNCHANGED vars

Next == Parse \/ Return \/ Raise \/ BodyDone \/ Finally \/ Done

Spec == Init /\ [][Next]_vars

-----------------------------------------------------------------------------
(* A run is at one of its stages, it has an exit status exactly when it   *)
(* has ended, and it never goes past the end of its plan.                 *)
TypeOK ==
    /\ pc \in {"parse", "run", "finally", "done"}
    /\ exitCode \in {None, 0, 1, 2, 130}
    /\ (pc = "done") = (exitCode # None)
    /\ next \in 1..Len(plan) + 1

(* Whatever call raises inside the try, caught or not, and also on         *)
(* Ctrl-C in uasubscribe's endless loop, a tool that opened a session has  *)
(* closed it (finally / async with) before the process exits.             *)
DisconnectBeforeExit == pc = "done" /\ connected => closed # None

(* A tool exits with status 0 exactly when its command line was accepted, *)
(* every call of its plan returned and the closing disconnect did not     *)
(* raise: a caught exception ends in sys.exit(1), never in the sys.exit(0) *)
(* after the try, and a failing disconnect replaces a sys.exit(0) too.     *)
ExitStatusReflectsCalls ==
    pc = "done" =>
        ((exitCode = 0) <=> (ParseExit(cmd) = None /\ exc = None /\ next > Len(plan) /\ closed # "raised"))
=============================================================================
