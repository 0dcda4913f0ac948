------------------------------ MODULE MC_UaTools ------------------------------
EXTENDS UaTools

(* A command line with every option at its default.                       *)
MCBase == [tool |-> "uaread", nodeid |-> None, path |-> <<>>, eventtype |-> "datachange",
           events |-> FALSE, starttime |-> None, endtime |-> None, method |-> None,
           value |-> None, datatype |-> "guess", array |-> "guess", user |-> None,
           certificate |-> FALSE, private_key |-> FALSE, network |-> FALSE,
           xml |-> FALSE, populate |-> FALSE, shell |-> FALSE]

MCNodeIds == {None, "i=84", "i=85"}
MCPaths   == {<<>>, <<"0:Objects">>}

(* Per tool, the options its code branches on: no -n, the root i=84 given *)
(* explicitly and another node; a path or none; --user; -t / -e; times    *)
(* that parse, that do not ("T" between date and time), or none; a method *)
(* or get_methods; values that convert or not.                            *)
MCCmdLines ==
    {[MCBase EXCEPT !.nodeid = n, !.path = p, !.user = u] : n \in MCNodeIds, p \in MCPaths, u \in {None, "alice"}}
    \cup {[MCBase EXCEPT !.tool = "uasubscribe", !.nodeid = n, !.path = p, !.eventtype = t] :
            n \in MCNodeIds, p \in MCPaths, t \in {"datachange", "event"}}
    \cup {[MCBase EXCEPT !.tool = "uaclient", !.nodeid = n, !.certificate = c, !.private_key = k, !.user = "alice"] :
            n \in {None, "i=85"}, c \in BOOLEAN, k \in BOOLEAN}
    \cup {[MCBase EXCEPT !.tool = "uadiscover", !.network = b] : b \in BOOLEAN}
    \cup {[MCBase EXCEPT !.tool = "uahistoryread", !.nodeid = "i=85", !.events = e, !.starttime = s, !.endtime = t] :
            e \in BOOLEAN, s \in {None, "2024-01-02", "2024-01-02T10:00"}, t \in {None, "2024-01-03 10:00"}}
    \cup {[MCBase EXCEPT !.tool = "uacall", !.nodeid = n, !.method = m, !.value = v, !.datatype = d] :
            n \in {"i=84", "i=85"}, m \in {None, "2:multiply"}, v \in {None, <<"1", "2">>, <<"x">>}, d \in {"guess", "int32"}}
    \cup {[MCBase EXCEPT !.tool = "uaserver", !.certificate = k, !.private_key = k, !.xml = x,
                          !.populate = p, !.shell = sh] : k, x, p, sh \in BOOLEAN}
    \cup {[MCBase EXCEPT !.tool = "uageneratestructs", !.nodeid = n, !.path = p] : n \in MCNodeIds, p \in MCPaths}
=============================================================================
