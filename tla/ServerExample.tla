---------------------------- MODULE ServerExample ----------------------------
(***************************************************************************)
(* The threads of src/examples/sync/server-example.py.  The main thread    *)
(* runs "with ThreadLoop() as tloop:" (an asyncio loop in its own thread), *)
(* builds the address space, then "with server:" starts the server, starts *)
(* the VarUpdater thread, makes five synchronous calls, runs the embed()   *)
(* shell and calls vup.stop(); leaving the with blocks stops the server    *)
(* and then the loop.  VarUpdater loops "while not self._stopev:" writing  *)
(* mysin and sleeping.  Every synchronous call is ThreadLoop.post (outside *)
(* src/, asyncua/sync.py): it raises ThreadLoopNotRunning when the loop    *)
(* is not running, else submits the coroutine and waits for its result.    *)
(* VarUpdater is not a daemon thread: the process exits only when it ends. *)
(***************************************************************************)
EXTENDS Naturals

CONSTANTS
    SetupMayFail,  \* an address-space call may raise (import_xml of a missing file)
    CallsMayFail   \* server.start and the calls under "with server:" may raise

(* The calls of lines 161-171: read_value, write_value(var),               *)
(* mydevice_var.write_value, myevgen.trigger, write_attribute_value.       *)
MainCalls == 5

VARIABLES
    mpc,       \* the main thread: "setup", "start", "vupstart", "calls", "embed",
               \* "vupstop", "serverexit", "loopexit", "ended"
    ncalls,    \* calls of lines 161-171 done
    vpc,       \* VarUpdater: "new", "check", "post", "wait", "sleep", "ended"
    stopev,    \* VarUpdater._stopev
    loop,      \* the ThreadLoop's asyncio loop: "running" or "stopped"
    server     \* "new", "running" or "stopped"

vars == <<mpc, ncalls, vpc, stopev, loop, server>>

Init ==
    /\ mpc = "setup" /\ ncalls = 0
    /\ vpc = "new" /\ stopev = FALSE
    /\ loop = "running" /\ server = "new"

(* A raise in the body of "with server:" runs its __exit__ (server.stop), *)
(* one before it only that of "with ThreadLoop()".                         *)
Raised(at) == mpc' = IF at = "server" THEN "serverexit" ELSE "loopexit"

(* Lines 88-148: Server(tloop=tloop) and the address space, each call     *)
(* posted to the loop; any of them may raise.                              *)
Setup ==
    /\ mpc = "setup"
    /\ \/ mpc' = "start"
       \/ SetupMayFail /\ Raised("loop")
    /\ UNCHANGED <<ncalls, vpc, stopev, loop, server>>

(* "with server:" calls server.start(), which may raise (port in use).    *)
Start ==
    /\ mpc = "start"
    /\ \/ mpc' = "vupstart" /\ server' = "running"
       \/ CallsMayFail /\ Raised("loop") /\ UNCHANGED server
    /\ UNCHANGED <<ncalls, vpc, stopev, loop>>

(* vup = VarUpdater(mysin); vup.start().                                  *)
VupStart ==
    /\ mpc = "vupstart"
    /\ mpc' = "calls" /\ vpc' = "check"
    /\ UNCHANGED <<ncalls, stopev, loop, server>>

(* Mutant of Call: the embed shell is reached one call late.            *)
CallOneTooMany ==
    /\ mpc = "calls"
    /\ \/ /\ ncalls' = ncalls + 1
          /\ mpc' = IF ncalls = MainCalls THEN "embed" ELSE "calls"
       \/ CallsMayFail /\ Raised("server") /\ UNCHANGED ncalls
    /\ UNCHANGED <<vpc, stopev, loop, server>>

(* One of the five calls returned or raised.                               *)
Call ==
    /\ mpc = "calls"
    /\ \/ /\ ncalls' = ncalls + 1
          /\ mpc' = IF ncalls + 1 = MainCalls THEN "embed" ELSE "calls"
       \/ CallsMayFail /\ Raised("server") /\ UNCHANGED ncalls
    /\ UNCHANGED <<vpc, stopev, loop, server>>

(* The user leaves the embed() shell.                                      *)
Embed ==
    /\ mpc = "embed"
    /\ mpc' = "vupstop"
    /\ UNCHANGED <<ncalls, vpc, stopev, loop, server>>

(* vup.stop(): _stopev = True; the thread is not joined.                  *)
VupStop ==
    /\ mpc = "vupstop"
    /\ stopev' = TRUE /\ mpc' = "serverexit"
    /\ UNCHANGED <<ncalls, vpc, loop, server>>

(* Server.__exit__: server.stop().                                         *)
ServerExit ==
    /\ mpc = "serverexit"
    /\ server' = "stopped" /\ mpc' = "loopexit"
    /\ UNCHANGED <<ncalls, vpc, stopev, loop>>

(* ThreadLoop.__exit__: stop the loop and join its thread; the main       *)
(* thread then ends and the interpreter waits for non-daemon threads.     *)
LoopExit ==
    /\ mpc = "loopexit"
    /\ loop' = "stopped" /\ mpc' = "ended"
    /\ UNCHANGED <<ncalls, vpc, stopev, server>>

(* while not self._stopev:                                                 *)
Check ==
    /\ vpc = "check"
    /\ vpc' = IF stopev THEN "ended" ELSE "post"
    /\ UNCHANGED <<mpc, ncalls, stopev, loop, server>>

(* Mutant of Post: write_value wrapped in try/except, a refused post      *)
(* logged and the loop continued.                                         *)
PostSwallowed ==
    /\ vpc = "post"
    /\ vpc' = IF loop = "running" THEN "wait" ELSE "sleep"
    /\ UNCHANGED <<mpc, ncalls, stopev, loop, server>>

(* self.var.write_value(v): ThreadLoop.post submits the coroutine, or     *)
(* raises ThreadLoopNotRunning, which ends the thread (uncaught in run).  *)
Post ==
    /\ vpc = "post"
    /\ vpc' = IF loop = "running" THEN "wait" ELSE "ended"
    /\ UNCHANGED <<mpc, ncalls, stopev, loop, server>>

(* futur.result() returns once the loop ran the write.  The write was     *)
(* submitted while the loop ran, ahead of anything ThreadLoop.__exit__    *)
(* queues after it, so it is run before the loop stops: the wait ends     *)
(* whether the loop has stopped since or not.                              *)
Wait ==
    /\ vpc = "wait"
    /\ vpc' = "sleep"
    /\ UNCHANGED <<mpc, ncalls, stopev, loop, server>>

(* time.sleep(0.1).                                                        *)
Sleep ==
    /\ vpc = "sleep"
    /\ vpc' = "check"
    /\ UNCHANGED <<mpc, ncalls, stopev, loop, server>>

(* The process has exited: the main thread and VarUpdater have ended.     *)
Exited == mpc = "ended" /\ vpc \in {"new", "ended"}

Terminated == Exited /\ UNCHANGED vars

MainStep == Setup \/ Start \/ VupStart \/ Call \/ VupStop \/ ServerExit \/ LoopExit
VupStep  == Check \/ Post \/ Wait \/ Sleep

Next == MainStep \/ Embed \/ VupStep \/ Terminated

(* The OS schedules every runnable thread: both threads are weakly fair.  *)
(* The embed() shell returns only when the user leaves it: no fairness.  *)
Spec == Init /\ [][Next]_vars /\ WF_vars(MainStep) /\ WF_vars(VupStep)

-----------------------------------------------------------------------------
(* Each thread is at a point of its code, and the main thread has made at *)
(* most the five calls of lines 161-171.                                    *)
TypeOK ==
    /\ mpc \in {"setup", "start", "vupstart", "calls", "embed", "vupstop", "serverexit", "loopexit", "ended"}
    /\ ncalls \in 0..MainCalls
    /\ vpc \in {"new", "check", "post", "wait", "sleep", "ended"}
    /\ loop \in {"running", "stopped"} /\ server \in {"new", "running", "stopped"}

(* Once the main thread has left both with blocks, by the normal path     *)
(* through vup.stop() or by an exception raised before it, the process     *)
(* exits: the non-daemon VarUpdater thread ends by itself, through its    *)
(* stop flag or through the first post refused by the stopped loop.       *)
ProcessExits == (mpc = "ended") ~> Exited
=============================================================================
