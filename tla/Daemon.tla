------------------------------- MODULE Daemon -------------------------------
(***************************************************************************)
(* The life of anDaemon: main builds the managers one after the other, may *)
(* fork into the background, installs its signal handler and waits for the *)
(* threads of the RPC pool.  SIGTERM and SIGINT run anDaemon::stop on       *)
(* whichever thread the kernel picks, on top of what that thread is doing:  *)
(* stack[t] is what thread t does, its last element on top; a thread that   *)
(* does not run has an empty stack.                                         *)
(*                                                                          *)
(* The handler logs, stops two io_services and disconnects a signal, so it  *)
(* takes mutexes that the interrupted thread may hold; none is recursive.   *)
(* stop() destroys DBManager and ModuleManager without waiting for the      *)
(* threads that use them.                                                   *)
(***************************************************************************)
EXTENDS Naturals, FiniteSets, SequencesExt

CONSTANTS
  Pool,      \* threads of the RPC pool
  MaxRequests, \* bound: requests that reach the pool
  Signals    \* signals sent to the process, each at most once

\* The pool's threads are none of those that have a name.
ASSUME DaemonAssumption ==
  /\ Pool \cap {"main", "rpc", "fuse", "checker"} = {}
  /\ MaxRequests \in Nat /\ IsFiniteSet(Signals)

VARIABLES
  daemonize, \* started with --daemonize
  checks,    \* the peer database updater is among the configured modules
  stack,     \* what every thread does
  made,      \* steps of anDaemon::init that are done
  handled,   \* main has installed signal_handler
  served,    \* anDaemon::run has started the pool
  requests,  \* requests that have reached the pool
  sent,      \* signals that were delivered to signal_handler
  lock,      \* << thread, depth of its stack >> that holds each mutex
  stopped,   \* RPCManager's io_service is stopped
  killed,    \* singletons that are destroyed
  busy,      \* pool threads in a request when a singleton was destroyed
  ended      \* how the process ended

start == << daemonize, checks, made, handled, served >>
down == << stopped, killed, busy >>
vars == << stack, sent, requests, ended, lock, start, down >>

Threads == {"main", "rpc", "fuse", "checker"} \cup Pool
Free == << "nobody", 0 >>

\* The mutexes: of Boost.Log's synchronous sink, of NetManager, of RPCManager's
\* io_service, of ModuleManager's signal kv_put.  The points at which a thread
\* takes one of them and gives it back.  (NetManager's io_service has one, too;
\* only threads that have NetManager's mutex take it.)
Mutex == [ forked |-> "log", waiting |-> "log", joined |-> "log", mounting |-> "log",
           request |-> "log", shutting |-> "log", net |-> "net",
           poll |-> "asio", halt |-> "asio", emit |-> "kv_put", disconnect |-> "kv_put" ]
Mutexes == {"log", "net", "asio", "kv_put"}

Init ==
  /\ daemonize \in BOOLEAN /\ checks \in BOOLEAN
  /\ stack = [t \in Threads |-> IF t = "main" THEN << "ConfigManager" >> ELSE << >>]
  /\ made = {} /\ handled = FALSE /\ served = FALSE /\ sent = {} /\ requests = 0
  /\ lock = [m \in Mutexes |-> Free]
  /\ stopped = FALSE /\ killed = {} /\ busy = {}
  /\ ended = "no"

-----------------------------------------------------------------------------
(* Threads.                                                                  *)

Runs(t) == stack[t] # << >>
Top(t) == << t, Len(stack[t]) >>

\* The thread is at this point, and the process has not ended.
At(t, point) == ended = "no" /\ Runs(t) /\ Last(stack[t]) = point

\* The stacks when thread t goes on to this point, and when its function or
\* its handler returns.
Goto(t, point) == [stack EXCEPT ![t] = Append(Front(@), point)]
Return(t) == [stack EXCEPT ![t] = Front(@)]

\* A mutex is taken; it is given back and the thread goes on.
Lock(t) ==
  \E p \in DOMAIN Mutex :
    /\ At(t, p) /\ lock[Mutex[p]] = Free
    /\ lock' = [lock EXCEPT ![Mutex[p]] = Top(t)]
    /\ UNCHANGED << stack, sent, requests, ended, start, down >>
Unlock(t, p) ==
  /\ At(t, p) /\ lock[Mutex[p]] = Top(t)
  /\ lock' = [lock EXCEPT ![Mutex[p]] = Free]

\* LOG: a record is written under the sink's mutex.  The points where a thread
\* logs, and where it goes on; of the methods, some put a value and some do not.
Log == [ forked   |-> {"signal"}, waiting |-> {"join"}, joined |-> {"success"},
         mounting |-> {"mount"},  request |-> {"use", "emit"}, shutting |-> {"net"} ]
LogRecord(t) ==
  /\ \E p \in DOMAIN Log :
       Unlock(t, p) /\ \E next \in Log[p] : stack' = Goto(t, next)
  /\ UNCHANGED << sent, requests, ended, start, down >>

\* exit and return from main: the destructors of the singletons run, and the
\* process ends.
Leaving == Runs("main") /\ Head(stack["main"]) \in {"success", "failure"}
Exit(code) ==
  /\ stack' = Goto("main", code)
  /\ UNCHANGED << sent, requests, ended, lock, start, down >>
Leave ==
  /\ \E code \in {"success", "failure"} : At("main", code) /\ ended' = code
  /\ UNCHANGED << stack, sent, requests, lock, start, down >>

\* A use of a singleton after kill, or while the destructors run: instance()
\* dereferences a null pointer, which may go unnoticed or end the process.
Uses(m) ==
  IF m \in killed \/ Leaving THEN ended' \in {"no", "crashed"} ELSE UNCHANGED ended

-----------------------------------------------------------------------------
(* Start-up: anDaemon::init and main.                                        *)

\* A step of init by the main thread that may start a thread; any step can
\* fail by its result or by an exception.
InitStep(step, next, new, at) ==
  /\ At("main", step)
  /\ \/ /\ made' = made \cup {step}
        /\ stack' = [Goto("main", next) EXCEPT ![new] = IF new = "main" THEN @ ELSE << at >>]
        /\ UNCHANGED << daemonize, checks, handled, served, sent, requests, ended, lock, down >>
     \/ Exit("failure")

\* Settings, then the three directories.
ConfigInit == InitStep("ConfigManager", "Logger", "main", "")

\* An assertion on the log file.
LoggerInit ==
  \/ InitStep("Logger", "PluginManager", "main", "")
  \/ /\ At("main", "Logger") /\ ended' = "crashed"
     /\ UNCHANGED << stack, sent, requests, lock, start, down >>

PluginInit == InitStep("PluginManager", "loadPlugin", "main", "")

\* ModuleManager::init: plug-ins, storages, utilities.  PDB::initialise, if it
\* is configured, starts its thread.
LoadPlugins == InitStep("loadPlugin", "localstorages", "main", "")
InitStorages == InitStep("localstorages", "utils", "main", "")
InitUtils == InitStep("utils", "StorageManager", IF checks THEN "checker" ELSE "main", "check")

\* Mutant: the file system is served by the calling thread.
StorageInitBlocks == InitStep("StorageManager", "mount", "main", "")

\* StorageManager::init starts the thread that serves the file system.
StorageInit == InitStep("StorageManager", "NetManager", "fuse", "mounting")

\* The two RPC servers bind their ports; only the second one is ever run.
NetInit == InitStep("NetManager", "RPCManager", "main", "")
RpcInit == InitStep("RPCManager", IF daemonize THEN "fork" ELSE "signal", "main", "")

InitSteps == {"ConfigManager", "Logger", "PluginManager", "loadPlugin", "localstorages",
              "utils", "StorageManager", "NetManager", "RPCManager"}

\* Mutant: the threads are there after the fork, as if it came before init.
ForkFirst ==
  /\ At("main", "fork")
  /\ \/ /\ stack' = Goto("main", "forked")
        /\ UNCHANGED << sent, requests, ended, lock, start, down >>
     \/ Exit("failure")

\* fork: the child has the calling thread only, and the mutexes as they were;
\* setsid follows.  Both can fail.  The parent exits, with all its threads.
Fork ==
  /\ At("main", "fork")
  /\ \/ /\ stack' = [t \in Threads |-> IF t = "main" THEN << "forked" >> ELSE << >>]
        /\ UNCHANGED << sent, requests, ended, lock, start, down >>
     \/ Exit("failure")
     \/ Exit("success")

\* signal(SIGTERM), signal(SIGINT).
InstallHandlers ==
  /\ At("main", "signal")
  /\ handled' = TRUE
  /\ stack' = Goto("main", "run")
  /\ UNCHANGED << daemonize, checks, made, served, sent, requests, ended, lock, down >>

\* anDaemon::run: the thread of RPCManager::run, which starts the pool.
Run ==
  /\ At("main", "run")
  /\ served' = TRUE
  /\ stack' = [t \in Threads |-> CASE t = "main" -> Append(Front(stack[t]), "waiting")
                                   [] t = "rpc" -> << "join pool" >>
                                   [] t \in Pool -> << "idle" >>
                                   [] OTHER -> stack[t]]
  /\ UNCHANGED << daemonize, checks, made, handled, sent, requests, ended, lock, down >>

\* Mutant: the thread of the peer database updater is joined as well.
RpcReturnsLate ==
  /\ At("rpc", "join pool")
  /\ \A t \in Pool \cup {"checker"} : ~Runs(t)
  /\ stack' = Return("rpc")
  /\ UNCHANGED << sent, requests, ended, lock, start, down >>

\* RPCManager::run returns when every thread of the pool has.
RpcReturns ==
  /\ At("rpc", "join pool")
  /\ \A p \in Pool : ~Runs(p)
  /\ stack' = Return("rpc")
  /\ UNCHANGED << sent, requests, ended, lock, start, down >>

Join ==
  /\ At("main", "join") /\ ~Runs("rpc")
  /\ stack' = Goto("main", "joined")
  /\ UNCHANGED << sent, requests, ended, lock, start, down >>

-----------------------------------------------------------------------------
(* What the other threads do.                                                *)

\* io_service::run: an event wakes a thread, which looks for the next handler;
\* so does io_service::stop.
Wake(p) ==
  /\ At(p, "idle") /\ ~stopped /\ requests < MaxRequests
  /\ requests' = requests + 1
  /\ stack' = Goto(p, "poll")
  /\ UNCHANGED << sent, ended, lock, start, down >>
WakeStopped(p) ==
  /\ At(p, "idle") /\ stopped
  /\ stack' = Goto(p, "poll")
  /\ UNCHANGED << sent, requests, ended, lock, start, down >>
Poll(p) ==
  /\ Unlock(p, "poll")
  /\ stack' = IF stopped THEN Return(p) ELSE Goto(p, "request")
  /\ UNCHANGED << sent, requests, ended, start, down >>

\* A method that puts a value emits kv_put; the slots run without its mutex.
Emit(p) ==
  /\ Unlock(p, "emit")
  /\ stack' = Goto(p, "use")
  /\ UNCHANGED << sent, requests, ended, start, down >>
EmitFails(p) ==
  /\ At(p, "emit") /\ "ModuleManager" \in killed
  /\ ended' = "crashed"
  /\ UNCHANGED << stack, sent, requests, lock, start, down >>

\* The method calls DBManager or ModuleManager and returns, or an exception
\* leaves it and ends the process (RpcConnection and FFStore have the causes).
EndRequest(p) ==
  /\ At(p, "use")
  /\ \/ stack' = Goto(p, "idle") /\ (Uses("DBManager") \/ Uses("ModuleManager"))
     \/ ended' = "thrown" /\ UNCHANGED stack
  /\ UNCHANGED << sent, requests, lock, start, down >>

\* PDB::check asks ModuleManager every second; the file system asks it for the
\* blocks of a file and logs first.  Nobody makes either thread return.
Helper(t) ==
  /\ At(t, "check") \/ At(t, "mount") \/ (Leaving /\ At(t, "mounting"))
  /\ Uses("ModuleManager")
  /\ UNCHANGED << stack, sent, requests, lock, start, down >>

-----------------------------------------------------------------------------
(* Signals and anDaemon::stop.                                               *)

\* A signal interrupts any thread; before the handler is installed it ends the
\* process.  The handler allocates memory: on a thread that is doing so itself,
\* and not waiting for others, it may never get the allocator's lock.  What the
\* other threads do then, they also do while a handler is slow.
Waiting == {"idle", "join", "join pool"}
Signal(s, t) ==
  /\ ended = "no" /\ Runs(t) /\ s \notin sent
  /\ \/ /\ handled
        /\ stack' = [stack EXCEPT ![t] = Append(@, "shutting")]
        /\ sent' = sent \cup {s}
        /\ UNCHANGED ended
     \/ /\ handled /\ Last(stack[t]) \notin Waiting
        /\ ended' = "hung"
        /\ UNCHANGED << stack, sent >>
     \/ /\ ~handled
        /\ ended' = "signal"
        /\ UNCHANGED << stack, sent >>
  /\ UNCHANGED << requests, lock, start, down >>

\* A handler that runs while the destructors do may log to a Logger, or stop a
\* manager, that is no more.
Handler == {"shutting", "net", "halt", "kill", "kill modules", "disconnect"}
SignalLate(t) ==
  /\ Leaving /\ \E p \in Handler : At(t, p)
  /\ ended' = "crashed"
  /\ UNCHANGED << stack, sent, requests, lock, start, down >>

\* Mutants: NetManager's mutex is kept; stop goes on without RPCManager::stop.
NetStopKeeps(t) ==
  /\ At(t, "net") /\ lock["net"] = Top(t)
  /\ stack' = Goto(t, "halt")
  /\ UNCHANGED << lock, sent, requests, ended, start, down >>
NetStopKills(t) ==
  /\ Unlock(t, "net")
  /\ stack' = Goto(t, "kill")
  /\ UNCHANGED << sent, requests, ended, start, down >>

\* NetManager::stop, under its mutex.
NetStop(t) ==
  /\ Unlock(t, "net")
  /\ stack' = Goto(t, "halt")
  /\ UNCHANGED << sent, requests, ended, start, down >>

\* RPCManager::stop: io_service::stop, under the mutex of the io_service.
RpcStop(t) ==
  /\ Unlock(t, "halt")
  /\ stopped' = TRUE
  /\ stack' = Goto(t, "kill")
  /\ UNCHANGED << sent, requests, killed, busy, ended, start >>

\* DBManager::kill, ModuleManager::kill: the pointer goes first, then the
\* object, if there was one; the destructor of ModuleManager disconnects the
\* slots of kv_put.  Then the handler returns.
InRequest(p) == Runs(p) /\ Head(stack[p]) \in {"request", "emit", "use"}
Kill(t) ==
  /\ \/ /\ At(t, "kill")
        /\ killed' = killed \cup {"DBManager"}
        /\ stack' = Goto(t, "kill modules")
     \/ /\ At(t, "kill modules")
        /\ killed' = killed \cup {"ModuleManager"}
        /\ stack' = IF "ModuleManager" \in killed THEN Return(t) ELSE Goto(t, "disconnect")
  /\ busy' = busy \cup {p \in Pool : InRequest(p)}
  /\ UNCHANGED << sent, requests, ended, stopped, lock, start >>
Disconnect(t) ==
  /\ Unlock(t, "disconnect")
  /\ stack' = Return(t)
  /\ UNCHANGED << sent, requests, ended, start, down >>

Stop(t) == NetStop(t) \/ RpcStop(t) \/ Kill(t) \/ Disconnect(t)

Main ==
  \/ ConfigInit \/ LoggerInit \/ PluginInit \/ LoadPlugins \/ InitStorages \/ InitUtils
  \/ StorageInit \/ NetInit \/ RpcInit
  \/ Fork \/ InstallHandlers \/ Run \/ Join \/ Leave

\* What a thread does by itself.
Step(t) ==
  \/ Lock(t) \/ LogRecord(t) \/ Stop(t)
  \/ t = "main" /\ Main
  \/ t = "rpc" /\ RpcReturns
  \/ t \in Pool /\ (WakeStopped(t) \/ Poll(t) \/ Emit(t) \/ EndRequest(t))

Next ==
  \/ \E t \in Threads : Step(t)
  \/ \E p \in Pool : Wake(p) \/ EmitFails(p)
  \/ \E t \in {"checker", "fuse"} : Helper(t)
  \/ \E s \in Signals, t \in Threads : Signal(s, t)
  \/ \E t \in Threads : SignalLate(t)

Spec == Init /\ [][Next]_vars

\* Some thread that can go on does.  Requests and signals need not come, and the
\* requests that come are finitely many, so no thread waits for ever for a mutex
\* that the others keep passing on.
LiveSpec == Spec /\ WF_vars(\E t \in Threads : Step(t))

-----------------------------------------------------------------------------
(* Properties.                                                               *)

\* A mutex whose holder is interrupted by a signal handler; one whose holder
\* is not there, since the process forked.
Interrupted(m) == lock[m] # Free /\ lock[m][2] < Len(stack[lock[m][1]])
Lost(m) == lock[m] # Free /\ ~Runs(lock[m][1])

\* Types; and a mutex that is held is held by a thread at a point that takes
\* it, perhaps below a signal handler, or by one that the fork took away.
TypeOK ==
  /\ daemonize \in BOOLEAN /\ checks \in BOOLEAN /\ handled \in BOOLEAN
  /\ served \in BOOLEAN /\ stopped \in BOOLEAN
  /\ requests \in 0..MaxRequests /\ made \subseteq InitSteps /\ sent \subseteq Signals /\ busy \subseteq Pool
  /\ killed \subseteq {"DBManager", "ModuleManager"}
  /\ ended \in {"no", "success", "failure", "signal", "thrown", "crashed", "hung"}
  /\ \A t \in Threads : Len(stack[t]) <= 1 + Cardinality(sent)
  /\ \A m \in Mutexes :
       \/ lock[m] = Free
       \/ daemonize /\ m = "log" /\ lock[m][1] = "fuse" /\ Lost(m)
       \/ \E t \in Threads : \E n \in 1..Len(stack[t]) :
            lock[m] = << t, n >> /\ stack[t][n] \in DOMAIN Mutex /\ Mutex[stack[t][n]] = m

\* A request begins only when every manager is there: after all of init and
\* before the first of them is destroyed.  It rests on the order of the calls
\* in anDaemon::init and of those in stop (daemon.cc:38-87), whichever thread
\* runs them.
RequestsFindManagers ==
  [][\A p \in Pool : At(p, "poll") /\ stack'[p] = << "request" >>
       => made = InitSteps /\ killed = {}]_vars

\* In the daemonized process a crash, as against an exception that a request
\* throws, needs a request that was under way when a manager was destroyed
\* (daemon.cc:85-86), or a signal handler that is still running when main
\* leaves: otherwise stopping is clean.
CrashNeedsRequest ==
  daemonize /\ served /\ ended = "crashed" =>
    busy # {} \/ (Leaving /\ \E t \in Threads : Len(stack[t]) > 1)

\* What a signal can interrupt so that its handler waits for ever: a thread with
\* a mutex the handler takes (main.cc:49, net_manager.h:35, rpc_manager.h:116,
\* module_manager.h:79), or one inside the allocator.
Stuck == ended = "hung" \/ \E m \in Mutexes : Interrupted(m)

\* The process ends after a signal, unless the signal interrupts a thread at
\* such a place: stop needs no thread to be at any other, and the pool, main and
\* the handlers of two signals do not wait for each other in a circle.
SignalEnds == (sent # {}) ~> (ended # "no" \/ Stuck)

\* The daemon starts to serve or ends.  With --daemonize it can hang: the fork
\* may copy the log's mutex while the file system's thread holds it
\* (storage.cc:57, main.cc:111-123).
GetsToServe ==
  <>(served \/ ended # "no" \/ (daemonize /\ Lost("log")) \/ Stuck)
=============================================================================
