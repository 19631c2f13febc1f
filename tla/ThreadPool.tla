------------------------------ MODULE ThreadPool ------------------------------
(***************************************************************************)
(* main (server_main.cc) and init_threads (server/startup_utils.cc): main  *)
(* reads its argument and the configuration, listens, waits for signals,   *)
(* spawns the workers, joins them in order, asks their futures in order,   *)
(* and turns the first exception, its own or a worker's, into exit code 1. *)
(* A worker runs handlers until the io_service is stopped or a handler     *)
(* throws.  The first SIGINT or SIGTERM completes the one async_wait,      *)
(* whose handler stops the io_service; nobody waits for another signal.    *)
(***************************************************************************)
EXTENDS Integers

CONSTANTS hardware_concurrency,
          Ports,       \* what configurations have for a port (Startup)
          Ephemeral,   \* the ports the system chooses from for port 0
          MaxSignals   \* bound on the signals sent

ASSUME ConcurrencyAssumption == hardware_concurrency \in Nat
ASSUME PortsAssumption == Ports \subseteq Int
ASSUME MaxSignalsAssumption == MaxSignals \in Nat

NumThreads == IF hardware_concurrency > 0 THEN hardware_concurrency ELSE 4

Thread == 1 .. NumThreads

VARIABLES
    main,     \* main's position: "arguments", "config", "server", "signals", "spawn",
              \* "join", "get", then "exit" or "killed"
    config_port, port,  \* the configured port and the one that is listened on
    i,        \* the index of its loop
    exit_code,
    thread,   \* thread[t]: "none", "run", "handler" or "done"
    promise,  \* promise[t]: "unset", "value" or "exception"
    wait,     \* the async_wait on the signals: "none", "armed", "queued" or "over"
    stopped,  \* io_service.stop() has been called
    signals   \* signals sent

ports == <<config_port, port>>
workers == <<thread, promise>>
vars == <<main, ports, i, exit_code, workers, wait, stopped, signals>>

NoPort == -1000000

Init == /\ main = "arguments" /\ i = 1 /\ exit_code = -1
        /\ config_port = NoPort /\ port = NoPort
        /\ thread = [t \in Thread |-> "none"]
        /\ promise = [t \in Thread |-> "unset"]
        /\ wait = "none" /\ stopped = FALSE /\ signals = 0

-------------------------------------------------------------------------------
(* main up to init_threads *)

\* One of main's catch clauses.
Fail == /\ main' = "exit" /\ exit_code' = 1
        /\ UNCHANGED <<ports, i, workers, wait, stopped, signals>>

ParseArguments(argc) ==
    /\ main = "arguments"
    /\ \/ argc # 2 /\ Fail
       \/ /\ argc = 2 /\ main' = "config"
          /\ UNCHANGED <<ports, i, exit_code, workers, wait, stopped, signals>>

\* The file may not exist; parse_config may return none or throw (Startup).
ConfigFails == main = "config" /\ Fail

LoadConfig == /\ main = "config" /\ main' = "server"
              /\ config_port' \in Ports
              /\ UNCHANGED <<port, i, exit_code, workers, wait, stopped, signals>>

Half == 32768       \* half the values of 16 bits,
Width == 2 * Half   \* and all of them
UnsignedShort == 0 .. Width - 1

ASSUME EphemeralAssumption == Ephemeral \subseteq UnsignedShort \ {0}

\* The parameter of server::server is a short, that of tcp::endpoint an unsigned short.
ToShort(n) == ((n + Half) % Width) - Half

\* Mutant of ToUnsignedShort: endpoint keeps the short.
KeepShort(n) == n

ToUnsignedShort(n) == n % Width

\* What acceptor::bind makes of the port of an endpoint.
Bound(n) == IF n = 0 THEN Ephemeral ELSE {n}

ListenFails == main = "server" /\ Fail

Listen == /\ main = "server" /\ main' = "signals"
          /\ port' \in Bound(ToUnsignedShort(ToShort(config_port)))
          /\ UNCHANGED <<config_port, i, exit_code, workers, wait, stopped, signals>>

-------------------------------------------------------------------------------
(* The loops of init_threads, and main's return *)

\* Mutant of Advance: the loop runs to i <= num_threads.
AdvanceTooFar(next) == IF i <= NumThreads THEN i' = i + 1 /\ UNCHANGED main
                                          ELSE i' = 1 /\ main' = next

\* The loop over i goes on, or is over and the next one starts.
Advance(next) == IF i < NumThreads THEN i' = i + 1 /\ UNCHANGED main
                                   ELSE i' = 1 /\ main' = next

WaitForSignals == /\ main = "signals" /\ main' = "spawn"
                  /\ wait' = "armed"
                  /\ UNCHANGED <<ports, i, exit_code, workers, stopped, signals>>

Spawn == /\ main = "spawn"
         /\ thread' = [thread EXCEPT ![i] = "run"]
         /\ Advance("join")
         /\ UNCHANGED <<ports, exit_code, promise, wait, stopped, signals>>

\* A thread cannot be created.  The exception leaves init_threads; if there are
\* joinable threads in thread_pool already, its destructor ends the process.
SpawnFails == /\ main = "spawn"
              /\ \/ i = 1 /\ Fail
                 \/ /\ i > 1 /\ main' = "killed"
                    /\ UNCHANGED <<ports, i, exit_code, workers, wait, stopped, signals>>

\* Mutant of Join: detach.
Detach == /\ main = "join"
          /\ Advance("get")
          /\ UNCHANGED <<ports, exit_code, workers, wait, stopped, signals>>

Join == /\ main = "join" /\ thread[i] = "done"
        /\ Advance("get")
        /\ UNCHANGED <<ports, exit_code, workers, wait, stopped, signals>>

\* Mutant of GetException: the exception is only logged.
LogException == /\ main = "get" /\ promise[i] = "exception"
                /\ Advance("exit")
                /\ exit_code' = IF i < NumThreads THEN exit_code ELSE 0
                /\ UNCHANGED <<ports, workers, wait, stopped, signals>>

\* get() rethrows: the exception leaves init_threads and main returns 1.
GetException == /\ main = "get" /\ promise[i] = "exception"
                /\ Fail

GetValue == /\ main = "get" /\ promise[i] = "value"
            /\ Advance("exit")
            /\ exit_code' = IF i < NumThreads THEN exit_code ELSE 0
            /\ UNCHANGED <<ports, workers, wait, stopped, signals>>

-------------------------------------------------------------------------------
(* A worker *)

Alive == main # "killed"
Runs(t) == Alive /\ thread[t] = "run" /\ ~stopped

TakeHandler(t) == /\ Runs(t)
                  /\ thread' = [thread EXCEPT ![t] = "handler"]
                  /\ UNCHANGED <<main, ports, i, exit_code, promise, wait, stopped, signals>>

\* Mutant of TakeSignal: the io_service is not stopped.
IgnoreSignal(t) == /\ Runs(t) /\ wait = "queued"
                   /\ wait' = "over"
                   /\ UNCHANGED <<main, ports, i, exit_code, thread, promise, stopped, signals>>

\* The handler of the async_wait: no other is started.
TakeSignal(t) == /\ Runs(t) /\ wait = "queued"
                 /\ wait' = "over" /\ stopped' = TRUE
                 /\ UNCHANGED <<main, ports, i, exit_code, thread, promise, signals>>

HandlerReturns(t) == /\ Alive /\ thread[t] = "handler"
                     /\ thread' = [thread EXCEPT ![t] = "run"]
                     /\ UNCHANGED <<main, ports, i, exit_code, promise, wait, stopped, signals>>

\* The exception leaves run(): it is stored, and the thread ends.
HandlerThrows(t) == /\ Alive /\ thread[t] = "handler"
                    /\ promise' = [promise EXCEPT ![t] = "exception"]
                    /\ thread' = [thread EXCEPT ![t] = "done"]
                    /\ UNCHANGED <<main, ports, i, exit_code, wait, stopped, signals>>

RunReturns(t) == /\ Alive /\ thread[t] = "run" /\ stopped
                 /\ promise' = [promise EXCEPT ![t] = "value"]
                 /\ thread' = [thread EXCEPT ![t] = "done"]
                 /\ UNCHANGED <<main, ports, i, exit_code, wait, stopped, signals>>

-------------------------------------------------------------------------------

\* SIGINT or SIGTERM: without a signal_set it ends the process, and after the
\* first it is queued in the signal_set for nobody.
Signal == /\ signals < MaxSignals /\ main \notin {"exit", "killed"}
          /\ signals' = signals + 1
          /\ main' = IF wait = "none" THEN "killed" ELSE main
          /\ wait' = IF wait = "armed" THEN "queued" ELSE wait
          /\ UNCHANGED <<ports, i, exit_code, workers, stopped>>

Main == \/ \E argc \in 1 .. 3 : ParseArguments(argc)
        \/ ConfigFails \/ LoadConfig \/ ListenFails \/ Listen \/ WaitForSignals
        \/ Spawn \/ SpawnFails \/ Join \/ GetException \/ GetValue

Work(t) == HandlerReturns(t) \/ HandlerThrows(t) \/ RunReturns(t)

Next == \/ Main
        \/ Signal
        \/ \E t \in Thread : TakeHandler(t) \/ TakeSignal(t) \/ Work(t)

Spec == Init /\ [][Next]_vars

\* Main and the threads keep running, every handler ends (none waits for a
\* client), and the queue of the io_service is first in, first out.  Handlers
\* need not throw, and there need not be any.
FairSpec == /\ Spec
            /\ WF_vars(Main)
            /\ \A t \in Thread : WF_vars(Work(t))
            /\ SF_vars(\E t \in Thread : TakeSignal(t))

-------------------------------------------------------------------------------
(* Properties *)

\* Every variable has a value of its type; i stays within the vectors of init_threads.
TypeOK == /\ main \in {"arguments", "config", "server", "signals", "spawn", "join", "get",
                       "exit", "killed"}
          /\ config_port \in Ports \cup {NoPort} /\ port \in (UnsignedShort) \cup {NoPort}
          /\ i \in Thread
          /\ exit_code \in {-1, 0, 1}
          /\ thread \in [Thread -> {"none", "run", "handler", "done"}]
          /\ promise \in [Thread -> {"unset", "value", "exception"}]
          /\ wait \in {"none", "armed", "queued", "over"}
          /\ stopped \in BOOLEAN
          /\ signals \in 0 .. MaxSignals

\* main goes past the joins only when every worker has ended, and returns with no
\* worker left, so the io_service and the server on its stack outlive all threads
\* that use them.
WorkersEndFirst ==
    /\ main = "get" => \A t \in Thread : thread[t] = "done"
    /\ main = "exit" => \A t \in Thread : thread[t] \in {"none", "done"}

\* main returns 0 exactly when every worker was started and ended without an
\* exception, and 1 for every failure on the way there, whichever worker's it was.
ExitCodeIsRight ==
    main = "exit" => /\ exit_code \in {0, 1}
                     /\ exit_code = 0 <=> \A t \in Thread : promise[t] = "value"

\* A port other than 0 that fits in 16 bits is the one listened on, although it goes
\* through a signed short (server.cc:14-17); for 0 the system chooses one.
ListensAsConfigured ==
    port # NoPort => /\ port # 0
                     /\ config_port \in UnsignedShort \ {0} => port = config_port

\* A signal ends the process, however many workers exceptions have cost it, and
\* however far main has come.
SignalEndsServer == signals > 0 ~> main \in {"exit", "killed"}
===============================================================================
