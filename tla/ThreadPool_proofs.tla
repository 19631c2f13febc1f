--------------------------- MODULE ThreadPool_proofs ---------------------------
(***************************************************************************)
(* Start and shutdown are right for any number of workers: main goes past  *)
(* the joins after all of them, its exit code tells whether anything threw *)
(* on the way, and a port of 16 bits is the one it listens on.             *)
(***************************************************************************)
EXTENDS ThreadPool, TLAPS

USE ConcurrencyAssumption, PortsAssumption, MaxSignalsAssumption

-------------------------------------------------------------------------------
(* The inductive invariant: how far main, and each of its loops, has come.     *)

Starting == {"arguments", "config", "server", "signals"}

\* The workers below i are spawned, and no other; there are none before the loop.
SpawnedSoFar ==
    /\ main \in Starting => i = 1
    /\ \A t \in Thread : /\ main \in Starting => thread[t] = "none"
                         /\ main = "spawn" => (thread[t] = "none" <=> t >= i)
                         /\ main \in {"join", "get"} => thread[t] # "none"

\* The workers below i are joined.
JoinedSoFar ==
    \A t \in Thread : /\ main = "join" /\ t < i => thread[t] = "done"
                      /\ main = "get" => thread[t] = "done"
                      /\ main = "exit" => thread[t] \in {"none", "done"}

\* A worker keeps its promise when it ends.
PromisesAreKept ==
    \A t \in Thread : thread[t] = "done" <=> promise[t] # "unset"

\* No future below i has thrown, and main has not returned.
AskedSoFar ==
    /\ main # "exit" => exit_code = -1
    /\ main = "get" => \A t \in Thread : t < i => promise[t] = "value"

\* There is no acceptor before the server.
NotListening == main \in {"arguments", "config", "server"} => port = NoPort

IInv == /\ TypeOK /\ SpawnedSoFar /\ JoinedSoFar /\ PromisesAreKept /\ AskedSoFar
        /\ NotListening /\ ExitCodeIsRight /\ ListensAsConfigured

\* There is a worker, whatever the hardware says.
LEMMA NumThreadsType == NumThreads \in Nat /\ NumThreads >= 1
    BY DEF NumThreads

USE NumThreadsType

\* A remainder is the number itself, or a multiple of the divisor away.
LEMMA Remainder ==
    ASSUME NEW w \in Nat, w > 0, NEW n \in Int
    PROVE  /\ n % w \in 0 .. w - 1
           /\ 0 <= n /\ n < w => n % w = n
           /\ w <= n /\ n < 2 * w => n % w = n - w
           /\ -w <= n /\ n < 0 => n % w = n + w
    BY SMT

LEMMA WidthType == Width \in Nat /\ Half \in Nat /\ Width = 2 * Half /\ Half > 0
    BY DEF Width, Half

\* A 16 bit number survives the short and the unsigned short.
LEMMA PortSurvives ==
    ASSUME NEW n \in UnsignedShort
    PROVE  ToUnsignedShort(ToShort(n)) = n
<1> USE WidthType DEF UnsignedShort
<1>1. CASE n < Half
    <2>1. ToShort(n) = n
        BY <1>1, Remainder DEF ToShort
    <2> QED BY <2>1, Remainder DEF ToUnsignedShort
<1>2. CASE n >= Half
    <2>1. ToShort(n) = n - Width
        BY <1>2, Remainder DEF ToShort
    <2> QED BY <2>1, Remainder DEF ToUnsignedShort
<1> QED BY <1>1, <1>2

\* What is listened on is always 16 bits, and never port 0.
LEMMA PortType ==
    ASSUME NEW n \in Int, NEW p \in Bound(ToUnsignedShort(ToShort(n)))
    PROVE  p \in UnsignedShort /\ p # 0
<1> USE WidthType DEF UnsignedShort
<1>1. ToShort(n) \in Int
    BY Remainder DEF ToShort
<1>2. ToUnsignedShort(ToShort(n)) \in UnsignedShort
    BY <1>1, Remainder DEF ToUnsignedShort
<1>3. CASE ToUnsignedShort(ToShort(n)) = 0
    BY <1>3, EphemeralAssumption DEF Bound
<1>4. CASE ToUnsignedShort(ToShort(n)) # 0
    BY <1>2, <1>4 DEF Bound
<1> QED BY <1>3, <1>4

\* Before main reads its argument.
LEMMA InitInv == Init => IInv
<1> SUFFICES ASSUME Init PROVE IInv
    OBVIOUS
<1>1. TypeOK
    <2>1. i \in Thread /\ signals \in 0 .. MaxSignals
        BY DEF Init, Thread
    <2>2. /\ thread \in [Thread -> {"none", "run", "handler", "done"}]
          /\ promise \in [Thread -> {"unset", "value", "exception"}]
        BY DEF Init
    <2> QED BY <2>1, <2>2 DEF Init, TypeOK
<1>2. SpawnedSoFar
    BY DEF Init, SpawnedSoFar, Thread, Starting
<1>3. JoinedSoFar /\ PromisesAreKept /\ AskedSoFar /\ ExitCodeIsRight
    BY DEF Init, JoinedSoFar, PromisesAreKept, AskedSoFar, ExitCodeIsRight
<1>4. NotListening /\ ListensAsConfigured
    BY DEF Init, NotListening, ListensAsConfigured
<1> QED BY <1>1, <1>2, <1>3, <1>4 DEF IInv

\* An exception that leaves main's try block while no worker runs, and not all of
\* them have kept their promise with a value.
LEMMA FailInv ==
    ASSUME IInv, Fail,
           \A t \in Thread : thread[t] \in {"none", "done"},
           \E t \in Thread : promise[t] # "value"
    PROVE  IInv'
    BY DEF Fail, ports, workers, IInv, TypeOK, SpawnedSoFar, JoinedSoFar,
       PromisesAreKept, AskedSoFar, ExitCodeIsRight, NotListening,
       ListensAsConfigured, Starting

\* A failure before the first worker, or in the place of it, meets that condition.
LEMMA EarlyFailInv ==
    ASSUME IInv, Fail,
           \/ main \in Starting
           \/ main = "spawn" /\ i = 1
    PROVE  IInv'
<1>1. \A t \in Thread : thread[t] = "none"
    BY DEF IInv, SpawnedSoFar, Thread
<1>2. 1 \in Thread
    BY DEF Thread
<1>3. promise[1] # "value"
    BY <1>1, <1>2 DEF IInv, PromisesAreKept
<1> QED BY <1>1, <1>2, <1>3, FailInv

\* Main up to init_threads.
LEMMA StartInv ==
    ASSUME IInv,
           \/ \E argc \in 1 .. 3 : ParseArguments(argc)
           \/ ConfigFails \/ LoadConfig \/ ListenFails \/ Listen \/ WaitForSignals
    PROVE  IInv'
<1> USE DEF Starting
<1>1. CASE \E argc \in 1 .. 3 : ParseArguments(argc)
    <2> PICK argc \in 1 .. 3 : ParseArguments(argc)
        BY <1>1
    <2>1. CASE argc # 2
        BY <2>1, EarlyFailInv DEF ParseArguments
    <2>2. CASE argc = 2
        BY <2>2 DEF ParseArguments, ports, workers, IInv, TypeOK, SpawnedSoFar,
           JoinedSoFar, PromisesAreKept, AskedSoFar, ExitCodeIsRight, NotListening,
           ListensAsConfigured
    <2> QED BY <2>1, <2>2
<1>2. CASE ConfigFails
    BY <1>2, EarlyFailInv DEF ConfigFails
<1>3. CASE LoadConfig
    BY <1>3 DEF LoadConfig, workers, IInv, TypeOK, SpawnedSoFar, JoinedSoFar,
       PromisesAreKept, AskedSoFar, ExitCodeIsRight, NotListening, ListensAsConfigured
<1>4. CASE ListenFails
    BY <1>4, EarlyFailInv DEF ListenFails
<1>5. CASE Listen
    <2>1. config_port \in Int
        BY DEF IInv, TypeOK, NoPort
    <2>2. port' \in UnsignedShort /\ port' # 0
        BY <1>5, <2>1, PortType DEF Listen
    <2>3. ListensAsConfigured'
        <3>1. UNCHANGED config_port /\ port' \in Bound(ToUnsignedShort(ToShort(config_port)))
            BY <1>5 DEF Listen
        <3>2. config_port \in UnsignedShort \ {0} => port' = config_port
            BY <3>1, PortSurvives DEF Bound
        <3>3. UnsignedShort' = UnsignedShort
            OBVIOUS
        <3> QED BY <2>2, <3>1, <3>2, <3>3 DEF ListensAsConfigured
    <2>4. TypeOK'
        BY <1>5, <2>2 DEF Listen, workers, IInv, TypeOK
    <2> QED BY <1>5, <2>3, <2>4 DEF Listen, workers, IInv, SpawnedSoFar, JoinedSoFar,
            PromisesAreKept, AskedSoFar, ExitCodeIsRight, NotListening
<1>6. CASE WaitForSignals
    BY <1>6 DEF WaitForSignals, Thread, ports, workers, IInv, TypeOK, SpawnedSoFar,
       JoinedSoFar, PromisesAreKept, AskedSoFar, ExitCodeIsRight, NotListening,
       ListensAsConfigured
<1> QED BY <1>1, <1>2, <1>3, <1>4, <1>5, <1>6

\* A step of the loops of init_threads moves i on by one, or starts the next loop
\* at the first worker when i was the last.
LEMMA LoopInv ==
    ASSUME IInv, Spawn \/ SpawnFails \/ Join \/ GetException \/ GetValue
    PROVE  IInv'
<1> USE DEF IInv, TypeOK, Thread, SpawnedSoFar, JoinedSoFar, PromisesAreKept,
            AskedSoFar, ExitCodeIsRight, NotListening, ListensAsConfigured, Starting,
            ports
<1>1. CASE Spawn
    BY <1>1 DEF Spawn, Advance
<1>2. CASE SpawnFails
    <2>1. CASE i = 1 /\ Fail
        BY <1>2, <2>1, EarlyFailInv DEF SpawnFails
    <2>2. CASE i > 1
        BY <1>2, <2>2 DEF SpawnFails, workers, Fail
    <2> QED BY <1>2, <2>1, <2>2 DEF SpawnFails
<1>3. CASE Join
    BY <1>3 DEF Join, Advance, workers
<1>4. CASE GetException
    BY <1>4, FailInv DEF GetException
<1>5. CASE GetValue
    BY <1>5 DEF GetValue, Advance, workers
<1> QED BY <1>1, <1>2, <1>3, <1>4, <1>5

\* A step of a worker that runs: main has not joined it yet.
LEMMA WorkerInv ==
    ASSUME IInv, NEW t \in Thread, TakeHandler(t) \/ TakeSignal(t) \/ Work(t)
    PROVE  IInv'
<1> USE DEF IInv, TypeOK, Thread, SpawnedSoFar, JoinedSoFar, PromisesAreKept,
            AskedSoFar, ExitCodeIsRight, NotListening, ListensAsConfigured, Starting,
            ports, Alive
<1>1. CASE TakeHandler(t)
    BY <1>1 DEF TakeHandler, Runs
<1>2. CASE TakeSignal(t)
    BY <1>2 DEF TakeSignal, Runs
<1>3. CASE HandlerReturns(t)
    BY <1>3 DEF HandlerReturns
<1>4. CASE HandlerThrows(t)
    BY <1>4 DEF HandlerThrows
<1>5. CASE RunReturns(t)
    BY <1>5 DEF RunReturns
<1> QED BY <1>1, <1>2, <1>3, <1>4, <1>5 DEF Work

\* Every step preserves the invariant.
LEMMA NextInv == IInv /\ [Next]_vars => IInv'
<1> SUFFICES ASSUME IInv, [Next]_vars PROVE IInv'
    OBVIOUS
<1>1. CASE Signal
    BY <1>1 DEF Signal, ports, workers, IInv, TypeOK, Thread, SpawnedSoFar, JoinedSoFar,
       PromisesAreKept, AskedSoFar, ExitCodeIsRight, NotListening, ListensAsConfigured,
       Starting
<1>2. CASE UNCHANGED vars
    BY <1>2 DEF vars, ports, workers, IInv, TypeOK, SpawnedSoFar, JoinedSoFar,
       PromisesAreKept, AskedSoFar, ExitCodeIsRight, NotListening, ListensAsConfigured
<1> QED BY <1>1, <1>2, StartInv, LoopInv, WorkerInv DEF Next, Main

-------------------------------------------------------------------------------

\* Main and the workers keep to the invariant in every execution.
THEOREM InductiveInvariant == Spec => []IInv
    BY InitInv, NextInv, PTL DEF Spec

\* The loops of init_threads index their vectors within bounds.
THEOREM TypeCorrect == Spec => []TypeOK
<1>1. IInv => TypeOK
    BY DEF IInv
<1> QED BY <1>1, InductiveInvariant, PTL

\* The io_service and the server on main's stack outlive every worker, for any
\* number of them, and whichever end by a signal and whichever by an exception.
THEOREM WorkersEnd == Spec => []WorkersEndFirst
<1>1. IInv => WorkersEndFirst
    BY DEF IInv, JoinedSoFar, WorkersEndFirst
<1> QED BY <1>1, InductiveInvariant, PTL

\* The exit code is 0 exactly when every worker was started and none threw.
THEOREM ExitCode == Spec => []ExitCodeIsRight
<1>1. IInv => ExitCodeIsRight
    BY DEF IInv
<1> QED BY <1>1, InductiveInvariant, PTL

\* A port of 16 bits other than 0 is listened on, for any set of configured ports.
THEOREM PortIsRight == Spec => []ListensAsConfigured
<1>1. IInv => ListensAsConfigured
    BY DEF IInv
<1> QED BY <1>1, InductiveInvariant, PTL
===============================================================================
