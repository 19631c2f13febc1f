----------------------------- MODULE Server_proofs -----------------------------
(***************************************************************************)
(* The accept chain never breaks and never branches, for any number of     *)
(* threads, sessions and operations, whatever clients send and whatever    *)
(* becomes of the sessions.                                                *)
(* The handlers of a session form one chain when no client keeps its       *)
(* connection, and no session is forgotten when no handler throws either.  *)
(***************************************************************************)
EXTENDS Server, FiniteSetTheorems, SequenceTheorems, TLAPS

USE NoOpAssumption, FirstAssumption

OpValue == [state : {"pending", "ready", "running"},
            kind : {"accept", "read", "write"}, session : Session,
            buffer : Buffer, ok : BOOLEAN, chunk : Chunks \cup {<<>>}] \cup {Idle}

IsAccept(x) == x # Idle /\ x.kind = "accept"
IsRunning(x) == x # Idle /\ x.state = "running"

\* The statements of handle_accept; all others belong to a session's handlers.
AcceptLabels == {"start", "accept", "accept_failed"}
Labels == HandlerLabels \cup AcceptLabels \cup {"idle", "dead"}
Busy(w) == pc[w] \notin {"idle", "dead"}

TypesOfThreads == /\ op \in [Op -> OpValue]
                  /\ pc \in [Worker -> Labels]
                  /\ cur \in [Worker -> Op \cup {NoOp}]

\* A busy thread runs an operation, and is in the handler of its kind.
HandlersMatch ==
    \A w \in Worker : Busy(w) => /\ cur[w] \in Op
                                 /\ IsRunning(op[cur[w]])
                                 /\ IsAccept(op[cur[w]]) <=> pc[w] \in AcceptLabels

\* No two threads run one operation.
RunOnce == \A v, w \in Worker : Busy(v) /\ Busy(w) /\ cur[v] = cur[w] => v = w

AcceptIs(a) == a \in Op /\ \A o \in Op : IsAccept(op[o]) <=> o = a

IInv == TypesOfThreads /\ HandlersMatch /\ RunOnce /\ \E a \in Op : AcceptIs(a)

\* The constructor starts the chain.
LEMMA InitInv == Init => IInv
<1> SUFFICES ASSUME Init PROVE IInv
    OBVIOUS
<1>1. Accept(FirstSession) \in OpValue /\ Accept(FirstSession) # Idle
      /\ Accept(FirstSession).kind = "accept"
    BY DEF Accept, Operation, OpValue, Buffer, Idle
<1>2. TypesOfThreads
    BY <1>1 DEF Init, TypesOfThreads, OpValue, Labels
<1>3. AcceptIs(FirstOp)
    BY <1>1 DEF Init, AcceptIs, IsAccept
<1>4. HandlersMatch /\ RunOnce
    BY DEF Init, HandlersMatch, RunOnce, Busy
<1> QED BY <1>2, <1>3, <1>4 DEF IInv

\* Operations other than the thread's own go on, and none becomes an accept.
OthersGoOn(w) ==
    \A o \in Op : o # cur[w] => /\ IsAccept(op'[o]) <=> IsAccept(op[o])
                                /\ IsRunning(op[o]) => IsRunning(op'[o])

\* What every step of a busy thread does to the table: the thread goes on in its
\* handler, or returns and leaves an operation of the same kind in its entry, as far
\* as accepts go.
BusyStep(w) ==
    /\ op' \in [Op -> OpValue]
    /\ OthersGoOn(w)
    /\ \/ /\ op'[cur[w]] = op[cur[w]]
          /\ cur' = cur
          /\ \E l \in Labels \ {"idle", "dead"} :
                /\ pc' = [pc EXCEPT ![w] = l]
                /\ l \in AcceptLabels <=> pc[w] \in AcceptLabels
       \/ /\ IsAccept(op'[cur[w]]) <=> IsAccept(op[cur[w]])
          /\ cur' = [cur EXCEPT ![w] = NoOp]
          /\ \E l \in {"idle", "dead"} : pc' = [pc EXCEPT ![w] = l]

\* Such a step keeps the chain.
LEMMA BusyStepInv ==
    ASSUME IInv, NEW w \in Worker, Busy(w), BusyStep(w)
    PROVE  IInv'
<1> USE DEF IInv, TypesOfThreads, Busy
<1>1. cur[w] \in Op
    BY DEF HandlersMatch
<1>2. TypesOfThreads'
    BY DEF BusyStep, Labels
<1>3. PICK a \in Op : AcceptIs(a)
    OBVIOUS
<1>4. AcceptIs(a)'
    BY <1>1, <1>3 DEF AcceptIs, BusyStep, OthersGoOn
<1>5. ASSUME NEW v \in Worker, v # w, Busy(v)'
      PROVE  /\ Busy(v) /\ pc'[v] = pc[v] /\ cur'[v] = cur[v]
             /\ cur[v] \in Op /\ cur[v] # cur[w]
             /\ IsRunning(op'[cur[v]])
             /\ IsAccept(op'[cur[v]]) <=> IsAccept(op[cur[v]])
    <2>1. Busy(v) /\ pc'[v] = pc[v] /\ cur'[v] = cur[v]
        BY <1>5 DEF BusyStep
    <2>2. cur[v] \in Op /\ cur[v] # cur[w] /\ IsRunning(op[cur[v]])
        BY <2>1, <1>5 DEF HandlersMatch, RunOnce
    <2> QED BY <2>1, <2>2 DEF BusyStep, OthersGoOn
<1>6. Busy(w)' => /\ cur' = cur /\ op'[cur[w]] = op[cur[w]]
                  /\ pc'[w] \in AcceptLabels <=> pc[w] \in AcceptLabels
    BY DEF BusyStep
<1>7. HandlersMatch'
    <2> SUFFICES ASSUME NEW v \in Worker, Busy(v)'
                 PROVE  /\ cur'[v] \in Op /\ IsRunning(op'[cur'[v]])
                        /\ IsAccept(op'[cur'[v]]) <=> pc'[v] \in AcceptLabels
        BY DEF HandlersMatch, IsRunning, IsAccept
    <2>1. CASE v = w
        BY <2>1, <1>6 DEF HandlersMatch
    <2>2. CASE v # w
        BY <2>2, <1>5 DEF HandlersMatch
    <2> QED BY <2>1, <2>2
<1>8. RunOnce'
    BY <1>5, <1>6 DEF RunOnce
<1> QED BY <1>2, <1>4, <1>7, <1>8

-------------------------------------------------------------------------------
(* The steps of a thread                                                       *)

\* A busy thread has an operation, on a session.
LEMMA OwnOperation ==
    ASSUME IInv, NEW w \in Worker, Busy(w)
    PROVE  /\ cur[w] \in Op /\ op[cur[w]] \in OpValue /\ op[cur[w]] # Idle
           /\ Self(w) \in Session
           /\ IsAccept(op[cur[w]]) <=> pc[w] \in AcceptLabels
    BY DEF IInv, TypesOfThreads, HandlersMatch, IsRunning, Self, OpValue, Busy

\* Reads and writes are operations, and no accepts.
LEMMA NewOperation ==
    ASSUME NEW kind \in {"read", "write"}, NEW s \in Session, NEW b \in Buffer
    PROVE  /\ Operation(kind, s, b) \in OpValue
           /\ ~IsAccept(Operation(kind, s, b))
    BY DEF Operation, OpValue, IsAccept

\* Nothing is no operation.
LEMMA IdleOperation == Idle \in OpValue /\ ~IsAccept(Idle) /\ ~IsRunning(Idle)
    BY DEF OpValue, IsAccept, IsRunning

\* Assigning current_response_ touches pending writes only.
LEMMA ReassignedOthers ==
    ASSUME IInv, NEW s \in Session
    PROVE  /\ Reassigned(s) \in [Op -> OpValue]
           /\ \A o \in Op : /\ IsAccept(Reassigned(s)[o]) <=> IsAccept(op[o])
                            /\ IsRunning(op[o]) => Reassigned(s)[o] = op[o]
                            /\ op[o] = Idle => Reassigned(s)[o] = Idle
<1> SUFFICES ASSUME NEW o \in Op
             PROVE  /\ Reassigned(s)[o] \in OpValue
                    /\ IsAccept(Reassigned(s)[o]) <=> IsAccept(op[o])
                    /\ IsRunning(op[o]) => Reassigned(s)[o] = op[o]
                    /\ op[o] = Idle => Reassigned(s)[o] = Idle
    BY DEF Reassigned
<1>1. CASE /\ Pending(o, "write") /\ op[o].session = s /\ op[o].buffer = "stored"
    <2>1. Reassigned(s)[o] = [op[o] EXCEPT !.buffer = "overwritten"]
        BY <1>1 DEF Reassigned
    <2> QED BY <1>1, <2>1 DEF IInv, TypesOfThreads, OpValue, Pending, IsAccept,
               IsRunning, Idle, Buffer
<1>2. CASE ~(Pending(o, "write") /\ op[o].session = s /\ op[o].buffer = "stored")
    BY <1>2 DEF Reassigned, IInv, TypesOfThreads
<1> QED BY <1>1, <1>2

\* Closing a socket completes pending reads and writes only.
LEMMA AbortedOthers ==
    ASSUME IInv, NEW s \in Session
    PROVE  /\ Aborted(s) \in [Op -> OpValue]
           /\ \A o \in Op : /\ IsAccept(Aborted(s)[o]) <=> IsAccept(op[o])
                            /\ IsRunning(op[o]) => Aborted(s)[o] = op[o]
<1> SUFFICES ASSUME NEW o \in Op
             PROVE  /\ Aborted(s)[o] \in OpValue
                    /\ IsAccept(Aborted(s)[o]) <=> IsAccept(op[o])
                    /\ IsRunning(op[o]) => Aborted(s)[o] = op[o]
    BY DEF Aborted
<1>1. CASE (Pending(o, "read") \/ Pending(o, "write")) /\ op[o].session = s
    <2>1. Aborted(s)[o] = [op[o] EXCEPT !.state = "ready", !.ok = FALSE]
        BY <1>1 DEF Aborted
    <2>2. op[o] \in OpValue /\ op[o] # Idle /\ op[o].state = "pending"
        BY <1>1 DEF IInv, TypesOfThreads, Pending
    <2>3. [op[o] EXCEPT !.state = "ready", !.ok = FALSE] \in OpValue
        BY <2>2 DEF OpValue
    <2>4. [op[o] EXCEPT !.state = "ready", !.ok = FALSE] # Idle
        BY <2>2 DEF OpValue, Idle
    <2>5. [op[o] EXCEPT !.state = "ready", !.ok = FALSE].kind = op[o].kind
        BY <2>2 DEF OpValue
    <2> QED BY <2>1, <2>2, <2>3, <2>4, <2>5 DEF IsAccept, IsRunning
<1>2. CASE ~((Pending(o, "read") \/ Pending(o, "write")) /\ op[o].session = s)
    BY <1>2 DEF Aborted, IInv, TypesOfThreads
<1> QED BY <1>1, <1>2

\* The handler goes on; the table stays.
LEMMA GotoStep ==
    ASSUME IInv, NEW w \in Worker, Busy(w), NEW l \in Labels \ {"idle", "dead"},
           Goto(w, l), l \in AcceptLabels <=> pc[w] \in AcceptLabels, UNCHANGED op
    PROVE  BusyStep(w)
    BY DEF BusyStep, OthersGoOn, Goto, IInv, TypesOfThreads

\* The handler of a session returns, or ends with an exception: its entry gets an
\* operation that is no accept, or none.
LEMMA ReturnStep ==
    ASSUME IInv, NEW w \in Worker, Busy(w), pc[w] \notin AcceptLabels,
           Return(w) \/ (pc' = [pc EXCEPT ![w] = "dead"] /\ cur' = [cur EXCEPT ![w] = NoOp]),
           op' \in [Op -> OpValue], OthersGoOn(w), ~IsAccept(op'[cur[w]])
    PROVE  BusyStep(w)
    BY OwnOperation DEF BusyStep, Return

\* The same when its entry alone changes.
LEMMA OwnEntryStep ==
    ASSUME IInv, NEW w \in Worker, Busy(w), pc[w] \notin AcceptLabels,
           Return(w) \/ (pc' = [pc EXCEPT ![w] = "dead"] /\ cur' = [cur EXCEPT ![w] = NoOp]),
           NEW x \in OpValue, ~IsAccept(x), op' = [op EXCEPT ![cur[w]] = x]
    PROVE  BusyStep(w)
<1>1. cur[w] \in Op
    BY OwnOperation
<1>2. op' \in [Op -> OpValue] /\ OthersGoOn(w) /\ ~IsAccept(op'[cur[w]])
    BY <1>1 DEF IInv, TypesOfThreads, OthersGoOn
<1> QED BY <1>2, ReturnStep

\* A response is the handler's last statement.
LEMMA WriteLastStep ==
    ASSUME IInv, NEW w \in Worker, Busy(w), pc[w] \notin AcceptLabels,
           NEW b \in Buffer, WriteLast(w, b)
    PROVE  BusyStep(w)
<1>1. cur[w] \in Op /\ Self(w) \in Session
    BY OwnOperation
<1>2. PICK c \in Buffer :
         op' = [Reassigned(Self(w)) EXCEPT ![cur[w]] = Operation("write", Self(w), c)]
    BY DEF WriteLast, Write, Buffer
<1>3. Operation("write", Self(w), c) \in OpValue /\ ~IsAccept(Operation("write", Self(w), c))
    BY <1>1, NewOperation
<1>4. op' \in [Op -> OpValue] /\ OthersGoOn(w) /\ ~IsAccept(op'[cur[w]])
    BY <1>1, <1>2, <1>3, ReassignedOthers DEF OthersGoOn
<1> QED BY <1>4, ReturnStep DEF WriteLast

\* A response is written from an entry of its own, and the handler goes on.
LEMMA RespondStep ==
    ASSUME IInv, NEW w \in Worker, RespondAndContinue(w)
    PROVE  Busy(w) /\ BusyStep(w)
<1>1. pc[w] = "keepalive" /\ Busy(w)
    BY DEF RespondAndContinue, InSession, At, Busy
<1>2. cur[w] \in Op /\ Self(w) \in Session /\ IsRunning(op[cur[w]])
    BY <1>1, OwnOperation DEF IInv, HandlersMatch
<1>3. PICK n \in Unused, c \in Buffer :
         op' = [Reassigned(Self(w)) EXCEPT ![n] = Operation("write", Self(w), c)]
    BY DEF RespondAndContinue, Write, Buffer
<1>4. Operation("write", Self(w), c) \in OpValue /\ ~IsAccept(Operation("write", Self(w), c))
    BY <1>2, NewOperation
<1>5. n \in Op /\ op[n] = Idle /\ n # cur[w]
    BY <1>2 DEF Unused, IsRunning
<1>6. op' \in [Op -> OpValue] /\ OthersGoOn(w) /\ op'[cur[w]] = op[cur[w]]
    BY <1>2, <1>3, <1>4, <1>5, ReassignedOthers, IdleOperation DEF OthersGoOn
<1>7. pc' = [pc EXCEPT ![w] = "loop"] /\ cur' = cur
    BY DEF RespondAndContinue, Goto
<1>8. "loop" \in Labels \ {"idle", "dead"}
      /\ ("loop" \in AcceptLabels <=> pc[w] \in AcceptLabels)
    BY <1>1 DEF Labels, HandlerLabels, AcceptLabels
<1> QED BY <1>1, <1>6, <1>7, <1>8 DEF BusyStep

\* Every step of a session's handlers is a step of a busy thread.
LEMMA HandlerStepIsBusy ==
    ASSUME IInv, NEW w \in Worker, HandlerStep(w)
    PROVE  Busy(w) /\ BusyStep(w)
<1> USE DEF InSession, At
<1> DEFINE Own == cur[w] \in Op /\ Self(w) \in Session
<1>1. ASSUME Busy(w) PROVE Own
    BY <1>1, OwnOperation
<1>2. CASE Start(w)
    <2>1. Busy(w) /\ pc[w] = "start" /\ IsRunning(op[cur[w]]) /\ Own
        BY <1>1, <1>2 DEF Start, Busy, IInv, HandlersMatch
    <2>2. PICK n \in Unused : op' = [op EXCEPT ![n] = Read(Self(w))]
        BY <1>2 DEF Start
    <2>3. Read(Self(w)) \in OpValue /\ ~IsAccept(Read(Self(w)))
        BY <2>1, NewOperation DEF Read, Buffer
    <2>4. n \in Op /\ op[n] = Idle /\ n # cur[w]
        BY <2>1, <2>2 DEF Unused, IsRunning
    <2>5. op' \in [Op -> OpValue] /\ OthersGoOn(w) /\ op'[cur[w]] = op[cur[w]]
        BY <2>1, <2>2, <2>3, <2>4, IdleOperation DEF OthersGoOn, IInv, TypesOfThreads
    <2>6. pc' = [pc EXCEPT ![w] = "accept"] /\ cur' = cur
        BY <1>2 DEF Start, Goto
    <2>7. "accept" \in Labels \ {"idle", "dead"}
          /\ ("accept" \in AcceptLabels <=> pc[w] \in AcceptLabels)
        BY <2>1 DEF Labels, AcceptLabels
    <2> QED BY <2>1, <2>5, <2>6, <2>7 DEF BusyStep
<1>3. CASE RequestTooLarge(w) \/ ContentTooLarge(w) \/ BadRequest(w) \/ RespondAndReturn(w)
    <2>1. Busy(w) /\ pc[w] \notin AcceptLabels
        BY <1>3 DEF RequestTooLarge, ContentTooLarge, BadRequest, RespondAndReturn,
           Busy, AcceptLabels
    <2>2. WriteLast(w, "dangling") \/ WriteLast(w, "stored")
        BY <1>3 DEF RequestTooLarge, ContentTooLarge, BadRequest, RespondAndReturn
    <2> QED BY <2>1, <2>2, WriteLastStep DEF Buffer
<1>4. CASE WaitForMore(w) \/ Rearm(w)
    <2>1. Busy(w) /\ pc[w] \notin AcceptLabels /\ Own
        BY <1>1, <1>4 DEF WaitForMore, Rearm, Busy, AcceptLabels
    <2>2. Read(Self(w)) \in OpValue /\ ~IsAccept(Read(Self(w)))
        BY <2>1, NewOperation DEF Read, Buffer
    <2>3. op' = [op EXCEPT ![cur[w]] = Read(Self(w))] /\ Return(w)
        BY <1>4 DEF WaitForMore, Rearm, ReadAgain
    <2> QED BY <2>1, <2>2, <2>3, OwnEntryStep
<1>5. CASE BadContentLength(w) \/ (HandleRequest(w) /\ Throw(w))
    <2>1. Busy(w) /\ pc[w] \notin AcceptLabels
        BY <1>5 DEF BadContentLength, HandleRequest, Busy, AcceptLabels
    <2>2. Throw(w)
        BY <1>5 DEF BadContentLength
    <2> QED BY <2>1, <2>2, IdleOperation, OwnEntryStep DEF Throw
<1>6. CASE \/ AppendData(w) \/ (HandleRequest(w) /\ ~Throw(w)) \/ SetAlreadyDeleted(w)
           \/ (TestAlreadyDeleted(w) /\ ~already_deleted_[Self(w)])
    <2>1. Busy(w) /\ pc[w] \notin AcceptLabels
        BY <1>6 DEF AppendData, HandleRequest, SetAlreadyDeleted, TestAlreadyDeleted,
           Busy, AcceptLabels
    <2>2. PICK l \in {"loop", "close", "keepalive", "set_deleted", "delete"} :
             Goto(w, l) /\ UNCHANGED op
        BY <1>6 DEF AppendData, HandleRequest, SetAlreadyDeleted, TestAlreadyDeleted
    <2>3. l \in Labels \ {"idle", "dead"} /\ l \notin AcceptLabels
        BY DEF Labels, HandlerLabels, AcceptLabels
    <2> QED BY <2>1, <2>2, <2>3, GotoStep
<1>7. CASE TestAlreadyDeleted(w) /\ already_deleted_[Self(w)]
    <2>1. Busy(w) /\ pc[w] \notin AcceptLabels
        BY <1>7 DEF TestAlreadyDeleted, Busy, AcceptLabels
    <2>2. op' = [op EXCEPT ![cur[w]] = Idle] /\ Return(w)
        BY <1>7 DEF TestAlreadyDeleted
    <2> QED BY <2>1, <2>2, IdleOperation, OwnEntryStep
<1>8. CASE Delete(w)
    <2>1. Busy(w) /\ pc[w] \notin AcceptLabels /\ Own
        BY <1>1, <1>8 DEF Delete, Busy, AcceptLabels
    <2>2. op' = [Aborted(Self(w)) EXCEPT ![cur[w]] = Idle] /\ Return(w)
        BY <1>8 DEF Delete
    <2>3. op' \in [Op -> OpValue] /\ OthersGoOn(w) /\ ~IsAccept(op'[cur[w]])
        BY <2>1, <2>2, AbortedOthers, IdleOperation DEF OthersGoOn
    <2> QED BY <2>1, <2>2, <2>3, ReturnStep
<1>9. CASE Undefined(w)
    <2>1. Busy(w) /\ (pc[w] # "start" => pc[w] \notin AcceptLabels) /\ pc[w] \in Labels
        BY <1>9 DEF Undefined, UseAfterFree, HandlerLabels, Busy, AcceptLabels, Labels
    <2>2. CASE pc[w] # "start" /\ op' = [op EXCEPT ![cur[w]] = Idle] /\ Return(w)
        BY <2>1, <2>2, IdleOperation, OwnEntryStep
    <2>3. CASE pc[w] = "start" /\ Goto(w, "accept") /\ UNCHANGED op
        BY <2>1, <2>3, GotoStep DEF Labels, AcceptLabels
    <2>4. CASE UNCHANGED <<op, pc, cur>>
        <3>1. Goto(w, pc[w]) /\ UNCHANGED op
            BY <2>4 DEF Goto, IInv, TypesOfThreads
        <3> QED BY <2>1, <3>1, GotoStep DEF Busy
    <2> QED BY <1>9, <2>2, <2>3, <2>4 DEF Undefined
<1>10. CASE RespondAndContinue(w)
    BY <1>10, RespondStep
<1> QED BY <1>2, <1>3, <1>4, <1>5, <1>6, <1>7, <1>8, <1>9, <1>10 DEF HandlerStep

\* handle_accept ends with the next accept in the entry of the one before.
LEMMA AcceptStepIsBusy ==
    ASSUME IInv, NEW w \in Worker, AcceptFailed(w) \/ StartAccept(w)
    PROVE  Busy(w) /\ BusyStep(w)
<1>1. Busy(w) /\ pc[w] \in AcceptLabels
    BY DEF AcceptFailed, StartAccept, At, Busy, AcceptLabels
<1>2. CASE AcceptFailed(w)
    BY <1>1, <1>2, GotoStep DEF AcceptFailed, Labels, AcceptLabels
<1>3. CASE StartAccept(w)
    <2>1. PICK s \in Session : op' = [op EXCEPT ![cur[w]] = Accept(s)]
        BY <1>3 DEF StartAccept
    <2>2. Accept(s) \in OpValue /\ IsAccept(Accept(s))
        BY DEF Accept, Operation, OpValue, Buffer, IsAccept, Idle
    <2>3. cur[w] \in Op /\ IsAccept(op[cur[w]])
        BY <1>1, OwnOperation
    <2>4. op' \in [Op -> OpValue] /\ OthersGoOn(w) /\ IsAccept(op'[cur[w]])
        BY <2>1, <2>2, <2>3 DEF OthersGoOn, IInv, TypesOfThreads
    <2> QED BY <1>1, <1>3, <2>3, <2>4 DEF BusyStep, StartAccept, Return
<1> QED BY <1>2, <1>3

-------------------------------------------------------------------------------
(* The steps of the io_service *)

\* An operation that was pending is ready; it stays what it was.
LEMMA CompleteInv ==
    ASSUME IInv, NEW o \in Op, op[o] # Idle, op[o].state = "pending",
           NEW ok \in BOOLEAN, NEW chunk \in Chunks \cup {<<>>},
           Complete(o, ok, chunk), UNCHANGED threadVars
    PROVE  IInv'
<1> DEFINE x == [op[o] EXCEPT !.state = "ready", !.ok = ok, !.chunk = chunk]
<1>1. op[o] \in OpValue
    BY DEF IInv, TypesOfThreads
<1>2. x \in OpValue /\ x # Idle /\ x.kind = op[o].kind
    BY <1>1 DEF OpValue, Idle
<1>3. op' = [op EXCEPT ![o] = x]
    BY DEF Complete
<1> HIDE DEF x
<1>4. /\ op' \in [Op -> OpValue]
      /\ \A p \in Op : /\ IsAccept(op'[p]) <=> IsAccept(op[p])
                       /\ IsRunning(op[p]) => op'[p] = op[p]
    BY <1>2, <1>3 DEF IInv, TypesOfThreads, IsAccept, IsRunning
<1>5. TypesOfThreads' /\ RunOnce' /\ \E a \in Op : AcceptIs(a)'
    BY <1>4 DEF IInv, TypesOfThreads, RunOnce, Busy, AcceptIs, threadVars
<1>6. HandlersMatch'
    BY <1>4 DEF IInv, HandlersMatch, Busy, threadVars
<1> QED BY <1>5, <1>6 DEF IInv

\* An idle thread takes an operation no other thread runs, since it was ready.
LEMMA DispatchInv ==
    ASSUME IInv, NEW w \in Worker, NEW o \in Op, Dispatch(w, o)
    PROVE  IInv'
<1> DEFINE x == [op[o] EXCEPT !.state = "running"]
<1>1. op[o] \in OpValue /\ op[o] # Idle /\ op[o].state = "ready" /\ pc[w] = "idle"
    BY DEF IInv, TypesOfThreads, Dispatch, At
<1>2. x \in OpValue /\ x # Idle /\ x.kind = op[o].kind /\ x.state = "running"
    BY <1>1 DEF OpValue, Idle
<1>3. op' = [op EXCEPT ![o] = x] /\ cur' = [cur EXCEPT ![w] = o]
    BY DEF Dispatch
<1>4. PICK l \in Labels \ {"idle", "dead"} :
         /\ pc' = [pc EXCEPT ![w] = l]
         /\ l \in AcceptLabels <=> op[o].kind = "accept"
    <2> DEFINE l == CASE op[o].kind = "accept" /\ op[o].ok  -> "start"
                      [] op[o].kind = "accept" /\ ~op[o].ok -> "accept_failed"
                      [] op[o].kind = "read" /\ op[o].ok    -> "append"
                      [] op[o].kind = "write" /\ op[o].ok   -> "rearm"
                      [] OTHER                              -> "safe_delete"
    <2>1. pc' = [pc EXCEPT ![w] = l]
        BY DEF Dispatch
    <2>2. op[o].ok \in BOOLEAN
        BY <1>1 DEF OpValue, Idle
    <2>3. l \in Labels \ {"idle", "dead"} /\ (l \in AcceptLabels <=> op[o].kind = "accept")
        BY <2>2 DEF Labels, HandlerLabels, AcceptLabels
    <2> HIDE DEF l
    <2> QED BY <2>1, <2>3
<1> HIDE DEF x
<1>5. /\ op' \in [Op -> OpValue]
      /\ \A p \in Op : /\ IsAccept(op'[p]) <=> IsAccept(op[p])
                       /\ IsRunning(op[p]) => op'[p] = op[p] /\ p # o
    BY <1>1, <1>2, <1>3 DEF IInv, TypesOfThreads, IsAccept, IsRunning
<1>6. TypesOfThreads' /\ \E a \in Op : AcceptIs(a)'
    BY <1>3, <1>4, <1>5 DEF IInv, TypesOfThreads, AcceptIs
<1>7. ASSUME NEW v \in Worker, v # w, Busy(v)'
      PROVE  /\ Busy(v) /\ pc'[v] = pc[v] /\ cur'[v] = cur[v]
             /\ cur[v] \in Op /\ IsRunning(op[cur[v]]) /\ cur[v] # o
    <2>1. Busy(v) /\ pc'[v] = pc[v] /\ cur'[v] = cur[v]
        BY <1>3, <1>4, <1>7 DEF IInv, TypesOfThreads, Busy
    <2> QED BY <1>5, <2>1 DEF IInv, HandlersMatch
<1>8. /\ cur'[w] = o /\ IsRunning(op'[o])
      /\ IsAccept(op'[o]) <=> pc'[w] \in AcceptLabels
    BY <1>2, <1>3, <1>4 DEF IInv, TypesOfThreads, IsAccept, IsRunning
<1>9. HandlersMatch'
    <2> SUFFICES ASSUME NEW v \in Worker, Busy(v)'
                 PROVE  /\ cur'[v] \in Op /\ IsRunning(op'[cur'[v]])
                        /\ IsAccept(op'[cur'[v]]) <=> pc'[v] \in AcceptLabels
        BY DEF HandlersMatch, IsRunning, IsAccept
    <2>1. CASE v = w
        BY <2>1, <1>8
    <2>2. CASE v # w
        BY <2>2, <1>5, <1>7 DEF IInv, HandlersMatch
    <2> QED BY <2>1, <2>2
<1>10. RunOnce'
    BY <1>7, <1>8 DEF IInv, RunOnce
<1> QED BY <1>6, <1>9, <1>10 DEF IInv

\* Every step preserves the invariant.
LEMMA NextInv == IInv /\ [Next]_vars => IInv'
<1> SUFFICES ASSUME IInv, [Next]_vars PROVE IInv'
    OBVIOUS
<1>1. ASSUME NEW w \in Worker, ThreadStep(w)
      PROVE  IInv'
    BY <1>1, HandlerStepIsBusy, AcceptStepIsBusy, BusyStepInv DEF ThreadStep
<1>2. ASSUME NEW w \in Worker, NEW o \in Op, Dispatch(w, o)
      PROVE  IInv'
    BY <1>2, DispatchInv
<1>3. ASSUME NEW o \in Op, \/ Connect(o) \/ AcceptError(o) \/ Receive(o)
                           \/ ReadError(o) \/ Sent(o) \/ WriteError(o)
      PROVE  IInv'
    <2>1. op[o] # Idle /\ op[o].state = "pending" /\ UNCHANGED threadVars
        BY <1>3 DEF Connect, AcceptError, Receive, ReadError, Sent, WriteError, Pending
    <2>2. \E ok \in BOOLEAN, chunk \in Chunks \cup {<<>>} : Complete(o, ok, chunk)
        BY <1>3 DEF Connect, AcceptError, Receive, ReadError, Sent, WriteError
    <2> QED BY <2>1, <2>2, CompleteInv
<1>4. CASE UNCHANGED <<op, pc, cur>>
    BY <1>4 DEF IInv, TypesOfThreads, HandlersMatch, RunOnce, AcceptIs, Busy
<1>5. CASE \E s \in Session : PeerClose(s)
    BY <1>4, <1>5 DEF PeerClose, threadVars
<1>6. CASE \E v, w \in Worker : Race(w, v)
    BY <1>4, <1>6 DEF Race
<1>7. CASE UNCHANGED vars
    BY <1>4, <1>7 DEF vars, threadVars
<1> QED BY <1>1, <1>2, <1>3, <1>5, <1>6, <1>7 DEF Next

\* Threads run each operation once, and there is one accept.
THEOREM InductiveInvariant == Spec => []IInv
    BY InitInv, NextInv, PTL DEF Spec

\* The server has exactly one accept in flight at every moment, for any number of
\* threads and sessions: after errors, exceptions and even after handlers have run
\* on sessions that were deleted.
THEOREM OneAcceptAlways == Spec => []OneAccept
<1>1. IInv => OneAccept
    <2> SUFFICES ASSUME IInv PROVE OneAccept
        OBVIOUS
    <2>1. PICK a \in Op : AcceptIs(a)
        BY DEF IInv
    <2>2. {o \in Active : op[o].kind = "accept"} = {a}
        BY <2>1 DEF AcceptIs, IsAccept, Active
    <2> QED BY <2>2, FS_Singleton DEF OneAccept
<1> QED BY <1>1, InductiveInvariant, PTL

-------------------------------------------------------------------------------
(* The sessions                                                                *)

\* The types of the sessions, when clients send requests of the kinds K only.
DataTypes(K) ==
    /\ life \in [Session -> {"free", "accepting", "live"}]
    /\ already_deleted_ \in [Session -> BOOLEAN]
    /\ request_buffer_ \in [Session -> Seq(K)]
    /\ \A s \in Session : Len(request_buffer_[s]) <= MaxRequestSize
    /\ data_ \in [Session -> Seq(K)]
    /\ peer \in [Session -> {"none", "open", "closed"}]
    /\ aborted \in BOOLEAN

LEMMA DataTypesInit ==
    ASSUME NEW K, Init
    PROVE  DataTypes(K)
<1>1. << >> \in Seq(K) /\ Len(<< >>) = 0 /\ 0 <= MaxRequestSize
    BY SizeAssumption
<1> QED BY <1>1 DEF Init, DataTypes

\* What AppendData copies from data_: as many bytes as the read brought.
LEMMA BytesType ==
    ASSUME NEW K, Chunks \subseteq Seq(K), IInv, DataTypes(K), NEW s \in Session,
           NEW o \in Op, op[o] # Idle, NEW bytes \in FirstBytes(s, Len(op[o].chunk))
    PROVE  bytes \in Seq(K) /\ Len(bytes) = Len(op[o].chunk) /\ Len(bytes) \in Nat
<1> DEFINE n == Len(op[o].chunk)
<1>1. op[o].chunk \in Chunks \cup {<< >>}
    BY DEF IInv, TypesOfThreads, OpValue
<1>2. n \in Nat /\ data_[s] \in Seq(K) /\ Len(data_[s]) \in Nat
    BY <1>1 DEF DataTypes
<1> HIDE DEF n
<1>3. CASE n <= Len(data_[s]) /\ bytes = SubSeq(data_[s], 1, n)
    <2>1. \A k \in 1 .. n : data_[s][k] \in K
        BY <1>2, <1>3
    <2>2. /\ SubSeq(data_[s], 1, n) \in Seq(K)
          /\ Len(SubSeq(data_[s], 1, n)) = IF 1 <= n THEN n - 1 + 1 ELSE 0
        BY <1>2, <2>1, SubSeqProperties
    <2> QED BY <1>2, <1>3, <2>2 DEF n
<1>4. CASE bytes \in Chunks /\ Len(bytes) = n
    BY <1>2, <1>4 DEF n
<1> QED BY <1>3, <1>4 DEF FirstBytes, n

LEMMA AppendDataTypes ==
    ASSUME NEW K, Chunks \subseteq Seq(K), IInv, DataTypes(K), NEW w \in Worker, AppendData(w)
    PROVE  DataTypes(K)'
<1>1. Busy(w)
    BY DEF AppendData, InSession, At, Busy
<1>2. cur[w] \in Op /\ op[cur[w]] # Idle /\ Self(w) \in Session
    BY <1>1, OwnOperation
<1>3. PICK bytes \in FirstBytes(Self(w), Len(op[cur[w]].chunk)) :
         request_buffer_' = [request_buffer_ EXCEPT ![Self(w)] = @ \o bytes]
    BY DEF AppendData
<1>4. bytes \in Seq(K) /\ Len(bytes) = Len(op[cur[w]].chunk)
    BY <1>2, BytesType
<1> DEFINE buf == request_buffer_[Self(w)] \o bytes
<1>5. buf \in Seq(K) /\ Len(buf) <= MaxRequestSize
    <2>1. request_buffer_[Self(w)] \in Seq(K)
        BY <1>2 DEF DataTypes
    <2>2. buf \in Seq(K) /\ Len(buf) = Len(request_buffer_[Self(w)]) + Len(bytes)
        BY <1>4, <2>1, ConcatProperties
    <2> QED BY <1>4, <2>2 DEF AppendData
<1>6. request_buffer_' = [request_buffer_ EXCEPT ![Self(w)] = buf]
    BY <1>3
<1> HIDE DEF buf
<1> QED BY <1>2, <1>5, <1>6 DEF AppendData, DataTypes

LEMMA TrimTypes ==
    ASSUME NEW K, IInv, DataTypes(K), NEW w \in Worker, Self(w) \in Session,
           request_buffer_[Self(w)] # << >>, Trim(w),
           UNCHANGED <<life, already_deleted_, data_, peer, aborted>>
    PROVE  DataTypes(K)'
<1> DEFINE buf == request_buffer_[Self(w)]
<1>1. buf \in Seq(K) /\ Len(buf) \in Nat /\ Len(buf) <= MaxRequestSize /\ MaxRequestSize \in Nat
    BY SizeAssumption DEF DataTypes
<1>2. Tail(buf) \in Seq(K) /\ Len(Tail(buf)) = Len(buf) - 1
    BY <1>1, HeadTailProperties
<1>3. Len(Tail(buf)) <= MaxRequestSize
    BY <1>1, <1>2
<1>4. request_buffer_' = [request_buffer_ EXCEPT ![Self(w)] = Tail(buf)]
    BY DEF Trim
<1> HIDE DEF buf
<1> QED BY <1>2, <1>3, <1>4 DEF DataTypes

LEMMA ReceiveTypes ==
    ASSUME NEW K, Chunks \subseteq Seq(K), IInv, DataTypes(K), NEW o \in Op, Receive(o)
    PROVE  DataTypes(K)'
<1> DEFINE s == op[o].session
<1>1. s \in Session
    BY DEF Receive, Pending, IInv, TypesOfThreads, OpValue
<1>2. PICK c \in Chunks :
         data_' = [data_ EXCEPT ![s] = c \o SubSeq(@, Len(c) + 1, Len(@))]
    BY DEF Receive
<1> DEFINE rest == SubSeq(data_[s], Len(c) + 1, Len(data_[s]))
<1>3. c \o rest \in Seq(K)
    <2>1. c \in Seq(K) /\ Len(c) \in Nat /\ data_[s] \in Seq(K) /\ Len(data_[s]) \in Nat
        BY <1>1 DEF DataTypes
    <2>2. \A k \in Len(c) + 1 .. Len(data_[s]) : data_[s][k] \in K
        BY <2>1
    <2>3. rest \in Seq(K)
        BY <2>1, <2>2, SubSeqProperties
    <2> QED BY <2>1, <2>3, ConcatProperties
<1>4. data_' = [data_ EXCEPT ![s] = c \o rest]
    BY <1>2
<1> HIDE DEF s, rest
<1> QED BY <1>1, <1>3, <1>4 DEF Receive, DataTypes

LEMMA DataTypesNext ==
    ASSUME NEW K, Chunks \subseteq Seq(K), IInv, DataTypes(K), [Next]_vars
    PROVE  DataTypes(K)'
<1>0. << >> \in Seq(K) /\ Len(<< >>) = 0 /\ 0 <= MaxRequestSize
    BY SizeAssumption
<1>1. CASE UNCHANGED sessionVars /\ aborted' \in BOOLEAN
    BY <1>1 DEF sessionVars, DataTypes
<1>2. aborted \in BOOLEAN
    BY DEF DataTypes
<1>3. ASSUME NEW w \in Worker, HandlerStep(w)
      PROVE  DataTypes(K)'
    <2>1. cur[w] \in Op /\ Self(w) \in Session
        BY <1>3, HandlerStepIsBusy, OwnOperation
    <2>2. CASE AppendData(w)
        BY <2>2, AppendDataTypes
    <2>3. CASE BadRequest(w) \/ HandleRequest(w)
        BY <2>1, <2>3, TrimTypes DEF BadRequest, HandleRequest
    <2>4. CASE SetAlreadyDeleted(w)
        BY <2>1, <2>4 DEF SetAlreadyDeleted, DataTypes
    <2>5. CASE Delete(w)
        BY <1>0, <2>1, <2>5 DEF Delete, DataTypes
    <2>6. CASE \/ Start(w) \/ RequestTooLarge(w) \/ WaitForMore(w) \/ BadContentLength(w)
               \/ ContentTooLarge(w) \/ RespondAndReturn(w) \/ RespondAndContinue(w)
               \/ Rearm(w) \/ TestAlreadyDeleted(w) \/ Undefined(w)
        <3>1. UNCHANGED sessionVars /\ aborted' \in BOOLEAN
            BY <1>2, <2>6 DEF Start, RequestTooLarge, WaitForMore, BadContentLength,
               ContentTooLarge, RespondAndReturn, RespondAndContinue, Rearm,
               TestAlreadyDeleted, Undefined
        <3> QED BY <1>1, <3>1
    <2> QED BY <1>3, <2>2, <2>3, <2>4, <2>5, <2>6 DEF HandlerStep
<1>4. ASSUME NEW w \in Worker, AcceptFailed(w) \/ StartAccept(w)
      PROVE  DataTypes(K)'
    <2>1. Self(w) \in Session
        BY <1>4, AcceptStepIsBusy, OwnOperation
    <2>2. CASE AcceptFailed(w)
        BY <2>1, <2>2 DEF AcceptFailed, DataTypes
    <2>3. CASE StartAccept(w)
        BY <1>0, <2>3 DEF StartAccept, DataTypes
    <2> QED BY <1>4, <2>2, <2>3
<1>5. ASSUME NEW w \in Worker, NEW o \in Op, Dispatch(w, o)
      PROVE  DataTypes(K)'
    BY <1>1, <1>2, <1>5 DEF Dispatch
<1>6. ASSUME NEW o \in Op, AcceptError(o) \/ ReadError(o) \/ Sent(o) \/ WriteError(o)
      PROVE  DataTypes(K)'
    BY <1>1, <1>2, <1>6 DEF AcceptError, ReadError, Sent, WriteError
<1>7. ASSUME NEW o \in Op, Connect(o)
      PROVE  DataTypes(K)'
    <2>1. op[o].session \in Session
        BY <1>7 DEF Connect, Pending, IInv, TypesOfThreads, OpValue
    <2> QED BY <1>7, <2>1 DEF Connect, DataTypes
<1>8. ASSUME NEW s \in Session, PeerClose(s)
      PROVE  DataTypes(K)'
    BY <1>8 DEF PeerClose, DataTypes
<1>9. ASSUME NEW w \in Worker, NEW v \in Worker, Race(w, v)
      PROVE  DataTypes(K)'
    BY <1>1, <1>9 DEF Race
<1>10. CASE UNCHANGED vars
    BY <1>1, <1>2, <1>10 DEF vars
<1> QED BY <1>3, <1>4, <1>5, <1>6, <1>7, <1>8, <1>9, <1>10, ReceiveTypes DEF Next, ThreadStep

\* Every variable has its type, and request_buffer_ its limit, for any clients.
THEOREM TypeCorrect == Spec => []TypeOK
<1>1. Chunks \subseteq Seq(Kind)
    BY ChunkAssumption
<1>2. Init => DataTypes(Kind)
    BY DataTypesInit
<1>3. IInv /\ DataTypes(Kind) /\ [Next]_vars => DataTypes(Kind)'
    BY <1>1, DataTypesNext
<1>4. IInv /\ DataTypes(Kind) => TypeOK
    BY DEF IInv, TypesOfThreads, DataTypes, TypeOK, OpValue, Labels, AcceptLabels, HandlerLabels
<1> QED BY <1>2, <1>3, <1>4, InductiveInvariant, PTL DEF Spec

-------------------------------------------------------------------------------
(* Clients that keep no connection: the handlers of a session form one chain.  *)

\* The requests of clients that end their connections.
Closing == Kind \ {"keepalive"}

ChainInv == /\ IInv
            /\ DataTypes(Closing)
            /\ \A w \in Worker : pc[w] # "keepalive"
            /\ OneChain
            /\ StoredResponseAlive

\* A handler's operation serves its session, until handle_accept has started it.
LEMMA OwnServes ==
    ASSUME IInv, NEW w \in Worker, Busy(w), pc[w] # "accept"
    PROVE  cur[w] \in Serving
<1>1. cur[w] \in Op /\ op[cur[w]] # Idle
    BY OwnOperation
<1>2. ASSUME NEW v \in Worker, cur[v] = cur[w], pc[v] = "accept"
      PROVE  FALSE
    BY <1>2 DEF IInv, RunOnce, Busy
<1> QED BY <1>1, <1>2 DEF Serving, Active

\* An operation that no thread runs serves its session.
LEMMA PendingServes ==
    ASSUME IInv, NEW o \in Op, op[o] # Idle, op[o].state # "running"
    PROVE  o \in Serving
<1>1. ASSUME NEW w \in Worker, cur[w] = o, pc[w] = "accept"
      PROVE  FALSE
    BY <1>1 DEF IInv, HandlersMatch, Busy, IsRunning
<1> QED BY <1>1 DEF Serving, Active

\* While a handler runs, its session has no pending operation, and lives.
LEMMA OwnIsOnly ==
    ASSUME ChainInv, NEW w \in Worker, Busy(w), pc[w] # "accept"
    PROVE  /\ cur[w] \in Op /\ Self(w) \in Session /\ life[Self(w)] # "free"
           /\ \A o \in Serving : op[o].session = Self(w) => o = cur[w]
           /\ \A o \in Op : (Pending(o, "read") \/ Pending(o, "write"))
                            => op[o].session # Self(w)
<1>1. cur[w] \in Op /\ Self(w) \in Session /\ cur[w] \in Serving /\ IsRunning(op[cur[w]])
    BY OwnOperation, OwnServes DEF ChainInv, IInv, HandlersMatch
<1>2. /\ life[Self(w)] # "free"
      /\ \A o \in Serving : op[o].session = Self(w) => o = cur[w]
    BY <1>1 DEF ChainInv, OneChain, Self
<1>3. ASSUME NEW o \in Op, Pending(o, "read") \/ Pending(o, "write"), op[o].session = Self(w)
      PROVE  FALSE
    <2>1. o \in Serving /\ op[o].state = "pending"
        BY <1>3, PendingServes DEF ChainInv, Pending
    <2>2. o = cur[w]
        BY <1>2, <1>3, <2>1
    <2> QED BY <1>1, <2>1, <2>2 DEF IsRunning
<1> QED BY <1>1, <1>2, <1>3

\* What a returning handler may leave in its entry.
Left(w) == {Idle, Read(Self(w))}
           \cup {Operation("write", Self(w), b) : b \in Buffer \ {"overwritten"}}

\* The handler of w returns or throws, and leaves x.
Leaves(w, x) == /\ op' = [op EXCEPT ![cur[w]] = x]
                /\ cur' = [cur EXCEPT ![w] = NoOp]
                /\ \E l \in {"idle", "dead"} : pc' = [pc EXCEPT ![w] = l]

\* A response overwrites no other.
LEMMA WriteLastLeaves ==
    ASSUME ChainInv, NEW w \in Worker, Busy(w), pc[w] # "accept",
           NEW buffer \in Buffer \ {"overwritten"}, WriteLast(w, buffer)
    PROVE  \E x \in Left(w) \ {Idle} : Leaves(w, x)
<1>1. /\ cur[w] \in Op
      /\ \A o \in Op : (Pending(o, "read") \/ Pending(o, "write")) => op[o].session # Self(w)
    BY OwnIsOnly
<1>2. PICK b \in {"sent", buffer} :
         op' = [Reassigned(Self(w)) EXCEPT ![cur[w]] = Operation("write", Self(w), b)]
    BY DEF WriteLast, Write
<1>3. op \in [Op -> OpValue]
    BY DEF ChainInv, IInv, TypesOfThreads
<1>4. Reassigned(Self(w)) = op
    BY <1>1, <1>3 DEF Reassigned
<1>5. Operation("write", Self(w), b) \in Left(w) \ {Idle}
    BY <1>2 DEF Left, Buffer, Operation, Idle
<1> QED BY <1>2, <1>4, <1>5 DEF WriteLast, Return, Leaves

\* The handler throws, or finds that another is deleting the session.
Abandons(w) == \/ /\ pc[w] = "loop" /\ request_buffer_[Self(w)] # << >>
                  /\ Head_(w) \in {"badlength", "throws"}
               \/ pc[w] = "safe_delete" /\ already_deleted_[Self(w)]

\* Every step of a session's handler: it starts, goes on, leaves an operation of the
\* session, abandons it, or deletes it and leaves none.
LEMMA HandlerStepKinds ==
    ASSUME ChainInv, NEW w \in Worker, HandlerStep(w)
    PROVE  /\ Busy(w) /\ pc[w] # "accept"
           /\ \/ Start(w)
              \/ /\ \E l \in Labels \ {"idle", "dead", "accept", "keepalive"} : Goto(w, l)
                 /\ UNCHANGED <<op, life>>
              \/ (\E x \in Left(w) : Leaves(w, x) /\ (x = Idle => Abandons(w))) /\ UNCHANGED life
              \/ Leaves(w, Idle) /\ life' = [life EXCEPT ![Self(w)] = "free"]
<1> USE DEF InSession, At
<1>1. Busy(w)
    BY HandlerStepIsBusy DEF ChainInv
<1>2. pc[w] # "accept"
    BY DEF HandlerStep, Start, RequestTooLarge, AppendData, WaitForMore, BadContentLength,
       ContentTooLarge, BadRequest, HandleRequest, RespondAndReturn, RespondAndContinue, Rearm,
       TestAlreadyDeleted, SetAlreadyDeleted, Delete, Undefined, UseAfterFree, HandlerLabels
<1>3. /\ cur[w] \in Op /\ Self(w) \in Session /\ life[Self(w)] # "free"
      /\ \A o \in Op : (Pending(o, "read") \/ Pending(o, "write")) => op[o].session # Self(w)
    BY <1>1, <1>2, OwnIsOnly
<1>4. Idle \in Left(w) /\ Read(Self(w)) \in Left(w) \ {Idle}
    BY DEF Left, Read, Operation, Idle
<1>5. CASE RequestTooLarge(w) \/ ContentTooLarge(w) \/ BadRequest(w) \/ RespondAndReturn(w)
    <2>1. (WriteLast(w, "dangling") \/ WriteLast(w, "stored")) /\ UNCHANGED life
        BY <1>5 DEF RequestTooLarge, ContentTooLarge, BadRequest, RespondAndReturn, sessionVars
    <2> QED BY <1>1, <1>2, <2>1, WriteLastLeaves DEF Buffer
<1>6. CASE WaitForMore(w) \/ Rearm(w)
    <2>1. Leaves(w, Read(Self(w))) /\ UNCHANGED life
        BY <1>6 DEF WaitForMore, Rearm, ReadAgain, Return, Leaves, sessionVars
    <2> QED BY <1>1, <1>2, <1>4, <2>1
<1>7. CASE BadContentLength(w) \/ (HandleRequest(w) /\ Throw(w))
    <2>1. Leaves(w, Idle) /\ UNCHANGED life
        BY <1>7 DEF BadContentLength, HandleRequest, Throw, Leaves, sessionVars
    <2>2. Throw(w) => pc'[w] = "dead"
        BY DEF Throw, ChainInv, IInv, TypesOfThreads
    <2>3. \A l : Goto(w, l) => pc'[w] = l
        BY DEF Goto, ChainInv, IInv, TypesOfThreads
    <2>4. Abandons(w)
        BY <1>7, <2>2, <2>3 DEF BadContentLength, HandleRequest, Abandons
    <2> QED BY <1>1, <1>2, <1>4, <2>1, <2>4
<1>8. CASE TestAlreadyDeleted(w) /\ already_deleted_[Self(w)]
    <2>1. Leaves(w, Idle) /\ UNCHANGED life
        BY <1>8 DEF TestAlreadyDeleted, Return, Leaves, sessionVars
    <2>2. Abandons(w)
        BY <1>8 DEF TestAlreadyDeleted, Abandons
    <2> QED BY <1>1, <1>2, <1>4, <2>1, <2>2
<1>9. CASE \/ AppendData(w) \/ (HandleRequest(w) /\ ~Throw(w)) \/ SetAlreadyDeleted(w)
           \/ (TestAlreadyDeleted(w) /\ ~already_deleted_[Self(w)])
    <2>1. HandleRequest(w) => Head_(w) # "keepalive"
        <3>1. SUFFICES ASSUME HandleRequest(w) PROVE Head_(w) # "keepalive"
            OBVIOUS
        <3>2. request_buffer_[Self(w)] \in Seq(Closing) /\ request_buffer_[Self(w)] # << >>
            BY <1>3, <3>1 DEF HandleRequest, ChainInv, DataTypes
        <3>3. Head(request_buffer_[Self(w)]) \in Closing
            BY <3>2, HeadTailProperties
        <3> QED BY <3>3 DEF Head_, Closing
    <2>2. /\ \E l \in {"loop", "close", "set_deleted", "delete"} : Goto(w, l)
          /\ UNCHANGED <<op, life>>
        BY <1>9, <2>1 DEF AppendData, HandleRequest, SetAlreadyDeleted, TestAlreadyDeleted,
           sessionVars
    <2> QED BY <1>1, <1>2, <2>2 DEF Labels, HandlerLabels
<1>10. CASE Delete(w)
    <2>1. op \in [Op -> OpValue]
        BY DEF ChainInv, IInv, TypesOfThreads
    <2>2. Aborted(Self(w)) = op
        BY <1>3, <2>1 DEF Aborted
    <2>3. Leaves(w, Idle) /\ life' = [life EXCEPT ![Self(w)] = "free"]
        BY <1>10, <2>2 DEF Delete, Return, Leaves
    <2> QED BY <1>1, <1>2, <2>3
<1>11. ~Undefined(w)
    BY <1>3 DEF Undefined, UseAfterFree
<1>12. ~RespondAndContinue(w)
    BY DEF RespondAndContinue, ChainInv
<1> QED BY <1>1, <1>2, <1>5, <1>6, <1>7, <1>8, <1>9, <1>10, <1>11, <1>12 DEF HandlerStep

\* A step of a thread that was not about to accept makes no other operation serve.
LEMMA ServingShrinks ==
    ASSUME IInv, NEW w \in Worker, pc[w] # "accept", NEW l, NEW x,
           pc' = [pc EXCEPT ![w] = l], cur' = [cur EXCEPT ![w] = x],
           NEW o \in Serving', op[o] # Idle
    PROVE  o \in Serving
<1>1. o \in Op /\ \A v \in Worker : ~(cur'[v] = o /\ pc'[v] = "accept")
    BY DEF Serving, Active
<1>2. ASSUME NEW v \in Worker, cur[v] = o, pc[v] = "accept"
      PROVE  FALSE
    BY <1>1, <1>2 DEF IInv, TypesOfThreads
<1> QED BY <1>1, <1>2 DEF Serving, Active

\* The chains stay when no operation changes its session and none is new.
LEMMA ChainKept ==
    ASSUME ChainInv, \A s \in Session : life[s] # "free" => life'[s] # "free",
           \A o \in Serving' : /\ o \in Serving /\ op'[o].session = op[o].session
                              /\ op[o].session \in Session
    PROVE  OneChain'
BY DEF ChainInv, OneChain

LEMMA SessionOf ==
    ASSUME IInv, NEW o \in Serving
    PROVE  op[o].session \in Session
BY DEF IInv, TypesOfThreads, OpValue, Serving, Active, Idle

\* The value a handler leaves is an operation of its session.
LEMMA LeftIsOwn ==
    ASSUME NEW w \in Worker, NEW x \in Left(w)
    PROVE  x = Idle \/ /\ x.session = Self(w) /\ x.state = "pending"
                       /\ x.kind \in {"read", "write"} /\ x.buffer # "overwritten"
BY DEF Left, Read, Operation, Buffer

LEMMA LeavesKeepsChain ==
    ASSUME ChainInv, NEW w \in Worker, Busy(w), pc[w] # "accept", NEW x \in Left(w), Leaves(w, x)
    PROVE  /\ \A o \in Serving' : o \in Serving /\ op'[o].session = op[o].session
           /\ x = Idle => cur[w] \notin Serving'
           /\ StoredResponseAlive'
           /\ \A v \in Worker : pc'[v] # "keepalive"
<1>1. cur[w] \in Op /\ op[cur[w]] # Idle /\ op \in [Op -> OpValue] /\ pc \in [Worker -> Labels]
    BY OwnOperation DEF ChainInv, IInv, TypesOfThreads
<1>2. \A o \in Op : op'[o] = IF o = cur[w] THEN x ELSE op[o]
    BY <1>1 DEF Leaves
<1>3. ASSUME NEW o \in Serving'
      PROVE  o \in Serving /\ op'[o].session = op[o].session
    <2>1. o \in Op /\ op'[o] # Idle
        BY <1>3 DEF Serving, Active
    <2>2. op[o] # Idle
        BY <1>1, <1>2, <2>1
    <2>3. o \in Serving
        BY <1>3, <2>2, ServingShrinks DEF ChainInv, Leaves
    <2> QED BY <1>2, <2>1, <2>3, LeftIsOwn DEF Self
<1>4. x = Idle => cur[w] \notin Serving'
    BY <1>1, <1>2 DEF Serving, Active
<1>5. StoredResponseAlive'
    <2>1. SUFFICES ASSUME NEW o \in Op, op'[o] # Idle, op'[o].state = "pending", op'[o].kind = "write"
                   PROVE  op'[o].buffer # "overwritten"
        BY DEF StoredResponseAlive, Pending
    <2>2. CASE o = cur[w]
        BY <1>2, <2>1, <2>2, LeftIsOwn
    <2>3. CASE o # cur[w]
        BY <1>2, <2>1, <2>3 DEF ChainInv, StoredResponseAlive, Pending
    <2> QED BY <2>2, <2>3
<1>6. \A v \in Worker : pc'[v] # "keepalive"
    BY <1>1 DEF Leaves, ChainInv
<1> QED BY <1>3, <1>4, <1>5, <1>6

LEMMA StartKeepsChain ==
    ASSUME ChainInv, NEW w \in Worker, Start(w)
    PROVE  /\ OneChain' /\ StoredResponseAlive'
           /\ \A v \in Worker : pc'[v] # "keepalive"
<1>1. pc[w] = "start" /\ Busy(w) /\ UNCHANGED life
    BY DEF Start, InSession, At, Busy, sessionVars
<1>2. /\ cur[w] \in Op /\ Self(w) \in Session /\ life[Self(w)] # "free"
      /\ \A o \in Serving : op[o].session = Self(w) => o = cur[w]
      /\ op[cur[w]] # Idle
    BY <1>1, OwnIsOnly, OwnOperation DEF ChainInv
<1>3. PICK n \in Unused : op' = [op EXCEPT ![n] = Read(Self(w))]
    BY DEF Start
<1>4. pc' = [pc EXCEPT ![w] = "accept"] /\ cur' = cur
    BY DEF Start, Goto
<1>5. /\ n \in Op /\ op[n] = Idle /\ n # cur[w] /\ op \in [Op -> OpValue]
      /\ pc \in [Worker -> Labels] /\ cur \in [Worker -> Op \cup {NoOp}]
    BY <1>2, <1>3 DEF Unused, ChainInv, IInv, TypesOfThreads
<1>6. \A o \in Op : op'[o] = IF o = n THEN Read(Self(w)) ELSE op[o]
    BY <1>3, <1>5
<1>7. Read(Self(w)).session = Self(w) /\ Read(Self(w)).kind = "read"
    BY DEF Read, Operation
<1>8. ASSUME NEW o \in Serving', o # n
      PROVE  /\ o \in Serving /\ o # cur[w] /\ op'[o].session = op[o].session
             /\ op[o].session \in Session
    <2>1. o \in Op /\ op[o] # Idle /\ op'[o] = op[o]
        BY <1>6, <1>8 DEF Serving, Active
    <2>2. cur' = [cur EXCEPT ![w] = cur[w]]
        BY <1>4, <1>5
    <2>3. o \in Serving
        BY <1>1, <1>4, <1>8, <2>1, <2>2, ServingShrinks DEF ChainInv
    <2>4. pc'[w] = "accept" /\ cur'[w] = cur[w]
        BY <1>4, <1>5
    <2>5. o # cur[w]
        BY <1>8, <2>4 DEF Serving
    <2> QED BY <2>1, <2>3, <2>5, SessionOf DEF ChainInv
<1>9. OneChain'
    <2>1. ASSUME NEW o \in Serving' PROVE life'[op'[o].session] # "free"
        <3>1. CASE o = n
            BY <1>1, <1>2, <1>5, <1>6, <1>7, <3>1
        <3>2. CASE o # n
            BY <1>1, <1>8, <3>2 DEF ChainInv, OneChain
        <3> QED BY <3>1, <3>2
    <2>2. ASSUME NEW o \in Serving', NEW q \in Serving', op'[o].session = op'[q].session
          PROVE  o = q
        <3>1. op'[n].session = Self(w)
            BY <1>5, <1>6, <1>7
        <3>2. CASE o # n /\ q # n
            BY <1>8, <2>2, <3>2 DEF ChainInv, OneChain
        <3>3. CASE o = n /\ q # n
            BY <1>2, <1>8, <2>2, <3>1, <3>3
        <3>4. CASE o # n /\ q = n
            BY <1>2, <1>8, <2>2, <3>1, <3>4
        <3> QED BY <3>2, <3>3, <3>4
    <2> QED BY <2>1, <2>2 DEF OneChain
<1>10. StoredResponseAlive'
    <2>1. SUFFICES ASSUME NEW o \in Op, op'[o] # Idle, op'[o].state = "pending", op'[o].kind = "write"
                   PROVE  op'[o].buffer # "overwritten"
        BY DEF StoredResponseAlive, Pending
    <2>2. op'[o] = op[o]
        BY <1>6, <1>7, <2>1
    <2> QED BY <2>1, <2>2 DEF ChainInv, StoredResponseAlive, Pending
<1>11. \A v \in Worker : pc'[v] # "keepalive"
    BY <1>4, <1>5 DEF ChainInv
<1> QED BY <1>9, <1>10, <1>11

LEMMA HandlerKeepsChain ==
    ASSUME ChainInv, NEW w \in Worker, HandlerStep(w)
    PROVE  /\ OneChain' /\ StoredResponseAlive'
           /\ \A v \in Worker : pc'[v] # "keepalive"
<1>1. Busy(w) /\ pc[w] # "accept"
    BY HandlerStepKinds
<1>2. CASE /\ \E l \in Labels \ {"idle", "dead", "accept", "keepalive"} : Goto(w, l)
           /\ UNCHANGED <<op, life>>
    <2>1. PICK l \in Labels \ {"idle", "dead", "accept", "keepalive"} : Goto(w, l)
        BY <1>2
    <2>2. pc' = [pc EXCEPT ![w] = l] /\ cur' = cur /\ op' = op /\ life' = life
        BY <1>2, <2>1 DEF Goto
    <2>3. pc \in [Worker -> Labels] /\ cur \in [Worker -> Op \cup {NoOp}]
        BY DEF ChainInv, IInv, TypesOfThreads
    <2>4. cur' = [cur EXCEPT ![w] = cur[w]]
        BY <2>2, <2>3
    <2>5. \A o \in Serving' : o \in Serving
        <3>1. \A o \in Serving' : op[o] # Idle
            BY <2>2 DEF Serving, Active
        <3> QED BY <1>1, <2>2, <2>4, <3>1, ServingShrinks DEF ChainInv
    <2>6. OneChain'
        BY <2>2, <2>5, SessionOf, ChainKept DEF ChainInv
    <2>7. StoredResponseAlive' /\ \A v \in Worker : pc'[v] # "keepalive"
        BY <2>2, <2>3 DEF ChainInv, StoredResponseAlive, Pending
    <2> QED BY <2>6, <2>7
<1>3. CASE (\E x \in Left(w) : Leaves(w, x)) /\ UNCHANGED life
    <2>1. PICK x \in Left(w) : Leaves(w, x)
        BY <1>3
    <2>2. /\ \A o \in Serving' : o \in Serving /\ op'[o].session = op[o].session
          /\ StoredResponseAlive' /\ \A v \in Worker : pc'[v] # "keepalive"
        BY <1>1, <2>1, LeavesKeepsChain
    <2>3. OneChain'
        BY <1>3, <2>2, SessionOf, ChainKept DEF ChainInv
    <2> QED BY <2>2, <2>3
<1>4. CASE Leaves(w, Idle) /\ life' = [life EXCEPT ![Self(w)] = "free"]
    <2>1. Idle \in Left(w)
        BY DEF Left
    <2>2. /\ \A o \in Serving' : o \in Serving /\ op'[o].session = op[o].session
          /\ cur[w] \notin Serving'
          /\ StoredResponseAlive' /\ \A v \in Worker : pc'[v] # "keepalive"
        BY <1>1, <1>4, <2>1, LeavesKeepsChain
    <2>3. \A o \in Serving : op[o].session = Self(w) => o = cur[w]
        BY <1>1, OwnIsOnly
    <2>4. \A o \in Serving' : life'[op'[o].session] # "free"
        <3>1. SUFFICES ASSUME NEW o \in Serving'
                       PROVE  life'[op'[o].session] # "free"
            OBVIOUS
        <3>2. o \in Serving /\ op'[o].session = op[o].session /\ op[o].session # Self(w)
            BY <2>2, <2>3, <3>1
        <3>3. life[op[o].session] # "free" /\ op[o].session \in Session
            BY <3>2, SessionOf DEF ChainInv, OneChain
        <3> QED BY <1>4, <3>2, <3>3 DEF ChainInv, DataTypes
    <2>5. OneChain'
        BY <2>2, <2>4 DEF ChainInv, OneChain
    <2> QED BY <2>2, <2>5
<1> QED BY <1>2, <1>3, <1>4, StartKeepsChain, HandlerStepKinds

\* An accept that failed takes its session with it.
LEMMA AcceptFailedKeepsChain ==
    ASSUME ChainInv, NEW w \in Worker, AcceptFailed(w)
    PROVE  /\ OneChain' /\ StoredResponseAlive'
           /\ \A v \in Worker : pc'[v] # "keepalive"
<1>1. /\ pc[w] = "accept_failed" /\ Busy(w) /\ op' = op /\ cur' = cur
      /\ life' = [life EXCEPT ![Self(w)] = "free"] /\ pc' = [pc EXCEPT ![w] = "accept"]
    BY DEF AcceptFailed, At, Busy, Goto
<1>2. pc \in [Worker -> Labels] /\ cur \in [Worker -> Op \cup {NoOp}]
    BY DEF ChainInv, IInv, TypesOfThreads
<1>3. \A o \in Serving : op[o].session = Self(w) => o = cur[w]
    BY <1>1, OwnIsOnly
<1>4. ASSUME NEW o \in Serving'
      PROVE  o \in Serving /\ op[o].session # Self(w) /\ op[o].session \in Session
    <2>1. cur' = [cur EXCEPT ![w] = cur[w]] /\ op[o] # Idle
        BY <1>1, <1>2, <1>4 DEF Serving, Active
    <2>2. o \in Serving
        BY <1>1, <1>4, <2>1, ServingShrinks DEF ChainInv
    <2>3. o # cur[w]
        BY <1>1, <1>2, <1>4 DEF Serving
    <2> QED BY <1>3, <2>2, <2>3, SessionOf DEF ChainInv
<1>5. \A o \in Serving' : life'[op'[o].session] # "free"
    BY <1>1, <1>4 DEF ChainInv, OneChain, DataTypes
<1>6. OneChain'
    BY <1>1, <1>4, <1>5 DEF ChainInv, OneChain
<1>7. StoredResponseAlive' /\ \A v \in Worker : pc'[v] # "keepalive"
    BY <1>1, <1>2 DEF ChainInv, StoredResponseAlive, Pending
<1> QED BY <1>6, <1>7

\* A new session gets an address no operation uses.
LEMMA StartAcceptKeepsChain ==
    ASSUME ChainInv, NEW w \in Worker, StartAccept(w)
    PROVE  /\ OneChain' /\ StoredResponseAlive'
           /\ \A v \in Worker : pc'[v] # "keepalive"
<1>1. PICK s \in Session :
         /\ life[s] = "free" /\ life' = [life EXCEPT ![s] = "accepting"]
         /\ op' = [op EXCEPT ![cur[w]] = Accept(s)]
    BY DEF StartAccept
<1>2. /\ pc[w] = "accept" /\ Busy(w)
      /\ pc' = [pc EXCEPT ![w] = "idle"] /\ cur' = [cur EXCEPT ![w] = NoOp]
    BY DEF StartAccept, At, Busy, Return
<1>3. /\ pc \in [Worker -> Labels] /\ op \in [Op -> OpValue]
      /\ cur \in [Worker -> Op \cup {NoOp}]
      /\ cur[w] \in Op /\ life \in [Session -> {"free", "accepting", "live"}]
    BY <1>2, OwnOperation DEF ChainInv, IInv, TypesOfThreads, DataTypes
<1>4. \A o \in Op : op'[o] = IF o = cur[w] THEN Accept(s) ELSE op[o]
    BY <1>1, <1>3
<1>5. Accept(s).session = s /\ Accept(s).kind = "accept"
    BY DEF Accept, Operation
<1>6. ASSUME NEW o \in Serving', o # cur[w]
      PROVE  /\ o \in Serving /\ op'[o] = op[o]
             /\ op[o].session \in Session /\ op[o].session # s
    <2>1. o \in Op /\ op[o] # Idle /\ op'[o] = op[o]
        BY <1>4, <1>6 DEF Serving, Active
    <2>2. ASSUME NEW v \in Worker, cur[v] = o, pc[v] = "accept"
          PROVE  FALSE
        <3>1. v # w
            BY <1>6, <2>2
        <3>2. cur'[v] = o /\ pc'[v] = "accept"
            BY <1>2, <1>3, <2>2, <3>1
        <3> QED BY <1>6, <3>2 DEF Serving
    <2>3. o \in Serving
        BY <2>1, <2>2 DEF Serving, Active
    <2>4. life[op[o].session] # "free" /\ op[o].session \in Session
        BY <2>3, SessionOf DEF ChainInv, OneChain
    <2> QED BY <1>1, <2>1, <2>3, <2>4
<1>7. \A o \in Serving' : life'[op'[o].session] # "free"
    <2>1. SUFFICES ASSUME NEW o \in Serving'
                   PROVE  life'[op'[o].session] # "free"
        OBVIOUS
    <2>2. CASE o = cur[w]
        BY <1>1, <1>3, <1>4, <1>5, <2>2
    <2>3. CASE o # cur[w]
        BY <1>1, <1>3, <1>6, <2>3 DEF ChainInv, OneChain
    <2> QED BY <2>2, <2>3
<1>8. ASSUME NEW o \in Serving', NEW q \in Serving', op'[o].session = op'[q].session
      PROVE  o = q
    <2>1. op'[cur[w]].session = s
        BY <1>3, <1>4, <1>5
    <2>2. CASE o # cur[w] /\ q # cur[w]
        BY <1>6, <1>8, <2>2 DEF ChainInv, OneChain
    <2>3. CASE o = cur[w] /\ q # cur[w]
        BY <1>6, <1>8, <2>1, <2>3
    <2>4. CASE o # cur[w] /\ q = cur[w]
        BY <1>6, <1>8, <2>1, <2>4
    <2> QED BY <2>2, <2>3, <2>4
<1>9. OneChain'
    BY <1>7, <1>8 DEF OneChain
<1>10. StoredResponseAlive'
    <2>1. SUFFICES ASSUME NEW o \in Op, op'[o] # Idle, op'[o].state = "pending", op'[o].kind = "write"
                   PROVE  op'[o].buffer # "overwritten"
        BY DEF StoredResponseAlive, Pending
    <2>2. op'[o] = op[o]
        BY <1>4, <1>5, <2>1
    <2> QED BY <2>1, <2>2 DEF ChainInv, StoredResponseAlive, Pending
<1>11. \A v \in Worker : pc'[v] # "keepalive"
    BY <1>2, <1>3 DEF ChainInv
<1> QED BY <1>9, <1>10, <1>11

\* An operation that completes or is dispatched stays one of its session.
LEMMA EventKeepsChain ==
    ASSUME ChainInv, NEW o \in Op, op[o] # Idle, NEW x, op' = [op EXCEPT ![o] = x],
           x.session = op[o].session, x.state # "pending",
           \A s \in Session : life[s] # "free" => life'[s] # "free",
           \A q \in Serving' : op[q] # Idle => q \in Serving
    PROVE  OneChain' /\ StoredResponseAlive'
<1>1. op \in [Op -> OpValue]
    BY DEF ChainInv, IInv, TypesOfThreads
<1>2. \A q \in Op : op'[q] = IF q = o THEN x ELSE op[q]
    BY <1>1
<1>3. ASSUME NEW q \in Serving'
      PROVE  q \in Serving /\ op'[q].session = op[q].session /\ op[q].session \in Session
    <2>1. q \in Op /\ op[q] # Idle
        BY <1>2, <1>3 DEF Serving, Active
    <2>2. q \in Serving
        BY <1>3, <2>1
    <2> QED BY <1>2, <2>1, <2>2, SessionOf DEF ChainInv
<1>4. OneChain'
    BY <1>3, ChainKept
<1>5. StoredResponseAlive'
    <2>1. SUFFICES ASSUME NEW q \in Op, op'[q] # Idle, op'[q].state = "pending", op'[q].kind = "write"
                   PROVE  op'[q].buffer # "overwritten"
        BY DEF StoredResponseAlive, Pending
    <2>2. op'[q] = op[q]
        BY <1>2, <2>1
    <2> QED BY <2>1, <2>2 DEF ChainInv, StoredResponseAlive, Pending
<1> QED BY <1>4, <1>5

LEMMA CompleteKeepsChain ==
    ASSUME ChainInv, NEW o \in Op, op[o] # Idle, NEW ok, NEW chunk, Complete(o, ok, chunk),
           \A s \in Session : life[s] # "free" => life'[s] # "free", UNCHANGED threadVars
    PROVE  /\ OneChain' /\ StoredResponseAlive'
           /\ \A v \in Worker : pc'[v] # "keepalive"
<1> DEFINE x == [op[o] EXCEPT !.state = "ready", !.ok = ok, !.chunk = chunk]
<1>1. op[o] \in OpValue
    BY DEF ChainInv, IInv, TypesOfThreads
<1>2. x.session = op[o].session /\ x.state = "ready"
    BY <1>1 DEF OpValue, Idle
<1>3. op' = [op EXCEPT ![o] = x]
    BY DEF Complete
<1>4. \A q \in Serving' : op[q] # Idle => q \in Serving
    BY DEF Serving, Active, threadVars
<1> HIDE DEF x
<1> QED BY <1>2, <1>3, <1>4, EventKeepsChain DEF ChainInv, threadVars

LEMMA DispatchKeepsChain ==
    ASSUME ChainInv, NEW w \in Worker, NEW o \in Op, Dispatch(w, o)
    PROVE  /\ OneChain' /\ StoredResponseAlive'
           /\ \A v \in Worker : pc'[v] # "keepalive"
<1> DEFINE x == [op[o] EXCEPT !.state = "running"]
<1>1. op[o] \in OpValue /\ op[o] # Idle /\ pc[w] = "idle" /\ UNCHANGED life
    BY DEF ChainInv, IInv, TypesOfThreads, Dispatch, At, sessionVars
<1>2. x.session = op[o].session /\ x.state = "running"
    BY <1>1 DEF OpValue, Idle
<1>3. op' = [op EXCEPT ![o] = x] /\ cur' = [cur EXCEPT ![w] = o]
    BY DEF Dispatch
<1> HIDE DEF x
<1>4. PICK l : pc' = [pc EXCEPT ![w] = l] /\ l # "keepalive"
    <2> DEFINE l == CASE op[o].kind = "accept" /\ op[o].ok  -> "start"
                      [] op[o].kind = "accept" /\ ~op[o].ok -> "accept_failed"
                      [] op[o].kind = "read" /\ op[o].ok    -> "append"
                      [] op[o].kind = "write" /\ op[o].ok   -> "rearm"
                      [] OTHER                              -> "safe_delete"
    <2>1. pc' = [pc EXCEPT ![w] = l]
        BY DEF Dispatch
    <2>2. op[o].ok \in BOOLEAN
        BY <1>1 DEF OpValue, Idle
    <2>3. l # "keepalive"
        BY <2>2
    <2> HIDE DEF l
    <2> QED BY <2>1, <2>3
<1>5. \A q \in Serving' : op[q] # Idle => q \in Serving
    BY <1>1, <1>3, <1>4, ServingShrinks DEF ChainInv
<1>6. \A v \in Worker : pc'[v] # "keepalive"
    BY <1>4 DEF ChainInv, IInv, TypesOfThreads
<1> QED BY <1>1, <1>2, <1>3, <1>5, <1>6, EventKeepsChain

\* The accept the constructor starts is all there is.
LEMMA ChainInit ==
    ASSUME Init
    PROVE  ChainInv
<1>1. IInv /\ DataTypes(Closing)
    BY InitInv, DataTypesInit
<1>2. \A w \in Worker : pc[w] # "keepalive"
    BY DEF Init
<1>3. Accept(FirstSession).session = FirstSession /\ Accept(FirstSession).kind = "accept"
    BY DEF Accept, Operation
<1>4. \A o \in Serving : o = FirstOp /\ op[o].session = FirstSession
    BY <1>3 DEF Init, Serving, Active
<1>5. OneChain
    BY <1>4, FirstAssumption DEF OneChain, Init
<1>6. StoredResponseAlive
    BY <1>3 DEF StoredResponseAlive, Pending, Init
<1> QED BY <1>1, <1>2, <1>5, <1>6 DEF ChainInv

LEMMA ChainNext ==
    ASSUME Chunks \subseteq Seq(Closing), ChainInv, [Next]_vars
    PROVE  ChainInv'
<1>1. IInv' /\ DataTypes(Closing)'
    BY NextInv, DataTypesNext DEF ChainInv
<1> DEFINE Rest == /\ OneChain' /\ StoredResponseAlive'
                   /\ \A v \in Worker : pc'[v] # "keepalive"
<1>2. ASSUME NEW w \in Worker, ThreadStep(w)
      PROVE  Rest
    BY <1>2, HandlerKeepsChain, AcceptFailedKeepsChain, StartAcceptKeepsChain DEF ThreadStep
<1>3. ASSUME NEW w \in Worker, NEW o \in Op, Dispatch(w, o)
      PROVE  Rest
    BY <1>3, DispatchKeepsChain
<1>4. ASSUME NEW o \in Op, \/ Connect(o) \/ AcceptError(o) \/ Receive(o)
                           \/ ReadError(o) \/ Sent(o) \/ WriteError(o)
      PROVE  Rest
    <2>1. op[o] # Idle /\ UNCHANGED threadVars
        BY <1>4 DEF Connect, AcceptError, Receive, ReadError, Sent, WriteError, Pending
    <2>2. PICK ok, chunk : Complete(o, ok, chunk)
        BY <1>4 DEF Connect, AcceptError, Receive, ReadError, Sent, WriteError
    <2>3. \A s \in Session : life[s] # "free" => life'[s] # "free"
        BY <1>4 DEF Connect, AcceptError, Receive, ReadError, Sent, WriteError, sessionVars,
           ChainInv, DataTypes
    <2> QED BY <2>1, <2>2, <2>3, CompleteKeepsChain
<1>5. ASSUME UNCHANGED <<op, life, threadVars>>
      PROVE  Rest
    BY <1>5 DEF ChainInv, OneChain, StoredResponseAlive, Serving, Active, Pending, threadVars
<1>6. ASSUME NEW s \in Session, PeerClose(s)
      PROVE  Rest
    BY <1>5, <1>6 DEF PeerClose
<1>7. ASSUME NEW w \in Worker, NEW v \in Worker, Race(w, v)
      PROVE  Rest
    BY <1>5, <1>7 DEF Race, sessionVars, threadVars
<1>8. ASSUME UNCHANGED vars
      PROVE  Rest
    BY <1>5, <1>8 DEF vars, sessionVars
<1> QED BY <1>1, <1>2, <1>3, <1>4, <1>6, <1>7, <1>8 DEF Next, ChainInv

LEMMA ChainAlways ==
    ASSUME Chunks \subseteq Seq(Closing)
    PROVE  Spec => []ChainInv
<1>1. Init => ChainInv
    BY ChainInit
<1>2. ChainInv /\ [Next]_vars => ChainInv'
    BY ChainNext
<1> QED BY <1>1, <1>2, PTL DEF Spec

\* When no client keeps its connection, no session is ever served by two handlers
\* or operations at a time, for any threads, sessions and lengths of requests:
\* data_, request_buffer_ and "delete this" need no strand.
THEOREM OneHandlerAtATime ==
    ASSUME Chunks \subseteq Seq(Closing)
    PROVE  Spec => []OneChain
<1>1. ChainInv => OneChain
    BY DEF ChainInv
<1> QED BY <1>1, ChainAlways, PTL

\* For the same clients, no handler touches a session after "delete this".
THEOREM DeletedOnce ==
    ASSUME Chunks \subseteq Seq(Closing)
    PROVE  Spec => []NoUseAfterFree
<1>1. ChainInv => NoUseAfterFree
    <2>1. SUFFICES ASSUME ChainInv, NEW w \in Worker, pc[w] \in HandlerLabels
                   PROVE  life[Self(w)] # "free"
        BY DEF NoUseAfterFree, UseAfterFree, At
    <2> QED BY <2>1, OwnIsOnly DEF Busy, HandlerLabels
<1> QED BY <1>1, ChainAlways, PTL

\* For the same clients, current_response_ is not assigned while a write that has
\* not been sent points at it.
THEOREM ResponsesStayAlive ==
    ASSUME Chunks \subseteq Seq(Closing)
    PROVE  Spec => []StoredResponseAlive
<1>1. ChainInv => StoredResponseAlive
    BY DEF ChainInv
<1> QED BY <1>1, ChainAlways, PTL

-------------------------------------------------------------------------------
(* Clients whose requests also let every handler return: no session is lost.   *)

Orderly == Kind \ {"keepalive", "badlength", "throws"}

\* Only the handler about to delete a session has set its flag.
FlagIsSet ==
    \A s \in Session : already_deleted_[s] =>
        \E w \in Worker : pc[w] = "delete" /\ Self(w) = s

Served == \A s \in Session : life[s] # "free" => \E o \in Serving : op[o].session = s

OrderlyInv == ChainInv /\ DataTypes(Orderly) /\ FlagIsSet /\ Served

\* No handler throws or finds the flag set.
LEMMA NoneAbandons ==
    ASSUME OrderlyInv, NEW w \in Worker, HandlerStep(w)
    PROVE  ~Abandons(w)
<1>1. Busy(w) /\ pc[w] # "accept" /\ cur[w] \in Op /\ Self(w) \in Session
    BY HandlerStepKinds, OwnIsOnly DEF OrderlyInv
<1>2. request_buffer_[Self(w)] # << >> => Head_(w) \in Orderly
    <2>1. request_buffer_[Self(w)] \in Seq(Orderly)
        BY <1>1 DEF OrderlyInv, DataTypes
    <2> QED BY <2>1, HeadTailProperties DEF Head_
<1>3. ASSUME pc[w] = "safe_delete", already_deleted_[Self(w)]
      PROVE  FALSE
    <2>1. PICK v \in Worker : pc[v] = "delete" /\ Self(v) = Self(w)
        BY <1>1, <1>3 DEF OrderlyInv, FlagIsSet
    <2>2. Busy(v)
        BY <2>1 DEF Busy
    <2>3. cur[v] \in Serving
        BY <2>1, <2>2, OwnServes DEF OrderlyInv, ChainInv
    <2>4. cur[v] = cur[w]
        BY <1>1, <2>1, <2>3, OwnIsOnly DEF OrderlyInv, Self
    <2> QED BY <1>1, <1>3, <2>1, <2>2, <2>4 DEF OrderlyInv, ChainInv, IInv, RunOnce
<1> QED BY <1>2, <1>3 DEF Abandons, Orderly

\* An operation goes on serving its session, unless its handler has started it.
LEMMA StillServes ==
    ASSUME IInv, NEW w \in Worker, NEW l, NEW c,
           pc' = [pc EXCEPT ![w] = l], cur' = [cur EXCEPT ![w] = c],
           NEW o \in Serving, op'[o] # Idle, l = "accept" => c # o
    PROVE  o \in Serving'
<1>1. o \in Op /\ \A v \in Worker : ~(cur[v] = o /\ pc[v] = "accept")
    BY DEF Serving, Active
<1>2. ASSUME NEW v \in Worker, cur'[v] = o, pc'[v] = "accept"
      PROVE  FALSE
    BY <1>1, <1>2 DEF IInv, TypesOfThreads
<1> QED BY <1>1, <1>2 DEF Serving, Active

\* The sessions that live had an operation, so each that goes on has one.
LEMMA ServedKept ==
    ASSUME OrderlyInv,
           \A s \in Session : life'[s] # "free" => life[s] # "free",
           \A o \in Serving : life'[op[o].session] # "free" =>
               \E q \in Serving' : op'[q].session = op[o].session
    PROVE  Served'
<1>1. SUFFICES ASSUME NEW s \in Session, life'[s] # "free"
               PROVE  \E q \in Serving' : op'[q].session = s
    BY DEF Served
<1>2. PICK o \in Serving : op[o].session = s
    BY <1>1 DEF OrderlyInv, Served
<1> QED BY <1>1, <1>2

\* The handler leaves an operation that serves its session.
LEMMA LeavesServes ==
    ASSUME OrderlyInv, NEW w \in Worker, Busy(w), pc[w] # "accept",
           NEW x \in Left(w) \ {Idle}, Leaves(w, x), UNCHANGED life
    PROVE  Served'
<1>1. op \in [Op -> OpValue] /\ IInv
    BY DEF OrderlyInv, ChainInv, IInv, TypesOfThreads
<1>2. \A o \in Op : op'[o] = IF o = cur[w] THEN x ELSE op[o]
    BY <1>1 DEF Leaves
<1>3. ASSUME NEW o \in Serving
      PROVE  o \in Serving' /\ op'[o].session = op[o].session
    <2>1. o \in Op /\ op[o] # Idle
        BY DEF Serving, Active
    <2>2. o \in Serving'
        BY <1>1, <1>2, <2>1, StillServes DEF Leaves
    <2> QED BY <1>2, <2>1, <2>2, LeftIsOwn DEF Self
<1> QED BY <1>3, ServedKept

\* The first read of a session serves it, when its accept goes on to the next.
LEMMA StartServes ==
    ASSUME OrderlyInv, NEW w \in Worker, Start(w)
    PROVE  Served'
<1>1. pc[w] = "start" /\ Busy(w) /\ UNCHANGED life
    BY DEF Start, InSession, At, Busy, sessionVars
<1>2. PICK n \in Unused : op' = [op EXCEPT ![n] = Read(Self(w))]
    BY DEF Start
<1>3. /\ n \in Op /\ op[n] = Idle /\ IInv
      /\ op \in [Op -> OpValue] /\ cur \in [Worker -> Op \cup {NoOp}]
    BY <1>2 DEF Unused, OrderlyInv, ChainInv, IInv, TypesOfThreads
<1>4. pc' = [pc EXCEPT ![w] = "accept"] /\ cur' = [cur EXCEPT ![w] = cur[w]]
    BY <1>3 DEF Start, Goto
<1>5. \A o \in Op : op'[o] = IF o = n THEN Read(Self(w)) ELSE op[o]
    BY <1>2, <1>3
<1>6. Read(Self(w)) # Idle /\ Read(Self(w)).session = Self(w)
    BY DEF Read, Operation, Idle
<1>7. n \in Serving'
    <2>1. ASSUME NEW v \in Worker, cur'[v] = n, pc'[v] = "accept"
          PROVE  FALSE
        <3>1. cur[v] = n /\ Busy(v)
            BY <1>1, <1>3, <1>4, <2>1 DEF Busy, IInv, TypesOfThreads
        <3> QED BY <1>3, <3>1, OwnOperation
    <2> QED BY <1>3, <1>5, <1>6, <2>1 DEF Serving, Active
<1>8. ASSUME NEW o \in Serving
      PROVE  \E q \in Serving' : op'[q].session = op[o].session
    <2>1. o \in Op /\ o # n
        BY <1>3 DEF Serving, Active
    <2>2. CASE o = cur[w]
        BY <1>3, <1>5, <1>6, <1>7, <2>2 DEF Self
    <2>3. CASE o # cur[w]
        <3>1. op'[o] = op[o] /\ op[o] # Idle
            BY <1>5, <2>1 DEF Serving, Active
        <3>2. o \in Serving'
            BY <1>3, <1>4, <2>3, <3>1, StillServes
        <3> QED BY <3>1, <3>2
    <2> QED BY <2>2, <2>3
<1> QED BY <1>1, <1>8, ServedKept

LEMMA HandlerServes ==
    ASSUME OrderlyInv, NEW w \in Worker, HandlerStep(w)
    PROVE  Served'
<1>1. Busy(w) /\ pc[w] # "accept" /\ ~Abandons(w) /\ IInv
    BY HandlerStepKinds, NoneAbandons DEF OrderlyInv, ChainInv
<1>2. CASE /\ \E l \in Labels \ {"idle", "dead", "accept", "keepalive"} : Goto(w, l)
           /\ UNCHANGED <<op, life>>
    <2>1. PICK l \in Labels \ {"idle", "dead", "accept", "keepalive"} : Goto(w, l)
        BY <1>2
    <2>2. pc' = [pc EXCEPT ![w] = l] /\ cur' = [cur EXCEPT ![w] = cur[w]]
        BY <1>1, <2>1 DEF Goto, IInv, TypesOfThreads
    <2>3. \A o \in Serving : o \in Serving'
        BY <1>1, <1>2, <2>2, StillServes DEF Serving, Active
    <2> QED BY <1>2, <2>3, ServedKept
<1>3. CASE /\ \E x \in Left(w) : Leaves(w, x) /\ (x = Idle => Abandons(w))
           /\ UNCHANGED life
    BY <1>1, <1>3, LeavesServes
<1>4. CASE Leaves(w, Idle) /\ life' = [life EXCEPT ![Self(w)] = "free"]
    <2>1. /\ Self(w) \in Session /\ cur[w] \in Op
          /\ life \in [Session -> {"free", "accepting", "live"}]
        BY <1>1, OwnIsOnly DEF OrderlyInv, DataTypes
    <2>2. ASSUME NEW o \in Serving, life'[op[o].session] # "free"
          PROVE  o \in Serving' /\ op'[o].session = op[o].session
        <3>1. o # cur[w]
            BY <1>4, <2>1, <2>2 DEF Self
        <3>2. op'[o] = op[o] /\ op[o] # Idle
            BY <1>1, <1>4, <3>1 DEF Leaves, Serving, Active, IInv, TypesOfThreads
        <3>3. o \in Serving'
            BY <1>1, <1>4, <3>2, StillServes DEF Leaves
        <3> QED BY <3>2, <3>3
    <2>3. \A s \in Session : life'[s] # "free" => life[s] # "free"
        BY <1>4, <2>1
    <2> QED BY <2>2, <2>3, ServedKept
<1> QED BY <1>1, <1>2, <1>3, <1>4, StartServes, HandlerStepKinds DEF OrderlyInv

\* The handler about to delete a session goes on with it, unless it is the one that
\* takes the step.
LEMMA DeleterGoesOn ==
    ASSUME OrderlyInv, NEW w \in Worker, NEW l, NEW c,
           pc' = [pc EXCEPT ![w] = l], cur' = [cur EXCEPT ![w] = c],
           \A o \in Op : IsRunning(op[o]) /\ ~(Busy(w) /\ o = cur[w]) => op'[o] = op[o],
           NEW s \in Session, already_deleted_[s], ~(pc[w] = "delete" /\ Self(w) = s)
    PROVE  \E v \in Worker : pc'[v] = "delete" /\ op'[cur'[v]].session = s
<1>1. pc \in [Worker -> Labels] /\ cur \in [Worker -> Op \cup {NoOp}] /\ IInv
    BY DEF OrderlyInv, ChainInv, IInv, TypesOfThreads
<1>2. PICK v \in Worker : pc[v] = "delete" /\ Self(v) = s
    BY DEF OrderlyInv, FlagIsSet
<1>3. v # w /\ Busy(v)
    BY <1>2 DEF Busy
<1>4. cur[v] \in Op /\ IsRunning(op[cur[v]])
    BY <1>1, <1>3 DEF IInv, HandlersMatch
<1>5. ~(Busy(w) /\ cur[v] = cur[w])
    BY <1>1, <1>3 DEF IInv, RunOnce
<1>6. pc'[v] = "delete" /\ cur'[v] = cur[v] /\ op'[cur[v]] = op[cur[v]]
    BY <1>1, <1>2, <1>3, <1>4, <1>5
<1> QED BY <1>2, <1>6 DEF Self

LEMMA FlagKept ==
    ASSUME OrderlyInv, NEW w \in Worker, NEW l, NEW c,
           pc' = [pc EXCEPT ![w] = l], cur' = [cur EXCEPT ![w] = c],
           \A o \in Op : IsRunning(op[o]) /\ ~(Busy(w) /\ o = cur[w]) => op'[o] = op[o],
           \A s \in Session : already_deleted_'[s] =>
               already_deleted_[s] /\ ~(pc[w] = "delete" /\ Self(w) = s)
    PROVE  FlagIsSet'
<1>1. SUFFICES ASSUME NEW s \in Session, already_deleted_'[s]
               PROVE  \E v \in Worker : pc'[v] = "delete" /\ op'[cur'[v]].session = s
    BY DEF FlagIsSet, Self
<1>2. already_deleted_[s] /\ ~(pc[w] = "delete" /\ Self(w) = s)
    BY <1>1
<1> QED BY <1>2, DeleterGoesOn

\* What a step of a session's handler leaves alone.
LEMMA HandlerFrame ==
    ASSUME ChainInv, NEW w \in Worker, HandlerStep(w)
    PROVE  \E l, c : /\ pc' = [pc EXCEPT ![w] = l] /\ cur' = [cur EXCEPT ![w] = c]
                     /\ \A o \in Op : IsRunning(op[o]) /\ o # cur[w] => op'[o] = op[o]
<1>1. op \in [Op -> OpValue] /\ cur \in [Worker -> Op \cup {NoOp}]
    BY DEF ChainInv, IInv, TypesOfThreads
<1>2. cur = [cur EXCEPT ![w] = cur[w]]
    BY <1>1
<1>3. CASE Start(w)
    <2>1. PICK n \in Unused : op' = [op EXCEPT ![n] = Read(Self(w))]
        BY <1>3 DEF Start
    <2>2. \A o \in Op : IsRunning(op[o]) => op'[o] = op[o]
        BY <1>1, <2>1 DEF Unused, IsRunning
    <2> QED BY <1>2, <1>3, <2>2 DEF Start, Goto
<1>4. CASE (\E l : Goto(w, l)) /\ UNCHANGED op
    BY <1>2, <1>4 DEF Goto
<1>5. CASE \E x : Leaves(w, x)
    BY <1>1, <1>5 DEF Leaves
<1> QED BY <1>3, <1>4, <1>5, HandlerStepKinds

\* A flag is set on the way to the deletion, and goes with the session.
LEMMA HandlerKeepsFlag ==
    ASSUME OrderlyInv, NEW w \in Worker, HandlerStep(w)
    PROVE  FlagIsSet'
<1>1. /\ Busy(w) /\ pc[w] # "accept" /\ cur[w] \in Op /\ Self(w) \in Session /\ ChainInv
    BY HandlerStepKinds, OwnIsOnly DEF OrderlyInv
<1>2. /\ pc \in [Worker -> Labels] /\ cur \in [Worker -> Op \cup {NoOp}]
      /\ already_deleted_ \in [Session -> BOOLEAN]
    BY DEF OrderlyInv, ChainInv, IInv, TypesOfThreads, DataTypes
<1>3. PICK l, c : /\ pc' = [pc EXCEPT ![w] = l] /\ cur' = [cur EXCEPT ![w] = c]
                  /\ \A o \in Op : IsRunning(op[o]) /\ o # cur[w] => op'[o] = op[o]
    BY <1>1, HandlerFrame
<1>4. CASE SetAlreadyDeleted(w)
    <2>1. SUFFICES ASSUME NEW s \in Session, already_deleted_'[s]
                   PROVE  \E v \in Worker : pc'[v] = "delete" /\ op'[cur'[v]].session = s
        BY DEF FlagIsSet, Self
    <2>2. pc'[w] = "delete" /\ cur'[w] = cur[w] /\ op' = op /\ pc[w] # "delete"
        BY <1>2, <1>4 DEF SetAlreadyDeleted, Goto, InSession, At
    <2>3. CASE s = Self(w)
        BY <2>2, <2>3 DEF Self
    <2>4. CASE s # Self(w)
        <3>1. already_deleted_[s]
            BY <1>2, <1>4, <2>1, <2>4 DEF SetAlreadyDeleted
        <3> QED BY <1>3, <2>2, <3>1, DeleterGoesOn
    <2> QED BY <2>3, <2>4
<1>5. CASE Delete(w)
    <2>1. \A s \in Session : already_deleted_'[s] => already_deleted_[s] /\ s # Self(w)
        BY <1>1, <1>2, <1>5 DEF Delete
    <2> QED BY <1>1, <1>3, <2>1, FlagKept
<1>6. CASE UNCHANGED already_deleted_ /\ pc[w] # "delete"
    BY <1>1, <1>3, <1>6, FlagKept
<1>7. CASE Undefined(w)
    BY <1>1, <1>7, OwnIsOnly DEF Undefined, UseAfterFree, HandlerLabels
<1>8. SetAlreadyDeleted(w) \/ Delete(w) \/ Undefined(w)
      \/ (UNCHANGED already_deleted_ /\ pc[w] # "delete")
    <2>1. CASE \/ Start(w) \/ RequestTooLarge(w) \/ AppendData(w) \/ WaitForMore(w)
               \/ BadContentLength(w) \/ ContentTooLarge(w) \/ BadRequest(w)
               \/ HandleRequest(w) \/ RespondAndReturn(w) \/ RespondAndContinue(w)
               \/ Rearm(w) \/ TestAlreadyDeleted(w)
        BY <2>1 DEF Start, RequestTooLarge, AppendData, WaitForMore, BadContentLength,
           ContentTooLarge, BadRequest, HandleRequest, RespondAndReturn, RespondAndContinue,
           Rearm, TestAlreadyDeleted, InSession, At, sessionVars
    <2> QED BY <2>1 DEF HandlerStep
<1> QED BY <1>4, <1>5, <1>6, <1>7, <1>8

\* The steps between a failed or finished accept and the next.
LEMMA AcceptKeepsOrder ==
    ASSUME OrderlyInv, NEW w \in Worker, AcceptFailed(w) \/ StartAccept(w)
    PROVE  FlagIsSet' /\ Served'
<1>1. /\ Busy(w) /\ cur[w] \in Op /\ op[cur[w]] # Idle /\ Self(w) \in Session
      /\ pc[w] # "delete" /\ IInv
    BY AcceptStepIsBusy, OwnOperation DEF OrderlyInv, ChainInv, AcceptFailed, StartAccept, At
<1>2. /\ op \in [Op -> OpValue] /\ cur \in [Worker -> Op \cup {NoOp}]
      /\ life \in [Session -> {"free", "accepting", "live"}]
      /\ already_deleted_ \in [Session -> BOOLEAN]
    BY <1>1 DEF IInv, TypesOfThreads, OrderlyInv, DataTypes
<1>3. CASE AcceptFailed(w)
    <2>1. /\ pc' = [pc EXCEPT ![w] = "accept"] /\ cur' = [cur EXCEPT ![w] = cur[w]]
          /\ op' = op /\ already_deleted_' = already_deleted_
          /\ life' = [life EXCEPT ![Self(w)] = "free"]
        BY <1>2, <1>3 DEF AcceptFailed, Goto
    <2>2. FlagIsSet'
        BY <1>1, <2>1, FlagKept
    <2>3. ASSUME NEW o \in Serving, life'[op[o].session] # "free"
          PROVE  o \in Serving' /\ op'[o].session = op[o].session
        <3>1. o # cur[w]
            BY <1>1, <1>2, <2>1, <2>3 DEF Self
        <3>2. op'[o] # Idle
            BY <2>1 DEF Serving, Active
        <3> QED BY <1>1, <2>1, <3>1, <3>2, StillServes
    <2>4. \A s \in Session : life'[s] # "free" => life[s] # "free"
        BY <1>1, <1>2, <2>1
    <2> QED BY <2>2, <2>3, <2>4, ServedKept
<1>4. CASE StartAccept(w)
    <2>1. PICK s \in Session :
             /\ life' = [life EXCEPT ![s] = "accepting"]
             /\ already_deleted_' = [already_deleted_ EXCEPT ![s] = FALSE]
             /\ op' = [op EXCEPT ![cur[w]] = Accept(s)]
        BY <1>4 DEF StartAccept
    <2>2. /\ pc' = [pc EXCEPT ![w] = "idle"] /\ cur' = [cur EXCEPT ![w] = NoOp]
          /\ pc[w] = "accept"
        BY <1>4 DEF StartAccept, Return, At
    <2>3. \A o \in Op : op'[o] = IF o = cur[w] THEN Accept(s) ELSE op[o]
        BY <1>2, <2>1
    <2>4. \A r \in Session : already_deleted_'[r] => already_deleted_[r]
        BY <1>2, <2>1
    <2>5. FlagIsSet'
        BY <1>1, <2>2, <2>3, <2>4, FlagKept
    <2>6. Accept(s) # Idle /\ Accept(s).session = s
        BY DEF Accept, Operation, Idle
    <2>7. cur[w] \in Serving' /\ op'[cur[w]].session = s
        <3>1. ASSUME NEW v \in Worker, cur'[v] = cur[w], pc'[v] = "accept"
              PROVE  FALSE
            <4>1. v # w
                BY <1>1, <2>2, <3>1 DEF IInv, TypesOfThreads
            <4>2. cur[v] = cur[w] /\ pc[v] = "accept"
                BY <1>1, <2>2, <3>1, <4>1 DEF IInv, TypesOfThreads
            <4> QED BY <1>1, <4>1, <4>2 DEF IInv, RunOnce, Busy
        <3> QED BY <1>1, <2>3, <2>6, <3>1 DEF Serving, Active
    <2>8. ASSUME NEW o \in Serving
          PROVE  o \in Serving' /\ op'[o].session = op[o].session
        <3>1. o # cur[w] /\ o \in Op /\ op[o] # Idle
            BY <2>2 DEF Serving, Active
        <3>2. op'[o] = op[o]
            BY <2>3, <3>1
        <3> QED BY <1>1, <2>2, <3>1, <3>2, StillServes
    <2>9. Served'
        <3>1. SUFFICES ASSUME NEW r \in Session, life'[r] # "free"
                       PROVE  \E q \in Serving' : op'[q].session = r
            BY DEF Served
        <3>2. CASE r = s
            BY <2>7, <3>2
        <3>3. CASE r # s
            <4>1. life[r] # "free"
                BY <1>2, <2>1, <3>1, <3>3
            <4> QED BY <2>8, <4>1 DEF OrderlyInv, Served
        <3> QED BY <3>2, <3>3
    <2> QED BY <2>5, <2>9
<1> QED BY <1>3, <1>4

LEMMA DispatchKeepsOrder ==
    ASSUME OrderlyInv, NEW w \in Worker, NEW o \in Op, Dispatch(w, o)
    PROVE  FlagIsSet' /\ Served'
<1>1. /\ op[o] \in OpValue /\ op[o] # Idle /\ op[o].state = "ready" /\ pc[w] = "idle"
      /\ op \in [Op -> OpValue] /\ IInv /\ UNCHANGED <<life, already_deleted_>>
    BY DEF OrderlyInv, ChainInv, IInv, TypesOfThreads, Dispatch, At, sessionVars
<1>2. PICK l : pc' = [pc EXCEPT ![w] = l] /\ l # "accept"
    <2> DEFINE l == CASE op[o].kind = "accept" /\ op[o].ok  -> "start"
                      [] op[o].kind = "accept" /\ ~op[o].ok -> "accept_failed"
                      [] op[o].kind = "read" /\ op[o].ok    -> "append"
                      [] op[o].kind = "write" /\ op[o].ok   -> "rearm"
                      [] OTHER                              -> "safe_delete"
    <2>1. pc' = [pc EXCEPT ![w] = l]
        BY DEF Dispatch
    <2>2. op[o].ok \in BOOLEAN
        BY <1>1 DEF OpValue, Idle
    <2>3. l # "accept"
        BY <2>2
    <2> HIDE DEF l
    <2> QED BY <2>1, <2>3
<1>3. cur' = [cur EXCEPT ![w] = o]
    BY DEF Dispatch
<1>4. op'[o].session = op[o].session /\ op'[o] # Idle
    BY <1>1 DEF Dispatch, OpValue, Idle
<1>5. \A q \in Op : q # o => op'[q] = op[q]
    BY <1>1 DEF Dispatch
<1>6. \A q \in Op : IsRunning(op[q]) => op'[q] = op[q]
    BY <1>1, <1>5 DEF IsRunning
<1>7. FlagIsSet'
    BY <1>1, <1>2, <1>3, <1>6, FlagKept
<1>8. ASSUME NEW q \in Serving
      PROVE  q \in Serving' /\ op'[q].session = op[q].session
    <2>1. op'[q] # Idle /\ op'[q].session = op[q].session
        BY <1>4, <1>5 DEF Serving, Active
    <2> QED BY <1>1, <1>2, <1>3, <2>1, StillServes
<1> QED BY <1>1, <1>7, <1>8, ServedKept

LEMMA CompleteKeepsOrder ==
    ASSUME OrderlyInv, NEW o \in Op, op[o] # Idle, op[o].state = "pending",
           NEW ok, NEW chunk, Complete(o, ok, chunk), UNCHANGED <<threadVars, already_deleted_>>,
           \A s \in Session : life'[s] # "free" => life[s] # "free"
    PROVE  FlagIsSet' /\ Served'
<1>1. op[o] \in OpValue /\ op \in [Op -> OpValue] /\ IInv
    BY DEF OrderlyInv, ChainInv, IInv, TypesOfThreads
<1>2. op'[o].session = op[o].session /\ op'[o] # Idle
    BY <1>1 DEF Complete, OpValue, Idle
<1>3. \A q \in Op : q # o => op'[q] = op[q]
    BY <1>1 DEF Complete
<1>4. FlagIsSet'
    <2>1. SUFFICES ASSUME NEW s \in Session, already_deleted_[s]
                   PROVE  \E v \in Worker : pc[v] = "delete" /\ op'[cur[v]].session = s
        BY DEF FlagIsSet, Self, threadVars
    <2>2. PICK v \in Worker : pc[v] = "delete" /\ Self(v) = s
        BY <2>1 DEF OrderlyInv, FlagIsSet
    <2>3. cur[v] \in Op
        BY <1>1, <2>2 DEF IInv, HandlersMatch, Busy
    <2> QED BY <1>2, <1>3, <2>2, <2>3 DEF Self
<1>5. \A q \in Serving : q \in Serving' /\ op'[q].session = op[q].session
    BY <1>2, <1>3 DEF Serving, Active, threadVars
<1> QED BY <1>4, <1>5, ServedKept

LEMMA OrderlyNext ==
    ASSUME Chunks \subseteq Seq(Orderly), OrderlyInv, [Next]_vars
    PROVE  OrderlyInv'
<1>1. Chunks \subseteq Seq(Closing)
    <2>1. \A c \in Seq(Orderly) : c \in Seq(Closing)
        BY DEF Orderly, Closing
    <2> QED BY <2>1
<1>2. ChainInv' /\ DataTypes(Orderly)'
    BY <1>1, ChainNext, DataTypesNext DEF OrderlyInv, ChainInv
<1> DEFINE Rest == FlagIsSet' /\ Served'
<1>3. ASSUME NEW w \in Worker, ThreadStep(w)
      PROVE  Rest
    BY <1>3, HandlerServes, HandlerKeepsFlag, AcceptKeepsOrder DEF ThreadStep
<1>4. ASSUME NEW w \in Worker, NEW o \in Op, Dispatch(w, o)
      PROVE  Rest
    BY <1>4, DispatchKeepsOrder
<1>5. ASSUME NEW o \in Op, \/ Connect(o) \/ AcceptError(o) \/ Receive(o)
                           \/ ReadError(o) \/ Sent(o) \/ WriteError(o)
      PROVE  Rest
    <2>1. op[o] # Idle /\ op[o].state = "pending" /\ UNCHANGED <<threadVars, already_deleted_>>
        BY <1>5 DEF Connect, AcceptError, Receive, ReadError, Sent, WriteError, Pending,
           sessionVars
    <2>2. PICK ok, chunk : Complete(o, ok, chunk)
        BY <1>5 DEF Connect, AcceptError, Receive, ReadError, Sent, WriteError
    <2>3. \A s \in Session : life'[s] # "free" => life[s] # "free"
        BY <1>5 DEF Connect, AcceptError, Receive, ReadError, Sent, WriteError, sessionVars,
           OrderlyInv, DataTypes
    <2> QED BY <2>1, <2>2, <2>3, CompleteKeepsOrder
<1>6. ASSUME UNCHANGED <<op, life, already_deleted_, threadVars>>
      PROVE  Rest
    BY <1>6 DEF OrderlyInv, FlagIsSet, Served, Self, Serving, Active, threadVars
<1>7. ASSUME NEW s \in Session, PeerClose(s)
      PROVE  Rest
    BY <1>6, <1>7 DEF PeerClose
<1>8. ASSUME NEW w \in Worker, NEW v \in Worker, Race(w, v)
      PROVE  Rest
    BY <1>6, <1>8 DEF Race, sessionVars, threadVars
<1>9. ASSUME UNCHANGED vars
      PROVE  Rest
    BY <1>6, <1>9 DEF vars, sessionVars
<1> QED BY <1>2, <1>3, <1>4, <1>5, <1>7, <1>8, <1>9 DEF Next, OrderlyInv

\* When every client ends its connections and no request makes a handler throw, a
\* session that exists is never left without an operation or a handler: each is
\* deleted or waits for its client, for any threads, sessions and requests.
THEOREM NoneForgotten ==
    ASSUME Chunks \subseteq Seq(Orderly)
    PROVE  Spec => []NoSessionForgotten
<1>1. Init => OrderlyInv
    <2>1. SUFFICES ASSUME Init PROVE OrderlyInv
        OBVIOUS
    <2>2. ChainInv /\ DataTypes(Orderly)
        BY <2>1, ChainInit, DataTypesInit
    <2>3. FlagIsSet
        BY <2>1 DEF Init, FlagIsSet
    <2>4. Accept(FirstSession).session = FirstSession /\ Accept(FirstSession) # Idle
        BY DEF Accept, Operation, Idle
    <2>5. FirstOp \in Serving /\ op[FirstOp].session = FirstSession
        BY <2>1, <2>4, FirstAssumption DEF Init, Serving, Active
    <2>6. Served
        BY <2>1, <2>5 DEF Init, Served
    <2> QED BY <2>2, <2>3, <2>6 DEF OrderlyInv
<1>2. OrderlyInv /\ [Next]_vars => OrderlyInv'
    BY OrderlyNext
<1>3. OrderlyInv => NoSessionForgotten
    BY DEF OrderlyInv, Served, NoSessionForgotten
<1> QED BY <1>1, <1>2, <1>3, PTL DEF Spec
===============================================================================
