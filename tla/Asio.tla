-------------------------------- MODULE Asio --------------------------------
(***************************************************************************)
(* The asynchronous operations of Boost.Asio, as the server uses them: a   *)
(* table of operations, each bound to one completion handler and to the    *)
(* address of one session.  An operation is pending until the socket is    *)
(* ready for it, then ready (its handler is queued on the io_service) and  *)
(* then running (a thread inside io_service::run executes the handler).    *)
(* Closing a socket completes its pending operations with an error; the    *)
(* handlers of completed operations still run.                             *)
(*                                                                         *)
(* The buffer of a write is "sent" once the kernel has copied it; until    *)
(* then it points at current_response_ ("stored"), at a later value of it  *)
(* ("overwritten"), or at a local variable of a function that has returned *)
(* ("dangling").                                                           *)
(***************************************************************************)
EXTENDS Integers, Sequences

CONSTANTS Op,       \* the operations that can exist at the same time
          Session,  \* the addresses a session object can have
          NoOp

ASSUME NoOpAssumption == NoOp \notin Op

VARIABLE op         \* op[o]: the operation, Idle when o is not in use

Buffer == {"sent", "stored", "overwritten", "dangling"}

Idle == [state |-> "unused"]

Operation(kind, s, buffer) ==
    [state |-> "pending", kind |-> kind, session |-> s, buffer |-> buffer,
     ok |-> TRUE, chunk |-> <<>>]

Accept(s) == Operation("accept", s, "sent")
Read(s) == Operation("read", s, "sent")

Unused == {o \in Op : op[o] = Idle}
Active == {o \in Op : op[o] # Idle}
Pending(o, kind) == op[o] # Idle /\ op[o].state = "pending" /\ op[o].kind = kind

\* The socket is ready for o: its handler is queued.
Complete(o, ok, chunk) ==
    op' = [op EXCEPT ![o] = [@ EXCEPT !.state = "ready", !.ok = ok, !.chunk = chunk]]

\* close(): the pending operations of s are aborted (an accept belongs to the
\* acceptor's socket).
Aborted(s) ==
    [o \in Op |-> IF (Pending(o, "read") \/ Pending(o, "write")) /\ op[o].session = s
                  THEN [op[o] EXCEPT !.state = "ready", !.ok = FALSE]
                  ELSE op[o]]

\* current_response_ of s is assigned: writes that still point at it send the
\* new bytes.
Reassigned(s) ==
    [o \in Op |-> IF Pending(o, "write") /\ op[o].session = s /\ op[o].buffer = "stored"
                  THEN [op[o] EXCEPT !.buffer = "overwritten"]
                  ELSE op[o]]
=============================================================================
