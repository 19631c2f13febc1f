------------------------------- MODULE Session -------------------------------
(***************************************************************************)
(* session (server/session.cc): the handlers of one client connection.     *)
(* The io_service has several threads and the session no strand, so two    *)
(* handlers of one session can run at once, on the same data_ and          *)
(* request_buffer_.  Each handler is split where another thread can see    *)
(* the difference; pc[w] names the statement thread w is about to execute. *)
(*                                                                         *)
(* request_buffer_ is a sequence of requests, abstracted to what the loop  *)
(* of handle_read does with them:                                          *)
(*   "partial"    headers or body incomplete: wait for more                *)
(*   "badlength"  a Content-Length that std::stoul does not take           *)
(*   "toolarge"   a Content-Length above max_content_length_               *)
(*   "malformed"  no method, path or version, or not HTTP/1.1              *)
(*   "throws"     routed to a factory or handler that throws               *)
(*   "close"      answered, with the client's "Connection: close"          *)
(*   "keepalive"  answered, and the connection is kept                     *)
(***************************************************************************)
EXTENDS Asio

CONSTANTS Worker,          \* the threads inside io_service::run
          Chunks,          \* what one read can deliver
          MaxRequestSize   \* max_request_size_, in requests

Kind == {"partial", "badlength", "toolarge", "malformed", "throws", "close",
         "keepalive"}

ASSUME ChunkAssumption == Chunks \subseteq Seq(Kind)
ASSUME SizeAssumption == MaxRequestSize \in Nat \ {0}

VARIABLES
    life,             \* "free", "live", or "accepting" until accept completes
    already_deleted_,
    request_buffer_,
    data_,
    peer,             \* the client's end: "none", "open" or "closed"
    pc, cur,          \* the statement and the operation of a thread
    aborted           \* undefined behaviour has ended the process

sessionVars == <<life, already_deleted_, request_buffer_, data_, peer>>
threadVars == <<pc, cur>>

Self(w) == op[cur[w]].session
At(w, label) == pc[w] = label /\ ~aborted

\* A handler that uses the members of its session.
InSession(w, label) == At(w, label) /\ life[Self(w)] # "free"

Goto(w, label) == pc' = [pc EXCEPT ![w] = label] /\ UNCHANGED cur

\* The handler returns to io_service::run; its operation is over, or its entry
\* of the table is used by the operation it started last.
Return(w) == /\ pc' = [pc EXCEPT ![w] = "idle"]
             /\ cur' = [cur EXCEPT ![w] = NoOp]

\* An exception leaves the handler, and with it io_service::run.
Throw(w) == /\ pc' = [pc EXCEPT ![w] = "dead"]
            /\ cur' = [cur EXCEPT ![w] = NoOp]
            /\ op' = [op EXCEPT ![cur[w]] = Idle]

\* async_read_some as the last statement of a handler.
ReadAgain(w) == /\ op' = [op EXCEPT ![cur[w]] = Read(Self(w))]
                /\ Return(w)

\* current_response_ is assigned and async_write starts, in entry n, on a buffer
\* of the given kind.  It tries to send at once; the rest is sent later.
Write(w, n, buffer) ==
    \E b \in {"sent", buffer} :
        op' = [Reassigned(Self(w)) EXCEPT ![n] = Operation("write", Self(w), b)]

\* ... as the last statement of the handler.
WriteLast(w, buffer) == Write(w, cur[w], buffer) /\ Return(w)

Head_(w) == Head(request_buffer_[Self(w)])
Trim(w) == request_buffer_' = [request_buffer_ EXCEPT ![Self(w)] = Tail(@)]

-------------------------------------------------------------------------------
(* start *)

Start(w) ==
    /\ InSession(w, "start")
    /\ \E o \in Unused : op' = [op EXCEPT ![o] = Read(Self(w))]
    /\ Goto(w, "accept")
    /\ UNCHANGED <<sessionVars, aborted>>

-------------------------------------------------------------------------------
(* handle_read *)

\* The size check; its 413 is written from a local string.
RequestTooLarge(w) ==
    /\ InSession(w, "append")
    /\ Len(request_buffer_[Self(w)]) + Len(op[cur[w]].chunk) > MaxRequestSize
    /\ WriteLast(w, "dangling")
    /\ UNCHANGED <<sessionVars, aborted>>

\* The first n bytes of data_, whatever it holds by now; memory that no read has
\* written to since it was allocated holds anything.
FirstBytes(s, n) == IF n <= Len(data_[s]) THEN {SubSeq(data_[s], 1, n)}
                                          ELSE {c \in Chunks : Len(c) = n}

\* Mutant of AppendData: the size is not checked.
AppendUnchecked(w) ==
    /\ InSession(w, "append")
    /\ \E bytes \in FirstBytes(Self(w), Len(op[cur[w]].chunk)) :
          request_buffer_' = [request_buffer_ EXCEPT ![Self(w)] = @ \o bytes]
    /\ Goto(w, "loop")
    /\ UNCHANGED <<life, already_deleted_, data_, peer, op, aborted>>

AppendData(w) ==
    /\ InSession(w, "append")
    /\ Len(request_buffer_[Self(w)]) + Len(op[cur[w]].chunk) <= MaxRequestSize
    /\ \E bytes \in FirstBytes(Self(w), Len(op[cur[w]].chunk)) :
          request_buffer_' = [request_buffer_ EXCEPT ![Self(w)] = @ \o bytes]
    /\ Goto(w, "loop")
    /\ UNCHANGED <<life, already_deleted_, data_, peer, op, aborted>>

\* Mutant of WaitForMore: handle_read returns without another read.
WaitForNothing(w) ==
    /\ InSession(w, "loop")
    /\ request_buffer_[Self(w)] # <<>> => Head_(w) = "partial"
    /\ op' = [op EXCEPT ![cur[w]] = Idle]
    /\ Return(w)
    /\ UNCHANGED <<sessionVars, aborted>>

\* No complete request: leave the loop and read on.
WaitForMore(w) ==
    /\ InSession(w, "loop")
    /\ request_buffer_[Self(w)] # <<>> => Head_(w) = "partial"
    /\ ReadAgain(w)
    /\ UNCHANGED <<sessionVars, aborted>>

\* std::stoul throws before the request is trimmed.
BadContentLength(w) ==
    /\ InSession(w, "loop") /\ request_buffer_[Self(w)] # <<>>
    /\ Head_(w) = "badlength"
    /\ Throw(w)
    /\ UNCHANGED <<sessionVars, aborted>>

\* The 413 leaves the request at the head of request_buffer_.
ContentTooLarge(w) ==
    /\ InSession(w, "loop") /\ request_buffer_[Self(w)] # <<>>
    /\ Head_(w) = "toolarge"
    /\ WriteLast(w, "stored")
    /\ UNCHANGED <<sessionVars, aborted>>

\* Mutant of BadRequest: the return after the 400 is missing.
BadRequestGoesOn(w) ==
    /\ InSession(w, "loop") /\ request_buffer_[Self(w)] # <<>>
    /\ Head_(w) = "malformed"
    /\ Trim(w)
    /\ \E n \in Unused : Write(w, n, "stored")
    /\ Goto(w, "loop")
    /\ UNCHANGED <<life, already_deleted_, data_, peer, aborted>>

BadRequest(w) ==
    /\ InSession(w, "loop") /\ request_buffer_[Self(w)] # <<>>
    /\ Head_(w) = "malformed"
    /\ Trim(w)
    /\ WriteLast(w, "stored")
    /\ UNCHANGED <<life, already_deleted_, data_, peer, aborted>>

\* Trim, route, and call the factory and the handler.
HandleRequest(w) ==
    /\ InSession(w, "loop") /\ request_buffer_[Self(w)] # <<>>
    /\ Head_(w) \in {"throws", "close", "keepalive"}
    /\ Trim(w)
    /\ \/ Head_(w) = "throws" /\ Throw(w)
       \/ Head_(w) = "close" /\ Goto(w, "close") /\ UNCHANGED op
       \/ Head_(w) = "keepalive" /\ Goto(w, "keepalive") /\ UNCHANGED op
    /\ UNCHANGED <<life, already_deleted_, data_, peer, aborted>>

\* Mutant of RespondAndReturn: the return is missing.
RespondAndGoOn(w) ==
    /\ InSession(w, "close")
    /\ \E n \in Unused : Write(w, n, "stored")
    /\ Goto(w, "loop")
    /\ UNCHANGED <<sessionVars, aborted>>

\* "Don't read anymore"
RespondAndReturn(w) ==
    /\ InSession(w, "close")
    /\ WriteLast(w, "stored")
    /\ UNCHANGED <<sessionVars, aborted>>

\* The loop goes on while the response is being written.
RespondAndContinue(w) ==
    /\ InSession(w, "keepalive")
    /\ \E n \in Unused : Write(w, n, "stored")
    /\ Goto(w, "loop")
    /\ UNCHANGED <<sessionVars, aborted>>

-------------------------------------------------------------------------------
(* handle_write.  Only the destructor closes socket_, so the is_open test of a *)
(* live session succeeds.                                                      *)

Rearm(w) ==
    /\ InSession(w, "rearm")
    /\ ReadAgain(w)
    /\ UNCHANGED <<sessionVars, aborted>>

-------------------------------------------------------------------------------
(* safe_delete, called by both handlers on an error *)

\* Mutant of TestAlreadyDeleted: the flag is set before it is tested.
SetBeforeTest(w) ==
    /\ InSession(w, "safe_delete")
    /\ already_deleted_' = [already_deleted_ EXCEPT ![Self(w)] = TRUE]
    /\ op' = [op EXCEPT ![cur[w]] = Idle]
    /\ Return(w)
    /\ UNCHANGED <<life, request_buffer_, data_, peer, aborted>>

TestAlreadyDeleted(w) ==
    /\ InSession(w, "safe_delete")
    /\ \/ /\ already_deleted_[Self(w)]
          /\ op' = [op EXCEPT ![cur[w]] = Idle]
          /\ Return(w)
       \/ /\ ~already_deleted_[Self(w)]
          /\ Goto(w, "set_deleted")
          /\ UNCHANGED op
    /\ UNCHANGED <<sessionVars, aborted>>

SetAlreadyDeleted(w) ==
    /\ InSession(w, "set_deleted")
    /\ already_deleted_' = [already_deleted_ EXCEPT ![Self(w)] = TRUE]
    /\ Goto(w, "delete")
    /\ UNCHANGED <<life, request_buffer_, data_, peer, op, aborted>>

\* The destructor closes socket_; nothing is left of the members.
Delete(w) ==
    /\ InSession(w, "delete")
    /\ request_buffer_' = [request_buffer_ EXCEPT ![Self(w)] = <<>>]
    /\ data_' = [data_ EXCEPT ![Self(w)] = <<>>]
    /\ already_deleted_' = [already_deleted_ EXCEPT ![Self(w)] = FALSE]
    /\ life' = [life EXCEPT ![Self(w)] = "free"]
    /\ peer' = [peer EXCEPT ![Self(w)] = "none"]
    /\ op' = [Aborted(Self(w)) EXCEPT ![cur[w]] = Idle]
    /\ Return(w)
    /\ UNCHANGED aborted

-------------------------------------------------------------------------------
(* A handler that runs on a session already deleted: undefined behaviour.  The *)
(* freed memory may look as the handler left it, and the handler does nothing  *)
(* more (handle_accept goes on), or the process ends (a second free, a         *)
(* corrupted heap).                                                            *)

HandlerLabels == {"start", "append", "loop", "close", "keepalive", "rearm",
                  "safe_delete", "set_deleted", "delete"}

UseAfterFree(w) == \E l \in HandlerLabels : At(w, l) /\ life[Self(w)] = "free"

Undefined(w) ==
    /\ UseAfterFree(w)
    /\ \/ /\ pc[w] # "start"
          /\ op' = [op EXCEPT ![cur[w]] = Idle]
          /\ Return(w)
          /\ UNCHANGED aborted
       \/ /\ pc[w] = "start"
          /\ Goto(w, "accept")
          /\ UNCHANGED <<op, aborted>>
       \/ /\ aborted' = TRUE
          /\ UNCHANGED <<op, pc, cur>>
    /\ UNCHANGED sessionVars

HandlerStep(w) ==
    \/ Start(w) \/ RequestTooLarge(w) \/ AppendData(w) \/ WaitForMore(w)
    \/ BadContentLength(w) \/ ContentTooLarge(w) \/ BadRequest(w)
    \/ HandleRequest(w) \/ RespondAndReturn(w) \/ RespondAndContinue(w)
    \/ Rearm(w) \/ TestAlreadyDeleted(w) \/ SetAlreadyDeleted(w) \/ Delete(w)
    \/ Undefined(w)

\* Two threads use the request_buffer_ of one session at once, and one of them
\* changes it: a data race, which the process may not survive.  If it does, the
\* buffer is as one order of the two leaves it.
Race(w, v) ==
    /\ w # v
    /\ InSession(w, "append") \/ InSession(w, "loop")
    /\ InSession(v, "append") \/ InSession(v, "loop")
    /\ Self(w) = Self(v)
    /\ aborted' = TRUE
    /\ UNCHANGED <<op, sessionVars, pc, cur>>
===============================================================================
