-------------------------------- MODULE Server --------------------------------
(***************************************************************************)
(* server (server/server.cc) with its sessions and the threads of the      *)
(* io_service: one accept after the other makes sessions, the clients send *)
(* and close, and idle threads run the handlers of completed operations.   *)
(***************************************************************************)
EXTENDS Session, FiniteSets

CONSTANT FirstOp, FirstSession   \* of the accept the constructor starts

ASSUME FirstAssumption == FirstOp \in Op /\ FirstSession \in Session

vars == <<op, sessionVars, threadVars, aborted>>

Init == /\ op = [o \in Op |-> IF o = FirstOp
                              THEN Accept(FirstSession)
                              ELSE Idle]
        /\ life = [s \in Session |-> IF s = FirstSession THEN "accepting" ELSE "free"]
        /\ already_deleted_ = [s \in Session |-> FALSE]
        /\ request_buffer_ = [s \in Session |-> <<>>]
        /\ data_ = [s \in Session |-> <<>>]
        /\ peer = [s \in Session |-> "none"]
        /\ pc = [w \in Worker |-> "idle"]
        /\ cur = [w \in Worker |-> NoOp]
        /\ aborted = FALSE

-------------------------------------------------------------------------------
(* handle_accept: on success pc is "start", and "accept" after start() *)

\* Mutant of AcceptFailed: handle_accept returns on an error.
AcceptGivenUp(w) ==
    /\ At(w, "accept_failed")
    /\ life' = [life EXCEPT ![Self(w)] = "free"]
    /\ op' = [op EXCEPT ![cur[w]] = Idle]
    /\ Return(w)
    /\ UNCHANGED <<already_deleted_, request_buffer_, data_, peer, aborted>>

\* The accept failed: delete new_session.
AcceptFailed(w) ==
    /\ At(w, "accept_failed")
    /\ life' = [life EXCEPT ![Self(w)] = "free"]
    /\ Goto(w, "accept")
    /\ UNCHANGED <<already_deleted_, request_buffer_, data_, peer, op, aborted>>

\* start_accept: a new session, at any address the allocator has free.
StartAccept(w) ==
    /\ At(w, "accept")
    /\ \E s \in Session :
          /\ life[s] = "free"
          /\ life' = [life EXCEPT ![s] = "accepting"]
          /\ already_deleted_' = [already_deleted_ EXCEPT ![s] = FALSE]
          /\ request_buffer_' = [request_buffer_ EXCEPT ![s] = <<>>]
          /\ data_' = [data_ EXCEPT ![s] = <<>>]
          /\ op' = [op EXCEPT ![cur[w]] = Accept(s)]
    /\ Return(w)
    /\ UNCHANGED <<peer, aborted>>

-------------------------------------------------------------------------------
(* io_service *)

\* A thread takes a queued handler.
Dispatch(w, o) ==
    /\ At(w, "idle")
    /\ op[o] # Idle /\ op[o].state = "ready"
    /\ op' = [op EXCEPT ![o].state = "running"]
    /\ cur' = [cur EXCEPT ![w] = o]
    /\ pc' = [pc EXCEPT ![w] =
                 CASE op[o].kind = "accept" /\ op[o].ok  -> "start"
                   [] op[o].kind = "accept" /\ ~op[o].ok -> "accept_failed"
                   [] op[o].kind = "read" /\ op[o].ok    -> "append"
                   [] op[o].kind = "write" /\ op[o].ok   -> "rearm"
                   [] OTHER                              -> "safe_delete"]
    /\ UNCHANGED <<sessionVars, aborted>>

\* A client connects.  The table of addresses is as large as the clients need:
\* one is left for the session that start_accept makes.
Connect(o) ==
    /\ Pending(o, "accept") /\ ~aborted
    /\ \E s \in Session : life[s] = "free"
    /\ LET s == op[o].session
       IN /\ life' = [life EXCEPT ![s] = IF @ = "accepting" THEN "live" ELSE @]
          /\ peer' = [peer EXCEPT ![s] = "open"]
    /\ Complete(o, TRUE, <<>>)
    /\ UNCHANGED <<already_deleted_, request_buffer_, data_, threadVars, aborted>>

\* accept fails (no descriptor left, the client gone).
AcceptError(o) ==
    /\ Pending(o, "accept") /\ ~aborted
    /\ Complete(o, FALSE, <<>>)
    /\ UNCHANGED <<sessionVars, threadVars, aborted>>

\* Bytes arrive: the kernel copies them over the first bytes of data_.
Receive(o) ==
    /\ Pending(o, "read") /\ ~aborted
    /\ LET s == op[o].session
       IN /\ peer[s] = "open"
          /\ \E c \in Chunks :
                /\ data_' = [data_ EXCEPT ![s] = c \o SubSeq(@, Len(c) + 1, Len(@))]
                /\ Complete(o, TRUE, c)
    /\ UNCHANGED <<life, already_deleted_, request_buffer_, peer, threadVars, aborted>>

\* end_of_file or connection_reset.
ReadError(o) ==
    /\ Pending(o, "read") /\ ~aborted
    /\ peer[op[o].session] = "closed"
    /\ Complete(o, FALSE, <<>>)
    /\ UNCHANGED <<sessionVars, threadVars, aborted>>

\* The kernel has taken the whole response.
Sent(o) ==
    /\ Pending(o, "write") /\ ~aborted
    /\ Complete(o, TRUE, <<>>)
    /\ UNCHANGED <<sessionVars, threadVars, aborted>>

\* broken_pipe: what is not sent yet cannot be sent any more.
WriteError(o) ==
    /\ Pending(o, "write") /\ ~aborted
    /\ op[o].buffer # "sent" /\ peer[op[o].session] = "closed"
    /\ Complete(o, FALSE, <<>>)
    /\ UNCHANGED <<sessionVars, threadVars, aborted>>

\* The client closes its end.
PeerClose(s) ==
    /\ peer[s] = "open" /\ ~aborted
    /\ peer' = [peer EXCEPT ![s] = "closed"]
    /\ UNCHANGED <<life, already_deleted_, request_buffer_, data_, op, threadVars, aborted>>

-------------------------------------------------------------------------------

ThreadStep(w) == HandlerStep(w) \/ AcceptFailed(w) \/ StartAccept(w)

Next == \/ \E w \in Worker : ThreadStep(w)
        \/ \E w, v \in Worker : Race(w, v)
        \/ \E w \in Worker, o \in Op : Dispatch(w, o)
        \/ \E o \in Op : \/ Connect(o) \/ AcceptError(o) \/ Receive(o)
                         \/ ReadError(o) \/ Sent(o) \/ WriteError(o)
        \/ \E s \in Session : PeerClose(s)

Spec == Init /\ [][Next]_vars

\* The write of what the kernel has, or can deliver to nobody.
FinishWrite(o) == /\ Pending(o, "write")
                  /\ op[o].buffer = "sent" \/ peer[op[o].session] = "closed"
                  /\ Sent(o) \/ WriteError(o)

\* Threads keep running; a queued handler is not passed over for ever, because
\* the io_service queues handlers first in, first out; the kernel reports a
\* closed connection.  Nothing is assumed of clients: one that neither reads nor
\* closes keeps a write pending for ever.
FairSpec ==
    /\ Spec
    /\ \A w \in Worker : WF_vars(ThreadStep(w))
    /\ \A o \in Op : /\ SF_vars(\E w \in Worker : Dispatch(w, o))
                     /\ WF_vars(ReadError(o))
                     /\ WF_vars(FinishWrite(o))

-------------------------------------------------------------------------------
(* Properties *)

\* Every variable has a value of its type, and request_buffer_ is within its limit.
TypeOK ==
    /\ op \in [Op -> [state : {"pending", "ready", "running"},
                      kind : {"accept", "read", "write"}, session : Session,
                      buffer : Buffer, ok : BOOLEAN, chunk : Chunks \cup {<<>>}]
                     \cup {Idle}]
    /\ life \in [Session -> {"free", "accepting", "live"}]
    /\ already_deleted_ \in [Session -> BOOLEAN]
    /\ request_buffer_ \in [Session -> Seq(Kind)]
    /\ \A s \in Session : Len(request_buffer_[s]) <= MaxRequestSize
    /\ data_ \in [Session -> Seq(Kind)]
    /\ peer \in [Session -> {"none", "open", "closed"}]
    /\ pc \in [Worker -> HandlerLabels \cup {"idle", "accept", "accept_failed", "dead"}]
    /\ cur \in [Worker -> Op \cup {NoOp}]
    /\ aborted \in BOOLEAN

\* The operations that use a session: all but the accept whose handler has
\* started its session and goes on to the next.
Serving == {o \in Active : \A w \in Worker : ~(cur[w] = o /\ pc[w] = "accept")}

\* A session is never served by two operations or handlers at a time, and one
\* that has been deleted by none: the handlers of a session form one chain, which
\* is what makes data_, request_buffer_ and "delete this" safe without a strand.
OneChain ==
    /\ \A o, p \in Serving : op[o].session = op[p].session => o = p
    /\ \A o \in Serving : life[op[o].session] # "free"

\* No handler runs on a session that has been deleted (safe_delete is there "to
\* prevent freeing the same memory twice").
NoUseAfterFree == \A w \in Worker : ~UseAfterFree(w)

\* A response stored in current_response_ is not replaced while a write that has not
\* been sent points at it (session.h: it "keeps response data alive during async
\* operations").  This is not said of the 413 of the size check, which is a local
\* string and gone when handle_read returns: its write may dangle.
StoredResponseAlive == \A o \in Op : Pending(o, "write") => op[o].buffer # "overwritten"

\* A session that exists has something left to run, so it is not forgotten.
NoSessionForgotten ==
    \A s \in Session : life[s] # "free" =>
        aborted \/ \E o \in Serving : op[o].session = s

\* The server always has exactly one accept in flight, whatever becomes of the
\* connections: as long as a thread is left, it goes on taking clients.
OneAccept ==
    \/ aborted
    \/ Cardinality({o \in Active : op[o].kind = "accept"}) = 1

\* When the client closes, the session is deleted.
ClosedIsFreed == \A s \in Session : peer[s] = "closed" ~> life[s] = "free"
===============================================================================
