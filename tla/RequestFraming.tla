---------------------------- MODULE RequestFraming ----------------------------
(***************************************************************************)
(* How handle_read (server/session.cc) finds the requests in the bytes of  *)
(* a connection, however the network splits them.  Session has the threads *)
(* and the life of a session; here one thread runs the handlers of one     *)
(* session, in the order in which their operations completed.              *)
(*                                                                         *)
(* The unit is the line, "\r\n" included: "blank" is an empty one, "close" *)
(* is "Connection: close", the members of DOMAIN Declares are              *)
(* Content-Length lines and "badlength" is one std::stoul throws on; the   *)
(* members of DOMAIN Request are request lines.  A body may have any line. *)
(***************************************************************************)
EXTENDS Integers, Sequences, FiniteSetsExt, SequencesExt

CONSTANTS Streams,            \* what a client may send: sequences of messages
          Line, Request,      \* Request[l]: the method and the handler of a request line
          Declares,           \* Declares[l]: the number in a Content-Length line
          MaxLength,          \* max_length, max_request_size_ and max_content_length_,
          MaxRequestSize,     \* in lines
          MaxContentLength

ASSUME LineAssumption ==
    /\ Streams \subseteq Seq(Seq(Line))
    /\ {"blank", "close", "badlength"} \subseteq Line \ (DOMAIN Request \cup DOMAIN Declares)
    /\ DOMAIN Request \cup DOMAIN Declares \subseteq Line
    /\ DOMAIN Request \cap DOMAIN Declares = {}
    /\ \A l \in DOMAIN Declares : Declares[l] \in Nat
ASSUME LimitsAssumption ==
    /\ MaxLength \in Nat \ {0} /\ MaxRequestSize \in Nat /\ MaxContentLength \in Nat
    /\ MaxLength <= MaxRequestSize /\ MaxRequestSize <= MaxContentLength

VARIABLES
    messages, stream, \* what the client sends, and its lines
    patient,          \* whether it sends no line before the last one was handled
    pos,              \* how many lines the kernel has delivered
    reads, writes,    \* operations that are pending
    queue,            \* completed ones, whose handlers have not run
    data_,
    request_buffer_,
    at,               \* "run": io_service::run, "loop": in handle_read, or "dead"
    requests,         \* full_request of each request so far
    replies           \* the status lines written so far

client == <<messages, stream, patient>>

vars == <<client, pos, reads, writes, queue, data_, request_buffer_, at, requests, replies>>

Init == /\ messages \in Streams /\ stream = FlattenSeq(messages)
        /\ patient \in BOOLEAN
        /\ pos = 0
        /\ reads = 1 /\ writes = 0      \* start()
        /\ queue = << >> /\ data_ = << >> /\ request_buffer_ = << >>
        /\ at = "run"
        /\ requests = << >> /\ replies = << >>

-------------------------------------------------------------------------------
(* The lines of a request *)

\* find("\r\n\r\n"): an empty line after another line.
Ends(buf) == {k \in 2 .. Len(buf) : buf[k] = "blank"}
HasHeaders(buf) == Ends(buf) # {}
HeaderEnd(buf) == Min(Ends(buf))

\* The Content-Length lines that are looked at: none if an empty line comes first.
LengthLines(buf) ==
    {k \in 1 .. HeaderEnd(buf) : /\ buf[1] # "blank"
                                 /\ buf[k] = "badlength" \/ buf[k] \in DOMAIN Declares}

\* The first of them that is refused, by std::stoul or by the limit.
Refused(buf) ==
    {k \in LengthLines(buf) : buf[k] = "badlength" \/ Declares[buf[k]] > MaxContentLength}

ContentLength(buf) ==
    IF LengthLines(buf) = {} THEN 0 ELSE Declares[buf[Max(LengthLines(buf))]]

TotalRequestSize(buf) == HeaderEnd(buf) + ContentLength(buf)

Complete(buf) == /\ HasHeaders(buf) /\ Refused(buf) = {}
                 /\ TotalRequestSize(buf) <= Len(buf)

\* ParseRequest skips an empty line before the request line.
RequestLine(r) == IF r[1] = "blank" THEN r[2] ELSE r[1]
Malformed(r) == RequestLine(r) \notin DOMAIN Request
Closes(r) == \E k \in 1 .. HeaderEnd(r) : r[k] = "close"

-------------------------------------------------------------------------------
(* Responses *)

\* handle_request of the handlers that need only the request.  "StaticHandler" and
\* "EntityHandler" have modules of their own.
Echo(method) == IF method = "GET" THEN 200 ELSE 400
Sleep(method) == IF method = "GET" THEN 200 ELSE 400

Status(request) == CASE request.handler = "EchoHandler"     -> Echo(request.method)
                     [] request.handler = "SleepHandler"    -> Sleep(request.method)
                     [] request.handler = "HealthHandler"   -> 200
                     [] request.handler = "NotFoundHandler" -> 404
                     [] request.handler = "none"            -> 404

\* ToString: a status it does not name is written as 500.
StatusLine(status) == IF status \in {200, 400, 403, 404} THEN status ELSE 500

Throws(r) == ~Malformed(r) /\ Request[RequestLine(r)].handler = "throws"

Answer(r) == StatusLine(IF Malformed(r) THEN 400 ELSE Status(Request[RequestLine(r)]))

Respond(statusLine) == replies' = Append(replies, statusLine) /\ writes' = writes + 1

-------------------------------------------------------------------------------
(* The network and io_service *)

ReadQueued == \E k \in 1 .. Len(queue) : queue[k].kind = "read"

\* A read takes what there is, up to max_length, over the first bytes of data_.
Receive ==
    /\ at # "dead" /\ reads > 0
    /\ patient => ~ReadQueued
    /\ \E n \in 1 .. MaxLength :
          /\ pos + n <= Len(stream)
          /\ data_' = SubSeq(stream, pos + 1, pos + n) \o SubSeq(data_, n + 1, Len(data_))
          /\ queue' = Append(queue, [kind |-> "read", n |-> n])
          /\ pos' = pos + n
    /\ reads' = reads - 1
    /\ UNCHANGED <<client, writes, request_buffer_, at, requests, replies>>

Sent == /\ at # "dead" /\ writes > 0
        /\ writes' = writes - 1
        /\ queue' = Append(queue, [kind |-> "write", n |-> 0])
        /\ UNCHANGED <<client, pos, reads, data_, request_buffer_, at, requests, replies>>

\* The handler of the first completed operation is run.
Run(kind) == /\ at = "run" /\ queue # << >>
             /\ Head(queue).kind = kind
             /\ queue' = Tail(queue)

HandleWrite == /\ Run("write")
               /\ reads' = reads + 1
               /\ UNCHANGED <<client, pos, writes, data_, request_buffer_, at, requests, replies>>

-------------------------------------------------------------------------------
(* handle_read *)

\* Mutants of Exceeds: the limit itself is refused; the limit of the body is used.
ExceedsOrEquals(size) == size >= MaxRequestSize
ExceedsContent(size) == size > MaxContentLength

Exceeds(size) == size > MaxRequestSize

NewSize == Len(request_buffer_) + Head(queue).n

\* The bytes just read are dropped; the 413 does not end the connection.
RequestTooLarge ==
    /\ Run("read")
    /\ Exceeds(NewSize)
    /\ Respond(413)
    /\ UNCHANGED <<client, pos, reads, data_, request_buffer_, at, requests>>

AppendData ==
    /\ Run("read")
    /\ ~Exceeds(NewSize)
    /\ request_buffer_' = request_buffer_ \o SubSeq(data_, 1, Head(queue).n)
    /\ at' = "loop"
    /\ UNCHANGED <<client, pos, reads, writes, data_, requests, replies>>

\* Mutant of WaitForMore: handle_read leaves the reading to handle_write.
WaitForWrite ==
    /\ at = "loop"
    /\ HasHeaders(request_buffer_) => /\ Refused(request_buffer_) = {}
                                      /\ ~Complete(request_buffer_)
    /\ at' = "run"
    /\ UNCHANGED <<client, pos, reads, writes, queue, data_, request_buffer_, requests, replies>>

WaitForMore ==
    /\ at = "loop"
    /\ HasHeaders(request_buffer_) => /\ Refused(request_buffer_) = {}
                                      /\ ~Complete(request_buffer_)
    /\ reads' = reads + 1
    /\ at' = "run"
    /\ UNCHANGED <<client, pos, writes, queue, data_, request_buffer_, requests, replies>>

\* std::stoul throws, or a 413 is sent, which ToString writes as a 500; the
\* request stays in request_buffer_.
RefuseContentLength ==
    /\ at = "loop"
    /\ HasHeaders(request_buffer_) /\ Refused(request_buffer_) # {}
    /\ LET line == request_buffer_[Min(Refused(request_buffer_))]
       IN \/ line = "badlength" /\ at' = "dead" /\ UNCHANGED <<writes, replies>>
          \/ line # "badlength" /\ at' = "run" /\ Respond(StatusLine(413))
    /\ UNCHANGED <<client, pos, reads, queue, data_, request_buffer_, requests>>

\* Mutant of FullRequest: the body is left in the buffer.
HeaderPart == SubSeq(request_buffer_, 1, HeaderEnd(request_buffer_))

FullRequest == SubSeq(request_buffer_, 1, TotalRequestSize(request_buffer_))

TakeRequest ==
    /\ at = "loop" /\ Complete(request_buffer_)
    /\ request_buffer_' = SubSeq(request_buffer_, Len(FullRequest) + 1, Len(request_buffer_))
    /\ requests' = Append(requests, FullRequest)

BadRequest ==
    /\ TakeRequest
    /\ Malformed(FullRequest)
    /\ Respond(StatusLine(400))
    /\ at' = "run"
    /\ UNCHANGED <<client, pos, reads, queue, data_>>

\* The factory or the handler throws, which ends the thread.
HandlerThrows ==
    /\ TakeRequest
    /\ Throws(FullRequest)
    /\ at' = "dead"
    /\ UNCHANGED <<client, pos, reads, writes, queue, data_, replies>>

RespondAndReturn ==
    /\ TakeRequest
    /\ ~Malformed(FullRequest) /\ ~Throws(FullRequest) /\ Closes(FullRequest)
    /\ Respond(Answer(FullRequest))
    /\ at' = "run"
    /\ UNCHANGED <<client, pos, reads, queue, data_>>

\* Mutant of RespondAndContinue: one request per read.
RespondAndReadAgain ==
    /\ TakeRequest
    /\ ~Malformed(FullRequest) /\ ~Throws(FullRequest) /\ ~Closes(FullRequest)
    /\ Respond(Answer(FullRequest))
    /\ reads' = reads + 1
    /\ at' = "run"
    /\ UNCHANGED <<client, pos, queue, data_>>

RespondAndContinue ==
    /\ TakeRequest
    /\ ~Malformed(FullRequest) /\ ~Throws(FullRequest) /\ ~Closes(FullRequest)
    /\ Respond(Answer(FullRequest))
    /\ UNCHANGED <<client, pos, reads, queue, data_, at>>

HandleRead == \/ RequestTooLarge \/ AppendData
              \/ WaitForMore \/ RefuseContentLength
              \/ BadRequest \/ HandlerThrows \/ RespondAndReturn \/ RespondAndContinue

Next == Receive \/ Sent \/ HandleWrite \/ HandleRead

Spec == Init /\ [][Next]_vars

\* The client goes on sending, the kernel delivers, and io_service::run goes on.
FairSpec == Spec /\ WF_vars(Receive) /\ WF_vars(Sent) /\ WF_vars(HandleWrite \/ HandleRead)

-------------------------------------------------------------------------------
(* Properties *)

\* The variables have their types, and request_buffer_ never outgrows
\* max_request_size_ (session.cc:106), whatever is sent.
TypeOK ==
    /\ stream \in Seq(Line) /\ patient \in BOOLEAN
    /\ pos \in 0 .. Len(stream)
    /\ reads \in Nat /\ writes \in Nat
    /\ queue \in Seq([kind : {"read", "write"}, n : 0 .. MaxLength])
    /\ data_ \in Seq(Line) /\ Len(data_) <= MaxLength
    /\ request_buffer_ \in Seq(Line) /\ Len(request_buffer_) <= MaxRequestSize
    /\ at \in {"run", "loop", "dead"}
    /\ requests \in Seq(Seq(Line))
    /\ replies \in Seq({200, 400, 403, 404, 413, 500})

\* A message as RFC 7230 has it: a request line, headers, an empty line and the body.
WellFormed(msg) ==
    \E h \in 2 .. Len(msg) :
        LET lengths == {k \in 2 .. h : msg[k] \in DOMAIN Declares} IN
        /\ msg[1] \in DOMAIN Request
        /\ msg[h] = "blank"
        /\ \A k \in 2 .. h - 1 : msg[k] # "blank" /\ msg[k] # "badlength"
        /\ \/ lengths = {} /\ Len(msg) = h
           \/ \E k \in lengths : lengths = {k} /\ Len(msg) = h + Declares[msg[k]]

\* Only one operation of the session was ever pending, or bytes never come
\* while data_ is in use.
OneAtATime == patient \/ \A k \in DOMAIN requests : Closes(requests[k]) \/ Malformed(requests[k])

\* However the network splits and joins the bytes, the requests handle_read
\* passes on are the messages the client sent, each with its own body and in
\* order, as long as data_ is not overwritten and no bytes were dropped with a 413.
RequestsAreMessages ==
    (/\ OneAtATime
     /\ \A k \in DOMAIN replies : replies[k] # 413
     /\ \A k \in DOMAIN messages : WellFormed(messages[k]))
        => IsPrefix(requests, messages)

\* A session that waits has answered every request in its buffer, unless one of
\* them was to be the last: the loop of handle_read does not stop early.
NoneOverlooked ==
    (/\ at = "run"
     /\ \A k \in DOMAIN requests : ~Closes(requests[k]) /\ ~Malformed(requests[k]))
        => ~Complete(request_buffer_)

\* A first request that ends max_length before max_request_size_ is not refused
\* for its size, whatever follows it; nearer to the limit, what follows counts.
SmallRequestsFit ==
    replies # << >> /\ replies[1] = 413
        => ~(Complete(stream) /\ TotalRequestSize(stream) - 1 + MaxLength <= MaxRequestSize)

\* The connection never goes deaf: after every answer, refusal and partial
\* request another read is started, until a handler throws.
EverythingIsRead == <>(at = "dead" \/ pos = Len(stream))
===============================================================================
