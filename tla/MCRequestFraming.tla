--------------------------- MODULE MCRequestFraming ---------------------------
(* Instance of RequestFraming: up to MaxMessages of ten messages, so that       *)
(* requests are cut, joined, refused for their size, and malformed.             *)
EXTENDS RequestFraming

CONSTANT MaxMessages

MCRequest ==
    ("GET /echo"    :> [method |-> "GET",  handler |-> "EchoHandler"]) @@
    ("POST /echo"   :> [method |-> "POST", handler |-> "EchoHandler"]) @@
    ("GET /sleep"   :> [method |-> "GET",  handler |-> "SleepHandler"]) @@
    ("POST /health" :> [method |-> "POST", handler |-> "HealthHandler"]) @@
    ("GET /lost"    :> [method |-> "GET",  handler |-> "NotFoundHandler"]) @@
    ("GET /nowhere" :> [method |-> "GET",  handler |-> "none"]) @@
    ("GET /broken"  :> [method |-> "GET",  handler |-> "throws"])

MCDeclares == ("length 1" :> 1) @@ ("length 2" :> 2) @@ ("length 4" :> 4) @@ ("length 9" :> 9)

MCLine == {"blank", "close", "badlength"} \cup DOMAIN MCRequest \cup DOMAIN MCDeclares

Message ==
    {<<"GET /echo", "blank">>,
     <<"GET /sleep", "close", "blank">>,
     <<"POST /echo", "length 1", "blank", "GET /echo">>,
     <<"GET /lost", "close", "length 2", "blank", "blank", "close">>,
     <<"POST /health", "length 4", "blank", "blank", "blank", "blank", "blank">>,
     <<"GET /nowhere", "length 1", "length 2", "blank", "close">>,
     <<"GET /broken", "blank">>,
     <<"GET /echo", "length 9", "blank">>,
     <<"GET /echo", "badlength", "blank">>,
     <<"close", "blank">>,
     <<"blank">>}

MCStreams == SeqOf(Message, MaxMessages)
===============================================================================
