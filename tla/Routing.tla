------------------------------- MODULE Routing -------------------------------
(***************************************************************************)
(* A request in a server that parse_config has configured (Startup): the   *)
(* loop of session::handle_read (server/session.cc) over the route map for *)
(* the longest prefix of the request's path, and the call of the factory   *)
(* registered for its handler.  std::map iterates in the order of its      *)
(* keys; the loop is modelled with any order.                              *)
(***************************************************************************)
EXTENDS Startup

CONSTANTS Path,        \* the paths of requests
          factories_,  \* the names REGISTER_HANDLER_WITH_NAME has put in the registry
          Needs,       \* the argument some handlers' constructors need, by name
          NoPrefix

ASSUME PathAssumption == \A p \in Path : p \in Seq(STRING) /\ p # << >>
ASSUME RegistryAssumption ==
    /\ DOMAIN Needs \subseteq factories_ /\ EchoHandler \in factories_ \ DOMAIN Needs
    /\ NoPrefix \notin Token

VARIABLES path,         \* of the request
          tried,        \* the prefixes the loop is through with
          best_prefix,
          outcome       \* "none", "routing", then "handled", "not_found" or "thrown"

routing_vars == <<path, tried, best_prefix, outcome>>
vars == <<startup_vars, routing_vars>>

Init == /\ StartupInit
        /\ path = << >> /\ tried = {} /\ best_prefix = NoPrefix /\ outcome = "none"

Configure == StartupNext /\ UNCHANGED routing_vars

\* main has built the server with route_map, and a session has parsed a request.
Request(p) == /\ result = "payload" /\ outcome = "none"
              /\ path' = p /\ outcome' = "routing"
              /\ UNCHANGED <<startup_vars, tried, best_prefix>>

\* Mutant of isPrefixMatch: a prefix ends anywhere.
IsStringPrefix(handler_prefix, request_path) ==
    /\ Len(handler_prefix) <= Len(request_path)
    /\ SubSeq(request_path, 1, Len(handler_prefix)) = handler_prefix

isPrefixMatch(handler_prefix, request_path) ==
    \/ handler_prefix = Slash
    \/ /\ Len(handler_prefix) <= Len(request_path)
       /\ SubSeq(request_path, 1, Len(handler_prefix)) = handler_prefix
       /\ \/ Len(handler_prefix) = Len(request_path)
          \/ request_path[Len(handler_prefix) + 1] = "/"

\* Mutant of Better: the last match is taken.
AnyMatch(prefix) == isPrefixMatch(prefix, path)

Better(prefix) == /\ isPrefixMatch(prefix, path)
                  /\ best_prefix = NoPrefix \/ Len(prefix) > Len(best_prefix)

Try(prefix) ==
    /\ outcome = "routing" /\ prefix \in DOMAIN route_map \ tried
    /\ tried' = tried \cup {prefix}
    /\ best_prefix' = IF Better(prefix) THEN prefix ELSE best_prefix
    /\ UNCHANGED <<startup_vars, path, outcome>>

\* get_factory returns no function for a name that is not registered, and calling
\* it throws bad_function_call; a constructor throws without the argument it needs.
Constructs(route) ==
    /\ route.handler \in factories_
    /\ route.handler \in DOMAIN Needs => Needs[route.handler] \in DOMAIN route.arguments

\* The response is the handler's, or a 404.
Respond ==
    /\ outcome = "routing" /\ tried = DOMAIN route_map
    /\ outcome' = IF best_prefix = NoPrefix THEN "not_found"
                  ELSE IF Constructs(route_map[best_prefix]) THEN "handled"
                  ELSE "thrown"
    /\ UNCHANGED <<startup_vars, path, tried, best_prefix>>

Next == Configure \/ Respond \/ (\E p \in Path : Request(p))
        \/ \E prefix \in Token : Try(prefix)

Spec == Init /\ [][Next]_vars

\* Mutant of RelativePath: no slash is put in front.
BareRelativePath(path_prefix, request_path) ==
    SubSeq(request_path, Len(path_prefix) + 1, Len(request_path))

\* What StaticFileHandler puts after its base directory: the rest of the path.
RelativePath(path_prefix, request_path) ==
    LET relative == SubSeq(request_path, Len(path_prefix) + 1, Len(request_path))
    IN IF relative # << >> /\ relative[1] # "/" THEN Slash \o relative ELSE relative

-------------------------------------------------------------------------------
(* Properties *)

Answered == outcome \in {"handled", "not_found", "thrown"}

Matches == {p \in DOMAIN route_map : isPrefixMatch(p, path)}

\* For a path that begins with "/"; the path "a" is matched by the prefixes "/"
\* and "a" alike, and is served by the first of them.
Absolute == path[1] = "/"

\* Location n names a handler that is registered, and has the argument it needs.
Usable(n) ==
    LET handler == Tokens(n)[3]
        block == statements[n].block
    IN /\ handler \in factories_
       /\ handler \in DOMAIN Needs =>
             \E k \in 1 .. Len(block) : Len(block[k]) = 2 /\ block[k][1] = Needs[handler]

\* Every usable location of an accepted file is served by its own handler, with its own
\* arguments: none is overwritten or dropped because another has its path, and nothing
\* is served that is not in the file.  (Of the others see DefaultsToEcho.)
ServedAsConfigured ==
    result = "payload" =>
        IF WellFormed = {} THEN route_map = EchoRoute
        ELSE /\ DOMAIN route_map = {ServingPath(n) : n \in WellFormed}
             /\ \A n \in WellFormed :
                   \/ route_map[ServingPath(n)] = Routed(n)
                   \/ ~Usable(n) /\ route_map[ServingPath(n)].handler = EchoHandler

\* A location that is not usable is served by EchoHandler (startup_utils_test.cc, of a
\* StaticHandler without a root and of an unknown handler: "this is not an error, so it
\* defaults to EchoHandler").
DefaultsToEcho ==
    result = "payload" =>
        \A n \in WellFormed :
            ~Usable(n) => route_map[ServingPath(n)].handler = EchoHandler

\* When the loop is over it has found the longest match, if there is a match, and
\* the only one: what serves a path does not depend on the order of the loop.
LongestMatch ==
    Answered =>
        IF Matches = {} THEN best_prefix = NoPrefix
        ELSE /\ best_prefix \in Matches
             /\ \A p \in Matches :
                   /\ Len(p) <= Len(best_prefix)
                   /\ Absolute /\ Len(p) = Len(best_prefix) => p = best_prefix

\* The file StaticFileHandler looks for is the rest of the path below its base
\* directory, so prefix and file together spell the request, and "/ab" never
\* finds the file b of the location "/a".  (Of "//b" the prefix "/" leaves "/b".)
FileIsRestOfPath ==
    Answered /\ Absolute /\ best_prefix # NoPrefix =>
        LET relative == RelativePath(best_prefix, path)
        IN /\ relative = << >> \/ relative[1] = "/"
           /\ Len(path) > 1 /\ path[2] # "/" =>
                 path = IF best_prefix = Slash THEN relative ELSE best_prefix \o relative

\* Where the segments of s begin and end: at its slashes, before it and after it.
Bounds(s) == {0} \cup {k \in 1 .. Len(s) : s[k] = "/"} \cup {Len(s) + 1}
Gaps(s) == {gap \in Bounds(s) \X Bounds(s) :
                gap[1] < gap[2] /\ \A k \in Bounds(s) : ~(gap[1] < k /\ k < gap[2])}

\* The segments of s, each with its place; "/" has none.
Segments(s) ==
    IF s = Slash THEN {} ELSE {<<gap[1], SubSeq(s, gap[1] + 1, gap[2] - 1)>> : gap \in Gaps(s)}

\* A path that begins with "/" is answered as the file says, from whatever it has
\* gone through in parse_config and the route map: by the location whose segments
\* are the most of its first ones ("/a" serves "/a" and "/a/b" but not "/ab").
\* If there is none the answer is a 404.  An exception is only ever the answer of a
\* location that is not usable.
AnsweredAsConfigured ==
    Answered /\ Absolute =>
        LET servers == {n \in WellFormed : Segments(ServingPath(n)) \subseteq Segments(path)}
        IN \/ WellFormed = {} /\ outcome = "handled"
           \/ WellFormed # {} /\ servers = {} /\ outcome = "not_found"
           \/ \E n \in servers :
                 /\ \A m \in servers \ {n} :
                       /\ Segments(ServingPath(m)) \subseteq Segments(ServingPath(n))
                       /\ Segments(ServingPath(m)) # Segments(ServingPath(n))
                 /\ best_prefix = ServingPath(n)
                 /\ outcome = "handled" \/ (~Usable(n) /\ outcome = "thrown")
===============================================================================
