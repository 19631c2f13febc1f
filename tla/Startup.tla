------------------------------- MODULE Startup -------------------------------
(***************************************************************************)
(* parse_config (server/startup_utils.cc).  statements is the root block   *)
(* of the parsed file (ConfigParser); a statement has tokens, at least     *)
(* one, and may have a block, of which only the tokens of its statements   *)
(* matter here.  A token is a sequence of characters, and a name is one of *)
(* them.  Every round of the loop over the locations is one action.        *)
(***************************************************************************)
EXTENDS Integers, Sequences

CONSTANTS Configs,    \* the parsed files: sequences of statements
          Token,
          Stoi        \* the tokens std::stoi takes, with their ints

PORT_KEY == <<"port">>
LOCATION_KEY == <<"location">>
EchoHandler == <<"EchoHandler">>
Slash == <<"/">>

Statement == [tokens : Seq(Token) \ {<< >>}, block : Seq(Seq(Token))]

ASSUME TokenAssumption ==
    /\ Token \subseteq Seq(STRING) \ {<< >>}
    /\ {PORT_KEY, LOCATION_KEY, EchoHandler, Slash} \subseteq Token
    /\ DOMAIN Stoi \subseteq Token
    /\ \A t \in DOMAIN Stoi : Stoi[t] \in Int
ASSUME ConfigsAssumption == \A c \in Configs : c \in Seq(Statement)

VARIABLES
    statements,
    todo,         \* the locations the loop has not come to
    port_number,
    serving_path_set,
    route_map,
    result        \* "port", "locations", then "none", "payload" or "exception"

startup_vars == <<statements, todo, port_number, serving_path_set, route_map, result>>

NoPort == -1

\* unroll_one_level(statements).at(key)
Unrolled(key) == {n \in 1 .. Len(statements) : statements[n].tokens[1] = key}

\* The next of them in the order of the file.
First(n, numbers) == n \in numbers /\ \A m \in numbers : n <= m

StartupInit == /\ statements \in Configs
               /\ todo = {}
               /\ port_number = NoPort
               /\ serving_path_set = {}
               /\ route_map = << >>
               /\ result = "port"

EchoRoute == [p \in {Slash} |-> [handler |-> EchoHandler, arguments |-> << >>]]

Finish(outcome) == /\ result' = outcome
                   /\ UNCHANGED <<statements, todo, port_number, serving_path_set>>

-------------------------------------------------------------------------------
(* The port *)

NoPortFound == /\ result = "port" /\ Unrolled(PORT_KEY) = {}
               /\ Finish("none")
               /\ UNCHANGED route_map

Tokens(n) == statements[n].tokens

\* tokens_.at(1) and std::stoi do not throw.
HasPortNumber(n) == Len(Tokens(n)) > 1 /\ Tokens(n)[2] \in DOMAIN Stoi

BadPort(n) == /\ result = "port" /\ First(n, Unrolled(PORT_KEY))
              /\ ~HasPortNumber(n)
              /\ Finish("exception")
              /\ UNCHANGED route_map

\* The first "port" is chosen.
ReadPort(n) ==
    /\ result = "port" /\ First(n, Unrolled(PORT_KEY))
    /\ HasPortNumber(n)
    /\ port_number' = Stoi[Tokens(n)[2]]
    /\ todo' = Unrolled(LOCATION_KEY)
    /\ IF Unrolled(LOCATION_KEY) # {} THEN result' = "locations" /\ UNCHANGED route_map
                                      ELSE result' = "payload" /\ route_map' = EchoRoute
    /\ UNCHANGED <<statements, serving_path_set>>

-------------------------------------------------------------------------------
(* The loop over the locations *)

InLoop(n) == result = "locations" /\ First(n, todo)
ServingPath(n) == Tokens(n)[2]

SkipBadSignature(n) ==
    /\ InLoop(n) /\ Len(Tokens(n)) # 3
    /\ todo' = todo \ {n}
    /\ UNCHANGED <<statements, port_number, serving_path_set, route_map, result>>

string_is_quoted(text) ==
    Len(text) >= 2 /\ <<text[1], text[Len(text)]>> \in {<<"\"", "\"">>, <<"'", "'">>}

TrailingSlash(text) == Len(text) > 1 /\ text[Len(text)] = "/"

\* Mutant of Refused: duplicates are not looked for.
RefusedOnce(n) == TrailingSlash(ServingPath(n)) \/ string_is_quoted(ServingPath(n))

Refused(n) == \/ ServingPath(n) \in serving_path_set
              \/ TrailingSlash(ServingPath(n)) \/ string_is_quoted(ServingPath(n))

RefuseLocation(n) == /\ InLoop(n) /\ Len(Tokens(n)) = 3 /\ Refused(n)
                     /\ Finish("none")
                     /\ UNCHANGED route_map

Pairs(block) == {k \in 1 .. Len(block) : Len(block[k]) = 2}

\* The two-token statements of the block; insert keeps the first of a key.
Arguments(block) ==
    [key \in {block[k][1] : k \in Pairs(block)} |->
        block[CHOOSE k \in Pairs(block) : First(k, {m \in Pairs(block) : block[m][1] = key})][2]]

Routed(n) == [handler |-> Tokens(n)[3], arguments |-> Arguments(statements[n].block)]

\* route_map.insert, which leaves a path that is already there alone.
AddLocation(n) ==
    /\ InLoop(n) /\ Len(Tokens(n)) = 3 /\ ~Refused(n)
    /\ serving_path_set' = serving_path_set \cup {ServingPath(n)}
    /\ route_map' = [p \in DOMAIN route_map \cup {ServingPath(n)} |->
                        IF p \in DOMAIN route_map THEN route_map[p] ELSE Routed(n)]
    /\ todo' = todo \ {n}
    /\ UNCHANGED <<statements, port_number, result>>

EndOfLoop == /\ result = "locations" /\ todo = {}
             /\ Finish("payload")
             /\ route_map' = IF DOMAIN route_map = {} THEN EchoRoute ELSE route_map

StartupNext ==
    \/ NoPortFound \/ EndOfLoop
    \/ \E n \in 1 .. Len(statements) :
          BadPort(n) \/ ReadPort(n) \/ SkipBadSignature(n) \/ RefuseLocation(n) \/ AddLocation(n)

-------------------------------------------------------------------------------
(* Properties *)

\* Routing relies on it: the prefixes of an accepted file have neither quotes
\* nor a trailing slash.
RoutesAreCanonical ==
    result = "payload" =>
        \A p \in DOMAIN route_map : ~string_is_quoted(p) /\ ~TrailingSlash(p)

WellFormed == {n \in Unrolled(LOCATION_KEY) : Len(Tokens(n)) = 3}
===============================================================================
