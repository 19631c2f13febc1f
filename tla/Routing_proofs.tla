---------------------------- MODULE Routing_proofs ----------------------------
(***************************************************************************)
(* From the file to the handler: parse_config returns a route for every    *)
(* location of every file it accepts, the routing loop finds the longest   *)
(* match among them, and the path is answered as the file says, for every  *)
(* file and every path.                                                    *)
(***************************************************************************)
EXTENDS Routing, SequenceTheorems, WellFoundedInduction, TLAPS

-------------------------------------------------------------------------------
(* parse_config                                                                *)

\* The locations the loop is through with, of those with three tokens.
Seen == WellFormed \ todo

\* Every location has the route it asks for, usable or not.
RoutesAreOwn ==
    result = "payload" =>
        IF WellFormed = {} THEN route_map = EchoRoute
        ELSE /\ DOMAIN route_map = {ServingPath(n) : n \in WellFormed}
             /\ \A n \in WellFormed : route_map[ServingPath(n)] = Routed(n)

\* What parse_config knows in each of its parts.
StartupInv ==
    /\ statements \in Configs
    /\ todo \subseteq Unrolled(LOCATION_KEY)
    /\ result \in {"port", "locations", "payload", "none", "exception"}
    /\ result = "port" => DOMAIN route_map = {} /\ serving_path_set = {}
    /\ result = "locations" =>
          /\ serving_path_set = DOMAIN route_map
          /\ DOMAIN route_map = {ServingPath(n) : n \in Seen}
          /\ \A n \in Seen : route_map[ServingPath(n)] = Routed(n)
    /\ DOMAIN route_map \subseteq Token
    /\ \A p \in DOMAIN route_map : ~string_is_quoted(p) /\ ~TrailingSlash(p)
    /\ RoutesAreOwn

\* The tokens of a statement with three of them are tokens.
LEMMA StatementTokens ==
    ASSUME statements \in Configs, NEW n \in 1 .. Len(statements), Len(Tokens(n)) = 3
    PROVE  ServingPath(n) \in Token
<1>1. statements \in Seq(Statement)
    BY ConfigsAssumption
<1>2. statements[n] \in Statement
    BY <1>1
<1>3. Tokens(n) \in Seq(Token)
    BY <1>2 DEF Statement, Tokens
<1>4. 2 \in 1 .. Len(Tokens(n))
    OBVIOUS
<1>5. ASSUME NEW s \in Seq(Token), NEW k \in 1 .. Len(s)
      PROVE  s[k] \in Token
    BY <1>5
<1>6. Tokens(n)[2] \in Token
    BY <1>3, <1>4, <1>5
<1> QED BY <1>6 DEF ServingPath

\* The default route is a token and canonical.
LEMMA EchoIsCanonical == /\ Slash \in Token
                         /\ DOMAIN EchoRoute = {Slash}
                         /\ ~string_is_quoted(Slash) /\ ~TrailingSlash(Slash)
<1>1. Len(Slash) = 1
    BY DEF Slash
<1> QED BY <1>1, TokenAssumption DEF EchoRoute, string_is_quoted, TrailingSlash

\* What stays as it is while the statements do.
LEMMA SameStatements ==
    ASSUME statements' = statements
    PROVE  /\ \A key : Unrolled(key)' = Unrolled(key)
           /\ WellFormed' = WellFormed
           /\ \A n : Tokens(n)' = Tokens(n) /\ ServingPath(n)' = ServingPath(n)
           /\ \A n : Routed(n)' = Routed(n)
    BY DEF Unrolled, WellFormed, Tokens, ServingPath, Routed

\* Nothing is configured yet.
LEMMA StartupInitInv == StartupInit => StartupInv
    BY DEF StartupInit, StartupInv, RoutesAreOwn

\* A round of the loop that adds a location adds a new path, and its route.
LEMMA AddLocationInv ==
    ASSUME StartupInv, NEW n \in 1 .. Len(statements), AddLocation(n)
    PROVE  StartupInv'
<1> USE DEF StartupInv
<1>1. /\ result = "locations" /\ n \in todo /\ Len(Tokens(n)) = 3 /\ ~Refused(n)
      /\ statements' = statements /\ result' = result /\ todo' = todo \ {n}
      /\ serving_path_set' = serving_path_set \cup {ServingPath(n)}
    BY DEF AddLocation, InLoop, First
<1>2. /\ ServingPath(n) \in Token /\ ServingPath(n) \notin DOMAIN route_map
      /\ ~string_is_quoted(ServingPath(n)) /\ ~TrailingSlash(ServingPath(n))
    BY <1>1, StatementTokens DEF Refused
<1>3. DOMAIN route_map' = DOMAIN route_map \cup {ServingPath(n)}
    BY DEF AddLocation
<1>4. /\ route_map'[ServingPath(n)] = Routed(n)
      /\ \A p \in DOMAIN route_map : route_map'[p] = route_map[p]
    BY <1>2 DEF AddLocation
<1>5. n \in WellFormed
    BY <1>1 DEF WellFormed
<1>6. Seen' = Seen \cup {n}
    BY <1>1, <1>5, SameStatements DEF Seen
<1>7. DOMAIN route_map' = {ServingPath(m)' : m \in Seen'}
    <2>1. DOMAIN route_map' = {ServingPath(m) : m \in Seen} \cup {ServingPath(n)}
        BY <1>1, <1>3
    <2> QED BY <1>1, <1>6, <2>1, SameStatements
<1>8. ASSUME NEW m \in Seen'
      PROVE  route_map'[ServingPath(m)'] = Routed(m)'
    <2>1. ServingPath(m)' = ServingPath(m) /\ Routed(m)' = Routed(m)
        BY <1>1, SameStatements
    <2>2. CASE m = n
        BY <1>4, <2>1, <2>2
    <2>3. CASE m \in Seen
        <3>1. ServingPath(m) \in DOMAIN route_map /\ route_map[ServingPath(m)] = Routed(m)
            BY <1>1, <2>3
        <3> QED BY <1>4, <2>1, <3>1
    <2> QED BY <1>6, <2>2, <2>3
<1>9. todo' \subseteq Unrolled(LOCATION_KEY)'
    BY <1>1, SameStatements
<1>10. RoutesAreOwn'
    BY <1>1 DEF RoutesAreOwn
<1> QED BY <1>1, <1>2, <1>3, <1>7, <1>8, <1>9, <1>10

\* The end of the loop: every location with three tokens has been added.
LEMMA EndOfLoopInv == ASSUME StartupInv, EndOfLoop PROVE StartupInv'
<1> USE DEF StartupInv
<1>1. /\ result = "locations" /\ todo = {} /\ result' = "payload"
      /\ UNCHANGED <<statements, todo, port_number, serving_path_set>>
      /\ route_map' = IF DOMAIN route_map = {} THEN EchoRoute ELSE route_map
    BY DEF EndOfLoop, Finish
<1>2. Seen = WellFormed
    BY <1>1 DEF Seen
<1>3. DOMAIN route_map = {} <=> WellFormed = {}
    BY <1>1, <1>2
<1>4. RoutesAreOwn'
    <2>1. CASE WellFormed = {}
        BY <1>1, <1>3, <2>1, SameStatements DEF RoutesAreOwn, EchoRoute
    <2>2. CASE WellFormed # {}
        <3>1. route_map' = route_map
            BY <1>1, <1>3, <2>2
        <3>2. \A n : ServingPath(n)' = ServingPath(n) /\ Routed(n)' = Routed(n)
            BY <1>1, SameStatements
        <3>3. WellFormed' = WellFormed
            BY <1>1, SameStatements
        <3> QED BY <1>1, <1>2, <2>2, <3>1, <3>2, <3>3 DEF RoutesAreOwn
    <2> QED BY <2>1, <2>2
<1>5. todo' \subseteq Unrolled(LOCATION_KEY)'
    BY <1>1, SameStatements
<1> QED BY <1>1, <1>4, <1>5, EchoIsCanonical

\* Every step of parse_config keeps what it knows.
LEMMA StartupNextInv == StartupInv /\ [StartupNext]_startup_vars => StartupInv'
<1> SUFFICES ASSUME StartupInv, [StartupNext]_startup_vars PROVE StartupInv'
    OBVIOUS
<1> USE DEF StartupInv
<1>1. ASSUME UNCHANGED <<statements, todo, serving_path_set, route_map>>,
             result' \in {"none", "exception"}
      PROVE  StartupInv'
    <2>1. todo' \subseteq Unrolled(LOCATION_KEY)'
        BY <1>1, SameStatements
    <2> QED BY <1>1, <2>1 DEF RoutesAreOwn
<1>2. CASE NoPortFound
    BY <1>1, <1>2 DEF NoPortFound, Finish
<1>3. CASE EndOfLoop
    BY <1>3, EndOfLoopInv
<1>4. ASSUME NEW n \in 1 .. Len(statements), BadPort(n) PROVE StartupInv'
    BY <1>1, <1>4 DEF BadPort, Finish
<1>5. ASSUME NEW n \in 1 .. Len(statements), ReadPort(n) PROVE StartupInv'
    <2>1. /\ result = "port" /\ todo' = Unrolled(LOCATION_KEY)
          /\ UNCHANGED <<statements, serving_path_set>>
        BY <1>5 DEF ReadPort
    <2>2. todo' \subseteq Unrolled(LOCATION_KEY)' /\ Seen' = {}
        BY <2>1, SameStatements DEF Seen, WellFormed
    <2>3. CASE Unrolled(LOCATION_KEY) # {}
        <3>1. result' = "locations" /\ route_map' = route_map
            BY <1>5, <2>3 DEF ReadPort
        <3> QED BY <2>1, <2>2, <3>1 DEF RoutesAreOwn
    <2>4. CASE Unrolled(LOCATION_KEY) = {}
        <3>1. result' = "payload" /\ route_map' = EchoRoute
            BY <1>5, <2>4 DEF ReadPort
        <3>2. WellFormed' = {} /\ EchoRoute' = EchoRoute
            BY <2>1, <2>4, SameStatements DEF WellFormed, EchoRoute
        <3> QED BY <2>1, <2>2, <3>1, <3>2, EchoIsCanonical DEF RoutesAreOwn
    <2> QED BY <2>3, <2>4
<1>6. ASSUME NEW n \in 1 .. Len(statements), SkipBadSignature(n) PROVE StartupInv'
    <2>1. /\ result = "locations" /\ Len(Tokens(n)) # 3 /\ todo' = todo \ {n}
          /\ UNCHANGED <<statements, serving_path_set, route_map, result>>
        BY <1>6 DEF SkipBadSignature, InLoop
    <2>2. n \notin WellFormed
        BY <2>1 DEF WellFormed
    <2>3. Seen' = Seen
        BY <2>1, <2>2, SameStatements DEF Seen
    <2>4. \A m : ServingPath(m)' = ServingPath(m) /\ Routed(m)' = Routed(m)
        BY <2>1, SameStatements
    <2>5. todo' \subseteq Unrolled(LOCATION_KEY)'
        BY <2>1, SameStatements
    <2> QED BY <2>1, <2>3, <2>4, <2>5 DEF RoutesAreOwn
<1>7. ASSUME NEW n \in 1 .. Len(statements), RefuseLocation(n) PROVE StartupInv'
    BY <1>1, <1>7 DEF RefuseLocation, Finish
<1>8. CASE UNCHANGED startup_vars
    <2>1. /\ Seen' = Seen /\ WellFormed' = WellFormed
          /\ todo' \subseteq Unrolled(LOCATION_KEY)'
          /\ \A m : ServingPath(m)' = ServingPath(m) /\ Routed(m)' = Routed(m)
        BY <1>8, SameStatements DEF startup_vars, Seen
    <2> QED BY <1>8, <2>1 DEF startup_vars, RoutesAreOwn
<1> QED BY <1>2, <1>3, <1>4, <1>5, <1>6, <1>7, <1>8, AddLocationInv DEF StartupNext

-------------------------------------------------------------------------------
(* The routing loop                                                            *)

\* What the loop knows when it has tried some of the prefixes.
LoopInv ==
    /\ outcome \in {"none", "routing", "handled", "not_found", "thrown"}
    /\ outcome # "none" => result = "payload" /\ path \in Path
    /\ outcome = "none" => tried = {}
    /\ tried \subseteq DOMAIN route_map
    /\ Answered => tried = DOMAIN route_map
    /\ IF Matches \cap tried = {} THEN best_prefix = NoPrefix
       ELSE /\ best_prefix \in Matches \cap tried
            /\ \A p \in Matches \cap tried : Len(p) <= Len(best_prefix)

\* The prefixes of a route map are sequences with at least one character.
LEMMA RoutePrefixes ==
    ASSUME StartupInv, NEW p \in DOMAIN route_map
    PROVE  p \in Seq(STRING) /\ Len(p) \in Nat \ {0} /\ p # NoPrefix
<1>1. p \in Token
    BY DEF StartupInv
<1>2. p \in Seq(STRING) /\ p # << >> /\ p # NoPrefix
    BY <1>1, TokenAssumption, RegistryAssumption
<1> QED BY <1>2

\* A match of a path that begins with "/" is the beginning of the path.
LEMMA MatchIsBeginning ==
    ASSUME StartupInv, path \in Path, Absolute, NEW r \in Matches
    PROVE  r = SubSeq(path, 1, Len(r))
<1>1. path \in Seq(STRING) /\ path # << >>
    BY PathAssumption
<1>2. SubSeq(path, 1, 1) = <<"/">>
    <2>1. Len(path) \in Nat /\ Len(path) >= 1
        BY <1>1
    <2>2. SubSeq(path, 1, 1) = [k \in 1 .. 1 |-> path[k]]
        BY <2>1, <1>1
    <2>3. [k \in 1 .. 1 |-> path[k]] = <<path[1]>>
        OBVIOUS
    <2> QED BY <2>2, <2>3 DEF Absolute
<1>3. CASE r = Slash
    BY <1>3, <1>2 DEF Slash
<1>4. CASE r # Slash
    BY <1>4 DEF Matches, isPrefixMatch
<1> QED BY <1>3, <1>4

\* Two prefixes of one length that match such a path are the same.
LEMMA MatchIsUnique ==
    ASSUME StartupInv, path \in Path, Absolute,
           NEW p \in Matches, NEW q \in Matches, Len(p) = Len(q)
    PROVE  p = q
    BY MatchIsBeginning

\* Every step of a request keeps what the loop knows.
LEMMA LoopNext == StartupInv /\ LoopInv /\ [Next]_vars => LoopInv'
<1> SUFFICES ASSUME StartupInv, LoopInv, [Next]_vars PROVE LoopInv'
    OBVIOUS
<1> USE DEF LoopInv, Answered
<1>1. ASSUME NEW prefix \in Token, Try(prefix) PROVE LoopInv'
    <2>1. /\ route_map' = route_map /\ path' = path /\ outcome' = outcome /\ result' = result
          /\ tried' = tried \cup {prefix} /\ prefix \in DOMAIN route_map
          /\ outcome = "routing"
        BY <1>1 DEF Try, startup_vars
    <2>2. Matches' = Matches
        BY <2>1 DEF Matches
    <2>3. \A p \in DOMAIN route_map : Len(p) \in Nat /\ p # NoPrefix
        BY RoutePrefixes
    <2>4. CASE Better(prefix)
        <3>1. best_prefix' = prefix /\ prefix \in Matches
            BY <1>1, <2>1, <2>4 DEF Try, Better, Matches
        <3>2. ASSUME NEW p \in Matches \cap tried PROVE Len(p) <= Len(prefix)
            <4>1. best_prefix \in Matches \cap tried /\ Len(p) <= Len(best_prefix)
                OBVIOUS
            <4>2. best_prefix # NoPrefix /\ Len(best_prefix) \in Nat
                BY <4>1, <2>3 DEF Matches
            <4>3. Len(prefix) > Len(best_prefix)
                BY <4>2, <2>4 DEF Better
            <4> QED BY <4>1, <4>2, <4>3, <2>1, <2>3 DEF Matches
        <3>3. Len(prefix) <= Len(prefix)
            BY <2>1, <2>3
        <3> QED
            BY <2>1, <2>2, <3>1, <3>2, <3>3
    <2>5. CASE ~Better(prefix)
        <3>1. best_prefix' = best_prefix
            BY <1>1, <2>5 DEF Try
        <3>2. CASE prefix \notin Matches
            BY <2>1, <2>2, <3>1, <3>2
        <3>3. CASE prefix \in Matches
            <4>1. best_prefix # NoPrefix /\ ~(Len(prefix) > Len(best_prefix))
                BY <3>3, <2>5 DEF Better, Matches
            <4>2. best_prefix \in Matches \cap tried
                BY <4>1
            <4>3. Len(prefix) <= Len(best_prefix)
                BY <4>1, <4>2, <2>1, <2>3 DEF Matches
            <4> QED
                BY <2>1, <2>2, <3>1, <4>2, <4>3
        <3> QED BY <3>2, <3>3
    <2> QED BY <2>4, <2>5
<1>2. CASE Respond
    <2>1. /\ UNCHANGED <<route_map, result, path, tried, best_prefix>>
          /\ outcome = "routing" /\ tried = DOMAIN route_map
          /\ outcome' \in {"handled", "not_found", "thrown"}
        BY <1>2 DEF Respond, startup_vars
    <2>2. Matches' = Matches
        BY <2>1 DEF Matches
    <2> QED BY <2>1, <2>2
<1>3. ASSUME NEW p \in Path, Request(p) PROVE LoopInv'
    BY <1>3 DEF Request, startup_vars
<1>4. CASE Configure
    <2>1. UNCHANGED <<path, tried, best_prefix, outcome>>
        BY <1>4 DEF Configure, routing_vars
    <2>2. result # "payload"
        BY <1>4 DEF Configure, StartupNext, NoPortFound, EndOfLoop, BadPort, ReadPort,
           SkipBadSignature, RefuseLocation, AddLocation, InLoop
    <2> QED BY <2>1, <2>2
<1>5. CASE UNCHANGED vars
    BY <1>5 DEF vars, startup_vars, routing_vars, Matches
<1> QED
    BY <1>1, <1>2, <1>3, <1>4, <1>5 DEF Next

-------------------------------------------------------------------------------

\* parse_config and the routing loop keep to their invariants in every execution.
THEOREM InductiveInvariant == Spec => [](StartupInv /\ LoopInv)
<1>1. Init => StartupInv /\ LoopInv
    BY StartupInitInv DEF Init, LoopInv, Answered
<1>2. [Next]_vars => [StartupNext]_startup_vars
    BY DEF Next, vars, Configure, Request, Try, Respond
<1> QED BY <1>1, <1>2, StartupNextInv, LoopNext, PTL DEF Spec

\* The prefixes parse_config returns have neither quotes nor a trailing slash, for
\* every configuration.
THEOREM CanonicalRoutes == Spec => []RoutesAreCanonical
<1>1. StartupInv => RoutesAreCanonical
    BY DEF StartupInv, RoutesAreCanonical
<1> QED BY <1>1, InductiveInvariant, PTL

\* An accepted file, however many locations it has, is served as it says: every usable
\* location by its own handler, with its own arguments, and no path that is not in it.
THEOREM RoutesAreConfigured == Spec => []ServedAsConfigured
<1>1. StartupInv => ServedAsConfigured
    BY DEF StartupInv, RoutesAreOwn, ServedAsConfigured
<1> QED BY <1>1, InductiveInvariant, PTL

\* session::handle_read routes every request to the longest matching prefix, the
\* only one of its length when the path begins with "/".
THEOREM RoutesToLongestMatch == Spec => []LongestMatch
<1>1. StartupInv /\ LoopInv => LongestMatch
    <2> SUFFICES ASSUME StartupInv, LoopInv, Answered PROVE LongestMatch
        BY DEF LongestMatch
    <2>1. Matches \cap tried = Matches
        BY DEF LoopInv, Matches
    <2>2. path \in Path
        BY DEF LoopInv, Answered
    <2> QED
        BY <2>1, <2>2, MatchIsUnique DEF LoopInv, LongestMatch
<1> QED
    BY <1>1, InductiveInvariant, PTL

-------------------------------------------------------------------------------
(* The file of a route                                                         *)

\* A sequence is what comes before a place in it and what comes after.
LEMMA Split ==
    ASSUME NEW S, NEW s \in Seq(S), NEW k \in 0 .. Len(s)
    PROVE  s = SubSeq(s, 1, k) \o SubSeq(s, k + 1, Len(s))
<1>1. /\ Len(s) \in Nat
      /\ 1 \in 1 .. Len(s) + 1 /\ k \in 1 - 1 .. Len(s) /\ Len(s) \in k .. Len(s)
    OBVIOUS
<1>2. SubSeq(s, 1, k) \o SubSeq(s, k + 1, Len(s)) = SubSeq(s, 1, Len(s))
    BY <1>1, ConcatAdjacentSubSeq
<1> QED BY <1>2, SubSeqFull

\* The rest of a path after k characters is empty, or begins with the next one.
LEMMA RestOfPath ==
    ASSUME NEW s \in Seq(STRING), NEW k \in 0 .. Len(s)
    PROVE  /\ SubSeq(s, k + 1, Len(s)) \in Seq(STRING)
           /\ k = Len(s) => SubSeq(s, k + 1, Len(s)) = << >>
           /\ k < Len(s) => /\ SubSeq(s, k + 1, Len(s)) # << >>
                            /\ SubSeq(s, k + 1, Len(s))[1] = s[k + 1]
<1> DEFINE rest == SubSeq(s, k + 1, Len(s))
<1>1. Len(s) \in Nat /\ \A n \in k + 1 .. Len(s) : s[n] \in STRING
    BY ElementOfSeq
<1>2. /\ rest \in Seq(STRING)
      /\ Len(rest) = IF k + 1 <= Len(s) THEN Len(s) - (k + 1) + 1 ELSE 0
      /\ \A n \in 1 .. Len(s) - (k + 1) + 1 : rest[n] = s[(k + 1) + n - 1]
    BY <1>1, SubSeqProperties
<1> HIDE DEF rest
<1>3. ASSUME k = Len(s) PROVE rest = << >>
    BY <1>1, <1>2, <1>3
<1>4. ASSUME k < Len(s) PROVE rest # << >> /\ rest[1] = s[k + 1]
    <2>1. 1 \in 1 .. Len(s) - (k + 1) + 1 /\ (k + 1) + 1 - 1 = k + 1
        BY <1>1, <1>4
    <2>2. rest[1] = s[k + 1]
        BY <1>2, <2>1
    <2>3. Len(rest) > 0
        BY <1>1, <1>2, <1>4
    <2> QED BY <2>2, <2>3
<1> QED BY <1>1, <1>2, <1>3, <1>4 DEF rest

\* The prefix and the file StaticFileHandler looks for spell the path, for every
\* configuration and every path.
THEOREM FilesAreRestOfPath == Spec => []FileIsRestOfPath
<1>1. StartupInv /\ LoopInv => FileIsRestOfPath
    <2> SUFFICES ASSUME StartupInv, LoopInv, Answered, Absolute, best_prefix # NoPrefix
                 PROVE  LET relative == RelativePath(best_prefix, path)
                        IN /\ relative = << >> \/ relative[1] = "/"
                           /\ Len(path) > 1 /\ path[2] # "/" =>
                                 path = IF best_prefix = Slash THEN relative
                                        ELSE best_prefix \o relative
        BY DEF FileIsRestOfPath
    <2> DEFINE k == Len(best_prefix)
               rest == SubSeq(path, k + 1, Len(path))
    <2>1. best_prefix \in Matches
        BY DEF LoopInv, Answered
    <2>2. path \in Seq(STRING) /\ path # << >>
        BY PathAssumption DEF LoopInv, Answered
    <2>3. best_prefix \in Seq(STRING) /\ k \in Nat \ {0}
        BY <2>1, RoutePrefixes DEF Matches
    <2>4. best_prefix = SubSeq(path, 1, k)
        BY <2>1, MatchIsBeginning DEF LoopInv, Answered
    <2>5. k \in 0 .. Len(path)
        <3>1. CASE best_prefix = Slash
            BY <2>2, <3>1 DEF Slash
        <3>2. CASE best_prefix # Slash
            BY <2>1, <2>2, <2>3, <3>2 DEF Matches, isPrefixMatch
        <3> QED BY <3>1, <3>2
    <2>6. path = best_prefix \o rest
        BY <2>2, <2>4, <2>5, Split
    <2>7. /\ rest \in Seq(STRING)
          /\ k = Len(path) => rest = << >>
          /\ k < Len(path) => rest # << >> /\ rest[1] = path[k + 1]
        BY <2>2, <2>5, RestOfPath
    <2> HIDE DEF rest
    <2>8. RelativePath(best_prefix, path)
              = IF rest # << >> /\ rest[1] # "/" THEN Slash \o rest ELSE rest
        BY DEF RelativePath, rest
    <2>9. \A r \in Seq(STRING) : (Slash \o r)[1] = "/"
        BY DEF Slash
    <2>10. CASE best_prefix = Slash
        <3>1. k = 1
            BY <2>10 DEF Slash
        <3>2. ASSUME Len(path) > 1, path[2] # "/"
              PROVE  path = RelativePath(best_prefix, path)
            <4>1. rest # << >> /\ rest[1] = path[2]
                BY <2>2, <2>7, <3>1, <3>2
            <4> QED BY <2>6, <2>8, <2>10, <3>2, <4>1
        <3> QED BY <2>7, <2>8, <2>9, <2>10, <3>2
    <2>11. CASE best_prefix # Slash
        <3>1. k = Len(path) \/ path[k + 1] = "/"
            BY <2>1, <2>11 DEF Matches, isPrefixMatch
        <3>2. rest = << >> \/ rest[1] = "/"
            BY <2>2, <2>3, <2>5, <2>7, <3>1
        <3> QED BY <2>6, <2>8, <2>11, <3>2
    <2> QED BY <2>10, <2>11
<1> QED BY <1>1, InductiveInvariant, PTL

-------------------------------------------------------------------------------
(* Segments                                                                    *)

\* The first of some natural numbers.
LEMMA LeastIn ==
    ASSUME NEW S \in SUBSET Nat, S # {}
    PROVE  \E x \in S : \A y \in S : x <= y
<1>1. PICK x \in S : \A y \in S : ~(<<y, x>> \in OpToRel(<, Nat))
    BY NatLessThanWellFounded, WFMin
<1>2. \A y \in S : ~(y < x)
    BY <1>1 DEF OpToRel
<1> QED BY <1>2

LEMMA BoundsAre ==
    ASSUME NEW s \in Seq(STRING)
    PROVE  /\ Len(s) \in Nat /\ Bounds(s) \in SUBSET (0 .. Len(s) + 1)
           /\ 0 \in Bounds(s) /\ Len(s) + 1 \in Bounds(s)
           /\ \A k \in 1 .. Len(s) : k \in Bounds(s) <=> s[k] = "/"
BY DEF Bounds

\* Every place after the first bound comes after a last one.
LEMMA BoundBefore ==
    ASSUME NEW s \in Seq(STRING), NEW i \in 1 .. Len(s) + 1
    PROVE  \E a \in Bounds(s) : a < i /\ \A k \in Bounds(s) : ~(a < k /\ k < i)
<1> DEFINE S == {x \in Nat : i - x \in Bounds(s) /\ x > 0}
<1>1. i \in S
    BY BoundsAre
<1>2. PICK x \in S : \A y \in S : x <= y
    BY <1>1, LeastIn
<1>3. i - x \in Bounds(s) /\ i - x < i
    BY <1>2
<1>4. ASSUME NEW k \in Bounds(s), i - x < k, k < i PROVE FALSE
    <2>1. k \in Nat /\ i \in Nat /\ x \in Nat
        BY <1>2, BoundsAre
    <2>2. i - k \in Nat /\ i - (i - k) = k /\ i - k > 0 /\ i - k < x
        BY <1>4, <2>1
    <2>3. i - k \in S
        BY <1>4, <2>2
    <2> HIDE DEF S
    <2>4. x <= i - k
        BY <1>2, <2>3
    <2> QED BY <2>1, <2>2, <2>4
<1> QED BY <1>3, <1>4

\* Every place up to the last bound is before a next one.
LEMMA BoundAfter ==
    ASSUME NEW s \in Seq(STRING), NEW i \in 0 .. Len(s)
    PROVE  \E b \in Bounds(s) : i < b /\ \A k \in Bounds(s) : ~(i < k /\ k < b)
<1> DEFINE S == {x \in Bounds(s) : i < x}
<1>1. S \in SUBSET Nat /\ S # {}
    <2>1. Len(s) + 1 \in S
        BY BoundsAre
    <2> QED BY <2>1, BoundsAre
<1>2. PICK b \in S : \A y \in S : b <= y
    BY <1>1, LeastIn
<1>3. ASSUME NEW k \in Bounds(s), i < k, k < b PROVE FALSE
    <2>1. b <= k /\ k \in Nat /\ b \in Nat
        BY <1>1, <1>2, <1>3
    <2> QED BY <1>3, <2>1
<1> QED BY <1>2, <1>3

\* The text between two bounds.
LEMMA TextOf ==
    ASSUME NEW s \in Seq(STRING), NEW a \in Bounds(s), NEW b \in Bounds(s), a < b
    PROVE  /\ SubSeq(s, a + 1, b - 1) \in Seq(STRING)
           /\ Len(SubSeq(s, a + 1, b - 1)) = b - 1 - a
           /\ \A k \in 1 .. b - 1 - a : SubSeq(s, a + 1, b - 1)[k] = s[a + k]
<1>1. /\ a \in 0 .. Len(s) + 1 /\ b \in 0 .. Len(s) + 1 /\ Len(s) \in Nat
    BY BoundsAre
<1>2. /\ a + 1 \in Int /\ b - 1 \in Int /\ (b - 1) - (a + 1) + 1 = b - 1 - a
      /\ a + 1 <= b - 1 \/ b - 1 - a = 0
      /\ \A k \in 1 .. b - 1 - a : (a + 1) + k - 1 = a + k
    BY <1>1
<1>3. \A k \in (a + 1) .. (b - 1) : s[k] \in STRING
    <2>1. \A k \in (a + 1) .. (b - 1) : k \in 1 .. Len(s)
        BY <1>1
    <2> QED BY <2>1, ElementOfSeq
<1>4. /\ SubSeq(s, a + 1, b - 1) \in Seq(STRING)
      /\ Len(SubSeq(s, a + 1, b - 1))
            = IF a + 1 <= b - 1 THEN (b - 1) - (a + 1) + 1 ELSE 0
      /\ \A k \in 1 .. (b - 1) - (a + 1) + 1 :
            SubSeq(s, a + 1, b - 1)[k] = s[(a + 1) + k - 1]
    BY <1>2, <1>3, SubSeqProperties
<1>5. Len(SubSeq(s, a + 1, b - 1)) = b - 1 - a
    BY <1>1, <1>2, <1>4
<1> QED BY <1>2, <1>4, <1>5

\* A segment that two paths have is between the same bounds in both.
LEMMA SameSegment ==
    ASSUME NEW p \in Seq(STRING), NEW s \in Seq(STRING), p # Slash, s # Slash,
           Segments(p) \subseteq Segments(s),
           NEW a, NEW b, <<a, b>> \in Gaps(p)
    PROVE  /\ b \in Bounds(s)
           /\ \A i \in Nat : a < i /\ i < b => p[i] = s[i]
<1> DEFINE text == SubSeq(p, a + 1, b - 1)
<1>1. a \in Bounds(p) /\ b \in Bounds(p) /\ a < b /\ a \in Nat /\ b \in Nat
    BY BoundsAre DEF Gaps
<1>2. <<a, text>> \in Segments(p)
    <2> DEFINE gap == <<a, b>>
    <2>1. gap \in Gaps(p) /\ gap[1] = a /\ gap[2] = b
        OBVIOUS
    <2>2. <<gap[1], SubSeq(p, gap[1] + 1, gap[2] - 1)>> \in Segments(p)
        BY <2>1 DEF Segments
    <2> QED BY <2>1, <2>2
<1>3. <<a, text>> \in {<<gap[1], SubSeq(s, gap[1] + 1, gap[2] - 1)>> : gap \in Gaps(s)}
    BY <1>2 DEF Segments
<1>4. PICK gap \in Gaps(s) : <<a, text>> = <<gap[1], SubSeq(s, gap[1] + 1, gap[2] - 1)>>
    BY <1>3
<1> DEFINE c == gap[2]
<1>5. /\ a = gap[1] /\ text = SubSeq(s, a + 1, c - 1)
      /\ a \in Bounds(s) /\ c \in Bounds(s) /\ a < c /\ c \in Nat
    <2>1. a = gap[1] /\ text = SubSeq(s, a + 1, c - 1)
        BY <1>4
    <2>2. gap[1] \in Bounds(s) /\ gap[2] \in Bounds(s) /\ gap[1] < gap[2]
        BY DEF Gaps
    <2>3. gap[2] \in Nat
        BY <2>2, BoundsAre
    <2> HIDE DEF text
    <2> QED BY <2>1, <2>2, <2>3
<1> HIDE DEF c
<1>6. Len(text) = b - 1 - a /\ \A k \in 1 .. b - 1 - a : text[k] = p[a + k]
    BY <1>1, TextOf
<1>7. Len(text) = c - 1 - a /\ \A k \in 1 .. c - 1 - a : text[k] = s[a + k]
    <2> HIDE DEF text
    <2>1. /\ Len(SubSeq(s, a + 1, c - 1)) = c - 1 - a
          /\ \A k \in 1 .. c - 1 - a : SubSeq(s, a + 1, c - 1)[k] = s[a + k]
        BY <1>5, TextOf
    <2> QED BY <1>5, <2>1
<1> HIDE DEF text
<1>8. b = c
    <2>1. Len(text) = b - 1 - a /\ Len(text) = c - 1 - a
        BY <1>6, <1>7, Zenon
    <2>2. b - 1 - a = c - 1 - a
        BY <2>1, Zenon
    <2>3. a \in Nat /\ b \in Nat /\ c \in Nat
        BY <1>1, <1>5, Zenon
    <2> QED BY <2>2, <2>3
<1>9. ASSUME NEW i \in Nat, a < i, i < b PROVE p[i] = s[i]
    <2>1. i - a \in 1 .. b - 1 - a /\ a + (i - a) = i
        BY <1>1, <1>9
    <2> QED BY <1>6, <1>7, <1>8, <2>1
<1> QED BY <1>5, <1>8, <1>9

\* isPrefixMatch: the segments of the prefix are the first ones of the path.
LEMMA MatchHasSegments ==
    ASSUME NEW p \in Seq(STRING), p # << >>, NEW s \in Seq(STRING), isPrefixMatch(p, s)
    PROVE  Segments(p) \subseteq Segments(s)
<1>1. SUFFICES ASSUME p # Slash PROVE Segments(p) \subseteq Segments(s)
    BY DEF Segments
<1>2. /\ Len(p) <= Len(s) /\ SubSeq(s, 1, Len(p)) = p
      /\ Len(p) = Len(s) \/ s[Len(p) + 1] = "/"
      /\ Len(p) \in Nat \ {0} /\ Len(s) \in Nat
    BY <1>1 DEF isPrefixMatch
<1>3. \A k \in 1 .. Len(p) : p[k] = s[k] /\ k \in 1 .. Len(s)
    <2>1. SubSeq(s, 1, Len(p)) = [k \in 1 .. Len(p) |-> s[k]]
        BY <1>2
    <2> QED BY <1>2, <2>1
<1>4. s # Slash
    <2>1. SUFFICES ASSUME s = Slash PROVE FALSE
        OBVIOUS
    <2>2. Len(p) = 1 /\ p[1] = "/"
        BY <1>2, <1>3, <2>1 DEF Slash
    <2>3. p = <<"/">>
        BY <2>2
    <2> QED BY <1>1, <2>3 DEF Slash
<1>5. Bounds(p) \subseteq Bounds(s)
    <2>1. ASSUME NEW k \in Bounds(p) PROVE k \in Bounds(s)
        <3>1. k = 0 \/ k = Len(p) + 1 \/ (k \in 1 .. Len(p) /\ p[k] = "/")
            BY DEF Bounds
        <3>2. CASE k = 0
            BY <3>2 DEF Bounds
        <3>3. CASE k = Len(p) + 1
            <4>1. CASE Len(p) = Len(s)
                BY <3>3, <4>1 DEF Bounds
            <4>2. CASE Len(p) # Len(s)
                <5>1. k \in 1 .. Len(s) /\ s[k] = "/"
                    BY <1>2, <3>3, <4>2
                <5> QED BY <5>1 DEF Bounds
            <4> QED BY <4>1, <4>2
        <3>4. CASE k \in 1 .. Len(p) /\ p[k] = "/"
            BY <1>3, <3>4 DEF Bounds
        <3> QED BY <3>1, <3>2, <3>3, <3>4
    <2> QED BY <2>1
<1>6. ASSUME NEW gap \in Gaps(p)
      PROVE  <<gap[1], SubSeq(p, gap[1] + 1, gap[2] - 1)>> \in Segments(s)
    <2> DEFINE a == gap[1]
               b == gap[2]
    <2>1. /\ gap = <<a, b>> /\ a \in Bounds(p) /\ b \in Bounds(p) /\ a < b
          /\ \A k \in Bounds(p) : ~(a < k /\ k < b)
        BY DEF Gaps
    <2> HIDE DEF a, b
    <2>2. a \in Nat /\ b \in Nat /\ b <= Len(p) + 1
        BY <1>2, <2>1, BoundsAre
    <2>3. ASSUME NEW k \in Bounds(s), a < k, k < b PROVE FALSE
        <3>1. k \in Nat
            BY BoundsAre
        <3>2. k \in 1 .. Len(p)
            BY <1>2, <2>2, <2>3, <3>1
        <3>3. p[k] = "/"
            BY <1>3, <3>2, BoundsAre
        <3>4. k \in Bounds(p)
            BY <3>2, <3>3, BoundsAre
        <3> QED BY <2>1, <2>3, <3>4
    <2>4. gap \in Gaps(s)
        BY <1>5, <2>1, <2>3 DEF Gaps
    <2>5. SubSeq(p, a + 1, b - 1) = SubSeq(s, a + 1, b - 1)
        <3>1. /\ SubSeq(p, a + 1, b - 1) \in Seq(STRING)
              /\ Len(SubSeq(p, a + 1, b - 1)) = b - 1 - a
              /\ \A k \in 1 .. b - 1 - a : SubSeq(p, a + 1, b - 1)[k] = p[a + k]
            BY <2>1, TextOf
        <3>2. /\ SubSeq(s, a + 1, b - 1) \in Seq(STRING)
              /\ Len(SubSeq(s, a + 1, b - 1)) = b - 1 - a
              /\ \A k \in 1 .. b - 1 - a : SubSeq(s, a + 1, b - 1)[k] = s[a + k]
            BY <1>5, <2>1, TextOf
        <3>3. \A k \in 1 .. b - 1 - a : p[a + k] = s[a + k]
            <4>1. \A k \in 1 .. b - 1 - a : a + k \in 1 .. Len(p)
                BY <1>2, <2>2
            <4> QED BY <1>3, <4>1
        <3> QED BY <3>1, <3>2, <3>3, SeqEqual
    <2>6. <<a, SubSeq(s, a + 1, b - 1)>> \in Segments(s)
        BY <1>4, <2>1, <2>4 DEF Segments, a, b
    <2> QED BY <2>5, <2>6 DEF a, b
<1> QED BY <1>1, <1>6 DEF Segments

\* A path that has the segments of a prefix is matched by it.
LEMMA SegmentsMatch ==
    ASSUME NEW p \in Seq(STRING), p # << >>, NEW s \in Seq(STRING), s # << >>,
           Segments(p) \subseteq Segments(s)
    PROVE  isPrefixMatch(p, s)
<1>1. SUFFICES ASSUME p # Slash PROVE isPrefixMatch(p, s)
    BY DEF isPrefixMatch
<1>2. Len(p) \in Nat \ {0} /\ Len(s) \in Nat
    OBVIOUS
<1>3. ASSUME NEW a \in Bounds(p), NEW b \in Bounds(p), a < b,
             \A k \in Bounds(p) : ~(a < k /\ k < b)
      PROVE  <<a, b>> \in Gaps(p)
    BY <1>3 DEF Gaps
<1>4. s # Slash
    <2>1. PICK b \in Bounds(p) : 0 < b /\ \A k \in Bounds(p) : ~(0 < k /\ k < b)
        <3>1. 0 \in 0 .. Len(p)
            BY <1>2
        <3> QED BY <3>1, BoundAfter
    <2>2. <<0, b>> \in Gaps(p)
        BY <1>3, <2>1, BoundsAre
    <2>3. Segments(p) # {}
        BY <1>1, <2>2 DEF Segments
    <2> QED BY <2>3 DEF Segments
<1>5. \A i \in 1 .. Len(p) + 1 : i \in Bounds(p) => i \in Bounds(s)
    <2>1. SUFFICES ASSUME NEW i \in 1 .. Len(p) + 1, i \in Bounds(p)
                   PROVE  i \in Bounds(s)
        OBVIOUS
    <2>2. PICK a \in Bounds(p) : a < i /\ \A k \in Bounds(p) : ~(a < k /\ k < i)
        BY BoundBefore
    <2>3. <<a, i>> \in Gaps(p)
        BY <1>3, <2>1, <2>2
    <2> QED BY <1>1, <1>4, <2>3, SameSegment
<1>6. Len(p) <= Len(s) /\ (Len(p) = Len(s) \/ s[Len(p) + 1] = "/")
    <2>1. Len(p) + 1 \in 1 .. Len(p) + 1 /\ Len(p) + 1 \in Bounds(p)
        BY <1>2, BoundsAre
    <2>2. Len(p) + 1 \in Bounds(s)
        BY <1>5, <2>1
    <2>3. Len(p) + 1 \in 1 .. Len(s) => s[Len(p) + 1] = "/"
        BY <2>2, BoundsAre
    <2>4. Len(p) + 1 \in 0 .. Len(s) + 1
        BY <2>2, BoundsAre
    <2> QED BY <1>2, <2>3, <2>4
<1>7. ASSUME NEW i \in 1 .. Len(p) PROVE p[i] = s[i]
    <2>1. i \in 1 .. Len(s) /\ i \in 1 .. Len(p) + 1 /\ i \in 0 .. Len(p) /\ i \in Nat
        BY <1>2, <1>6
    <2>2. CASE p[i] = "/"
        <3>1. i \in Bounds(s)
            BY <1>5, <2>1, <2>2, BoundsAre
        <3> QED BY <2>1, <2>2, <3>1, BoundsAre
    <2>3. CASE p[i] # "/"
        <3>1. i \notin Bounds(p)
            BY <2>3, BoundsAre
        <3>2. PICK a \in Bounds(p) : a < i /\ \A k \in Bounds(p) : ~(a < k /\ k < i)
            BY <2>1, BoundBefore
        <3>3. PICK b \in Bounds(p) : i < b /\ \A k \in Bounds(p) : ~(i < k /\ k < b)
            BY <2>1, BoundAfter
        <3>4. ASSUME NEW k \in Bounds(p) PROVE ~(a < k /\ k < b)
            <4>1. k \in Nat /\ k # i
                BY <3>1, BoundsAre
            <4> QED BY <2>1, <3>2, <3>3, <4>1
        <3>5. a < b
            <4>1. a \in Nat /\ b \in Nat
                BY BoundsAre
            <4> QED BY <2>1, <3>2, <3>3, <4>1
        <3>6. <<a, b>> \in Gaps(p)
            BY <1>3, <3>4, <3>5
        <3> QED BY <1>1, <1>4, <2>1, <3>2, <3>3, <3>6, SameSegment
    <2> QED BY <2>2, <2>3
<1>8. SubSeq(s, 1, Len(p)) = p
    <2>1. SubSeq(s, 1, Len(p)) = [k \in 1 .. Len(p) |-> s[k]]
        BY <1>2, <1>6
    <2>2. p = [k \in 1 .. Len(p) |-> p[k]]
        OBVIOUS
    <2> QED BY <1>7, <2>1, <2>2
<1> QED BY <1>6, <1>8 DEF isPrefixMatch

-------------------------------------------------------------------------------
(* The answer                                                                  *)

\* The locations that were added, and all those of a file that is accepted, have
\* different paths.
Distinct(numbers) == \A m, n \in numbers : ServingPath(m) = ServingPath(n) => m = n

DistinctPaths == /\ result = "locations" => Distinct(Seen)
                 /\ result = "payload" => Distinct(WellFormed)

\* Every step of parse_config keeps them different.
LEMMA DistinctNext ==
    StartupInv /\ DistinctPaths /\ [StartupNext]_startup_vars => DistinctPaths'
<1> SUFFICES ASSUME StartupInv, DistinctPaths, [StartupNext]_startup_vars
             PROVE  DistinctPaths'
    OBVIOUS
<1>1. statements' = statements
    BY DEF StartupNext, startup_vars, NoPortFound, EndOfLoop, BadPort, ReadPort, Finish,
           SkipBadSignature, RefuseLocation, AddLocation
<1>2. WellFormed' = WellFormed /\ \A n : ServingPath(n)' = ServingPath(n)
    BY <1>1, SameStatements
<1>3. ASSUME UNCHANGED <<todo, result>> PROVE DistinctPaths'
    BY <1>2, <1>3 DEF DistinctPaths, Distinct, Seen
<1>4. ASSUME result' \in {"none", "exception"} PROVE DistinctPaths'
    BY <1>4 DEF DistinctPaths
<1>5. CASE EndOfLoop
    <2>1. Seen = WellFormed /\ result = "locations" /\ result' = "payload"
        BY <1>5 DEF EndOfLoop, Finish, Seen
    <2> QED BY <1>2, <2>1 DEF DistinctPaths, Distinct
<1>6. ASSUME NEW n \in 1 .. Len(statements), ReadPort(n) PROVE DistinctPaths'
    <2>1. /\ todo' = Unrolled(LOCATION_KEY)
          /\ result' = "locations" \/ (result' = "payload" /\ Unrolled(LOCATION_KEY) = {})
        BY <1>6 DEF ReadPort
    <2>2. Seen' = {} /\ (result' = "payload" => WellFormed = {})
        BY <1>1, <2>1, SameStatements DEF Seen, WellFormed
    <2> QED BY <1>2, <2>1, <2>2 DEF DistinctPaths, Distinct
<1>7. ASSUME NEW n \in 1 .. Len(statements), SkipBadSignature(n) PROVE DistinctPaths'
    <2>1. result' = result /\ result = "locations" /\ todo' = todo \ {n} /\ n \notin WellFormed
        BY <1>7 DEF SkipBadSignature, InLoop, WellFormed
    <2>2. Seen' = Seen
        BY <1>2, <2>1 DEF Seen
    <2> QED BY <1>2, <2>1, <2>2 DEF DistinctPaths, Distinct
<1>8. ASSUME NEW n \in 1 .. Len(statements), AddLocation(n) PROVE DistinctPaths'
    <2>1. /\ result = "locations" /\ result' = result /\ todo' = todo \ {n}
          /\ ServingPath(n) \notin serving_path_set
        BY <1>8 DEF AddLocation, InLoop, Refused
    <2>2. \A m \in Seen : ServingPath(m) # ServingPath(n)
        BY <2>1 DEF StartupInv
    <2>3. Seen' \subseteq Seen \cup {n}
        BY <1>2, <2>1 DEF Seen
    <2> QED BY <1>2, <2>1, <2>2, <2>3 DEF DistinctPaths, Distinct
<1>9. ASSUME NEW n \in 1 .. Len(statements), BadPort(n) \/ RefuseLocation(n)
      PROVE  DistinctPaths'
    BY <1>4, <1>9 DEF BadPort, RefuseLocation, Finish
<1> QED BY <1>3, <1>4, <1>5, <1>6, <1>7, <1>8, <1>9
        DEF StartupNext, startup_vars, NoPortFound, Finish

\* What Respond makes of the prefix that was found.
Response == IF best_prefix = NoPrefix THEN "not_found"
            ELSE IF Constructs(route_map[best_prefix]) THEN "handled" ELSE "thrown"
Responded == Answered => outcome = Response

\* Every step of a request keeps the response.
LEMMA RespondedNext == LoopInv /\ Responded /\ [Next]_vars => Responded'
<1> SUFFICES ASSUME LoopInv, Responded, [Next]_vars PROVE Responded'
    OBVIOUS
<1>1. CASE UNCHANGED <<route_map, best_prefix, outcome>>
    BY <1>1 DEF Responded, Answered, Response, Constructs
<1>2. CASE ~Answered'
    BY <1>2 DEF Responded
<1>3. CASE Respond
    BY <1>3 DEF Respond, startup_vars, Responded, Response, Constructs
<1>4. ASSUME NEW p \in Path, Request(p) PROVE ~Answered'
    BY <1>4 DEF Request, Answered
<1>5. ASSUME NEW prefix \in Token, Try(prefix) PROVE ~Answered'
    BY <1>5 DEF Try, Answered
<1>6. CASE Configure
    <2>1. outcome' = outcome
        BY <1>6 DEF Configure, routing_vars
    <2>2. result # "payload"
        BY <1>6 DEF Configure, StartupNext, NoPortFound, EndOfLoop, BadPort, ReadPort,
           SkipBadSignature, RefuseLocation, AddLocation, InLoop
    <2>3. ~Answered
        BY <2>2 DEF LoopInv, Answered
    <2> QED BY <1>2, <2>1, <2>3 DEF Answered
<1> QED BY <1>1, <1>2, <1>3, <1>4, <1>5, <1>6 DEF Next, vars, startup_vars, routing_vars

\* The route of a location has what its handler needs if the location has it.
LEMMA UsableIsConstructed ==
    ASSUME NEW n PROVE Constructs(Routed(n)) <=> Usable(n)
<1> DEFINE block == statements[n].block
           handler == Tokens(n)[3]
<1>1. Routed(n).handler = handler /\ Routed(n).arguments = Arguments(block)
    BY DEF Routed
<1>2. DOMAIN Arguments(block) = {block[k][1] : k \in Pairs(block)}
    BY DEF Arguments
<1>3. ASSUME NEW key
      PROVE  key \in DOMAIN Arguments(block)
                <=> \E k \in 1 .. Len(block) : Len(block[k]) = 2 /\ block[k][1] = key
    BY <1>2 DEF Pairs
<1> HIDE DEF block, handler
<1> QED BY <1>1, <1>3 DEF Constructs, Usable, block, handler

\* Of two matches of a path the longer one has all the segments of the other, and more.
LEMMA LongerMatch ==
    ASSUME StartupInv, path \in Path, Absolute, NEW p \in Matches, NEW q \in Matches,
           p # q, Len(p) <= Len(q)
    PROVE  Segments(p) \subseteq Segments(q) /\ Segments(p) # Segments(q)
<1>1. path \in Seq(STRING) /\ path # << >>
    BY PathAssumption
<1>2. /\ p \in Seq(STRING) /\ p # << >> /\ q \in Seq(STRING) /\ q # << >>
      /\ Len(p) \in Nat /\ Len(q) \in Nat
    BY RoutePrefixes DEF Matches
<1>3. Len(p) < Len(q)
    <2>1. Len(p) # Len(q)
        BY MatchIsUnique
    <2> QED BY <1>2, <2>1
<1>4. p = SubSeq(path, 1, Len(p)) /\ q = SubSeq(path, 1, Len(q))
    BY MatchIsBeginning
<1>5. isPrefixMatch(p, q)
    <2>1. CASE p = Slash
        BY <2>1 DEF isPrefixMatch
    <2>2. CASE p # Slash
        <3>1. q # Slash
            BY <1>2, <1>3 DEF Slash
        <3>2. Len(q) <= Len(path) /\ Len(p) <= Len(path)
            BY <1>1, <2>2, <3>1 DEF Matches, isPrefixMatch
        <3>3. path[Len(p) + 1] = "/"
            BY <1>1, <1>2, <1>3, <2>2, <3>2 DEF Matches, isPrefixMatch
        <3>4. q = [k \in 1 .. Len(q) |-> path[k]]
            BY <1>1, <1>2, <1>4, <3>2
        <3>5. p = [k \in 1 .. Len(p) |-> path[k]]
            BY <1>1, <1>2, <1>4, <3>2
        <3>6. q[Len(p) + 1] = "/"
            BY <1>2, <1>3, <3>3, <3>4
        <3>7. \A k \in 1 .. Len(p) : k \in 1 .. Len(q) /\ q[k] = path[k]
            BY <1>2, <1>3, <3>4
        <3>8. SubSeq(q, 1, Len(p)) = [k \in 1 .. Len(p) |-> q[k]]
            BY <1>2, <1>3
        <3>9. SubSeq(q, 1, Len(p)) = p
            BY <3>5, <3>7, <3>8
        <3> QED BY <1>2, <1>3, <3>6, <3>9 DEF isPrefixMatch
    <2> QED BY <2>1, <2>2
<1>6. Segments(p) \subseteq Segments(q)
    BY <1>2, <1>5, MatchHasSegments
<1>7. Segments(p) # Segments(q)
    <2>1. SUFFICES ASSUME isPrefixMatch(q, p) PROVE FALSE
        BY <1>2, SegmentsMatch
    <2>2. CASE q = Slash
        BY <1>2, <1>3, <2>2 DEF Slash
    <2>3. CASE q # Slash
        BY <1>2, <1>3, <2>1, <2>3 DEF isPrefixMatch
    <2> QED BY <2>2, <2>3
<1> QED BY <1>6, <1>7

\* The server answers every path that begins with "/" by the location whose segments
\* are the most of its first ones, for every configuration that is accepted, and a
\* usable location answers without an exception.
THEOREM AnswersAsConfigured == Spec => []AnsweredAsConfigured
<1>1. Spec => [](DistinctPaths /\ Responded)
    <2>1. Init => DistinctPaths /\ Responded
        BY DEF Init, StartupInit, DistinctPaths, Responded, Answered
    <2>2. [Next]_vars => [StartupNext]_startup_vars
        BY DEF Next, vars, Configure, Request, Try, Respond
    <2> QED BY <2>1, <2>2, DistinctNext, RespondedNext, InductiveInvariant, PTL DEF Spec
<1>2. StartupInv /\ LoopInv /\ DistinctPaths /\ Responded => AnsweredAsConfigured
    <2> SUFFICES ASSUME StartupInv, LoopInv, DistinctPaths, Responded, Answered, Absolute
                 PROVE  AnsweredAsConfigured
        BY DEF AnsweredAsConfigured
    <2> DEFINE servers ==
                  {n \in WellFormed : Segments(ServingPath(n)) \subseteq Segments(path)}
    <2>1. /\ result = "payload" /\ path \in Path /\ Matches \cap tried = Matches
          /\ outcome = Response
        BY DEF LoopInv, Answered, Responded, Matches
    <2>2. path \in Seq(STRING) /\ path # << >>
        BY <2>1, PathAssumption
    <2>3. \A p \in DOMAIN route_map : p \in Seq(STRING) /\ p # << >> /\ Len(p) \in Nat
        BY RoutePrefixes
    <2>4. \A p \in DOMAIN route_map : p \in Matches <=> Segments(p) \subseteq Segments(path)
        BY <2>2, <2>3, MatchHasSegments, SegmentsMatch DEF Matches
    <2>5. CASE WellFormed = {}
        <3>1. route_map = EchoRoute
            BY <2>1, <2>5 DEF StartupInv, RoutesAreOwn
        <3>2. Matches = {Slash}
            BY <3>1, EchoIsCanonical DEF Matches, isPrefixMatch
        <3>3. best_prefix = Slash
            BY <2>1, <3>2 DEF LoopInv
        <3>4. Slash # NoPrefix
            BY TokenAssumption, RegistryAssumption
        <3>5. Constructs(route_map[Slash])
            BY <3>1, RegistryAssumption DEF Constructs, EchoRoute
        <3>6. outcome = "handled"
            BY <2>1, <3>3, <3>4, <3>5 DEF Response
        <3> QED BY <2>5, <3>6 DEF AnsweredAsConfigured
    <2>6. CASE WellFormed # {}
        <3>1. /\ DOMAIN route_map = {ServingPath(n) : n \in WellFormed}
              /\ \A n \in WellFormed : route_map[ServingPath(n)] = Routed(n)
            BY <2>1, <2>6 DEF StartupInv, RoutesAreOwn
        <3>2. \A n \in WellFormed : n \in servers <=> ServingPath(n) \in Matches
            BY <2>4, <3>1
        <3>3. CASE Matches = {}
            <4>1. servers = {} /\ best_prefix = NoPrefix
                BY <2>1, <3>2, <3>3 DEF LoopInv
            <4>2. outcome = "not_found"
                BY <2>1, <4>1 DEF Response
            <4> QED BY <2>6, <4>1, <4>2 DEF AnsweredAsConfigured
        <3>4. CASE Matches # {}
            <4>1. /\ best_prefix \in Matches
                  /\ \A p \in Matches : Len(p) <= Len(best_prefix)
                BY <2>1, <3>4 DEF LoopInv
            <4>2. PICK n \in WellFormed : best_prefix = ServingPath(n)
                BY <3>1, <4>1 DEF Matches
            <4>3. n \in servers
                BY <3>2, <4>1, <4>2
            <4>4. ASSUME NEW m \in servers \ {n}
                  PROVE  /\ Segments(ServingPath(m)) \subseteq Segments(ServingPath(n))
                         /\ Segments(ServingPath(m)) # Segments(ServingPath(n))
                <5>1. /\ ServingPath(m) \in Matches /\ ServingPath(n) \in Matches
                      /\ ServingPath(m) # ServingPath(n)
                    BY <2>1, <3>2, <4>2, <4>3 DEF DistinctPaths, Distinct
                <5>2. Len(ServingPath(m)) <= Len(ServingPath(n))
                    BY <4>1, <4>2, <5>1
                <5> QED BY <2>1, <5>1, <5>2, LongerMatch
            <4>5. outcome = "handled" \/ (~Usable(n) /\ outcome = "thrown")
                <5>1. best_prefix # NoPrefix
                    BY <4>1, RoutePrefixes DEF Matches
                <5>2. route_map[best_prefix] = Routed(n)
                    BY <3>1, <4>2
                <5> QED BY <2>1, <5>1, <5>2, UsableIsConstructed DEF Response
            <4> QED BY <4>2, <4>3, <4>4, <4>5 DEF AnsweredAsConfigured
        <3> QED BY <3>3, <3>4
    <2> QED BY <2>5, <2>6
<1> QED BY <1>1, <1>2, InductiveInvariant, PTL

===============================================================================
