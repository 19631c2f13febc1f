------------------------------ MODULE MCRouting ------------------------------
(***************************************************************************)
(* Instances of Routing for TLC: all files of a few statements, and short  *)
(* paths.                                                                  *)
(***************************************************************************)
EXTENDS Routing, SequencesExt, TLC

CONSTANT MaxStatements

StaticHandler == <<"StaticHandler">>
Misspelt == <<"SomeRandomHandler">>
Root == <<"root">>
Dir == <<"d">>
OtherDir == <<"e">>

ServingPaths == {Slash, <<"/", "a">>, <<"/", "a", "/", "b">>, <<"/", "a", "b">>, <<"a">>}
Refusables == {<<"/", "a", "/">>, <<"'", "/", "a", "'">>, <<"\"", "/", "\"">>}

Stm(tokens, block) == [tokens |-> tokens, block |-> block]
Location(p, handler, block) == Stm(<<LOCATION_KEY, p, handler>>, block)

Port == Stm(<<PORT_KEY, <<"80">>>>, << >>)
BadPorts == {Stm(<<PORT_KEY>>, << >>), Stm(<<PORT_KEY, Dir>>, << >>)}

Locations ==
    {Location(p, EchoHandler, << >>) : p \in ServingPaths \cup Refusables}
    \cup {Location(<<"/", "a">>, StaticHandler, b) :
             b \in {<< <<Root, Dir>>, <<Root, OtherDir>>, <<Dir>> >>, << <<Dir, Root>> >>}}
    \cup {Location(Slash, Misspelt, << >>), Stm(<<LOCATION_KEY, <<"/", "a">>>>, << >>)}

MCConfigs == BoundedSeq({Port} \cup BadPorts, 2)
             \cup {<<Port>> \o c : c \in BoundedSeq(Locations, MaxStatements)}
             \cup {c \o <<Port, d>> : c \in BoundedSeq(Locations, 1), d \in BadPorts}

MCToken == ServingPaths \cup Refusables
           \cup {PORT_KEY, LOCATION_KEY, EchoHandler, StaticHandler, Misspelt, Root, Dir,
                 OtherDir, <<"80">>}
MCStoi == <<"80">> :> 80
MCNeeds == StaticHandler :> Root
MCFactories == {EchoHandler, StaticHandler}

MCPath == BoundedSeq({"/", "a", "b"}, 4) \ {<< >>}
SomePaths == {p \in MCPath : Len(p) <= 2 \/ (p[1] = "/" /\ p[2] = "a")}
==============================================================================
