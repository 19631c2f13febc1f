-------------------------- MODULE MCStaticFileHandler --------------------------
(* Instance of StaticFileHandler: the base directory, a path within it and one  *)
(* in a neighbour whose name begins like it; files up to a byte above the limit.*)
EXTENDS StaticFileHandler

MCBase == <<"/", "b">>
MCPlace == {MCBase, <<"/", "b", "/", "f">>, <<"/", "b", "2", "/", "f">>}
MCVersion == {<< >>, <<1, 1>>, <<2, 2, 2>>}
===============================================================================
