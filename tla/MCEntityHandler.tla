--------------------------- MODULE MCEntityHandler ---------------------------
(***************************************************************************)
(* Instances of EntityHandler for TLC.                                     *)
(***************************************************************************)
EXTENDS EntityHandler, MockFilesystem, TLC

CONSTANTS r1, w1, w2, m1, m2, d1, d2

MCIntMax == 2

\* x stands for the ids stoi refuses.
MCStoiOf == ("1" :> 1) @@ ("2" :> 2) @@ ("-3" :> -3) @@ ("x" :> NotInt)
MCIdOf == (1 :> "1") @@ (2 :> "2") @@ (-3 :> "-3")

Req(methods, ids, body) ==
    [method : methods, root : Root, name : Name, id : ids, body : {body}]

\* Every kind of request on one root, with every way out of a handler: ids that are
\* new, known, unknown, refused and missing, an unknown method, and no root.
MCRequests ==
    Req({"POST"}, {NoId}, d2)
    \cup Req({"PUT"}, {"2", "x", NoId}, d1)
    \cup Req({"GET", "DELETE"}, {"2", NoId}, d1)
    \cup Req({"PATCH"}, {NoId}, d1)
    \cup {[r EXCEPT !.root = NoRoot] : r \in Req({"PATCH"}, {NoId}, d1)}

===============================================================================
