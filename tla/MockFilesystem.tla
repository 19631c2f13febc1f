---------------------------- MODULE MockFilesystem ----------------------------
(***************************************************************************)
(* MockFilesystem (server/filesystem/mock_filesystem.cc), which the unit   *)
(* tests put in the place of RealFilesystem: data_ is a map from names to  *)
(* maps from ids to contents.  It keeps no root, so the comparison is for  *)
(* the entities of one root.  A member function returns a value (for       *)
(* write and remove: the map it leaves) or throws an exception.            *)
(***************************************************************************)
EXTENDS RealFilesystem

Returns(value) == [returned |-> value]
Throws(exception) == [thrown |-> exception]

MockExists(data_, name, id) == name \in DOMAIN data_ /\ id \in DOMAIN data_[name]

MockRead(data_, name, id) ==
    IF MockExists(data_, name, id) THEN Returns(data_[name][id])
    ELSE Throws("not_found_exception")

\* data_[name], which operator[] makes when there is none.
Entities(data_, name) == IF name \in DOMAIN data_ THEN data_[name] ELSE << >>

\* data_[name] = row
Assign(data_, name, row) ==
    [n \in DOMAIN data_ \cup {name} |-> IF n = name THEN row ELSE data_[n]]

MockWrite(data_, name, id, data) ==
    LET old == Entities(data_, name)
        row == [i \in DOMAIN old \cup {id} |-> IF i = id THEN data ELSE old[i]]
    IN IF ValidId(id) THEN Returns(Assign(data_, name, row))
       ELSE Throws("invalid_id_exception")

\* The name stays when its last id is erased.
MockRemove(data_, name, id) ==
    LET old == Entities(data_, name)
    IN IF MockExists(data_, name, id)
       THEN Returns(Assign(data_, name, [i \in DOMAIN old \ {id} |-> old[i]]))
       ELSE Throws("not_found_exception")

MockListIds(data_, name) == DOMAIN Entities(data_, name)

MockUsedInts(data_, name) ==
    {0} \cup ({StoiOf[id] : id \in MockListIds(data_, name)} \ {NotInt})

\* Mutant of MockNextId: the id of a removed entity is given out again.
MockFirstFree(data_, name, id) ==
    \E n \in 1 .. IntMax : /\ n \notin MockUsedInts(data_, name)
                          /\ 1 .. n - 1 \subseteq MockUsedInts(data_, name)
                          /\ id = IdOf[n]

\* next_id returns id.
MockNextId(data_, name, id) ==
    \E max_id \in MockUsedInts(data_, name) :
        /\ \A n \in MockUsedInts(data_, name) : n <= max_id
        /\ id = IdOf[Wrap(max_id + 1)]

\* The entities f has under root and name, as the mock keeps them.
Row(f, root, name) == [id \in {i \in Id : f[<<root, name, i>>] # Absent} |->
                          f[<<root, name, id>>]]

\* data_ has the entities f has under root.
Holds(data_, f, root) == /\ DOMAIN data_ \subseteq Name
                         /\ \A name \in Name : Entities(data_, name) = Row(f, root, name)

\* The maps that reset, writes and removes can have left for these entities: a name
\* without any may be there or not.
Holdings(f, root) ==
    {data_ \in {[name \in names |-> Row(f, root, name)] : names \in SUBSET Name} :
        Holds(data_, f, root)}

\* What the unit tests see of the mock is what the handlers see of the real files
\* under a disk that does not fail: on the same entities exists, read, list_ids and
\* next_id give the same results, write refuses the same ids, read and remove throw
\* for the same ones, and otherwise they leave the same entities behind.
MockAgrees ==
    \A root \in Root : \A data_ \in Holdings(files, root), name \in Name, id \in Id :
        LET path == <<root, name, id>>
            removed == MockRemove(data_, name, id)
        IN /\ MockExists(data_, name, id) <=> Exists(path)
           /\ MockListIds(data_, name) = ListIds(root, name)
           /\ MockNextId(data_, name, id) <=> NextId(root, name, id)
           /\ MockRead(data_, name, id) = IF Exists(path) THEN Returns(files[path])
                                          ELSE Throws("not_found_exception")
           /\ \A data \in Data :
                 LET written == MockWrite(data_, name, id, data)
                 IN IF ValidId(id)
                    THEN Holds(written.returned, [files EXCEPT ![path] = data], root)
                    ELSE written = Throws("invalid_id_exception")
           /\ IF Exists(path)
              THEN Holds(removed.returned, [files EXCEPT ![path] = Absent], root)
              ELSE removed = Throws("not_found_exception")
===============================================================================
