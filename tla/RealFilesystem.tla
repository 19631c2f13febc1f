---------------------------- MODULE RealFilesystem ----------------------------
(***************************************************************************)
(* The entity files (server/filesystem/real_filesystem.cc) and check_id    *)
(* (filesystem_interface.cc).  An entity file is <root>/<name>/<id>; its   *)
(* content is Absent, one of the bodies a client sent, or Torn: the file   *)
(* has been truncated by the ofstream constructor and not all of its data  *)
(* has been flushed by the ofstream destructor.                            *)
(*                                                                         *)
(* The operators are the steps of the member functions a crash or another  *)
(* thread can come between.  Ids are strings: StoiOf is what std::stoi     *)
(* makes of one, NotInt when it throws, and IdOf is std::to_string on the  *)
(* ints next_id can return.                                                *)
(***************************************************************************)
EXTENDS Integers

CONSTANTS Root, Name, Id, Data, Absent, Torn,
          IntMax,     \* numeric_limits<int>::max(), small in the runs
          NotInt, StoiOf, IdOf

IntMin == -IntMax - 1

ASSUME IntMaxAssumption == IntMax \in Nat \ {0}
ASSUME ContentAssumption == /\ Absent \notin Data
                            /\ Torn \notin Data \cup Id
                            /\ Absent # Torn
ASSUME IdAssumption ==
    /\ NotInt \notin Int
    /\ StoiOf \in [Id -> (IntMin .. IntMax) \cup {NotInt}]
    /\ IdOf \in [(1 .. IntMax) \cup {IntMin} -> Id]
    /\ \A n \in (1 .. IntMax) \cup {IntMin} : StoiOf[IdOf[n]] = n

VARIABLE files

Path == Root \X Name \X Id

Content == Data \cup {Absent, Torn}

FsInit == files = [p \in Path |-> Absent]

Exists(p) == files[p] # Absent

\* list_ids: the regular files of the directory, none when it does not exist.
ListIds(root, name) == {id \in Id : Exists(<<root, name, id>>)}

\* int arithmetic of the build: the sum of two ints wraps around.
Wrap(n) == IF n > IntMax THEN n - 2 * (IntMax + 1) ELSE n

\* The ints next_id takes the largest of: 0 and every id stoi accepts.
UsedInts(root, name) ==
    {0} \cup ({StoiOf[id] : id \in ListIds(root, name)} \ {NotInt})

\* Mutant of NextId: any listed id instead of the largest.
NextIdOfLast(root, name, id) ==
    \E max_id \in UsedInts(root, name) : id = IdOf[Wrap(max_id + 1)]

\* next_id returns id.
NextId(root, name, id) ==
    \E max_id \in UsedInts(root, name) :
        /\ \A n \in UsedInts(root, name) : n <= max_id
        /\ id = IdOf[Wrap(max_id + 1)]

\* check_id throws invalid_id_exception when this is false.
ValidId(id) == StoiOf[id] # NotInt /\ StoiOf[id] > 0

Truncate(p)    == files' = [files EXCEPT ![p] = Torn]
Flush(p, data) == files' = [files EXCEPT ![p] = data]
Remove(p)      == files' = [files EXCEPT ![p] = Absent]
===============================================================================
