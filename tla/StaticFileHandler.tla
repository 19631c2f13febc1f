--------------------------- MODULE StaticFileHandler ---------------------------
(***************************************************************************)
(* One request in StaticFileHandler (static_file_handler.cc) and the other *)
(* processes that change the files it serves.  The handler looks the file  *)
(* up by name in every test, and again to open it, so each step may find   *)
(* another file.                                                           *)
(*                                                                         *)
(* file_path leads to the canonical path link.  A file has a number (its   *)
(* inode), by which an open file is still read when its name is given to   *)
(* another; contents[n] is what is in file n now.                          *)
(***************************************************************************)
EXTENDS Integers, Sequences

CONSTANTS Place,          \* canonical paths, as sequences of characters
          Base,           \* that of base_dir_
          Byte, Version,  \* the contents other processes write
          max_safe_size,
          MaxChanges      \* bound on what other processes do

Loop == <<"loop">>        \* link, when symbolic links lead back to each other

ASSUME StaticAssumption ==
    /\ Place \subseteq Seq(STRING) /\ Base \in Seq(STRING) /\ Loop \notin Place
    /\ Version \subseteq Seq(Byte)
    /\ max_safe_size \in Nat /\ MaxChanges \in Nat

VARIABLES base,           \* whether base_dir_ exists
          link, node,     \* node[p]: the file at p, or one of the three below
          contents,
          pc, file, size, body, status,
          seen,           \* what file_path has led to since the request came
          written, moved, \* whether a file was written in place, or link changed, since
          changes,
          failed          \* whether a call of the file system has failed, see Fails

fs == <<base, link, node, contents>>
locals == <<file, size, body>>
history == <<seen, written, moved, changes, failed>>
vars == <<fs, pc, locals, status, history>>

Absent == 0
Directory == -1
Socket == -2
IsFile(n) == n > 0

Target == IF link = Loop THEN Absent ELSE node[link]

Observed == [base |-> base, at |-> link, node |-> Target,
             content |-> IF IsFile(Target) THEN contents[Target] ELSE << >>]

Init == /\ base \in BOOLEAN /\ link \in Place \cup {Loop}
        /\ node \in [Place -> {Absent, Directory, 1}]
        /\ contents \in {<<v>> : v \in Version}
        /\ pc = "new" /\ file = 0 /\ size = 0 /\ body = << >> /\ status = 0
        /\ seen = {Observed} /\ written = FALSE /\ moved = FALSE /\ changes = 0
        /\ failed = FALSE

-------------------------------------------------------------------------------
(* The other processes *)

Change == /\ changes < MaxChanges /\ changes' = changes + 1
          /\ pc \notin {"done", "thrown", "no_root"}
          /\ seen' = seen \cup {Observed'}
          /\ UNCHANGED <<pc, locals, status, failed>>

\* A file is put in place whole, by renaming it.
Replace(p, v) ==
    /\ contents' = Append(contents, v)
    /\ node' = [node EXCEPT ![p] = Len(contents')]
    /\ UNCHANGED <<base, link, written, moved>>
    /\ Change

Remove(p, n) ==
    /\ n \in {Absent, Directory, Socket}
    /\ node' = [node EXCEPT ![p] = n]
    /\ UNCHANGED <<base, link, contents, written, moved>>
    /\ Change

RemoveBase ==
    /\ base /\ base' = FALSE
    /\ UNCHANGED <<link, node, contents, written, moved>>
    /\ Change

Relink(p) ==
    /\ p # link /\ link' = p /\ moved' = TRUE
    /\ UNCHANGED <<base, node, contents, written>>
    /\ Change

\* A file is truncated, or a byte is added to it, where it is.
WriteInPlace(p) ==
    /\ IsFile(node[p])
    /\ \/ contents' = [contents EXCEPT ![node[p]] = << >>]
       \/ \E b \in Byte : contents' = [contents EXCEPT ![node[p]] = Append(@, b)]
    /\ written' = TRUE
    /\ UNCHANGED <<base, link, node, moved>>
    /\ Change

-------------------------------------------------------------------------------
(* The handler *)

Go(next) == pc' = next /\ UNCHANGED <<fs, locals, status, history>>
Throw == Go("thrown")

Respond(code, text) == /\ status' = code /\ body' = text /\ pc' = "done"
                       /\ UNCHANGED <<fs, file, size, history>>

\* Any call of the file system can fail, whatever file_path leads to: no permission, a
\* name that is too long, no descriptor left, an I/O error.
Fails(next, code) == /\ failed' = TRUE
                     /\ status' = code /\ body' = << >> /\ pc' = next
                     /\ UNCHANGED <<fs, file, size, seen, written, moved, changes>>

\* The constructor throws if the location has no root.
Construct(args) == /\ pc = "new"
                   /\ \/ "root" \in args /\ Go("method")
                      \/ "root" \notin args /\ Go("no_root")

CheckMethod(method) == /\ pc = "method"
                       /\ \/ method = "GET" /\ Go("safe")
                          \/ method # "GET" /\ Respond(400, << >>)

StartsWith(s, t) == Len(t) <= Len(s) /\ SubSeq(s, 1, Len(t)) = t

\* Mutant of PathSafe: the next character is not looked at.
PathSafeAnyNext(req) == StartsWith(req, Base)

PathSafe(req) == /\ StartsWith(req, Base)
                 /\ Len(req) > Len(Base) => req[Len(Base) + 1] = "/"

\* canonical throws if the base is missing, weakly_canonical if links are circular,
\* and both throw if a call they make fails.
IsPathSafe ==
    /\ pc = "safe"
    /\ \/ (~base \/ link = Loop) /\ Throw
       \/ base /\ link # Loop /\ PathSafe(link) /\ Go("exists")
       \/ base /\ link # Loop /\ ~PathSafe(link) /\ Respond(403, << >>)
       \/ Fails("thrown", 0)

\* The overloads without an error_code: they throw on all but "not found".
Test(here, passed, next) ==
    /\ pc = here
    /\ \/ link = Loop /\ Throw
       \/ link # Loop /\ passed /\ Go(next)
       \/ link # Loop /\ ~passed /\ Respond(404, << >>)
       \/ Fails("thrown", 0)

Exists == Test("exists", Target # Absent, "directory")
NotDirectory == Test("directory", Target # Directory, "regular")

\* file_size follows; it is only logged, and its errors are caught.
RegularFile == Test("regular", IsFile(Target), "open")

\* The open can fail although the file is there, which is a 404 too.  A directory can be
\* opened, and where its size is 0 "all of it" is then read.
Open ==
    /\ pc = "open"
    /\ \/ IsFile(Target) /\ file' = Target /\ pc' = "size"
          /\ UNCHANGED <<fs, size, body, status, history>>
       \/ ~IsFile(Target) /\ Respond(404, << >>)
       \/ Target = Directory /\ Respond(200, << >>)
       \/ Fails("done", 404)

\* Mutant of TooLarge: off by one.
TooLargeAtLimit(n) == n >= max_safe_size

TooLarge(n) == n > max_safe_size

\* Mutant of Opened: the file is opened again for each piece.
OpenedAgain == IF IsFile(Target) THEN contents[Target] ELSE << >>

Opened == contents[file]

\* Mutant of TakeSize: the limit is tested on the file of that name.
TakeSizeByName ==
    /\ pc = "size"
    /\ \/ TooLarge(Len(Observed.content)) /\ Respond(404, << >>)
       \/ /\ ~TooLarge(Len(Observed.content))
          /\ size' = Len(contents[file]) /\ pc' = "read"
          /\ UNCHANGED <<fs, file, body, status, history>>

\* tellg returns -1 if it fails, and there is no vector of that size.
TakeSize ==
    /\ pc = "size"
    /\ \/ TooLarge(Len(contents[file])) /\ Respond(404, << >>)
       \/ /\ ~TooLarge(Len(contents[file]))
          /\ size' = Len(contents[file]) /\ pc' = "read"
          /\ UNCHANGED <<fs, file, body, status, history>>
       \/ Fails("thrown", 0)

\* ifstream::read, in as many pieces as it takes.
ReadPiece ==
    /\ pc = "read"
    /\ \E n \in Len(body) + 1 .. size :
          /\ n <= Len(Opened)
          /\ body' = body \o SubSeq(Opened, Len(body) + 1, n)
    /\ UNCHANGED <<fs, pc, file, size, status, history>>

EndRead ==
    /\ pc = "read"
    /\ \/ Len(body) = size /\ Respond(200, body)
       \/ Len(body) < size /\ Len(Opened) <= Len(body) /\ Respond(404, << >>)
       \/ Fails("done", 404)

Others == \/ \E p \in Place : \/ \E v \in Version : Replace(p, v)
                              \/ \E n \in {Absent, Directory, Socket} : Remove(p, n)
                              \/ WriteInPlace(p)
          \/ \E p \in Place \cup {Loop} : Relink(p)
          \/ RemoveBase

Handler == \/ \E args \in SUBSET {"root"} : Construct(args)
           \/ \E method \in {"GET", "POST"} : CheckMethod(method)
           \/ IsPathSafe \/ Exists \/ NotDirectory \/ RegularFile
           \/ Open \/ TakeSize \/ ReadPiece \/ EndRead

Next == Others \/ Handler

Spec == Init /\ [][Next]_vars

-------------------------------------------------------------------------------
(* Properties *)

\* The variables have their types, and no more than max_safe_size bytes are ever
\* read into memory (static_file_handler.cc:228), however the file grows.
TypeOK ==
    /\ base \in BOOLEAN /\ link \in Place \cup {Loop}
    /\ contents \in Seq(Seq(Byte))
    /\ node \in [Place -> {Absent, Directory, Socket} \cup 1 .. Len(contents)]
    /\ pc \in {"new", "method", "safe", "exists", "directory", "regular", "open",
               "size", "read", "done", "thrown", "no_root"}
    /\ file \in 0 .. Len(contents) /\ (pc \in {"size", "read"} => file > 0)
    /\ size \in 0 .. max_safe_size
    /\ body \in Seq(Byte) /\ Len(body) <= size
    /\ status \in {0, 200, 400, 403, 404}
    /\ written \in BOOLEAN /\ moved \in BOOLEAN /\ failed \in BOOLEAN
    /\ changes \in 0 .. MaxChanges

\* As long as files are replaced and not written in place, a 200 has all of a file
\* that file_path led to at some moment of the request, and nothing of another,
\* although the tests, the size and the pieces are taken at different moments
\* (lines 85-124, 216-237).
ServedVersion ==
    status = 200 /\ ~written =>
        \E o \in seen : \/ IsFile(o.node) /\ o.content = body
                        \/ o.node = Directory /\ body = << >>

Inside(place) == place = Base \/ StartsWith(place, Append(Base, "/"))

\* Unless links are changed during the request, what is served lies within
\* base_dir_ ("verify the path doesn't escape the base directory", line 71).
ServedFromBase == status = 200 /\ ~moved => Inside(link)

\* A request fails only for a reason there was during the request: 403 when the
\* path led out of the base, whether or not a call failed; and if no call of the file
\* system failed, 404 only when the path led to no regular file of allowed size or
\* the file was cut short while it was read, and an exception only when the base was
\* missing or the links led nowhere.
FailuresJustified ==
    /\ status = 403 => \E o \in seen : ~Inside(o.at)
    /\ status = 404 /\ ~failed =>
          \/ written
          \/ \E o \in seen : ~IsFile(o.node) \/ Len(o.content) > max_safe_size
    /\ pc = "thrown" /\ ~failed => \E o \in seen : ~o.base \/ o.at = Loop
===============================================================================
