------------------------ MODULE StaticFileHandler_proofs ------------------------
(***************************************************************************)
(* What StaticFileHandler serves while other processes change its files,   *)
(* for any number of files, places and changes, of any length.             *)
(***************************************************************************)
EXTENDS StaticFileHandler, SequenceTheorems, TLAPS

USE StaticAssumption

-------------------------------------------------------------------------------
(* The inductive invariant                                                     *)

\* What file_path leads to now has been seen.
NowSeen == Observed \in seen

\* There is a status only at the end.
StatusAtEnd == status # 0 => pc = "done"

\* The path was tested, and only a change of links undoes that.
PathTested == ~moved /\ (\/ pc \in {"exists", "directory", "regular", "open", "size", "read"}
                         \/ status = 200)
              => Inside(link)

\* An open file has been seen, as it is now unless it was written in place.
OpenedSeen == pc \in {"size", "read"} /\ ~written =>
                 \E o \in seen : o.node = file /\ o.content = contents[file]

\* The pieces read so far are the beginning of a file that has not been cut short.
ReadSoFar == pc = "read" /\ ~written =>
                /\ size = Len(contents[file])
                /\ body = SubSeq(contents[file], 1, Len(body))

\* Nothing is read before there is a size.
NothingRead == pc \in {"new", "method", "safe", "exists", "directory", "regular",
                       "open", "size"} => body = << >>

IInv == /\ TypeOK /\ NowSeen /\ StatusAtEnd /\ PathTested /\ OpenedSeen
        /\ ReadSoFar /\ NothingRead /\ ServedVersion /\ FailuresJustified

\* is_path_safe accepts the base, and what lies below it, and nothing else.
LEMMA SafeIsInside ==
    ASSUME NEW p \in Seq(STRING)
    PROVE  PathSafe(p) <=> Inside(p)
<1> DEFINE k == Len(Base)
<1>1. k \in Nat /\ Len(p) \in Nat /\ Base \in Seq(STRING)
    OBVIOUS
<1>2. /\ Len(Append(Base, "/")) = k + 1
      /\ Append(Base, "/") = Base \o <<"/">>
    <2> DEFINE S == STRING \cup {"/"}
    <2>1. "/" \in S /\ Base \in Seq(S)
        BY SeqMonotonic
    <2>2. Append(Base, "/") = Base \o <<"/">>
        BY <2>1, AppendIsConcat
    <2>3. Len(Append(Base, "/")) = k + 1
        BY <2>1, AppendProperties
    <2> QED BY <2>2, <2>3
<1>3. ASSUME k + 1 <= Len(p)
      PROVE  SubSeq(p, 1, k + 1) = SubSeq(p, 1, k) \o <<p[k + 1]>>
    <2>1. 1 \in 1 .. Len(p) /\ k + 1 \in 1 .. Len(p) /\ k + 1 - 1 = k
        BY <1>1, <1>3
    <2> QED BY <2>1, SubSeqRecursiveSecond
<1>4. ASSUME k <= Len(p)
      PROVE  SubSeq(p, 1, k) \in Seq(STRING) /\ Len(SubSeq(p, 1, k)) = k
    <2>1. \A n \in 1 .. k : p[n] \in STRING
        BY <1>1, <1>4, ElementOfSeq
    <2> QED BY <1>1, <2>1, SubSeqProperties
<1>5. ASSUME k + 1 <= Len(p)
      PROVE  SubSeq(p, 1, k + 1) = Base \o <<"/">>
                <=> SubSeq(p, 1, k) = Base /\ p[k + 1] = "/"
    <2> DEFINE s == SubSeq(p, 1, k)
    <2>1. s \in Seq(STRING) /\ Len(s) = k
        BY <1>1, <1>4, <1>5
    <2>2. p[k + 1] \in STRING
        BY <1>1, <1>5, ElementOfSeq
    <2>3. s \o <<p[k + 1]>> = Base \o <<"/">> <=> s = Base /\ p[k + 1] = "/"
        <3> HIDE DEF s
        <3>1. ASSUME s \o <<p[k + 1]>> = Base \o <<"/">> PROVE s = Base /\ p[k + 1] = "/"
            <4>1. \A n \in 1 .. k : s[n] = Base[n]
                <5>1. \A n \in 1 .. k : (s \o <<p[k + 1]>>)[n] = s[n]
                    BY <1>1, <2>1
                <5>2. \A n \in 1 .. k : (Base \o <<"/">>)[n] = Base[n]
                    BY <1>1
                <5> QED BY <3>1, <5>1, <5>2
            <4>2. (s \o <<p[k + 1]>>)[k + 1] = p[k + 1]
                BY <1>1, <2>1
            <4>3. (Base \o <<"/">>)[k + 1] = "/"
                BY <1>1
            <4> QED BY <1>1, <2>1, <3>1, <4>1, <4>2, <4>3, SeqEqual
        <3> QED BY <3>1
    <2> QED BY <1>3, <1>5, <2>3
<1>6. CASE Len(p) < k
    BY <1>1, <1>2, <1>6 DEF PathSafe, Inside, StartsWith
<1>7. CASE Len(p) = k
    <2>1. SubSeq(p, 1, k) = p
        BY <1>7, SubSeqFull
    <2> QED BY <1>1, <1>2, <1>7, <2>1 DEF PathSafe, Inside, StartsWith
<1>8. CASE Len(p) > k
    <2>1. k + 1 <= Len(p) /\ p # Base
        BY <1>1, <1>8
    <2>2. PathSafe(p) <=> SubSeq(p, 1, k) = Base /\ p[k + 1] = "/"
        BY <1>1, <1>8 DEF PathSafe, StartsWith
    <2>3. Inside(p) <=> SubSeq(p, 1, k + 1) = Base \o <<"/">>
        BY <1>2, <2>1 DEF Inside, StartsWith
    <2> QED BY <1>5, <2>1, <2>2, <2>3
<1> QED BY <1>1, <1>6, <1>7, <1>8

\* Pieces put together are a beginning of the file.
LEMMA Pieces ==
    ASSUME NEW s \in Seq(Byte), NEW m \in 0 .. Len(s), NEW n \in m .. Len(s)
    PROVE  /\ SubSeq(s, 1, m) \o SubSeq(s, m + 1, n) = SubSeq(s, 1, n)
           /\ SubSeq(s, m + 1, n) \in Seq(Byte) /\ Len(SubSeq(s, m + 1, n)) = n - m
<1>1. /\ Len(s) \in Nat
      /\ 1 \in 1 .. Len(s) + 1 /\ m \in 1 - 1 .. Len(s) /\ n \in m .. Len(s)
    OBVIOUS
<1>2. \A j \in m + 1 .. n : s[j] \in Byte
    BY <1>1, ElementOfSeq
<1>3. m + 1 \in Int /\ n \in Int
    BY <1>1
<1>4. /\ SubSeq(s, m + 1, n) \in Seq(Byte)
      /\ Len(SubSeq(s, m + 1, n)) = IF m + 1 <= n THEN n - (m + 1) + 1 ELSE 0
    BY <1>2, <1>3, SubSeqProperties
<1>5. SubSeq(s, 1, m) \o SubSeq(s, m + 1, n) = SubSeq(s, 1, n)
    BY <1>1, ConcatAdjacentSubSeq
<1> QED BY <1>1, <1>4, <1>5

-------------------------------------------------------------------------------
(* The other processes                                                         *)

\* The empty body.
LEMMA NoBytes == << >> \in Seq(Byte) /\ Len(<< >>) = 0
    BY EmptySeq

\* Before the request.
LEMMA InitInv == Init => IInv
<1> SUFFICES ASSUME Init PROVE IInv
    OBVIOUS
<1>1. PICK v \in Version : contents = <<v>>
    BY DEF Init
<1>2. contents \in Seq(Seq(Byte)) /\ Len(contents) = 1
    BY <1>1
<1>3. node \in [Place -> {Absent, Directory, Socket} \cup 1 .. Len(contents)]
    BY <1>2 DEF Init
<1>4. TypeOK
    <2>1. base \in BOOLEAN /\ written \in BOOLEAN /\ moved \in BOOLEAN
          /\ failed \in BOOLEAN
        BY DEF Init
    <2>2. file \in 0 .. Len(contents) /\ size \in 0 .. max_safe_size
        BY <1>2 DEF Init
    <2>3. body \in Seq(Byte) /\ Len(body) <= size
        BY EmptySeq DEF Init
    <2>4. changes \in 0 .. MaxChanges /\ link \in Place \cup {Loop}
        BY DEF Init
    <2>5. pc = "new" /\ status = 0
        BY DEF Init
    <2> QED BY <1>2, <1>3, <2>1, <2>2, <2>3, <2>4, <2>5 DEF TypeOK
<1> QED BY <1>4 DEF Init, IInv, NowSeen, StatusAtEnd, PathTested, OpenedSeen, ReadSoFar,
        NothingRead, ServedVersion, FailuresJustified

\* A change adds what there is now to what has been seen.  It spoils what the
\* handler knows of the path and of the file only if it is of those two kinds.
LEMMA ChangeInv ==
    ASSUME IInv, Change, TypeOK',
           ~moved' => ~moved /\ link' = link,
           ~written' => /\ ~written
                        /\ \A n \in 1 .. Len(contents) : contents'[n] = contents[n]
    PROVE  IInv'
<1> USE DEF IInv
<1>1. /\ pc' = pc /\ file' = file /\ size' = size /\ body' = body /\ status' = status
      /\ failed' = failed /\ pc \notin {"done", "thrown", "no_root"}
      /\ seen \subseteq seen' /\ Observed' \in seen'
    BY DEF Change, locals
<1>2. status' = 0
    BY <1>1 DEF StatusAtEnd
<1>3. pc \in {"size", "read"} => file \in 1 .. Len(contents)
    BY DEF TypeOK
<1>4. NowSeen' /\ StatusAtEnd' /\ ServedVersion' /\ FailuresJustified' /\ NothingRead'
    BY <1>1, <1>2 DEF NowSeen, StatusAtEnd, ServedVersion, FailuresJustified, NothingRead
<1>5. PathTested'
    BY <1>1, <1>2 DEF PathTested, Inside
<1>6. OpenedSeen'
    BY <1>1, <1>3 DEF OpenedSeen
<1>7. ReadSoFar'
    BY <1>1, <1>3 DEF ReadSoFar
<1> QED BY <1>4, <1>5, <1>6, <1>7

\* Every kind of change keeps the types and is of one of those kinds.
LEMMA OthersInv == ASSUME IInv, Others PROVE IInv'
<1> USE DEF IInv
<1>1. ASSUME Change PROVE /\ pc' = pc /\ file' = file /\ size' = size /\ body' = body
                          /\ status' = status /\ failed' = failed
                          /\ changes' \in 0 .. MaxChanges
    BY <1>1 DEF Change, locals, TypeOK
<1>2. ASSUME NEW q \in Place, NEW v \in Version, Replace(q, v) PROVE IInv'
    <2>1. v \in Seq(Byte) /\ contents \in Seq(Seq(Byte)) /\ contents' = Append(contents, v)
        BY <1>2 DEF Replace, TypeOK
    <2>2. /\ contents' \in Seq(Seq(Byte)) /\ Len(contents') = Len(contents) + 1
          /\ \A n \in 1 .. Len(contents) : contents'[n] = contents[n]
        BY <2>1, AppendProperties
    <2>3. Len(contents) \in Nat
        BY <2>1
    <2>4. node' \in [Place -> {Absent, Directory, Socket} \cup 1 .. Len(contents')]
        BY <1>2, <2>2, <2>3 DEF Replace, TypeOK
    <2>5. TypeOK'
        BY <1>1, <1>2, <2>2, <2>3, <2>4 DEF Replace, TypeOK
    <2> QED BY <1>2, <2>2, <2>5, ChangeInv DEF Replace
<1>3. ASSUME NEW q \in Place, NEW n \in {Absent, Directory, Socket}, Remove(q, n) PROVE IInv'
    <2>1. TypeOK'
        BY <1>1, <1>3 DEF Remove, TypeOK
    <2> QED BY <1>3, <2>1, ChangeInv DEF Remove
<1>4. ASSUME NEW q \in Place, WriteInPlace(q) PROVE IInv'
    <2>1. node[q] \in 1 .. Len(contents)
        <3>1. node[q] \in {0, -1, -2} \cup 1 .. Len(contents)
            BY DEF TypeOK, Absent, Directory, Socket
        <3>2. node[q] > 0
            BY <1>4 DEF WriteInPlace, IsFile
        <3> QED BY <3>1, <3>2
    <2>2. /\ contents \in Seq(Seq(Byte)) /\ contents[node[q]] \in Seq(Byte)
          /\ << >> \in Seq(Byte)
        BY <2>1, ElementOfSeq DEF TypeOK
    <2>3. PICK c \in Seq(Byte) : contents' = [contents EXCEPT ![node[q]] = c]
        <3>1. CASE contents' = [contents EXCEPT ![node[q]] = << >>]
            BY <2>2, <3>1
        <3>2. CASE \E b \in Byte : contents' = [contents EXCEPT ![node[q]] = Append(@, b)]
            <4>1. PICK b \in Byte :
                      contents' = [contents EXCEPT ![node[q]] = Append(contents[node[q]], b)]
                BY <3>2
            <4>2. Append(contents[node[q]], b) \in Seq(Byte)
                BY <2>2, AppendProperties
            <4> QED BY <4>1, <4>2
        <3> QED BY <1>4, <3>1, <3>2 DEF WriteInPlace
    <2>4. contents' \in Seq(Seq(Byte)) /\ Len(contents') = Len(contents)
        BY <2>1, <2>2, <2>3, ExceptSeq
    <2>5. TypeOK'
        BY <1>1, <1>4, <2>4 DEF WriteInPlace, TypeOK
    <2> QED BY <1>4, <2>5, ChangeInv DEF WriteInPlace
<1>5. ASSUME NEW q \in Place \cup {Loop}, Relink(q) PROVE IInv'
    <2>1. TypeOK'
        BY <1>1, <1>5 DEF Relink, TypeOK
    <2> QED BY <1>5, <2>1, ChangeInv DEF Relink
<1>6. CASE RemoveBase
    <2>1. TypeOK'
        <3>1. base' \in BOOLEAN
            BY <1>6 DEF RemoveBase
        <3>2. UNCHANGED <<link, node, contents, written, moved>> /\ Change
            BY <1>6 DEF RemoveBase
        <3> QED BY <1>1, <3>1, <3>2 DEF TypeOK
    <2> QED BY <1>6, <2>1, ChangeInv DEF RemoveBase
<1> QED BY <1>2, <1>3, <1>4, <1>5, <1>6 DEF Others

-------------------------------------------------------------------------------
(* The handler                                                                 *)

Before == {"new", "method", "safe", "exists", "directory", "regular", "open"}
Tested == {"exists", "directory", "regular", "open"}

\* The handler goes on to its next test, or throws, and there is a reason for it.
LEMMA GoInv ==
    ASSUME IInv, pc \in Before, NEW next \in Before \cup {"thrown", "no_root"}, Go(next),
           next \in Tested /\ ~moved => Inside(link),
           next = "thrown" => ~base \/ link = Loop
    PROVE  IInv'
<1> USE DEF IInv, Before, Tested
<1>1. /\ pc' = next /\ status' = 0 /\ file' = file /\ size' = size /\ body' = << >>
      /\ body = << >>
      /\ UNCHANGED <<base, link, node, contents, seen, written, moved, changes, failed>>
    BY DEF Go, fs, locals, history, StatusAtEnd, NothingRead
<1>2. Observed' = Observed
    BY <1>1 DEF Observed, Target
<1>3. TypeOK'
    BY <1>1 DEF TypeOK
<1>4. NowSeen' /\ StatusAtEnd' /\ OpenedSeen' /\ ReadSoFar' /\ NothingRead'
      /\ ServedVersion'
    BY <1>1, <1>2 DEF NowSeen, StatusAtEnd, OpenedSeen, ReadSoFar, NothingRead, ServedVersion
<1>5. PathTested'
    BY <1>1 DEF PathTested, Inside
<1>6. FailuresJustified'
    <2>1. next = "thrown" => ~Observed.base \/ Observed.at = Loop
        BY DEF Observed
    <2> QED BY <1>1, <2>1 DEF FailuresJustified, NowSeen
<1> QED BY <1>3, <1>4, <1>5, <1>6

\* The handler answers, and there is a reason for the answer.
LEMMA RespondInv ==
    ASSUME IInv, NEW code \in {200, 400, 403, 404}, NEW text \in {<< >>, body},
           Respond(code, text),
           code = 403 => ~Inside(link),
           code = 404 => \/ written
                         \/ \E o \in seen : ~IsFile(o.node) \/ Len(o.content) > max_safe_size,
           code = 200 /\ ~moved => Inside(link),
           code = 200 /\ ~written =>
               \E o \in seen : \/ IsFile(o.node) /\ o.content = text
                               \/ o.node = Directory /\ text = << >>
    PROVE  IInv'
<1> USE DEF IInv
<1>1. /\ pc' = "done" /\ status' = code /\ body' = text /\ file' = file /\ size' = size
      /\ UNCHANGED <<base, link, node, contents, seen, written, moved, changes, failed>>
    BY DEF Respond, fs, history
<1>2. Observed' = Observed
    BY <1>1 DEF Observed, Target
<1>3. TypeOK'
    <2>1. text \in Seq(Byte) /\ Len(text) <= size
        <3>1. size \in Nat /\ body \in Seq(Byte) /\ Len(body) <= size
            BY DEF TypeOK
        <3>2. CASE text = << >>
            BY <3>1, <3>2, NoBytes
        <3>3. CASE text = body
            BY <3>1, <3>3
        <3> QED BY <3>2, <3>3
    <2> QED BY <1>1, <2>1 DEF TypeOK
<1>4. NowSeen' /\ StatusAtEnd' /\ OpenedSeen' /\ ReadSoFar' /\ NothingRead'
    BY <1>1, <1>2 DEF NowSeen, StatusAtEnd, OpenedSeen, ReadSoFar, NothingRead
<1>5. PathTested'
    BY <1>1 DEF PathTested, Inside
<1>6. ServedVersion'
    BY <1>1 DEF ServedVersion
<1>7. FailuresJustified'
    <2>1. code = 403 => ~Inside(Observed.at)
        BY DEF Observed
    <2>2. \A o : Inside(o)' <=> Inside(o)
        BY DEF Inside
    <2> QED BY <1>1, <2>1, <2>2 DEF FailuresJustified, NowSeen
<1> QED BY <1>3, <1>4, <1>5, <1>6, <1>7

\* A call of the file system fails: the request ends, whatever file_path leads to.
LEMMA FailsInv ==
    ASSUME IInv, NEW next \in {"done", "thrown"}, NEW code \in {0, 404}, Fails(next, code),
           code = 404 => next = "done"
    PROVE  IInv'
<1> USE DEF IInv
<1>1. /\ pc' = next /\ status' = code /\ body' = << >> /\ failed' = TRUE
      /\ file' = file /\ size' = size
      /\ UNCHANGED <<base, link, node, contents, seen, written, moved, changes>>
    BY DEF Fails, fs
<1>2. Observed' = Observed
    BY <1>1 DEF Observed, Target
<1>3. TypeOK'
    <2>1. body' \in Seq(Byte) /\ Len(body') <= size'
        BY <1>1, NoBytes DEF TypeOK
    <2> QED BY <1>1, <2>1 DEF TypeOK
<1>4. NowSeen' /\ StatusAtEnd' /\ OpenedSeen' /\ ReadSoFar' /\ NothingRead'
      /\ ServedVersion'
    BY <1>1, <1>2 DEF NowSeen, StatusAtEnd, OpenedSeen, ReadSoFar, NothingRead, ServedVersion
<1>5. PathTested' /\ FailuresJustified'
    BY <1>1 DEF PathTested, FailuresJustified
<1> QED BY <1>3, <1>4, <1>5

\* The steps up to the opening of the file.
LEMMA EarlyInv ==
    ASSUME IInv,
           \/ \E args \in SUBSET {"root"} : Construct(args)
           \/ \E method \in {"GET", "POST"} : CheckMethod(method)
           \/ IsPathSafe \/ Exists \/ NotDirectory \/ RegularFile
    PROVE  IInv'
<1> USE DEF Before, Tested
<1>1. NowSeen /\ PathTested /\ TypeOK
    BY DEF IInv
<1>2. CASE \E args \in SUBSET {"root"} : Construct(args)
    BY <1>2, GoInv DEF Construct
<1>3. CASE \E method \in {"GET", "POST"} : CheckMethod(method)
    BY <1>3, GoInv, RespondInv DEF CheckMethod
<1>4. CASE IsPathSafe
    <2>1. pc = "safe"
        BY <1>4 DEF IsPathSafe
    <2>2. CASE (~base \/ link = Loop) /\ Throw
        BY <2>1, <2>2, GoInv DEF Throw
    <2>3. link # Loop => (PathSafe(link) <=> Inside(link))
        BY <1>1, SafeIsInside DEF TypeOK
    <2>4. CASE link # Loop /\ PathSafe(link) /\ Go("exists")
        BY <2>1, <2>3, <2>4, GoInv
    <2>5. CASE link # Loop /\ ~PathSafe(link) /\ Respond(403, << >>)
        BY <2>3, <2>5, RespondInv
    <2>6. CASE Fails("thrown", 0)
        BY <2>6, FailsInv
    <2> QED BY <1>4, <2>2, <2>4, <2>5, <2>6 DEF IsPathSafe
<1>5. ASSUME NEW here \in {"exists", "directory", "regular"}, NEW passed,
             NEW next \in {"directory", "regular", "open"}, Test(here, passed, next),
             ~passed => ~IsFile(Target)
      PROVE  IInv'
    <2>1. pc = here
        BY <1>5 DEF Test
    <2>2. ~moved => Inside(link)
        BY <1>1, <2>1 DEF PathTested
    <2>3. CASE link = Loop /\ Throw
        BY <2>1, <2>3, GoInv DEF Throw
    <2>4. CASE passed /\ Go(next)
        BY <2>1, <2>2, <2>4, GoInv
    <2>5. CASE ~passed /\ Respond(404, << >>)
        <3>1. Observed \in seen /\ ~IsFile(Observed.node)
            BY <1>1, <1>5, <2>5 DEF NowSeen, Observed
        <3> QED BY <2>5, <3>1, RespondInv
    <2>6. CASE Fails("thrown", 0)
        BY <2>6, FailsInv
    <2> QED BY <1>5, <2>3, <2>4, <2>5, <2>6 DEF Test
<1>6. ~IsFile(Absent) /\ ~IsFile(Directory)
    BY DEF IsFile, Absent, Directory
<1>7. CASE Exists
    BY <1>5, <1>6, <1>7 DEF Exists
<1>8. CASE NotDirectory
    BY <1>5, <1>6, <1>8 DEF NotDirectory
<1>9. CASE RegularFile
    BY <1>5, <1>9 DEF RegularFile
<1> QED BY <1>2, <1>3, <1>4, <1>7, <1>8, <1>9

\* The file is opened: what is open has just been seen.
LEMMA OpenInv == ASSUME IInv, Open PROVE IInv'
<1> USE DEF IInv
<1>1. pc = "open" /\ (~moved => Inside(link)) /\ Observed \in seen /\ Observed.node = Target
    BY DEF Open, PathTested, NowSeen, Observed
<1>2. CASE ~IsFile(Target) /\ Respond(404, << >>)
    BY <1>1, <1>2, RespondInv
<1>3. CASE Target = Directory /\ Respond(200, << >>)
    BY <1>1, <1>3, RespondInv
<1>4. CASE /\ IsFile(Target) /\ file' = Target /\ pc' = "size"
           /\ UNCHANGED <<fs, size, body, status, history>>
    <2>1. UNCHANGED <<base, link, node, contents, size, body, status, seen, written, moved,
                      changes, failed>>
        BY <1>4 DEF fs, history
    <2>2. Observed' = Observed /\ status' = 0 /\ body' = << >>
        BY <1>1, <2>1 DEF Observed, Target, StatusAtEnd, NothingRead
    <2>3. Target \in 1 .. Len(contents)
        <3>1. link \in Place
            BY <1>4 DEF TypeOK, Target, IsFile, Absent
        <3>2. node[link] \in {0, -1, -2} \cup 1 .. Len(contents) /\ link # Loop
            BY <3>1 DEF TypeOK, Absent, Directory, Socket
        <3> QED BY <1>4, <3>2 DEF Target, IsFile
    <2>4. TypeOK'
        BY <1>4, <2>1, <2>3 DEF TypeOK
    <2>5. Observed.content = contents[Target]
        BY <1>4 DEF Observed
    <2>6. NowSeen' /\ StatusAtEnd' /\ ReadSoFar' /\ NothingRead' /\ ServedVersion'
        BY <1>1, <1>4, <2>1, <2>2 DEF NowSeen, StatusAtEnd, ReadSoFar, NothingRead, ServedVersion
    <2>7. OpenedSeen'
        BY <1>1, <1>4, <2>1, <2>5 DEF OpenedSeen
    <2>8. PathTested' /\ FailuresJustified'
        BY <1>1, <1>4, <2>1, <2>2 DEF PathTested, Inside, FailuresJustified
    <2> QED BY <2>4, <2>6, <2>7, <2>8
<1>5. CASE Fails("done", 404)
    BY <1>5, FailsInv
<1> QED BY <1>2, <1>3, <1>4, <1>5 DEF Open

\* The size is that of the file that is open, which was seen with that size.
LEMMA TakeSizeInv == ASSUME IInv, TakeSize PROVE IInv'
<1> USE DEF IInv
<1>1. /\ pc = "size" /\ body = << >> /\ status = 0 /\ file \in 1 .. Len(contents)
      /\ contents \in Seq(Seq(Byte))
    BY DEF TakeSize, NothingRead, StatusAtEnd, TypeOK
<1>2. contents[file] \in Seq(Byte) /\ Len(contents[file]) \in Nat
    BY <1>1, ElementOfSeq
<1>3. CASE TooLarge(Len(contents[file])) /\ Respond(404, << >>)
    <2>1. written \/ \E o \in seen : Len(o.content) > max_safe_size
        BY <1>1, <1>3 DEF OpenedSeen, TooLarge
    <2> QED BY <1>3, <2>1, RespondInv
<1>4. CASE /\ ~TooLarge(Len(contents[file])) /\ size' = Len(contents[file]) /\ pc' = "read"
           /\ UNCHANGED <<fs, file, body, status, history>>
    <2>1. UNCHANGED <<base, link, node, contents, file, body, status, seen, written, moved,
                      changes, failed>>
        BY <1>4 DEF fs, history
    <2>2. Observed' = Observed
        BY <2>1 DEF Observed, Target
    <2>3. TypeOK'
        <3>1. size' \in 0 .. max_safe_size
            BY <1>2, <1>4 DEF TooLarge
        <3>2. Len(body') = 0
            BY <1>1, <2>1, NoBytes
        <3>3. Len(body') <= size' /\ body' \in Seq(Byte) /\ file' > 0
            BY <1>1, <2>1, <3>1, <3>2, NoBytes
        <3> QED BY <1>4, <2>1, <3>1, <3>3 DEF TypeOK
    <2>4. NowSeen' /\ StatusAtEnd' /\ NothingRead' /\ ServedVersion'
        BY <1>1, <1>4, <2>1, <2>2 DEF NowSeen, StatusAtEnd, NothingRead, ServedVersion
    <2>5. OpenedSeen' /\ PathTested' /\ FailuresJustified'
        BY <1>1, <1>4, <2>1 DEF OpenedSeen, PathTested, Inside, FailuresJustified
    <2>6. ReadSoFar'
        <3>1. SubSeq(contents[file], 1, 0) = << >> /\ Len(<< >>) = 0
            BY SubSeqEmpty
        <3> QED BY <1>1, <1>4, <2>1, <3>1 DEF ReadSoFar
    <2> QED BY <2>3, <2>4, <2>5, <2>6
<1>5. CASE Fails("thrown", 0)
    BY <1>5, FailsInv
<1> QED BY <1>3, <1>4, <1>5 DEF TakeSize

\* A piece that is read comes next in the file that is open.
LEMMA ReadPieceInv == ASSUME IInv, ReadPiece PROVE IInv'
<1> USE DEF IInv
<1> DEFINE content == contents[file]
<1>1. PICK n \in Len(body) + 1 .. size :
          n <= Len(content) /\ body' = body \o SubSeq(content, Len(body) + 1, n)
    BY DEF ReadPiece, Opened
<1>2. /\ pc = "read" /\ status = 0
      /\ UNCHANGED <<base, link, node, contents, pc, file, size, status, seen, written,
                     moved, changes, failed>>
    BY DEF ReadPiece, StatusAtEnd, fs, history
<1>3. /\ file \in 1 .. Len(contents) /\ contents \in Seq(Seq(Byte)) /\ size \in Nat
      /\ body \in Seq(Byte) /\ Len(body) \in Nat /\ n \in Nat
    BY <1>2 DEF TypeOK
<1>4. content \in Seq(Byte) /\ Len(content) \in Nat
    BY <1>3, ElementOfSeq
<1> HIDE DEF content
<1>5. /\ Len(body) \in 0 .. Len(content) /\ n \in Len(body) .. Len(content)
      /\ n <= size
    BY <1>1, <1>3, <1>4
<1>6. /\ SubSeq(content, 1, Len(body)) \o SubSeq(content, Len(body) + 1, n)
            = SubSeq(content, 1, n)
      /\ SubSeq(content, Len(body) + 1, n) \in Seq(Byte)
      /\ Len(SubSeq(content, Len(body) + 1, n)) = n - Len(body)
    BY <1>4, <1>5, Pieces
<1>7. body' \in Seq(Byte) /\ Len(body') = n
    BY <1>1, <1>3, <1>6, ConcatProperties
<1>8. TypeOK'
    BY <1>2, <1>5, <1>7 DEF TypeOK
<1>9. Observed' = Observed /\ content' = content
    BY <1>2 DEF Observed, Target, content
<1>10. NowSeen' /\ StatusAtEnd' /\ NothingRead' /\ ServedVersion'
    BY <1>2, <1>9 DEF NowSeen, StatusAtEnd, NothingRead, ServedVersion
<1>11. OpenedSeen' /\ PathTested' /\ FailuresJustified'
    BY <1>2 DEF OpenedSeen, PathTested, Inside, FailuresJustified
<1>12. ReadSoFar'
    BY <1>1, <1>2, <1>6, <1>7, <1>9 DEF ReadSoFar, content
<1> QED BY <1>8, <1>10, <1>11, <1>12

\* The end of the file, or of what there is of it.
LEMMA EndReadInv == ASSUME IInv, EndRead PROVE IInv'
<1> USE DEF IInv
<1>1. /\ pc = "read" /\ size \in Nat /\ body \in Seq(Byte) /\ Len(body) \in Nat
      /\ file \in 1 .. Len(contents) /\ contents \in Seq(Seq(Byte))
    BY DEF EndRead, TypeOK
<1>2. contents[file] \in Seq(Byte) /\ Len(contents[file]) \in Nat /\ IsFile(file)
    BY <1>1, ElementOfSeq DEF IsFile
<1>3. CASE Len(body) = size /\ Respond(200, body)
    <2>1. ~written => body = contents[file]
        BY <1>1, <1>2, <1>3, SubSeqFull DEF ReadSoFar
    <2>2. ~moved => Inside(link)
        BY <1>1 DEF PathTested
    <2>3. ~written => \E o \in seen : IsFile(o.node) /\ o.content = body
        BY <1>1, <1>2, <2>1 DEF OpenedSeen
    <2> QED BY <1>3, <2>2, <2>3, RespondInv
<1>4. CASE Len(body) < size /\ Len(Opened) <= Len(body) /\ Respond(404, << >>)
    <2>1. written
        BY <1>1, <1>2, <1>4 DEF ReadSoFar, Opened
    <2> QED BY <1>4, <2>1, RespondInv
<1>5. CASE Fails("done", 404)
    BY <1>5, FailsInv
<1> QED BY <1>3, <1>4, <1>5 DEF EndRead

\* Every step preserves the invariant.
LEMMA NextInv == IInv /\ [Next]_vars => IInv'
<1> SUFFICES ASSUME IInv, [Next]_vars PROVE IInv'
    OBVIOUS
<1>1. CASE UNCHANGED vars
    <2>1. UNCHANGED <<base, link, node, contents, pc, file, size, body, status, seen, written,
                      moved, changes, failed>>
        BY <1>1 DEF vars, fs, locals, history
    <2>2. Observed' = Observed
        BY <2>1 DEF Observed, Target
    <2>3. TypeOK' /\ NowSeen' /\ StatusAtEnd' /\ PathTested' /\ OpenedSeen'
        BY <2>1, <2>2 DEF IInv, TypeOK, NowSeen, StatusAtEnd, PathTested, Inside, OpenedSeen
    <2>4. ReadSoFar' /\ NothingRead' /\ ServedVersion' /\ FailuresJustified'
        BY <2>1 DEF IInv, ReadSoFar, NothingRead, ServedVersion, FailuresJustified, Inside
    <2> QED BY <2>3, <2>4 DEF IInv
<1> QED BY <1>1, OthersInv, EarlyInv, OpenInv, TakeSizeInv, ReadPieceInv, EndReadInv
        DEF Next, Handler

-------------------------------------------------------------------------------

\* Whatever the other processes do, the handler keeps to its invariant.
THEOREM InductiveInvariant == Spec => []IInv
    BY InitInv, NextInv, PTL DEF Spec

\* No more than max_safe_size bytes are held, however long the files are.
THEOREM TypeCorrect == Spec => []TypeOK
<1>1. IInv => TypeOK
    BY DEF IInv
<1> QED BY <1>1, InductiveInvariant, PTL

\* A 200 has the whole of one version of the file, when files are replaced.
THEOREM ServesOneVersion == Spec => []ServedVersion
<1>1. IInv => ServedVersion
    BY DEF IInv
<1> QED BY <1>1, InductiveInvariant, PTL

\* What is served lies within the base, when links stay as they are.
THEOREM ServesFromBase == Spec => []ServedFromBase
<1>1. IInv => ServedFromBase
    BY DEF IInv, PathTested, ServedFromBase
<1> QED BY <1>1, InductiveInvariant, PTL

\* No request fails without a reason: a 403 never does, and a 404 and an exception only
\* when a call of the file system has failed.
THEOREM FailsForAReason == Spec => []FailuresJustified
<1>1. IInv => FailuresJustified
    BY DEF IInv
<1> QED BY <1>1, InductiveInvariant, PTL
===============================================================================
