-------------------------- MODULE EntityFiles_proofs --------------------------
(***************************************************************************)
(* What the lock of the entity handlers is there for: a POST never lands   *)
(* on an entity that exists, no client reads half a file, and a fault      *)
(* leaves one file torn at most.  All follow from mutual exclusion,        *)
(* because a thread inside the lock of a root is the only one that changes *)
(* the files of that root.  This makes the handlers an implementation of   *)
(* EntityStore, whatever the file system does to them.  On every directory *)
(* they can leave, the mock of the unit tests does what a real file system *)
(* does that does not fail.                                                *)
(***************************************************************************)
EXTENDS EntityHandler_proofs, MockFilesystem

\* Both are in IInv's reach.
LEMMA Exclusion == IInv => MutualExclusion
    BY DEF IInv, MutualExclusion, HeldIsPooled, LockedIsOwned, HasMutex

\* A thread inside the lock has a path for each id, under its own root.
LEMMA PathType ==
    ASSUME IInv, NEW w \in Worker, HasHandler(w), NEW id \in Id
    PROVE  /\ EntityPath(w, id) = <<base_dir_(w), request[w].name, id>>
           /\ EntityPath(w, id) \in Path
<1>1. request[w] \in Requests /\ request[w].root \in Root
    BY DEF IInv, HandlersHaveRequests
<1>2. request[w].name \in Name
    BY <1>1, RequestType
<1> QED BY <1>1, <1>2 DEF EntityPath, base_dir_, Path

\* A step inside the lock changes files of the thread's own root only.
LEMMA OnlyOwnFiles ==
    ASSUME IInv, NEW w \in Worker, CrudAction(w), NEW p \in Path, files'[p] # files[p]
    PROVE  p[1] = base_dir_(w)
<1>1. HasHandler(w) /\ files \in [Path -> Content]
    BY CrudActionIsCrudStep DEF CrudStep, InCrud, HasHandler, IInv, TypeOK
<1>2. ASSUME NEW id \in Id, NEW c, files' = [files EXCEPT ![EntityPath(w, id)] = c]
      PROVE  p[1] = base_dir_(w)
    <2>1. p = EntityPath(w, id)
        BY <1>1, <1>2
    <2> QED BY <1>1, <2>1, PathType
<1>3. CASE OpenForWriting(w)
    BY <1>2, <1>3 DEF OpenForWriting, Truncate, Goto, IInv, IdsAreIds
<1>4. CASE FlushData(w)
    BY <1>2, <1>4 DEF FlushData, Flush, IInv, IdsAreIds
<1>5. CASE RemoveFile(w)
    <2>1. request[w].id # NoId => request[w].id \in Id
        BY <1>1, RequestType DEF IInv, HandlersHaveRequests
    <2> QED BY <1>2, <1>5, <2>1 DEF RemoveFile, Remove
<1>6. CASE UNCHANGED files
    BY <1>6
<1> QED BY <1>3, <1>4, <1>5, <1>6 DEF CrudAction, NextIdForPost, PutId, CheckId,
       OpenForWritingFails, FlushCutShort, List, ReadExists, ReadData, ReadCutShort,
       UnsupportedMethod

\* Hence the files of a root do not change under a thread inside its lock.
LEMMA FilesStand ==
    ASSUME IInv, NEW v \in Worker, NEW w \in Worker, v # w, CrudAction(v), InCrud(w),
           NEW id \in Id
    PROVE  files'[EntityPath(w, id)] = files[EntityPath(w, id)]
<1>1. HasHandler(w) /\ InCrud(v)
    BY CrudActionIsCrudStep DEF CrudStep, InCrud, HasHandler
<1>2. base_dir_(v) # base_dir_(w)
    BY <1>1, Exclusion DEF MutualExclusion
<1>3. EntityPath(w, id) \in Path /\ EntityPath(w, id)[1] = base_dir_(w)
    BY <1>1, PathType
<1> QED BY <1>2, <1>3, OnlyOwnFiles

\* The steps outside the lock change no file; what they change of a thread
\* inside the lock is nothing either.
OutsideAction(w) ==
    \/ Construct(w) \/ ConstructThrows(w) \/ OpenFilesystem(w) \/ RequestMutex(w)
    \/ Lock(w) \/ Unlock(w) \/ Destroy(w)

\* A step outside the lock leaves the files and the ids the threads work with alone.
LEMMA OutsideStep ==
    ASSUME IInv, NEW w \in Worker, OutsideAction(w)
    PROVE  /\ UNCHANGED <<files, faults>>
           /\ pc'[w] \notin {"open", "write", "ofstream", "flush"}
           /\ pc[w] \notin {"open", "write", "ofstream", "flush"}
           /\ \A v \in Worker \ {w} : /\ pc'[v] = pc[v]
                                      /\ request'[v] = request[v]
                                      /\ new_id'[v] = new_id[v]
           /\ \A v \in Worker : response'[v] \in {response[v], NoResponse}
<1> USE DEF IInv, TypeOK
<1>1. CASE Construct(w)
    BY <1>1 DEF Construct, Goto
<1>2. CASE Destroy(w)
    <2>1. HasKey(base_dir_(w))
        BY <1>2, HandlerKeepsKey DEF Destroy, HasHandler
    <2> QED BY <1>2, <2>1 DEF Destroy, Goto
<1>3. CASE \/ ConstructThrows(w) \/ OpenFilesystem(w) \/ Lock(w) \/ Unlock(w)
    BY <1>3 DEF ConstructThrows, OpenFilesystem, Lock, Unlock, Goto
<1>4. CASE RequestMutex(w)
    BY <1>4 DEF RequestMutex, Goto
<1> QED BY <1>1, <1>2, <1>3, <1>4 DEF OutsideAction

\* Next, by what its steps do to the files.
LEMMA NextCases ==
    ASSUME [Next]_vars
    PROVE  \/ \E w \in Worker : OutsideAction(w) \/ CrudAction(w)
           \/ UNCHANGED <<files, pc, request, new_id, response, faults>>
           \/ Crash
    BY DEF Next, Statement, OutsideAction, CrudAction, Quiesce, vars, workerVars

-------------------------------------------------------------------------------
(* POST *)

\* From next_id to the ofstream, the id of a POST is free, or it will be refused
\* because there is an entity with the largest int.
FreshId(w) ==
    IF ValidId(new_id[w]) THEN ~Exists(EntityPath(w, new_id[w]))
    ELSE \E id \in Id : StoiOf[id] = IntMax /\ Exists(EntityPath(w, id))

PostIdIsFresh ==
    \A w \in Worker :
        /\ pc[w] \in {"write", "ofstream"} /\ request[w].method = "POST" => FreshId(w)
        /\ pc[w] = "ofstream" => ValidId(new_id[w])

\* The id that next_id returns is one above all the ints in use, or not valid
\* because the sum wrapped around.
LEMMA NextIdIsFresh ==
    ASSUME NEW root \in Root, NEW name \in Name, NEW id \in Id, NextId(root, name, id)
    PROVE  IF ValidId(id) THEN ~Exists(<<root, name, id>>)
           ELSE \E i \in Id : StoiOf[i] = IntMax /\ Exists(<<root, name, i>>)
<1>1. PICK m \in UsedInts(root, name) : /\ \A n \in UsedInts(root, name) : n <= m
                                        /\ id = IdOf[Wrap(m + 1)]
    BY DEF NextId
<1>2. m # 0 => \E i \in Id : m = StoiOf[i] /\ m # NotInt /\ Exists(<<root, name, i>>)
    BY <1>1 DEF UsedInts, ListIds
<1>3. /\ m \in IntMin .. IntMax
      /\ m >= 0
    <2>1. 0 \in UsedInts(root, name)
        BY DEF UsedInts
    <2>2. m \in (IntMin .. IntMax) \cup {0}
        BY <1>2, IdAssumption
    <2>3. IntMax \in Nat
        BY IntMaxAssumption
    <2> QED BY <1>1, <2>1, <2>2, <2>3 DEF IntMin
<1>4. Wrap(m + 1) \in (1 .. IntMax) \cup {IntMin}
    BY <1>3, IntMaxAssumption DEF Wrap, IntMin
<1>5. StoiOf[id] = Wrap(m + 1)
    BY <1>1, <1>4, IdAssumption
<1>6. StoiOf[id] # NotInt
    <2>1. Wrap(m + 1) \in Int
        BY <1>4, IntMaxAssumption DEF IntMin
    <2> QED BY <1>5, <2>1, IdAssumption
<1>7. CASE ValidId(id)
    <2>1. Wrap(m + 1) > 0
        BY <1>5, <1>7 DEF ValidId
    <2>2. Wrap(m + 1) = m + 1
        BY <1>3, <2>1, IntMaxAssumption DEF Wrap
    <2>3. ASSUME Exists(<<root, name, id>>)
          PROVE  FALSE
        <3>1. id \in ListIds(root, name)
            BY <2>3 DEF ListIds
        <3>2. StoiOf[id] \in UsedInts(root, name)
            BY <1>6, <3>1 DEF UsedInts
        <3> QED BY <1>1, <1>3, <1>5, <2>2, <3>2
    <2> QED BY <1>7, <2>3
<1>8. CASE ~ValidId(id)
    <2>1. ~(Wrap(m + 1) > 0)
        BY <1>5, <1>6, <1>8 DEF ValidId
    <2>2. m = IntMax /\ m # 0
        BY <1>3, <2>1, IntMaxAssumption DEF Wrap
    <2> QED BY <1>2, <1>8, <2>2
<1> QED BY <1>7, <1>8

\* No thread is in a POST yet.
LEMMA PostIdInit == Init => PostIdIsFresh
    BY DEF Init, PostIdIsFresh

\* No step gives a file the id a POST inside the lock has chosen.
LEMMA PostIdNext == IInv /\ PostIdIsFresh /\ [Next]_vars => PostIdIsFresh'
<1> SUFFICES ASSUME IInv, PostIdIsFresh, [Next]_vars
             PROVE  PostIdIsFresh'
    OBVIOUS
<1>1. ASSUME NEW u \in Worker, OutsideAction(u)
      PROVE  PostIdIsFresh'
    <2> SUFFICES ASSUME NEW w \in Worker, pc'[w] \in {"write", "ofstream"}
                 PROVE  /\ request'[w].method = "POST" => FreshId(w)'
                        /\ pc'[w] = "ofstream" => ValidId(new_id'[w])
        BY DEF PostIdIsFresh
    <2>1. /\ pc'[w] = pc[w] /\ request'[w] = request[w] /\ new_id'[w] = new_id[w]
          /\ files' = files
        BY <1>1, OutsideStep
    <2>2. FreshId(w)' <=> FreshId(w)
        BY <2>1 DEF FreshId, Exists, EntityPath, base_dir_
    <2> QED BY <2>1, <2>2 DEF PostIdIsFresh
<1>2. ASSUME NEW u \in Worker, CrudAction(u)
      PROVE  PostIdIsFresh'
    <2>1. CrudStep(u)
        BY <1>2, CrudActionIsCrudStep
    <2>2. /\ \A v \in Worker \ {u} : pc'[v] = pc[v] /\ new_id'[v] = new_id[v]
          /\ request' = request
        BY <1>2, <2>1, CrudActionIds DEF CrudStep, IInv, TypeOK
    <2> SUFFICES ASSUME NEW w \in Worker
                 PROVE  /\ pc'[w] \in {"write", "ofstream"} /\ request[w].method = "POST"
                              => FreshId(w)'
                        /\ pc'[w] = "ofstream" => ValidId(new_id'[w])
        BY <2>2 DEF PostIdIsFresh
    <2>3. CASE w # u
        <3>1. CASE pc[w] \in {"write", "ofstream"}
            <4>1. InCrud(w) /\ new_id[w] \in Id
                BY <3>1 DEF InCrud, IInv, IdsAreIds
            <4>2. \A id \in Id : files'[EntityPath(w, id)] = files[EntityPath(w, id)]
                BY <1>2, <2>3, <4>1, FilesStand
            <4>3. FreshId(w) => FreshId(w)'
                BY <2>2, <2>3, <4>1, <4>2 DEF FreshId, Exists, EntityPath, base_dir_
            <4> QED BY <2>2, <2>3, <4>3 DEF PostIdIsFresh
        <3>2. CASE pc[w] \notin {"write", "ofstream"}
            BY <2>2, <2>3, <3>2
        <3> QED BY <3>1, <3>2
    <2>4. CASE w = u
        <3>1. request[u] \in Requests /\ request[u].root \in Root /\ request[u].name \in Name
            <4>1. HasHandler(u)
                BY <2>1 DEF CrudStep, InCrud, HasHandler
            <4> QED BY <4>1, RequestType DEF IInv, HandlersHaveRequests
        <3>2. CASE NextIdForPost(u)
            <4>1. CASE FilesystemError(u, "crud")
                BY <2>4, <4>1 DEF FilesystemError, Answer, Goto, IInv, TypeOK
            <4>2. CASE ~FilesystemError(u, "crud")
                <5>1. PICK id \in Id : /\ NextId(base_dir_(u), request[u].name, id)
                                       /\ new_id' = [new_id EXCEPT ![u] = id]
                    BY <3>2, <4>2 DEF NextIdForPost
                <5>2. pc'[u] = "write" /\ files' = files /\ new_id'[u] = id
                    BY <3>2, <4>2, <5>1 DEF NextIdForPost, Goto, IInv, TypeOK
                <5>3. IF ValidId(id) THEN ~Exists(<<base_dir_(u), request[u].name, id>>)
                      ELSE \E i \in Id : /\ StoiOf[i] = IntMax
                                        /\ Exists(<<base_dir_(u), request[u].name, i>>)
                    BY <3>1, <5>1, NextIdIsFresh DEF base_dir_
                <5>4. FreshId(u)'
                    BY <2>2, <5>2, <5>3 DEF FreshId, Exists, EntityPath, base_dir_
                <5> QED BY <2>4, <5>2, <5>4
            <4> QED BY <4>1, <4>2
        <3>3. CASE PutId(u)
            BY <2>4, <3>3 DEF PutId, Answer, Goto, IInv, TypeOK
        <3>4. CASE CheckId(u)
            <4>1. UNCHANGED <<files, new_id>> /\ pc[u] = "write"
                BY <3>4 DEF CheckId, Answer, Goto
            <4>2. FreshId(u) => FreshId(u)'
                BY <2>2, <4>1 DEF FreshId, Exists, EntityPath, base_dir_
            <4> QED BY <2>2, <2>4, <3>4, <4>1, <4>2
                   DEF CheckId, Answer, Goto, IInv, TypeOK, PostIdIsFresh
        <3>5. CASE ~(NextIdForPost(u) \/ PutId(u) \/ CheckId(u))
            <4>1. pc'[u] \notin {"write", "ofstream"}
                BY <1>2, <3>5 DEF CrudAction, OpenForWriting, OpenForWritingFails,
                   FlushData, FlushCutShort, List, ReadExists, ReadData, ReadCutShort,
                   RemoveFile, UnsupportedMethod, FilesystemError, Answer, Goto, IInv, TypeOK
            <4> QED BY <2>4, <4>1
        <3> QED BY <3>2, <3>3, <3>4, <3>5
    <2> QED BY <2>3, <2>4
<1>3. CASE UNCHANGED <<files, pc, request, new_id, response, faults>>
    BY <1>3 DEF PostIdIsFresh, FreshId, Exists, EntityPath, base_dir_
<1>4. CASE Crash
    BY <1>4 DEF Crash, PostIdIsFresh
<1> QED BY <1>1, <1>2, <1>3, <1>4, NextCases

\* A POST never truncates an entity that exists, although other threads write
\* between its next_id and its ofstream.
THEOREM PostCreates == Spec => PostNeverOverwrites
<1>1. PostIdIsFresh => PostOpensNewFile
    BY DEF PostIdIsFresh, FreshId, PostOpensNewFile
<1>2. Spec => []PostIdIsFresh
    BY PostIdInit, PostIdNext, InductiveInvariant, PTL DEF Spec
<1> QED BY <1>1, <1>2, PTL DEF PostNeverOverwrites

-------------------------------------------------------------------------------
(* Reads *)

Flushes(w, p) == pc[w] = "flush" /\ EntityPath(w, new_id[w]) = p

TornIsBeingWritten ==
    faults = 0 => \A p \in Path : files[p] = Torn => \E w \in Worker : Flushes(w, p)

\* A thread that reads finds no torn file: its writer would be inside the lock
\* of the same root.
LEMMA ReaderSeesWhole ==
    ASSUME IInv, TornIsBeingWritten, faults = 0,
           NEW w \in Worker, pc[w] = "open"
    PROVE  files[EntityPath(w, request[w].id)] # Torn
<1>1. HasHandler(w) /\ InCrud(w) /\ request[w].id \in Id
    BY DEF HasHandler, InCrud, IInv, IdsAreIds
<1>2. EntityPath(w, request[w].id) \in Path
      /\ EntityPath(w, request[w].id)[1] = base_dir_(w)
    BY <1>1, PathType
<1>3. SUFFICES ASSUME files[EntityPath(w, request[w].id)] = Torn
               PROVE  FALSE
    OBVIOUS
<1>4. PICK v \in Worker : Flushes(v, EntityPath(w, request[w].id))
    BY <1>2, <1>3 DEF TornIsBeingWritten
<1>5. v # w /\ InCrud(v) /\ HasHandler(v) /\ new_id[v] \in Id
    BY <1>4 DEF Flushes, InCrud, HasHandler, IInv, IdsAreIds
<1>6. EntityPath(v, new_id[v])[1] = base_dir_(v)
    BY <1>5, PathType
<1>7. base_dir_(v) = base_dir_(w)
    BY <1>2, <1>4, <1>6 DEF Flushes
<1> QED BY <1>1, <1>5, <1>7, Exclusion DEF MutualExclusion

\* Only the thread that truncated a file leaves it torn, and its flush ends that.
LEMMA TornNext == IInv /\ TornIsBeingWritten /\ [Next]_vars => TornIsBeingWritten'
<1> SUFFICES ASSUME IInv, TornIsBeingWritten, [Next]_vars
             PROVE  TornIsBeingWritten'
    OBVIOUS
<1>1. ASSUME NEW u \in Worker, OutsideAction(u)
      PROVE  TornIsBeingWritten'
    BY <1>1, OutsideStep DEF TornIsBeingWritten, Flushes, EntityPath, base_dir_
<1>2. ASSUME NEW u \in Worker, CrudAction(u)
      PROVE  TornIsBeingWritten'
    <2>1. CrudStep(u) /\ HasHandler(u)
        BY <1>2, CrudActionIsCrudStep DEF CrudStep, InCrud, HasHandler
    <2>2. /\ \A v \in Worker \ {u} : pc'[v] = pc[v] /\ new_id'[v] = new_id[v]
          /\ request' = request /\ faults \in Nat
          /\ faults' = faults \/ faults' = faults + 1
        BY <1>2, <2>1, CrudActionIds, FaultAssumption DEF CrudStep, IInv, TypeOK
    <2> SUFFICES ASSUME faults = 0, faults' = 0, NEW p \in Path, files'[p] = Torn
                 PROVE  \E w \in Worker : Flushes(w, p)'
        BY <2>2 DEF TornIsBeingWritten
    <2>3. \A w \in Worker \ {u} : Flushes(w, p) => Flushes(w, p)'
        BY <2>2 DEF Flushes, EntityPath, base_dir_
    <2>4. CASE OpenForWriting(u)
        <3>1. /\ pc'[u] = "flush" /\ new_id' = new_id /\ pc[u] = "ofstream"
              /\ files' = [files EXCEPT ![EntityPath(u, new_id[u])] = Torn]
            BY <2>4 DEF OpenForWriting, Goto, Truncate, IInv, TypeOK
        <3>2. CASE p = EntityPath(u, new_id[u])
            BY <2>2, <3>1, <3>2 DEF Flushes, EntityPath, base_dir_
        <3>3. CASE p # EntityPath(u, new_id[u])
            <4>1. files[p] = Torn
                BY <3>1, <3>3 DEF IInv, TypeOK
            <4>2. PICK w \in Worker : Flushes(w, p)
                BY <4>1 DEF TornIsBeingWritten
            <4> QED BY <2>3, <3>1, <4>2 DEF Flushes
        <3> QED BY <3>2, <3>3
    <2>5. CASE FlushData(u)
        <3>1. /\ pc[u] = "flush" /\ new_id[u] \in Id
              /\ files' = [files EXCEPT ![EntityPath(u, new_id[u])] = request[u].body]
            BY <2>5 DEF FlushData, Flush, IInv, IdsAreIds
        <3>2. request[u].body # Torn
            BY <2>1, RequestType, ContentAssumption DEF IInv, HandlersHaveRequests
        <3>3. EntityPath(u, new_id[u]) \in Path /\ p # EntityPath(u, new_id[u])
            BY <2>1, <3>1, <3>2, PathType DEF IInv, TypeOK
        <3>4. files[p] = Torn
            BY <3>1, <3>3 DEF IInv, TypeOK
        <3>5. PICK w \in Worker : Flushes(w, p)
            BY <3>4 DEF TornIsBeingWritten
        <3> QED BY <2>3, <3>3, <3>5 DEF Flushes
    <2>6. CASE ~(OpenForWriting(u) \/ FlushData(u))
        <3>1. pc[u] # "flush"
            BY <1>2, <2>2, <2>6 DEF CrudAction, NextIdForPost, PutId, CheckId,
               OpenForWritingFails, FlushCutShort, List, ReadExists, ReadData, ReadCutShort,
               RemoveFile, UnsupportedMethod, FilesystemError, Answer, Goto
        <3>2. files[p] = Torn
            <4>1. CASE UNCHANGED files
                BY <4>1
            <4>2. CASE RemoveFile(u)
                BY <4>2, ContentAssumption DEF RemoveFile, Remove, IInv, TypeOK
            <4> QED BY <1>2, <2>6, <4>1, <4>2 DEF CrudAction, NextIdForPost, PutId,
                   CheckId, OpenForWritingFails, FlushCutShort, List, ReadExists,
                   ReadData, ReadCutShort, UnsupportedMethod
        <3>3. PICK w \in Worker : Flushes(w, p)
            BY <3>2 DEF TornIsBeingWritten
        <3> QED BY <2>3, <3>1, <3>3 DEF Flushes
    <2> QED BY <2>4, <2>5, <2>6
<1>3. CASE UNCHANGED <<files, pc, request, new_id, response, faults>>
    BY <1>3 DEF TornIsBeingWritten, Flushes, EntityPath, base_dir_
<1>4. CASE Crash
    BY <1>4 DEF Crash, TornIsBeingWritten, IInv, TypeOK
<1> QED BY <1>1, <1>2, <1>3, <1>4, NextCases

\* There are no files yet, so none is torn.
LEMMA TornInit == Init => TornIsBeingWritten
    BY ContentAssumption DEF Init, FsInit, TornIsBeingWritten

\* What a step inside the lock puts in a response.
LEMMA CrudActionResponse ==
    ASSUME IInv, TornIsBeingWritten, faults = 0, faults' = 0, NEW u \in Worker,
           CrudAction(u), NEW w \in Worker, Torn \notin response[w].body
    PROVE  Torn \notin response'[w].body
<1>1. response \in [Worker -> [status : {"none", "200", "400", "404", "500"},
                               body : SUBSET (Id \cup Content)]]
    BY DEF IInv, TypeOK
<1>2. ASSUME NEW from, NEW status, NEW body, Torn \notin body,
             Answer(u, from, status, body)
      PROVE  Torn \notin response'[w].body
    BY <1>1, <1>2 DEF Answer, Reply
<1>3. CASE UNCHANGED response
    BY <1>3
<1>4. CASE ReadData(u)
    <2>1. files[EntityPath(u, request[u].id)] # Torn
        BY <1>4, ReaderSeesWhole DEF ReadData
    <2> QED BY <1>2, <1>4, <2>1 DEF ReadData
<1>5. CASE FlushData(u)
    <2>1. Torn \notin {new_id[u]}
        BY <1>5, ContentAssumption DEF FlushData, IInv, IdsAreIds
    <2> QED BY <1>2, <1>5, <2>1 DEF FlushData
<1>6. CASE List(u)
    <2>1. Torn \notin ListIds(base_dir_(u), request[u].name)
        BY ContentAssumption DEF ListIds
    <2> QED BY <1>2, <1>6, <2>1 DEF List, FilesystemError
<1>8. ~FlushCutShort(u) /\ ~ReadCutShort(u)
    BY DEF FlushCutShort, ReadCutShort
<1>7. CASE \/ PutId(u) \/ CheckId(u) \/ OpenForWritingFails(u) \/ ReadExists(u)
           \/ RemoveFile(u) \/ UnsupportedMethod(u) \/ NextIdForPost(u)
    BY <1>2, <1>3, <1>7 DEF PutId, CheckId, OpenForWritingFails, ReadExists,
       RemoveFile, UnsupportedMethod, NextIdForPost, FilesystemError
<1> QED BY <1>3, <1>4, <1>5, <1>6, <1>7, <1>8 DEF CrudAction, OpenForWriting

\* While no process crashed and no read or write was cut short, no answer holds a file
\* that is being written: what a GET returns is a body some client sent, whole.
THEOREM ReadsWhole == Spec => []ReadsAreWhole
<1>1. Init => ReadsAreWhole
    BY DEF Init, ReadsAreWhole, NoResponse
<1>2. IInv /\ TornIsBeingWritten /\ ReadsAreWhole /\ [Next]_vars => ReadsAreWhole'
    <2> SUFFICES ASSUME IInv, TornIsBeingWritten, ReadsAreWhole, [Next]_vars,
                        faults' = 0, NEW w \in Worker
                 PROVE  Torn \notin response'[w].body
        BY DEF ReadsAreWhole
    <2>1. faults \in Nat
        BY FaultAssumption DEF IInv, TypeOK
    <2>2. ASSUME NEW u \in Worker, OutsideAction(u)
          PROVE  Torn \notin response'[w].body
        BY <2>2, OutsideStep DEF ReadsAreWhole, NoResponse
    <2>3. ASSUME NEW u \in Worker, CrudAction(u)
          PROVE  Torn \notin response'[w].body
        <3>1. faults = 0
            BY <2>1, <2>3, CrudActionIsCrudStep DEF CrudStep
        <3> QED BY <2>3, <3>1, CrudActionResponse DEF ReadsAreWhole
    <2>4. CASE UNCHANGED <<files, pc, request, new_id, response, faults>>
        BY <2>4 DEF ReadsAreWhole
    <2>5. CASE Crash
        BY <2>1, <2>5 DEF Crash
    <2> QED BY <2>2, <2>3, <2>4, <2>5, NextCases
<1>3. Spec => []TornIsBeingWritten
    BY TornInit, TornNext, InductiveInvariant, PTL DEF Spec
<1> QED BY <1>1, <1>2, <1>3, InductiveInvariant, PTL DEF Spec

-------------------------------------------------------------------------------
(* Torn files *)

\* The torn files of a root that no thread will complete.
Leftover(r) == {p \in Path : /\ p[1] = r /\ files[p] = Torn
                             /\ \A w \in Worker : ~Flushes(w, p)}

LeftoverBounded == \A r \in Root : /\ IsFiniteSet(Leftover(r))
                                   /\ Cardinality(Leftover(r)) <= faults

\* One element more.
LEMMA AtMostOneMore ==
    ASSUME NEW S, IsFiniteSet(S), NEW n \in Nat, Cardinality(S) <= n,
           NEW x, NEW T, T \subseteq S \cup {x}
    PROVE  IsFiniteSet(T) /\ Cardinality(T) <= n + 1
<1>1. /\ IsFiniteSet(S \cup {x}) /\ Cardinality(S) \in Nat
      /\ Cardinality(S \cup {x}) \in {Cardinality(S), Cardinality(S) + 1}
    BY FS_AddElement, FS_CardinalityType
<1>2. /\ IsFiniteSet(T) /\ Cardinality(T) <= Cardinality(S \cup {x})
    BY <1>1, FS_Subset
<1>3. Cardinality(T) \in Nat
    BY <1>2, FS_CardinalityType
<1> QED BY <1>1, <1>2, <1>3

\* No two threads flush files of one root.
LEMMA OneFlusher ==
    ASSUME IInv, NEW v \in Worker, NEW w \in Worker, NEW p \in Path, NEW q \in Path,
           Flushes(v, p), Flushes(w, q), p[1] = q[1]
    PROVE  v = w /\ p = q /\ base_dir_(w) = q[1] /\ HasHandler(w)
<1>1. /\ InCrud(v) /\ HasHandler(v) /\ new_id[v] \in Id
      /\ InCrud(w) /\ HasHandler(w) /\ new_id[w] \in Id
    BY DEF Flushes, InCrud, HasHandler, IInv, IdsAreIds
<1>2. p[1] = base_dir_(v) /\ q[1] = base_dir_(w)
    BY <1>1, PathType DEF Flushes
<1>3. v = w
    BY <1>1, <1>2, Exclusion DEF MutualExclusion
<1> QED BY <1>1, <1>2, <1>3 DEF Flushes

\* A step inside the lock leaves a torn file behind only when its write is cut short.
LEMMA NewLeftover ==
    ASSUME IInv, NEW u \in Worker, CrudAction(u), NEW r \in Root,
           NEW p \in Leftover(r)', p \notin Leftover(r)
    PROVE  FlushCutShort(u) /\ p = EntityPath(u, new_id[u])
<1>1. CrudStep(u) /\ HasHandler(u) /\ p \in Path /\ p[1] = r /\ files'[p] = Torn
    BY CrudActionIsCrudStep DEF CrudStep, InCrud, HasHandler, Leftover
<1>2. /\ \A v \in Worker \ {u} : pc'[v] = pc[v] /\ new_id'[v] = new_id[v]
      /\ request' = request
    BY <1>1, CrudActionIds DEF CrudStep, IInv, TypeOK
<1>3. \A w \in Worker : ~Flushes(w, p)'
    BY DEF Leftover
<1>4. \A w \in Worker \ {u} : ~Flushes(w, p)
    BY <1>2, <1>3 DEF Flushes, EntityPath, base_dir_
<1>5. files[p] # Torn \/ Flushes(u, p)
    BY <1>1, <1>4 DEF Leftover
<1>6. CASE OpenForWriting(u)
    <2>1. /\ pc'[u] = "flush" /\ new_id' = new_id /\ pc[u] = "ofstream"
          /\ files' = [files EXCEPT ![EntityPath(u, new_id[u])] = Torn]
        BY <1>6 DEF OpenForWriting, Goto, Truncate, IInv, TypeOK
    <2>2. p # EntityPath(u, new_id[u])
        BY <1>2, <1>3, <2>1 DEF Flushes, EntityPath, base_dir_
    <2>3. files[p] = Torn
        BY <1>1, <2>1, <2>2 DEF IInv, TypeOK
    <2> QED BY <1>5, <2>1, <2>3 DEF Flushes
<1>7. CASE FlushData(u)
    <2>1. /\ new_id[u] \in Id
          /\ files' = [files EXCEPT ![EntityPath(u, new_id[u])] = request[u].body]
        BY <1>7 DEF FlushData, Flush, IInv, IdsAreIds
    <2>2. request[u].body # Torn
        BY <1>1, RequestType, ContentAssumption DEF IInv, HandlersHaveRequests
    <2>3. p # EntityPath(u, new_id[u])
        BY <1>1, <2>1, <2>2, PathType DEF IInv, TypeOK
    <2>4. files[p] = Torn
        BY <1>1, <2>1, <2>3 DEF IInv, TypeOK
    <2> QED BY <1>5, <2>3, <2>4 DEF Flushes
<1>8. CASE FlushCutShort(u)
    <2>1. files' = files
        BY <1>8 DEF FlushCutShort
    <2> QED BY <1>1, <1>5, <1>8, <2>1 DEF Flushes
<1>9. CASE ~(OpenForWriting(u) \/ FlushData(u) \/ FlushCutShort(u))
    <2>1. pc[u] # "flush"
        BY <1>9 DEF CrudAction, NextIdForPost, PutId, CheckId, OpenForWritingFails, List,
           ReadExists, ReadData, ReadCutShort, RemoveFile, UnsupportedMethod,
           FilesystemError, Answer, Goto
    <2>2. files[p] = Torn
        <3>1. CASE UNCHANGED files
            BY <1>1, <3>1
        <3>2. CASE RemoveFile(u)
            BY <1>1, <3>2, ContentAssumption DEF RemoveFile, Remove, IInv, TypeOK
        <3> QED BY <1>9, <3>1, <3>2 DEF CrudAction, NextIdForPost, PutId, CheckId,
               OpenForWritingFails, List, ReadExists, ReadData, ReadCutShort, UnsupportedMethod
    <2> QED BY <1>5, <2>1, <2>2 DEF Flushes
<1> QED BY <1>6, <1>7, <1>8, <1>9

\* Each fault leaves one torn file at most in a root: the one whose writer had its lock.
LEMMA LeftoverNext == IInv /\ LeftoverBounded /\ [Next]_vars => LeftoverBounded'
<1> SUFFICES ASSUME IInv, LeftoverBounded, [Next]_vars, NEW r \in Root
             PROVE  IsFiniteSet(Leftover(r))' /\ Cardinality(Leftover(r))' <= faults'
    BY DEF LeftoverBounded
<1>1. /\ faults \in Nat /\ IsFiniteSet(Leftover(r)) /\ Cardinality(Leftover(r)) <= faults
    BY FaultAssumption DEF IInv, TypeOK, LeftoverBounded
<1> DEFINE New == Leftover(r)'
<1>2. SUFFICES IsFiniteSet(New) /\ Cardinality(New) <= faults'
    OBVIOUS
<1>3. ASSUME faults' = faults, New \subseteq Leftover(r)
      PROVE  IsFiniteSet(New) /\ Cardinality(New) <= faults'
    <2> HIDE DEF New
    <2>1. IsFiniteSet(New) /\ Cardinality(New) <= Cardinality(Leftover(r))
        BY <1>1, <1>3, FS_Subset
    <2>2. Cardinality(New) \in Nat /\ Cardinality(Leftover(r)) \in Nat
        BY <1>1, <2>1, FS_CardinalityType
    <2> QED BY <1>1, <1>3, <2>1, <2>2
<1>4. ASSUME faults' = faults + 1, NEW p, New \subseteq Leftover(r) \cup {p}
      PROVE  IsFiniteSet(New) /\ Cardinality(New) <= faults'
    <2> HIDE DEF New
    <2> QED BY <1>1, <1>4, AtMostOneMore
<1>5. ASSUME NEW u \in Worker, OutsideAction(u)
      PROVE  faults' = faults /\ New \subseteq Leftover(r)
    BY <1>5, OutsideStep DEF Leftover, Flushes, EntityPath, base_dir_
<1>6. ASSUME NEW u \in Worker, CrudAction(u), ~FlushCutShort(u)
      PROVE  New \subseteq Leftover(r) /\ (faults' = faults \/ faults' = faults + 1)
    <2>1. New \subseteq Leftover(r)
        BY <1>6, NewLeftover
    <2> QED BY <1>6, <2>1, CrudActionIsCrudStep DEF CrudStep
<1>7. ASSUME NEW u \in Worker, FlushCutShort(u)
      PROVE  faults' = faults + 1 /\ New \subseteq Leftover(r) \cup {EntityPath(u, new_id[u])}
    <2>1. CrudAction(u) /\ faults' = faults + 1
        BY <1>7 DEF CrudAction, FlushCutShort
    <2> QED BY <2>1, NewLeftover
<1>8. CASE UNCHANGED <<files, pc, request, new_id, response, faults>>
    <2>1. faults' = faults /\ New = Leftover(r)
        BY <1>8 DEF Leftover, Flushes, EntityPath, base_dir_
    <2> QED BY <1>3, <2>1
<1>9. CASE Crash
    <2>1. faults' = faults + 1 /\ files' = files
        BY <1>9 DEF Crash
    <2>2. ASSUME NEW p \in New, p \notin Leftover(r)
          PROVE  p \in Path /\ p[1] = r /\ \E w \in Worker : Flushes(w, p)
        BY <2>1, <2>2 DEF Leftover
    <2>3. \E p : New \subseteq Leftover(r) \cup {p}
        <3>1. CASE New \subseteq Leftover(r)
            BY <3>1
        <3>2. ASSUME NEW p \in New, p \notin Leftover(r)
              PROVE  New \subseteq Leftover(r) \cup {p}
            BY <2>2, <3>2, OneFlusher
        <3> QED BY <3>1, <3>2
    <2> QED BY <1>4, <2>1, <2>3
<1> HIDE DEF New
<1> QED BY <1>3, <1>4, <1>5, <1>6, <1>7, <1>8, <1>9, NextCases

\* However many threads write, a root never holds more torn files than there were
\* crashes and cut reads and writes, and the one being written.
THEOREM TornFilesAreFew == Spec => []TornFilesBounded
<1>1. Init => LeftoverBounded
    <2> SUFFICES ASSUME Init, NEW r \in Root
                 PROVE  IsFiniteSet(Leftover(r)) /\ Cardinality(Leftover(r)) <= faults
        BY DEF LeftoverBounded
    <2>1. Leftover(r) = {} /\ faults = 0
        BY ContentAssumption DEF Leftover, Init, FsInit
    <2> QED BY <2>1, FS_EmptySet
<1>2. ASSUME IInv, LeftoverBounded, NEW r \in Root
      PROVE  Cardinality({p \in Path : p[1] = r /\ files[p] = Torn}) <=
                 faults + Cardinality({w \in Handlers(r) : pc[w] = "flush"})
    <2> DEFINE T == {p \in Path : p[1] = r /\ files[p] = Torn}
               F == {w \in Handlers(r) : pc[w] = "flush"}
    <2>1. /\ faults \in Nat /\ IsFiniteSet(Leftover(r)) /\ Cardinality(Leftover(r)) <= faults
        BY <1>2, FaultAssumption DEF IInv, TypeOK, LeftoverBounded
    <2>2. IsFiniteSet(F) /\ Cardinality(F) \in Nat
        <3>1. F \subseteq Handlers(r) /\ IsFiniteSet(Handlers(r))
            BY HandlersFinite, RequestAssumption
        <3> HIDE DEF F
        <3> QED BY <3>1, FS_Subset, FS_CardinalityType
    <2>3. CASE T \subseteq Leftover(r)
        <3> HIDE DEF T, F
        <3>1. IsFiniteSet(T) /\ Cardinality(T) <= Cardinality(Leftover(r))
            BY <2>1, <2>3, FS_Subset
        <3>2. Cardinality(T) \in Nat /\ Cardinality(Leftover(r)) \in Nat
            BY <2>1, <3>1, FS_CardinalityType
        <3> QED BY <2>1, <2>2, <3>1, <3>2 DEF T, F
    <2>4. ASSUME NEW p \in T, p \notin Leftover(r)
          PROVE  Cardinality(T) <= faults + Cardinality(F)
        <3>1. PICK w \in Worker : Flushes(w, p)
            BY <2>4 DEF Leftover
        <3>2. w \in F
            BY <1>2, <3>1, <2>4, OneFlusher DEF Handlers, Flushes
        <3>3. T \subseteq Leftover(r) \cup {p}
            BY <1>2, <2>4, <3>1, OneFlusher DEF Leftover
        <3> HIDE DEF T, F
        <3>4. Cardinality(F) # 0
            BY <2>2, <3>2, FS_EmptySet
        <3>5. IsFiniteSet(T) /\ Cardinality(T) <= faults + 1
            BY <2>1, <3>3, AtMostOneMore
        <3>6. Cardinality(T) \in Nat
            BY <3>5, FS_CardinalityType
        <3> QED BY <2>1, <2>2, <3>4, <3>5, <3>6
    <2> QED BY <2>3, <2>4
<1>3. IInv /\ LeftoverBounded => TornFilesBounded
    BY <1>2 DEF TornFilesBounded
<1> QED BY <1>1, <1>3, LeftoverNext, InductiveInvariant, PTL DEF Spec

-------------------------------------------------------------------------------
(* The refinement: the handlers implement EntityStore                          *)

\* What a thread has found or begun is still there: the file that read is about to
\* open, and the file that write has truncated.
FoundIsThere ==
    \A w \in Worker :
        /\ pc[w] = "open" => Exists(EntityPath(w, request[w].id))
        /\ pc[w] = "flush" => files[EntityPath(w, new_id[w])] = Torn

LEMMA FoundInit == Init => FoundIsThere
    BY DEF Init, FoundIsThere

\* No other thread removes or writes it.
LEMMA FoundNext == IInv /\ FoundIsThere /\ [Next]_vars => FoundIsThere'
<1> SUFFICES ASSUME IInv, FoundIsThere, [Next]_vars
             PROVE  FoundIsThere'
    OBVIOUS
<1>1. ASSUME NEW u \in Worker, OutsideAction(u)
      PROVE  FoundIsThere'
    BY <1>1, OutsideStep DEF FoundIsThere, Exists, EntityPath, base_dir_
<1>2. ASSUME NEW u \in Worker, CrudAction(u)
      PROVE  FoundIsThere'
    <2>1. CrudStep(u) /\ HasHandler(u)
        BY <1>2, CrudActionIsCrudStep DEF CrudStep, InCrud, HasHandler
    <2>2. /\ \A v \in Worker \ {u} : pc'[v] = pc[v] /\ new_id'[v] = new_id[v]
          /\ request' = request
        BY <1>2, <2>1, CrudActionIds DEF CrudStep, IInv, TypeOK
    <2> SUFFICES ASSUME NEW w \in Worker
                 PROVE  /\ pc'[w] = "open" => Exists(EntityPath(w, request[w].id))'
                        /\ pc'[w] = "flush" => files'[EntityPath(w, new_id[w])'] = Torn
        BY <2>2 DEF FoundIsThere
    <2>3. CASE w # u
        <3>1. ASSUME NEW id \in Id, pc[w] \in {"open", "flush"}
              PROVE  files'[EntityPath(w, id)] = files[EntityPath(w, id)]
            BY <1>2, <2>3, <3>1, FilesStand DEF InCrud
        <3>2. /\ pc[w] = "open" => request[w].id \in Id
              /\ pc[w] = "flush" => new_id[w] \in Id
            BY DEF IInv, IdsAreIds
        <3> QED BY <2>2, <2>3, <3>1, <3>2 DEF FoundIsThere, Exists, EntityPath, base_dir_
    <2>4. CASE w = u
        <3>1. CASE ReadExists(u)
            BY <2>2, <2>4, <3>1 DEF ReadExists, FilesystemError, Answer, Goto, IInv, TypeOK,
               Exists, EntityPath, base_dir_
        <3>2. CASE OpenForWriting(u)
            <4>1. /\ pc'[u] = "flush" /\ new_id' = new_id /\ new_id[u] \in Id
                  /\ files' = [files EXCEPT ![EntityPath(u, new_id[u])] = Torn]
                BY <3>2 DEF OpenForWriting, Goto, Truncate, IInv, TypeOK, IdsAreIds
            <4>2. files'[EntityPath(u, new_id[u])] = Torn
                BY <2>1, <4>1, PathType DEF IInv, TypeOK
            <4>3. EntityPath(u, new_id[u])' = EntityPath(u, new_id[u])
                BY <2>2, <4>1 DEF EntityPath, base_dir_
            <4> QED BY <2>4, <4>1, <4>2, <4>3
        <3>3. CASE ~(ReadExists(u) \/ OpenForWriting(u))
            <4>1. pc'[u] \notin {"open", "flush"}
                BY <1>2, <3>3 DEF CrudAction, NextIdForPost, PutId, CheckId,
                   OpenForWritingFails, FlushData, FlushCutShort, List, ReadData,
                   ReadCutShort, RemoveFile, UnsupportedMethod, FilesystemError, Answer,
                   Goto, IInv, TypeOK
            <4> QED BY <2>4, <4>1
        <3> QED BY <3>1, <3>2, <3>3
    <2> QED BY <2>3, <2>4
<1>3. CASE UNCHANGED <<files, pc, request, new_id, response, faults>>
    BY <1>3 DEF FoundIsThere, Exists, EntityPath, base_dir_
<1>4. CASE Crash
    BY <1>4 DEF Crash, FoundIsThere
<1> QED BY <1>1, <1>2, <1>3, <1>4, NextCases

\* What a thread has done of its request.
CallOf(w) ==
    /\ request[w] # NoRequest => HasHandler(w)
    /\ pc[w] \in {"idle", "built", "ready", "locking", "crud", "open", "write", "ofstream",
                  "flush"} => response[w] = NoResponse
    /\ pc[w] \in {"unlock", "destroy"} => response[w] # NoResponse
    /\ pc[w] = "unwind" => DiskFaults
    /\ pc[w] \in {"write", "ofstream", "flush"} =>
           /\ request[w].method \in {"POST", "PUT"}
           /\ request[w].method = "PUT" => new_id[w] = request[w].id
    /\ pc[w] = "open" => request[w].method = "GET" /\ request[w].id # NoId

CallInv == \A w \in Worker : CallOf(w)

\* The store as the files and the thread that is writing show it.
DbAsSeen ==
    \A p \in Path :
        /\ (\A w \in Worker : ~Flushes(w, p)) => StoreDb[p] = files[p]
        /\ \A w \in Worker : Flushes(w, p) => StoreDb[p] = request[w].body

LEMMA DbView == IInv => DbAsSeen
<1> SUFFICES ASSUME IInv, NEW p \in Path
             PROVE  /\ (\A w \in Worker : ~Flushes(w, p)) => StoreDb[p] = files[p]
                    /\ \A w \in Worker : Flushes(w, p) => StoreDb[p] = request[w].body
    BY DEF DbAsSeen
<1>1. Flushing(p) = {w \in Worker : Flushes(w, p)}
    BY DEF Flushing, Flushes
<1>2. CASE Flushing(p) = {}
    BY <1>1, <1>2 DEF StoreDb
<1>3. CASE Flushing(p) # {}
    <2> DEFINE v == CHOOSE w \in Flushing(p) : TRUE
    <2>1. v \in Flushing(p)
        BY <1>3
    <2>2. StoreDb[p] = request[v].body
        BY <1>3 DEF StoreDb
    <2> HIDE DEF v
    <2>3. \A w \in Worker : Flushes(w, p) => w = v
        BY <1>1, <2>1, OneFlusher
    <2> QED BY <1>1, <2>1, <2>2, <2>3
<1> QED BY <1>2, <1>3

\* A step that changes no file and no writer does not change the store.
LEMMA DbKept ==
    ASSUME IInv, IInv', UNCHANGED files,
           \A w \in Worker : (pc'[w] = "flush") <=> (pc[w] = "flush"),
           \A w \in Worker : pc[w] = "flush" => request'[w] = request[w] /\ new_id'[w] = new_id[w]
    PROVE  StoreDb' = StoreDb
<1>1. DbAsSeen /\ DbAsSeen'
    BY DbView, PTL
<1>2. \A w \in Worker, p \in Path : Flushes(w, p)' <=> Flushes(w, p)
    BY DEF Flushes, EntityPath, base_dir_
<1>3. ASSUME NEW p \in Path
      PROVE  StoreDb'[p] = StoreDb[p]
    <2>1. CASE \A w \in Worker : ~Flushes(w, p)
        BY <1>1, <1>2, <2>1 DEF DbAsSeen
    <2>2. ASSUME NEW w \in Worker, Flushes(w, p)
          PROVE  StoreDb'[p] = StoreDb[p]
        BY <1>1, <1>2, <2>2 DEF DbAsSeen, Flushes
    <2> QED BY <2>1, <2>2
<1> QED BY <1>3 DEF StoreDb

\* A thread inside the lock sees the store of its root in the files.
LEMMA OwnView ==
    ASSUME IInv, NEW w \in Worker, HasHandler(w), InCrud(w), pc[w] # "flush", NEW id \in Id
    PROVE  /\ Store!Place(w, id) = EntityPath(w, id) /\ EntityPath(w, id) \in Path
           /\ StoreDb[EntityPath(w, id)] = files[EntityPath(w, id)]
           /\ \A v \in Worker : ~Flushes(v, EntityPath(w, id))
<1>1. EntityPath(w, id) \in Path /\ EntityPath(w, id)[1] = base_dir_(w)
    BY PathType
<1>2. ASSUME NEW v \in Worker, Flushes(v, EntityPath(w, id))
      PROVE  FALSE
    <2>1. base_dir_(v) = base_dir_(w) /\ HasHandler(v) /\ InCrud(v)
        BY <1>1, <1>2, OneFlusher DEF Flushes, InCrud
    <2>2. v = w
        BY <2>1, Exclusion DEF MutualExclusion
    <2> QED BY <1>2, <2>2 DEF Flushes
<1> QED BY <1>1, <1>2, DbView DEF DbAsSeen, Store!Place, EntityPath, base_dir_

LEMMA CallInit == Init => CallInv
    BY DEF Init, CallInv, CallOf

\* The same, for the thread that takes the step and the others.
LEMMA CallKept ==
    ASSUME CallInv, NEW u \in Worker,
           \A w \in Worker \ {u} : /\ pc'[w] = pc[w] /\ request'[w] = request[w]
                                   /\ new_id'[w] = new_id[w] /\ response'[w] = response[w],
           CallOf(u)'
    PROVE  CallInv'
<1> SUFFICES ASSUME NEW w \in Worker
             PROVE  CallOf(w)'
    BY DEF CallInv
<1>1. CASE w = u
    BY <1>1
<1>2. CASE w # u
    BY <1>2 DEF CallInv, CallOf, HasHandler
<1> QED BY <1>1, <1>2

LEMMA CallNext ==
    ASSUME IInv, CallInv, [Next]_vars
    PROVE  CallInv'
<1>1. /\ pc \in [Worker -> PC] /\ request \in [Worker -> Requests \cup {NoRequest}]
      /\ new_id \in [Worker -> Id \cup {NoId}]
      /\ response \in [Worker -> [status : {"none", "200", "400", "404", "500"},
                                  body : SUBSET (Id \cup Content)]]
    BY DEF IInv, TypeOK
<1>2. ASSUME NEW u \in Worker, Construct(u)
      PROVE  CallInv'
    <2>1. /\ pc[u] = "idle" /\ pc' = [pc EXCEPT ![u] = "built"]
          /\ UNCHANGED <<new_id, response>> /\ \A w \in Worker \ {u} : request'[w] = request[w]
        BY <1>1, <1>2 DEF Construct, Goto
    <2>2. response[u] = NoResponse
        BY <2>1 DEF CallInv, CallOf
    <2>3. CallOf(u)'
        BY <1>1, <2>1, <2>2 DEF CallOf, HasHandler
    <2> QED BY <1>1, <2>1, <2>3, CallKept
<1>3. ASSUME NEW u \in Worker, Destroy(u)
      PROVE  CallInv'
    <2>1. HasKey(base_dir_(u))
        BY <1>3, HandlerKeepsKey DEF Destroy, HasHandler
    <2>2. /\ pc'[u] \in {"idle", "dead"} /\ request'[u] = NoRequest /\ response'[u] = NoResponse
          /\ \A w \in Worker \ {u} : /\ pc'[w] = pc[w] /\ request'[w] = request[w]
                                     /\ new_id'[w] = new_id[w] /\ response'[w] = response[w]
        BY <1>1, <1>3, <2>1 DEF Destroy, Goto
    <2>3. CallOf(u)'
        BY <2>2 DEF CallOf, HasHandler
    <2> QED BY <2>2, <2>3, CallKept
<1>4. ASSUME NEW u \in Worker,
             ConstructThrows(u) \/ OpenFilesystem(u) \/ RequestMutex(u) \/ Lock(u) \/ Unlock(u)
      PROVE  CallInv'
    <2>1. UNCHANGED <<request, response>> /\ \A w \in Worker \ {u} : new_id'[w] = new_id[w]
        BY <1>1, <1>4 DEF ConstructThrows, OpenFilesystem, RequestMutex, Lock, Unlock
    <2>2. RequestMutex(u) => HasKey(base_dir_(u))
        BY HandlerKeepsKey DEF RequestMutex, HasHandler
    <2>3. \E l \in {"dead", "ready", "unwind", "locking", "crud", "destroy"} :
             /\ pc' = [pc EXCEPT ![u] = l]
             /\ l = "dead" => pc[u] = "idle"
             /\ l \in {"ready", "locking", "crud"} => pc[u] \in {"built", "ready", "locking"}
             /\ l = "destroy" => pc[u] = "unlock"
             /\ l = "unwind" => DiskFaults
             /\ pc[u] = "idle" \/ HasHandler(u)
        BY <1>4, <2>2 DEF ConstructThrows, OpenFilesystem, RequestMutex, Lock, Unlock, Goto,
           HasHandler
    <2>4. CallOf(u)
        BY DEF CallInv
    <2>5. CallOf(u)'
        BY <1>1, <2>1, <2>3, <2>4 DEF CallOf, HasHandler
    <2>6. \A w \in Worker \ {u} : pc'[w] = pc[w]
        BY <1>1, <2>3
    <2> QED BY <2>1, <2>5, <2>6, CallKept
<1>5. ASSUME NEW u \in Worker, CrudAction(u)
      PROVE  CallInv'
    <2>1. /\ request' = request /\ InCrud(u)
          /\ \E l \in {"open", "write", "ofstream", "flush", "unlock"} : pc' = [pc EXCEPT ![u] = l]
          /\ \A w \in Worker \ {u} : new_id'[w] = new_id[w]
        BY <1>5, CrudActionIsCrudStep, CrudActionIds DEF CrudStep
    <2>2. /\ HasHandler(u)' /\ pc'[u] \in {"open", "write", "ofstream", "flush", "unlock"}
          /\ \A w \in Worker \ {u} : pc'[w] = pc[w]
        BY <1>1, <2>1 DEF HasHandler
    <2>3. \A w \in Worker \ {u} : response'[w] = response[w]
        BY <1>1, <1>5 DEF CrudAction, NextIdForPost, PutId, CheckId, OpenForWriting,
           OpenForWritingFails, FlushData, FlushCutShort, List, ReadExists, ReadData,
           ReadCutShort, RemoveFile, UnsupportedMethod, FilesystemError, Answer
    <2>4. /\ pc[u] \in {"crud", "write", "ofstream"} => response[u] = NoResponse
          /\ pc[u] \in {"write", "ofstream"} =>
                 /\ request[u].method \in {"POST", "PUT"}
                 /\ request[u].method = "PUT" => new_id[u] = request[u].id
        BY DEF CallInv, CallOf
    <2>5. /\ pc'[u] = "unlock" => response'[u] # NoResponse
          /\ pc'[u] # "unlock" =>
                /\ pc[u] \in {"crud", "write", "ofstream"} /\ response' = response
                /\ pc'[u] = "open" => request[u].method = "GET" /\ request[u].id # NoId
                /\ pc'[u] \in {"write", "ofstream", "flush"} =>
                       /\ request[u].method \in {"POST", "PUT"}
                       /\ request[u].method = "PUT" => new_id'[u] = request[u].id
        <3>1. ASSUME NEW from, NEW status, NEW body, status # "none", Answer(u, from, status, body)
              PROVE  pc'[u] = "unlock" /\ response'[u] # NoResponse
            BY <1>1, <3>1 DEF Answer, Goto, Reply, NoResponse
        <3>2. CASE FilesystemError(u, "crud")
            BY <3>1, <3>2 DEF FilesystemError
        <3>3. CASE /\ ~FilesystemError(u, "crud")
                   /\ NextIdForPost(u) \/ PutId(u) \/ ReadExists(u)
            BY <1>1, <3>1, <3>3 DEF NextIdForPost, PutId, ReadExists, Goto
        <3>4. CASE CheckId(u) \/ OpenForWriting(u)
            BY <1>1, <2>4, <3>1, <3>4 DEF CheckId, OpenForWriting, Goto
        <3>5. CASE \/ OpenForWritingFails(u) \/ FlushData(u) \/ List(u) \/ ReadData(u)
                   \/ RemoveFile(u) \/ UnsupportedMethod(u)
            <4>1. CASE FilesystemError(u, "crud")
                BY <3>2, <4>1
            <4>2. CASE ~FilesystemError(u, "crud")
                BY <3>1, <3>5, <4>2 DEF OpenForWritingFails, FlushData, List, ReadData,
                   RemoveFile, UnsupportedMethod
            <4> QED BY <4>1, <4>2
        <3>6. CASE FlushCutShort(u) \/ ReadCutShort(u)
            BY <1>1, <3>6 DEF FlushCutShort, ReadCutShort, Goto, Reply, NoResponse
        <3> QED BY <1>5, <3>2, <3>3, <3>4, <3>5, <3>6 DEF CrudAction
    <2>6. CallOf(u)'
        BY <2>1, <2>2, <2>4, <2>5 DEF CallOf
    <2> QED BY <2>1, <2>2, <2>3, <2>6, CallKept
<1>6. CASE UNCHANGED workerVars
    BY <1>6 DEF CallInv, CallOf, HasHandler, workerVars
<1>7. CASE Crash
    BY <1>7 DEF Crash, CallInv, CallOf
<1> QED BY <1>2, <1>3, <1>4, <1>5, <1>6, <1>7 DEF Next, Statement, CrudAction, Quiesce, vars

\* A thread inside the try block has a call that has not been answered.
LEMMA Unanswered ==
    ASSUME IInv, CallInv, NEW u \in Worker, pc[u] \in {"crud", "open", "write", "ofstream"}
    PROVE  /\ HasHandler(u) /\ InCrud(u) /\ request[u] \in Requests /\ request[u] # NoRequest
           /\ StoreReply[u] = Store!NoReply
           /\ Store!Pending(u, request[u].method)
<1>1. HasHandler(u) /\ InCrud(u) /\ request[u] \in Requests
    BY DEF HasHandler, InCrud, IInv, HandlersHaveRequests
<1>2. request[u] # NoRequest /\ response[u] = NoResponse
    BY <1>1, RequestAssumption DEF CallInv, CallOf
<1>3. StoreReply[u] = Store!NoReply
    BY <1>2 DEF StoreReply, NoResponse, Store!NoReply
<1> QED BY <1>1, <1>2, <1>3 DEF Store!Pending

\* A statement that ends the request answers the call.
LEMMA ReplyStep ==
    ASSUME IInv, IInv', NEW u \in Worker, pc[u] \in {"crud", "open", "write", "ofstream"},
           NEW status, NEW body, pc' = [pc EXCEPT ![u] = "unlock"], UNCHANGED <<request, new_id>>,
           response' = [response EXCEPT ![u] = Reply(status, body)]
    PROVE  /\ Store!Answer(u, status, body)
           /\ UNCHANGED files => UNCHANGED StoreDb
<1>1. pc \in [Worker -> PC] /\ DOMAIN response = Worker
    BY DEF IInv, TypeOK
<1>2. pc'[u] = "unlock" /\ response'[u] = Reply(status, body)
    BY <1>1
<1>3. StoreReply'[u] = Reply(status, body)
    BY <1>2 DEF StoreReply
<1>4. \A w \in Worker \ {u} : StoreReply'[w] = StoreReply[w]
    BY <1>1 DEF StoreReply
<1>5. StoreReply' = [StoreReply EXCEPT ![u] = Reply(status, body)]
    <2>1. /\ StoreReply = [w \in Worker |-> StoreReply[w]]
          /\ StoreReply' = [w \in Worker |-> StoreReply'[w]]
        BY DEF StoreReply
    <2> QED BY <1>4, <1>3, <2>1
<1>6. \A w \in Worker : (pc'[w] = "flush") <=> (pc[w] = "flush")
    BY <1>1
<1> QED BY <1>5, <1>6, DbKept DEF Store!Answer, Reply

LEMMA AnswerStep ==
    ASSUME IInv, IInv', NEW u \in Worker, NEW from \in {"crud", "open", "write", "ofstream"},
           NEW status, NEW body, Answer(u, from, status, body)
    PROVE  /\ Store!Answer(u, status, body)
           /\ UNCHANGED faults
           /\ UNCHANGED files => UNCHANGED StoreDb
    BY ReplyStep DEF Answer, Goto

\* A call that cannot succeed is refused, and a call that the file system fails
\* has no effect.
LEMMA RefuseStep ==
    ASSUME IInv, IInv', NEW u \in Worker, NEW from \in {"crud", "open", "write", "ofstream"},
           Answer(u, from, "400", {}), UNCHANGED files, Store!BadRequest(u)
    PROVE  Store!Next
<1>1. Store!Refuse(u)
    BY AnswerStep DEF Store!Refuse
<1> QED BY <1>1 DEF Store!Next

LEMMA FailStep ==
    ASSUME IInv, IInv', CallInv, NEW u \in Worker,
           NEW from \in {"crud", "open", "write", "ofstream"}, NEW status \in {"400", "500"},
           Answer(u, from, status, {}), UNCHANGED files, DiskFaults,
           request[u].method \in {"POST", "PUT", "GET", "DELETE"},
           status = "500" => \/ request[u].method \in {"POST", "PUT"}
                             \/ request[u].method = "GET" /\ request[u].id # NoId
    PROVE  Store!Next
<1>1. Store!Pending(u, request[u].method)
    BY Unanswered DEF Answer, Goto
<1>2. Store!Answer(u, status, {}) /\ UNCHANGED <<StoreDb, faults>>
    BY AnswerStep
<1>3. status = "400" => Store!Fail(u)
    BY <1>1, <1>2 DEF Store!Fail
<1>4. status = "500" => Store!Fail(u)
    BY <1>1, <1>2 DEF Store!Fail
<1>5. Store!Fail(u)
    BY <1>3, <1>4
<1> QED BY <1>5 DEF Store!Next

\* Steps whose effect on the store is another step's.
LEMMA ReplyKept ==
    ASSUME NEW u \in Worker, UNCHANGED <<request, response>>,
           \A w \in Worker \ {u} : pc'[w] = pc[w] /\ new_id'[w] = new_id[w],
           pc[u] # "flush", pc'[u] # "flush"
    PROVE  UNCHANGED StoreReply
    BY DEF StoreReply

\* A step inside the lock that neither answers nor opens a file.
LEMMA GoOnStep ==
    ASSUME IInv, IInv', NEW u \in Worker, pc[u] # "flush", NEW l \in {"open", "write", "ofstream"},
           pc' = [pc EXCEPT ![u] = l], UNCHANGED <<files, request, response, faults>>,
           \A w \in Worker \ {u} : new_id'[w] = new_id[w]
    PROVE  UNCHANGED Store!storeVars
<1>1. pc'[u] # "flush" /\ \A w \in Worker \ {u} : pc'[w] = pc[w]
    BY DEF IInv, TypeOK
<1> QED BY <1>1, DbKept, ReplyKept DEF Store!storeVars

\* Between the lock and the answer: the steps that read.
LEMMA ReadStep ==
    ASSUME IInv, IInv', CallInv, FoundIsThere, NEW u \in Worker,
           ReadExists(u) \/ ReadData(u) \/ ReadCutShort(u) \/ List(u)
    PROVE  [Store!Next]_Store!storeVars
<1>1. /\ pc[u] \in {"crud", "open"} /\ request[u].method = "GET"
      /\ UNCHANGED <<files, request, new_id>>
    BY DEF ReadExists, ReadData, ReadCutShort, List, FilesystemError, Answer, Goto, CallInv,
       CallOf
<1>2. HasHandler(u) /\ InCrud(u) /\ request[u] \in Requests /\ Store!Pending(u, "GET")
    BY <1>1, Unanswered
<1>3. CASE FilesystemError(u, "crud")
    BY <1>1, <1>3, FailStep DEF FilesystemError
<1>4. CASE List(u) /\ ~FilesystemError(u, "crud")
    <2>1. Answer(u, "crud", "200", ListIds(base_dir_(u), request[u].name)) /\ request[u].id = NoId
        BY <1>4 DEF List
    <2>2. \A id \in Id : Exists(<<base_dir_(u), request[u].name, id>>)
                         <=> StoreDb[Store!Place(u, id)] # Absent
        BY <1>1, <1>2, OwnView DEF Exists, EntityPath
    <2>3. ListIds(base_dir_(u), request[u].name) = {id \in Id : StoreDb[Store!Place(u, id)] # Absent}
        BY <2>2 DEF ListIds
    <2>4. Store!List(u)
        BY <1>1, <1>2, <2>1, <2>3, AnswerStep DEF Store!List
    <2> QED BY <2>4 DEF Store!Next
<1>5. CASE (ReadExists(u) \/ ReadData(u) \/ ReadCutShort(u)) /\ ~FilesystemError(u, "crud")
    <2>1. request[u].id # NoId /\ request[u].id \in Id
        BY <1>1, <1>2, <1>5, RequestType
           DEF ReadExists, ReadData, ReadCutShort, Goto, CallInv, CallOf
    <2>2. /\ Store!Place(u, request[u].id) = EntityPath(u, request[u].id)
          /\ StoreDb[EntityPath(u, request[u].id)] = files[EntityPath(u, request[u].id)]
        BY <1>1, <1>2, <2>1, OwnView
    <2>3. CASE Answer(u, "crud", "404", {}) /\ ~Exists(EntityPath(u, request[u].id))
        <3>1. Store!Get(u)
            BY <1>1, <1>2, <2>1, <2>2, <2>3, AnswerStep DEF Store!Get, Exists
        <3> QED BY <3>1 DEF Store!Next
    <2>4. CASE /\ Answer(u, "open", "200", {files[EntityPath(u, request[u].id)]})
               /\ Exists(EntityPath(u, request[u].id))
        <3>1. Store!Get(u)
            BY <1>1, <1>2, <2>1, <2>2, <2>4, AnswerStep DEF Store!Get, Exists
        <3> QED BY <3>1 DEF Store!Next
    <2>5. CASE /\ Answer(u, "open", "500", {})
               /\ DiskFaults \/ ~Exists(EntityPath(u, request[u].id))
        <3>1. DiskFaults
            BY <2>5 DEF FoundIsThere, Answer, Goto
        <3> QED BY <1>1, <2>1, <2>5, <3>1, FailStep
    <2>6. CASE ReadExists(u) /\ pc' = [pc EXCEPT ![u] = "open"] /\ UNCHANGED <<response, faults>>
        BY <1>1, <2>6, GoOnStep DEF ReadExists
    <2>7. CASE ReadCutShort(u)
        <3>1. Store!Answer(u, "200", {Torn}) /\ UNCHANGED StoreDb
            BY <1>1, <2>7, ReplyStep DEF ReadCutShort, Goto
        <3>2. Store!GetPart(u)
            BY <1>2, <2>1, <2>2, <2>7, <3>1 DEF ReadCutShort, Store!GetPart, Store!Fault, Exists
        <3> QED BY <3>2 DEF Store!Next
    <2> QED BY <1>5, <2>3, <2>4, <2>5, <2>6, <2>7 DEF ReadExists, ReadData, Goto
<1> QED BY <1>3, <1>4, <1>5

\* A write takes effect when it truncates the file.
LEMMA OpenStep ==
    ASSUME IInv, IInv', CallInv, PostIdIsFresh, NEW u \in Worker, OpenForWriting(u)
    PROVE  Store!Post(u) \/ Store!Put(u)
<1> DEFINE id == new_id[u]
           place == EntityPath(u, id)
<1>1. /\ pc[u] = "ofstream" /\ pc' = [pc EXCEPT ![u] = "flush"]
      /\ UNCHANGED <<request, new_id, response, faults>>
      /\ files' = [files EXCEPT ![place] = Torn]
    BY DEF OpenForWriting, Goto, Truncate
<1>0. DbAsSeen /\ DbAsSeen'
    BY DbView, PTL
<1>2. pc \in [Worker -> PC] /\ files \in [Path -> Content] /\ id \in Id
    BY <1>1 DEF IInv, TypeOK, IdsAreIds
<1>3. /\ HasHandler(u) /\ InCrud(u) /\ request[u] # NoRequest
      /\ Store!Pending(u, request[u].method) /\ request[u].method \in {"POST", "PUT"}
      /\ request[u].method = "PUT" => id = request[u].id
    BY <1>1, Unanswered DEF CallInv, CallOf
<1>4. /\ Store!Place(u, id) = place /\ place \in Path
      /\ StoreDb[place] = files[place]
    BY <1>1, <1>2, <1>3, OwnView
<1> HIDE DEF place
<1>5. id \in {i \in Id : ValidId(i)} /\ (request[u].method = "POST" => files[place] = Absent)
    BY <1>1, <1>2 DEF PostIdIsFresh, FreshId, Exists, place
<1>6. \A w \in Worker, p \in Path : Flushes(w, p)' <=> Flushes(w, p) \/ (w = u /\ p = place)
    BY <1>1, <1>2 DEF Flushes, EntityPath, base_dir_, place
<1>7. StoreDb'[place] = request[u].body
    BY <1>0, <1>1, <1>2, <1>4, <1>6 DEF DbAsSeen
<1>8. ASSUME NEW p \in Path, p # place
      PROVE  StoreDb'[p] = StoreDb[p]
    <2>1. files'[p] = files[p]
        BY <1>1, <1>2, <1>8
    <2>2. CASE \A w \in Worker : ~Flushes(w, p)
        BY <1>0, <1>2, <1>6, <1>8, <2>1, <2>2 DEF DbAsSeen
    <2>3. ASSUME NEW w \in Worker, Flushes(w, p)
          PROVE  StoreDb'[p] = StoreDb[p]
        BY <1>0, <1>1, <1>2, <1>6, <2>3 DEF DbAsSeen
    <2> QED BY <2>2, <2>3
<1>9. StoreDb' = [StoreDb EXCEPT ![place] = request[u].body]
    <2>1. /\ StoreDb = [p \in Path |-> StoreDb[p]]
          /\ StoreDb' = [p \in Path |-> StoreDb'[p]]
        BY DEF StoreDb
    <2> QED BY <1>4, <1>7, <1>8, <2>1
<1>10. StoreReply' = [StoreReply EXCEPT ![u] = Reply("200", {id})]
    <2>1. StoreReply'[u] = Reply("200", {id})
        BY <1>1, <1>2, <1>3 DEF StoreReply
    <2>2. \A w \in Worker \ {u} : StoreReply'[w] = StoreReply[w]
        BY <1>1, <1>2 DEF StoreReply
    <2> QED BY <2>1, <2>2 DEF StoreReply
<1>11. Store!Answer(u, "200", {id})
    BY <1>1, <1>10 DEF Store!Answer, Reply
<1>12. CASE request[u].method = "POST"
    BY <1>1, <1>3, <1>4, <1>5, <1>9, <1>11, <1>12 DEF Store!Post
<1>13. CASE request[u].method = "PUT"
    BY <1>1, <1>3, <1>4, <1>5, <1>9, <1>11, <1>13 DEF Store!Put
<1> QED BY <1>3, <1>12, <1>13

\* The end of a write shows in the store what it left in the file; the answer is
\* the store's already.
LEMMA WriteEnds ==
    ASSUME IInv, IInv', CallInv, NEW u \in Worker, pc[u] = "flush",
           pc' = [pc EXCEPT ![u] = "unlock"], UNCHANGED <<request, new_id>>,
           response' = [response EXCEPT ![u] = Reply("200", {new_id[u]})],
           \A p \in Path \ {EntityPath(u, new_id[u])} : files'[p] = files[p]
    PROVE  LET place == EntityPath(u, new_id[u])
           IN  /\ StoreDb' = [StoreDb EXCEPT ![place] = files'[place]]
               /\ StoreDb[place] = request[u].body /\ place \in Path
               /\ place \in Store!Written(u)
               /\ UNCHANGED StoreReply
<1> DEFINE place == EntityPath(u, new_id[u])
<1>1. /\ pc \in [Worker -> PC] /\ new_id[u] \in Id
      /\ DOMAIN response = Worker /\ HasHandler(u)
      /\ request[u] # NoRequest /\ request[u].method \in {"POST", "PUT"}
    BY RequestAssumption
       DEF IInv, TypeOK, IdsAreIds, HasHandler, HandlersHaveRequests, CallInv, CallOf
<1>2. DbAsSeen /\ DbAsSeen'
    BY DbView, PTL
<1>3. place \in Path /\ Flushes(u, place)
    BY <1>1, PathType DEF Flushes
<1>4. \A w \in Worker : Flushes(w, place) => w = u
    BY <1>3, OneFlusher
<1>5. place = Store!Place(u, new_id[u])
    BY DEF Store!Place, EntityPath, base_dir_
<1>6. \A w \in Worker, p \in Path : Flushes(w, p)' <=> Flushes(w, p) /\ w # u
    BY <1>1 DEF Flushes, EntityPath, base_dir_
<1>7. \A p \in Path : p # place => files'[p] = files[p] /\ ~Flushes(u, p)
    BY DEF Flushes
<1>8. StoreReply[u] = Reply("200", {new_id[u]})
    BY DEF StoreReply
<1>9. place \in Store!Written(u)
    BY <1>1, <1>5, <1>8 DEF Store!Written, Reply
<1> HIDE DEF place
<1>10. StoreDb'[place] = files'[place] /\ StoreDb[place] = request[u].body
    BY <1>2, <1>3, <1>4, <1>6 DEF DbAsSeen
<1>11. ASSUME NEW p \in Path, p # place
       PROVE  StoreDb'[p] = StoreDb[p]
    <2>1. CASE \A w \in Worker : ~Flushes(w, p)
        BY <1>2, <1>6, <1>7, <1>11, <2>1 DEF DbAsSeen
    <2>2. ASSUME NEW w \in Worker, Flushes(w, p)
          PROVE  StoreDb'[p] = StoreDb[p]
        BY <1>2, <1>6, <1>7, <1>11, <2>2 DEF DbAsSeen
    <2> QED BY <2>1, <2>2
<1>12. StoreDb' = [StoreDb EXCEPT ![place] = files'[place]]
    <2>1. /\ StoreDb = [p \in Path |-> StoreDb[p]]
          /\ StoreDb' = [p \in Path |-> StoreDb'[p]]
        BY DEF StoreDb
    <2> QED BY <1>3, <1>10, <1>11, <2>1
<1>13. UNCHANGED StoreReply
    <2>1. \A w \in Worker : StoreReply'[w] = StoreReply[w]
        BY <1>1, <1>8 DEF StoreReply
    <2> QED BY <2>1 DEF StoreReply
<1> QED BY <1>3, <1>9, <1>10, <1>12, <1>13 DEF place

\* The flush writes what the store holds already; one that is cut short loses it.
LEMMA FlushStep ==
    ASSUME IInv, IInv', CallInv, FoundIsThere, NEW u \in Worker, FlushData(u) \/ FlushCutShort(u)
    PROVE  [Store!Next]_Store!storeVars
<1> DEFINE place == EntityPath(u, new_id[u])
<1>1. /\ pc[u] = "flush" /\ pc' = [pc EXCEPT ![u] = "unlock"]
      /\ UNCHANGED <<request, new_id>>
      /\ response' = [response EXCEPT ![u] = Reply("200", {new_id[u]})]
    BY DEF FlushData, FlushCutShort, Answer, Goto
<1>2. files \in [Path -> Content] /\ DOMAIN StoreDb = Path
    BY DEF IInv, TypeOK, StoreDb
<1>3. \A p \in Path \ {place} : files'[p] = files[p]
    BY <1>2 DEF FlushData, Flush, FlushCutShort
<1>4. /\ StoreDb' = [StoreDb EXCEPT ![place] = files'[place]]
      /\ StoreDb[place] = request[u].body /\ place \in Path
      /\ place \in Store!Written(u)
      /\ UNCHANGED StoreReply
    BY <1>1, <1>3, WriteEnds
<1>5. CASE FlushData(u)
    <2>1. files'[place] = request[u].body /\ UNCHANGED faults
        BY <1>2, <1>4, <1>5 DEF FlushData, Flush, Answer
    <2>2. StoreDb' = StoreDb
        <3> HIDE DEF place
        <3>1. StoreDb = [p \in Path |-> StoreDb[p]]
            BY DEF StoreDb
        <3> QED BY <1>4, <2>1, <3>1
    <2> QED BY <1>1, <1>4, <2>1, <2>2 DEF Store!storeVars
<1>6. CASE FlushCutShort(u)
    <2>1. files'[place] = Torn
        BY <1>1, <1>6 DEF FlushCutShort, FoundIsThere
    <2>2. Store!LoseWrite(u)
        <3> HIDE DEF place
        <3> QED BY <1>1, <1>4, <1>6, <2>1 DEF Store!LoseWrite, Store!Fault, FlushCutShort
    <2> QED BY <2>2 DEF Store!Next
<1> QED BY <1>5, <1>6

\* Every other answer refuses the call, fails it, or is a DELETE.
LEMMA OtherStep ==
    ASSUME IInv, IInv', CallInv, PostIdIsFresh, NEW u \in Worker,
           \/ NextIdForPost(u) \/ PutId(u) \/ CheckId(u) \/ OpenForWritingFails(u)
           \/ RemoveFile(u) \/ UnsupportedMethod(u)
    PROVE  [Store!Next]_Store!storeVars
<1>1. /\ pc[u] \in {"crud", "write", "ofstream"} /\ request' = request /\ pc'[u] # "flush"
      /\ \A w \in Worker \ {u} : pc'[w] = pc[w]
      /\ \A w \in Worker \ {u} : new_id'[w] = new_id[w]
    BY DEF NextIdForPost, PutId, CheckId, OpenForWritingFails, RemoveFile,
       UnsupportedMethod, FilesystemError, Answer, Goto, IInv, TypeOK
<1>3. /\ HasHandler(u) /\ InCrud(u) /\ request[u] \in Requests
      /\ Store!Pending(u, request[u].method)
    BY <1>1, Unanswered
<1>4. CASE FilesystemError(u, "crud") /\ UNCHANGED files
           /\ request[u].method \in {"POST", "DELETE"}
    BY <1>4, FailStep DEF FilesystemError
<1>5. CASE NextIdForPost(u) /\ ~FilesystemError(u, "crud")
    BY <1>1, <1>5, GoOnStep DEF NextIdForPost, Goto
<1>6. CASE PutId(u)
    <2>1. CASE request[u].id # NoId
        BY <1>1, <1>6, <2>1, GoOnStep DEF PutId, Goto
    <2>2. CASE request[u].id = NoId
        <3>1. Store!BadRequest(u)
            BY <1>3, <1>6, <2>2, RequestAssumption DEF PutId, Store!BadRequest
        <3> QED BY <1>6, <2>2, <3>1, RefuseStep DEF PutId
    <2> QED BY <2>1, <2>2
<1>7. CASE CheckId(u)
    <2>1. CASE ValidId(new_id[u])
        BY <1>1, <1>7, <2>1, GoOnStep DEF CheckId, Goto
    <2>2. CASE ~ValidId(new_id[u])
        <3>1. request[u].method \in {"POST", "PUT"}
              /\ (request[u].method = "PUT" => new_id[u] = request[u].id)
            BY <1>7 DEF CheckId, Goto, Answer, CallInv, CallOf
        <3>2. request[u].method = "PUT" => Store!BadRequest(u)
            BY <1>3, <2>2, <3>1 DEF Store!BadRequest
        <3>3. ASSUME request[u].method = "POST"
              PROVE  Store!BadRequest(u)
            <4>1. PICK id \in Id : StoiOf[id] = IntMax /\ Exists(EntityPath(u, id))
                BY <1>7, <2>2, <3>3 DEF CheckId, PostIdIsFresh, FreshId
            <4>2. StoreDb[Store!Place(u, id)] # Absent
                BY <1>1, <1>3, <4>1, OwnView DEF Exists
            <4> QED BY <1>3, <3>3, <4>1, <4>2 DEF Store!BadRequest
        <3> QED BY <1>7, <2>2, <3>1, <3>2, <3>3, RefuseStep DEF CheckId
    <2> QED BY <2>1, <2>2
<1>8. CASE OpenForWritingFails(u)
    <2>1. request[u].method \in {"POST", "PUT"}
        BY <1>8 DEF OpenForWritingFails, Answer, Goto, CallInv, CallOf
    <2> QED BY <1>8, <2>1, FailStep DEF OpenForWritingFails
<1>9. CASE UnsupportedMethod(u)
    <2>1. Store!BadRequest(u)
        BY <1>3, <1>9 DEF UnsupportedMethod, Store!BadRequest
    <2> QED BY <1>9, <2>1, RefuseStep DEF UnsupportedMethod
<1>10. CASE RemoveFile(u) /\ ~(FilesystemError(u, "crud") /\ UNCHANGED files)
    <2>1. request[u].method = "DELETE"
        BY <1>10 DEF RemoveFile
    <2>2. CASE request[u].id = NoId
        <3>1. Store!BadRequest(u)
            BY <1>3, <2>1, <2>2 DEF Store!BadRequest
        <3> QED BY <1>10, <2>2, <3>1, RefuseStep DEF RemoveFile
    <2>3. CASE request[u].id # NoId
        <3> DEFINE place == EntityPath(u, request[u].id)
        <3>1. request[u].id \in Id
            BY <1>3, <2>3, RequestType
        <3>2. /\ Store!Place(u, request[u].id) = place /\ place \in Path
              /\ StoreDb[place] = files[place] /\ \A w \in Worker : ~Flushes(w, place)
            BY <1>1, <1>3, <3>1, OwnView
        <3>3. CASE ~Exists(place)
            <4>1. Store!Delete(u)
                BY <1>3, <1>10, <2>1, <2>3, <3>2, <3>3, AnswerStep
                   DEF RemoveFile, Store!Delete, Exists
            <4> QED BY <4>1 DEF Store!Next
        <3>4. CASE Exists(place)
            <4>1. files' = [files EXCEPT ![place] = Absent] /\ Answer(u, "crud", "200", {})
                BY <1>10, <2>3, <3>4 DEF RemoveFile, Remove
            <4>2. StoreDb' = [StoreDb EXCEPT ![place] = Absent]
                <5> HIDE DEF place
                <5>1. \A w \in Worker, p \in Path : Flushes(w, p)' <=> Flushes(w, p)
                    <6>1. new_id' = new_id
                        BY <4>1 DEF Answer
                    <6> QED BY <1>1, <6>1 DEF Flushes, EntityPath, base_dir_
                <5>2. DbAsSeen /\ DbAsSeen'
                    BY DbView, PTL
                <5>3. files \in [Path -> Content]
                    BY DEF IInv, TypeOK
                <5>4. StoreDb'[place] = Absent
                    BY <3>2, <4>1, <5>1, <5>2, <5>3 DEF DbAsSeen
                <5>5. ASSUME NEW p \in Path, p # place
                      PROVE  StoreDb'[p] = StoreDb[p]
                    <6>1. files'[p] = files[p]
                        BY <4>1, <5>3, <5>5
                    <6>2. CASE \A w \in Worker : ~Flushes(w, p)
                        BY <5>1, <5>2, <6>1, <6>2 DEF DbAsSeen
                    <6>3. ASSUME NEW w \in Worker, Flushes(w, p)
                          PROVE  StoreDb'[p] = StoreDb[p]
                        BY <1>1, <5>1, <5>2, <6>3 DEF DbAsSeen
                    <6> QED BY <6>2, <6>3
                <5>6. /\ StoreDb = [p \in Path |-> StoreDb[p]]
                      /\ StoreDb' = [p \in Path |-> StoreDb'[p]]
                    BY DEF StoreDb
                <5> QED BY <5>4, <5>5, <5>6
            <4>3. Store!Answer(u, "200", {}) /\ UNCHANGED faults
                BY <4>1, AnswerStep
            <4>4. Store!Delete(u)
                BY <1>3, <2>1, <2>3, <3>2, <3>4, <4>2, <4>3 DEF Store!Delete, Exists
            <4> QED BY <4>4 DEF Store!Next
        <3> QED BY <3>3, <3>4
    <2> QED BY <2>2, <2>3
<1> QED BY <1>4, <1>5, <1>6, <1>7, <1>8, <1>9, <1>10
        DEF NextIdForPost, RemoveFile

\* Outside the lock, a handler that is built invokes the call and one that is
\* destroyed returns it.
LEMMA OutsideRefines ==
    ASSUME IInv, IInv', CallInv, NEW u \in Worker, OutsideAction(u)
    PROVE  [Store!Next]_Store!storeVars
<1>1. /\ UNCHANGED <<files, faults>>
      /\ pc'[u] # "flush" /\ pc[u] # "flush"
      /\ \A w \in Worker \ {u} : pc'[w] = pc[w] /\ request'[w] = request[w] /\ new_id'[w] = new_id[w]
    BY OutsideStep
<1>2. StoreDb' = StoreDb
    BY <1>1, DbKept
<1>3. /\ request \in [Worker -> Requests \cup {NoRequest}] /\ DOMAIN response = Worker
      /\ pc \in [Worker -> PC] /\ NoResponse = Store!NoReply
    BY DEF IInv, TypeOK, NoResponse, Store!NoReply
<1>4. ASSUME StoreReply'[u] = NoResponse, \A w \in Worker \ {u} : response'[w] = response[w]
      PROVE  StoreReply' = [StoreReply EXCEPT ![u] = Store!NoReply]
    <2>1. \A w \in Worker \ {u} : StoreReply'[w] = StoreReply[w]
        BY <1>1, <1>4 DEF StoreReply
    <2>2. /\ StoreReply = [w \in Worker |-> StoreReply[w]]
          /\ StoreReply' = [w \in Worker |-> StoreReply'[w]]
        BY DEF StoreReply
    <2> QED BY <1>3, <1>4, <2>1, <2>2
<1>5. CASE Construct(u)
    <2>1. PICK r \in Requests : r.root # NoRoot /\ request' = [request EXCEPT ![u] = r]
        BY <1>5 DEF Construct
    <2>2. pc[u] = "idle" /\ pc'[u] = "built" /\ response' = response
        BY <1>3, <1>5 DEF Construct, Goto
    <2>3. request[u] = NoRequest /\ response[u] = NoResponse
        BY <2>2 DEF CallInv, CallOf, HasHandler
    <2>4. StoreReply'[u] = NoResponse
        BY <2>2, <2>3 DEF StoreReply
    <2>6. Store!Invoke(u)
        BY <1>1, <1>2, <1>4, <2>1, <2>2, <2>3, <2>4 DEF Store!Invoke
    <2> QED BY <2>6 DEF Store!Next
<1>6. CASE Destroy(u)
    <2>1. HasKey(base_dir_(u)) /\ request[u] # NoRequest
        BY <1>6, HandlerKeepsKey, RequestAssumption
           DEF Destroy, HasHandler, IInv, HandlersHaveRequests
    <2>2. /\ request' = [request EXCEPT ![u] = NoRequest]
          /\ response' = [response EXCEPT ![u] = NoResponse]
        BY <1>6, <2>1 DEF Destroy
    <2>3. StoreReply'[u] = NoResponse /\ \A w \in Worker \ {u} : response'[w] = response[w]
        BY <1>1, <1>3, <2>2 DEF StoreReply
    <2>4. StoreReply[u] # Store!NoReply \/ DiskFaults
        BY <1>1, <1>3, <1>6 DEF Destroy, CallInv, CallOf, StoreReply
    <2>5. Store!Return(u)
        BY <1>1, <1>2, <1>4, <2>1, <2>2, <2>3, <2>4 DEF Store!Return
    <2> QED BY <2>5 DEF Store!Next
<1>7. CASE \/ ConstructThrows(u) \/ OpenFilesystem(u) \/ RequestMutex(u) \/ Lock(u) \/ Unlock(u)
    <2>1. UNCHANGED <<request, response>>
        BY <1>7 DEF ConstructThrows, OpenFilesystem, RequestMutex, Lock, Unlock
    <2> QED BY <1>1, <1>2, <2>1, ReplyKept DEF Store!storeVars
<1> QED BY <1>5, <1>6, <1>7 DEF OutsideAction

\* A crash ends all calls, and leaves the files that were being written torn.
LEMMA CrashRefines ==
    ASSUME IInv, CallInv, FoundIsThere, Crash
    PROVE  Store!Crash
<1> DEFINE torn == {p \in Path : \E w \in Worker : Flushes(w, p)}
<1>1. \A p \in Path : Flushing(p)' = {}
    BY DEF Crash, Flushing
<1>2. StoreDb' = [p \in Path |-> files[p]]
    BY <1>1 DEF Crash, StoreDb
<1>3. ASSUME NEW p \in Path
      PROVE  files[p] = IF p \in torn THEN Torn ELSE StoreDb[p]
    BY DbView DEF DbAsSeen, FoundIsThere, Flushes
<1>4. torn \subseteq UNION {Store!Written(c) : c \in Worker}
    <2> SUFFICES ASSUME NEW p \in Path, NEW w \in Worker, Flushes(w, p)
                 PROVE  p \in Store!Written(w)
        OBVIOUS
    <2>1. /\ request[w] # NoRequest /\ request[w].method \in {"POST", "PUT"}
        BY RequestAssumption
           DEF Flushes, IInv, HasHandler, HandlersHaveRequests, CallInv, CallOf
    <2>2. StoreReply[w] = Reply("200", {new_id[w]})
        BY DEF StoreReply, Flushes
    <2>3. p = Store!Place(w, new_id[w])
        BY DEF Flushes, EntityPath, base_dir_, Store!Place
    <2> QED BY <2>1, <2>2, <2>3 DEF Store!Written, Reply
<1>5. \A p, q \in torn : p[1] = q[1] => p = q
    BY OneFlusher
<1>6. DOMAIN StoreDb = Path
    BY DEF StoreDb
<1>7. StoreReply' = [c \in Worker |-> Store!NoReply]
    BY DEF Crash, StoreReply, NoResponse, Store!NoReply
<1> HIDE DEF torn
<1>8. StoreDb' = [p \in DOMAIN StoreDb |-> IF p \in torn THEN Torn ELSE StoreDb[p]]
    BY <1>2, <1>3, <1>6
<1> QED BY <1>4, <1>5, <1>7, <1>8 DEF Crash, Store!Crash, Store!Fault

\* The CRUD calls of any threads on any roots are linearizable: each takes effect at one
\* moment, under its lock, and answers from the files as they are then, although the
\* open, the write and the flush of a file are separate steps and the mutexes come and
\* go; and whatever call on the file system fails and whenever the process is killed,
\* what is lost is what EntityStore allows.
THEOREM HandlersImplementStore == Spec => Linearizable
<1>1. Init => Store!Init
    <2> SUFFICES ASSUME Init PROVE Store!Init
        OBVIOUS
    <2>1. \A p \in Path : Flushing(p) = {}
        BY DEF Init, Flushing
    <2>2. StoreDb = [p \in Path |-> Absent]
        BY <2>1 DEF Init, FsInit, StoreDb
    <2>3. StoreReply = [w \in Worker |-> Store!NoReply]
        BY DEF Init, StoreReply, NoResponse, Store!NoReply
    <2> QED BY <2>2, <2>3 DEF Init, Store!Init, Path
<1>2. ASSUME IInv, IInv', CallInv, PostIdIsFresh, FoundIsThere, [Next]_vars
      PROVE  [Store!Next]_Store!storeVars
    <2>1. ASSUME NEW u \in Worker, OutsideAction(u)
          PROVE  [Store!Next]_Store!storeVars
        BY <1>2, <2>1, OutsideRefines
    <2>2. ASSUME NEW u \in Worker, CrudAction(u)
          PROVE  [Store!Next]_Store!storeVars
        <3>1. CASE OpenForWriting(u)
            BY <1>2, <3>1, OpenStep DEF Store!Next
        <3> QED BY <1>2, <2>2, <3>1, FlushStep, ReadStep, OtherStep DEF CrudAction
    <2>3. CASE UNCHANGED <<files, pc, request, new_id, response, faults>>
        <3>1. StoreDb' = StoreDb
            BY <1>2, <2>3, DbKept
        <3>2. StoreReply' = StoreReply
            BY <2>3 DEF StoreReply
        <3> QED BY <2>3, <3>1, <3>2 DEF Store!storeVars
    <2>4. CASE Crash
        BY <1>2, <2>4, CrashRefines DEF Store!Next
    <2> QED BY <1>2, <2>1, <2>2, <2>3, <2>4, NextCases
<1>3. Spec => []IInv
    BY InductiveInvariant
<1>4. Spec => []PostIdIsFresh
    BY PostIdInit, PostIdNext, InductiveInvariant, PTL DEF Spec
<1>5. Spec => []CallInv
    <2>1. IInv /\ CallInv /\ [Next]_vars => CallInv'
        BY CallNext
    <2> QED BY <2>1, CallInit, InductiveInvariant, PTL DEF Spec
<1>6. Spec => []FoundIsThere
    BY FoundInit, FoundNext, InductiveInvariant, PTL DEF Spec
<1> QED BY <1>1, <1>2, <1>3, <1>4, <1>5, <1>6, PTL DEF Spec, Linearizable, Store!Spec

-------------------------------------------------------------------------------
(* The files of the unit tests                                                 *)

\* The names that are there, and the ids under them.
LEMMA MockHas ==
    ASSUME NEW data_, NEW root \in Root, Holds(data_, files, root), NEW name \in Name, NEW id \in Id
    PROVE  /\ MockListIds(data_, name) = ListIds(root, name)
           /\ MockExists(data_, name, id) <=> Exists(<<root, name, id>>)
           /\ Exists(<<root, name, id>>) =>
                 name \in DOMAIN data_ /\ data_[name][id] = files[<<root, name, id>>]
<1>1. Entities(data_, name) = Row(files, root, name)
    BY DEF Holds
<1>2. DOMAIN Row(files, root, name) = ListIds(root, name)
    BY DEF Row, ListIds, Exists
<1>3. CASE name \in DOMAIN data_
    <2>1. data_[name] = Row(files, root, name)
        BY <1>1, <1>3 DEF Entities
    <2>2. MockExists(data_, name, id) <=> id \in ListIds(root, name)
        BY <1>2, <1>3, <2>1 DEF MockExists
    <2>3. id \in ListIds(root, name) <=> Exists(<<root, name, id>>)
        BY DEF ListIds
    <2>4. Exists(<<root, name, id>>) => data_[name][id] = files[<<root, name, id>>]
        BY <2>1 DEF Row, Exists
    <2> QED BY <1>1, <1>2, <1>3, <2>2, <2>3, <2>4 DEF MockListIds
<1>4. CASE name \notin DOMAIN data_
    <2>1. Row(files, root, name) = << >>
        BY <1>1, <1>4 DEF Entities
    <2>2. ListIds(root, name) = {}
        BY <1>2, <2>1
    <2> QED BY <1>1, <1>2, <1>4, <2>2 DEF MockListIds, MockExists, ListIds
<1> QED BY <1>3, <1>4

\* A file that is written or removed is one of its own row only.
LEMMA OtherRows ==
    ASSUME files \in [Path -> Content], NEW root \in Root, NEW name \in Name, NEW id \in Id,
           NEW c, NEW n \in Name, n # name
    PROVE  Row([files EXCEPT ![<<root, name, id>>] = c], root, n) = Row(files, root, n)
<1> DEFINE g == [files EXCEPT ![<<root, name, id>>] = c]
<1>1. \A i \in Id : g[<<root, n, i>>] = files[<<root, n, i>>]
    BY DEF Path
<1> HIDE DEF g
<1>2. Row(g, root, n) = Row(files, root, n)
    BY <1>1 DEF Row
<1> QED BY <1>2 DEF g

\* The mock's map, with the row of one name assigned.
LEMMA Assigned ==
    ASSUME NEW data_, NEW root \in Root, NEW name \in Name, NEW g,
           Holds(data_, files, root),
           \A n \in Name : n # name => Row(g, root, n) = Row(files, root, n)
    PROVE  Holds(Assign(data_, name, Row(g, root, name)), g, root)
<1> DEFINE row == Row(g, root, name)
           new == Assign(data_, name, row)
<1>1. /\ DOMAIN new = DOMAIN data_ \cup {name} /\ new[name] = row
      /\ \A n \in DOMAIN data_ : n # name => new[n] = data_[n]
    BY DEF Assign
<1>2. row = Row(g, root, name)
    OBVIOUS
<1> HIDE DEF new, row
<1>3. ASSUME NEW n \in Name
      PROVE  Entities(new, n) = Row(g, root, n)
    <2>1. CASE n = name
        BY <1>1, <1>2, <2>1 DEF Entities
    <2>2. CASE n # name
        BY <1>1, <2>2 DEF Entities, Holds
    <2> QED BY <2>1, <2>2
<1>4. Holds(new, g, root)
    BY <1>1, <1>3 DEF Holds
<1> QED BY <1>4 DEF new, row

\* write refuses an id, or changes one entity.
LEMMA MockWrites ==
    ASSUME files \in [Path -> Content], NEW data_, NEW root \in Root, NEW name \in Name,
           NEW id \in Id, NEW data \in Data, Holds(data_, files, root)
    PROVE  LET written == MockWrite(data_, name, id, data)
           IN IF ValidId(id)
              THEN Holds(written.returned, [files EXCEPT ![<<root, name, id>>] = data], root)
              ELSE written = Throws("invalid_id_exception")
<1> DEFINE path == <<root, name, id>>
           old == Entities(data_, name)
           g == [files EXCEPT ![path] = data]
           row == [i \in DOMAIN old \cup {id} |-> IF i = id THEN data ELSE old[i]]
<1>1. ~ValidId(id) => MockWrite(data_, name, id, data) = Throws("invalid_id_exception")
    BY DEF MockWrite
<1>2. ValidId(id) => MockWrite(data_, name, id, data).returned = Assign(data_, name, row)
    BY DEF MockWrite, Returns
<1>3. /\ g[path] = data /\ data # Absent
      /\ \A i \in Id \ {id} : g[<<root, name, i>>] = files[<<root, name, i>>]
    BY ContentAssumption DEF Path
<1>4. \A n \in Name : n # name => Row(g, root, n) = Row(files, root, n)
    BY OtherRows
<1>5. old = Row(files, root, name)
    BY DEF Holds
<1> HIDE DEF g, old
<1>6. row = Row(g, root, name)
    <2>0. /\ DOMAIN old = {i \in Id : files[<<root, name, i>>] # Absent}
          /\ \A i \in DOMAIN old : old[i] = files[<<root, name, i>>]
        BY <1>5 DEF Row
    <2>1. DOMAIN old \cup {id} = {i \in Id : g[<<root, name, i>>] # Absent}
        BY <1>3, <2>0
    <2>2. \A i \in DOMAIN old \cup {id} :
             (IF i = id THEN data ELSE old[i]) = g[<<root, name, i>>]
        BY <1>3, <2>0
    <2> HIDE DEF path
    <2> QED BY <2>1, <2>2 DEF Row
<1> HIDE DEF row
<1>7. Holds(Assign(data_, name, row), g, root)
    BY <1>4, <1>6, Assigned
<1>8. Holds(Assign(data_, name, row), [files EXCEPT ![<<root, name, id>>] = data], root)
    BY <1>7 DEF g
<1> QED BY <1>1, <1>2, <1>8

\* remove finds no entity, or takes one away.
LEMMA MockRemoves ==
    ASSUME files \in [Path -> Content], NEW data_, NEW root \in Root, NEW name \in Name,
           NEW id \in Id, Holds(data_, files, root)
    PROVE  LET removed == MockRemove(data_, name, id)
           IN IF Exists(<<root, name, id>>)
              THEN Holds(removed.returned, [files EXCEPT ![<<root, name, id>>] = Absent], root)
              ELSE removed = Throws("not_found_exception")
<1> DEFINE path == <<root, name, id>>
           old == Entities(data_, name)
           g == [files EXCEPT ![path] = Absent]
           row == [i \in DOMAIN old \ {id} |-> old[i]]
<1>1. MockExists(data_, name, id) <=> Exists(path)
    BY MockHas
<1>2. Exists(path) => MockRemove(data_, name, id).returned = Assign(data_, name, row)
    BY <1>1 DEF MockRemove, Returns
<1>3. ~Exists(path) => MockRemove(data_, name, id) = Throws("not_found_exception")
    BY <1>1 DEF MockRemove
<1>4. /\ g[path] = Absent
      /\ \A i \in Id \ {id} : g[<<root, name, i>>] = files[<<root, name, i>>]
    BY DEF Path
<1>5. \A n \in Name : n # name => Row(g, root, n) = Row(files, root, n)
    BY OtherRows
<1>6. old = Row(files, root, name)
    BY DEF Holds
<1> HIDE DEF g, old
<1>7. row = Row(g, root, name)
    <2>0. /\ DOMAIN old = {i \in Id : files[<<root, name, i>>] # Absent}
          /\ \A i \in DOMAIN old : old[i] = files[<<root, name, i>>]
        BY <1>6 DEF Row
    <2>1. DOMAIN old \ {id} = {i \in Id : g[<<root, name, i>>] # Absent}
        BY <1>4, <2>0
    <2>2. \A i \in DOMAIN old \ {id} : old[i] = g[<<root, name, i>>]
        BY <1>4, <2>0
    <2> QED BY <2>1, <2>2 DEF Row
<1> HIDE DEF row
<1>8. Holds(Assign(data_, name, row), g, root)
    BY <1>5, <1>7, Assigned
<1>9. Holds(Assign(data_, name, row), [files EXCEPT ![<<root, name, id>>] = Absent], root)
    BY <1>8 DEF g
<1> QED BY <1>2, <1>3, <1>9

\* The unit tests' stand-in (mock_filesystem.cc) does what the real files do under a
\* disk that does not fail, on the entities the handlers and their faults have left in
\* a root, and on names that have none.
THEOREM MockIsFaithful == Spec => []MockAgrees
<1>1. TypeOK => MockAgrees
    <2> SUFFICES ASSUME TypeOK, NEW root \in Root, NEW data_ \in Holdings(files, root),
                        NEW name \in Name, NEW id \in Id
                 PROVE  LET path == <<root, name, id>>
                            removed == MockRemove(data_, name, id)
                        IN /\ MockExists(data_, name, id) <=> Exists(path)
                           /\ MockListIds(data_, name) = ListIds(root, name)
                           /\ MockNextId(data_, name, id) <=> NextId(root, name, id)
                           /\ MockRead(data_, name, id) =
                                  IF Exists(path) THEN Returns(files[path])
                                  ELSE Throws("not_found_exception")
                           /\ \A data \in Data :
                                 LET written == MockWrite(data_, name, id, data)
                                 IN IF ValidId(id)
                                    THEN Holds(written.returned,
                                               [files EXCEPT ![path] = data], root)
                                    ELSE written = Throws("invalid_id_exception")
                           /\ IF Exists(path)
                              THEN Holds(removed.returned,
                                         [files EXCEPT ![path] = Absent], root)
                              ELSE removed = Throws("not_found_exception")
        BY DEF MockAgrees
    <2>1. files \in [Path -> Content] /\ Holds(data_, files, root)
        BY DEF TypeOK, Holdings
    <2>2. /\ MockListIds(data_, name) = ListIds(root, name)
          /\ MockExists(data_, name, id) <=> Exists(<<root, name, id>>)
          /\ Exists(<<root, name, id>>) => data_[name][id] = files[<<root, name, id>>]
        BY <2>1, MockHas
    <2>3. MockUsedInts(data_, name) = UsedInts(root, name)
        BY <2>2 DEF MockUsedInts, UsedInts
    <2>4. MockNextId(data_, name, id) <=> NextId(root, name, id)
        BY <2>3 DEF MockNextId, NextId
    <2>5. MockRead(data_, name, id) = IF Exists(<<root, name, id>>)
                                      THEN Returns(files[<<root, name, id>>])
                                      ELSE Throws("not_found_exception")
        BY <2>2 DEF MockRead
    <2>6. \A data \in Data :
             LET written == MockWrite(data_, name, id, data)
             IN IF ValidId(id)
                THEN Holds(written.returned, [files EXCEPT ![<<root, name, id>>] = data], root)
                ELSE written = Throws("invalid_id_exception")
        BY <2>1, MockWrites
    <2>7. LET removed == MockRemove(data_, name, id)
          IN IF Exists(<<root, name, id>>)
             THEN Holds(removed.returned, [files EXCEPT ![<<root, name, id>>] = Absent], root)
             ELSE removed = Throws("not_found_exception")
        BY <2>1, MockRemoves
    <2> QED BY <2>2, <2>4, <2>5, <2>6, <2>7
<1> QED BY <1>1, TypeCorrect, PTL
================================================================================
