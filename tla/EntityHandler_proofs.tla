------------------------- MODULE EntityHandler_proofs -------------------------
(***************************************************************************)
(* Proofs about EntityHandler, for any number of threads, roots, names,    *)
(* ids and crashes.                                                        *)
(***************************************************************************)
EXTENDS EntityHandler, FiniteSetTheorems, TLAPS

-------------------------------------------------------------------------------
(* Type correctness *)

USE RequestAssumption, NoMutexAssumption, IdAssumption, IntMaxAssumption,
    FaultAssumption

\* A worker's request is well formed: every field has its type.
LEMMA RequestType ==
    ASSUME NEW r \in Requests
    PROVE  /\ r.method \in {"POST", "GET", "PUT", "DELETE", "PATCH"}
           /\ r.root \in Root \cup {NoRoot}
           /\ r.name \in Name
           /\ r.id \in Id \cup {NoId}
           /\ r.body \in Data
           /\ r # NoRequest
    BY DEF HttpRequest

\* The steps inside the lock: they leave the pool, the mutexes and the requests
\* alone, and the thread stays inside.
CrudStep(w) ==
    /\ InCrud(w) /\ pc[w] # "unlock"
    /\ \E l \in {"open", "write", "ofstream", "flush", "unlock"} :
          pc' = [pc EXCEPT ![w] = l]
    /\ UNCHANGED <<mutex_pool_, mutex_count_, request, file_mutex_, owner, quiet>>
    /\ \/ faults' = faults
       \/ faults < MaxFaults /\ faults' = faults + 1

CrudAction(w) ==
    \/ NextIdForPost(w) \/ PutId(w) \/ CheckId(w) \/ OpenForWriting(w)
    \/ OpenForWritingFails(w) \/ FlushData(w) \/ FlushCutShort(w) \/ List(w)
    \/ ReadExists(w) \/ ReadData(w) \/ ReadCutShort(w) \/ RemoveFile(w)
    \/ UnsupportedMethod(w)

\* Every action between lock and unlock is such a step.
LEMMA CrudActionIsCrudStep ==
    ASSUME NEW w \in Worker, CrudAction(w)
    PROVE  CrudStep(w)
    BY DEF CrudAction, CrudStep, NextIdForPost, PutId, CheckId, OpenForWriting,
       OpenForWritingFails, FlushData, FlushCutShort, List, ReadExists, ReadData,
       ReadCutShort, RemoveFile, UnsupportedMethod, FilesystemError, Answer, Goto,
       InCrud, poolVars

\* The initial values have their types.
LEMMA InitType == Init => TypeOK
<1> SUFFICES ASSUME Init PROVE TypeOK
    OBVIOUS
<1>1. files \in [Path -> Content]
    BY DEF Init, FsInit, Content
<1>2. response \in [Worker -> [status : {"none", "200", "400", "404", "500"},
                               body : SUBSET (Id \cup Content)]]
    BY DEF Init, NoResponse
<1>3. faults \in 0 .. MaxFaults
    <2>1. faults = 0 BY DEF Init
    <2>2. MaxFaults \in Nat BY FaultAssumption
    <2> QED BY <2>1, <2>2
<1>6. quiet \in BOOLEAN
    BY DEF Init
<1>4. pc \in [Worker -> PC]
    BY DEF Init, PC
<1>5. /\ mutex_pool_ \in [Key -> MutexPtr \cup {NoMutex}]
      /\ mutex_count_ \in [Key -> Nat]
      /\ request \in [Worker -> Requests \cup {NoRequest}]
      /\ file_mutex_ \in [Worker -> MutexPtr \cup {NoMutex}]
      /\ new_id \in [Worker -> Id \cup {NoId}]
      /\ owner \in [MutexPtr -> Worker \cup {NoWorker}]
    BY DEF Init, PoolInit
<1> QED
    BY <1>1, <1>2, <1>3, <1>4, <1>5, <1>6 DEF TypeOK

\* The part of TypeOK that steps inside the lock change.
CrudTypes == /\ files \in [Path -> Content]
             /\ pc \in [Worker -> PC]
             /\ new_id \in [Worker -> Id \cup {NoId}]
             /\ response \in [Worker -> [status : {"none", "200", "400", "404", "500"},
                                         body : SUBSET (Id \cup Content)]]

\* The part that they leave alone.
PoolTypes == /\ mutex_pool_ \in [Key -> MutexPtr \cup {NoMutex}]
             /\ mutex_count_ \in [Key -> Nat]
             /\ request \in [Worker -> Requests \cup {NoRequest}]
             /\ file_mutex_ \in [Worker -> MutexPtr \cup {NoMutex}]
             /\ owner \in [MutexPtr -> Worker \cup {NoWorker}]
             /\ quiet \in BOOLEAN
             /\ faults \in 0 .. MaxFaults

\* An answer has a status and a body of the right types.
LEMMA AnswerType ==
    ASSUME TypeOK, NEW w \in Worker, NEW from, NEW status, NEW body,
           Answer(w, from, status, body),
           status \in {"none", "200", "400", "404", "500"},
           body \in SUBSET (Id \cup Content)
    PROVE  /\ pc' \in [Worker -> PC]
           /\ new_id' \in [Worker -> Id \cup {NoId}]
           /\ response' \in [Worker -> [status : {"none", "200", "400", "404", "500"},
                                        body : SUBSET (Id \cup Content)]]
    BY DEF TypeOK, Answer, Goto, PC, Reply

\* The thread inside the lock works on a request with a root of its own.
LEMMA CrudActionType ==
    ASSUME TypeOK, NEW w \in Worker, request[w] \in Requests,
           request[w].root \in Root, pc[w] \in {"write", "ofstream", "flush"} => new_id[w] \in Id,
           pc[w] = "open" => request[w].id \in Id,
           CrudAction(w)
    PROVE  CrudTypes'
<1>1. /\ request[w].name \in Name
      /\ request[w].id # NoId => request[w].id \in Id
      /\ request[w].body \in Data
    BY RequestType
<1>2. \A id \in Id : EntityPath(w, id) \in Path /\ files[EntityPath(w, id)] \in Content
    BY <1>1 DEF EntityPath, base_dir_, Path, TypeOK
<1>15. CASE FilesystemError(w, "crud") /\ UNCHANGED files
    BY <1>15, AnswerType DEF FilesystemError, CrudTypes, TypeOK
<1>3. CASE NextIdForPost(w)
    <2>1. CASE ~FilesystemError(w, "crud")
        <3>1. PICK id \in Id : new_id' = [new_id EXCEPT ![w] = id]
            BY <1>3, <2>1 DEF NextIdForPost
        <3>2. pc' = [pc EXCEPT ![w] = "write"] /\ UNCHANGED <<files, response>>
            BY <1>3, <2>1 DEF NextIdForPost, Goto
        <3> QED BY <3>1, <3>2 DEF TypeOK, CrudTypes, PC
    <2> QED BY <1>3, <1>15, <2>1 DEF NextIdForPost
<1>4. CASE PutId(w)
    <2>1. CASE Answer(w, "crud", "400", {})
        BY <1>4, <2>1, AnswerType DEF PutId, CrudTypes, TypeOK
    <2>2. CASE ~Answer(w, "crud", "400", {})
        BY <1>1, <1>4, <2>2 DEF PutId, TypeOK, CrudTypes, Goto, PC
    <2> QED BY <2>1, <2>2
<1>5. CASE CheckId(w)
    <2>1. CASE Answer(w, "write", "400", {})
        BY <1>5, <2>1, AnswerType DEF CheckId, CrudTypes, TypeOK
    <2>2. CASE ~Answer(w, "write", "400", {})
        BY <1>5, <2>2 DEF CheckId, TypeOK, CrudTypes, Goto, PC
    <2> QED BY <2>1, <2>2
<1>6. CASE OpenForWriting(w)
    BY <1>2, <1>6 DEF OpenForWriting, Truncate, TypeOK, CrudTypes, Goto, PC, Content
<1>7. CASE OpenForWritingFails(w)
    BY <1>7, AnswerType DEF OpenForWritingFails, CrudTypes, TypeOK
<1>8. CASE FlushData(w)
    <2>1. new_id[w] \in Id
        BY <1>8 DEF FlushData
    <2>2. files' \in [Path -> Content]
        BY <1>1, <1>2, <1>8, <2>1 DEF FlushData, Flush, TypeOK, Content
    <2>3. {new_id[w]} \in SUBSET (Id \cup Content)
        BY <2>1
    <2> QED BY <1>8, <2>2, <2>3, AnswerType DEF FlushData, CrudTypes
<1>14. CASE FlushCutShort(w)
    <2>1. {new_id[w]} \in SUBSET (Id \cup Content)
        BY <1>14 DEF FlushCutShort, Goto
    <2> QED BY <1>14, <2>1 DEF FlushCutShort, Goto, PC, Reply, CrudTypes, TypeOK
<1>9. CASE List(w)
    <2>1. ListIds(base_dir_(w), request[w].name) \in SUBSET (Id \cup Content)
        BY DEF ListIds
    <2>2. CASE ~FilesystemError(w, "crud")
        BY <1>9, <2>1, <2>2, AnswerType DEF List, CrudTypes, TypeOK
    <2> QED BY <1>9, <1>15, <2>2 DEF List
<1>10. CASE ReadExists(w)
    <2>1. CASE Answer(w, "crud", "404", {})
        BY <1>10, <2>1, AnswerType DEF ReadExists, CrudTypes, TypeOK
    <2>2. CASE ~Answer(w, "crud", "404", {}) /\ ~FilesystemError(w, "crud")
        BY <1>10, <2>2 DEF ReadExists, TypeOK, CrudTypes, Goto, PC
    <2> QED BY <1>10, <1>15, <2>1, <2>2 DEF ReadExists
<1>12. CASE RemoveFile(w)
    <2>1. CASE Answer(w, "crud", "200", {}) /\ Remove(EntityPath(w, request[w].id))
                  /\ request[w].id # NoId
        BY <1>1, <1>2, <2>1, AnswerType DEF Remove, CrudTypes, TypeOK, Content
    <2>2. CASE Answer(w, "crud", "400", {}) /\ UNCHANGED files
        BY <2>2, AnswerType DEF CrudTypes, TypeOK
    <2>3. CASE Answer(w, "crud", "404", {}) /\ UNCHANGED files
        BY <2>3, AnswerType DEF CrudTypes, TypeOK
    <2> QED BY <1>12, <1>15, <2>1, <2>2, <2>3 DEF RemoveFile
<1>13. CASE UnsupportedMethod(w)
    BY <1>13, AnswerType DEF UnsupportedMethod, CrudTypes, TypeOK
<1>11. CASE ReadData(w)
    <2>1. {files[EntityPath(w, request[w].id)]} \in SUBSET (Id \cup Content)
        BY <1>2, <1>11 DEF ReadData
    <2> QED BY <1>11, <2>1, AnswerType DEF ReadData, CrudTypes, TypeOK
<1>16. CASE ReadCutShort(w)
    BY <1>16 DEF ReadCutShort, Goto, PC, Reply, CrudTypes, TypeOK, Content
<1> QED BY <1>3, <1>4, <1>5, <1>6, <1>7, <1>8, <1>9, <1>10, <1>11, <1>12, <1>13,
       <1>14, <1>16 DEF CrudAction

-------------------------------------------------------------------------------
(* The inductive invariant.  TypeOK is not inductive: the ids a thread works   *)
(* with have their types because of how it came to its statement.  Mutual      *)
(* exclusion needs that every thread between request and unlock holds the      *)
(* mutex that is in the pool for its root now, which holds because the count   *)
(* of a root is the number of its handlers: no erase but the last drops it.    *)

\* The thread has a copy of the shared_ptr of its root's mutex.
HasMutex(w) == pc[w] = "locking" \/ InCrud(w)

HandlersHaveRequests ==
    \A w \in Worker : HasHandler(w) => /\ request[w] \in Requests
                                       /\ request[w].root \in Root

IdsAreIds ==
    \A w \in Worker : /\ pc[w] \in {"write", "ofstream", "flush"} => new_id[w] \in Id
                      /\ pc[w] = "open" => request[w].id \in Id

CountsAreRight ==
    \A k \in Key : /\ mutex_count_[k] = Cardinality(Handlers(k))
                   /\ HasKey(k) <=> mutex_count_[k] > 0

HeldIsPooled ==
    \A w \in Worker : HasMutex(w) => file_mutex_[w] = mutex_pool_[base_dir_(w)]

LockedIsOwned == \A w \in Worker : InCrud(w) => owner[file_mutex_[w]] = w

IInv == /\ TypeOK
        /\ HandlersHaveRequests
        /\ IdsAreIds
        /\ CountsAreRight
        /\ \A w \in Worker : pc[w] # "terminated"
        /\ HeldIsPooled
        /\ LockedIsOwned

\* The handlers of a root are finitely many threads.
LEMMA HandlersFinite == \A k \in Key : IsFiniteSet(Handlers(k))
    BY FS_Subset DEF Handlers

\* A handler keeps its root in the pool, and the mutex there is a mutex.
LEMMA HandlerKeepsKey ==
    ASSUME IInv, NEW w \in Worker, HasHandler(w)
    PROVE  /\ base_dir_(w) \in Key
           /\ HasKey(base_dir_(w))
           /\ mutex_pool_[base_dir_(w)] \in MutexPtr
<1> DEFINE k == base_dir_(w)
<1>1. k \in Key
    BY DEF IInv, HandlersHaveRequests, base_dir_
<1>2. w \in Handlers(k)
    BY DEF Handlers
<1>3. Cardinality(Handlers(k)) \in Nat /\ Cardinality(Handlers(k)) # 0
    BY <1>1, <1>2, HandlersFinite, FS_EmptySet, FS_CardinalityType
<1>4. HasKey(k)
    BY <1>1, <1>3 DEF IInv, CountsAreRight
<1> QED BY <1>1, <1>4 DEF IInv, TypeOK, HasKey

\* What the steps inside the lock do to the ids a thread works with.
LEMMA CrudActionIds ==
    ASSUME IInv, NEW w \in Worker, CrudAction(w)
    PROVE  /\ \A v \in Worker \ {w} : new_id'[v] = new_id[v]
           /\ pc'[w] \in {"write", "ofstream", "flush"} => new_id'[w] \in Id
           /\ pc'[w] = "open" => request[w].id \in Id
<1>1. request[w] \in Requests
    BY CrudActionIsCrudStep DEF CrudStep, InCrud, HasHandler, IInv, HandlersHaveRequests
<1>2. request[w].id # NoId => request[w].id \in Id
    BY <1>1, RequestType
<1>3. CASE NextIdForPost(w)
    BY <1>3 DEF NextIdForPost, FilesystemError, Answer, Goto, IInv, TypeOK
<1>4. CASE PutId(w)
    BY <1>2, <1>4 DEF PutId, Answer, Goto, IInv, TypeOK
<1>5. CASE CheckId(w)
    BY <1>5 DEF CheckId, Answer, Goto, IInv, TypeOK, IdsAreIds
<1>6. CASE OpenForWriting(w)
    BY <1>6 DEF OpenForWriting, Goto, IInv, TypeOK, IdsAreIds
<1>7. CASE ReadExists(w)
    BY <1>2, <1>7 DEF ReadExists, FilesystemError, Answer, Goto, IInv, TypeOK
<1>8. CASE \/ OpenForWritingFails(w) \/ FlushData(w) \/ FlushCutShort(w) \/ List(w)
           \/ ReadData(w) \/ ReadCutShort(w) \/ RemoveFile(w) \/ UnsupportedMethod(w)
    BY <1>8 DEF OpenForWritingFails, FlushData, FlushCutShort, List, ReadData, ReadCutShort,
       RemoveFile, UnsupportedMethod, FilesystemError, Answer, Goto, IInv, TypeOK
<1> QED BY <1>3, <1>4, <1>5, <1>6, <1>7, <1>8 DEF CrudAction

\* Steps inside the lock preserve the invariant.
LEMMA CrudActionInv ==
    ASSUME IInv, NEW w \in Worker, CrudAction(w)
    PROVE  IInv'
<1>1. CrudStep(w)
    BY CrudActionIsCrudStep
<1>2. TypeOK'
    <2>1. CrudTypes'
        BY <1>1, CrudActionType
           DEF IInv, CrudStep, InCrud, HasHandler, HandlersHaveRequests, IdsAreIds
    <2>2. PoolTypes'
        BY <1>1 DEF IInv, TypeOK, PoolTypes, CrudStep
    <2> QED BY <2>1, <2>2 DEF CrudTypes, PoolTypes, TypeOK
<1>3. \A v \in Worker : /\ HasHandler(v)' <=> HasHandler(v)
                        /\ HasMutex(v)' <=> HasMutex(v)
                        /\ InCrud(v)' <=> InCrud(v)
                        /\ base_dir_(v)' = base_dir_(v)
                        /\ pc'[v] # "terminated"
    BY <1>1 DEF CrudStep, HasHandler, HasMutex, InCrud, base_dir_, IInv, TypeOK
<1>4. HandlersHaveRequests'
    BY <1>1, <1>3 DEF IInv, HandlersHaveRequests, CrudStep
<1>5. IdsAreIds'
    BY <1>1, CrudActionIds DEF IInv, IdsAreIds, CrudStep, TypeOK
<1>6. CountsAreRight'
    <2>1. \A k \in Key : Handlers(k)' = Handlers(k)
        BY <1>3 DEF Handlers
    <2> QED BY <1>1, <2>1 DEF IInv, CountsAreRight, CrudStep, HasKey
<1>7. HeldIsPooled' /\ LockedIsOwned'
    BY <1>1, <1>3 DEF IInv, HeldIsPooled, LockedIsOwned, CrudStep
<1> QED BY <1>2, <1>3, <1>4, <1>5, <1>6, <1>7 DEF IInv

\* Building a handler counts it, and gives a root that has none its mutex.
LEMMA ConstructInv ==
    ASSUME IInv, NEW w \in Worker, Construct(w)
    PROVE  IInv'
<1> PICK r \in Requests : /\ r.root # NoRoot
                          /\ request' = [request EXCEPT ![w] = r]
                          /\ Insert(r.root, MutexPtr \ {file_mutex_[v] : v \in Worker})
    BY DEF Construct
<1> DEFINE k == r.root
<1>1. k \in Key
    BY RequestType
<1>2. /\ pc[w] = "idle"
      /\ pc' = [pc EXCEPT ![w] = "built"]
      /\ UNCHANGED <<files, file_mutex_, new_id, response, owner, quiet, faults>>
    BY DEF Construct, Goto
<1>3. /\ mutex_pool_' \in [Key -> MutexPtr \cup {NoMutex}]
      /\ mutex_pool_'[k] # NoMutex
      /\ \A j \in Key : mutex_pool_[j] # NoMutex => mutex_pool_'[j] = mutex_pool_[j]
      /\ \A j \in Key \ {k} : mutex_pool_'[j] = mutex_pool_[j]
    <2>1. mutex_pool_ \in [Key -> MutexPtr \cup {NoMutex}]
        BY DEF IInv, TypeOK
    <2>2. CASE HasKey(k)
        <3>1. mutex_pool_' = mutex_pool_
            BY <2>2 DEF Insert
        <3> QED BY <1>1, <2>1, <2>2, <3>1 DEF HasKey
    <2>3. CASE ~HasKey(k)
        <3>1. PICK m \in MutexPtr : mutex_pool_' = [mutex_pool_ EXCEPT ![k] = m]
            BY <2>3 DEF Insert, MakeShared
        <3>2. mutex_pool_[k] = NoMutex
            BY <2>3 DEF HasKey
        <3>3. m # NoMutex
            BY NoMutexAssumption
        <3> QED BY <1>1, <2>1, <3>1, <3>2, <3>3
    <2> QED BY <2>2, <2>3
<1>4. mutex_count_' = [mutex_count_ EXCEPT ![k] = @ + 1]
    <2>1. ~HasKey(k) => mutex_count_[k] = 0
        BY <1>1 DEF IInv, CountsAreRight, TypeOK
    <2> QED BY <1>1, <2>1 DEF Insert, IInv, TypeOK
<1>5. TypeOK'
    <2>1. mutex_count_' \in [Key -> Nat]
        BY <1>1, <1>4 DEF IInv, TypeOK
    <2>2. response' \in [Worker -> [status : {"none", "200", "400", "404", "500"},
                                    body : SUBSET (Id \cup Content)]]
        BY <1>2 DEF IInv, TypeOK
    <2>3. pc' \in [Worker -> PC]
        BY <1>2 DEF IInv, TypeOK, PC
    <2> QED BY <1>2, <1>3, <2>1, <2>2, <2>3 DEF IInv, TypeOK
<1>6. \A v \in Worker \ {w} : /\ HasHandler(v)' <=> HasHandler(v)
                              /\ base_dir_(v)' = base_dir_(v)
    BY <1>2 DEF HasHandler, base_dir_, IInv, TypeOK
<1>7. /\ ~HasHandler(w) /\ HasHandler(w)'
      /\ base_dir_(w)' = k
      /\ request'[w] = r
    BY <1>2 DEF HasHandler, base_dir_, IInv, TypeOK
<1>8. \A v \in Worker : /\ HasMutex(v)' <=> HasMutex(v)
                        /\ InCrud(v)' <=> InCrud(v)
                        /\ HasMutex(v) => v # w /\ HasHandler(v)
                        /\ pc'[v] # "terminated"
    BY <1>2 DEF HasMutex, InCrud, HasHandler, IInv, TypeOK
<1>9. HandlersHaveRequests'
    BY <1>1, <1>6, <1>7 DEF IInv, HandlersHaveRequests, TypeOK
<1>10. IdsAreIds'
    BY <1>2 DEF IInv, IdsAreIds, TypeOK
<1>11. CountsAreRight'
    <2> SUFFICES ASSUME NEW j \in Key
                 PROVE  /\ mutex_count_'[j] = Cardinality(Handlers(j)')
                        /\ mutex_pool_'[j] # NoMutex <=> mutex_count_'[j] > 0
        BY DEF CountsAreRight, HasKey
    <2>1. mutex_count_[j] = Cardinality(Handlers(j))
        BY DEF IInv, CountsAreRight
    <2>2. CASE j = k
        <3>1. Handlers(j)' = Handlers(j) \cup {w} /\ w \notin Handlers(j)
            BY <1>6, <1>7, <2>2 DEF Handlers
        <3>2. Cardinality(Handlers(j)') = Cardinality(Handlers(j)) + 1
            BY <3>1, HandlersFinite, FS_AddElement
        <3> QED BY <1>1, <1>3, <1>4, <2>1, <2>2, <3>2 DEF IInv, TypeOK
    <2>3. CASE j # k
        <3>1. Handlers(j)' = Handlers(j)
            BY <1>6, <1>7, <2>3 DEF Handlers
        <3> QED BY <1>1, <1>3, <1>4, <2>1, <2>3, <3>1
               DEF IInv, TypeOK, CountsAreRight, HasKey
    <2> QED BY <2>2, <2>3
<1>12. HeldIsPooled'
    <2> SUFFICES ASSUME NEW v \in Worker, HasMutex(v)'
                 PROVE  file_mutex_'[v] = mutex_pool_'[base_dir_(v)']
        BY DEF HeldIsPooled
    <2>1. HasMutex(v) /\ v # w /\ HasHandler(v) /\ base_dir_(v)' = base_dir_(v)
        BY <1>6, <1>8
    <2>2. base_dir_(v) \in Key /\ mutex_pool_[base_dir_(v)] # NoMutex
        BY <2>1, HandlerKeepsKey DEF HasKey
    <2> QED BY <1>2, <1>3, <2>1, <2>2 DEF IInv, HeldIsPooled
<1>13. LockedIsOwned'
    BY <1>2, <1>8 DEF IInv, LockedIsOwned
<1> QED BY <1>5, <1>8, <1>9, <1>10, <1>11, <1>12, <1>13 DEF IInv

\* Destroying a handler uncounts it; the mutex goes with the last one, and then
\* no thread holds it.
LEMMA DestroyInv ==
    ASSUME IInv, NEW w \in Worker, Destroy(w)
    PROVE  IInv'
<1>1. pc[w] \in {"destroy", "unwind"} /\ HasHandler(w) /\ ~HasMutex(w)
    BY DEF Destroy, HasHandler, HasMutex, InCrud
<1> PICK k \in Key : k = base_dir_(w)
    BY <1>1, HandlerKeepsKey
<1>2. HasKey(k) /\ w \in Handlers(k)
    BY <1>1, HandlerKeepsKey DEF Handlers
<1>3. /\ Erase(k)
      /\ \E l \in {"idle", "dead"} : pc' = [pc EXCEPT ![w] = l]
      /\ request' = [request EXCEPT ![w] = NoRequest]
      /\ response' = [response EXCEPT ![w] = NoResponse]
      /\ UNCHANGED <<files, file_mutex_, new_id, owner, quiet, faults>>
    BY <1>2 DEF Destroy, Goto
<1>4. mutex_count_[k] \in Nat /\ mutex_count_[k] > 0
    BY <1>2 DEF IInv, CountsAreRight, TypeOK
<1>5. mutex_count_' = [mutex_count_ EXCEPT ![k] = @ - 1]
    BY <1>2, <1>3, <1>4 DEF Erase, IInv, TypeOK
<1>6. /\ mutex_pool_' \in [Key -> MutexPtr \cup {NoMutex}]
      /\ \A j \in Key \ {k} : mutex_pool_'[j] = mutex_pool_[j]
      /\ mutex_count_[k] - 1 > 0 => mutex_pool_'[k] = mutex_pool_[k]
      /\ mutex_count_[k] - 1 <= 0 => mutex_pool_'[k] = NoMutex
    <2>1. mutex_pool_ \in [Key -> MutexPtr \cup {NoMutex}]
        BY DEF IInv, TypeOK
    <2>2. CASE mutex_count_[k] - 1 <= 0
        <3>1. mutex_pool_' = [mutex_pool_ EXCEPT ![k] = NoMutex]
            BY <1>3, <2>2 DEF Erase
        <3> QED BY <1>2, <1>4, <2>1, <2>2, <3>1
    <2>3. CASE ~(mutex_count_[k] - 1 <= 0)
        <3>1. mutex_pool_' = mutex_pool_
            BY <1>3, <2>3 DEF Erase
        <3> QED BY <2>1, <2>3, <3>1
    <2> QED BY <2>2, <2>3
<1>7. TypeOK'
    <2>1. mutex_count_' \in [Key -> Nat]
        BY <1>2, <1>4, <1>5 DEF IInv, TypeOK
    <2>2. pc' \in [Worker -> PC]
        BY <1>3 DEF IInv, TypeOK, PC
    <2>3. response' \in [Worker -> [status : {"none", "200", "400", "404", "500"},
                                    body : SUBSET (Id \cup Content)]]
        BY <1>3 DEF IInv, TypeOK, NoResponse
    <2> QED BY <1>3, <1>6, <2>1, <2>2, <2>3 DEF IInv, TypeOK
<1>8. \A v \in Worker \ {w} : /\ HasHandler(v)' <=> HasHandler(v)
                              /\ base_dir_(v)' = base_dir_(v)
    BY <1>3 DEF HasHandler, base_dir_, IInv, TypeOK
<1>9. \A v \in Worker : /\ HasMutex(v)' <=> HasMutex(v)
                        /\ InCrud(v)' <=> InCrud(v)
                        /\ HasMutex(v) => v # w /\ HasHandler(v)
                        /\ pc'[v] # "terminated"
    BY <1>1, <1>3 DEF HasMutex, InCrud, HasHandler, IInv, TypeOK
<1>10. ~HasHandler(w)'
    BY <1>3 DEF HasHandler, IInv, TypeOK
<1>11. \A j \in Key : Handlers(j)' = Handlers(j) \ {w}
    BY <1>8, <1>10 DEF Handlers
<1>12. HandlersHaveRequests'
    BY <1>3, <1>8, <1>10 DEF IInv, HandlersHaveRequests, TypeOK
<1>13. IdsAreIds'
    BY <1>3 DEF IInv, IdsAreIds, TypeOK
<1>14. CountsAreRight'
    <2> SUFFICES ASSUME NEW j \in Key
                 PROVE  /\ mutex_count_'[j] = Cardinality(Handlers(j)')
                        /\ mutex_pool_'[j] # NoMutex <=> mutex_count_'[j] > 0
        BY DEF CountsAreRight, HasKey
    <2>1. mutex_count_[j] = Cardinality(Handlers(j))
        BY DEF IInv, CountsAreRight
    <2>2. CASE j = k
        <3>1. Cardinality(Handlers(j)') = Cardinality(Handlers(j)) - 1
            BY <1>2, <1>11, <2>2, HandlersFinite, FS_RemoveElement
        <3> QED BY <1>2, <1>4, <1>5, <1>6, <2>1, <2>2, <3>1
               DEF IInv, TypeOK, HasKey
    <2>3. CASE j # k
        <3>1. Handlers(j)' = Handlers(j)
            BY <1>11, <2>3 DEF Handlers
        <3> QED BY <1>2, <1>5, <1>6, <2>1, <2>3, <3>1
               DEF IInv, TypeOK, CountsAreRight, HasKey
    <2> QED BY <2>2, <2>3
<1>15. HeldIsPooled'
    <2> SUFFICES ASSUME NEW v \in Worker, HasMutex(v)'
                 PROVE  file_mutex_'[v] = mutex_pool_'[base_dir_(v)']
        BY DEF HeldIsPooled
    <2>1. HasMutex(v) /\ v # w /\ HasHandler(v) /\ base_dir_(v)' = base_dir_(v)
        BY <1>8, <1>9
    <2>2. base_dir_(v) \in Key
        BY <2>1, HandlerKeepsKey
    <2>3. CASE base_dir_(v) = k
        <3>0. v \in Handlers(k)'
            <4>1. v \in Handlers(k)
                BY <2>1, <2>3 DEF Handlers
            <4> QED BY <1>2, <1>11, <2>1, <4>1
        <3>1. v \in Handlers(k)' /\ IsFiniteSet(Handlers(k)')
            <4>1. Handlers(k)' = Handlers(k) \ {w} /\ IsFiniteSet(Handlers(k))
                BY <1>2, <1>11, HandlersFinite
            <4> QED BY <3>0, <4>1, FS_RemoveElement
        <3>2. Cardinality(Handlers(k)') \in Nat /\ Cardinality(Handlers(k)') # 0
            BY <3>1, FS_EmptySet, FS_CardinalityType
        <3>3. mutex_count_'[k] > 0
            BY <1>2, <1>14, <3>2 DEF CountsAreRight
        <3>4. mutex_pool_'[k] = mutex_pool_[k]
            BY <1>2, <1>4, <1>5, <1>6, <3>3 DEF IInv, TypeOK
        <3> QED BY <1>3, <2>1, <2>3, <3>4 DEF IInv, HeldIsPooled
    <2>4. CASE base_dir_(v) # k
        BY <1>3, <1>6, <2>1, <2>2, <2>4 DEF IInv, HeldIsPooled
    <2> QED BY <2>3, <2>4
<1>16. LockedIsOwned'
    BY <1>3, <1>9 DEF IInv, LockedIsOwned
<1> QED BY <1>7, <1>9, <1>12, <1>13, <1>14, <1>15, <1>16 DEF IInv

\* Steps that leave the pool, the requests and the set of handlers alone keep
\* the parts of the invariant about them.
LEMMA SameHandlers ==
    ASSUME IInv, UNCHANGED <<mutex_pool_, mutex_count_, request>>,
           \A v \in Worker : HasHandler(v)' <=> HasHandler(v)
    PROVE  HandlersHaveRequests' /\ CountsAreRight'
<1>1. \A v \in Worker : base_dir_(v)' = base_dir_(v)
    BY DEF base_dir_
<1>2. \A k \in Key : Handlers(k)' = Handlers(k)
    BY <1>1 DEF Handlers
<1> QED BY <1>2 DEF IInv, HandlersHaveRequests, CountsAreRight, HasKey

\* A constructor that throws has counted nothing.
LEMMA ConstructThrowsInv ==
    ASSUME IInv, NEW w \in Worker, ConstructThrows(w)
    PROVE  IInv'
<1>1. /\ pc[w] = "idle" /\ pc' = [pc EXCEPT ![w] = "dead"]
      /\ UNCHANGED <<mutex_pool_, mutex_count_, files, request, file_mutex_, new_id,
                     response, owner, quiet, faults>>
    BY DEF ConstructThrows, Goto, poolVars
<1>2. TypeOK'
    <2>1. pc' \in [Worker -> PC]
        BY <1>1 DEF IInv, TypeOK, PC
    <2> QED BY <1>1, <2>1 DEF IInv, TypeOK
<1>3. \A v \in Worker : /\ HasHandler(v)' <=> HasHandler(v)
                        /\ HasMutex(v)' <=> HasMutex(v)
                        /\ InCrud(v)' <=> InCrud(v)
                        /\ pc'[v] # "terminated"
    BY <1>1 DEF HasHandler, HasMutex, InCrud, IInv, TypeOK
<1>4. IdsAreIds'
    BY <1>1 DEF IInv, IdsAreIds, TypeOK
<1>5. HeldIsPooled' /\ LockedIsOwned'
    BY <1>1, <1>3 DEF IInv, HeldIsPooled, LockedIsOwned, base_dir_
<1> QED BY <1>1, <1>2, <1>3, <1>4, <1>5, SameHandlers DEF IInv

\* Opening the file system changes neither pool nor locks, whether it throws or not.
LEMMA OpenFilesystemInv ==
    ASSUME IInv, NEW w \in Worker, OpenFilesystem(w)
    PROVE  IInv'
<1>1. /\ pc[w] = "built"
      /\ \E l \in {"ready", "unwind"} : pc' = [pc EXCEPT ![w] = l]
      /\ UNCHANGED <<mutex_pool_, mutex_count_, files, request, file_mutex_, new_id,
                     response, owner, quiet, faults>>
    BY DEF OpenFilesystem, Goto, poolVars
<1>2. TypeOK'
    <2>1. pc' \in [Worker -> PC]
        BY <1>1 DEF IInv, TypeOK, PC
    <2> QED BY <1>1, <2>1 DEF IInv, TypeOK
<1>3. \A v \in Worker : /\ HasHandler(v)' <=> HasHandler(v)
                        /\ HasMutex(v)' <=> HasMutex(v)
                        /\ InCrud(v)' <=> InCrud(v)
                        /\ pc'[v] # "terminated"
    BY <1>1 DEF HasHandler, HasMutex, InCrud, IInv, TypeOK
<1>4. IdsAreIds'
    BY <1>1 DEF IInv, IdsAreIds, TypeOK
<1>5. HeldIsPooled' /\ LockedIsOwned'
    BY <1>1, <1>3 DEF IInv, HeldIsPooled, LockedIsOwned, base_dir_
<1> QED BY <1>1, <1>2, <1>3, <1>4, <1>5, SameHandlers DEF IInv

\* The mutex of the root is in the pool, and that is the one the thread gets.
LEMMA RequestMutexInv ==
    ASSUME IInv, NEW w \in Worker, RequestMutex(w)
    PROVE  IInv'
<1>1. pc[w] = "ready" /\ HasHandler(w)
    BY DEF RequestMutex, HasHandler
<1>2. HasKey(base_dir_(w)) /\ mutex_pool_[base_dir_(w)] \in MutexPtr
    BY <1>1, HandlerKeepsKey
<1>3. /\ pc' = [pc EXCEPT ![w] = "locking"]
      /\ file_mutex_' = [file_mutex_ EXCEPT ![w] = mutex_pool_[base_dir_(w)]]
      /\ UNCHANGED <<mutex_pool_, mutex_count_, files, request, new_id, response,
                     owner, quiet, faults>>
    BY <1>2 DEF RequestMutex, Goto, Request, poolVars
<1>4. TypeOK'
    <2>1. pc' \in [Worker -> PC]
        BY <1>3 DEF IInv, TypeOK, PC
    <2>2. file_mutex_' \in [Worker -> MutexPtr \cup {NoMutex}]
        BY <1>2, <1>3 DEF IInv, TypeOK
    <2> QED BY <1>3, <2>1, <2>2 DEF IInv, TypeOK
<1>5. \A v \in Worker : /\ HasHandler(v)' <=> HasHandler(v)
                        /\ InCrud(v)' <=> InCrud(v)
                        /\ InCrud(v) => v # w
                        /\ pc'[v] # "terminated"
    BY <1>1, <1>3 DEF HasHandler, InCrud, IInv, TypeOK
<1>6. \A v \in Worker \ {w} : HasMutex(v)' <=> HasMutex(v)
    BY <1>3 DEF HasMutex, InCrud, IInv, TypeOK
<1>7. IdsAreIds'
    BY <1>3 DEF IInv, IdsAreIds, TypeOK
<1>8. HeldIsPooled'
    BY <1>3, <1>6 DEF IInv, HeldIsPooled, base_dir_, TypeOK
<1>9. LockedIsOwned'
    BY <1>3, <1>5 DEF IInv, LockedIsOwned, TypeOK
<1> QED BY <1>3, <1>4, <1>5, <1>7, <1>8, <1>9, SameHandlers DEF IInv

\* The mutex was free, so no thread inside the lock has the same one.
LEMMA LockInv ==
    ASSUME IInv, NEW w \in Worker, Lock(w)
    PROVE  IInv'
<1>1. /\ pc[w] = "locking" /\ pc' = [pc EXCEPT ![w] = "crud"]
      /\ owner[file_mutex_[w]] = NoWorker
      /\ owner' = [owner EXCEPT ![file_mutex_[w]] = w]
      /\ UNCHANGED <<mutex_pool_, mutex_count_, files, request, file_mutex_, new_id,
                     response, quiet, faults>>
    BY DEF Lock, Goto, poolVars
<1>2. HasMutex(w) /\ HasHandler(w)
    BY <1>1 DEF HasMutex, HasHandler
<1>3. file_mutex_[w] \in MutexPtr
    BY <1>2, HandlerKeepsKey DEF IInv, HeldIsPooled
<1>4. TypeOK'
    <2>1. pc' \in [Worker -> PC]
        BY <1>1 DEF IInv, TypeOK, PC
    <2>2. owner' \in [MutexPtr -> Worker \cup {NoWorker}]
        BY <1>1 DEF IInv, TypeOK
    <2> QED BY <1>1, <2>1, <2>2 DEF IInv, TypeOK
<1>5. \A v \in Worker : /\ HasHandler(v)' <=> HasHandler(v)
                        /\ HasMutex(v)' <=> HasMutex(v)
                        /\ pc'[v] # "terminated"
    BY <1>1 DEF HasHandler, HasMutex, InCrud, IInv, TypeOK
<1>6. \A v \in Worker : InCrud(v)' => InCrud(v) \/ v = w
    BY <1>1 DEF InCrud, IInv, TypeOK
<1>7. IdsAreIds'
    BY <1>1 DEF IInv, IdsAreIds, TypeOK
<1>8. HeldIsPooled'
    BY <1>1, <1>5 DEF IInv, HeldIsPooled, base_dir_
<1>9. LockedIsOwned'
    <2> SUFFICES ASSUME NEW v \in Worker, InCrud(v)'
                 PROVE  owner'[file_mutex_[v]] = v
        BY <1>1 DEF LockedIsOwned
    <2>1. CASE v = w
        BY <1>1, <1>3, <2>1 DEF IInv, TypeOK
    <2>2. CASE v # w
        <3>1. owner[file_mutex_[v]] = v
            BY <1>6, <2>2 DEF IInv, LockedIsOwned
        <3>2. v # NoWorker
            OBVIOUS
        <3> QED BY <1>1, <3>1, <3>2 DEF IInv, TypeOK
    <2> QED BY <2>1, <2>2
<1> QED BY <1>1, <1>4, <1>5, <1>7, <1>8, <1>9, SameHandlers DEF IInv

\* The thread gives back the mutex it owns, and no other.
LEMMA UnlockInv ==
    ASSUME IInv, NEW w \in Worker, Unlock(w)
    PROVE  IInv'
<1>1. /\ pc[w] = "unlock" /\ pc' = [pc EXCEPT ![w] = "destroy"]
      /\ owner' = [owner EXCEPT ![file_mutex_[w]] = NoWorker]
      /\ file_mutex_' = [file_mutex_ EXCEPT ![w] = NoMutex]
      /\ new_id' = [new_id EXCEPT ![w] = NoId]
      /\ UNCHANGED <<mutex_pool_, mutex_count_, files, request, response, quiet, faults>>
    BY DEF Unlock, Goto, poolVars
<1>2. InCrud(w)
    BY <1>1 DEF InCrud
<1>3. TypeOK'
    <2>1. pc' \in [Worker -> PC]
        BY <1>1 DEF IInv, TypeOK, PC
    <2>2. owner' \in [MutexPtr -> Worker \cup {NoWorker}]
        BY <1>1 DEF IInv, TypeOK
    <2>3. /\ file_mutex_' \in [Worker -> MutexPtr \cup {NoMutex}]
          /\ new_id' \in [Worker -> Id \cup {NoId}]
        BY <1>1 DEF IInv, TypeOK
    <2> QED BY <1>1, <2>1, <2>2, <2>3 DEF IInv, TypeOK
<1>4. \A v \in Worker : /\ HasHandler(v)' <=> HasHandler(v)
                        /\ HasMutex(v)' => HasMutex(v) /\ v # w
                        /\ InCrud(v)' => InCrud(v) /\ v # w
                        /\ pc'[v] # "terminated"
    BY <1>1 DEF HasHandler, HasMutex, InCrud, IInv, TypeOK
<1>5. IdsAreIds'
    BY <1>1 DEF IInv, IdsAreIds, TypeOK
<1>6. HeldIsPooled'
    BY <1>1, <1>4 DEF IInv, HeldIsPooled, base_dir_, TypeOK
<1>7. LockedIsOwned'
    <2> SUFFICES ASSUME NEW v \in Worker, InCrud(v)'
                 PROVE  owner'[file_mutex_'[v]] = v
        BY DEF LockedIsOwned
    <2>1. owner[file_mutex_[v]] = v /\ owner[file_mutex_[w]] = w /\ v # w
        BY <1>2, <1>4 DEF IInv, LockedIsOwned
    <2>2. file_mutex_'[v] = file_mutex_[v]
        BY <1>1, <2>1 DEF IInv, TypeOK
    <2> QED BY <1>1, <2>1, <2>2 DEF IInv, TypeOK
<1> QED BY <1>1, <1>3, <1>4, <1>5, <1>6, <1>7, SameHandlers DEF IInv

\* Without handlers the pool is empty and nothing is held.
NoHandlers == /\ TypeOK
              /\ \A w \in Worker : pc[w] = "idle"
              /\ \A k \in Key : mutex_pool_[k] = NoMutex /\ mutex_count_[k] = 0

\* Without handlers there is nothing to count and nobody inside a lock.
LEMMA NoHandlersInv == NoHandlers => IInv
<1> SUFFICES ASSUME NoHandlers PROVE IInv
    OBVIOUS
<1> USE DEF NoHandlers
<1>1. \A w \in Worker : ~HasHandler(w) /\ ~HasMutex(w) /\ ~InCrud(w)
    BY DEF HasHandler, HasMutex, InCrud
<1>2. \A k \in Key : Handlers(k) = {}
    BY <1>1 DEF Handlers
<1>3. CountsAreRight
    BY <1>2, FS_EmptySet DEF CountsAreRight, HasKey
<1> QED BY <1>1, <1>3 DEF IInv, HandlersHaveRequests, IdsAreIds, HeldIsPooled, LockedIsOwned

\* A crash ends every handler.
LEMMA CrashInv == IInv /\ Crash => IInv'
<1> SUFFICES ASSUME IInv, Crash PROVE IInv'
    OBVIOUS
<1>1. faults' \in 0 .. MaxFaults
    BY FaultAssumption DEF Crash, IInv, TypeOK
<1>2. pc' \in [Worker -> PC]
    BY DEF Crash, PC
<1>3. response' \in [Worker -> [status : {"none", "200", "400", "404", "500"},
                               body : SUBSET (Id \cup Content)]]
    BY DEF Crash, NoResponse
<1>4. TypeOK'
    BY <1>1, <1>2, <1>3 DEF Crash, IInv, TypeOK
<1>5. NoHandlers'
    BY <1>4 DEF NoHandlers, Crash
<1> QED BY <1>5, NoHandlersInv, PTL

\* The invariant is about the pool, the files, the threads and the locks only.
LEMMA StutterInv == IInv /\ UNCHANGED <<poolVars, files, workerVars, owner, faults>>
                         /\ quiet' \in BOOLEAN => IInv'
<1> SUFFICES ASSUME IInv, UNCHANGED <<poolVars, files, workerVars, owner, faults>>,
                    quiet' \in BOOLEAN
             PROVE  IInv'
    OBVIOUS
<1>1. UNCHANGED <<mutex_pool_, mutex_count_, files, pc, request, file_mutex_, new_id,
                  response, owner, faults>>
    BY DEF poolVars, workerVars
<1>2. TypeOK'
    BY <1>1 DEF IInv, TypeOK
<1>3. \A v \in Worker : /\ HasHandler(v)' <=> HasHandler(v)
                        /\ HasMutex(v)' <=> HasMutex(v)
                        /\ InCrud(v)' <=> InCrud(v)
    BY <1>1 DEF HasHandler, HasMutex, InCrud
<1>4. IdsAreIds' /\ HeldIsPooled' /\ LockedIsOwned'
    BY <1>1, <1>3 DEF IInv, IdsAreIds, HeldIsPooled, LockedIsOwned, base_dir_
<1> QED BY <1>1, <1>2, <1>3, <1>4, SameHandlers DEF IInv

\* The server starts without handlers.
LEMMA InitInv == Init => IInv
<1> SUFFICES ASSUME Init PROVE IInv
    OBVIOUS
<1>1. NoHandlers
    BY InitType DEF Init, PoolInit, NoHandlers
<1> QED BY <1>1, NoHandlersInv

\* Every step of every thread, of the clients and of a crash preserves IInv.
LEMMA NextInv == IInv /\ [Next]_vars => IInv'
<1> SUFFICES ASSUME IInv, [Next]_vars PROVE IInv'
    OBVIOUS
<1>1. ASSUME NEW w \in Worker, Construct(w) \/ ConstructThrows(w)
      PROVE  IInv'
    BY <1>1, ConstructInv, ConstructThrowsInv
<1>2. ASSUME NEW w \in Worker, Statement(w)
      PROVE  IInv'
    <2>1. CASE CrudAction(w)
        BY <2>1, CrudActionInv
    <2>2. CASE OpenFilesystem(w)
        BY <2>2, OpenFilesystemInv
    <2>3. CASE RequestMutex(w)
        BY <2>3, RequestMutexInv
    <2>4. CASE Lock(w)
        BY <2>4, LockInv
    <2>5. CASE Unlock(w)
        BY <2>5, UnlockInv
    <2>6. CASE Destroy(w)
        BY <2>6, DestroyInv
    <2> QED BY <1>2, <2>1, <2>2, <2>3, <2>4, <2>5, <2>6 DEF Statement, CrudAction
<1>3. CASE Quiesce
    BY <1>3, StutterInv DEF Quiesce
<1>4. CASE Crash
    BY <1>4, CrashInv
<1>5. CASE UNCHANGED vars
    BY <1>5, StutterInv DEF vars, IInv, TypeOK
<1> QED BY <1>1, <1>2, <1>3, <1>4, <1>5 DEF Next

\* The types, the counts of the pool and the owners of the mutexes together are
\* inductive, for every step of the handlers.
THEOREM InductiveInvariant == Spec => []IInv
<1>1. IInv /\ [Next]_vars => IInv'
    BY NextInv
<1> QED BY <1>1, InitInv, PTL DEF Spec

\* Every variable of the entity handlers always has a value of its type.
THEOREM TypeCorrect == Spec => []TypeOK
<1>1. IInv => TypeOK
    BY DEF IInv
<1> QED BY <1>1, InductiveInvariant, PTL

\* The mutex of a root is in the pool exactly while some handler was built with
\* that root, and is counted once for each of them.
THEOREM PoolCorrect == Spec => []PoolCountsHandlers
<1>1. IInv => PoolCountsHandlers
    <2> SUFFICES ASSUME IInv, NEW k \in Key
                 PROVE  /\ mutex_count_[k] = Cardinality(Handlers(k))
                        /\ HasKey(k) <=> Handlers(k) # {}
        BY DEF PoolCountsHandlers
    <2>1. Cardinality(Handlers(k)) \in Nat /\ (Cardinality(Handlers(k)) = 0 <=> Handlers(k) = {})
        BY HandlersFinite, FS_EmptySet, FS_CardinalityType
    <2> QED BY <2>1 DEF IInv, CountsAreRight
<1> QED BY <1>1, InductiveInvariant, PTL

\* request and erase never throw mutex_missing_exception, so the catch clause of
\* main for a violated mutex invariant is never reached from an entity handler.
THEOREM MutexNeverMissing == Spec => []NoMutexMissing
<1>1. IInv => NoMutexMissing
    BY HandlerKeepsKey DEF IInv, NoMutexMissing
<1> QED BY <1>1, InductiveInvariant, PTL

\* No two threads are inside the lock of handle_request for the same root, for
\* any number of threads and roots and however handlers come and go.
THEOREM MutualExclusionHolds == Spec => []MutualExclusion
<1>1. IInv => MutualExclusion
    <2> SUFFICES ASSUME IInv, NEW v \in Worker, NEW w \in Worker,
                        InCrud(v), InCrud(w), base_dir_(v) = base_dir_(w)
                 PROVE  v = w
        BY DEF MutualExclusion
    <2>1. file_mutex_[v] = file_mutex_[w]
        BY DEF IInv, HeldIsPooled, HasMutex
    <2> QED BY <2>1 DEF IInv, LockedIsOwned
<1> QED BY <1>1, InductiveInvariant, PTL
===============================================================================
