---------------------------- MODULE EntityHandler ----------------------------
(***************************************************************************)
(* EntityHandler (server/request_handlers/entity_handler.cc): the CRUD     *)
(* handler, as the worker threads of the server run it.  Every request     *)
(* gets a handler object of its own, built and destroyed by                *)
(* session::handle_read; the handlers share the static MutexPool and the   *)
(* file system.  A thread's pc names the statement it is about to execute: *)
(*                                                                         *)
(*   idle -> built -> ready -> locking -> crud [-> open | -> write ->      *)
(*   ofstream -> flush] -> unlock -> destroy -> idle                       *)
(*                                                                         *)
(* An exception that handle_request does not catch destroys the handler    *)
(* (pc "unwind"), leaves handle_read and ends the thread (pc "dead").      *)
(***************************************************************************)
EXTENDS MutexPool, RealFilesystem, FiniteSets

CONSTANTS Worker,      \* the threads that run io_service::run
          Requests,    \* the requests clients send, see RequestAssumption
          NoRoot,      \* a route whose location has no root argument
          NoId,        \* the empty id
          NoWorker, NoRequest,
          DiskFaults,  \* whether calls on the file system may fail: a full or broken
                       \* disk, a file that may not be used, a path that is too long
          MaxFaults    \* bound on the crashes and the reads and writes cut short

\* PATCH stands for every method the handler does not know.
HttpRequest == [method : {"POST", "GET", "PUT", "DELETE", "PATCH"},
                root : Root \cup {NoRoot}, name : Name, id : Id \cup {NoId},
                body : Data]

ASSUME RequestAssumption ==
    /\ Requests \subseteq HttpRequest /\ NoRequest \notin Requests
    /\ NoRoot \notin Root /\ NoId \notin Id /\ NoWorker \notin Worker
    /\ Key = Root
    /\ IsFiniteSet(Worker)
ASSUME FaultAssumption == DiskFaults \in BOOLEAN /\ MaxFaults \in Nat

VARIABLES
    pc,          \* pc[w]: the next statement of worker w
    request,     \* request[w]: the request w is handling
    file_mutex_, \* file_mutex_[w]: the shared_ptr of handle_request
    new_id,      \* new_id[w]: the id that write is called with
    response,    \* response[w]: status and body of the HttpResponse
    owner,       \* owner[m]: the thread that has locked the mutex at m
    quiet,       \* the clients send no more requests
    faults       \* how often the process was killed, or a read or write cut short

workerVars == <<pc, request, file_mutex_, new_id, response>>
vars == <<poolVars, files, workerVars, owner, quiet, faults>>

NoResponse == [status |-> "none", body |-> {}]
Reply(status, body) == [status |-> status, body |-> body]

Init == /\ PoolInit
        /\ FsInit
        /\ pc = [w \in Worker |-> "idle"]
        /\ request = [w \in Worker |-> NoRequest]
        /\ file_mutex_ = [w \in Worker |-> NoMutex]
        /\ new_id = [w \in Worker |-> NoId]
        /\ response = [w \in Worker |-> NoResponse]
        /\ owner = [m \in MutexPtr |-> NoWorker]
        /\ quiet = FALSE
        /\ faults = 0

base_dir_(w) == request[w].root
EntityPath(w, id) == <<base_dir_(w), request[w].name, id>>

Goto(w, from, to) == pc[w] = from /\ pc' = [pc EXCEPT ![w] = to]

\* One statement of handle_request's try block that ends the request.
Answer(w, from, status, body) ==
    /\ Goto(w, from, "unlock")
    /\ response' = [response EXCEPT ![w] = Reply(status, body)]
    /\ UNCHANGED <<poolVars, request, file_mutex_, new_id, owner, quiet, faults>>

\* A call of std::filesystem throws filesystem_error, which the last catch
\* clause answers.
FilesystemError(w, from) == DiskFaults /\ Answer(w, from, "400", {})

-------------------------------------------------------------------------------
(* Constructor and destructor *)

\* The factory runs the constructor: mutex_map_.insert(base_dir_).
Construct(w) ==
    /\ ~quiet
    /\ Goto(w, "idle", "built")
    /\ \E r \in Requests :
          /\ r.root # NoRoot
          /\ request' = [request EXCEPT ![w] = r]
          /\ Insert(r.root, MutexPtr \ {file_mutex_[v] : v \in Worker})
    /\ UNCHANGED <<files, file_mutex_, new_id, response, owner, quiet, faults>>

\* The constructor throws before it touches the pool: no destructor runs.
ConstructThrows(w) ==
    /\ ~quiet
    /\ \E r \in Requests : r.root = NoRoot
    /\ Goto(w, "idle", "dead")
    /\ UNCHANGED <<poolVars, files, request, file_mutex_, new_id, response,
                   owner, quiet, faults>>

\* ~EntityHandler: mutex_map_.erase(base_dir_).  A mutex_missing_exception
\* out of this destructor, which is noexcept, would end the process.  The
\* response is the session's from here on.
Destroy(w) ==
    /\ pc[w] \in {"destroy", "unwind"}
    /\ IF HasKey(base_dir_(w))
       THEN /\ Goto(w, "destroy", "idle") \/ Goto(w, "unwind", "dead")
            /\ Erase(base_dir_(w))
       ELSE /\ pc' = [v \in Worker |-> "terminated"]
            /\ UNCHANGED poolVars
    /\ request' = [request EXCEPT ![w] = NoRequest]
    /\ response' = [response EXCEPT ![w] = NoResponse]
    /\ UNCHANGED <<files, file_mutex_, new_id, owner, quiet, faults>>

-------------------------------------------------------------------------------
(* handle_request up to the lock *)

\* Mutant of OpenFilesystem: the exception skips the destructor.
OpenFilesystemLeaks(w) ==
    /\ \/ Goto(w, "built", "ready")
       \/ DiskFaults /\ Goto(w, "built", "dead")
    /\ UNCHANGED <<poolVars, files, request, file_mutex_, new_id, response,
                   owner, quiet, faults>>

\* make_unique<RealFilesystem>: create_directories may throw, outside the try.
OpenFilesystem(w) ==
    /\ \/ Goto(w, "built", "ready")
       \/ DiskFaults /\ Goto(w, "built", "unwind")
    /\ UNCHANGED <<poolVars, files, request, file_mutex_, new_id, response,
                   owner, quiet, faults>>

\* mutex_map_.request throws when the key is missing, outside the try as well.
RequestMutex(w) ==
    /\ pc[w] = "ready"
    /\ IF HasKey(base_dir_(w))
       THEN /\ Goto(w, "ready", "locking")
            /\ file_mutex_' = [file_mutex_ EXCEPT ![w] = Request(base_dir_(w))]
       ELSE /\ Goto(w, "ready", "unwind")
            /\ UNCHANGED file_mutex_
    /\ UNCHANGED <<poolVars, files, request, new_id, response, owner, quiet, faults>>

\* Mutants of Lock: nobody waits, or only writers do.
LockWithoutWaiting(w) ==
    /\ Goto(w, "locking", "crud")
    /\ owner' = [owner EXCEPT ![file_mutex_[w]] = w]
    /\ UNCHANGED <<poolVars, files, request, file_mutex_, new_id, response,
                   quiet, faults>>

LockForWritersOnly(w) ==
    /\ Goto(w, "locking", "crud")
    /\ request[w].method = "GET" \/ owner[file_mutex_[w]] = NoWorker
    /\ owner' = [owner EXCEPT ![file_mutex_[w]] = w]
    /\ UNCHANGED <<poolVars, files, request, file_mutex_, new_id, response,
                   quiet, faults>>

\* The constructor of lock_crud: blocks while another thread has the mutex.
Lock(w) ==
    /\ Goto(w, "locking", "crud")
    /\ owner[file_mutex_[w]] = NoWorker
    /\ owner' = [owner EXCEPT ![file_mutex_[w]] = w]
    /\ UNCHANGED <<poolVars, files, request, file_mutex_, new_id, response,
                   quiet, faults>>

-------------------------------------------------------------------------------
(* The try block: one action per call on fs_, with the catch clause that       *)
(* turns its exception into a status.                                          *)

\* POST: next_id, then write with the new id.  The scan of the directory throws
\* filesystem_error when it fails.
NextIdForPost(w) ==
    /\ pc[w] = "crud" /\ request[w].method = "POST"
    /\ \/ /\ Goto(w, "crud", "write")
          /\ \E id \in Id : /\ NextId(base_dir_(w), request[w].name, id)
                           /\ new_id' = [new_id EXCEPT ![w] = id]
          /\ UNCHANGED <<poolVars, request, file_mutex_, response, owner,
                         quiet, faults>>
       \/ FilesystemError(w, "crud")
    /\ UNCHANGED files

\* PUT: write with the id of the path; without an id it throws runtime_error.
PutId(w) ==
    /\ pc[w] = "crud" /\ request[w].method = "PUT"
    /\ \/ /\ request[w].id # NoId
          /\ Goto(w, "crud", "write")
          /\ new_id' = [new_id EXCEPT ![w] = request[w].id]
          /\ UNCHANGED <<poolVars, request, file_mutex_, response, owner,
                         quiet, faults>>
       \/ /\ request[w].id = NoId
          /\ Answer(w, "crud", "400", {})
    /\ UNCHANGED files

\* write: check_id
CheckId(w) ==
    /\ pc[w] = "write"
    /\ \/ /\ ValidId(new_id[w])
          /\ Goto(w, "write", "ofstream")
          /\ UNCHANGED <<poolVars, request, file_mutex_, new_id, response,
                         owner, quiet, faults>>
       \/ /\ ~ValidId(new_id[w])
          /\ Answer(w, "write", "400", {})
    /\ UNCHANGED files

\* write: the ofstream constructor truncates or creates the file.
OpenForWriting(w) ==
    /\ Goto(w, "ofstream", "flush")
    /\ Truncate(EntityPath(w, new_id[w]))
    /\ UNCHANGED <<poolVars, request, file_mutex_, new_id, response, owner,
                   quiet, faults>>

\* Mutant of OpenForWritingFails: the exception leaves the mutex locked.
OpenFailureKeepsLock(w) ==
    /\ DiskFaults
    /\ Goto(w, "ofstream", "destroy")
    /\ UNCHANGED <<poolVars, files, request, file_mutex_, new_id, response, owner,
                   quiet, faults>>

\* create_directories throws filesystem_error (400), or the open fails (500).
OpenForWritingFails(w) ==
    /\ DiskFaults
    /\ \E status \in {"400", "500"} : Answer(w, "ofstream", status, {})
    /\ UNCHANGED files

\* Mutant of FlushData: write is called with id and data swapped.
FlushSwapped(w) ==
    /\ pc[w] = "flush"
    /\ Flush(EntityPath(w, new_id[w]), new_id[w])
    /\ Answer(w, "flush", "200", {new_id[w]})

\* write: the ofstream destructor flushes the data and the call returns.
FlushData(w) ==
    /\ pc[w] = "flush"
    /\ Flush(EntityPath(w, new_id[w]), request[w].body)
    /\ Answer(w, "flush", "200", {new_id[w]})

\* The disk is full: nobody looks at the stream, and the client is told 200.
FlushCutShort(w) ==
    /\ DiskFaults /\ faults < MaxFaults
    /\ faults' = faults + 1
    /\ Goto(w, "flush", "unlock")
    /\ response' = [response EXCEPT ![w] = Reply("200", {new_id[w]})]
    /\ UNCHANGED <<poolVars, files, request, file_mutex_, new_id, owner, quiet>>

\* GET without an id: list_ids, whose scan may fail.
List(w) ==
    /\ pc[w] = "crud" /\ request[w].method = "GET" /\ request[w].id = NoId
    /\ \/ Answer(w, "crud", "200", ListIds(base_dir_(w), request[w].name))
       \/ FilesystemError(w, "crud")
    /\ UNCHANGED files

\* GET with an id, the exists test of read: it throws unless the file is there
\* or is known not to be.
ReadExists(w) ==
    /\ pc[w] = "crud" /\ request[w].method = "GET" /\ request[w].id # NoId
    /\ \/ /\ Exists(EntityPath(w, request[w].id))
          /\ Goto(w, "crud", "open")
          /\ UNCHANGED <<poolVars, request, file_mutex_, new_id, response,
                         owner, quiet, faults>>
       \/ /\ ~Exists(EntityPath(w, request[w].id))
          /\ Answer(w, "crud", "404", {})
       \/ FilesystemError(w, "crud")
    /\ UNCHANGED files

\* read: open the file, which fails when it has gone or the disk does, and
\* copy it.
ReadData(w) ==
    /\ pc[w] = "open"
    /\ \/ /\ Exists(EntityPath(w, request[w].id))
          /\ Answer(w, "open", "200", {files[EntityPath(w, request[w].id)]})
       \/ /\ DiskFaults \/ ~Exists(EntityPath(w, request[w].id))
          /\ Answer(w, "open", "500", {})
    /\ UNCHANGED files

\* The disk fails under the copy: nobody looks at the stream, and the client is
\* sent what was read.
ReadCutShort(w) ==
    /\ DiskFaults /\ faults < MaxFaults
    /\ faults' = faults + 1
    /\ Goto(w, "open", "unlock")
    /\ Exists(EntityPath(w, request[w].id))
    /\ response' = [response EXCEPT ![w] = Reply("200", {Torn})]
    /\ UNCHANGED <<poolVars, files, request, file_mutex_, new_id, owner, quiet>>

\* Mutant of RemoveFile: no test that the file is there.
RemoveUnchecked(w) ==
    /\ pc[w] = "crud" /\ request[w].method = "DELETE"
    /\ \/ /\ request[w].id = NoId
          /\ Answer(w, "crud", "400", {})
          /\ UNCHANGED files
       \/ /\ request[w].id # NoId
          /\ Remove(EntityPath(w, request[w].id))
          /\ Answer(w, "crud", "200", {})

\* DELETE: remove throws not_found_exception when there is no such file, and
\* filesystem_error when the file stays for another reason.
RemoveFile(w) ==
    /\ pc[w] = "crud" /\ request[w].method = "DELETE"
    /\ \/ /\ request[w].id = NoId
          /\ Answer(w, "crud", "400", {})
          /\ UNCHANGED files
       \/ /\ request[w].id # NoId
          /\ Exists(EntityPath(w, request[w].id))
          /\ Remove(EntityPath(w, request[w].id))
          /\ Answer(w, "crud", "200", {})
       \/ /\ request[w].id # NoId
          /\ ~Exists(EntityPath(w, request[w].id))
          /\ Answer(w, "crud", "404", {})
          /\ UNCHANGED files
       \/ /\ request[w].id # NoId
          /\ FilesystemError(w, "crud")
          /\ UNCHANGED files

UnsupportedMethod(w) ==
    /\ pc[w] = "crud" /\ request[w].method = "PATCH"
    /\ Answer(w, "crud", "400", {})
    /\ UNCHANGED files

\* The end of handle_request: lock_crud and then file_mutex_ are destroyed.
Unlock(w) ==
    /\ Goto(w, "unlock", "destroy")
    /\ owner' = [owner EXCEPT ![file_mutex_[w]] = NoWorker]
    /\ file_mutex_' = [file_mutex_ EXCEPT ![w] = NoMutex]
    /\ new_id' = [new_id EXCEPT ![w] = NoId]
    /\ UNCHANGED <<poolVars, files, request, response, quiet, faults>>

-------------------------------------------------------------------------------
(* The environment *)

\* The clients stop sending requests.
Quiesce == /\ ~quiet
           /\ quiet' = TRUE
           /\ UNCHANGED <<poolVars, files, workerVars, owner, faults>>

\* The process is killed at any point and started again: only files survive.
Crash == /\ faults < MaxFaults
         /\ faults' = faults + 1
         /\ mutex_pool_' = [k \in Key |-> NoMutex]
         /\ mutex_count_' = [k \in Key |-> 0]
         /\ pc' = [w \in Worker |-> "idle"]
         /\ request' = [w \in Worker |-> NoRequest]
         /\ file_mutex_' = [w \in Worker |-> NoMutex]
         /\ new_id' = [w \in Worker |-> NoId]
         /\ response' = [w \in Worker |-> NoResponse]
         /\ owner' = [m \in MutexPtr |-> NoWorker]
         /\ UNCHANGED <<files, quiet>>

-------------------------------------------------------------------------------

Statement(w) == \/ OpenFilesystem(w) \/ RequestMutex(w) \/ Lock(w)
                \/ NextIdForPost(w) \/ PutId(w) \/ CheckId(w)
                \/ OpenForWriting(w) \/ OpenForWritingFails(w) \/ FlushData(w)
                \/ FlushCutShort(w) \/ List(w) \/ ReadExists(w) \/ ReadData(w)
                \/ ReadCutShort(w) \/ RemoveFile(w) \/ UnsupportedMethod(w)
                \/ Unlock(w) \/ Destroy(w)

Next == \/ \E w \in Worker : Construct(w) \/ ConstructThrows(w) \/ Statement(w)
        \/ Quiesce
        \/ Crash

Spec == Init /\ [][Next]_vars

\* Every thread keeps running; nothing is assumed of the clients, and the
\* mutex need not be fair.
FairSpec == Spec /\ \A w \in Worker : WF_vars(Statement(w))

-------------------------------------------------------------------------------
(* Properties *)

PC == {"idle", "built", "ready", "locking", "crud", "open", "write", "ofstream",
       "flush", "unlock", "destroy", "unwind", "dead", "terminated"}

\* Every variable has a value of its type.
TypeOK ==
    /\ mutex_pool_ \in [Key -> MutexPtr \cup {NoMutex}]
    /\ mutex_count_ \in [Key -> Nat]
    /\ files \in [Path -> Content]
    /\ pc \in [Worker -> PC]
    /\ request \in [Worker -> Requests \cup {NoRequest}]
    /\ file_mutex_ \in [Worker -> MutexPtr \cup {NoMutex}]
    /\ new_id \in [Worker -> Id \cup {NoId}]
    /\ response \in [Worker -> [status : {"none", "200", "400", "404", "500"},
                                body : SUBSET (Id \cup Content)]]
    /\ owner \in [MutexPtr -> Worker \cup {NoWorker}]
    /\ quiet \in BOOLEAN
    /\ faults \in 0 .. MaxFaults

\* A worker has a handler object, on the root of its request.
HasHandler(w) == pc[w] \notin {"idle", "dead", "terminated"}
Handlers(k) == {w \in Worker : HasHandler(w) /\ base_dir_(w) = k}

\* The worker owns lock_crud.
InCrud(w) == pc[w] \in {"crud", "open", "write", "ofstream", "flush", "unlock"}

\* The reference count of a root is the number of handler objects built with
\* it, and its mutex is there exactly while there is one: no handler is
\* forgotten or counted twice, whichever way (return, exception) it is left.
PoolCountsHandlers ==
    \A k \in Key : /\ mutex_count_[k] = Cardinality(Handlers(k))
                   /\ HasKey(k) <=> Handlers(k) # {}

\* validate_key never throws: a handler that requests or erases its root finds
\* it in the pool (server_main.cc reports a throw as "mutex invariant violated").
NoMutexMissing ==
    \A w \in Worker : /\ HasHandler(w) => HasKey(base_dir_(w))
                      /\ pc[w] # "terminated"

\* Two threads inside handle_request's lock work on different roots, although
\* the mutex of a root is dropped and made anew as handlers come and go.
MutualExclusion ==
    \A v, w \in Worker :
        v # w /\ InCrud(v) /\ InCrud(w) => base_dir_(v) # base_dir_(w)

\* A torn file is one a thread is writing, or one that a crash or a full disk left
\* behind: at most one for each root and fault, however many threads were writing.
TornFilesBounded ==
    \A r \in Root :
        Cardinality({p \in Path : p[1] = r /\ files[p] = Torn}) <=
            faults + Cardinality({w \in Handlers(r) : pc[w] = "flush"})

\* While no process crashed and no read or write was cut short, no client is sent a
\* file that another thread is in the middle of writing.
ReadsAreWhole == faults = 0 => \A w \in Worker : Torn \notin response[w].body

\* A POST creates its entity: the file that write truncates does not exist,
\* although next_id was computed in an earlier step.
PostOpensNewFile ==
    \A w \in Worker : pc[w] = "ofstream" /\ pc'[w] = "flush" /\ request[w].method = "POST"
        => ~Exists(EntityPath(w, new_id[w]))

PostNeverOverwrites == [][PostOpensNewFile]_vars

\* Whoever takes the mutex of a root gives it back, whatever the disk does.
LockIsReleased == \A m \in MutexPtr : owner[m] # NoWorker ~> owner[m] = NoWorker

\* When the clients go quiet every handler is destroyed and the pool drains.
PoolDrains ==
    quiet ~> /\ \A w \in Worker : pc[w] \in {"idle", "dead"}
             /\ \A k \in Key : ~HasKey(k)

-------------------------------------------------------------------------------
(* Refinement.  A write takes effect when it truncates the file: from there to *)
(* the flush the root is locked, so the store already holds the new content.   *)

Flushing(p) == {w \in Worker : pc[w] = "flush" /\ EntityPath(w, new_id[w]) = p}

StoreDb == [p \in Path |-> IF Flushing(p) = {} THEN files[p]
                           ELSE request[CHOOSE w \in Flushing(p) : TRUE].body]

StoreReply == [w \in Worker |-> IF pc[w] = "flush" THEN Reply("200", {new_id[w]})
                                ELSE response[w]]

Store == INSTANCE EntityStore WITH
            Client <- Worker, ValidIds <- {id \in Id : ValidId(id)},
            LastIds <- {id \in Id : StoiOf[id] = IntMax}, Failing <- DiskFaults,
            db <- StoreDb, call <- request, reply <- StoreReply

\* The handlers and their files behave as a store whose calls take effect one at a
\* time, crashes and failures of the disk included (integration_test.py reads back
\* what it put, one call after the other).
Linearizable == Store!Spec
===============================================================================
