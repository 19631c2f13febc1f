----------------------------- MODULE EntityStore -----------------------------
(***************************************************************************)
(* What the CRUD interface promises (docs/documentation.md, the entity     *)
(* handler): a linearizable store.  Every call takes effect at one moment  *)
(* between its invocation and its return, and answers from the state of    *)
(* the store at that moment.  A file system that fails may make a call     *)
(* fail, without effect; each fault (a crash of the process, a write or a  *)
(* read cut short) may tear one entity of a root, but only one whose write *)
(* has not returned.                                                       *)
(***************************************************************************)
EXTENDS Naturals

CONSTANTS Client, Requests, NoRequest,
          Root, Name, Id, Absent, Torn, NoRoot, NoId,
          ValidIds,    \* the ids an entity can be stored under
          LastIds,     \* those with the largest int, after which POST has no id
          Failing,     \* whether the file system may fail
          MaxFaults    \* bound on the faults

VARIABLES db,    \* db[<<root, name, id>>]: the entity, Torn or Absent
          call,  \* call[c]: the request c waits for
          reply, \* reply[c]: its answer, not read yet
          faults \* the faults so far

storeVars == <<db, call, reply, faults>>

NoReply == [status |-> "none", body |-> {}]

Init == /\ db = [k \in Root \X Name \X Id |-> Absent]
        /\ call = [c \in Client |-> NoRequest]
        /\ reply = [c \in Client |-> NoReply]
        /\ faults = 0

Place(c, id) == <<call[c].root, call[c].name, id>>

Answer(c, status, body) ==
    /\ reply' = [reply EXCEPT ![c] = [status |-> status, body |-> body]]
    /\ UNCHANGED call

Pending(c, method) == /\ call[c] # NoRequest /\ reply[c] = NoReply
                      /\ call[c].method = method

Fault == faults < MaxFaults /\ faults' = faults + 1

Invoke(c) == /\ call[c] = NoRequest
             /\ \E r \in Requests : /\ r.root # NoRoot
                                    /\ call' = [call EXCEPT ![c] = r]
             /\ reply' = [reply EXCEPT ![c] = NoReply]
             /\ UNCHANGED <<db, faults>>

\* A new entity goes under an id no entity of that name has.
Post(c) == /\ Pending(c, "POST")
           /\ \E id \in ValidIds :
                 /\ db[Place(c, id)] = Absent
                 /\ db' = [db EXCEPT ![Place(c, id)] = call[c].body]
                 /\ Answer(c, "200", {id})
           /\ UNCHANGED faults

Put(c) == /\ Pending(c, "PUT") /\ call[c].id \in ValidIds
          /\ db' = [db EXCEPT ![Place(c, call[c].id)] = call[c].body]
          /\ Answer(c, "200", {call[c].id})
          /\ UNCHANGED faults

Get(c) == /\ Pending(c, "GET") /\ call[c].id # NoId
          /\ IF db[Place(c, call[c].id)] = Absent
             THEN Answer(c, "404", {})
             ELSE Answer(c, "200", {db[Place(c, call[c].id)]})
          /\ UNCHANGED <<db, faults>>

List(c) == /\ Pending(c, "GET") /\ call[c].id = NoId
           /\ Answer(c, "200", {id \in Id : db[Place(c, id)] # Absent})
           /\ UNCHANGED <<db, faults>>

Delete(c) == /\ Pending(c, "DELETE") /\ call[c].id # NoId
             /\ IF db[Place(c, call[c].id)] = Absent
                THEN Answer(c, "404", {}) /\ UNCHANGED db
                ELSE /\ db' = [db EXCEPT ![Place(c, call[c].id)] = Absent]
                     /\ Answer(c, "200", {})
             /\ UNCHANGED faults

\* No state of the disk makes these calls succeed.
BadRequest(c) ==
    \/ Pending(c, "PATCH")
    \/ Pending(c, "PUT") /\ call[c].id \notin ValidIds
    \/ Pending(c, "DELETE") /\ call[c].id = NoId
    \/ Pending(c, "POST") /\ \E id \in LastIds : db[Place(c, id)] # Absent

\* A refused call changes nothing.
Refuse(c) == /\ BadRequest(c)
             /\ Answer(c, "400", {})
             /\ UNCHANGED <<db, faults>>

\* Nor does one that the file system fails: it throws (400) or a file cannot be
\* opened (500).
Fail(c) == /\ Failing
           /\ \/ \E method \in {"POST", "PUT", "GET", "DELETE"} : Pending(c, method)
                 /\ Answer(c, "400", {})
              \/ /\ \/ Pending(c, "POST") \/ Pending(c, "PUT")
                    \/ Pending(c, "GET") /\ call[c].id # NoId
                 /\ Answer(c, "500", {})
           /\ UNCHANGED <<db, faults>>

\* The call returns its answer; if the file system fails, an exception may end
\* it without one.
Return(c) == /\ call[c] # NoRequest
             /\ reply[c] # NoReply \/ Failing
             /\ call' = [call EXCEPT ![c] = NoRequest]
             /\ reply' = [reply EXCEPT ![c] = NoReply]
             /\ UNCHANGED <<db, faults>>

\* The entities whose writes have taken effect and not returned.
Written(c) == IF call[c] # NoRequest /\ call[c].method \in {"POST", "PUT"}
                 /\ reply[c].status = "200"
              THEN {Place(c, id) : id \in reply[c].body} ELSE {}

\* A write is cut short, and its client is told that it succeeded.
LoseWrite(c) == /\ Fault
                /\ \E place \in Written(c) : db' = [db EXCEPT ![place] = Torn]
                /\ UNCHANGED <<call, reply>>

\* A part of an entity is returned for the whole.
GetPart(c) == /\ Fault
              /\ Pending(c, "GET") /\ call[c].id # NoId
              /\ db[Place(c, call[c].id)] # Absent
              /\ Answer(c, "200", {Torn})
              /\ UNCHANGED db

\* The process is killed: its calls end, and of each root it may tear one entity
\* it was writing.
Crash == /\ Fault
         /\ \E torn \in SUBSET UNION {Written(c) : c \in Client} :
               /\ \A p, q \in torn : p[1] = q[1] => p = q
               /\ db' = [p \in DOMAIN db |-> IF p \in torn THEN Torn ELSE db[p]]
         /\ call' = [c \in Client |-> NoRequest]
         /\ reply' = [c \in Client |-> NoReply]

Next == \/ \E c \in Client : \/ Invoke(c) \/ Post(c) \/ Put(c) \/ Get(c) \/ List(c)
                             \/ Delete(c) \/ Refuse(c) \/ Fail(c) \/ Return(c)
                             \/ LoseWrite(c) \/ GetPart(c)
        \/ Crash

Spec == Init /\ [][Next]_storeVars
==============================================================================
