------------------------------ MODULE MutexPool ------------------------------
(***************************************************************************)
(* MutexPool<Key> (server/mutex_pool.h): a reference-counted map from keys *)
(* to shared mutexes.  The first insert of a key makes its mutex, the last *)
(* erase of it drops the mutex.  Every member function runs under          *)
(* map_mutex_ from its first to its last statement, so each is one action. *)
(*                                                                         *)
(* A key that has no entry is mapped to NoMutex and counts 0.  MutexPtr is *)
(* the set of addresses make_shared can return: an address nobody refers   *)
(* to any more can be returned again for another key.                      *)
(***************************************************************************)
EXTENDS Integers

CONSTANTS Key, MutexPtr, NoMutex

ASSUME NoMutexAssumption == NoMutex \notin MutexPtr

VARIABLES mutex_pool_, mutex_count_

poolVars == <<mutex_pool_, mutex_count_>>

PoolInit == /\ mutex_pool_  = [k \in Key |-> NoMutex]
            /\ mutex_count_ = [k \in Key |-> 0]

\* What validate_key tests.
HasKey(k) == mutex_pool_[k] # NoMutex

\* Unreferenced is the set of addresses no shared_ptr outside the pool holds.
MakeShared(unreferenced) ==
    {m \in unreferenced : \A k \in Key : mutex_pool_[k] # m}

\* Mutant of Insert: only the first insert counts.
InsertCountsOnce(k, unreferenced) ==
    \/ /\ ~HasKey(k)
       /\ \E m \in MakeShared(unreferenced) :
             mutex_pool_' = [mutex_pool_ EXCEPT ![k] = m]
       /\ mutex_count_' = [mutex_count_ EXCEPT ![k] = 1]
    \/ /\ HasKey(k)
       /\ UNCHANGED poolVars

\* Mutant of Insert: it assigns a new mutex every time.
InsertReplaces(k, unreferenced) ==
    /\ \E m \in MakeShared(unreferenced) :
          mutex_pool_' = [mutex_pool_ EXCEPT ![k] = m]
    /\ mutex_count_' = [mutex_count_ EXCEPT ![k] = @ + 1]

Insert(k, unreferenced) ==
    \/ /\ ~HasKey(k)
       /\ \E m \in MakeShared(unreferenced) :
             mutex_pool_' = [mutex_pool_ EXCEPT ![k] = m]
       /\ mutex_count_' = [mutex_count_ EXCEPT ![k] = 1]
    \/ /\ HasKey(k)
       /\ mutex_count_' = [mutex_count_ EXCEPT ![k] = @ + 1]
       /\ UNCHANGED mutex_pool_

\* request returns a copy of the shared_ptr; it throws when ~HasKey(k).
Request(k) == mutex_pool_[k]

\* Mutant of Erase: one handler too early.
EraseEarly(k) ==
    /\ HasKey(k)
    /\ IF mutex_count_[k] - 1 <= 1
       THEN /\ mutex_count_' = [mutex_count_ EXCEPT ![k] = 0]
            /\ mutex_pool_'  = [mutex_pool_ EXCEPT ![k] = NoMutex]
       ELSE /\ mutex_count_' = [mutex_count_ EXCEPT ![k] = @ - 1]
            /\ UNCHANGED mutex_pool_

\* erase; it throws when ~HasKey(k).
Erase(k) ==
    /\ HasKey(k)
    /\ IF mutex_count_[k] - 1 <= 0
       THEN /\ mutex_count_' = [mutex_count_ EXCEPT ![k] = 0]
            /\ mutex_pool_'  = [mutex_pool_ EXCEPT ![k] = NoMutex]
       ELSE /\ mutex_count_' = [mutex_count_ EXCEPT ![k] = @ - 1]
            /\ UNCHANGED mutex_pool_
==============================================================================
