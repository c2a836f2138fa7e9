----------------------- MODULE EnclaveThreadsProofs -----------------------
(***************************************************************************)
(* Proofs about the threads of the enclave, for every number of threads and *)
(* of thread control structures.                                            *)
(***************************************************************************)
EXTENDS EnclaveThreads, FiniteSetTheorems, TLAPS

\* The owner is inside _pthread_create_hook, or has lost the process there.
Creating == opc \in {"host_insert", "host_spawn", "host_wait", "enc_wait", "spawn_failed"}

\* The owner is inside one of the other two hooks.
Removing == opc \in {"host_join", "pthread_join", "join_erase_host", "join_erase",
                     "host_detach", "detach_erase_host", "detach_erase"}

\* A thread has stored its id when it may take a routine.
Stored == {"take", "run", "exited"}

\* The owner works on a thread it has created, the last one if it is still
\* creating it, and no other thread is on its way to storing its id.
OwnerInv ==
  /\ Creating \/ Removing => okey \in 1 .. next_id
  /\ Creating => okey = next_id
  /\ opc # "aborted"
  /\ \A k \in Keys : k > next_id => tpc[k] = "none"
  /\ \A k \in 1 .. next_id :
       tpc[k] \notin Stored =>
         /\ okey = k
         /\ tpc[k] = "none" <=> opc \in {"host_insert", "host_spawn", "spawn_failed"}
         /\ tpc[k] \in {"read_args", "store_host_id"} => opc = "host_wait"
         /\ tpc[k] \in {"enter", "store_id", "failed"} => opc \in {"host_wait", "enc_wait"}
  /\ opc \in {"host_insert", "host_spawn", "spawn_failed"} => tpc[okey] = "none"
  /\ \A k \in Keys : tpc[k] = "run" => routine[k] # 0
  /\ \A k \in Keys : tpc[k] = "store_id" => tcs[k] # NoId

\* _enclave_host_id_map has the threads of _key_to_thread_id_map, but for the
\* one that is not there yet or no longer there.
HostMapInv ==
  /\ \A k \in DOMAIN host_id :
       IF host_id[k] = NoId
       THEN /\ k = okey /\ opc \in {"host_spawn", "host_wait", "spawn_failed"}
            /\ tpc[k] \in {"none", "read_args", "store_host_id"}
       ELSE host_id[k] = k /\ tpc[k] \notin {"none", "read_args", "store_host_id"}
  /\ opc \in {"host_spawn", "host_wait", "enc_wait"} => okey \in DOMAIN host_id
  /\ \A k \in DOMAIN thread_id :
       \/ k \in DOMAIN host_id
       \/ k = okey /\ opc \in {"host_insert", "join_erase", "detach_erase"}

\* An entry of _key_to_thread_id_map has an id once its thread has stored one.
IdMapInv ==
  /\ DOMAIN thread_id \subseteq 1 .. next_id
  /\ \A k \in DOMAIN thread_id : thread_id[k] = NoId <=> tpc[k] \notin Stored
  /\ Creating \/ Removing => okey \in DOMAIN thread_id
  /\ DOMAIN handle \subseteq 1 .. next_id
  /\ Creating => okey \notin DOMAIN handle

\* The entries and the handles for an id, without the entry of the thread the
\* owner is working on.
Known(i) == { k \in KeysOf(i) : opc = "idle" \/ k # okey }
Handles(i) == { h \in DOMAIN handle : handle[h] = i }

\* There are as many of the ones as of the others.  They need not be of the
\* same threads: an id is used again, and the lookups take the smallest key.
CountInv == \A i \in Ids : Cardinality(Known(i)) = Cardinality(Handles(i))

\* Without detached threads, a thread whose entry is gone has ended.
JoinInv ==
  /\ opc \in {"host_detach", "detach_erase_host", "detach_erase"} => detached
  /\ opc \in {"join_erase_host", "join_erase"} => tpc[okey] = "exited"
  /\ ~ detached => \A k \in 1 .. next_id : k \notin DOMAIN thread_id => tpc[k] = "exited"

\* Every routine is on the stack or taken, by one thread; and the stack has one
\* for each thread that has yet to take one.
Waiting == { k \in 1 .. next_id : tpc[k] \notin {"run", "exited"} }

Distinct ==
  \A i, j \in 1 .. Len(thread_functions) :
    i # j => thread_functions[i] # thread_functions[j]

OnStack ==
  \A i \in 1 .. Len(thread_functions) :
    /\ thread_functions[i] \in 1 .. next_id
    /\ \A k \in Keys : routine[k] # thread_functions[i]

Taken ==
  /\ \A k \in Keys : routine[k] \in 0 .. next_id
  /\ \A j, k \in Keys : j # k /\ routine[j] = routine[k] => routine[k] = 0
  /\ \A k \in Keys : routine[k] # 0 <=> tpc[k] \in {"run", "exited"}

Accounted ==
  \A r \in 1 .. next_id :
    \/ \E i \in 1 .. Len(thread_functions) : thread_functions[i] = r
    \/ \E k \in Keys : routine[k] = r

Returned ==
  /\ \A k \in Keys : tpc[k] = "exited" => routine[k] \in finished
  /\ finished \subseteq 1 .. next_id

OneEach == Cardinality(Waiting) = Len(thread_functions)

RoutineInv == Distinct /\ OnStack /\ Taken /\ Accounted /\ Returned /\ OneEach

-----------------------------------------------------------------------------
(***************************************************************************)
(* The maps.                                                                *)
(***************************************************************************)

\* What an element of PartialFunctions is.
LEMMA MapType ==
  ASSUME NEW S, NEW T, NEW map
  PROVE  map \in PartialFunctions(S, T) <=>
           /\ map = [j \in DOMAIN map |-> map[j]]
           /\ DOMAIN map \subseteq S
           /\ \A j \in DOMAIN map : map[j] \in T
<1>1. ASSUME map \in PartialFunctions(S, T)
      PROVE  /\ map = [j \in DOMAIN map |-> map[j]]
             /\ DOMAIN map \subseteq S
             /\ \A j \in DOMAIN map : map[j] \in T
  <2>1. PICK D \in SUBSET S : map \in [D -> T]
    BY <1>1 DEF PartialFunctions
  <2>2. QED
    BY <2>1
<1>2. ASSUME map = [j \in DOMAIN map |-> map[j]], DOMAIN map \subseteq S,
             \A j \in DOMAIN map : map[j] \in T
      PROVE  map \in PartialFunctions(S, T)
  <2>1. map \in [DOMAIN map -> T]
    BY <1>2
  <2>2. QED
    BY <1>2, <2>1 DEF PartialFunctions
<1>3. QED
  BY <1>1, <1>2

\* operator[] of std::map.
LEMMA PutMap ==
  ASSUME NEW S, NEW T, NEW map \in PartialFunctions(S, T), NEW k \in S, NEW v \in T
  PROVE  /\ Put(map, k, v) \in PartialFunctions(S, T)
         /\ DOMAIN Put(map, k, v) = DOMAIN map \cup {k}
         /\ Put(map, k, v)[k] = v
         /\ \A j \in DOMAIN map : j # k => Put(map, k, v)[j] = map[j]
<1>1. DOMAIN map \subseteq S /\ \A j \in DOMAIN map : map[j] \in T
  BY MapType
<1>2. /\ Put(map, k, v) = [j \in DOMAIN Put(map, k, v) |-> Put(map, k, v)[j]]
      /\ DOMAIN Put(map, k, v) = DOMAIN map \cup {k}
      /\ Put(map, k, v)[k] = v
      /\ \A j \in DOMAIN map : j # k => Put(map, k, v)[j] = map[j]
  BY DEF Put
<1>3. \A j \in DOMAIN Put(map, k, v) : Put(map, k, v)[j] \in T
  BY <1>1, <1>2
<1>4. Put(map, k, v) \in PartialFunctions(S, T)
  BY <1>1, <1>2, <1>3, MapType
<1>5. QED
  BY <1>2, <1>4

\* erase of std::map.
LEMMA EraseMap ==
  ASSUME NEW S, NEW T, NEW map \in PartialFunctions(S, T), NEW k
  PROVE  /\ Erase(map, k) \in PartialFunctions(S, T)
         /\ DOMAIN Erase(map, k) = DOMAIN map \ {k}
         /\ \A j \in DOMAIN map \ {k} : Erase(map, k)[j] = map[j]
<1>1. DOMAIN map \subseteq S /\ \A j \in DOMAIN map : map[j] \in T
  BY MapType
<1>2. /\ Erase(map, k) = [j \in DOMAIN Erase(map, k) |-> Erase(map, k)[j]]
      /\ DOMAIN Erase(map, k) = DOMAIN map \ {k}
      /\ \A j \in DOMAIN map \ {k} : Erase(map, k)[j] = map[j]
  BY DEF Erase
<1>3. \A j \in DOMAIN Erase(map, k) : Erase(map, k)[j] \in T
  BY <1>1, <1>2
<1>4. Erase(map, k) \in PartialFunctions(S, T)
  BY <1>1, <1>2, <1>3, MapType
<1>5. QED
  BY <1>2, <1>4

\* The map without entries.
LEMMA EmptyMap ==
  ASSUME NEW S, NEW T
  PROVE  <<>> \in PartialFunctions(S, T) /\ DOMAIN <<>> = {}
<1>1. DOMAIN <<>> = {} /\ <<>> = [j \in DOMAIN <<>> |-> <<>>[j]]
  OBVIOUS
<1>2. QED
  BY <1>1, MapType

-----------------------------------------------------------------------------
(***************************************************************************)
(* The owner and the new threads.                                           *)
(***************************************************************************)
Inv == TypeOK /\ OwnerInv /\ HostMapInv /\ IdMapInv

\* Before the first pthread_create nobody is anywhere.
LEMMA InitInv == Init => Inv
<1> SUFFICES ASSUME Init
             PROVE  Inv
  OBVIOUS
<1>1. TypeOK
  <2>1. thread_functions \in Seq(Keys) /\ next_id \in 0 .. MaxThreads
    BY MaxThreadsAssumption DEF Init
  <2>2. /\ thread_id \in PartialFunctions(Keys, Ids \cup {NoId})
        /\ host_id \in PartialFunctions(Keys, Keys \cup {NoId})
        /\ handle \in PartialFunctions(Keys, Ids)
    BY EmptyMap DEF Init
  <2>3. QED
    BY <2>1, <2>2 DEF Init, TypeOK, OwnerPoint, ThreadPoint
<1>2. OwnerInv
  BY DEF Init, OwnerInv, Creating, Removing
<1>3. HostMapInv /\ IdMapInv
  BY DEF Init, HostMapInv, IdMapInv, Creating, Removing
<1>4. QED
  BY <1>1, <1>2, <1>3 DEF Inv

\* Steps of a new thread that change none of the maps.
LEMMA ThreadTypes ==
  ASSUME TypeOK, OwnerInv, NEW k \in Keys,
         ReadArgs(k) \/ Enter(k) \/ EnterFails(k) \/ TakeFunction(k) \/ FunctionReturns(k)
  PROVE  TypeOK'
<1> USE DEF TypeOK, ThreadGoes, ThreadPoint, owner
<1>1. CASE ReadArgs(k)
  BY <1>1 DEF ReadArgs
<1>2. CASE Enter(k)
  BY <1>2 DEF Enter
<1>3. CASE EnterFails(k)
  BY <1>3 DEF EnterFails
<1>4. CASE TakeFunction(k)
  <2>1. /\ back(thread_functions) \in Keys
        /\ pop_back(thread_functions) \in Seq(Keys)
    BY <1>4 DEF TakeFunction, back, pop_back
  <2>2. QED
    BY <1>4, <2>1 DEF TakeFunction
<1>5. CASE FunctionReturns(k)
  <2>1. routine[k] \in Keys
    BY <1>5 DEF FunctionReturns, OwnerInv
  <2>2. QED
    BY <1>5, <2>1 DEF FunctionReturns
<1>6. QED
  BY <1>1, <1>2, <1>3, <1>4, <1>5

\* TypeOK is inductive relative to what is known of okey.
LEMMA TypeStep ==
  ASSUME Inv, [Next]_vars
  PROVE  TypeOK'
<1> USE DEF Inv
<1>1. CASE Create
  <2>1. next_id \in Nat /\ next_id' \in Keys /\ next_id' = next_id + 1
    BY <1>1, MaxThreadsAssumption DEF Create, TypeOK, Keys
  <2>2. thread_id' \in PartialFunctions(Keys, Ids \cup {NoId})
    BY <1>1, <2>1, PutMap DEF Create, TypeOK, Insert
  <2>3. thread_functions' \in Seq(Keys)
    BY <1>1, <2>1 DEF Create, TypeOK
  <2>4. next_id' \in 0 .. MaxThreads
    BY <2>1 DEF Keys
  <2>5. QED
    BY <1>1, <2>1, <2>2, <2>3, <2>4
    DEF Create, TypeOK, OwnerGoes, OwnerPoint, thread
<1>2. CASE HostInsert
  <2>1. okey \in Keys
    BY <1>2 DEF HostInsert, OwnerGoes, OwnerInv, Creating, TypeOK, Keys
  <2>2. host_id' \in PartialFunctions(Keys, Keys \cup {NoId})
    BY <1>2, <2>1, PutMap DEF HostInsert, TypeOK, Insert
  <2>3. QED
    BY <1>2, <2>2 DEF HostInsert, TypeOK, OwnerGoes, OwnerPoint, thread
<1>3. CASE HostSpawn
  BY <1>3 DEF HostSpawn, TypeOK, OwnerGoes, OwnerPoint, ThreadPoint
<1>4. CASE HostSpawnFails \/ HostWait
  BY <1>4 DEF HostSpawnFails, HostWait, TypeOK, OwnerGoes, OwnerPoint, thread
<1>5. CASE EncWait
  <2>1. okey \in DOMAIN thread_id
    BY <1>5 DEF EncWait, OwnerGoes, IdMapInv, Creating
  <2>2. okey \in Keys /\ thread_id[okey] \in Ids
    BY <1>5, <2>1, MapType DEF EncWait, TypeOK
  <2>3. handle' \in PartialFunctions(Keys, Ids)
    BY <1>5, <2>2, PutMap DEF EncWait, TypeOK
  <2>4. QED
    BY <1>5, <2>3 DEF EncWait, TypeOK, OwnerGoes, OwnerPoint, thread
<1>6. ASSUME NEW k \in Keys, StoreHostId(k)
      PROVE  TypeOK'
  <2>1. host_id' \in PartialFunctions(Keys, Keys \cup {NoId})
    BY <1>6, PutMap DEF StoreHostId, TypeOK
  <2>2. QED
    BY <1>6, <2>1 DEF StoreHostId, ThreadGoes, TypeOK, ThreadPoint, owner
<1>7. ASSUME NEW k \in Keys, StoreId(k)
      PROVE  TypeOK'
  <2>1. tcs[k] \in Ids \cup {NoId}
    BY DEF TypeOK
  <2>2. thread_id' \in PartialFunctions(Keys, Ids \cup {NoId})
    BY <1>7, <2>1, PutMap DEF StoreId, TypeOK
  <2>3. QED
    BY <1>7, <2>2 DEF StoreId, ThreadGoes, TypeOK, ThreadPoint, owner
<1>8. ASSUME NEW k \in Keys,
             ReadArgs(k) \/ Enter(k) \/ EnterFails(k) \/ TakeFunction(k) \/ FunctionReturns(k)
      PROVE  TypeOK'
  BY <1>8, ThreadTypes
<1>9. ASSUME NEW h \in Keys, NEW to \in OwnerPoint, Lookup(h, to), detached' \in BOOLEAN
      PROVE  TypeOK'
  <2>1. handle' \in PartialFunctions(Keys, Ids)
    BY <1>9, EraseMap DEF Lookup, TypeOK
  <2>2. DOMAIN thread_id \subseteq Keys
    BY MapType DEF TypeOK
  <2>3. okey' \in Keys \cup {0}
    BY <1>9, <2>2 DEF Lookup, KeysOf, TypeOK
  <2>4. opc' \in OwnerPoint
    BY <1>9 DEF Lookup, OwnerPoint
  <2>5. QED
    BY <1>9, <2>1, <2>3, <2>4 DEF Lookup, TypeOK, thread
<1>10. ASSUME NEW from, NEW to \in OwnerPoint, HostLookup(from, to)
       PROVE  TypeOK'
  BY <1>10 DEF HostLookup, TypeOK, OwnerPoint, thread
<1>11. CASE PthreadJoin
  BY <1>11 DEF PthreadJoin, OwnerGoes, TypeOK, OwnerPoint, thread
<1>12. ASSUME NEW from, NEW to \in OwnerPoint, EraseHost(from, to)
       PROVE  TypeOK'
  <2>1. host_id' \in PartialFunctions(Keys, Keys \cup {NoId})
    BY <1>12, EraseMap DEF EraseHost, TypeOK
  <2>2. QED
    BY <1>12, <2>1 DEF EraseHost, OwnerGoes, TypeOK, thread
<1>13. ASSUME NEW from, EraseId(from)
       PROVE  TypeOK'
  <2>1. thread_id' \in PartialFunctions(Keys, Ids \cup {NoId})
    BY <1>13, EraseMap DEF EraseId, TypeOK
  <2>2. QED
    BY <1>13, <2>1 DEF EraseId, OwnerGoes, TypeOK, OwnerPoint, thread
<1>14. CASE UNCHANGED vars
  BY <1>14 DEF vars, TypeOK
<1>15. ASSUME NEW h \in Keys, JoinLookup(h) \/ DetachLookup(h)
       PROVE  TypeOK'
  <2>1. detached' \in BOOLEAN
    BY <1>15 DEF JoinLookup, DetachLookup, TypeOK
  <2>2. QED
    BY <1>9, <1>15, <2>1 DEF JoinLookup, DetachLookup, OwnerPoint
<1>16. CASE JoinCall \/ DetachCall
  BY <1>10, <1>11, <1>12, <1>13, <1>16
  DEF JoinCall, DetachCall, HostJoinLookup, HostDetachLookup, JoinEraseHost, DetachEraseHost,
      JoinErase, DetachErase, OwnerPoint
<1>17. ASSUME NEW k \in Keys, Thread(k)
       PROVE  TypeOK'
  BY <1>6, <1>7, <1>8, <1>17 DEF Thread
<1>18. CASE CreateCall
  BY <1>1, <1>2, <1>3, <1>4, <1>5, <1>18 DEF CreateCall
<1>19. QED
  BY <1>14, <1>15, <1>16, <1>17, <1>18 DEF Next


\* A handle's thread id is in the map: find_if finds it.
LEMMA LookupFinds ==
  ASSUME TypeOK, CountInv, opc = "idle", NEW h \in DOMAIN handle
  PROVE  /\ handle[h] \in Ids
         /\ IsFiniteSet(Handles(handle[h])) /\ IsFiniteSet(Known(handle[h]))
         /\ KeysOf(handle[h]) # {}
<1> DEFINE i == handle[h]
<1>1. i \in Ids /\ DOMAIN handle \subseteq Keys /\ DOMAIN thread_id \subseteq Keys
  BY MapType DEF TypeOK
<1>2. IsFiniteSet(Keys)
  BY MaxThreadsAssumption, FS_Interval DEF Keys
<1>3. IsFiniteSet(Handles(i)) /\ IsFiniteSet(Known(i))
  <2>1. Handles(i) \subseteq Keys /\ Known(i) \subseteq Keys
    BY <1>1 DEF Handles, Known, KeysOf
  <2>2. QED
    BY <1>2, <2>1, FS_Subset
<1>4. h \in Handles(i)
  BY DEF Handles
<1>5. Cardinality(Handles(i)) # 0
  BY <1>3, <1>4, FS_EmptySet
<1>6. Known(i) # {}
  BY <1>1, <1>3, <1>5, FS_EmptySet DEF CountInv
<1>7. KeysOf(i) # {}
  BY <1>6 DEF Known
<1>8. QED
  BY <1>1, <1>3, <1>7

\* While the owner is not creating a thread, every thread has stored its id.
LEMMA AllStored ==
  ASSUME Inv, ~ Creating
  PROVE  \A k \in 1 .. next_id : k \in Keys /\ tpc[k] \in Stored
<1> SUFFICES ASSUME NEW k \in 1 .. next_id
             PROVE  k \in Keys /\ tpc[k] \in Stored
  OBVIOUS
<1>1. k \in Keys
  BY MaxThreadsAssumption DEF Inv, TypeOK, Keys
<1>2. tpc[k] \in ThreadPoint
  BY <1>1 DEF Inv, TypeOK
<1>3. QED
  BY <1>1, <1>2 DEF Inv, OwnerInv, Creating, ThreadPoint, Stored

\* The owner's steps and OwnerInv.
LEMMA OwnerStepOwner ==
  ASSUME Inv, CountInv,
         \/ CreateCall \/ JoinCall \/ DetachCall
         \/ \E h \in Keys : JoinLookup(h) \/ DetachLookup(h)
  PROVE  OwnerInv'
<1> USE DEF Inv
<1>0. next_id \in Nat /\ MaxThreads \in Nat /\ next_id <= MaxThreads
  BY MaxThreadsAssumption DEF TypeOK
<1>1. CASE Create
  <2>1. next_id' \in Keys /\ okey' = next_id' /\ opc' = "host_insert" /\ tpc' = tpc
        /\ routine' = routine /\ tcs' = tcs /\ next_id' = next_id + 1
    BY <1>0, <1>1 DEF Create, OwnerGoes, thread, Keys
  <2>2. tpc[next_id'] = "none"
    BY <1>0, <2>1 DEF OwnerInv
  <2>3. \A k \in 1 .. next_id : k \in Keys /\ tpc[k] \in Stored
    BY <1>1, AllStored DEF Create, OwnerGoes, Creating
  <2>4. QED
    BY <1>0, <2>1, <2>2, <2>3 DEF OwnerInv, Creating, Removing, Stored
<1>2. CASE HostInsert
  BY <1>0, <1>2 DEF HostInsert, OwnerGoes, thread, OwnerInv, Creating, Removing, Stored
<1>3. CASE HostSpawn
  <2>1. okey \in Keys /\ okey \in 1 .. next_id
    BY <1>0, <1>3 DEF HostSpawn, OwnerGoes, OwnerInv, Creating, Keys
  <2>2. /\ tpc'[okey] = "read_args" /\ \A k \in Keys : k # okey => tpc'[k] = tpc[k]
        /\ opc = "host_spawn" /\ opc' = "host_wait" /\ okey' = okey /\ next_id' = next_id
        /\ routine' = routine /\ tcs' = tcs
    BY <1>3, <2>1 DEF HostSpawn, OwnerGoes, TypeOK
  <2>3. 1 .. next_id \subseteq Keys
    BY <1>0 DEF Keys
  <2>4. QED
    BY <1>0, <2>1, <2>2, <2>3 DEF OwnerInv, Creating, Removing, Stored
<1>4. CASE HostSpawnFails
  BY <1>0, <1>4 DEF HostSpawnFails, OwnerGoes, thread, OwnerInv, Creating, Removing, Stored
<1>5. CASE HostWait
  <2>1. okey \in DOMAIN host_id /\ host_id[okey] = okey
        /\ tpc[okey] \notin {"none", "read_args", "store_host_id"}
    BY <1>5 DEF HostWait, HostMapInv
  <2>2. opc = "host_wait" /\ opc' = "enc_wait" /\ UNCHANGED <<okey, next_id, tpc, routine, tcs>>
    BY <1>5, <2>1 DEF HostWait, thread
  <2>3. QED
    BY <1>0, <2>1, <2>2 DEF OwnerInv, Creating, Removing, Stored
<1>6. CASE EncWait
  <2>1. okey \in DOMAIN thread_id /\ tpc[okey] \in Stored
    BY <1>6 DEF EncWait, OwnerGoes, IdMapInv, Creating
  <2>2. opc = "enc_wait" /\ opc' = "idle" /\ UNCHANGED <<okey, next_id, tpc, routine, tcs>>
    BY <1>6 DEF EncWait, OwnerGoes, thread
  <2>3. QED
    BY <1>0, <2>1, <2>2 DEF OwnerInv, Creating, Removing, Stored
<1>7. ASSUME ~ Creating, ~ Creating', opc' # "aborted", UNCHANGED <<next_id, tpc, routine, tcs>>,
             Removing' => okey' \in 1 .. next_id
      PROVE  OwnerInv'
  <2>1. \A k \in 1 .. next_id : k \in Keys /\ tpc[k] \in Stored
    BY <1>7, AllStored
  <2>2. QED
    BY <1>0, <1>7, <2>1 DEF OwnerInv, Creating
<1>8. ASSUME NEW h \in Keys, NEW to, to \in {"host_join", "host_detach"}, Lookup(h, to)
      PROVE  OwnerInv'
  <2>1. KeysOf(handle[h]) # {}
    BY <1>8, LookupFinds DEF Lookup
  <2>2. okey' \in DOMAIN thread_id /\ opc' = to /\ opc = "idle"
    BY <1>8, <2>1 DEF Lookup, KeysOf
  <2>3. okey' \in 1 .. next_id /\ UNCHANGED <<next_id, tpc, routine, tcs>>
    BY <1>8, <2>2 DEF Lookup, IdMapInv, thread
  <2>4. QED
    BY <1>7, <1>8, <2>2, <2>3 DEF Creating
<1>9. ASSUME NEW from, NEW to, from \in {"host_join", "host_detach"},
             to \in {"pthread_join", "detach_erase_host"}, HostLookup(from, to)
      PROVE  OwnerInv'
  <2>1. okey \in DOMAIN thread_id /\ okey \in 1 .. next_id
    BY <1>9 DEF HostLookup, IdMapInv, OwnerInv, Removing
  <2>2. okey \in DOMAIN host_id
    BY <1>9, <2>1 DEF HostLookup, HostMapInv
  <2>3. opc = from /\ opc' = to /\ UNCHANGED <<next_id, tpc, routine, tcs, okey>>
    BY <1>9, <2>2 DEF HostLookup, thread
  <2>4. QED
    BY <1>7, <1>9, <2>1, <2>3 DEF Creating
<1>10. CASE PthreadJoin \/ JoinEraseHost \/ JoinErase \/ DetachEraseHost \/ DetachErase
  <2>1. /\ Removing /\ UNCHANGED <<next_id, tpc, routine, tcs, okey>>
        /\ opc' \in {"join_erase_host", "join_erase", "detach_erase", "idle"}
    BY <1>10 DEF PthreadJoin, JoinEraseHost, JoinErase, DetachEraseHost, DetachErase,
                 EraseHost, EraseId, OwnerGoes, thread, Removing
  <2>2. okey \in 1 .. next_id /\ ~ Creating
    BY <2>1 DEF OwnerInv, Removing, Creating
  <2>3. QED
    BY <1>7, <2>1, <2>2 DEF Creating
<1>11. QED
  BY <1>1, <1>2, <1>3, <1>4, <1>5, <1>6, <1>8, <1>9, <1>10
  DEF CreateCall, JoinCall, DetachCall, JoinLookup, DetachLookup, HostJoinLookup,
      HostDetachLookup


\* What a step of a thread does to tpc and to the owner.
LEMMA ThreadMoves ==
  ASSUME Inv, NEW k \in Keys, Thread(k)
  PROVE  /\ k \in 1 .. next_id
         /\ \A j \in Keys : j # k => tpc'[j] = tpc[j]
         /\ UNCHANGED <<opc, okey, handle, detached, next_id>>
         /\ <<tpc[k], tpc'[k]>> \in
              { <<"read_args", "store_host_id">>, <<"store_host_id", "enter">>,
                <<"enter", "store_id">>, <<"enter", "failed">>, <<"store_id", "take">>,
                <<"take", "run">>, <<"run", "exited">> }
<1> USE DEF ThreadGoes, owner
<1>1. tpc \in [Keys -> ThreadPoint] /\ next_id \in Nat /\ MaxThreads \in Nat
  BY MaxThreadsAssumption DEF Inv, TypeOK
<1>2. /\ \A j \in Keys : j # k => tpc'[j] = tpc[j]
      /\ UNCHANGED <<opc, okey, handle, detached, next_id>>
      /\ <<tpc[k], tpc'[k]>> \in
              { <<"read_args", "store_host_id">>, <<"store_host_id", "enter">>,
                <<"enter", "store_id">>, <<"enter", "failed">>, <<"store_id", "take">>,
                <<"take", "run">>, <<"run", "exited">> }
  <2>1. CASE ReadArgs(k)
    BY <1>1, <2>1 DEF ReadArgs
  <2>2. CASE StoreHostId(k)
    BY <1>1, <2>2 DEF StoreHostId
  <2>3. CASE Enter(k) \/ EnterFails(k)
    BY <1>1, <2>3 DEF Enter, EnterFails
  <2>4. CASE StoreId(k)
    BY <1>1, <2>4 DEF StoreId
  <2>5. CASE TakeFunction(k)
    BY <1>1, <2>5 DEF TakeFunction
  <2>6. CASE FunctionReturns(k)
    BY <1>1, <2>6 DEF FunctionReturns
  <2>7. QED
    BY <2>1, <2>2, <2>3, <2>4, <2>5, <2>6 DEF Thread
<1>3. tpc[k] # "none"
  BY <1>2
<1>4. k \in 1 .. next_id
  BY <1>1, <1>3 DEF Inv, OwnerInv, Keys
<1>5. QED
  BY <1>2, <1>4

\* The threads' steps and OwnerInv.
LEMMA OwnerStepThread ==
  ASSUME Inv, NEW k \in Keys, Thread(k)
  PROVE  OwnerInv'
<1>1. /\ k \in 1 .. next_id
      /\ \A j \in Keys : j # k => tpc'[j] = tpc[j]
      /\ UNCHANGED <<opc, okey, next_id>>
      /\ <<tpc[k], tpc'[k]>> \in
              { <<"read_args", "store_host_id">>, <<"store_host_id", "enter">>,
                <<"enter", "store_id">>, <<"enter", "failed">>, <<"store_id", "take">>,
                <<"take", "run">>, <<"run", "exited">> }
  BY ThreadMoves
<1>2. next_id \in Nat /\ 1 .. next_id \subseteq Keys
  BY MaxThreadsAssumption DEF Inv, TypeOK, Keys
<1>3. ASSUME NEW j \in 1 .. next_id, tpc'[j] \notin Stored
      PROVE  /\ okey = j
             /\ tpc'[j] = "none" <=> opc \in {"host_insert", "host_spawn", "spawn_failed"}
             /\ tpc'[j] \in {"read_args", "store_host_id"} => opc = "host_wait"
             /\ tpc'[j] \in {"enter", "store_id", "failed"} => opc \in {"host_wait", "enc_wait"}
  BY <1>1, <1>2, <1>3 DEF Inv, OwnerInv, Stored
<1>4. \A j \in Keys : tpc'[j] = "none" <=> tpc[j] = "none"
  BY <1>1
<1>5. \A j \in Keys : tpc'[j] = "run" => routine'[j] # 0
  <2>1. CASE TakeFunction(k)
    <3>1. back(thread_functions) \in Keys
      BY <2>1 DEF TakeFunction, back, Inv, TypeOK
    <3>2. routine' = [routine EXCEPT ![k] = back(thread_functions)]
      BY <2>1 DEF TakeFunction
    <3>3. \A j \in Keys : routine'[j] # 0 \/ (j # k /\ routine'[j] = routine[j])
      BY <3>1, <3>2 DEF Inv, TypeOK, Keys
    <3>4. QED
      BY <1>1, <3>3 DEF Inv, OwnerInv
  <2>2. CASE ~ TakeFunction(k)
    <3>1. routine' = routine /\ tpc'[k] # "run"
      BY <2>2, <1>2 DEF Thread, ReadArgs, StoreHostId, Enter, EnterFails, StoreId,
                        FunctionReturns, ThreadGoes, Inv, TypeOK
    <3>2. QED
      BY <1>1, <3>1 DEF Inv, OwnerInv
  <2>3. QED
    BY <2>1, <2>2
<1>6. \A j \in Keys : tpc'[j] = "store_id" => tcs'[j] # NoId
  <2>1. CASE Enter(k)
    <3>1. tcs'[k] \in Ids /\ \A j \in Keys : j # k => tcs'[j] = tcs[j]
      BY <2>1 DEF Enter, Inv, TypeOK
    <3>2. QED
      BY <1>1, <3>1, IdsAssumption DEF Inv, OwnerInv
  <2>2. CASE ~ Enter(k)
    <3>1. /\ tpc'[k] # "store_id"
          /\ \A j \in Keys : j # k => tcs'[j] = tcs[j]
      BY <2>2 DEF Thread, ReadArgs, StoreHostId, TakeFunction, EnterFails, StoreId,
                  FunctionReturns, ThreadGoes, Inv, TypeOK
    <3>2. QED
      BY <1>1, <3>1 DEF Inv, OwnerInv
  <2>3. QED
    BY <2>1, <2>2
<1>7. okey \in 1 .. next_id \/ ~ (Creating \/ Removing)
  BY DEF Inv, OwnerInv
<1>8. QED
  BY <1>1, <1>2, <1>3, <1>4, <1>5, <1>6, <1>7 DEF Inv, OwnerInv, Creating, Removing

\* The owner's steps of pthread_create and the two maps.
LEMMA MapsStepCreate ==
  ASSUME Inv, CreateCall
  PROVE  HostMapInv' /\ IdMapInv'
<1> USE DEF Inv
<1>0. /\ next_id \in Nat /\ MaxThreads \in Nat /\ next_id <= MaxThreads
      /\ 1 .. next_id \subseteq Keys
      /\ DOMAIN thread_id \subseteq Keys /\ DOMAIN host_id \subseteq Keys
  BY MaxThreadsAssumption, MapType DEF TypeOK, Keys
<1>1. CASE Create
  <2>1. /\ next_id' \in Keys /\ okey' = next_id' /\ opc' = "host_insert" /\ tpc' = tpc
        /\ opc = "idle" /\ next_id' = next_id + 1 /\ UNCHANGED <<host_id, handle>>
        /\ next_id' \notin DOMAIN thread_id
    BY <1>0, <1>1 DEF Create, OwnerGoes, thread, Keys, IdMapInv
  <2>2. /\ DOMAIN thread_id' = DOMAIN thread_id \cup {next_id'}
        /\ thread_id'[next_id'] = NoId
        /\ \A j \in DOMAIN thread_id : thread_id'[j] = thread_id[j]
    <3>1. thread_id' = Put(thread_id, next_id', NoId)
      BY <1>1, <2>1 DEF Create, Insert
    <3>2. QED
      BY <2>1, <3>1 DEF Put
  <2>3. tpc[next_id'] = "none"
    BY <1>0, <2>1 DEF OwnerInv
  <2>4. HostMapInv'
    BY <2>1, <2>2 DEF HostMapInv
  <2>5. IdMapInv'
    BY <1>0, <2>1, <2>2, <2>3 DEF IdMapInv, Stored
  <2>6. QED
    BY <2>4, <2>5
<1>2. CASE HostInsert
  <2>1. /\ opc = "host_insert" /\ opc' = "host_spawn" /\ tpc[okey] = "none"
        /\ okey \in 1 .. next_id
        /\ UNCHANGED <<thread_id, next_id, okey, handle, tpc>>
    BY <1>2 DEF HostInsert, OwnerGoes, thread, OwnerInv, Creating
  <2>2. okey \notin DOMAIN host_id
    BY <2>1 DEF HostMapInv
  <2>3. /\ DOMAIN host_id' = DOMAIN host_id \cup {okey}
        /\ host_id'[okey] = NoId
        /\ \A j \in DOMAIN host_id : host_id'[j] = host_id[j]
    <3>1. host_id' = Put(host_id, okey, NoId)
      BY <1>2, <2>2 DEF HostInsert, Insert
    <3>2. QED
      BY <2>2, <3>1 DEF Put
  <2>4. HostMapInv'
    BY <2>1, <2>3 DEF HostMapInv
  <2>5. IdMapInv'
    BY <2>1 DEF IdMapInv, Creating
  <2>6. QED
    BY <2>4, <2>5
<1>3. CASE HostSpawn
  <2>1. /\ opc = "host_spawn" /\ opc' = "host_wait" /\ tpc[okey] = "none"
        /\ okey \in 1 .. next_id
        /\ UNCHANGED <<thread_id, host_id, next_id, okey, handle>>
    BY <1>3 DEF HostSpawn, OwnerGoes, OwnerInv, Creating
  <2>2. tpc'[okey] = "read_args" /\ \A k \in Keys : k # okey => tpc'[k] = tpc[k]
    BY <1>0, <1>3, <2>1 DEF HostSpawn, TypeOK
  <2>3. HostMapInv'
    BY <1>0, <2>1, <2>2 DEF HostMapInv
  <2>4. IdMapInv'
    BY <1>0, <2>1, <2>2 DEF IdMapInv, Creating, Stored
  <2>5. QED
    BY <2>3, <2>4
<1>4. CASE HostSpawnFails
  BY <1>4 DEF HostSpawnFails, OwnerGoes, thread, HostMapInv, IdMapInv, Creating, Removing
<1>5. CASE HostWait
  <2>1. /\ opc = "host_wait" /\ opc' \in {"enc_wait", "aborted"} /\ host_id[okey] # NoId
        /\ UNCHANGED <<thread_id, host_id, next_id, okey, handle, tpc>>
    BY <1>5 DEF HostWait, thread
  <2>2. QED
    BY <2>1 DEF HostMapInv, IdMapInv, Creating, Removing
<1>6. CASE EncWait
  <2>1. /\ opc = "enc_wait" /\ opc' = "idle" /\ okey \in 1 .. next_id
        /\ UNCHANGED <<thread_id, host_id, next_id, okey, tpc>>
    BY <1>6 DEF EncWait, OwnerGoes, thread, OwnerInv, Creating
  <2>2. okey \in DOMAIN thread_id
    BY <2>1 DEF IdMapInv, Creating
  <2>3. DOMAIN handle' = DOMAIN handle \cup {okey}
    BY <1>6 DEF EncWait, Put
  <2>4. QED
    BY <2>1, <2>2, <2>3 DEF HostMapInv, IdMapInv, Creating, Removing
<1>7. QED
  BY <1>1, <1>2, <1>3, <1>4, <1>5, <1>6 DEF CreateCall


\* The steps of pthread_join and pthread_detach and the two maps.
LEMMA MapsStepRemove ==
  ASSUME Inv, \/ JoinCall \/ DetachCall
              \/ \E h \in Keys : JoinLookup(h) \/ DetachLookup(h)
  PROVE  HostMapInv' /\ IdMapInv'
<1> USE DEF Inv
<1>1. ASSUME NEW h \in Keys, NEW to, to \in {"host_join", "host_detach"}, Lookup(h, to)
      PROVE  HostMapInv' /\ IdMapInv'
  <2>1. /\ opc = "idle" /\ opc' \in {to, "aborted"}
        /\ UNCHANGED <<thread_id, host_id, next_id, tpc>>
    BY <1>1 DEF Lookup, thread
  <2>2. opc' = to => okey' \in DOMAIN thread_id
    BY <1>1 DEF Lookup, KeysOf
  <2>3. DOMAIN handle' \subseteq DOMAIN handle
    BY <1>1 DEF Lookup, Erase
  <2>4. HostMapInv'
    BY <1>1, <2>1 DEF HostMapInv
  <2>5. IdMapInv'
    BY <1>1, <2>1, <2>2, <2>3 DEF IdMapInv, Creating, Removing
  <2>6. QED
    BY <2>4, <2>5
<1>2. ASSUME NEW from, NEW to, from \in {"host_join", "host_detach"},
             to \in {"pthread_join", "detach_erase_host"}, HostLookup(from, to)
      PROVE  HostMapInv' /\ IdMapInv'
  <2>1. /\ opc = from /\ opc' \in {to, "aborted"}
        /\ UNCHANGED <<thread_id, host_id, next_id, tpc, okey, handle>>
    BY <1>2 DEF HostLookup, thread
  <2>2. QED
    BY <1>2, <2>1 DEF HostMapInv, IdMapInv, Creating, Removing
<1>3. CASE PthreadJoin
  BY <1>3 DEF PthreadJoin, OwnerGoes, thread, HostMapInv, IdMapInv, Creating, Removing
<1>4. ASSUME NEW from, NEW to, from \in {"join_erase_host", "detach_erase_host"},
             to \in {"join_erase", "detach_erase"}, EraseHost(from, to)
      PROVE  HostMapInv' /\ IdMapInv'
  <2>1. opc = from /\ opc' = to /\ UNCHANGED <<thread_id, next_id, tpc, okey, handle>>
    BY <1>4 DEF EraseHost, OwnerGoes, thread
  <2>2. /\ DOMAIN host_id' = DOMAIN host_id \ {okey}
        /\ \A j \in DOMAIN host_id' : host_id'[j] = host_id[j]
    BY <1>4 DEF EraseHost, Erase
  <2>3. QED
    BY <1>4, <2>1, <2>2 DEF HostMapInv, IdMapInv, Creating, Removing
<1>5. ASSUME NEW from, from \in {"join_erase", "detach_erase"}, EraseId(from)
      PROVE  HostMapInv' /\ IdMapInv'
  <2>1. opc = from /\ opc' = "idle" /\ UNCHANGED <<host_id, next_id, tpc, okey, handle>>
    BY <1>5 DEF EraseId, OwnerGoes, thread
  <2>2. /\ DOMAIN thread_id' = DOMAIN thread_id \ {okey}
        /\ \A j \in DOMAIN thread_id' : thread_id'[j] = thread_id[j]
    BY <1>5 DEF EraseId, Erase
  <2>3. QED
    BY <1>5, <2>1, <2>2 DEF HostMapInv, IdMapInv, Creating, Removing
<1>6. QED
  BY <1>1, <1>2, <1>3, <1>4, <1>5
  DEF JoinCall, DetachCall, JoinLookup, DetachLookup, HostJoinLookup, HostDetachLookup,
      JoinEraseHost, DetachEraseHost, JoinErase, DetachErase

\* The threads' steps and the two maps.
LEMMA MapsStepThread ==
  ASSUME Inv, NEW k \in Keys, Thread(k)
  PROVE  HostMapInv' /\ IdMapInv'
<1> USE DEF Inv
<1>1. /\ k \in 1 .. next_id
      /\ \A j \in Keys : j # k => tpc'[j] = tpc[j]
      /\ UNCHANGED <<opc, okey, handle, next_id>>
      /\ <<tpc[k], tpc'[k]>> \in
              { <<"read_args", "store_host_id">>, <<"store_host_id", "enter">>,
                <<"enter", "store_id">>, <<"enter", "failed">>, <<"store_id", "take">>,
                <<"take", "run">>, <<"run", "exited">> }
  BY ThreadMoves
<1>2. /\ 1 .. next_id \subseteq Keys
      /\ DOMAIN thread_id \subseteq Keys /\ DOMAIN host_id \subseteq Keys
  BY MaxThreadsAssumption, MapType DEF TypeOK, Keys
<1>3. CASE StoreHostId(k)
  <2>1. tpc[k] = "store_host_id" /\ tpc'[k] = "enter" /\ UNCHANGED thread_id
    BY <1>1, <1>3 DEF StoreHostId, ThreadGoes
  <2>2. /\ DOMAIN host_id' = DOMAIN host_id \cup {k} /\ host_id'[k] = k
        /\ \A j \in DOMAIN host_id : j # k => host_id'[j] = host_id[j]
    BY <1>3 DEF StoreHostId, Put
  <2>3. k # NoId
    BY DEF Keys, NoId
  <2>4. HostMapInv'
    <3>1. \A j \in DOMAIN host_id' :
            IF host_id'[j] = NoId
            THEN /\ j = okey' /\ opc' \in {"host_spawn", "host_wait", "spawn_failed"}
                 /\ tpc'[j] \in {"none", "read_args", "store_host_id"}
            ELSE host_id'[j] = j /\ tpc'[j] \notin {"none", "read_args", "store_host_id"}
      <4> SUFFICES ASSUME NEW j \in DOMAIN host_id', j # k
                   PROVE  IF host_id[j] = NoId
                          THEN /\ j = okey /\ opc \in {"host_spawn", "host_wait", "spawn_failed"}
                               /\ tpc[j] \in {"none", "read_args", "store_host_id"}
                          ELSE host_id[j] = j /\ tpc[j] \notin {"none", "read_args", "store_host_id"}
        BY <1>1, <1>2, <2>1, <2>2, <2>3
      <4>1. QED
        BY <2>2 DEF HostMapInv
    <3>2. QED
      BY <1>1, <2>1, <2>2, <3>1 DEF HostMapInv
  <2>5. IdMapInv'
    BY <1>1, <1>2, <2>1 DEF IdMapInv, Stored, Creating, Removing
  <2>6. QED
    BY <2>4, <2>5
<1>4. CASE StoreId(k)
  <2>1. tpc[k] = "store_id" /\ tpc'[k] = "take" /\ UNCHANGED host_id
    BY <1>1, <1>4 DEF StoreId, ThreadGoes
  <2>2. k \in DOMAIN thread_id /\ k = okey
    BY <1>1, <2>1 DEF OwnerInv, IdMapInv, Stored, Creating
  <2>3. /\ DOMAIN thread_id' = DOMAIN thread_id /\ thread_id'[k] = tcs[k]
        /\ \A j \in DOMAIN thread_id : j # k => thread_id'[j] = thread_id[j]
    BY <1>4, <2>2 DEF StoreId, Put
  <2>4. tcs[k] # NoId
    BY <2>1 DEF OwnerInv
  <2>5. HostMapInv'
    BY <1>1, <1>2, <2>1, <2>3 DEF HostMapInv
  <2>6. IdMapInv'
    BY <1>1, <1>2, <2>1, <2>3, <2>4 DEF IdMapInv, Stored, Creating, Removing
  <2>7. QED
    BY <2>5, <2>6
<1>5. CASE ReadArgs(k) \/ Enter(k) \/ EnterFails(k) \/ TakeFunction(k) \/ FunctionReturns(k)
  <2>1. UNCHANGED <<thread_id, host_id>> /\ tpc[k] # "store_host_id" /\ tpc[k] # "store_id"
    BY <1>5 DEF ReadArgs, Enter, EnterFails, TakeFunction, FunctionReturns, ThreadGoes
  <2>2. HostMapInv'
    BY <1>1, <1>2, <2>1 DEF HostMapInv
  <2>3. IdMapInv'
    BY <1>1, <1>2, <2>1 DEF IdMapInv, Stored, Creating, Removing
  <2>4. QED
    BY <2>2, <2>3
<1>6. QED
  BY <1>3, <1>4, <1>5 DEF Thread


-----------------------------------------------------------------------------
(***************************************************************************)
(* The ids of the handles and those of the map.                             *)
(***************************************************************************)

\* The sets of keys that are counted are finite.
LEMMA FiniteKeys ==
  ASSUME TypeOK, NEW i
  PROVE  IsFiniteSet(Known(i)) /\ IsFiniteSet(Handles(i))
<1>1. Known(i) \subseteq Keys /\ Handles(i) \subseteq Keys
  BY MapType DEF TypeOK, Known, KeysOf, Handles
<1>2. IsFiniteSet(Keys)
  BY MaxThreadsAssumption, FS_Interval DEF Keys
<1>3. QED
  BY <1>1, <1>2, FS_Subset

\* Every step keeps the count of live arguments right.
LEMMA CountStep ==
  ASSUME Inv, CountInv, [Next]_vars
  PROVE  CountInv'
<1> USE DEF Inv
<1> SUFFICES ASSUME NEW i \in Ids
             PROVE  Cardinality(Known(i)') = Cardinality(Handles(i)')
  BY DEF CountInv
<1>0. Cardinality(Known(i)) = Cardinality(Handles(i)) /\ i # NoId
      /\ IsFiniteSet(Known(i)) /\ IsFiniteSet(Handles(i))
  BY FiniteKeys, IdsAssumption DEF CountInv
<1>1. CASE Create
  <2>1. next_id' \notin DOMAIN thread_id
    BY <1>1 DEF Create, IdMapInv, TypeOK
  <2>2. thread_id' = Put(thread_id, next_id', NoId)
    BY <1>1, <2>1 DEF Create, Insert
  <2>3. KeysOf(i)' = KeysOf(i)
    BY <1>0, <2>1, <2>2 DEF KeysOf, Put
  <2>4. Known(i)' = KeysOf(i) /\ Known(i) = KeysOf(i)
    BY <1>1, <2>1, <2>3 DEF Known, KeysOf, Create, OwnerGoes
  <2>5. Handles(i)' = Handles(i)
    BY <1>1 DEF Handles, Create
  <2>6. QED
    BY <1>0, <2>4, <2>5
<1>2. ASSUME opc # "idle", opc' # "idle", UNCHANGED <<okey, handle, thread_id>>
      PROVE  Cardinality(Known(i)') = Cardinality(Handles(i)')
  <2>1. Known(i)' = Known(i) /\ Handles(i)' = Handles(i)
    BY <1>2 DEF Known, KeysOf, Handles
  <2>2. QED
    BY <1>0, <2>1
<1>3. CASE HostInsert \/ HostSpawn \/ HostSpawnFails \/ HostWait
  BY <1>2, <1>3 DEF HostInsert, HostSpawn, HostSpawnFails, HostWait, OwnerGoes
<1>4. CASE EncWait
  <2>1. opc = "enc_wait" /\ opc' = "idle" /\ UNCHANGED <<okey, thread_id>>
        /\ handle' = Put(handle, okey, thread_id[okey])
    BY <1>4 DEF EncWait, OwnerGoes
  <2>2. okey \in DOMAIN thread_id /\ okey \notin DOMAIN handle
    BY <2>1 DEF IdMapInv, Creating
  <2>3. CASE thread_id[okey] = i
    <3>1. Known(i)' = Known(i) \cup {okey} /\ okey \notin Known(i)
      BY <2>1, <2>2, <2>3 DEF Known, KeysOf
    <3>2. Handles(i)' = Handles(i) \cup {okey} /\ okey \notin Handles(i)
      BY <2>1, <2>2, <2>3 DEF Handles, Put
    <3>3. Cardinality(Known(i) \cup {okey}) = Cardinality(Known(i)) + 1
      BY <1>0, <3>1, FS_AddElement
    <3>4. Cardinality(Handles(i) \cup {okey}) = Cardinality(Handles(i)) + 1
      BY <1>0, <3>2, FS_AddElement
    <3>5. QED
      BY <1>0, <3>1, <3>2, <3>3, <3>4
  <2>4. CASE thread_id[okey] # i
    <3>1. Known(i)' = Known(i)
      BY <2>1, <2>2, <2>4 DEF Known, KeysOf
    <3>2. Handles(i)' = Handles(i)
      BY <2>1, <2>2, <2>4 DEF Handles, Put
    <3>3. QED
      BY <1>0, <3>1, <3>2
  <2>5. QED
    BY <2>3, <2>4
<1>5. ASSUME NEW h \in Keys, NEW to, to \in {"host_join", "host_detach"}, Lookup(h, to)
      PROVE  Cardinality(Known(i)') = Cardinality(Handles(i)')
  <2>1. opc = "idle" /\ h \in DOMAIN handle /\ UNCHANGED thread_id
        /\ handle' = Erase(handle, h)
    BY <1>5 DEF Lookup
  <2>2. KeysOf(handle[h]) # {}
    BY <2>1, LookupFinds
  <2>3. okey' \in KeysOf(handle[h]) /\ opc' = to
    BY <1>5, <2>2 DEF Lookup
  <2>4. Known(i) = KeysOf(i) /\ Known(i)' = KeysOf(i) \ {okey'}
    BY <1>5, <2>1, <2>3 DEF Known, KeysOf
  <2>5. Handles(i)' = Handles(i) \ {h}
    BY <2>1 DEF Handles, Erase
  <2>6. CASE handle[h] = i
    <3>1. h \in Handles(i) /\ okey' \in Known(i)
      BY <2>1, <2>3, <2>4, <2>6 DEF Handles
    <3>2. Cardinality(Known(i) \ {okey'}) = Cardinality(Known(i)) - 1
      BY <1>0, <3>1, FS_RemoveElement
    <3>3. Cardinality(Handles(i) \ {h}) = Cardinality(Handles(i)) - 1
      BY <1>0, <3>1, FS_RemoveElement
    <3>4. QED
      BY <1>0, <2>4, <2>5, <3>2, <3>3
  <2>7. CASE handle[h] # i
    <3>1. h \notin Handles(i) /\ okey' \notin Known(i)
      BY <2>3, <2>4, <2>7 DEF Handles, KeysOf
    <3>2. Known(i)' = Known(i) /\ Handles(i)' = Handles(i)
      BY <2>4, <2>5, <3>1
    <3>3. QED
      BY <1>0, <3>2
  <2>8. QED
    BY <2>6, <2>7
<1>6. CASE HostJoinLookup \/ PthreadJoin \/ JoinEraseHost \/ HostDetachLookup \/ DetachEraseHost
  BY <1>2, <1>6 DEF HostJoinLookup, PthreadJoin, JoinEraseHost, HostDetachLookup,
                    DetachEraseHost, HostLookup, EraseHost, OwnerGoes
<1>7. CASE JoinErase \/ DetachErase
  <2>1. opc # "idle" /\ opc' = "idle" /\ UNCHANGED <<okey, handle>>
        /\ thread_id' = Erase(thread_id, okey)
    BY <1>7 DEF JoinErase, DetachErase, EraseId, OwnerGoes
  <2>2. Known(i)' = Known(i)
    BY <2>1 DEF Known, KeysOf, Erase
  <2>3. Handles(i)' = Handles(i)
    BY <2>1 DEF Handles
  <2>4. QED
    BY <1>0, <2>2, <2>3
<1>8. ASSUME UNCHANGED <<opc, okey, handle, thread_id>>
      PROVE  Cardinality(Known(i)') = Cardinality(Handles(i)')
  <2>1. Known(i)' = Known(i) /\ Handles(i)' = Handles(i)
    BY <1>8 DEF Known, KeysOf, Handles
  <2>2. QED
    BY <1>0, <2>1
<1>9. ASSUME NEW k \in Keys, StoreId(k)
      PROVE  Cardinality(Known(i)') = Cardinality(Handles(i)')
  <2>1. tpc[k] = "store_id" /\ thread_id' = Put(thread_id, k, tcs[k])
        /\ UNCHANGED <<opc, okey, handle>>
    BY <1>9 DEF StoreId, ThreadGoes, owner
  <2>2. k \in 1 .. next_id
    BY <1>9, ThreadMoves DEF Thread
  <2>3. k = okey /\ opc # "idle"
    BY <2>1, <2>2 DEF OwnerInv, Stored
  <2>4. Known(i)' = Known(i)
    BY <2>1, <2>3 DEF Known, KeysOf, Put
  <2>5. Handles(i)' = Handles(i)
    BY <2>1 DEF Handles
  <2>6. QED
    BY <1>0, <2>4, <2>5
<1>10. ASSUME NEW k \in Keys, Thread(k)
       PROVE  Cardinality(Known(i)') = Cardinality(Handles(i)')
  <2>1. CASE StoreId(k)
    BY <1>9, <2>1
  <2>2. CASE ~ StoreId(k)
    <3>1. UNCHANGED thread_id
      BY <1>10, <2>2 DEF Thread, ReadArgs, StoreHostId, Enter, EnterFails, TakeFunction,
                         FunctionReturns
    <3>2. QED
      BY <1>8, <1>10, <3>1, ThreadMoves
  <2>3. QED
    BY <2>1, <2>2
<1>11. CASE UNCHANGED vars
  BY <1>8, <1>11 DEF vars
<1>12. QED
  BY <1>1, <1>3, <1>4, <1>5, <1>6, <1>7, <1>10, <1>11
  DEF Next, CreateCall, JoinCall, DetachCall, JoinLookup, DetachLookup


-----------------------------------------------------------------------------
(***************************************************************************)
(* The theorems about the owner's calls.                                    *)
(***************************************************************************)

\* At first there is nothing to count.
LEMMA InitCount == Init => CountInv
<1> SUFFICES ASSUME Init, NEW i \in Ids
             PROVE  Cardinality(Known(i)) = Cardinality(Handles(i))
  BY DEF CountInv
<1>1. Known(i) = {} /\ Handles(i) = {}
  BY DEF Init, Known, KeysOf, Handles
<1>2. QED
  BY <1>1

\* Every step of the owner or of a thread keeps the whole invariant.
LEMMA CallStep ==
  ASSUME Inv, CountInv, [Next]_vars
  PROVE  Inv' /\ CountInv'
<1>1. TypeOK' /\ CountInv'
  BY TypeStep, CountStep
<1>2. CASE UNCHANGED vars
  <2>1. OwnerInv'
    BY <1>2 DEF vars, Inv, OwnerInv, Creating, Removing
  <2>2. HostMapInv' /\ IdMapInv'
    BY <1>2 DEF vars, Inv, HostMapInv, IdMapInv, Creating, Removing
  <2>3. QED
    BY <1>1, <2>1, <2>2 DEF Inv
<1>3. CASE CreateCall
  BY <1>1, <1>3, OwnerStepOwner, MapsStepCreate DEF Inv
<1>4. CASE JoinCall \/ DetachCall \/ \E h \in Keys : JoinLookup(h) \/ DetachLookup(h)
  BY <1>1, <1>4, OwnerStepOwner, MapsStepRemove DEF Inv
<1>5. ASSUME NEW k \in Keys, Thread(k)
      PROVE  Inv' /\ CountInv'
  BY <1>1, <1>5, OwnerStepThread, MapsStepThread DEF Inv
<1>6. QED
  BY <1>2, <1>3, <1>4, <1>5 DEF Next

\* The two maps, the owner and the threads agree, in every reachable state.
LEMMA CallInvariant == Spec => [](Inv /\ CountInv)
<1>1. Init => Inv /\ CountInv
  BY InitInv, InitCount
<1>2. Inv /\ CountInv /\ [Next]_vars => Inv' /\ CountInv'
  BY CallStep
<1>3. QED
  BY <1>1, <1>2, PTL DEF Spec

\* Every variable keeps its type; in particular a lookup that succeeds gives the
\* owner the key of a thread it has created.
THEOREM TypeCorrect == Spec => []TypeOK
<1>1. Inv => TypeOK
  BY DEF Inv
<1>2. QED
  BY <1>1, CallInvariant, PTL

\* host_enclave_thread reads its arguments while host_create_thread, whose local
\* variable they are, has not returned.
THEOREM ArgumentsOutliveTheirReader == Spec => []ArgsAlive
<1>1. ASSUME Inv, NEW k \in Keys, tpc[k] = "read_args"
      PROVE  opc = "host_wait" /\ okey = k
  <2>1. k \in 1 .. next_id
    BY <1>1 DEF Inv, TypeOK, OwnerInv, Keys
  <2>2. QED
    BY <1>1, <2>1 DEF Inv, OwnerInv, Stored
<1>2. Inv => ArgsAlive
  BY <1>1 DEF ArgsAlive
<1>3. QED
  BY <1>2, CallInvariant, PTL

\* No lookup of pthread_join or pthread_detach, in the enclave or on the host,
\* and no check of host_create_thread ends in abort(), for any number of
\* threads, whatever thread control structures they share one after the other.
THEOREM CallsDoNotAbort == Spec => []NeverAborts
<1>1. Inv => NeverAborts
  BY DEF Inv, OwnerInv, NeverAborts
<1>2. QED
  BY <1>1, CallInvariant, PTL


-----------------------------------------------------------------------------
(***************************************************************************)
(* The stack of routines.                                                   *)
(***************************************************************************)

\* A step that leaves the stack alone and lets no thread take or end a routine.
LEMMA RoutineQuiet ==
  ASSUME Inv, RoutineInv, UNCHANGED <<thread_functions, next_id, routine, finished>>,
         \A k \in Keys : tpc'[k] = tpc[k] \/ {tpc[k], tpc'[k]} \cap {"run", "exited"} = {}
  PROVE  RoutineInv'
<1>1. \A k \in Keys : /\ tpc'[k] \in {"run", "exited"} <=> tpc[k] \in {"run", "exited"}
                      /\ tpc'[k] = "exited" <=> tpc[k] = "exited"
  <2> SUFFICES ASSUME NEW k \in Keys
               PROVE  /\ tpc'[k] \in {"run", "exited"} <=> tpc[k] \in {"run", "exited"}
                      /\ tpc'[k] = "exited" <=> tpc[k] = "exited"
    OBVIOUS
  <2>1. CASE tpc'[k] = tpc[k]
    BY <2>1
  <2>2. CASE {tpc[k], tpc'[k]} \cap {"run", "exited"} = {}
    BY <2>2
  <2>3. QED
    BY <2>1, <2>2
<1>2. 1 .. next_id \subseteq Keys
  BY MaxThreadsAssumption DEF Inv, TypeOK, Keys
<1>3. Waiting' = Waiting
  BY <1>1, <1>2 DEF Waiting
<1>4. Distinct' /\ OnStack' /\ Accounted' /\ OneEach'
  BY <1>3 DEF RoutineInv, Distinct, OnStack, Accounted, OneEach
<1>5. Taken' /\ Returned'
  BY <1>1 DEF RoutineInv, Taken, Returned
<1>6. QED
  BY <1>4, <1>5 DEF RoutineInv

\* The threads that wait for a routine are finitely many.
LEMMA FiniteWaiting ==
  ASSUME Inv
  PROVE  IsFiniteSet(Waiting)
<1>1. Waiting \subseteq Keys
  BY MaxThreadsAssumption DEF Waiting, Inv, TypeOK, Keys
<1>2. IsFiniteSet(Keys)
  BY MaxThreadsAssumption, FS_Interval DEF Keys
<1>3. QED
  BY <1>1, <1>2, FS_Subset

\* create() queues one routine, for one more thread.
LEMMA RoutineCreate ==
  ASSUME Inv, RoutineInv, Create
  PROVE  RoutineInv'
<1> DEFINE n == Len(thread_functions)
<1>1. /\ next_id \in Nat /\ next_id' = next_id + 1 /\ next_id' \in Keys
      /\ UNCHANGED <<tpc, routine, finished>>
      /\ thread_functions' = Append(thread_functions, next_id')
  BY MaxThreadsAssumption DEF Create, Inv, TypeOK, thread, Keys
<1>2. thread_functions \in Seq(Keys) /\ n \in Nat
  BY DEF Inv, TypeOK
<1>3. /\ Len(thread_functions') = n + 1 /\ thread_functions'[n + 1] = next_id + 1
      /\ \A i \in 1 .. n : thread_functions'[i] = thread_functions[i]
  BY <1>1, <1>2
<1>4. /\ tpc[next_id + 1] = "none"
      /\ \A i \in 1 .. n : thread_functions[i] \in 1 .. next_id
      /\ \A k \in Keys : routine[k] \in 0 .. next_id
  <2>1. tpc[next_id + 1] = "none"
    BY <1>1 DEF Inv, OwnerInv
  <2>2. QED
    BY <2>1 DEF RoutineInv, OnStack, Taken
<1>5. Distinct'
  BY <1>1, <1>2, <1>3, <1>4 DEF RoutineInv, Distinct
<1>6. OnStack'
  BY <1>1, <1>2, <1>3, <1>4 DEF RoutineInv, OnStack
<1>7. Accounted'
  <2> SUFFICES ASSUME NEW r \in 1 .. next_id'
               PROVE  \/ \E i \in 1 .. n + 1 : thread_functions'[i] = r
                      \/ \E k \in Keys : routine'[k] = r
    BY <1>3 DEF Accounted
  <2>1. CASE r = next_id + 1
    BY <1>2, <1>3, <2>1
  <2>2. CASE r \in 1 .. next_id
    <3>1. \/ \E i \in 1 .. n : thread_functions[i] = r
          \/ \E k \in Keys : routine[k] = r
      BY <2>2 DEF RoutineInv, Accounted
    <3>2. QED
      BY <1>1, <1>2, <1>3, <3>1
  <2>3. QED
    BY <1>1, <2>1, <2>2
<1>8. OneEach'
  <2>1. Waiting' = Waiting \cup {next_id + 1} /\ (next_id + 1) \notin Waiting
    BY <1>1, <1>4 DEF Waiting
  <2>2. Cardinality(Waiting \cup {next_id + 1}) = Cardinality(Waiting) + 1
    BY <2>1, FiniteWaiting, FS_AddElement
  <2>3. QED
    BY <1>3, <2>1, <2>2 DEF RoutineInv, OneEach
<1>9. Taken' /\ Returned'
  BY <1>1, <1>4 DEF RoutineInv, Taken, Returned
<1>10. QED
  BY <1>5, <1>6, <1>7, <1>8, <1>9 DEF RoutineInv

\* pop_back.
LEMMA PopBack ==
  ASSUME NEW S, NEW q \in Seq(S), Len(q) # 0
  PROVE  /\ Len(pop_back(q)) = Len(q) - 1
         /\ \A i \in 1 .. Len(q) - 1 : pop_back(q)[i] = q[i]
<1>1. pop_back(q) = SubSeq(q, 1, Len(q) - 1)
  BY DEF pop_back
<1>2. Len(q) \in Nat /\ Len(q) - 1 \in Nat
  OBVIOUS
<1>3. SubSeq(q, 1, Len(q) - 1) = [i \in 1 .. Len(q) - 1 |-> q[i]]
  BY <1>2
<1>4. Len(SubSeq(q, 1, Len(q) - 1)) = Len(q) - 1
  BY <1>2
<1>5. QED
  BY <1>1, <1>3, <1>4

\* A thread takes the last routine of the queue, and nobody has it.
LEMMA RoutineTake ==
  ASSUME Inv, RoutineInv, NEW k \in Keys, TakeFunction(k)
  PROVE  RoutineInv'
<1> DEFINE n == Len(thread_functions)
           r == thread_functions[n]
<1>1. thread_functions \in Seq(Keys) /\ n \in Nat \ {0} /\ next_id \in Nat
  BY DEF Inv, TypeOK, TakeFunction
<1>2. back(thread_functions) = r
  BY DEF back
<1>3. /\ Len(pop_back(thread_functions)) = n - 1
      /\ \A i \in 1 .. n - 1 : pop_back(thread_functions)[i] = thread_functions[i]
  BY <1>1, PopBack
<1>4. /\ tpc[k] = "take" /\ tpc'[k] = "run"
      /\ \A j \in Keys : j # k => tpc'[j] = tpc[j]
      /\ routine'[k] = r /\ \A j \in Keys : j # k => routine'[j] = routine[j]
      /\ UNCHANGED <<next_id, finished>>
      /\ thread_functions' = pop_back(thread_functions)
  BY <1>2 DEF TakeFunction, ThreadGoes, Inv, TypeOK
<1>5. /\ r \in 1 .. next_id /\ \A j \in Keys : routine[j] # r
      /\ \A i \in 1 .. n - 1 : thread_functions[i] # r
      /\ routine[k] = 0
  <2>1. n \in 1 .. n /\ \A i \in 1 .. n - 1 : i \in 1 .. n /\ i # n
    BY <1>1
  <2>2. r \in 1 .. next_id /\ \A j \in Keys : routine[j] # r
    BY <2>1 DEF RoutineInv, OnStack
  <2>3. \A i \in 1 .. n - 1 : thread_functions[i] # r
    BY <2>1 DEF RoutineInv, Distinct
  <2>4. routine[k] = 0
    BY <1>4 DEF RoutineInv, Taken
  <2>5. QED
    BY <2>2, <2>3, <2>4
<1>6. Distinct'
  <2> SUFFICES ASSUME NEW i \in 1 .. n - 1, NEW j \in 1 .. n - 1, i # j
               PROVE  thread_functions[i] # thread_functions[j]
    BY <1>3, <1>4 DEF Distinct
  <2>1. i \in 1 .. n /\ j \in 1 .. n
    BY <1>1
  <2>2. QED
    BY <2>1 DEF RoutineInv, Distinct
<1>7. OnStack'
  <2> SUFFICES ASSUME NEW i \in 1 .. n - 1
               PROVE  /\ thread_functions[i] \in 1 .. next_id
                      /\ \A j \in Keys : routine'[j] # thread_functions[i]
    BY <1>3, <1>4 DEF OnStack
  <2>1. i \in 1 .. n
    BY <1>1
  <2>2. /\ thread_functions[i] \in 1 .. next_id
        /\ \A j \in Keys : routine[j] # thread_functions[i]
    BY <2>1 DEF RoutineInv, OnStack
  <2>3. QED
    BY <1>4, <1>5, <2>2
<1>8. Taken' /\ Returned'
  <2>1. r \in 0 .. next_id /\ r # 0
    BY <1>1, <1>5
  <2>2. Taken'
    BY <1>4, <1>5, <2>1 DEF RoutineInv, Taken
  <2>3. Returned'
    BY <1>4 DEF RoutineInv, Returned
  <2>4. QED
    BY <2>2, <2>3
<1>9. Accounted'
  <2> SUFFICES ASSUME NEW q \in 1 .. next_id
               PROVE  \/ \E i \in 1 .. n - 1 : thread_functions'[i] = q
                      \/ \E j \in Keys : routine'[j] = q
    BY <1>3, <1>4 DEF Accounted
  <2>1. CASE \E i \in 1 .. n : thread_functions[i] = q
    <3>1. PICK i \in 1 .. n : thread_functions[i] = q
      BY <2>1
    <3>2. CASE i = n
      BY <1>4, <3>1, <3>2
    <3>3. CASE i \in 1 .. n - 1
      BY <1>3, <1>4, <3>1, <3>3
    <3>4. QED
      BY <1>1, <3>2, <3>3
  <2>2. CASE \E j \in Keys : routine[j] = q
    <3>1. PICK j \in Keys : routine[j] = q
      BY <2>2
    <3>2. j # k
      BY <1>5, <3>1
    <3>3. QED
      BY <1>4, <3>1, <3>2
  <2>3. QED
    BY <2>1, <2>2 DEF RoutineInv, Accounted
<1>10. OneEach'
  <2>1. k \in 1 .. next_id /\ 1 .. next_id \subseteq Keys
    BY ThreadMoves, MaxThreadsAssumption, SMTT(60) DEF Thread, Inv, TypeOK, Keys
  <2>2. Waiting' = Waiting \ {k} /\ k \in Waiting
    BY <1>4, <2>1 DEF Waiting
  <2>3. Cardinality(Waiting \ {k}) = Cardinality(Waiting) - 1
    BY <2>2, FiniteWaiting, FS_RemoveElement
  <2>4. QED
    BY <1>3, <1>4, <2>2, <2>3 DEF RoutineInv, OneEach
<1>11. QED
  BY <1>6, <1>7, <1>8, <1>9, <1>10 DEF RoutineInv

\* A routine that returns has run.
LEMMA RoutineReturns ==
  ASSUME Inv, RoutineInv, NEW k \in Keys, FunctionReturns(k)
  PROVE  RoutineInv'
<1>1. /\ tpc[k] = "run" /\ tpc'[k] = "exited"
      /\ \A j \in Keys : j # k => tpc'[j] = tpc[j]
      /\ finished' = finished \cup {routine[k]}
      /\ UNCHANGED <<thread_functions, next_id, routine>>
  BY DEF FunctionReturns, ThreadGoes, Inv, TypeOK
<1>2. 1 .. next_id \subseteq Keys /\ next_id \in Nat
  BY MaxThreadsAssumption, SMTT(60) DEF Inv, TypeOK, Keys
<1>3. routine[k] \in 1 .. next_id
  BY <1>1, <1>2 DEF RoutineInv, Taken
<1>4. Waiting' = Waiting
  BY <1>1, <1>2 DEF Waiting
<1>5. \A j \in Keys : tpc'[j] \in {"run", "exited"} <=> tpc[j] \in {"run", "exited"}
  BY <1>1
<1>6. /\ Taken'
      /\ Returned'
      /\ Distinct' /\ OnStack' /\ Accounted' /\ OneEach'
  <2>1. Taken'
    BY <1>1, <1>5 DEF RoutineInv, Taken
  <2>2. Returned'
    BY <1>1, <1>3 DEF RoutineInv, Returned
  <2>3. Distinct' /\ OnStack' /\ Accounted' /\ OneEach'
    BY <1>1, <1>4 DEF RoutineInv, Distinct, OnStack, Accounted, OneEach
  <2>4. QED
    BY <2>1, <2>2, <2>3
<1>7. QED
  BY <1>6 DEF RoutineInv


\* Whatever happens, routines are neither lost nor run twice.
LEMMA RoutineStep ==
  ASSUME Inv, RoutineInv, [Next]_vars
  PROVE  RoutineInv'
<1>1. CASE Create
  BY <1>1, RoutineCreate
<1>2. CASE HostSpawn
  <2>1. tpc[okey] = "none"
    BY <1>2 DEF HostSpawn, OwnerGoes, Inv, OwnerInv
  <2>2. \A k \in Keys : tpc'[k] = tpc[k] \/ (tpc[k] = "none" /\ tpc'[k] = "read_args")
    BY <1>2, <2>1 DEF HostSpawn, Inv, TypeOK
  <2>3. \A k \in Keys : tpc'[k] = tpc[k] \/ {tpc[k], tpc'[k]} \cap {"run", "exited"} = {}
    BY <2>2
  <2>4. QED
    BY <1>2, <2>3, RoutineQuiet DEF HostSpawn
<1>3. ASSUME UNCHANGED <<thread_functions, next_id, thread>>
      PROVE  RoutineInv'
  BY <1>3, RoutineQuiet DEF thread
<1>4. CASE HostInsert \/ HostSpawnFails \/ HostWait \/ EncWait
  BY <1>3, <1>4 DEF HostInsert, HostSpawnFails, HostWait, EncWait
<1>5. CASE JoinCall \/ DetachCall \/ \E h \in Keys : JoinLookup(h) \/ DetachLookup(h)
  BY <1>3, <1>5 DEF JoinCall, DetachCall, JoinLookup, DetachLookup, HostJoinLookup,
       HostDetachLookup, PthreadJoin, JoinEraseHost, DetachEraseHost, JoinErase, DetachErase,
       Lookup, HostLookup, EraseHost, EraseId
<1>6. ASSUME NEW k \in Keys,
             ReadArgs(k) \/ StoreHostId(k) \/ Enter(k) \/ EnterFails(k) \/ StoreId(k)
      PROVE  RoutineInv'
  <2>1. UNCHANGED <<thread_functions, next_id, routine, finished>>
    BY <1>6 DEF ReadArgs, StoreHostId, Enter, EnterFails, StoreId
  <2>2. /\ tpc[k] \notin {"run", "exited"} /\ tpc'[k] \notin {"run", "exited"}
        /\ \A j \in Keys : j # k => tpc'[j] = tpc[j]
    BY <1>6 DEF ReadArgs, StoreHostId, Enter, EnterFails, StoreId, ThreadGoes, Inv, TypeOK
  <2>3. \A j \in Keys : tpc'[j] = tpc[j] \/ {tpc[j], tpc'[j]} \cap {"run", "exited"} = {}
    BY <2>2
  <2>4. QED
    BY <2>1, <2>3, RoutineQuiet
<1>7. ASSUME NEW k \in Keys, Thread(k)
      PROVE  RoutineInv'
  BY <1>6, <1>7, RoutineTake, RoutineReturns DEF Thread
<1>8. CASE UNCHANGED vars
  BY <1>3, <1>8 DEF vars, thread
<1>9. QED
  BY <1>1, <1>2, <1>4, <1>5, <1>7, <1>8 DEF Next, CreateCall

\* At first no routine is queued.
LEMMA InitRoutine == Init => RoutineInv
<1> SUFFICES ASSUME Init
             PROVE  RoutineInv
  OBVIOUS
<1>1. Waiting = {}
  BY DEF Waiting, Init
<1>2. Cardinality(Waiting) = 0
  BY <1>1, FS_EmptySet
<1>3. Len(thread_functions) = 0
  BY DEF Init
<1>4. QED
  BY <1>2, <1>3 DEF Init, RoutineInv, Distinct, OnStack, Taken, Accounted, Returned, OneEach

\* Every routine is queued or with one thread, in every reachable state.
LEMMA RoutineInvariant == Spec => []RoutineInv
<1>1. Inv /\ RoutineInv /\ [Next]_vars => RoutineInv'
  BY RoutineStep
<1>2. QED
  BY <1>1, InitRoutine, CallInvariant, PTL DEF Spec

\* A thread that is about to take a routine finds one on the stack, and no two
\* threads ever get the same routine, for any number of threads.
THEOREM NoRoutineRunsTwice == Spec => []RoutinesTakenOnce
<1>1. ASSUME Inv, RoutineInv, NEW k \in Keys, tpc[k] = "take"
      PROVE  thread_functions # <<>>
  <2>1. k \in 1 .. next_id
    BY <1>1 DEF Inv, TypeOK, OwnerInv, Keys
  <2>2. k \in Waiting
    BY <1>1, <2>1 DEF Waiting
  <2>3. Cardinality(Waiting) # 0
    BY <1>1, <2>2, FiniteWaiting, FS_EmptySet
  <2>4. Len(thread_functions) # 0
    BY <1>1, <2>3 DEF RoutineInv, OneEach
  <2>5. QED
    BY <2>4
<1>2. Inv /\ RoutineInv => RoutinesTakenOnce
  BY <1>1 DEF RoutinesTakenOnce, RoutineInv, Taken
<1>3. QED
  BY <1>2, CallInvariant, RoutineInvariant, PTL


-----------------------------------------------------------------------------
(***************************************************************************)
(* The pool that has joined its threads.                                    *)
(***************************************************************************)

\* A step that changes neither the owner's point nor its key, keeps the entries
\* and lets no thread that has ended go on.
LEMMA JoinQuiet ==
  ASSUME Inv, JoinInv, UNCHANGED <<opc, okey, detached, next_id>>,
         DOMAIN thread_id \subseteq DOMAIN thread_id',
         \A k \in Keys : tpc[k] = "exited" => tpc'[k] = "exited"
  PROVE  JoinInv'
<1>1. 1 .. next_id \subseteq Keys
  BY MaxThreadsAssumption, SMTT(60) DEF Inv, TypeOK, Keys
<1>2. opc \in {"join_erase_host", "join_erase"} => okey \in Keys
  BY <1>1 DEF Inv, OwnerInv, Removing
<1>3. QED
  BY <1>1, <1>2 DEF JoinInv

\* Every step keeps track of the threads that were joined.
LEMMA JoinStep ==
  ASSUME Inv, CountInv, JoinInv, [Next]_vars
  PROVE  JoinInv'
<1> USE DEF Inv
<1>0. 1 .. next_id \subseteq Keys /\ next_id \in Nat
  BY MaxThreadsAssumption DEF TypeOK, Keys
<1>1. CASE Create
  <2>1. /\ opc' = "host_insert" /\ next_id' = next_id + 1 /\ UNCHANGED <<tpc, detached>>
        /\ DOMAIN thread_id' = DOMAIN thread_id \cup {next_id'}
    BY <1>1 DEF Create, OwnerGoes, thread, Insert, Put
  <2>2. QED
    BY <1>0, <2>1 DEF JoinInv
<1>2. CASE HostInsert \/ HostSpawnFails \/ HostWait \/ EncWait
  <2>1. /\ opc' \in {"host_spawn", "spawn_failed", "enc_wait", "aborted", "idle"}
        /\ UNCHANGED <<tpc, detached, thread_id, next_id>>
    BY <1>2 DEF HostInsert, HostSpawnFails, HostWait, EncWait, OwnerGoes, thread
  <2>2. QED
    BY <2>1 DEF JoinInv
<1>3. CASE HostSpawn
  <2>1. tpc[okey] = "none" /\ opc' = "host_wait" /\ UNCHANGED <<detached, thread_id, next_id>>
    BY <1>3 DEF HostSpawn, OwnerGoes, OwnerInv
  <2>2. \A k \in Keys : tpc[k] = "exited" => tpc'[k] = "exited"
    BY <1>3, <2>1 DEF HostSpawn, TypeOK
  <2>3. QED
    BY <1>0, <2>1, <2>2 DEF JoinInv
<1>4. CASE \E h \in Keys : JoinLookup(h) \/ DetachLookup(h)
  <2>1. /\ opc' \in {"host_join", "host_detach", "aborted"}
        /\ opc' = "host_detach" => detached'
        /\ detached => detached'
        /\ UNCHANGED <<tpc, thread_id, next_id>>
    BY <1>4 DEF JoinLookup, DetachLookup, Lookup, thread
  <2>2. QED
    BY <2>1 DEF JoinInv
<1>5. CASE HostJoinLookup \/ HostDetachLookup
  <2>1. /\ opc' \in {"pthread_join", "detach_erase_host", "aborted"}
        /\ opc' = "detach_erase_host" => opc = "host_detach"
        /\ UNCHANGED <<tpc, detached, thread_id, next_id>>
    BY <1>5 DEF HostJoinLookup, HostDetachLookup, HostLookup, thread
  <2>2. QED
    BY <2>1 DEF JoinInv
<1>6. CASE PthreadJoin
  <2>1. /\ opc = "pthread_join" /\ opc' = "join_erase_host"
        /\ tpc[host_id[okey]] \in {"exited", "failed"}
        /\ UNCHANGED <<tpc, okey, detached, thread_id, next_id>>
    BY <1>6 DEF PthreadJoin, OwnerGoes, thread
  <2>2. okey \in DOMAIN thread_id /\ okey \in 1 .. next_id
    BY <2>1 DEF IdMapInv, OwnerInv, Removing
  <2>3. okey \in DOMAIN host_id /\ host_id[okey] = okey
    BY <2>1, <2>2 DEF HostMapInv
  <2>4. tpc[okey] \in Stored
    BY <2>1, <2>2, AllStored DEF Creating
  <2>5. tpc[okey] = "exited"
    BY <2>1, <2>3, <2>4 DEF Stored
  <2>6. QED
    BY <2>1, <2>5 DEF JoinInv
<1>7. CASE JoinEraseHost \/ DetachEraseHost
  <2>1. /\ opc' \in {"join_erase", "detach_erase"}
        /\ opc' = "join_erase" => opc = "join_erase_host"
        /\ opc' = "detach_erase" => opc = "detach_erase_host"
        /\ UNCHANGED <<tpc, okey, detached, thread_id, next_id>>
    BY <1>7 DEF JoinEraseHost, DetachEraseHost, EraseHost, OwnerGoes, thread
  <2>2. QED
    BY <2>1 DEF JoinInv
<1>8. CASE JoinErase \/ DetachErase
  <2>1. /\ opc \in {"join_erase", "detach_erase"} /\ opc' = "idle"
        /\ UNCHANGED <<tpc, okey, detached, next_id>>
        /\ DOMAIN thread_id' = DOMAIN thread_id \ {okey}
    BY <1>8 DEF JoinErase, DetachErase, EraseId, OwnerGoes, thread, Erase
  <2>2. QED
    BY <2>1 DEF JoinInv
<1>9. ASSUME NEW k \in Keys, Thread(k)
      PROVE  JoinInv'
  <2>1. \A j \in Keys : tpc[j] = "exited" => tpc'[j] = "exited"
    BY <1>9, ThreadMoves
  <2>2. DOMAIN thread_id \subseteq DOMAIN thread_id'
    <3>1. UNCHANGED thread_id \/ thread_id' = Put(thread_id, k, tcs[k])
      BY <1>9 DEF Thread, ReadArgs, StoreHostId, Enter, EnterFails, StoreId, TakeFunction,
                  FunctionReturns
    <3>2. QED
      BY <3>1 DEF Put
  <2>3. UNCHANGED <<opc, okey, detached, next_id>>
    BY <1>9, ThreadMoves
  <2>4. QED
    BY <2>1, <2>2, <2>3, JoinQuiet
<1>10. CASE UNCHANGED vars
  BY <1>10 DEF vars, JoinInv
<1>11. QED
  BY <1>1, <1>2, <1>3, <1>4, <1>5, <1>6, <1>7, <1>8, <1>9, <1>10
  DEF Next, CreateCall, JoinCall, DetachCall

\* What was joined has exited, in every reachable state.
LEMMA JoinInvariant == Spec => []JoinInv
<1>1. Init => JoinInv
  BY DEF Init, JoinInv
<1>2. Inv /\ CountInv /\ JoinInv /\ [Next]_vars => JoinInv'
  BY JoinStep
<1>3. QED
  BY <1>1, <1>2, CallInvariant, PTL DEF Spec

\* Once the pool has joined every handle it was given, all of its routines have
\* returned, although neither the threads the joins waited for nor the threads
\* that ran the routines need be the ones the pool meant.
THEOREM JoinedPoolHasStopped == Spec => []PoolHasStopped
<1>1. ASSUME Inv, CountInv, JoinInv, RoutineInv, opc = "idle", handle = <<>>, ~ detached
      PROVE  finished = 1 .. next_id
  <2>1. \A k \in 1 .. next_id : k \in Keys /\ tpc[k] \in Stored
    BY <1>1, AllStored DEF Creating
  <2>2. DOMAIN thread_id = {}
    <3>1. SUFFICES ASSUME NEW k \in DOMAIN thread_id
                   PROVE  FALSE
      OBVIOUS
    <3>2. thread_id[k] # NoId
      BY <1>1, <2>1 DEF Inv, IdMapInv
    <3>3. thread_id[k] \in Ids
      BY <1>1, <3>2, MapType DEF Inv, TypeOK
    <3>4. Handles(thread_id[k]) = {}
      BY <1>1 DEF Handles
    <3>5. Cardinality(Handles(thread_id[k])) = 0
      BY <3>4, FS_EmptySet
    <3>6. Cardinality(Known(thread_id[k])) = 0
      BY <1>1, <3>3, <3>5 DEF CountInv
    <3>7. IsFiniteSet(Known(thread_id[k]))
      BY <1>1, FiniteKeys DEF Inv
    <3>8. Known(thread_id[k]) = {}
      BY <3>6, <3>7, FS_EmptySet
    <3>9. k \in Known(thread_id[k])
      BY <1>1 DEF Known, KeysOf
    <3>10. QED
      BY <3>8, <3>9
  <2>3. \A k \in 1 .. next_id : tpc[k] = "exited"
    BY <1>1, <2>2 DEF JoinInv
  <2>4. Waiting = {}
    BY <2>3 DEF Waiting
  <2>5. Len(thread_functions) = 0
    BY <1>1, <2>4, FS_EmptySet DEF RoutineInv, OneEach
  <2>6. ASSUME NEW r \in 1 .. next_id
        PROVE  r \in finished
    <3>1. PICK k \in Keys : routine[k] = r
      BY <1>1, <2>5 DEF RoutineInv, Accounted
    <3>2. tpc[k] \in {"run", "exited"}
      BY <1>1, <3>1 DEF RoutineInv, Taken
    <3>3. k \in 1 .. next_id
      BY <1>1, <3>2 DEF Inv, TypeOK, OwnerInv, Keys
    <3>4. QED
      BY <1>1, <2>3, <3>1, <3>3 DEF RoutineInv, Returned
  <2>7. QED
    BY <1>1, <2>6 DEF RoutineInv, Returned
<1>2. Inv /\ CountInv /\ JoinInv /\ RoutineInv => PoolHasStopped
  BY <1>1 DEF PoolHasStopped
<1>3. QED
  BY <1>2, CallInvariant, JoinInvariant, RoutineInvariant, PTL

=============================================================================
