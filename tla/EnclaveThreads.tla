-------------------------- MODULE EnclaveThreads --------------------------
(***************************************************************************)
(* Threads inside the enclave: the pthread hooks of enclave/threading.cc   *)
(* and the host calls of host/threading.cc that they make.                 *)
(*                                                                         *)
(* A new thread is known by its enc_key.  The enclave maps enc_keys to     *)
(* enclave thread ids (pthread_self() inside the enclave, which names the  *)
(* thread control structure the thread entered on and is used again by the *)
(* next thread on it), the host maps them to host threads.  The routine a  *)
(* thread should run is named by the enc_key it was created with.          *)
(*                                                                         *)
(* Owner is the code that creates threads and joins or detaches them, one  *)
(* call at a time: a thread pool.  The _thread_args array is written but   *)
(* never read and is left out; it has room for MAX_ENC_KEYS, that is four, *)
(* threads, and what the writes of a fifth one do is not modelled.         *)
(***************************************************************************)
EXTENDS Integers, FiniteSets, Sequences

CONSTANTS
  MaxThreads,   \* bound: how many threads the owner creates
  Ids           \* free thread control structures

ASSUME MaxThreadsAssumption == MaxThreads \in Nat \ {0}

\* In the maps: there is an entry, and no thread has stored its id yet.
NoId == 0
ASSUME IdsAssumption == NoId \notin Ids

Keys == 1..MaxThreads

VARIABLES
  thread_functions,  \* _thread_functions
  next_id,           \* _next_enc_thread_id
  thread_id,         \* _key_to_thread_id_map
  host_id,           \* _enclave_host_id_map; a host thread is named by its key
  opc, okey,         \* where the owner is, and the enc_key it works on
  handle,            \* pthread_t of the threads the owner has yet to join or detach
  detached,          \* history: the owner has detached a thread
  tpc,               \* where each new thread is
  tcs,               \* the control structure it entered the enclave on
  routine,           \* the routine it took
  finished           \* routines that have returned

vars == <<thread_functions, next_id, thread_id, host_id, opc, okey, handle, detached,
          tpc, tcs, routine, finished>>

owner == <<opc, okey, handle, detached>>
thread == <<tpc, tcs, routine, finished>>

OwnerPoint == { "idle", "host_insert", "host_spawn", "host_wait", "enc_wait",
                "host_join", "pthread_join", "join_erase_host", "join_erase",
                "host_detach", "detach_erase_host",
                "detach_erase", "aborted", "spawn_failed" }

ThreadPoint == { "none", "read_args", "store_host_id", "enter", "store_id",
                 "take", "run", "exited", "failed" }

PartialFunctions(S, T) == UNION { [D -> T] : D \in SUBSET S }

\* Every field holds a value of its C++ type.
TypeOK ==
  /\ thread_functions \in Seq(Keys)
  /\ next_id \in 0..MaxThreads
  /\ thread_id \in PartialFunctions(Keys, Ids \cup {NoId})
  /\ host_id \in PartialFunctions(Keys, Keys \cup {NoId})
  /\ opc \in OwnerPoint
  /\ okey \in Keys \cup {0}
  /\ handle \in PartialFunctions(Keys, Ids)
  /\ detached \in BOOLEAN
  /\ tpc \in [Keys -> ThreadPoint]
  /\ tcs \in [Keys -> Ids \cup {NoId}]
  /\ routine \in [Keys -> Keys \cup {0}]
  /\ finished \subseteq Keys

Init ==
  /\ thread_functions = <<>>
  /\ next_id = 0
  /\ thread_id = <<>>
  /\ host_id = <<>>
  /\ opc = "idle" /\ okey = 0
  /\ handle = <<>>
  /\ detached = FALSE
  /\ tpc = [k \in Keys |-> "none"]
  /\ tcs = [k \in Keys |-> NoId]
  /\ routine = [k \in Keys |-> 0]
  /\ finished = {}

\* std::map: erase, operator[], and insert, which keeps an entry that is there.
Erase(map, k) == [j \in DOMAIN map \ {k} |-> map[j]]
Put(map, k, v) == [j \in DOMAIN map \cup {k} |-> IF j = k THEN v ELSE map[j]]
Insert(map, k, v) == IF k \in DOMAIN map THEN map ELSE Put(map, k, v)

\* std::vector.
back(vector) == vector[Len(vector)]
pop_back(vector) == SubSeq(vector, 1, Len(vector) - 1)

OwnerGoes(from, to) == opc = from /\ opc' = to

-----------------------------------------------------------------------------
(* pthread_create *)

\* _pthread_create_hook, the first locked block.
Create ==
  /\ OwnerGoes("idle", "host_insert")
  /\ next_id < MaxThreads
  /\ next_id' = next_id + 1
  /\ okey' = next_id'
  /\ thread_functions' = Append(thread_functions, next_id')
  /\ thread_id' = Insert(thread_id, next_id', NoId)
  /\ UNCHANGED <<host_id, handle, detached, thread>>

\* host_create_thread reserves the map entry,
HostInsert ==
  /\ OwnerGoes("host_insert", "host_spawn")
  /\ host_id' = Insert(host_id, okey, NoId)
  /\ UNCHANGED <<thread_functions, next_id, thread_id, okey, handle, detached, thread>>

\* starts the host thread with a pointer to its own local variable,
HostSpawn ==
  /\ OwnerGoes("host_spawn", "host_wait")
  /\ tpc' = [tpc EXCEPT ![okey] = "read_args"]
  /\ UNCHANGED <<thread_functions, next_id, thread_id, host_id, okey, handle, detached,
                 tcs, routine, finished>>

\* or gives up the whole process when pthread_create fails,
HostSpawnFails ==
  /\ OwnerGoes("host_spawn", "spawn_failed")
  /\ UNCHANGED <<thread_functions, next_id, thread_id, host_id, okey, handle, detached, thread>>

\* Mutant of HostWait: host_create_thread does not wait for the new thread.
HostWaitSkipped ==
  /\ OwnerGoes("host_wait", "enc_wait")
  /\ UNCHANGED <<thread_functions, next_id, thread_id, host_id, okey, handle, detached, thread>>

\* and polls the map until the thread has stored its id; an id that is not the
\* one pthread_create gave it aborts the process.
HostWait ==
  /\ opc = "host_wait"
  /\ host_id[okey] # NoId
  /\ opc' = IF host_id[okey] = okey THEN "enc_wait" ELSE "aborted"
  /\ UNCHANGED <<thread_functions, next_id, thread_id, host_id, okey, handle, detached, thread>>

\* Back in the hook: it polls until the thread has registered, and returns the
\* thread's id to the owner.
EncWait ==
  /\ OwnerGoes("enc_wait", "idle")
  /\ thread_id[okey] # NoId
  /\ handle' = Put(handle, okey, thread_id[okey])
  /\ UNCHANGED <<thread_functions, next_id, thread_id, host_id, okey, detached, thread>>

-----------------------------------------------------------------------------
(* The new thread *)

ThreadGoes(k, from, to) == tpc[k] = from /\ tpc' = [tpc EXCEPT ![k] = to]

\* host_enclave_thread caches its arguments.
ReadArgs(k) ==
  /\ ThreadGoes(k, "read_args", "store_host_id")
  /\ UNCHANGED <<thread_functions, next_id, thread_id, host_id, owner, tcs, routine, finished>>

StoreHostId(k) ==
  /\ ThreadGoes(k, "store_host_id", "enter")
  /\ host_id' = Put(host_id, k, k)
  /\ UNCHANGED <<thread_functions, next_id, thread_id, owner, tcs, routine, finished>>

Free(i) == \A k \in Keys : tcs[k] # i

\* The call of EnclaveThreadFun takes a free control structure,
Enter(k) ==
  /\ ThreadGoes(k, "enter", "store_id")
  /\ \E i \in Ids : Free(i) /\ tcs' = [tcs EXCEPT ![k] = i]
  /\ UNCHANGED <<thread_functions, next_id, thread_id, host_id, owner, routine, finished>>

\* or fails when there is none; the thread returns at once.
EnterFails(k) ==
  /\ ThreadGoes(k, "enter", "failed")
  /\ \A i \in Ids : ~Free(i)
  /\ UNCHANGED <<thread_functions, next_id, thread_id, host_id, owner, tcs, routine, finished>>

\* Mutant of StoreId: the thread does not register itself.
StoreIdForgotten(k) ==
  /\ ThreadGoes(k, "store_id", "take")
  /\ UNCHANGED <<thread_functions, next_id, thread_id, host_id, owner, tcs, routine, finished>>

StoreId(k) ==
  /\ ThreadGoes(k, "store_id", "take")
  /\ thread_id' = Put(thread_id, k, tcs[k])
  /\ UNCHANGED <<thread_functions, next_id, host_id, owner, tcs, routine, finished>>

\* Mutant of TakeFunction: back() without pop_back().
TakeFunctionKeeps(k) ==
  /\ ThreadGoes(k, "take", "run")
  /\ thread_functions # <<>>
  /\ routine' = [routine EXCEPT ![k] = back(thread_functions)]
  /\ UNCHANGED <<thread_functions, next_id, thread_id, host_id, owner, tcs, finished>>

\* The thread takes the routine registered last, whichever thread that was
\* for.  back() of an empty vector would be undefined: RoutinesTakenOnce.
TakeFunction(k) ==
  /\ ThreadGoes(k, "take", "run")
  /\ thread_functions # <<>>
  /\ routine' = [routine EXCEPT ![k] = back(thread_functions)]
  /\ thread_functions' = pop_back(thread_functions)
  /\ UNCHANGED <<next_id, thread_id, host_id, owner, tcs, finished>>

\* The routine returns and the thread leaves the enclave and ends.
FunctionReturns(k) ==
  /\ ThreadGoes(k, "run", "exited")
  /\ finished' = finished \cup {routine[k]}
  /\ tcs' = [tcs EXCEPT ![k] = NoId]
  /\ UNCHANGED <<thread_functions, next_id, thread_id, host_id, owner, routine>>

Thread(k) ==
  \/ ReadArgs(k)
  \/ StoreHostId(k)
  \/ Enter(k)
  \/ EnterFails(k)
  \/ StoreId(k)
  \/ TakeFunction(k)
  \/ FunctionReturns(k)

-----------------------------------------------------------------------------
(* pthread_join and pthread_detach *)

\* The entries find_if accepts; it returns the one with the smallest key.
KeysOf(id) == { k \in DOMAIN thread_id : thread_id[k] = id }

\* Both hooks begin by looking up the key of a thread id; oe_abort otherwise.
Lookup(h, to) ==
  /\ opc = "idle"
  /\ h \in DOMAIN handle
  /\ handle' = Erase(handle, h)
  /\ \/ KeysOf(handle[h]) = {} /\ opc' = "aborted" /\ UNCHANGED okey
     \/ /\ okey' \in KeysOf(handle[h]) /\ \A k \in KeysOf(handle[h]) : okey' <= k
        /\ opc' = to
  /\ UNCHANGED <<thread_functions, next_id, thread_id, host_id, thread>>

\* So do both host functions, with the host's map; abort otherwise.
HostLookup(from, to) ==
  /\ opc = from
  /\ opc' = IF okey \in DOMAIN host_id THEN to ELSE "aborted"
  /\ UNCHANGED <<thread_functions, next_id, thread_id, host_id, okey, handle, detached, thread>>

JoinLookup(h) == Lookup(h, "host_join") /\ UNCHANGED detached
HostJoinLookup == HostLookup("host_join", "pthread_join")

\* Mutant of PthreadJoin: it returns before the thread has ended.
PthreadJoinEarly ==
  /\ OwnerGoes("pthread_join", "join_erase_host")
  /\ UNCHANGED <<thread_functions, next_id, thread_id, host_id, okey, handle, detached, thread>>

PthreadJoin ==
  /\ OwnerGoes("pthread_join", "join_erase_host")
  /\ tpc[host_id[okey]] \in {"exited", "failed"}
  /\ UNCHANGED <<thread_functions, next_id, thread_id, host_id, okey, handle, detached, thread>>

EraseHost(from, to) ==
  /\ OwnerGoes(from, to)
  /\ host_id' = Erase(host_id, okey)
  /\ UNCHANGED <<thread_functions, next_id, thread_id, okey, handle, detached, thread>>

EraseId(from) ==
  /\ OwnerGoes(from, "idle")
  /\ thread_id' = Erase(thread_id, okey)
  /\ UNCHANGED <<thread_functions, next_id, host_id, okey, handle, detached, thread>>

JoinEraseHost == EraseHost("join_erase_host", "join_erase")

\* Mutant of JoinErase: the enclave keeps the entry of a joined thread.
JoinEraseForgotten ==
  /\ OwnerGoes("join_erase", "idle")
  /\ UNCHANGED <<thread_functions, next_id, thread_id, host_id, okey, handle, detached, thread>>

JoinErase == EraseId("join_erase")

DetachLookup(h) == Lookup(h, "host_detach") /\ detached' = TRUE
HostDetachLookup == HostLookup("host_detach", "detach_erase_host")
DetachEraseHost == EraseHost("detach_erase_host", "detach_erase")
DetachErase == EraseId("detach_erase")

CreateCall ==
  Create \/ HostInsert \/ HostSpawn \/ HostSpawnFails \/ HostWait \/ EncWait

JoinCall == HostJoinLookup \/ PthreadJoin \/ JoinEraseHost \/ JoinErase

DetachCall == HostDetachLookup \/ DetachEraseHost \/ DetachErase

Next ==
  \/ CreateCall
  \/ \E h \in Keys : JoinLookup(h) \/ DetachLookup(h)
  \/ JoinCall
  \/ DetachCall
  \/ \E k \in Keys : Thread(k)

Spec == Init /\ [][Next]_vars

\* The scheduler runs every thread, the routines return, and the owner finishes
\* a call it has begun.
FairSpec ==
  /\ Spec
  /\ WF_vars(HostInsert \/ HostSpawn \/ HostWait \/ EncWait \/ JoinCall \/ DetachCall)
  /\ \A k \in Keys : WF_vars(Thread(k))

-----------------------------------------------------------------------------
(* Properties *)

\* "args is a local variable in the calling method which may exit at any time"
\* (host/threading.cc:57-60): a thread reads its arguments only while the
\* host_create_thread that owns them has not returned.
ArgsAlive ==
  \A k \in Keys : tpc[k] = "read_args" => opc = "host_wait" /\ okey = k

\* The lookups of join and detach never end in abort(), although threads that
\* have ended but are not yet joined may share their id with running ones.
NeverAborts == opc # "aborted"

\* The stack of routines may give a thread another thread's routine; still no
\* routine runs twice, and a thread that reaches for one finds one.
RoutinesTakenOnce ==
  /\ \A j, k \in Keys : j # k /\ routine[j] = routine[k] => routine[k] = 0
  /\ \A k \in Keys : tpc[k] = "take" => thread_functions # <<>>

\* A pool that has joined all of its threads may be destroyed: all routines
\* have returned, whichever threads they ran on and whichever keys the joins
\* found for the ids.
PoolHasStopped ==
  opc = "idle" /\ handle = <<>> /\ ~detached => finished = 1..next_id

\* pthread_create and pthread_join return, unless the host could not start the
\* thread, or it found no free thread control structure: then the create hook
\* polls for ever.
ThreadCallsReturn ==
  opc # "idle" ~> \/ opc \in {"idle", "spawn_failed"}
                  \/ \E k \in Keys : tpc[k] = "failed"

=============================================================================
