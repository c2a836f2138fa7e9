--------------------------- MODULE RefreshThread ---------------------------
(***************************************************************************)
(* The host's key refresh thread and its CancellableTimer, with the main   *)
(* thread that starts it, serves requests and destroys the Enclave object  *)
(* (server/host/enclave.cc, cancellable_timer.h, main.cc).                 *)
(*                                                                         *)
(* cancelled_ is a plain bool that wait_for and cancelled() read without   *)
(* the mutex; a read sees the value before or after the racing write.      *)
(***************************************************************************)
EXTENDS Integers

CONSTANT HttpThreads   \* --num_http_threads

ASSUME HttpThreadsAssumption == HttpThreads \in Nat \ {0}

VARIABLES
  cancelled,  \* CancellableTimer::cancelled_
  mutex,      \* who holds CancellableTimer::m
  tpc,        \* where the refresh thread is
  site,       \* which wait_for it is in: before the loop, in try, in a catch
  status,     \* how its last EnclaveMaybeRefreshKey ended
  main        \* where the main thread is

vars == <<cancelled, mutex, tpc, site, status, main>>

Status == {"SUCCESS", "KEY_REFRESH_ERROR", "UNKNOWN_ERROR", "SDK_ERROR"}

TypeOK ==
  /\ cancelled \in BOOLEAN
  /\ mutex \in {"free", "thread", "main"}
  /\ tpc \in {"none", "check", "lock", "predicate", "enter", "blocked", "woken",
              "expired", "loop", "call", "stopped", "terminated"}
  /\ site \in {"start", "try", "catch"}
  /\ status \in Status
  /\ main \in {"configure", "initialize", "address", "listen", "serving", "cancel", "set",
               "notify", "join", "destroy", "terminate_enclave", "done", "exited", "aborted"}

Init ==
  /\ cancelled = FALSE
  /\ mutex = "free"
  /\ tpc = "none"
  /\ site = "start"
  /\ status = "SUCCESS"
  /\ main = "configure"

\* The process is gone: exit(), or std::terminate in some thread.
ProcessEnded == main \in {"done", "exited", "aborted"} \/ tpc = "terminated"

T(from, to) == ~ProcessEnded /\ tpc = from /\ tpc' = to
M(from, to) == ~ProcessEnded /\ main = from /\ main' = to

-----------------------------------------------------------------------------
(* CancellableTimer::wait_for, called by the refresh thread *)

\* A cancelled timer throws.  In the try block the exception is caught, and
\* the handler waits too; elsewhere it leaves the thread function.
CheckCancelled ==
  /\ \/ ~cancelled /\ T("check", "lock") /\ UNCHANGED site
     \/ cancelled /\ site = "try" /\ T("check", "check") /\ site' = "catch"
     \/ cancelled /\ site # "try" /\ T("check", "terminated") /\ UNCHANGED site
  /\ UNCHANGED <<cancelled, mutex, status, main>>

Lock ==
  /\ T("lock", "predicate") \/ T("woken", "predicate")
  /\ mutex = "free"
  /\ mutex' = "thread"
  /\ UNCHANGED <<cancelled, site, status, main>>

\* Under the mutex: return if cancelled or if the duration has passed, ...
Predicate ==
  /\ \/ T("predicate", "loop") /\ mutex' = "free"
     \/ ~cancelled /\ T("predicate", "enter") /\ UNCHANGED mutex
  /\ UNCHANGED <<cancelled, site, status, main>>

\* ... else release the mutex and block in one step.
Block ==
  /\ T("enter", "blocked")
  /\ mutex' = "free"
  /\ UNCHANGED <<cancelled, site, status, main>>

SpuriousWakeup == T("blocked", "woken") /\ UNCHANGED <<cancelled, mutex, site, status, main>>

Timeout == T("blocked", "expired") /\ UNCHANGED <<cancelled, mutex, site, status, main>>

\* After a timeout the mutex is taken once more and wait_for returns.
Expire ==
  /\ T("expired", "loop")
  /\ mutex = "free"
  /\ UNCHANGED <<cancelled, mutex, site, status, main>>

-----------------------------------------------------------------------------
(* The loop of StartPeriodicKeyRefreshBackgroundThread *)

TestCancelled ==
  /\ (cancelled /\ T("loop", "stopped")) \/ (~cancelled /\ T("loop", "call"))
  /\ UNCHANGED <<cancelled, mutex, site, status, main>>

\* Mutant of RefreshReturns: an error ends the loop.
RefreshReturnsGivesUp ==
  /\ \/ T("call", "check") /\ status' = "SUCCESS" /\ site' = "try"
     \/ T("call", "stopped") /\ status' \in Status \ {"SUCCESS"} /\ site' = "catch"
  /\ UNCHANGED <<cancelled, mutex, main>>

\* EnclaveMaybeRefreshKey ends; every error is caught and waited out.
RefreshReturns ==
  /\ T("call", "check")
  /\ status' \in Status
  /\ site' = IF status' = "SUCCESS" THEN "try" ELSE "catch"
  /\ UNCHANGED <<cancelled, mutex, main>>

-----------------------------------------------------------------------------
(* The main thread *)

\* ParseInput and Enclave's constructor: until it returns, main only exits.
Configure ==
  /\ M("configure", "initialize") \/ M("configure", "exited")
  /\ UNCHANGED <<cancelled, mutex, tpc, site, status>>

\* Enclave::Initialize starts the thread last; if it throws, the Enclave
\* object is destroyed without a thread.
Initialize ==
  /\ \/ M("initialize", "address") /\ tpc' = "check"
     \/ M("initialize", "cancel") /\ UNCHANGED tpc
  /\ UNCHANGED <<cancelled, mutex, site, status>>

MakeAddress ==
  /\ M("address", "listen") \/ M("address", "cancel")
  /\ UNCHANGED <<cancelled, mutex, tpc, site, status>>

\* App::Run: exit() if the listener cannot be set up.
Listen ==
  /\ M("listen", "serving") \/ M("listen", "exited")
  /\ UNCHANGED <<cancelled, mutex, tpc, site, status>>

\* An exception leaves ioc.run(): App::Run destroys its vector of threads,
\* which aborts the process if there are any, and main destroys the Enclave.
ServingThrows ==
  /\ M("serving", IF HttpThreads > 1 THEN "aborted" ELSE "cancel")
  /\ UNCHANGED <<cancelled, mutex, tpc, site, status>>

\* Mutant of CancelLock: cancel() without the mutex.
CancelUnlocked ==
  /\ M("cancel", "set")
  /\ UNCHANGED <<cancelled, mutex, tpc, site, status>>

CancelLock ==
  /\ M("cancel", "set")
  /\ mutex = "free"
  /\ mutex' = "main"
  /\ UNCHANGED <<cancelled, tpc, site, status>>

CancelSet ==
  /\ M("set", "notify")
  /\ cancelled' = TRUE
  /\ UNCHANGED <<mutex, tpc, site, status>>

\* Mutant of CancelNotify: nobody is notified.
CancelNotifyForgotten ==
  /\ M("notify", "join")
  /\ mutex' = "free"
  /\ UNCHANGED <<cancelled, tpc, site, status>>

\* notify_all, then the lock goes out of scope.
CancelNotify ==
  /\ M("notify", "join")
  /\ tpc' = IF tpc = "blocked" THEN "woken" ELSE tpc
  /\ mutex' = "free"
  /\ UNCHANGED <<cancelled, site, status>>

\* Mutant of Join: the destructor does not wait for the thread.
JoinSkipped ==
  /\ M("join", "destroy")
  /\ UNCHANGED <<cancelled, mutex, tpc, site, status>>

Join ==
  /\ M("join", "destroy")
  /\ tpc \in {"none", "stopped"}
  /\ UNCHANGED <<cancelled, mutex, tpc, site, status>>

\* EnclaveDestroy and oe_terminate_enclave; an error is an exception in a
\* destructor.
Destroy ==
  /\ \/ M("destroy", "terminate_enclave")
     \/ M("terminate_enclave", "done")
     \/ M("destroy", "aborted")
     \/ M("terminate_enclave", "aborted")
  /\ UNCHANGED <<cancelled, mutex, tpc, site, status>>

-----------------------------------------------------------------------------
ThreadRuns ==
  \/ CheckCancelled \/ Lock \/ Predicate \/ Block \/ Expire
  \/ TestCancelled \/ RefreshReturns

MainStarts == Configure \/ Initialize \/ MakeAddress \/ Listen \/ ServingThrows

MainDestroys == CancelLock \/ CancelSet \/ CancelNotify \/ Join \/ Destroy

Next == ThreadRuns \/ SpuriousWakeup \/ Timeout \/ MainStarts \/ MainDestroys

\* Both threads are scheduled, every enclave call returns, and a contended
\* mutex is granted in the end.  Timeouts are not part of it.
Fairness == WF_vars(ThreadRuns) /\ SF_vars(MainDestroys)

Spec == Init /\ [][Next]_vars /\ Fairness

\* Time passes: the deadline of wait_for is fixed when it starts, so spurious
\* wakeups do not postpone it.
TimePasses == SF_vars(Timeout)

-----------------------------------------------------------------------------
(* Properties *)

\* The enclave is not destroyed under a refresh: while ~Enclave calls
\* EnclaveDestroy and afterwards, the thread is not running and cannot start.
NoRefreshDuringDestroy ==
  main \in {"destroy", "terminate_enclave", "done"} => tpc \in {"none", "stopped"}

\* No wakeup is lost: once cancel() has returned, the thread is not blocked
\* and does not block again, although it tests cancelled_ first and blocks
\* later (cancellable_timer.h:22-30 against 35-37).
NoLostWakeup == main \in {"join", "destroy"} => tpc \notin {"enter", "blocked"}

\* ~Enclave does not hang, however long the sync interval: cancel() reaches a
\* thread that is about to block as well as one that is blocked.
DestructorReturns == main = "cancel" ~> ProcessEnded

\* The thread keeps refreshing whatever the calls return, until cancelled
\* (host/enclave.cc:117-140), as long as time passes.
RefreshKeepsRunning ==
  TimePasses =>
    []<>(tpc = "call" \/ cancelled \/ main \in {"configure", "initialize"} \/ ProcessEnded)

\* An exception during a refresh is logged as "will retry shortly"
\* (host/enclave.cc:134): its handler does not end the process.
ErrorHandlerSurvives == ~(tpc = "terminated" /\ site = "catch")

=============================================================================
