----------------------------- MODULE SharedKeys -----------------------------
(***************************************************************************)
(* What the Key Vault providers promise (confmsg/shared/keyprovider.h):    *)
(* the keys are in one log, which only grows, and a server holds an entry  *)
(* of it and the entry it held before.  It changes both in one step, to a  *)
(* newer version, or starts again at version 1 when the log cannot be      *)
(* read.                                                                   *)
(***************************************************************************)
EXTENDS Naturals, Sequences

CONSTANT Servers

VARIABLES
  log,       \* the versions of the keys; a key is its place in the log
  current,   \* current[s]: the key and the version that s holds
  previous   \* previous[s]: those it held before, which it still accepts

vars == <<log, current, previous>>

None == [key |-> 0, version |-> 0]

Entry(k) == [key |-> k, version |-> log[k]]

Init ==
  /\ log \in Seq(Nat)
  /\ current = [s \in Servers |-> None]
  /\ previous = [s \in Servers |-> None]

\* s adds a key: the next one after its own, or the first one.
Put(s) ==
  /\ log' \in { Append(log, version) : version \in {1, current[s].version + 1} }
  /\ UNCHANGED <<current, previous>>

Take(s, k) ==
  /\ current[s].key = None.key \/ log[k] > current[s].version
  /\ current' = [current EXCEPT ![s] = Entry(k)]
  /\ previous' = [previous EXCEPT ![s] = current[s]]
  /\ UNCHANGED log

\* The key that is replaced is not accepted any more.
Replace(s, k) ==
  /\ log[k] = 1
  /\ current' = [current EXCEPT ![s] = Entry(k)]
  /\ UNCHANGED <<log, previous>>

\* The process of s dies.
Forget(s) ==
  /\ current' = [current EXCEPT ![s] = None]
  /\ previous' = [previous EXCEPT ![s] = None]
  /\ UNCHANGED log

Next ==
  \E s \in Servers :
    \/ Put(s)
    \/ \E k \in DOMAIN log : Take(s, k) \/ Replace(s, k)
    \/ Forget(s)

Spec == Init /\ [][Next]_vars

=============================================================================
