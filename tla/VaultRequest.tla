---------------------------- MODULE VaultRequest ----------------------------
(***************************************************************************)
(* What the key providers rely on when they call HTTPClient::Request       *)
(* (key_vault_provider.cc:88, 129): a request takes effect at most once    *)
(* and before the call ends, and a call that returns has taken effect.  A  *)
(* call that throws may or may not have.  KeyVault's requests have this    *)
(* form.                                                                   *)
(***************************************************************************)
EXTENDS Naturals

CONSTANT Threads

VARIABLES
  open,      \* the threads that are in Request
  effects,   \* effects[t]: how often t's request took effect
  returned   \* the threads whose last request returned (and did not throw)

vars == <<open, effects, returned>>

Init ==
  /\ open = {}
  /\ effects = [t \in Threads |-> 0]
  /\ returned = {}

Call(t) ==
  /\ t \notin open
  /\ open' = open \cup {t}
  /\ effects' = [effects EXCEPT ![t] = 0]
  /\ returned' = returned \ {t}

TakeEffect(t) ==
  /\ t \in open /\ effects[t] = 0
  /\ effects' = [effects EXCEPT ![t] = 1]
  /\ UNCHANGED <<open, returned>>

Return(t) ==
  /\ t \in open /\ effects[t] = 1
  /\ open' = open \ {t}
  /\ returned' = returned \cup {t}
  /\ UNCHANGED effects

Throw(t) ==
  /\ t \in open
  /\ open' = open \ {t}
  /\ UNCHANGED <<effects, returned>>

\* The process dies with whatever requests are under way.
Die ==
  /\ open' = {}
  /\ effects' = [t \in Threads |-> 0]
  /\ returned' = {}

Next ==
  \/ \E t \in Threads : Call(t) \/ TakeEffect(t) \/ Return(t) \/ Throw(t)
  \/ Die

Spec == Init /\ [][Next]_vars

=============================================================================
