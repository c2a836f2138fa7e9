-------------------------- MODULE HttpClientProofs --------------------------
(***************************************************************************)
(* Proofs about HttpClient, for any number of threads and of tokens.       *)
(***************************************************************************)
EXTENDS HttpClient, TLAPS

Refused(t) == req[t].challenge = "bearer"

\* Nothing has happened in the vault while a request may still be sent.
EffectsOK(t) ==
  /\ pc[t] \in {"send", "wire", "challenged", "store", "storing"} => req[t].effects = 0
  /\ pc[t] = "answered" =>
       /\ req[t].effects \in {0, 1}
       /\ req[t].status = 200 => req[t].effects = 1
       /\ req[t].challenge # "none" => req[t].effects = 0 /\ req[t].status >= 400

\* The fetched token on its way into the second attempt of an undisturbed call.
TokenOK(t) ==
  /\ pc[t] \in {"challenged", "store", "storing"} => req[t].attempt = 1
  /\ pc[t] # "idle" /\ ~disturbed[t] => \A o \in Threads \ {t} : pc[o] # "storing"
  /\ pc[t] = "storing" /\ overlap[t] => disturbed[t]
  /\ ~disturbed[t] =>
       /\ pc[t] \in {"store", "storing"} => req[t].fetched \in valid
       /\ pc[t] = "send" /\ req[t].attempt = 2 => token_ \in valid
       /\ pc[t] = "wire" /\ req[t].attempt = 2 => req[t].carried \in valid
       /\ pc[t] = "answered" /\ req[t].attempt = 2 => ~Refused(t)
       /\ pc[t] = "idle" => ~Refused(t)

Inv == TypeOK /\ \A t \in Threads : EffectsOK(t) /\ TokenOK(t)

-----------------------------------------------------------------------------
\* Initially no request is under way (the constructor, curl_helper.cc:217).
LEMMA InitInv == Init => Inv
BY DEF Init, Inv, TypeOK, EffectsOK, TokenOK, Refused, NewRequest, Nobody, Request, Token,
       Torn, NoToken, Status, Point

\* Request may end at any time, with any answer but an unexplained challenge.
LEMMA EndInv ==
  ASSUME Inv, NEW t \in Threads, NEW status \in Status,
         NEW challenge \in {"none", "bearer", "malformed"}, End(t, status, challenge),
         challenge = "bearer" => disturbed[t]
  PROVE  Inv'
<1> USE DEF Inv, End
<1>1. TypeOK'
  <2>1. req[t] \in Request
    BY DEF TypeOK
  <2>2. [req[t] EXCEPT !.status = status, !.challenge = challenge] \in Request
    BY <2>1 DEF Request
  <2>3. req' \in [Threads -> Request]
    BY <2>2 DEF TypeOK
  <2> QED BY <2>3 DEF TypeOK, Point
<1>2. req'[t].status = status /\ req'[t].challenge = challenge /\ pc'[t] = "idle"
  BY DEF TypeOK, Request
<1>3. EffectsOK(t)' /\ TokenOK(t)'
  BY <1>2 DEF EffectsOK, TokenOK, Refused
<1>4. ASSUME NEW o \in Threads \ {t} PROVE EffectsOK(o)' /\ TokenOK(o)'
  BY DEF TypeOK, EffectsOK, TokenOK, Refused
<1> QED BY <1>1, <1>3, <1>4

\* The steps of Request that leave token_ and the other threads alone
\* (curl_helper.cc:248-260).
LEMMA LocalInv ==
  ASSUME Inv, NEW t \in Threads,
         \/ Begin(t) \/ Send(t) \/ Receive(t) \/ TransportFails(t) \/ ParseFails(t) \/ OAuthFails(t)
  PROVE  Inv'
<1> USE DEF Inv, Step
<1>1. CASE Begin(t)
  <2>1. TypeOK'
    BY <1>1 DEF Begin, TypeOK, Request, NewRequest, Token, NoToken, Status, Point
  <2>2. req'[t] = NewRequest /\ pc'[t] = "send" /\ disturbed'[t] = (Storers # {})
    BY <1>1 DEF Begin, TypeOK
  <2>3. EffectsOK(t)' /\ TokenOK(t)'
    <3>1. ~disturbed'[t] => \A o \in Threads : pc[o] # "storing"
      BY <2>2 DEF Storers
    <3>2. \A o \in Threads \ {t} : pc'[o] = pc[o]
      BY <1>1 DEF Begin, TypeOK
    <3>3. req'[t].effects = 0 /\ req'[t].attempt = 1 /\ req'[t].status = 0
      BY <2>2 DEF NewRequest
    <3> QED BY <2>2, <3>1, <3>2, <3>3 DEF EffectsOK, TokenOK
  <2>4. ASSUME NEW o \in Threads \ {t} PROVE EffectsOK(o)' /\ TokenOK(o)'
    BY <1>1 DEF Begin, TypeOK, EffectsOK, TokenOK, Refused
  <2> QED BY <2>1, <2>3, <2>4
<1>2. CASE Send(t)
  BY <1>2 DEF Send, TypeOK, EffectsOK, TokenOK, Refused, Request, Point
<1>3. CASE Receive(t)
  <2>1. CASE Retried(t)
    <3>1. /\ pc[t] = "answered" /\ pc' = [pc EXCEPT ![t] = "challenged"]
          /\ UNCHANGED <<token_, issued, valid, req, overlap, disturbed>>
      BY <1>3, <2>1 DEF Receive
    <3>2. TypeOK'
      BY <3>1 DEF TypeOK, Point
    <3>3. req[t].attempt = 1 /\ req[t].challenge # "none"
      BY <2>1 DEF Retried
    <3>4. EffectsOK(t)' /\ TokenOK(t)'
      BY <3>1, <3>3 DEF TypeOK, EffectsOK, TokenOK
    <3>5. ASSUME NEW o \in Threads \ {t} PROVE EffectsOK(o)' /\ TokenOK(o)'
      BY <3>1 DEF TypeOK, EffectsOK, TokenOK, Refused
    <3> QED BY <3>2, <3>4, <3>5
  <2>2. CASE ~Retried(t)
    <3>1. req[t].status \in Status /\ req[t].challenge \in {"none", "bearer", "malformed"}
      BY DEF TypeOK, Request
    <3>2. Refused(t) => disturbed[t]
      BY <1>3, <2>2 DEF Receive, Retried, TypeOK, EffectsOK, TokenOK, Refused, Request
    <3> QED BY <1>3, <2>2, <3>1, <3>2, EndInv DEF Receive, Refused
  <2> QED BY <2>1, <2>2
<1>4. CASE TransportFails(t)
  BY <1>4, EndInv DEF TransportFails, Status
<1>5. CASE ParseFails(t)
  BY <1>5, EndInv DEF ParseFails, Status
<1>6. CASE OAuthFails(t)
  BY <1>6, EndInv DEF OAuthFails, Status
<1> QED
  BY <1>1, <1>2, <1>3, <1>4, <1>5, <1>6

\* An answer of the vault: it carries out what it does not refuse, and
\* refuses no valid token.
LEMMA AnswerInv ==
  ASSUME Inv, NEW t \in Threads, NEW status \in Status,
         NEW challenge \in {"none", "bearer", "malformed"}, NEW effects \in {0, 1},
         Answer(t, status, challenge, effects),
         status = 200 => effects = 1,
         challenge # "none" => effects = 0 /\ status >= 400 /\ req[t].carried \notin valid
  PROVE  Inv'
<1> USE DEF Inv, Answer, Step
<1>1. TypeOK'
  <2>1. req[t] \in Request /\ req[t].effects + effects \in Nat
    BY DEF TypeOK, Request
  <2>2. req' \in [Threads -> Request]
    BY <2>1 DEF TypeOK, Request
  <2> QED BY <2>2 DEF TypeOK, Point
<1>2. /\ req'[t].status = status /\ req'[t].challenge = challenge /\ pc'[t] = "answered"
      /\ req'[t].effects = effects /\ req'[t].attempt = req[t].attempt
  BY DEF TypeOK, Request, EffectsOK
<1>3. EffectsOK(t)' /\ TokenOK(t)'
  BY <1>2 DEF EffectsOK, TokenOK, Refused, TypeOK
<1>4. ASSUME NEW o \in Threads \ {t} PROVE EffectsOK(o)' /\ TokenOK(o)'
  BY DEF TypeOK, EffectsOK, TokenOK, Refused
<1> QED BY <1>1, <1>3, <1>4

\* What the vault answers has that form.
LEMMA VaultInv ==
  ASSUME Inv, NEW t \in Threads,
         VaultServes(t) \/ VaultChallenges(t) \/ VaultFails(t)
  PROVE  Inv'
BY AnswerInv DEF VaultServes, VaultChallenges, VaultFails, Status

\* Fetching and storing a token, which the other threads see
\* (curl_helper.cc:262).
LEMMA TokenInv ==
  ASSUME Inv, NEW t \in Threads,
         FetchOAuthToken(t) \/ StoreBegins(t) \/ StoreEnds(t)
  PROVE  Inv'
<1> USE DEF Inv, Step
<1>1. CASE FetchOAuthToken(t)
  <2>1. /\ pc[t] = "challenged" /\ issued \in Nat /\ req[t] \in Request
        /\ req' = [req EXCEPT ![t].fetched = issued + 1]
        /\ valid' = valid \cup {issued + 1} /\ issued' = issued + 1
    BY <1>1 DEF FetchOAuthToken, TypeOK
  <2>2. TypeOK'
    <3>1. [req[t] EXCEPT !.fetched = issued + 1] \in Request
      BY <2>1 DEF Request, Token
    <3>2. req' \in [Threads -> Request]
      BY <2>1, <3>1 DEF TypeOK
    <3>3. valid' \subseteq 1 .. issued' /\ issued' \in Nat
      BY <2>1 DEF TypeOK
    <3> QED BY <1>1, <3>2, <3>3 DEF FetchOAuthToken, TypeOK, Point
  <2>3. EffectsOK(t)' /\ TokenOK(t)'
    BY <1>1, <2>1 DEF FetchOAuthToken, TypeOK, EffectsOK, TokenOK, Refused, Request
  <2>4. ASSUME NEW o \in Threads \ {t} PROVE EffectsOK(o)' /\ TokenOK(o)'
    BY <1>1, <2>1 DEF FetchOAuthToken, TypeOK, EffectsOK, TokenOK, Refused
  <2> QED BY <2>2, <2>3, <2>4
<1>2. CASE StoreBegins(t)
  <2>1. TypeOK'
    BY <1>2 DEF StoreBegins, Disturb, TypeOK, Token, Torn, Point
  <2>2. EffectsOK(t)' /\ TokenOK(t)'
    <3>1. pc[t] = "store" /\ pc'[t] = "storing" /\ req' = req
      BY <1>2 DEF StoreBegins, TypeOK
    <3>2. EffectsOK(t)'
      BY <3>1 DEF EffectsOK
    <3>3. TokenOK(t)'
      BY <1>2 DEF StoreBegins, Disturb, Storers, TypeOK, TokenOK
    <3> QED BY <3>2, <3>3
  <2>3. ASSUME NEW o \in Threads \ {t} PROVE EffectsOK(o)' /\ TokenOK(o)'
    <3>1. pc'[o] = pc[o] /\ req'[o] = req[o] /\ valid' = valid
      BY <1>2 DEF StoreBegins, TypeOK
    <3>2. EffectsOK(o)'
      BY <3>1 DEF EffectsOK
    <3>3. disturbed'[o] \/ (disturbed'[o] = disturbed[o] /\ pc[o] = "idle")
      BY <1>2 DEF StoreBegins, Disturb, TypeOK
    <3>4. TokenOK(o)'
      BY <3>1, <3>3 DEF TokenOK, Refused
    <3> QED BY <3>2, <3>4
  <2> QED BY <2>1, <2>2, <2>3
<1>3. CASE StoreEnds(t)
  <2>1. TypeOK'
    <3>1. req[t] \in Request /\ req[t].attempt + 1 \in 1 .. 2 /\ req[t].fetched \in Token
      BY <1>3 DEF StoreEnds, TypeOK, TokenOK, Request
    <3>2. req' \in [Threads -> Request]
      BY <1>3, <3>1 DEF StoreEnds, TypeOK, Request
    <3> QED BY <1>3, <3>1, <3>2 DEF StoreEnds, Disturb, TypeOK, Token, Torn, Point
  <2>2. EffectsOK(t)' /\ TokenOK(t)'
    BY <1>3 DEF StoreEnds, Disturb, TypeOK, EffectsOK, TokenOK, Request
  <2>3. ASSUME NEW o \in Threads \ {t} PROVE EffectsOK(o)' /\ TokenOK(o)'
    BY <1>3 DEF StoreEnds, Disturb, TypeOK, EffectsOK, TokenOK, Refused
  <2> QED BY <2>1, <2>2, <2>3
<1> QED
  BY <1>1, <1>2, <1>3

\* Tokens expire and the process dies at any time.
LEMMA EnvironmentInv ==
  ASSUME Inv, ProcessDies \/ \E token \in valid : Expire(token)
  PROVE  Inv'
<1> USE DEF Inv
<1>1. CASE ProcessDies
  BY <1>1 DEF ProcessDies, NewRequest, Nobody, TypeOK, EffectsOK, TokenOK, Refused, Request,
              Token, NoToken, Status, Point
<1>2. ASSUME NEW token \in valid, Expire(token) PROVE Inv'
  <2>1. TypeOK'
    BY <1>2 DEF Expire, TypeOK
  <2>2. ASSUME NEW t \in Threads PROVE EffectsOK(t)' /\ TokenOK(t)'
    <3>1. pc' = pc /\ req' = req /\ token_' = token_ /\ overlap' = overlap
      BY <1>2 DEF Expire
    <3>2. EffectsOK(t)'
      BY <3>1, Zenon DEF EffectsOK
    <3>3. disturbed'[t] \/ (disturbed'[t] = disturbed[t] /\ pc[t] = "idle")
      BY <1>2 DEF Expire, TypeOK
    <3>4. disturbed[t] => disturbed'[t]
      BY <1>2 DEF Expire, TypeOK
    <3>5. TokenOK(t)'
      BY <3>1, <3>3, <3>4 DEF TokenOK, Refused
    <3> QED BY <3>2, <3>5
  <2> QED BY <2>1, <2>2
<1> QED
  BY <1>1, <1>2

\* The invariant is inductive.
LEMMA NextInv == Inv /\ [Next]_vars => Inv'
<1> SUFFICES ASSUME Inv, [Next]_vars PROVE Inv'
  OBVIOUS
<1>1. CASE UNCHANGED vars
  BY <1>1 DEF vars, Inv, TypeOK, EffectsOK, TokenOK, Refused
<1>2. CASE Next
  BY <1>2, LocalInv, VaultInv, TokenInv, EnvironmentInv DEF Next
<1> QED
  BY <1>1, <1>2

-----------------------------------------------------------------------------
\* Type correctness of the client, its requests and its tokens.
THEOREM TypeCorrect == Spec => []TypeOK
<1>1. Inv => TypeOK
  BY DEF Inv
<1> QED
  BY InitInv, NextInv, <1>1, PTL DEF Spec

\* With any number of threads on one client, a call ends with the vault's
\* challenge only if it was disturbed (curl_helper.cc:261-265).
THEOREM RefusedTheorem == Spec => []RefusedOnlyIfDisturbed
<1>1. Inv => RefusedOnlyIfDisturbed
  BY DEF Inv, TokenOK, Refused, RefusedOnlyIfDisturbed
<1> QED
  BY InitInv, NextInv, <1>1, PTL DEF Spec
-----------------------------------------------------------------------------
\* What a step of thread t may do, so that it is a step of the contract or
\* invisible there: a call begins, or goes on and takes effect at most for
\* the first time, or ends.
LEMMA RequestSimulation ==
  ASSUME TypeOK, TypeOK', NEW t \in Threads,
         \A o \in Threads \ {t} : pc'[o] = pc[o] /\ req'[o] = req[o],
         \/ pc[t] = "idle" /\ pc'[t] # "idle" /\ req'[t].effects = 0
         \/ /\ pc[t] # "idle" /\ pc'[t] # "idle"
            /\ \/ req'[t].effects = req[t].effects
               \/ req[t].effects = 0 /\ req'[t].effects = 1
         \/ /\ pc[t] # "idle" /\ pc'[t] = "idle" /\ req'[t].effects = req[t].effects
            /\ req'[t].status = 200 => req'[t].effects = 1
  PROVE  [Contract!Next]_(Contract!vars)
<1> USE DEF TypeOK
<1> DEFINE open == {o \in Threads : pc[o] # "idle"}
           effects == [o \in Threads |-> req[o].effects]
           returned == {o \in Threads : pc[o] = "idle" /\ req[o].status = 200}
<1>1. ASSUME req'[t].effects = req[t].effects PROVE effects' = effects
  BY <1>1
<1>2. CASE pc[t] = "idle"
  <2>1. open' = open \cup {t} /\ returned' = returned \ {t}
    BY <1>2
  <2>2. effects' = [effects EXCEPT ![t] = 0]
    BY <1>2
  <2> QED BY <1>2, <2>1, <2>2 DEF Contract!Call, Contract!Next
<1>3. CASE pc[t] # "idle" /\ pc'[t] # "idle" /\ req'[t].effects = req[t].effects
  <2>1. open' = open /\ returned' = returned
    BY <1>3
  <2> QED BY <1>1, <1>3, <2>1 DEF Contract!vars
<1>4. CASE pc[t] # "idle" /\ pc'[t] # "idle" /\ req[t].effects = 0 /\ req'[t].effects = 1
  <2>1. open' = open /\ returned' = returned
    BY <1>4
  <2>2. effects' = [effects EXCEPT ![t] = 1]
    BY <1>4
  <2> QED BY <1>4, <2>1, <2>2 DEF Contract!TakeEffect, Contract!Next
<1>5. CASE pc[t] # "idle" /\ pc'[t] = "idle" /\ req'[t].status = 200
  <2>1. open' = open \ {t} /\ returned' = returned \cup {t}
    BY <1>5
  <2>2. effects' = effects /\ effects[t] = 1
    BY <1>1, <1>5
  <2> QED BY <1>5, <2>1, <2>2 DEF Contract!Return, Contract!Next
<1>6. CASE pc[t] # "idle" /\ pc'[t] = "idle" /\ req'[t].status # 200
  <2>1. open' = open \ {t} /\ returned' = returned
    BY <1>6
  <2> QED BY <1>1, <1>6, <2>1 DEF Contract!Throw, Contract!Next
<1> QED
  BY <1>2, <1>3, <1>4, <1>5, <1>6

\* A call that ends leaves its effects as they are, and returns only with
\* what the vault served.
LEMMA EndSimulation ==
  ASSUME Inv, Inv', NEW t \in Threads, pc[t] # "idle",
         NEW status \in Status, NEW challenge \in {"none", "bearer", "malformed"},
         End(t, status, challenge), status = 200 => req[t].effects = 1
  PROVE  [Contract!Next]_(Contract!vars)
<1>1. /\ pc'[t] = "idle" /\ req'[t].effects = req[t].effects /\ req'[t].status = status
      /\ \A o \in Threads \ {t} : pc'[o] = pc[o] /\ req'[o] = req[o]
  BY DEF End, Inv, TypeOK, Request
<1> QED
  BY <1>1, RequestSimulation DEF Inv

\* The vault's answer is where a request takes effect.
LEMMA AnswerSimulation ==
  ASSUME Inv, Inv', NEW t \in Threads, NEW status \in Status,
         NEW challenge \in {"none", "bearer", "malformed"}, NEW effects \in {0, 1},
         Answer(t, status, challenge, effects)
  PROVE  [Contract!Next]_(Contract!vars)
<1>1. /\ pc[t] = "wire" /\ pc'[t] = "answered"
      /\ \A o \in Threads \ {t} : pc'[o] = pc[o] /\ req'[o] = req[o]
  BY DEF Answer, Step, Inv, TypeOK
<1>2. req[t].effects = 0 /\ req'[t].effects = effects
  BY <1>1 DEF Answer, Inv, TypeOK, Request, EffectsOK
<1> QED
  BY <1>1, <1>2, RequestSimulation DEF Inv

\* Every step of the client is a step of the contract or invisible there
\* (curl_helper.cc:244-267).
LEMMA NextSimulation ==
  ASSUME Inv, Inv', [Next]_vars
  PROVE  [Contract!Next]_(Contract!vars)
<1>1. ASSUME NEW t \in Threads, Begin(t) PROVE [Contract!Next]_(Contract!vars)
  <2>1. /\ pc[t] = "idle" /\ pc'[t] = "send" /\ req'[t].effects = 0
        /\ \A o \in Threads \ {t} : pc'[o] = pc[o] /\ req'[o] = req[o]
    BY <1>1 DEF Begin, Step, NewRequest, Inv, TypeOK
  <2> QED BY <2>1, RequestSimulation DEF Inv
<1>2. ASSUME NEW t \in Threads, Send(t) \/ FetchOAuthToken(t) \/ StoreEnds(t)
      PROVE  [Contract!Next]_(Contract!vars)
  <2>1. /\ pc[t] # "idle" /\ pc'[t] # "idle" /\ req'[t].effects = req[t].effects
        /\ \A o \in Threads \ {t} : pc'[o] = pc[o] /\ req'[o] = req[o]
    BY <1>2 DEF Send, FetchOAuthToken, StoreEnds, Step, Inv, TypeOK, Request
  <2> QED BY <2>1, RequestSimulation DEF Inv
<1>3. ASSUME NEW t \in Threads, StoreBegins(t) PROVE [Contract!Next]_(Contract!vars)
  <2>1. /\ pc[t] # "idle" /\ pc'[t] # "idle" /\ req' = req
        /\ \A o \in Threads \ {t} : pc'[o] = pc[o]
    BY <1>3 DEF StoreBegins, Step, Inv, TypeOK
  <2> QED BY <2>1, RequestSimulation DEF Inv
<1>4. ASSUME NEW t \in Threads, Receive(t) PROVE [Contract!Next]_(Contract!vars)
  <2>1. CASE Retried(t)
    <3>1. /\ pc[t] # "idle" /\ pc'[t] # "idle" /\ req' = req
          /\ \A o \in Threads \ {t} : pc'[o] = pc[o]
      BY <1>4, <2>1 DEF Receive, Step, Inv, TypeOK
    <3> QED BY <3>1, RequestSimulation DEF Inv
  <2>2. CASE ~Retried(t)
    <3>1. /\ pc[t] = "answered" /\ End(t, req[t].status, req[t].challenge)
          /\ req[t].status \in Status /\ req[t].challenge \in {"none", "bearer", "malformed"}
          /\ req[t].status = 200 => req[t].effects = 1
      BY <1>4, <2>2 DEF Receive, Inv, TypeOK, Request, EffectsOK
    <3> QED BY <3>1, EndSimulation
  <2> QED BY <2>1, <2>2
<1>5. ASSUME NEW t \in Threads, TransportFails(t) \/ ParseFails(t) \/ OAuthFails(t)
      PROVE  [Contract!Next]_(Contract!vars)
  BY <1>5, EndSimulation DEF TransportFails, ParseFails, OAuthFails, Status
<1>6. ASSUME NEW t \in Threads, VaultServes(t) \/ VaultChallenges(t) \/ VaultFails(t)
      PROVE  [Contract!Next]_(Contract!vars)
  BY <1>6, AnswerSimulation DEF VaultServes, VaultChallenges, VaultFails, Status
<1>7. ASSUME NEW token \in valid, Expire(token) PROVE [Contract!Next]_(Contract!vars)
  BY <1>7 DEF Expire, Contract!vars
<1>8. CASE ProcessDies
  <2>1. Contract!Die
    <3>1. \A t \in Threads : pc'[t] = "idle" /\ req'[t].effects = 0 /\ req'[t].status = 0
      BY <1>8 DEF ProcessDies, NewRequest
    <3> QED BY <3>1 DEF Contract!Die
  <2> QED BY <2>1 DEF Contract!Next
<1>9. CASE UNCHANGED vars
  BY <1>9 DEF vars, Contract!vars
<1> QED
  BY <1>1, <1>2, <1>3, <1>4, <1>5, <1>6, <1>7, <1>8, <1>9 DEF Next

\* The client implements the contract the key providers rely on, however many
\* threads share it: a request takes effect at most once and before its call
\* ends, and a call that returns has taken effect.
THEOREM AtMostOnceTheorem == Spec => AtMostOnce
<1>1. Init => Contract!Init
  <2> SUFFICES ASSUME Init PROVE Contract!Init
    OBVIOUS
  <2>1. \A t \in Threads : pc[t] = "idle" /\ req[t].effects = 0 /\ req[t].status = 0
    <3>1. pc = [t \in Threads |-> "idle"] /\ req = [t \in Threads |-> NewRequest]
      BY DEF Init
    <3> QED BY <3>1 DEF NewRequest
  <2> QED BY <2>1 DEF Contract!Init
<1>2. Inv /\ Inv' /\ [Next]_vars => [Contract!Next]_(Contract!vars)
  BY NextSimulation
<1> QED
  BY <1>1, <1>2, InitInv, NextInv, PTL DEF Spec, AtMostOnce, Contract!Spec

=============================================================================
