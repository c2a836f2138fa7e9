----------------------------- MODULE HttpClient -----------------------------
(***************************************************************************)
(* HTTPClient::Request (server/shared/curl_helper.cc), by which the key    *)
(* providers talk to the vault: it sends the request with the OAuth token  *)
(* it has, and when the vault answers with a Bearer challenge it fetches a *)
(* new token and sends the request once more.                              *)
(*                                                                         *)
(* A provider and its client serve the refresh thread and the HTTP threads *)
(* at once, and token_ is a std::string that nothing locks: whoever reads  *)
(* it during an assignment reads Torn, and assignments that overlap may    *)
(* leave Torn behind.  The process may also die of it; ProcessDies stands  *)
(* for that and for every other way to die.                                *)
(***************************************************************************)
EXTENDS Integers

CONSTANTS
  Threads,     \* the threads that call the provider
  MaxTokens    \* bound: tokens the OAuth service issues

ASSUME MaxTokensAssumption == MaxTokens \in Nat

VARIABLES
  token_,      \* the client's token
  issued,      \* how many tokens were issued: they are 1, 2, ...
  valid,       \* those the vault accepts
  pc,          \* pc[t]: where thread t is in Request
  req,         \* req[t]: its request and locals
  overlap,     \* overlap[t]: its assignment to token_ overlaps another one
  disturbed    \* history: during t's call a token expired or another thread
               \* assigned token_

vars == <<token_, issued, valid, pc, req, overlap, disturbed>>

NoToken == 0
Torn == -1
Token == Nat \cup {Torn}

\* 0: no HTTP status, for CurlOtherError and the exceptions that are not
\* CurlErrors.
Status == {0, 200, 401, 403, 404, 500}

\* `effects' is history: how often the vault carried the request out.
Request ==
  [ attempt: 1 .. 2, carried: Token, fetched: Token, status: Status,
    challenge: {"none", "bearer", "malformed"}, effects: Nat ]

NewRequest ==
  [ attempt |-> 1, carried |-> NoToken, fetched |-> NoToken, status |-> 0,
    challenge |-> "none", effects |-> 0 ]

Nobody == [t \in Threads |-> FALSE]

Point == {"idle", "send", "wire", "answered", "challenged", "store", "storing"}

TypeOK ==
  /\ token_ \in Token
  /\ issued \in Nat
  /\ valid \subseteq 1 .. issued
  /\ pc \in [Threads -> Point]
  /\ req \in [Threads -> Request]
  /\ overlap \in [Threads -> BOOLEAN]
  /\ disturbed \in [Threads -> BOOLEAN]

Init ==
  /\ token_ = NoToken
  /\ issued = 0
  /\ valid = {}
  /\ pc = [t \in Threads |-> "idle"]
  /\ req = [t \in Threads |-> NewRequest]
  /\ overlap = Nobody
  /\ disturbed = Nobody

-----------------------------------------------------------------------------
Step(t, from, to) == pc[t] = from /\ pc' = [pc EXCEPT ![t] = to]

Storers == {t \in Threads : pc[t] = "storing"}

Begin(t) ==
  /\ Step(t, "idle", "send")
  /\ req' = [req EXCEPT ![t] = NewRequest]
  /\ disturbed' = [disturbed EXCEPT ![t] = Storers # {}]
  /\ UNCHANGED <<token_, issued, valid, overlap>>

\* Request ends with this answer (200: it returns, otherwise it throws).
End(t, status, challenge) ==
  /\ pc' = [pc EXCEPT ![t] = "idle"]
  /\ req' = [req EXCEPT ![t].status = status, ![t].challenge = challenge]
  /\ UNCHANGED <<token_, issued, valid, overlap, disturbed>>

\* Curl up to curl_easy_perform.  The Authorization header gets what token_ is
\* now; an empty token_ and a request without the header come to the same.
Send(t) ==
  /\ Step(t, "send", "wire")
  /\ req' = [req EXCEPT ![t].carried = token_]
  /\ UNCHANGED <<token_, issued, valid, overlap, disturbed>>

Answer(t, status, challenge, effects) ==
  /\ Step(t, "wire", "answered")
  /\ req' = [req EXCEPT ![t].status = status, ![t].challenge = challenge,
                        ![t].effects = @ + effects]
  /\ UNCHANGED <<token_, issued, valid, overlap, disturbed>>

VaultServes(t) == req[t].carried \in valid /\ Answer(t, 200, "none", 1)

\* The vault does not accept the token.  Request looks at the challenge and not
\* at the status it comes with.
VaultChallenges(t) ==
  /\ req[t].carried \notin valid
  /\ \E status \in {401, 403, 404, 500}, challenge \in {"none", "bearer", "malformed"} :
       Answer(t, status, challenge, 0)

\* 403 and 404 are the vault's answers to a request it has understood, and
\* leave it alone; an internal error may come after the fact.
VaultFails(t) ==
  \/ req[t].carried \in valid /\ \E status \in {403, 404} : Answer(t, status, "none", 0)
  \/ req[t].carried \in valid /\ Answer(t, 500, "none", 1)
  \/ Answer(t, 500, "none", 0)

\* CurlOtherError, at any time after sending.
TransportFails(t) == pc[t] \in {"wire", "answered"} /\ End(t, 0, "none")

\* Mutant of Retried: whatever went wrong is tried again.
RetriedOnAnyError(t) == req[t].attempt = 1 /\ req[t].status >= 400

\* Mutant of Retried: and again.
RetriedForEver(t) == req[t].status >= 400 /\ req[t].challenge # "none"

\* Only the first Curl call is in the try block.
Retried(t) == req[t].attempt = 1 /\ req[t].status >= 400 /\ req[t].challenge # "none"

Receive(t) ==
  /\ pc[t] = "answered"
  /\ IF Retried(t)
     THEN /\ Step(t, "answered", "challenged")
          /\ UNCHANGED <<token_, issued, valid, req, overlap, disturbed>>
     ELSE End(t, req[t].status, req[t].challenge)

\* HttpChallenge: no parameters, no authority or no resource.
ParseFails(t) ==
  /\ pc[t] = "challenged" /\ req[t].challenge = "malformed"
  /\ End(t, 0, "none")

FetchOAuthToken(t) ==
  /\ req[t].challenge # "malformed" /\ issued < MaxTokens
  /\ Step(t, "challenged", "store")
  /\ issued' = issued + 1
  /\ valid' = valid \cup {issued'}
  /\ req' = [req EXCEPT ![t].fetched = issued']
  /\ UNCHANGED <<token_, overlap, disturbed>>

\* What the OAuth service answers is what Request throws.
OAuthFails(t) ==
  /\ pc[t] = "challenged" /\ req[t].challenge # "malformed"
  /\ \E status \in {0, 401, 403, 404, 500} : End(t, status, "none")

\* The other threads in Request see token_ change.
Disturb(t) ==
  disturbed' = [o \in Threads |-> disturbed[o] \/ (o # t /\ pc[o] # "idle")]

StoreBegins(t) ==
  /\ Step(t, "store", "storing")
  /\ token_' = Torn
  /\ overlap' = [o \in Threads |-> IF o = t THEN Storers # {}
                                           ELSE overlap[o] \/ o \in Storers]
  /\ Disturb(t)
  /\ UNCHANGED <<issued, valid, req>>

\* Mutant of StoreEnds: the new token is not kept for the second attempt.
StoreEndsWithNothing(t) ==
  /\ Step(t, "storing", "send")
  /\ token_' = NoToken
  /\ req' = [req EXCEPT ![t].attempt = 2]
  /\ Disturb(t)
  /\ UNCHANGED <<issued, valid, overlap>>

StoreEnds(t) ==
  /\ Step(t, "storing", "send")
  /\ \/ token_' = req[t].fetched
     \/ overlap[t] /\ token_' = Torn
  /\ req' = [req EXCEPT ![t].attempt = @ + 1]
  /\ Disturb(t)
  /\ UNCHANGED <<issued, valid, overlap>>

Expire(token) ==
  /\ valid' = valid \ {token}
  /\ disturbed' = [t \in Threads |-> disturbed[t] \/ pc[t] # "idle"]
  /\ UNCHANGED <<token_, issued, pc, req, overlap>>

\* A new process starts with an empty token_.
ProcessDies ==
  /\ token_' = NoToken
  /\ pc' = [t \in Threads |-> "idle"]
  /\ req' = [t \in Threads |-> NewRequest]
  /\ overlap' = Nobody
  /\ disturbed' = Nobody
  /\ UNCHANGED <<issued, valid>>

Next ==
  \/ \E t \in Threads :
       \/ Begin(t) \/ Send(t) \/ Receive(t) \/ StoreBegins(t) \/ StoreEnds(t)
       \/ VaultServes(t) \/ VaultChallenges(t) \/ VaultFails(t) \/ TransportFails(t)
       \/ ParseFails(t) \/ FetchOAuthToken(t) \/ OAuthFails(t)
  \/ \E token \in valid : Expire(token)
  \/ ProcessDies

Spec == Init /\ [][Next]_vars

-----------------------------------------------------------------------------
Contract ==
  INSTANCE VaultRequest WITH
    open <- {t \in Threads : pc[t] # "idle"},
    effects <- [t \in Threads |-> req[t].effects],
    returned <- {t \in Threads : pc[t] = "idle" /\ req[t].status = 200}

\* A request takes effect at most once and before its call ends, and a call
\* that returns has taken effect: the retry follows a refusal only, whatever
\* fails in between (curl_helper.cc:256-265).  A PUT that was carried out and
\* answered by an error is not sent again.
AtMostOnce == Contract!Spec

\* An expired token does not show: a call ends with the vault's challenge
\* only if, during this call, a token expired or another thread assigned
\* token_ (curl_helper.cc:261-265).
RefusedOnlyIfDisturbed ==
  \A t \in Threads :
    pc[t] = "idle" /\ req[t].challenge = "bearer" => disturbed[t]

=============================================================================
