------------------------------ MODULE Confmsg ------------------------------
(***************************************************************************)
(* Clients (confonnx.Client in Python over confmsg::Client) calling one    *)
(* confmsg::Server while its refresh thread rolls the key over.  A client  *)
(* has one call at a time and blocks on it, so one program counter per     *)
(* client stands for the client and for the HTTP thread serving it: each   *)
(* action is one read of a field the refresh thread may be writing.        *)
(***************************************************************************)
EXTENDS ConfmsgServer

CONSTANTS
  Clients,
  HostVerify,      \* clients built with HAVE_OE_HOST_VERIFY: they check quotes
  ExpectIdentity   \* clients given an expected enclave signer or hash

\* Without quote verification a client that expects an identity rejects every
\* server (client/api.cc:114), so such clients are left out.
ASSUME ClientAssumption == ExpectIdentity \subseteq HostVerify /\ HostVerify \subseteq Clients

VARIABLES
  client,   \* client[c]: the adopted server key, its version, and key_outdated
  call,     \* call[c]: the Python call in progress, or the last one
  pc,       \* pc[c]: where that call is
  loc       \* loc[c]: locals of the handler, and the message it builds

clientVars == <<client, call, pc, loc>>
vars == <<serverVars, clientVars>>

CallPoint ==
  { "idle", "sign", "share", "signing_share", "version", "evidence", "key_response",
    "check", "recheck", "current", "previous", "ecdh", "callback",
    "outdated", "outdated_previous", "write", "response" }

Client == [ key: KeyMaterial, version: Version, outdated: BOOLEAN ]

\* `executed': how often the request callback ran for the call.  `disturbed':
\* the server rolled its key over or restarted at some time during the call
\* (a history variable).
Call == [ kind: {"predict", "provision"}, attempt: 1 .. 2,
          executed: 0 .. 2, disturbed: BOOLEAN,
          result: {"none", "ok", "crypto", "key_exchange", "rejected", "connection"} ]

Locals == [ signature: KeyMaterial, share: KeyMaterial, signing_share: KeyMaterial,
            version: Version, quote: KeyMaterial \cup {NoQuote},
            slot: {"current", "previous"}, secret: KeyMaterial, outdated: BOOLEAN ]

NoLocals == [ signature |-> ZeroKey, share |-> ZeroKey, signing_share |-> ZeroKey,
              version |-> 0, quote |-> NoQuote, slot |-> "current",
              secret |-> ZeroKey, outdated |-> FALSE ]

TypeOK ==
  /\ ServerTypeOK
  /\ client \in [Clients -> Client]
  /\ call \in [Clients -> Call]
  /\ pc \in [Clients -> CallPoint]
  /\ loc \in [Clients -> Locals]

UsedKeys ==
  ServerKeys \cup {client[c].key : c \in Clients}
             \cup UNION {{loc[c].signature, loc[c].share, loc[c].signing_share,
                          loc[c].quote, loc[c].secret} : c \in Clients}

\* key_version(-1), key_outdated = True
ClientConstructed == [ key |-> ZeroKey, version |-> VersionSpan - 1, outdated |-> TRUE ]

NoCall == [ kind |-> "predict", attempt |-> 1, executed |-> 0,
            disturbed |-> FALSE, result |-> "none" ]

Init ==
  /\ \E v \in Version : ServerConstructed(v, FreshKey({}))
  /\ client = [c \in Clients |-> ClientConstructed]
  /\ call = [c \in Clients |-> NoCall]
  /\ pc = [c \in Clients |-> "idle"]
  /\ loc = [c \in Clients |-> NoLocals]

-----------------------------------------------------------------------------
(* The Python client *)

Step(c, from, to) == pc[c] = from /\ pc' = [pc EXCEPT ![c] = to]

\* predict and provision_model_key up to the first message they send.
StartCall(c, kind) ==
  /\ Step(c, "idle", IF client[c].outdated THEN "sign" ELSE "check")
  /\ call' = [call EXCEPT ![c] = [NoCall EXCEPT !.kind = kind, !.disturbed = rpc # "idle"]]
  /\ UNCHANGED <<client, loc, serverVars>>

\* The call returns to the application or raises.
Finish(c, result) ==
  /\ pc' = [pc EXCEPT ![c] = "idle"]
  /\ call' = [call EXCEPT ![c].result = result]
  /\ loc' = [loc EXCEPT ![c] = NoLocals]

\* Mutant of CryptoError: the retry uses the key the client already has.
CryptoErrorKeepsKey(c) ==
  IF call[c].kind = "predict" /\ call[c].attempt = 1
  THEN /\ pc' = [pc EXCEPT ![c] = "check"]
       /\ call' = [call EXCEPT ![c].attempt = 2]
       /\ loc' = [loc EXCEPT ![c] = NoLocals]
  ELSE Finish(c, "crypto")

\* Mutant of CryptoError: predict tries again after every crypto error.
CryptoErrorRetriesForever(c) ==
  IF call[c].kind = "predict"
  THEN /\ pc' = [pc EXCEPT ![c] = "sign"]
       /\ call' = [call EXCEPT ![c].attempt = 2]
       /\ loc' = [loc EXCEPT ![c] = NoLocals]
  ELSE Finish(c, "crypto")

\* The server answers CRYPTO_ERROR: predict tries once more from scratch.
CryptoError(c) ==
  IF call[c].kind = "predict" /\ call[c].attempt = 1
  THEN /\ pc' = [pc EXCEPT ![c] = "sign"]
       /\ call' = [call EXCEPT ![c].attempt = 2]
       /\ loc' = [loc EXCEPT ![c] = NoLocals]
  ELSE Finish(c, "crypto")

-----------------------------------------------------------------------------
(* Server::HandleKeyRequest *)

SignIdentity(c) ==
  /\ Step(c, "sign", "share")
  /\ loc' = [loc EXCEPT ![c].signature = kp.current_key]
  /\ UNCHANGED <<client, call, serverVars>>

ReadPublicKey(c) ==
  /\ Step(c, "share", "signing_share")
  /\ loc' = [loc EXCEPT ![c].share = public_key]
  /\ UNCHANGED <<client, call, serverVars>>

ReadSigningKey(c) ==
  /\ Step(c, "signing_share", "version")
  /\ loc' = [loc EXCEPT ![c].signing_share = public_signing_key]
  /\ UNCHANGED <<client, call, serverVars>>

ReadKeyVersion(c) ==
  /\ Step(c, "version", "evidence")
  /\ loc' = [loc EXCEPT ![c].version = kp.current_key_version]
  /\ UNCHANGED <<client, call, serverVars>>

\* The evidence list is copied element by element; while UpdateEvidence
\* rebuilds it the copy is garbled or empty.
ReadEvidence(c) ==
  /\ Step(c, "evidence", "key_response")
  /\ \E q \in IF evidence = Torn THEN {Torn, NoQuote} ELSE {evidence} :
       loc' = [loc EXCEPT ![c].quote = q]
  /\ UNCHANGED <<client, call, serverVars>>

-----------------------------------------------------------------------------
(* Client::HandleKeyResponse *)

SignatureValid(m) == SameKey(m.signature, m.signing_share)

\* The report data is made from the share; the enclave's identity is right.
VerifyQuote(m) == SameKey(m.quote, m.share)

QuoteAccepted(c, m) ==
  IF m.quote = NoQuote
  THEN c \notin ExpectIdentity
  ELSE c \in HostVerify => VerifyQuote(m)

KeyResponseAccepted(c) ==
  /\ Step(c, "key_response", "check")
  /\ SignatureValid(loc[c]) /\ QuoteAccepted(c, loc[c])
  /\ client' = [client EXCEPT ![c] = [key |-> loc[c].share, version |-> loc[c].version,
                                      outdated |-> FALSE]]
  /\ loc' = [loc EXCEPT ![c] = NoLocals]
  /\ UNCHANGED <<call, serverVars>>

\* The exception leaves the client as it was.
KeyResponseRejected(c) ==
  /\ pc[c] = "key_response"
  /\ ~(SignatureValid(loc[c]) /\ QuoteAccepted(c, loc[c]))
  /\ Finish(c, "key_exchange")
  /\ UNCHANGED <<client, serverVars>>

-----------------------------------------------------------------------------
(* Server::HandleRequest *)

\* The client names a newer version than ours: refresh first.
CheckVersion(c) ==
  /\ Step(c, "check", IF client[c].version > kp.current_key_version
                      THEN "recheck" ELSE "current")
  /\ UNCHANGED <<client, call, loc, serverVars>>

\* RefreshKey(sync_only) does nothing with a random provider; the version is
\* then read again.
RecheckVersion(c) ==
  /\ pc[c] = "recheck"
  /\ IF client[c].version > kp.current_key_version
     THEN CryptoError(c)
     ELSE Step(c, "recheck", "current") /\ UNCHANGED <<call, loc>>
  /\ UNCHANGED <<client, serverVars>>

\* GetKey, which reads the two version fields one after the other.
GetKeyCurrent(c) ==
  /\ IF CurrentMatches(kp, client[c].version)
     THEN Step(c, "current", "ecdh") /\ loc' = [loc EXCEPT ![c].slot = "current"]
     ELSE Step(c, "current", "previous") /\ UNCHANGED loc
  /\ UNCHANGED <<client, call, serverVars>>

GetKeyPrevious(c) ==
  /\ pc[c] = "previous"
  /\ IF PreviousMatches(kp, client[c].version)
     THEN /\ Step(c, "previous", "ecdh")
          /\ loc' = [loc EXCEPT ![c].slot = "previous"]
          /\ UNCHANGED call
     ELSE CryptoError(c)
  /\ UNCHANGED <<client, serverVars>>

SlotKey(slot) == IF slot = "current" THEN kp.current_key ELSE kp.previous_key

\* The key bytes are read through the reference, and the request decrypts if
\* they are the key it was encrypted for.
ComputeSharedSecret(c) ==
  /\ pc[c] = "ecdh"
  /\ IF SameKey(client[c].key, SlotKey(loc[c].slot))
     THEN /\ Step(c, "ecdh", "callback")
          /\ loc' = [loc EXCEPT ![c].secret = SlotKey(loc[c].slot)]
          /\ UNCHANGED call
     ELSE CryptoError(c)
  /\ UNCHANGED <<client, serverVars>>

\* request_callback runs the request; it may throw.
RunCallback(c) ==
  /\ Step(c, "callback", "outdated")
  /\ call' = [call EXCEPT ![c].executed = @ + 1]
  /\ UNCHANGED <<client, loc, serverVars>>

CallbackThrows(c) ==
  /\ pc[c] = "callback"
  /\ Finish(c, "rejected")
  /\ UNCHANGED <<client, serverVars>>

\* IsKeyOutdated reads the two version fields again.
IsKeyOutdatedCurrent(c) ==
  /\ IF CurrentMatches(kp, client[c].version)
     THEN Step(c, "outdated", "write") /\ loc' = [loc EXCEPT ![c].outdated = FALSE]
     ELSE Step(c, "outdated", "outdated_previous") /\ UNCHANGED loc
  /\ UNCHANGED <<client, call, serverVars>>

\* Mutant of IsKeyOutdatedPrevious: only the current version is known.
IsKeyOutdatedForgetsPrevious(c) ==
  /\ pc[c] = "outdated_previous"
  /\ CryptoError(c)
  /\ UNCHANGED <<client, serverVars>>

IsKeyOutdatedPrevious(c) ==
  /\ pc[c] = "outdated_previous"
  /\ IF PreviousMatches(kp, client[c].version)
     THEN /\ Step(c, "outdated_previous", "write")
          /\ loc' = [loc EXCEPT ![c].outdated = TRUE]
          /\ UNCHANGED call
     ELSE CryptoError(c)
  /\ UNCHANGED <<client, serverVars>>

WriteMessage(c) ==
  /\ Step(c, "write", "response")
  /\ UNCHANGED <<client, call, loc, serverVars>>

\* OutputBufferTooSmallError
WriteMessageThrows(c) ==
  /\ pc[c] = "write"
  /\ Finish(c, "rejected")
  /\ UNCHANGED <<client, serverVars>>

-----------------------------------------------------------------------------
(* The response reaches the client *)

\* Mutant of ReceiveResponse: key_outdated in the response is ignored.
ReceiveResponseIgnoresFlag(c) ==
  /\ pc[c] = "response"
  /\ Finish(c, "ok")
  /\ UNCHANGED <<client, serverVars>>

\* predict decrypts it and remembers key_outdated; provision_model_key does
\* not look at it.
ReceiveResponse(c) ==
  /\ pc[c] = "response"
  /\ client' = [client EXCEPT ![c].outdated =
                  @ \/ (call[c].kind = "predict" /\ loc[c].outdated)]
  /\ Finish(c, "ok")
  /\ UNCHANGED serverVars

\* The connection fails and the call raises; what the server does of the
\* request from then on nobody sees.
ConnectionLost(c) ==
  /\ pc[c] # "idle"
  /\ Finish(c, "connection")
  /\ UNCHANGED <<client, serverVars>>

-----------------------------------------------------------------------------
(* The refresh thread, seen by the calls in progress *)

Disturb == call' = [c \in Clients |-> [call[c] EXCEPT !.disturbed = TRUE]]

BeginRollover == StartRollover /\ Disturb /\ UNCHANGED <<client, pc, loc>>

RefreshThread ==
  \/ BeginRollover
  \/ (IntervalElapses \/ SyncOnly) /\ UNCHANGED clientVars
  \/ /\ CanRandomize(UsedKeys)
     /\ Rollover(FreshKey(UsedKeys))
     /\ UNCHANGED clientVars

\* No HTTP thread is at work: each request has a connection of its own
\* (_do_request), and before it is sent or after its response nothing of a
\* call is in the server.
BetweenRequests == {"idle", "sign", "key_response", "check", "response"}

\* The server process ends and a new one starts: its provider draws a new key
\* and counts from an arbitrary version; calls with a request in progress lose
\* their connection.
Restart ==
  /\ Keys \ UsedKeys # {}
  /\ \E v \in Version : ServerRestarts(v, FreshKey(UsedKeys))
  /\ pc' = [c \in Clients |-> IF pc[c] \in BetweenRequests THEN pc[c] ELSE "idle"]
  /\ call' = [c \in Clients |->
                [call[c] EXCEPT !.disturbed = TRUE,
                                !.result = IF pc[c] \in BetweenRequests THEN @
                                           ELSE "connection"]]
  /\ loc' = [c \in Clients |-> IF pc[c] \in BetweenRequests THEN loc[c] ELSE NoLocals]
  /\ UNCHANGED client

Handler(c) ==
  \/ SignIdentity(c) \/ ReadPublicKey(c) \/ ReadSigningKey(c)
  \/ ReadKeyVersion(c) \/ ReadEvidence(c)
  \/ KeyResponseAccepted(c) \/ KeyResponseRejected(c)
  \/ CheckVersion(c) \/ RecheckVersion(c) \/ GetKeyCurrent(c) \/ GetKeyPrevious(c)
  \/ ComputeSharedSecret(c) \/ RunCallback(c) \/ CallbackThrows(c)
  \/ IsKeyOutdatedCurrent(c) \/ IsKeyOutdatedPrevious(c)
  \/ WriteMessage(c) \/ WriteMessageThrows(c)
  \/ ReceiveResponse(c)

Next ==
  \/ \E c \in Clients, kind \in {"predict", "provision"} : StartCall(c, kind)
  \/ \E c \in Clients : Handler(c)
  \/ \E c \in Clients : ConnectionLost(c)
  \/ RefreshThread
  \/ Restart

Spec == Init /\ [][Next]_vars

-----------------------------------------------------------------------------
(* Properties *)

QuietPredict(c) == pc[c] = "idle" /\ call[c].kind = "predict" /\ ~call[c].disturbed

\* A predict call during which the server neither rolls its key over nor
\* restarts is never refused for its key, whatever happened before it: the
\* forced key exchange of the retry repairs any stale or mixed-up key the
\* client holds.  The exception is a server whose quote is out of date.
QuietPredictSucceeds ==
  \A c \in Clients :
    QuietPredict(c) /\ (c \in HostVerify => evidence = public_key)
      => call[c].result \notin {"crypto", "key_exchange"}

\* After an answered predict call that no rollover disturbed, the client holds
\* the server's current key under its current version, or knows that its key
\* is outdated and exchanges it at the next call.
QuietPredictConverges ==
  \A c \in Clients :
    QuietPredict(c) /\ call[c].result = "ok"
      => \/ client[c].outdated
         \/ /\ client[c].key = kp.current_key
            /\ client[c].version = kp.current_key_version

\* The retry of predict runs the request a second time only when a rollover
\* was under way: otherwise IsKeyOutdated finds the version GetKey found, and
\* no crypto error follows the callback.
RepeatedOnlyIfDisturbed ==
  \A c \in Clients : call[c].executed > 1 => call[c].disturbed

\* The points of a call in the order in which it passes them.
Place ==
  [ sign |-> 1, share |-> 2, signing_share |-> 3, version |-> 4, evidence |-> 5,
    key_response |-> 6, check |-> 7, recheck |-> 8, current |-> 9, previous |-> 10,
    ecdh |-> 11, callback |-> 12, outdated |-> 13, outdated_previous |-> 14,
    write |-> 15, response |-> 16 ]

Retries(c) == call[c].kind = "predict" /\ call[c].attempt = 1

\* How many steps the call can still take, the retry of predict included.
StepsLeft(c) ==
  IF pc[c] = "idle" THEN 0
  ELSE 17 - Place[pc[c]] + (IF Retries(c) THEN 16 ELSE 0)

\* predict and provision_model_key return or raise: every step of a call brings
\* it closer to its end, a crypto error that starts it again too
\* (client.py:93-101), and no rollover or restart puts it back.  A call takes
\* at most 32 steps, so only a handler that never goes on keeps it waiting.
CallsAreBounded ==
  [][\A c \in Clients :
       pc[c] # "idle" => IF pc'[c] = pc[c] THEN StepsLeft(c)' = StepsLeft(c)
                                           ELSE StepsLeft(c)' < StepsLeft(c)]_vars

=============================================================================
