--------------------------- MODULE ConfmsgProofs ---------------------------
(***************************************************************************)
(* Proofs about Confmsg for any set of clients, any set of keys and any    *)
(* width of the version counter.                                           *)
(***************************************************************************)
EXTENDS Confmsg, TLAPS

(* The inductive invariant *)

\* What the refresh thread has established at each of its points: which of
\* the fields hold whole keys, and which of them name the same key.
ServerInv ==
  /\ rpc # "randomizing" => kp.current_key \in Keys
  /\ rpc \in {"advance", "randomize"} => kp.previous_key = kp.current_key
  /\ rpc = "randomizing" => kp.previous_key \in Keys
  /\ rpc \in {"idle", "stamp", "share", "sharing", "signing", "signing_share",
              "quote", "clear", "emplace"} => kp.previous_key # kp.current_key
  /\ rpc \in {"idle", "signing", "signing_share", "quote", "clear", "emplace"}
       => public_key = kp.current_key
  /\ rpc \in {"idle", "quote", "clear", "emplace"} => public_signing_key = kp.current_key
  /\ rpc # "emplace" => evidence \in Keys

BeforeCallback ==
  { "sign", "share", "signing_share", "version", "evidence", "key_response",
    "check", "recheck", "current", "previous", "ecdh", "callback" }

Exchanged == CallPoint \ { "idle", "sign", "share", "signing_share", "version",
                           "evidence", "key_response" }

\* Each attempt runs the callback at most once.
ExecInv(c) ==
  /\ call[c].executed <= call[c].attempt
  /\ pc[c] \in BeforeCallback => call[c].executed < call[c].attempt

HoldsCurrent(c) ==
  client[c].key = kp.current_key /\ client[c].version = kp.current_key_version

HoldsPrevious(c) ==
  /\ client[c].key = kp.previous_key
  /\ client[c].version = kp.previous_key_version
  /\ client[c].version # kp.current_key_version

\* What an undisturbed call knows at each of its points.
QuietInv(c) ==
  ~call[c].disturbed =>
    /\ rpc = "idle"
    /\ pc[c] \in {"share", "signing_share", "version", "evidence", "key_response"}
         => loc[c].signature = kp.current_key
    /\ pc[c] \in {"signing_share", "version", "evidence", "key_response"}
         => loc[c].share = kp.current_key
    /\ pc[c] \in {"version", "evidence", "key_response"}
         => loc[c].signing_share = kp.current_key
    /\ pc[c] \in {"evidence", "key_response"} => loc[c].version = kp.current_key_version
    /\ pc[c] = "key_response" => loc[c].quote = evidence
    /\ call[c].attempt = 2 /\ pc[c] \in Exchanged => HoldsCurrent(c)
    /\ pc[c] \in {"previous", "outdated_previous"}
         => client[c].version # kp.current_key_version
    /\ pc[c] = "ecdh" =>
         IF loc[c].slot = "current"
         THEN client[c].version = kp.current_key_version
         ELSE /\ client[c].version = kp.previous_key_version
              /\ client[c].version # kp.current_key_version
    /\ pc[c] \in {"callback", "outdated", "outdated_previous", "write", "response"}
         => HoldsCurrent(c) \/ HoldsPrevious(c)
    /\ pc[c] \in {"write", "response"}
         => (loc[c].outdated <=> client[c].version # kp.current_key_version)
    /\ pc[c] \in BeforeCallback => call[c].executed = 0
    /\ call[c].executed <= 1
    /\ pc[c] = "idle" /\ call[c].kind = "predict" =>
         /\ (c \in HostVerify => evidence = public_key)
              => call[c].result \notin {"crypto", "key_exchange"}
         /\ call[c].result = "ok" => client[c].outdated \/ HoldsCurrent(c)

Inv ==
  /\ TypeOK
  /\ ServerInv
  /\ \A c \in Clients : ExecInv(c) /\ QuietInv(c)

-----------------------------------------------------------------------------
(* Lemmas *)

\* Randomize draws a key that is not in use, whenever there is one.
LEMMA FreshKeyIsFresh ==
  ASSUME NEW used, Keys \ used # {}
  PROVE  FreshKey(used) \in Keys /\ FreshKey(used) \notin used
BY DEF FreshKey

\* The version counter stays within its width.
LEMMA NextVersionType ==
  ASSUME NEW v \in Version
  PROVE  NextVersion(v) \in Version
BY KeyProviderAssumption DEF NextVersion, Version

\* Handlers of client c change only what belongs to c.
LocalStep(c) ==
  /\ UNCHANGED serverVars
  /\ client' = [client EXCEPT ![c] = client'[c]]
  /\ call' = [call EXCEPT ![c] = call'[c]]
  /\ pc' = [pc EXCEPT ![c] = pc'[c]]
  /\ loc' = [loc EXCEPT ![c] = loc'[c]]

LocalType(c) ==
  client[c] \in Client /\ call[c] \in Call /\ pc[c] \in CallPoint /\ loc[c] \in Locals

\* A step of client c preserves the invariant if it does so for c.
LEMMA LocalStepInv ==
  ASSUME NEW c \in Clients, Inv, LocalStep(c), LocalType(c)', ExecInv(c)', QuietInv(c)'
  PROVE  Inv'
<1>1. TypeOK'
  BY DEF Inv, TypeOK, ServerTypeOK, LocalStep, LocalType, serverVars
<1>2. ServerInv'
  BY DEF Inv, ServerInv, LocalStep, serverVars
<1>3. ASSUME NEW d \in Clients
      PROVE  ExecInv(d)' /\ QuietInv(d)'
  <2>1. CASE d = c
    BY <2>1
  <2>2. CASE d # c
    <3>1. /\ client'[d] = client[d]
          /\ call'[d] = call[d]
          /\ pc'[d] = pc[d]
          /\ loc'[d] = loc[d]
      BY <2>2 DEF LocalStep, Inv, TypeOK
    <3>2. ExecInv(d) /\ QuietInv(d)
      BY DEF Inv
    <3>. QED
      BY <3>1, <3>2 DEF ExecInv, QuietInv, HoldsCurrent, HoldsPrevious, LocalStep, serverVars
  <2>. QED
    BY <2>1, <2>2
<1>. QED
  BY <1>1, <1>2, <1>3 DEF Inv

\* An exception ends a call: the invariant is preserved if an undisturbed
\* predict does not end this way for its key.
LEMMA FinishStep ==
  ASSUME NEW c \in Clients, Inv,
         NEW r \in {"crypto", "key_exchange", "rejected", "connection"},
         Finish(c, r), UNCHANGED <<client, serverVars>>,
         /\ ~call[c].disturbed /\ call[c].kind = "predict"
         /\ c \in HostVerify => evidence = public_key
         => r \notin {"crypto", "key_exchange"}
  PROVE  Inv'
<1>1. LocalType(c) /\ ExecInv(c) /\ QuietInv(c)
  BY DEF Inv, TypeOK, LocalType
<1>2. LocalStep(c)
  BY DEF Finish, LocalStep, Inv, TypeOK
<1>3. /\ pc'[c] = "idle"
      /\ call'[c] = [call[c] EXCEPT !.result = r]
      /\ loc'[c] = NoLocals
      /\ client'[c] = client[c]
  BY DEF Finish, Inv, TypeOK
<1>4. NoLocals \in Locals
  BY KeyProviderAssumption DEF NoLocals, Locals, KeyMaterial, Version
<1>5. LocalType(c)'
  BY <1>1, <1>3, <1>4 DEF LocalType, Call, CallPoint
<1>6. ExecInv(c)'
  BY <1>1, <1>3 DEF LocalType, Call, ExecInv, BeforeCallback
<1>7. QuietInv(c)'
  <2>1. /\ call'[c].disturbed = call[c].disturbed
        /\ call'[c].kind = call[c].kind
        /\ call'[c].executed = call[c].executed
        /\ call'[c].result = r
    BY <1>1, <1>3 DEF LocalType, Call
  <2>. QED
    BY <1>1, <1>3, <2>1 DEF QuietInv, BeforeCallback, Exchanged, serverVars
<1>. QED
  BY <1>2, <1>5, <1>6, <1>7, LocalStepInv

\* A crypto error sends an undisturbed predict round once, before its callback
\* ran, and never after a key exchange of the same call.
LEMMA CryptoErrorStep ==
  ASSUME NEW c \in Clients, Inv,
         CryptoError(c), UNCHANGED <<client, serverVars>>,
         ~call[c].disturbed => call[c].attempt = 1 /\ call[c].executed = 0
  PROVE  Inv'
<1>1. LocalType(c) /\ ExecInv(c) /\ QuietInv(c)
  BY DEF Inv, TypeOK, LocalType
<1>2. CASE call[c].kind = "predict" /\ call[c].attempt = 1
  <2>1. LocalStep(c)
    BY <1>2 DEF CryptoError, LocalStep, Inv, TypeOK
  <2>2. /\ pc'[c] = "sign"
        /\ call'[c] = [call[c] EXCEPT !.attempt = 2]
        /\ loc'[c] = NoLocals
        /\ client'[c] = client[c]
    BY <1>2 DEF CryptoError, Inv, TypeOK
  <2>3. NoLocals \in Locals
    BY KeyProviderAssumption DEF NoLocals, Locals, KeyMaterial, Version
  <2>4. LocalType(c)'
    BY <1>1, <2>2, <2>3 DEF LocalType, Call, CallPoint
  <2>5. /\ call'[c].disturbed = call[c].disturbed
        /\ call'[c].kind = call[c].kind
        /\ call'[c].executed = call[c].executed
        /\ call'[c].attempt = 2
    BY <1>1, <2>2 DEF LocalType, Call
  <2>6. ExecInv(c)'
    BY <1>1, <1>2, <2>2, <2>5 DEF LocalType, Call, ExecInv, BeforeCallback
  <2>7. QuietInv(c)'
    BY <1>1, <2>2, <2>5 DEF QuietInv, BeforeCallback, Exchanged, serverVars
  <2>. QED
    BY <2>1, <2>4, <2>6, <2>7, LocalStepInv
<1>3. CASE ~(call[c].kind = "predict" /\ call[c].attempt = 1)
  <2>1. Finish(c, "crypto")
    BY <1>3 DEF CryptoError
  <2>. QED
    BY <1>3, <2>1, FinishStep
<1>. QED
  BY <1>2, <1>3

\* The reads of HandleKeyRequest preserve the invariant.
LEMMA KeyRequestSteps ==
  ASSUME NEW c \in Clients, Inv,
         SignIdentity(c)
           \/ ReadPublicKey(c)
           \/ ReadSigningKey(c)
           \/ ReadKeyVersion(c)
           \/ ReadEvidence(c)
  PROVE  Inv'
<1>1. LocalType(c) /\ ExecInv(c) /\ QuietInv(c) /\ ServerTypeOK /\ ServerInv
  BY DEF Inv, TypeOK, LocalType
<1>2. CASE SignIdentity(c)
  <2>1. LocalStep(c)
    BY <1>2 DEF SignIdentity, Step, LocalStep, Inv, TypeOK
  <2>2. /\ pc[c] = "sign" /\ pc'[c] = "share"
        /\ loc'[c] = [loc[c] EXCEPT !.signature = kp.current_key]
        /\ client'[c] = client[c] /\ call'[c] = call[c]
    BY <1>1, <1>2 DEF SignIdentity, Step, Inv, TypeOK
  <2>3. LocalType(c)'
    BY <1>1, <2>2 DEF LocalType, CallPoint, Locals, ServerTypeOK, Provider
  <2>4. ExecInv(c)'
    BY <1>1, <2>2 DEF LocalType, Call, ExecInv, BeforeCallback
  <2>5. QuietInv(c)'
    BY <1>1, <2>1, <2>2 DEF LocalStep, serverVars, LocalType, Call, Locals, Client, QuietInv,
         HoldsCurrent, HoldsPrevious, BeforeCallback, Exchanged, CallPoint, ServerInv
  <2>. QED
    BY <2>1, <2>3, <2>4, <2>5, LocalStepInv
<1>3. CASE ReadPublicKey(c)
  <2>1. LocalStep(c)
    BY <1>3 DEF ReadPublicKey, Step, LocalStep, Inv, TypeOK
  <2>2. /\ pc[c] = "share" /\ pc'[c] = "signing_share"
        /\ loc'[c] = [loc[c] EXCEPT !.share = public_key]
        /\ client'[c] = client[c] /\ call'[c] = call[c]
    BY <1>1, <1>3 DEF ReadPublicKey, Step, Inv, TypeOK
  <2>3. LocalType(c)'
    BY <1>1, <2>2 DEF LocalType, CallPoint, Locals, ServerTypeOK, Provider
  <2>4. ExecInv(c)'
    BY <1>1, <2>2 DEF LocalType, Call, ExecInv, BeforeCallback
  <2>5. QuietInv(c)'
    BY <1>1, <2>1, <2>2 DEF LocalStep, serverVars, LocalType, Call, Locals, Client, QuietInv,
         HoldsCurrent, HoldsPrevious, BeforeCallback, Exchanged, CallPoint, ServerInv
  <2>. QED
    BY <2>1, <2>3, <2>4, <2>5, LocalStepInv
<1>4. CASE ReadSigningKey(c)
  <2>1. LocalStep(c)
    BY <1>4 DEF ReadSigningKey, Step, LocalStep, Inv, TypeOK
  <2>2. /\ pc[c] = "signing_share" /\ pc'[c] = "version"
        /\ loc'[c] = [loc[c] EXCEPT !.signing_share = public_signing_key]
        /\ client'[c] = client[c] /\ call'[c] = call[c]
    BY <1>1, <1>4 DEF ReadSigningKey, Step, Inv, TypeOK
  <2>3. LocalType(c)'
    BY <1>1, <2>2 DEF LocalType, CallPoint, Locals, ServerTypeOK, Provider
  <2>4. ExecInv(c)'
    BY <1>1, <2>2 DEF LocalType, Call, ExecInv, BeforeCallback
  <2>5. QuietInv(c)'
    BY <1>1, <2>1, <2>2 DEF LocalStep, serverVars, LocalType, Call, Locals, Client, QuietInv,
         HoldsCurrent, HoldsPrevious, BeforeCallback, Exchanged, CallPoint, ServerInv
  <2>. QED
    BY <2>1, <2>3, <2>4, <2>5, LocalStepInv
<1>5. CASE ReadKeyVersion(c)
  <2>1. LocalStep(c)
    BY <1>5 DEF ReadKeyVersion, Step, LocalStep, Inv, TypeOK
  <2>2. /\ pc[c] = "version" /\ pc'[c] = "evidence"
        /\ loc'[c] = [loc[c] EXCEPT !.version = kp.current_key_version]
        /\ client'[c] = client[c] /\ call'[c] = call[c]
    BY <1>1, <1>5 DEF ReadKeyVersion, Step, Inv, TypeOK
  <2>3. LocalType(c)'
    BY <1>1, <2>2 DEF LocalType, CallPoint, Locals, ServerTypeOK, Provider
  <2>4. ExecInv(c)'
    BY <1>1, <2>2 DEF LocalType, Call, ExecInv, BeforeCallback
  <2>5. QuietInv(c)'
    BY <1>1, <2>1, <2>2 DEF LocalStep, serverVars, LocalType, Call, Locals, Client, QuietInv,
         HoldsCurrent, HoldsPrevious, BeforeCallback, Exchanged, CallPoint, ServerInv
  <2>. QED
    BY <2>1, <2>3, <2>4, <2>5, LocalStepInv
<1>6. CASE ReadEvidence(c)
  <2>0. PICK q \in IF evidence = Torn THEN {Torn, NoQuote} ELSE {evidence} :
          loc' = [loc EXCEPT ![c].quote = q]
    BY <1>6 DEF ReadEvidence
  <2>1. LocalStep(c)
    BY <1>6, <2>0 DEF ReadEvidence, Step, LocalStep, Inv, TypeOK
  <2>2. /\ pc[c] = "evidence" /\ pc'[c] = "key_response"
        /\ loc'[c] = [loc[c] EXCEPT !.quote = q]
        /\ client'[c] = client[c] /\ call'[c] = call[c]
    BY <1>1, <1>6, <2>0 DEF ReadEvidence, Step, Inv, TypeOK
  <2>3. LocalType(c)'
    BY <1>1, <2>0, <2>2 DEF KeyMaterial, LocalType, CallPoint, Locals, ServerTypeOK, Provider
  <2>4. ExecInv(c)'
    BY <1>1, <2>2 DEF LocalType, Call, ExecInv, BeforeCallback
  <2>5. QuietInv(c)'
    BY <1>1, <2>0, <2>1, <2>2, KeyProviderAssumption DEF LocalStep, serverVars, LocalType, Call, Locals, Client, QuietInv,
         HoldsCurrent, HoldsPrevious, BeforeCallback, Exchanged, CallPoint, ServerInv
  <2>. QED
    BY <2>1, <2>3, <2>4, <2>5, LocalStepInv
<1>. QED
  BY <1>2, <1>3, <1>4, <1>5, <1>6

\* The client's decision on a key response preserves the invariant.
LEMMA KeyResponseSteps ==
  ASSUME NEW c \in Clients, Inv,
         KeyResponseAccepted(c)
           \/ KeyResponseRejected(c)
  PROVE  Inv'
<1>1. LocalType(c) /\ ExecInv(c) /\ QuietInv(c) /\ ServerTypeOK /\ ServerInv
  BY DEF Inv, TypeOK, LocalType
<1>2. CASE KeyResponseAccepted(c)
  <2>1. LocalStep(c)
    BY <1>2 DEF KeyResponseAccepted, Step, LocalStep, Inv, TypeOK
  <2>2. /\ pc[c] = "key_response" /\ pc'[c] = "check"
        /\ loc'[c] = NoLocals /\ NoLocals \in Locals
        /\ client'[c] = [key |-> loc[c].share, version |-> loc[c].version, outdated |-> FALSE]
        /\ call'[c] = call[c]
    BY <1>1, <1>2, KeyProviderAssumption DEF KeyResponseAccepted, Step, Inv, TypeOK, NoLocals, Locals, KeyMaterial, Version
  <2>3. LocalType(c)'
    BY <1>1, <2>2 DEF LocalType, CallPoint, Call, Locals, Client
  <2>4. ExecInv(c)'
    BY <1>1, <2>2 DEF LocalType, Call, ExecInv, BeforeCallback
  <2>5. QuietInv(c)'
    <3>1. ASSUME ~call[c].disturbed
          PROVE  rpc' = "idle" /\ HoldsCurrent(c)' /\ call[c].executed = 0
      <4>1. loc[c].share = kp.current_key /\ loc[c].version = kp.current_key_version
            /\ rpc = "idle" /\ call[c].executed = 0
        BY <1>1, <2>2, <3>1 DEF QuietInv, BeforeCallback
      <4>. QED
        BY <2>1, <2>2, <4>1 DEF LocalStep, serverVars, HoldsCurrent
    <3>. QED
      BY <2>2, <3>1 DEF QuietInv
  <2>. QED
    BY <2>1, <2>3, <2>4, <2>5, LocalStepInv
<1>3. CASE KeyResponseRejected(c)
  <2>1. /\ ~call[c].disturbed /\ call[c].kind = "predict"
        /\ c \in HostVerify => evidence = public_key
        => FALSE
    BY <1>1, <1>3, NoQuoteAssumption, ClientAssumption
       DEF KeyResponseRejected, SignatureValid, QuoteAccepted, VerifyQuote, SameKey, QuietInv, ServerInv, KeyMaterial
  <2>. QED
    BY <1>3, <2>1, FinishStep DEF KeyResponseRejected
<1>. QED
  BY <1>2, <1>3

\* The choice of the key in HandleRequest preserves the invariant.
LEMMA GetKeySteps ==
  ASSUME NEW c \in Clients, Inv,
         CheckVersion(c)
           \/ RecheckVersion(c)
           \/ GetKeyCurrent(c)
           \/ GetKeyPrevious(c)
           \/ ComputeSharedSecret(c)
  PROVE  Inv'
<1>1. LocalType(c) /\ ExecInv(c) /\ QuietInv(c) /\ ServerTypeOK /\ ServerInv
  BY DEF Inv, TypeOK, LocalType
<1>2. CASE CheckVersion(c)
  <2>1. LocalStep(c)
    BY <1>2 DEF CheckVersion, Step, LocalStep, Inv, TypeOK
  <2>2. /\ pc[c] = "check" /\ pc'[c] \in {"recheck", "current"}
        /\ loc'[c] = loc[c] /\ client'[c] = client[c] /\ call'[c] = call[c]
    BY <1>1, <1>2 DEF CheckVersion, Step, Inv, TypeOK
  <2>3. LocalType(c)'
    BY <1>1, <2>2 DEF LocalType, CallPoint, Call, Locals
  <2>4. ExecInv(c)'
    BY <1>1, <2>2 DEF LocalType, Call, ExecInv, BeforeCallback
  <2>5. QuietInv(c)'
    BY <1>1, <2>1, <2>2 DEF LocalStep, serverVars, LocalType, Call, Locals, Client, QuietInv,
         HoldsCurrent, HoldsPrevious, BeforeCallback, Exchanged, CallPoint
  <2>. QED
    BY <2>1, <2>3, <2>4, <2>5, LocalStepInv
<1>3. CASE RecheckVersion(c)
  <2>1. CASE client[c].version <= kp.current_key_version
    <3>1. LocalStep(c)
      BY <1>3, <2>1 DEF RecheckVersion, Step, LocalStep, Inv, TypeOK, ServerTypeOK, Provider, LocalType, Client, Version
    <3>2. /\ pc[c] = "recheck" /\ pc'[c] = "current"
          /\ loc'[c] = loc[c] /\ client'[c] = client[c] /\ call'[c] = call[c]
      BY <1>1, <1>3, <2>1 DEF RecheckVersion, Step, Inv, TypeOK, ServerTypeOK, Provider, LocalType, Client, Version
    <3>3. LocalType(c)'
      BY <1>1, <3>2 DEF LocalType, CallPoint, Call, Locals
    <3>4. ExecInv(c)'
      BY <1>1, <3>2 DEF LocalType, Call, ExecInv, BeforeCallback
    <3>5. QuietInv(c)'
      BY <1>1, <2>1, <3>1, <3>2 DEF LocalStep, serverVars, LocalType, Call, Locals, Client, QuietInv,
           HoldsCurrent, HoldsPrevious, BeforeCallback, Exchanged, CallPoint
    <3>. QED
      BY <3>1, <3>3, <3>4, <3>5, LocalStepInv
  <2>2. CASE ~(client[c].version <= kp.current_key_version)
    <3>1. CryptoError(c) /\ UNCHANGED <<client, serverVars>>
      BY <1>1, <1>3, <2>2 DEF RecheckVersion, ServerTypeOK, Provider, LocalType, Client, Version
    <3>2. ~call[c].disturbed => call[c].attempt = 1 /\ call[c].executed = 0
      BY <1>1, <1>3, <2>2 DEF RecheckVersion, ServerTypeOK, Provider, LocalType, Client, Version, LocalType, Call, Client, Version, QuietInv,
           HoldsCurrent, HoldsPrevious, BeforeCallback, Exchanged, CallPoint, ServerInv
    <3>. QED
      BY <3>1, <3>2, CryptoErrorStep
  <2>. QED
    BY <2>1, <2>2
<1>4. CASE GetKeyCurrent(c)
  <2>1. LocalStep(c)
    BY <1>4 DEF GetKeyCurrent, Step, LocalStep, Inv, TypeOK
  <2>2. /\ pc[c] = "current"
        /\ IF client[c].version = kp.current_key_version
           THEN pc'[c] = "ecdh" /\ loc'[c] = [loc[c] EXCEPT !.slot = "current"]
           ELSE pc'[c] = "previous" /\ loc'[c] = loc[c]
        /\ client'[c] = client[c] /\ call'[c] = call[c]
    BY <1>1, <1>4 DEF GetKeyCurrent, Step, Inv, TypeOK, CurrentMatches
  <2>3. LocalType(c)'
    BY <1>1, <2>2 DEF LocalType, CallPoint, Call, Locals
  <2>4. ExecInv(c)'
    BY <1>1, <2>2 DEF LocalType, Call, ExecInv, BeforeCallback
  <2>5. QuietInv(c)'
    BY <1>1, <2>1, <2>2 DEF LocalStep, serverVars, LocalType, Call, Locals, Client, QuietInv,
         HoldsCurrent, HoldsPrevious, BeforeCallback, Exchanged, CallPoint
  <2>. QED
    BY <2>1, <2>3, <2>4, <2>5, LocalStepInv
<1>5. CASE GetKeyPrevious(c)
  <2>1. CASE client[c].version = kp.previous_key_version
    <3>1. LocalStep(c)
      BY <1>5, <2>1 DEF GetKeyPrevious, Step, LocalStep, Inv, TypeOK, PreviousMatches
    <3>2. /\ pc[c] = "previous" /\ pc'[c] = "ecdh"
          /\ loc'[c] = [loc[c] EXCEPT !.slot = "previous"]
          /\ client'[c] = client[c] /\ call'[c] = call[c]
      BY <1>1, <1>5, <2>1 DEF GetKeyPrevious, Step, Inv, TypeOK, PreviousMatches
    <3>3. LocalType(c)'
      BY <1>1, <3>2 DEF LocalType, CallPoint, Call, Locals
    <3>4. ExecInv(c)'
      BY <1>1, <3>2 DEF LocalType, Call, ExecInv, BeforeCallback
    <3>5. QuietInv(c)'
      BY <1>1, <2>1, <3>1, <3>2 DEF LocalStep, serverVars, LocalType, Call, Locals, Client, QuietInv,
           HoldsCurrent, HoldsPrevious, BeforeCallback, Exchanged, CallPoint
    <3>. QED
      BY <3>1, <3>3, <3>4, <3>5, LocalStepInv
  <2>2. CASE ~(client[c].version = kp.previous_key_version)
    <3>1. CryptoError(c) /\ UNCHANGED <<client, serverVars>>
      BY <1>5, <2>2 DEF GetKeyPrevious, PreviousMatches
    <3>2. ~call[c].disturbed => call[c].attempt = 1 /\ call[c].executed = 0
      BY <1>1, <1>5, <2>2 DEF GetKeyPrevious, PreviousMatches, LocalType, Call, Client, Version, QuietInv,
           HoldsCurrent, HoldsPrevious, BeforeCallback, Exchanged, CallPoint, ServerInv
    <3>. QED
      BY <3>1, <3>2, CryptoErrorStep
  <2>. QED
    BY <2>1, <2>2
<1>6. CASE ComputeSharedSecret(c)
  <2>1. CASE SameKey(client[c].key, SlotKey(loc[c].slot))
    <3>1. LocalStep(c)
      BY <1>6, <2>1 DEF ComputeSharedSecret, Step, LocalStep, Inv, TypeOK
    <3>2. /\ pc[c] = "ecdh" /\ pc'[c] = "callback"
          /\ loc'[c] = [loc[c] EXCEPT !.secret = SlotKey(loc[c].slot)]
          /\ client'[c] = client[c] /\ call'[c] = call[c]
      BY <1>1, <1>6, <2>1 DEF ComputeSharedSecret, Step, Inv, TypeOK
    <3>3. LocalType(c)'
      BY <1>1, <3>2 DEF LocalType, CallPoint, Call, Locals, SlotKey, ServerTypeOK, Provider
    <3>4. ExecInv(c)'
      BY <1>1, <3>2 DEF LocalType, Call, ExecInv, BeforeCallback
    <3>5. QuietInv(c)'
      BY <1>1, <2>1, <3>1, <3>2 DEF LocalStep, serverVars, LocalType, Call, Locals, Client, QuietInv,
           HoldsCurrent, HoldsPrevious, BeforeCallback, Exchanged, CallPoint, SameKey, SlotKey
    <3>. QED
      BY <3>1, <3>3, <3>4, <3>5, LocalStepInv
  <2>2. CASE ~(SameKey(client[c].key, SlotKey(loc[c].slot)))
    <3>1. CryptoError(c) /\ UNCHANGED <<client, serverVars>>
      BY <1>6, <2>2 DEF ComputeSharedSecret
    <3>2. ~call[c].disturbed => call[c].attempt = 1 /\ call[c].executed = 0
      BY <1>1, <1>6, <2>2 DEF ComputeSharedSecret, SameKey, SlotKey, Locals, LocalType, Call, Client, Version, QuietInv,
           HoldsCurrent, HoldsPrevious, BeforeCallback, Exchanged, CallPoint, ServerInv
    <3>. QED
      BY <3>1, <3>2, CryptoErrorStep
  <2>. QED
    BY <2>1, <2>2
<1>. QED
  BY <1>2, <1>3, <1>4, <1>5, <1>6

\* The rest of HandleRequest, from the callback on, preserves the invariant.
LEMMA CallbackSteps ==
  ASSUME NEW c \in Clients, Inv,
         RunCallback(c)
           \/ CallbackThrows(c)
           \/ IsKeyOutdatedCurrent(c)
           \/ IsKeyOutdatedPrevious(c)
           \/ WriteMessage(c)
           \/ WriteMessageThrows(c)
  PROVE  Inv'
<1>1. LocalType(c) /\ ExecInv(c) /\ QuietInv(c) /\ ServerTypeOK /\ ServerInv
  BY DEF Inv, TypeOK, LocalType
<1>2. CASE RunCallback(c)
  <2>1. LocalStep(c)
    BY <1>2 DEF RunCallback, Step, LocalStep, Inv, TypeOK
  <2>2. /\ pc[c] = "callback" /\ pc'[c] = "outdated"
        /\ call'[c] = [call[c] EXCEPT !.executed = call[c].executed + 1]
        /\ client'[c] = client[c] /\ loc'[c] = loc[c]
    BY <1>1, <1>2 DEF RunCallback, Step, Inv, TypeOK
  <2>3. LocalType(c)'
    BY <1>1, <2>2 DEF LocalType, CallPoint, Call, Locals, ExecInv, BeforeCallback
  <2>4. ExecInv(c)'
    BY <1>1, <2>2 DEF LocalType, Call, ExecInv, BeforeCallback
  <2>5. QuietInv(c)'
    BY <1>1, <2>1, <2>2 DEF LocalStep, serverVars, LocalType, Call, Locals, Client, QuietInv,
         HoldsCurrent, HoldsPrevious, BeforeCallback, Exchanged, CallPoint
  <2>. QED
    BY <2>1, <2>3, <2>4, <2>5, LocalStepInv
<1>3. CASE CallbackThrows(c)
  BY <1>3, FinishStep DEF CallbackThrows
<1>4. CASE IsKeyOutdatedCurrent(c)
  <2>1. LocalStep(c)
    BY <1>4 DEF IsKeyOutdatedCurrent, Step, LocalStep, Inv, TypeOK
  <2>2. /\ pc[c] = "outdated"
        /\ IF client[c].version = kp.current_key_version
           THEN pc'[c] = "write" /\ loc'[c] = [loc[c] EXCEPT !.outdated = FALSE]
           ELSE pc'[c] = "outdated_previous" /\ loc'[c] = loc[c]
        /\ client'[c] = client[c] /\ call'[c] = call[c]
    BY <1>1, <1>4 DEF IsKeyOutdatedCurrent, Step, Inv, TypeOK, CurrentMatches
  <2>3. LocalType(c)'
    <3>1. loc[c] \in Locals /\ [loc[c] EXCEPT !.outdated = FALSE] \in Locals
      BY <1>1 DEF LocalType, Locals
    <3>2. pc'[c] \in CallPoint /\ loc'[c] \in Locals
      BY <2>2, <3>1 DEF CallPoint
    <3>. QED
      BY <1>1, <2>2, <3>2 DEF LocalType
  <2>4. ExecInv(c)'
    BY <1>1, <2>2 DEF LocalType, Call, ExecInv, BeforeCallback
  <2>5. QuietInv(c)'
    BY <1>1, <2>1, <2>2 DEF LocalStep, serverVars, LocalType, Call, Locals, Client, QuietInv,
         HoldsCurrent, HoldsPrevious, BeforeCallback, Exchanged, CallPoint
  <2>. QED
    BY <2>1, <2>3, <2>4, <2>5, LocalStepInv
<1>5. CASE IsKeyOutdatedPrevious(c)
  <2>1. CASE client[c].version = kp.previous_key_version
    <3>1. LocalStep(c)
      BY <1>5, <2>1 DEF IsKeyOutdatedPrevious, Step, LocalStep, Inv, TypeOK, PreviousMatches
    <3>2. /\ pc[c] = "outdated_previous" /\ pc'[c] = "write"
          /\ loc'[c] = [loc[c] EXCEPT !.outdated = TRUE]
          /\ client'[c] = client[c] /\ call'[c] = call[c]
      BY <1>1, <1>5, <2>1 DEF IsKeyOutdatedPrevious, Step, Inv, TypeOK, PreviousMatches
    <3>3. LocalType(c)'
      BY <1>1, <3>2 DEF LocalType, CallPoint, Call, Locals
    <3>4. ExecInv(c)'
      BY <1>1, <3>2 DEF LocalType, Call, ExecInv, BeforeCallback
    <3>5. QuietInv(c)'
      BY <1>1, <2>1, <3>1, <3>2 DEF LocalStep, serverVars, LocalType, Call, Locals, Client, QuietInv,
           HoldsCurrent, HoldsPrevious, BeforeCallback, Exchanged, CallPoint
    <3>. QED
      BY <3>1, <3>3, <3>4, <3>5, LocalStepInv
  <2>2. CASE ~(client[c].version = kp.previous_key_version)
    <3>1. CryptoError(c) /\ UNCHANGED <<client, serverVars>>
      BY <1>5, <2>2 DEF IsKeyOutdatedPrevious, PreviousMatches
    <3>2. ~call[c].disturbed => call[c].attempt = 1 /\ call[c].executed = 0
      BY <1>1, <1>5, <2>2 DEF IsKeyOutdatedPrevious, PreviousMatches, LocalType, Call, Client, Version, QuietInv,
           HoldsCurrent, HoldsPrevious, BeforeCallback, Exchanged, CallPoint, ServerInv
    <3>. QED
      BY <3>1, <3>2, CryptoErrorStep
  <2>. QED
    BY <2>1, <2>2
<1>6. CASE WriteMessage(c)
  <2>1. LocalStep(c)
    BY <1>6 DEF WriteMessage, Step, LocalStep, Inv, TypeOK
  <2>2. /\ pc[c] = "write" /\ pc'[c] = "response"
        /\ loc'[c] = loc[c] /\ client'[c] = client[c] /\ call'[c] = call[c]
    BY <1>1, <1>6 DEF WriteMessage, Step, Inv, TypeOK
  <2>3. LocalType(c)'
    BY <1>1, <2>2 DEF LocalType, CallPoint, Call, Locals
  <2>4. ExecInv(c)'
    BY <1>1, <2>2 DEF LocalType, Call, ExecInv, BeforeCallback
  <2>5. QuietInv(c)'
    BY <1>1, <2>1, <2>2 DEF LocalStep, serverVars, LocalType, Call, Locals, Client, QuietInv,
         HoldsCurrent, HoldsPrevious, BeforeCallback, Exchanged, CallPoint
  <2>. QED
    BY <2>1, <2>3, <2>4, <2>5, LocalStepInv
<1>7. CASE WriteMessageThrows(c)
  BY <1>7, FinishStep DEF WriteMessageThrows
<1>. QED
  BY <1>2, <1>3, <1>4, <1>5, <1>6, <1>7

\* The end of a call preserves the invariant.
LEMMA ReturnSteps ==
  ASSUME NEW c \in Clients, Inv,
         ReceiveResponse(c)
           \/ ConnectionLost(c)
  PROVE  Inv'
<1>1. LocalType(c) /\ ExecInv(c) /\ QuietInv(c) /\ ServerTypeOK /\ ServerInv
  BY DEF Inv, TypeOK, LocalType
<1>2. CASE ReceiveResponse(c)
  <2>1. LocalStep(c)
    BY <1>2 DEF ReceiveResponse, Finish, LocalStep, Inv, TypeOK
  <2>2. /\ pc[c] = "response" /\ pc'[c] = "idle"
        /\ loc'[c] = NoLocals /\ NoLocals \in Locals
        /\ client'[c] = [client[c] EXCEPT !.outdated =
                            client[c].outdated \/ (call[c].kind = "predict" /\ loc[c].outdated)]
        /\ call'[c] = [call[c] EXCEPT !.result = "ok"]
    BY <1>1, <1>2, KeyProviderAssumption DEF ReceiveResponse, Finish, Inv, TypeOK, NoLocals, Locals, KeyMaterial, Version
  <2>3. LocalType(c)'
    BY <1>1, <2>2 DEF LocalType, CallPoint, Call, Locals, Client
  <2>4. ExecInv(c)'
    BY <1>1, <2>2 DEF LocalType, Call, ExecInv, BeforeCallback
  <2>5. QuietInv(c)'
    BY <1>1, <2>1, <2>2 DEF LocalStep, serverVars, LocalType, Call, Locals, Client, QuietInv,
         HoldsCurrent, HoldsPrevious, BeforeCallback, Exchanged, CallPoint
  <2>. QED
    BY <2>1, <2>3, <2>4, <2>5, LocalStepInv
<1>3. CASE ConnectionLost(c)
  BY <1>3, FinishStep DEF ConnectionLost
<1>. QED
  BY <1>2, <1>3

\* The record of a client that has not called yet is a call record.
LEMMA NoCallType == NoCall \in Call
BY DEF NoCall, Call

\* The start of a call preserves the invariant.
LEMMA StartCallStep ==
  ASSUME NEW c \in Clients, NEW kind \in {"predict", "provision"}, Inv, StartCall(c, kind)
  PROVE  Inv'
<1>1. LocalType(c) /\ ExecInv(c) /\ QuietInv(c)
  BY DEF Inv, TypeOK, LocalType
<1>2. LocalStep(c)
  BY DEF StartCall, Step, LocalStep, Inv, TypeOK
<1>3. /\ pc'[c] \in {"sign", "check"}
      /\ call'[c] = [NoCall EXCEPT !.kind = kind, !.disturbed = rpc # "idle"]
      /\ client'[c] = client[c] /\ loc'[c] = loc[c]
  BY DEF StartCall, Step, Inv, TypeOK
<1>4. LocalType(c)'
  <2>1. CASE rpc = "idle"
    <3>1. call'[c] = [NoCall EXCEPT !.kind = kind, !.disturbed = FALSE]
      BY <1>3, <2>1
    <3>2. call'[c] \in Call
      BY <3>1, NoCallType DEF Call
    <3>. QED
      BY <1>1, <1>3, <3>2 DEF LocalType, CallPoint
  <2>2. CASE rpc # "idle"
    <3>1. call'[c] = [NoCall EXCEPT !.kind = kind, !.disturbed = TRUE]
      BY <1>3, <2>2
    <3>2. call'[c] \in Call
      BY <3>1, NoCallType DEF Call
    <3>. QED
      BY <1>1, <1>3, <3>2 DEF LocalType, CallPoint
  <2>. QED
    BY <2>1, <2>2
<1>5. ExecInv(c)'
  BY <1>3 DEF NoCall, ExecInv, BeforeCallback
<1>6. QuietInv(c)'
  <2>1. /\ call'[c].disturbed <=> rpc # "idle"
        /\ call'[c].attempt = 1
        /\ call'[c].executed = 0
    BY <1>3 DEF NoCall
  <2>. QED
    BY <1>2, <1>3, <2>1 DEF LocalStep, serverVars, QuietInv, Exchanged, CallPoint
<1>. QED
  BY <1>2, <1>4, <1>5, <1>6, LocalStepInv

\* Each step of a rollover preserves the types and what the refresh thread
\* knows, if Randomize draws a key other than the one just saved.
LEMMA RolloverStep ==
  ASSUME NEW k, ServerTypeOK, ServerInv, Rollover(k),
         rpc = "randomizing" => k \in Keys /\ k # kp.previous_key
  PROVE  ServerTypeOK' /\ ServerInv'
<1>. USE KeyProviderAssumption DEF Goto
<1>1. CASE SavePreviousVersion
  <2>1. ServerTypeOK'
    BY <1>1 DEF SavePreviousVersion, ServerTypeOK, Provider, KeyMaterial, RefreshPoint
  <2>2. ServerInv'
    BY <1>1 DEF SavePreviousVersion, ServerInv, ServerTypeOK, Provider, KeyMaterial, RefreshPoint
  <2>. QED
    BY <2>1, <2>2
<1>2. CASE SavePreviousKey
  <2>1. ServerTypeOK'
    BY <1>2 DEF SavePreviousKey, ServerTypeOK, Provider, KeyMaterial, RefreshPoint
  <2>2. ServerInv'
    BY <1>2 DEF SavePreviousKey, ServerInv, ServerTypeOK, Provider, KeyMaterial, RefreshPoint
  <2>. QED
    BY <2>1, <2>2
<1>3. CASE AdvanceVersion
  <2>1. ServerTypeOK'
    BY <1>3, NextVersionType DEF AdvanceVersion, ServerTypeOK, Provider, KeyMaterial, RefreshPoint
  <2>2. ServerInv'
    BY <1>3 DEF AdvanceVersion, ServerInv, ServerTypeOK, Provider, KeyMaterial, RefreshPoint
  <2>. QED
    BY <2>1, <2>2
<1>4. CASE RandomizeKey(k)
  <2>1. ServerTypeOK'
    BY <1>4 DEF RandomizeKey, ServerTypeOK, Provider, KeyMaterial, RefreshPoint
  <2>2. ServerInv'
    BY <1>4 DEF RandomizeKey, ServerInv, ServerTypeOK, Provider, KeyMaterial, RefreshPoint
  <2>. QED
    BY <2>1, <2>2
<1>5. CASE StampRefresh
  <2>1. ServerTypeOK'
    BY <1>5 DEF StampRefresh, ServerTypeOK, Provider, KeyMaterial, RefreshPoint
  <2>2. ServerInv'
    BY <1>5 DEF StampRefresh, ServerInv, ServerTypeOK, Provider, KeyMaterial, RefreshPoint
  <2>. QED
    BY <2>1, <2>2
<1>6. CASE MakePublicKeys
  <2>1. ServerTypeOK'
    BY <1>6 DEF MakePublicKeys, ServerTypeOK, Provider, KeyMaterial, RefreshPoint
  <2>2. ServerInv'
    BY <1>6 DEF MakePublicKeys, ServerInv, ServerTypeOK, Provider, KeyMaterial, RefreshPoint
  <2>. QED
    BY <2>1, <2>2
<1>7. CASE QuoteFails
  <2>1. ServerTypeOK'
    BY <1>7 DEF QuoteFails, ServerTypeOK, Provider, KeyMaterial, RefreshPoint
  <2>2. ServerInv'
    BY <1>7 DEF QuoteFails, ServerInv, ServerTypeOK, Provider, KeyMaterial, RefreshPoint
  <2>. QED
    BY <2>1, <2>2
<1>8. CASE GenerateQuote
  <2>1. ServerTypeOK'
    BY <1>8 DEF GenerateQuote, ServerTypeOK, Provider, KeyMaterial, RefreshPoint
  <2>2. ServerInv'
    BY <1>8 DEF GenerateQuote, ServerInv, ServerTypeOK, Provider, KeyMaterial, RefreshPoint
  <2>. QED
    BY <2>1, <2>2
<1>9. CASE UpdateEvidence
  <2>1. ServerTypeOK'
    BY <1>9 DEF UpdateEvidence, ServerTypeOK, Provider, KeyMaterial, RefreshPoint
  <2>2. ServerInv'
    BY <1>9 DEF UpdateEvidence, ServerInv, ServerTypeOK, Provider, KeyMaterial, RefreshPoint
  <2>. QED
    BY <2>1, <2>2
<1>. QED
  BY <1>1, <1>2, <1>3, <1>4, <1>5, <1>6, <1>7, <1>8, <1>9 DEF Rollover

\* Steps of the refresh thread preserve the invariant: a rollover disturbs
\* every call, and the other steps change no key.
LEMMA RefreshStep ==
  ASSUME Inv, RefreshThread
  PROVE  Inv'
<1>1. CASE BeginRollover
  <2>1. ServerTypeOK' /\ ServerInv'
    BY <1>1 DEF BeginRollover, StartRollover, Goto, Inv, TypeOK, ServerTypeOK, ServerInv, RefreshPoint
  <2>2. TypeOK'
    BY <1>1, <2>1 DEF BeginRollover, Disturb, Inv, TypeOK, Call
  <2>3. ASSUME NEW c \in Clients
        PROVE  ExecInv(c)' /\ QuietInv(c)'
    <3>1. /\ call'[c] = [call[c] EXCEPT !.disturbed = TRUE]
          /\ call[c] \in Call /\ pc' = pc
      BY <1>1 DEF BeginRollover, Disturb, Inv, TypeOK
    <3>2. ExecInv(c)
      BY DEF Inv
    <3>. QED
      BY <3>1, <3>2 DEF Call, ExecInv, QuietInv
  <2>. QED
    BY <2>1, <2>2, <2>3 DEF Inv
<1>2. CASE (IntervalElapses \/ SyncOnly) /\ UNCHANGED clientVars
  <2>1. ServerTypeOK' /\ ServerInv'
    <3>1. CASE IntervalElapses
      BY <3>1 DEF IntervalElapses, Inv, TypeOK, ServerTypeOK, ServerInv
    <3>2. CASE SyncOnly
      BY <3>2 DEF SyncOnly, Inv, TypeOK, ServerTypeOK, ServerInv
    <3>. QED
      BY <1>2, <3>1, <3>2
  <2>2. ASSUME NEW c \in Clients
        PROVE  ExecInv(c)' /\ QuietInv(c)'
    <3>1. ExecInv(c) /\ QuietInv(c)
      BY DEF Inv
    <3>2. /\ kp' = kp /\ rpc' = rpc /\ evidence' = evidence /\ public_key' = public_key
          /\ pc' = pc /\ call' = call /\ loc' = loc /\ client' = client
      BY <1>2 DEF IntervalElapses, SyncOnly, clientVars
    <3>3. ExecInv(c)'
      BY <3>1, <3>2 DEF ExecInv
    <3>4. QuietInv(c)'
      BY <3>1, <3>2 DEF QuietInv, HoldsCurrent, HoldsPrevious
    <3>. QED
      BY <3>3, <3>4
  <2>. QED
    BY <1>2, <2>1, <2>2 DEF Inv, TypeOK, clientVars
<1>3. CASE /\ CanRandomize(UsedKeys)
           /\ Rollover(FreshKey(UsedKeys))
           /\ UNCHANGED clientVars
  <2>1. rpc = "randomizing" => /\ FreshKey(UsedKeys) \in Keys
                               /\ FreshKey(UsedKeys) # kp.previous_key
    BY <1>3, FreshKeyIsFresh DEF CanRandomize, UsedKeys, ServerKeys
  <2>2. ServerTypeOK' /\ ServerInv'
    BY <1>3, <2>1, RolloverStep DEF Inv, TypeOK
  <2>3. rpc # "idle"
    BY <1>3 DEF Rollover, SavePreviousVersion, SavePreviousKey, AdvanceVersion, RandomizeKey,
         StampRefresh, MakePublicKeys, QuoteFails, GenerateQuote, UpdateEvidence, Goto
  <2>4. ASSUME NEW c \in Clients
        PROVE  ExecInv(c)' /\ QuietInv(c)'
    <3>1. ExecInv(c) /\ QuietInv(c)
      BY DEF Inv
    <3>. QED
      BY <1>3, <2>3, <3>1 DEF clientVars, ExecInv, QuietInv
  <2>. QED
    BY <1>3, <2>2, <2>4 DEF Inv, TypeOK, clientVars
<1>. QED
  BY <1>1, <1>2, <1>3 DEF RefreshThread

\* The constructor of provider and server establishes what the refresh thread
\* relies on.
LEMMA ConstructedInv ==
  ASSUME NEW v \in Version, NEW k \in Keys, ServerConstructed(v, k)
  PROVE  ServerTypeOK /\ ServerInv
BY NextVersionType, KeyProviderAssumption
   DEF ServerConstructed, Initialized, ServerTypeOK, Provider, KeyMaterial, RefreshPoint, ServerInv

\* A restart of the server preserves the invariant: running calls are disturbed.
LEMMA RestartStep ==
  ASSUME Inv, Restart
  PROVE  Inv'
<1>1. PICK v \in Version : ServerRestarts(v, FreshKey(UsedKeys))
  BY DEF Restart
<1>2. FreshKey(UsedKeys) \in Keys
  BY FreshKeyIsFresh DEF Restart
<1>3. ServerTypeOK' /\ ServerInv'
  BY <1>1, <1>2, NextVersionType, KeyProviderAssumption
     DEF ServerRestarts, Initialized, ServerTypeOK, Provider, KeyMaterial, RefreshPoint, ServerInv
<1>4. NoLocals \in Locals
  BY KeyProviderAssumption DEF NoLocals, Locals, KeyMaterial, Version
<1>5. TypeOK'
  BY <1>3, <1>4 DEF Restart, Inv, TypeOK, Call, CallPoint
<1>6. ASSUME NEW c \in Clients
      PROVE  ExecInv(c)' /\ QuietInv(c)'
  <2>1. /\ call'[c].executed = call[c].executed
        /\ call'[c].attempt = call[c].attempt
        /\ call'[c].disturbed = TRUE
        /\ pc'[c] = "idle" \/ pc'[c] = pc[c]
    BY DEF Restart, Inv, TypeOK, Call
  <2>2. ExecInv(c)
    BY DEF Inv
  <2>. QED
    BY <2>1, <2>2 DEF ExecInv, QuietInv, BeforeCallback
<1>. QED
  BY <1>3, <1>5, <1>6 DEF Inv

-----------------------------------------------------------------------------
(* Theorems *)

\* The invariant holds when the server has been constructed.
LEMMA InitInv == Init => Inv
<1>. SUFFICES ASSUME Init PROVE Inv
  OBVIOUS
<1>1. FreshKey({}) \in Keys
  BY FreshKeyIsFresh, KeyProviderAssumption
<1>2. ServerTypeOK /\ ServerInv /\ rpc = "idle"
  BY <1>1, ConstructedInv DEF Init, ServerConstructed
<1>3. TypeOK
  <2>1. NoLocals \in Locals
    BY KeyProviderAssumption DEF NoLocals, Locals, KeyMaterial, Version
  <2>2. ClientConstructed \in Client
    BY KeyProviderAssumption DEF ClientConstructed, Client, KeyMaterial, Version
  <2>. QED
    BY <1>2, <2>1, <2>2 DEF Init, TypeOK, NoCall, Call, CallPoint
<1>4. ASSUME NEW c \in Clients
      PROVE  ExecInv(c) /\ QuietInv(c)
  <2>1. pc[c] = "idle" /\ call[c] = NoCall
    BY DEF Init
  <2>2. /\ call[c].executed = 0 /\ call[c].attempt \in Nat
        /\ call[c].disturbed = NoCall.disturbed /\ call[c].kind = NoCall.kind
    BY <2>1 DEF NoCall
  <2>3. ExecInv(c)
    BY <2>1, <2>2 DEF ExecInv, BeforeCallback
  <2>4. QuietInv(c)
    BY <1>2, <2>1, <2>2 DEF QuietInv, NoCall, Exchanged
  <2>. QED
    BY <2>3, <2>4
<1>. QED
  BY <1>2, <1>3, <1>4 DEF Inv

\* Every step preserves the invariant.
LEMMA NextInv == Inv /\ [Next]_vars => Inv'
<1>. SUFFICES ASSUME Inv, [Next]_vars PROVE Inv'
  OBVIOUS
<1>1. ASSUME NEW c \in Clients, Handler(c) PROVE Inv'
  BY <1>1, KeyRequestSteps, KeyResponseSteps, GetKeySteps, CallbackSteps, ReturnSteps DEF Handler
<1>2. CASE UNCHANGED vars
  <2>1. UNCHANGED serverVars /\ UNCHANGED clientVars
    BY <1>2 DEF vars
  <2>2. TypeOK'
    BY <2>1 DEF serverVars, clientVars, Inv, TypeOK, ServerTypeOK
  <2>3. ServerInv'
    BY <2>1 DEF serverVars, Inv, ServerInv
  <2>4. ASSUME NEW c \in Clients
        PROVE  ExecInv(c)' /\ QuietInv(c)'
    <3>1. ExecInv(c) /\ QuietInv(c)
      BY DEF Inv
    <3>2. /\ kp' = kp /\ rpc' = rpc /\ evidence' = evidence /\ public_key' = public_key
          /\ pc' = pc /\ call' = call /\ loc' = loc /\ client' = client
      BY <2>1 DEF serverVars, clientVars
    <3>3. ExecInv(c)'
      BY <3>1, <3>2, Zenon DEF ExecInv
    <3>4. QuietInv(c)'
      BY <3>1, <3>2 DEF QuietInv, HoldsCurrent, HoldsPrevious
    <3>. QED
      BY <3>3, <3>4
  <2>. QED
    BY <2>2, <2>3, <2>4 DEF Inv
<1>. QED
  BY <1>1, <1>2, StartCallStep, ReturnSteps, RefreshStep, RestartStep DEF Next

\* In every behaviour the server's fields, the messages and the clients' state
\* keep their types, and the inductive invariant holds.
THEOREM Invariance == Spec => []Inv
BY InitInv, NextInv, PTL DEF Spec

\* Type correctness, for any number of clients and any width of the version
\* counter (keyprovider.h:85-86, which wraps around).
THEOREM TypeCorrect == Spec => []TypeOK
<1>1. Inv => TypeOK
  BY DEF Inv
<1>. QED
  BY <1>1, Invariance, PTL

\* predict's single retry (client.py:93-101) is enough: without a rollover or a
\* restart during the call, it is never refused for its key.
THEOREM QuietPredictSucceedsTheorem == Spec => []QuietPredictSucceeds
<1>1. Inv => QuietPredictSucceeds
  BY DEF Inv, QuietInv, QuietPredictSucceeds, QuietPredict
<1>. QED
  BY <1>1, Invariance, PTL

\* key_outdated (server/api.cc:198, client.py:113-114) tells the truth to a
\* client that no rollover disturbs.
THEOREM QuietPredictConvergesTheorem == Spec => []QuietPredictConverges
<1>1. Inv => QuietPredictConverges
  BY DEF Inv, QuietInv, QuietPredictConverges, QuietPredict, HoldsCurrent
<1>. QED
  BY <1>1, Invariance, PTL

\* Only a rollover or a restart under way can make the retry run a request that
\* was already run (IsKeyOutdated throwing after the callback).
THEOREM RepeatedOnlyIfDisturbedTheorem == Spec => []RepeatedOnlyIfDisturbed
<1>1. Inv => RepeatedOnlyIfDisturbed
  <2>1. ASSUME Inv, NEW c \in Clients, ~call[c].disturbed
        PROVE  ~(call[c].executed > 1)
    <3>1. QuietInv(c) /\ call[c] \in Call
      BY <2>1 DEF Inv, TypeOK
    <3>2. call[c].executed <= 1
      BY <2>1, <3>1, Zenon DEF QuietInv
    <3>3. call[c].executed \in 0 .. 2
      BY <3>1 DEF Call
    <3>. QED
      BY <3>2, <3>3
  <2>. QED
    BY <2>1 DEF RepeatedOnlyIfDisturbed
<1>. QED
  BY <1>1, Invariance, PTL

-----------------------------------------------------------------------------
(* A call ends after a bounded number of steps.                            *)

\* The record, entry by entry.
LEMMA Places ==
  /\ Place["sign"] = 1 /\ Place["share"] = 2 /\ Place["signing_share"] = 3
  /\ Place["version"] = 4 /\ Place["evidence"] = 5 /\ Place["key_response"] = 6
  /\ Place["check"] = 7 /\ Place["recheck"] = 8 /\ Place["current"] = 9
  /\ Place["previous"] = 10 /\ Place["ecdh"] = 11 /\ Place["callback"] = 12
  /\ Place["outdated"] = 13 /\ Place["outdated_previous"] = 14
  /\ Place["write"] = 15 /\ Place["response"] = 16
BY DEF Place

\* A call that moves on to a later point, ends or starts its one retry has
\* fewer steps left.
LEMMA FewerLeft ==
  ASSUME NEW c \in Clients, pc[c] \in CallPoint \ {"idle"},
         \/ pc'[c] = "idle"
         \/ /\ pc'[c] \in CallPoint \ {"idle"} /\ Place[pc[c]] < Place[pc'[c]]
            /\ call'[c].kind = call[c].kind /\ call'[c].attempt = call[c].attempt
         \/ pc'[c] = "sign" /\ Retries(c) /\ call'[c].attempt = 2
  PROVE  StepsLeft(c)' < StepsLeft(c)
<1> HIDE DEF Place
<1>1. \A p \in CallPoint \ {"idle"} : Place[p] \in 1..16
  BY Places DEF CallPoint
<1>2. Place["sign"] = 1
  BY Places
<1>3. StepsLeft(c) = 17 - Place[pc[c]] + (IF Retries(c) THEN 16 ELSE 0)
  BY DEF StepsLeft
<1>4. CASE pc'[c] = "idle"
  <2>1. StepsLeft(c)' = 0
    BY <1>4 DEF StepsLeft
  <2>. QED
    BY <1>1, <1>3, <2>1
<1>5. CASE /\ pc'[c] \in CallPoint \ {"idle"} /\ Place[pc[c]] < Place[pc'[c]]
           /\ call'[c].kind = call[c].kind /\ call'[c].attempt = call[c].attempt
  <2>1. StepsLeft(c)' = 17 - Place[pc'[c]] + (IF Retries(c) THEN 16 ELSE 0)
    BY <1>5 DEF StepsLeft, Retries
  <2>. QED
    BY <1>1, <1>3, <1>5, <2>1
<1>6. CASE pc'[c] = "sign" /\ Retries(c) /\ call'[c].attempt = 2
  <2>1. ~Retries(c)'
    BY <1>6 DEF Retries
  <2>2. StepsLeft(c)' = 16
    BY <1>2, <1>6, <2>1 DEF StepsLeft
  <2>. QED
    BY <1>1, <1>3, <1>6, <2>2
<1>. QED
  BY <1>4, <1>5, <1>6

\* A crypto error ends the call or starts its retry.
LEMMA CryptoErrorFewer ==
  ASSUME TypeOK, NEW c \in Clients, pc[c] # "idle", CryptoError(c)
  PROVE  /\ StepsLeft(c)' < StepsLeft(c) /\ pc'[c] \in {"idle", "sign"}
         /\ \A d \in Clients \ {c} : pc'[d] = pc[d] /\ call'[d] = call[d]
<1>1. pc \in [Clients -> CallPoint] /\ call \in [Clients -> Call] /\ call[c] \in Call
  BY DEF TypeOK
<1>2. CASE Retries(c)
  <2>1. /\ pc' = [pc EXCEPT ![c] = "sign"] /\ call' = [call EXCEPT ![c].attempt = 2]
    BY <1>2 DEF CryptoError, Retries
  <2>2. pc'[c] = "sign" /\ call'[c].attempt = 2
    BY <1>1, <2>1 DEF Call
  <2>3. StepsLeft(c)' < StepsLeft(c)
    BY <1>1, <1>2, <2>2, FewerLeft
  <2>. QED
    BY <1>1, <2>1, <2>2, <2>3
<1>3. CASE ~Retries(c)
  <2>1. Finish(c, "crypto")
    BY <1>3 DEF CryptoError, Retries
  <2>2. pc'[c] = "idle" /\ \A d \in Clients \ {c} : pc'[d] = pc[d] /\ call'[d] = call[d]
    BY <1>1, <2>1, Zenon DEF Finish
  <2>. QED
    BY <1>1, <2>2, FewerLeft
<1>. QED
  BY <1>2, <1>3

\* Every step of a handler, and a lost connection, moves its own call on.
LEMMA HandlerFewer ==
  ASSUME TypeOK, NEW c \in Clients, Handler(c) \/ ConnectionLost(c)
  PROVE  /\ StepsLeft(c)' < StepsLeft(c) /\ pc'[c] # pc[c] /\ pc[c] # "idle"
         /\ \A d \in Clients \ {c} : pc'[d] = pc[d] /\ call'[d] = call[d]
<1>1. pc \in [Clients -> CallPoint] /\ call \in [Clients -> Call] /\ call[c] \in Call
  BY Zenon DEF TypeOK
<1>2. ASSUME NEW p \in CallPoint \ {"idle"}, NEW q \in CallPoint \ {"idle"}, Step(c, p, q),
             Place[p] < Place[q], call' = call
      PROVE  /\ StepsLeft(c)' < StepsLeft(c) /\ pc'[c] # pc[c] /\ pc[c] # "idle"
             /\ \A d \in Clients \ {c} : pc'[d] = pc[d] /\ call'[d] = call[d]
  <2> HIDE DEF Place
  <2>1. pc[c] = p /\ pc'[c] = q /\ \A d \in Clients \ {c} : pc'[d] = pc[d]
    BY <1>1, <1>2 DEF Step
  <2>2. StepsLeft(c)' < StepsLeft(c)
    BY <1>2, <2>1, FewerLeft
  <2>3. p # q
    BY <1>2, Places DEF CallPoint
  <2>. QED
    BY <1>2, <2>1, <2>2, <2>3
<1>3. ASSUME NEW r, pc[c] # "idle", Finish(c, r)
      PROVE  /\ StepsLeft(c)' < StepsLeft(c) /\ pc'[c] # pc[c] /\ pc[c] # "idle"
             /\ \A d \in Clients \ {c} : pc'[d] = pc[d] /\ call'[d] = call[d]
  <2>1. pc'[c] = "idle" /\ \A d \in Clients \ {c} : pc'[d] = pc[d] /\ call'[d] = call[d]
    BY <1>1, <1>3 DEF Finish
  <2>. QED
    BY <1>1, <1>3, <2>1, FewerLeft
<1>4. ASSUME pc[c] \notin {"idle", "sign"}, CryptoError(c)
      PROVE  /\ StepsLeft(c)' < StepsLeft(c) /\ pc'[c] # pc[c] /\ pc[c] # "idle"
             /\ \A d \in Clients \ {c} : pc'[d] = pc[d] /\ call'[d] = call[d]
  BY <1>4, CryptoErrorFewer, Zenon
<1>5. CASE SignIdentity(c) \/ ReadPublicKey(c) \/ ReadSigningKey(c) \/ ReadKeyVersion(c)
  BY <1>2, <1>5, Places
     DEF SignIdentity, ReadPublicKey, ReadSigningKey, ReadKeyVersion, CallPoint
<1>6. CASE ReadEvidence(c) \/ KeyResponseAccepted(c)
  BY <1>2, <1>6, Places DEF ReadEvidence, KeyResponseAccepted, CallPoint
<1>7. CASE CheckVersion(c) \/ GetKeyCurrent(c) \/ IsKeyOutdatedCurrent(c) \/ WriteMessage(c)
  BY <1>2, <1>7, Places
     DEF CheckVersion, GetKeyCurrent, IsKeyOutdatedCurrent, WriteMessage, CallPoint
<1>8. CASE \/ KeyResponseRejected(c) \/ CallbackThrows(c) \/ WriteMessageThrows(c)
           \/ ReceiveResponse(c) \/ ConnectionLost(c)
  BY <1>3, <1>8, Zenon
     DEF KeyResponseRejected, CallbackThrows, WriteMessageThrows, ReceiveResponse, ConnectionLost
<1>9. CASE RecheckVersion(c)
  <2>1. pc[c] = "recheck" /\ (CryptoError(c) \/ (Step(c, "recheck", "current") /\ call' = call))
    BY <1>9, Zenon DEF RecheckVersion
  <2>2. Place["recheck"] < Place["current"]
    BY Places
  <2>. QED
    BY <1>2, <1>4, <2>1, <2>2, Zenon DEF CallPoint
<1>10. CASE GetKeyPrevious(c)
  <2>1. pc[c] = "previous" /\ (CryptoError(c) \/ (Step(c, "previous", "ecdh") /\ call' = call))
    BY <1>10, Zenon DEF GetKeyPrevious
  <2>2. Place["previous"] < Place["ecdh"]
    BY Places
  <2>. QED
    BY <1>2, <1>4, <2>1, <2>2, Zenon DEF CallPoint
<1>11. CASE ComputeSharedSecret(c)
  <2>1. pc[c] = "ecdh" /\ (CryptoError(c) \/ (Step(c, "ecdh", "callback") /\ call' = call))
    BY <1>11, Zenon DEF ComputeSharedSecret
  <2>2. Place["ecdh"] < Place["callback"]
    BY Places
  <2>. QED
    BY <1>2, <1>4, <2>1, <2>2, Zenon DEF CallPoint
<1>12. CASE IsKeyOutdatedPrevious(c)
  <2>1. /\ pc[c] = "outdated_previous"
        /\ CryptoError(c) \/ (Step(c, "outdated_previous", "write") /\ call' = call)
    BY <1>12, Zenon DEF IsKeyOutdatedPrevious
  <2>2. Place["outdated_previous"] < Place["write"]
    BY Places
  <2>. QED
    BY <1>2, <1>4, <2>1, <2>2, Zenon DEF CallPoint
<1>13. CASE RunCallback(c)
  <2>1. /\ pc[c] = "callback" /\ pc'[c] = "outdated"
        /\ \A d \in Clients \ {c} : pc'[d] = pc[d] /\ call'[d] = call[d]
        /\ call'[c] = [call[c] EXCEPT !.executed = @ + 1]
    BY <1>1, <1>13 DEF RunCallback, Step
  <2>2. call'[c].kind = call[c].kind /\ call'[c].attempt = call[c].attempt
    BY <1>1, <2>1 DEF Call
  <2>3. Place[pc[c]] < Place[pc'[c]]
    BY <2>1, Places
  <2>4. StepsLeft(c)' < StepsLeft(c)
    BY <2>1, <2>2, <2>3, FewerLeft, Zenon DEF CallPoint
  <2>. QED
    BY <2>1, <2>4
<1>. QED
  BY <1>5, <1>6, <1>7, <1>8, <1>9, <1>10, <1>11, <1>12, <1>13, Zenon DEF Handler

\* For any number of clients, nothing keeps a call going for ever but a handler
\* that is never scheduled (client.py:93-101).
THEOREM CallsAreBoundedTheorem == Spec => CallsAreBounded
<1>1. ASSUME TypeOK, [Next]_vars, NEW c \in Clients, pc[c] # "idle"
      PROVE  IF pc'[c] = pc[c] THEN StepsLeft(c)' = StepsLeft(c)
                               ELSE StepsLeft(c)' < StepsLeft(c)
  <2>1. ASSUME pc'[c] = pc[c], call'[c].kind = call[c].kind, call'[c].attempt = call[c].attempt
        PROVE  pc'[c] = pc[c] /\ StepsLeft(c)' = StepsLeft(c)
    BY <2>1 DEF StepsLeft, Retries
  <2>2. ASSUME NEW d \in Clients, Handler(d) \/ ConnectionLost(d)
        PROVE  IF pc'[c] = pc[c] THEN StepsLeft(c)' = StepsLeft(c)
                                 ELSE StepsLeft(c)' < StepsLeft(c)
    <3>1. CASE d = c
      BY <1>1, <2>2, <3>1, HandlerFewer
    <3>2. CASE d # c
      BY <1>1, <2>1, <2>2, <3>2, HandlerFewer
    <3>. QED
      BY <3>1, <3>2
  <2>3. ASSUME NEW d \in Clients, NEW kind, StartCall(d, kind)
        PROVE  pc'[c] = pc[c] /\ StepsLeft(c)' = StepsLeft(c)
    <3>1. d # c /\ pc'[c] = pc[c] /\ call'[c] = call[c]
      BY <1>1, <2>3 DEF StartCall, Step, TypeOK
    <3>. QED
      BY <2>1, <3>1
  <2>4. CASE RefreshThread \/ UNCHANGED vars
    <3>1. pc'[c] = pc[c] /\ (call'[c] = call[c] \/ call'[c] = [call[c] EXCEPT !.disturbed = TRUE])
      BY <1>1, <2>4, Zenon DEF RefreshThread, BeginRollover, Disturb, clientVars, vars
    <3>2. call[c] \in Call
      BY <1>1 DEF TypeOK
    <3>3. call'[c].kind = call[c].kind /\ call'[c].attempt = call[c].attempt
      BY <3>1, <3>2 DEF Call
    <3>. QED
      BY <2>1, <3>1, <3>3
  <2>5. CASE Restart
    <3>1. pc[c] \in CallPoint /\ call[c] \in Call
      BY <1>1 DEF TypeOK
    <3>2. CASE pc[c] \in BetweenRequests
      <4>1. pc'[c] = pc[c]
        BY <2>5, <3>2, Zenon DEF Restart
      <4>2. call'[c].kind = call[c].kind /\ call'[c].attempt = call[c].attempt
        BY <2>5, <3>1 DEF Restart, Call
      <4>. QED
        BY <2>1, <4>1, <4>2
    <3>3. CASE pc[c] \notin BetweenRequests
      <4>1. pc'[c] = "idle"
        BY <2>5, <3>3, Zenon DEF Restart
      <4>. QED
        BY <1>1, <3>1, <4>1, FewerLeft
    <3>. QED
      BY <3>2, <3>3
  <2>. QED
    BY <1>1, <2>2, <2>3, <2>4, <2>5 DEF Next
<1>2. TypeOK /\ [Next]_vars =>
        [\A c \in Clients :
           pc[c] # "idle" => IF pc'[c] = pc[c] THEN StepsLeft(c)' = StepsLeft(c)
                                               ELSE StepsLeft(c)' < StepsLeft(c)]_vars
  BY <1>1
<1>. QED
  BY <1>2, TypeCorrect, PTL DEF Spec, CallsAreBounded

=============================================================================
