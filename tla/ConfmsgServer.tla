--------------------------- MODULE ConfmsgServer ---------------------------
(***************************************************************************)
(* confmsg::Server with a RandomEd25519KeyProvider, as the key refresh     *)
(* thread sees it: EnclaveMaybeRefreshKey and everything it calls, one     *)
(* action for each write to memory that request threads read.  Nothing in  *)
(* the code locks these fields.                                            *)
(*                                                                         *)
(* A vector that is overwritten in place holds Torn between the first and  *)
(* the last byte.  Time is abstracted to `due': whether the rollover       *)
(* interval has passed since last_refreshed.                               *)
(***************************************************************************)
EXTENDS KeyProvider

CONSTANT NoQuote   \* an empty evidence list

ASSUME NoQuoteAssumption == NoQuote \notin KeyMaterial

VARIABLES
  kp,                  \* the KeyProvider fields
  public_key,          \* Server::public_key, named by its private key
  public_signing_key,  \* Server::public_signing_key, likewise
  evidence,            \* Server::evidence: the key the quote vouches for
  due,                 \* now - last_refreshed >= key_rollover_interval
  rpc,                 \* where the refresh thread is
  status               \* what the last EnclaveMaybeRefreshKey returned

serverVars == <<kp, public_key, public_signing_key, evidence, due, rpc, status>>

RefreshPoint ==
  { "idle", "save_version", "save_key", "saving_key", "advance", "randomize",
    "randomizing", "stamp", "share", "sharing", "signing", "signing_share",
    "quote", "clear", "emplace" }

ServerTypeOK ==
  /\ kp \in Provider
  /\ public_key \in KeyMaterial
  /\ public_signing_key \in KeyMaterial
  /\ evidence \in KeyMaterial \cup {NoQuote}
  /\ due \in BOOLEAN
  /\ rpc \in RefreshPoint
  /\ status \in {"SUCCESS", "UNKNOWN_ERROR"}

\* Keys a fresh random key must differ from.
ServerKeys ==
  { kp.current_key, kp.previous_key, public_key, public_signing_key, evidence }

\* What the constructor leaves: the provider initialises itself with key k,
\* then MakePublicKeys and UpdateEvidence run before any other thread knows
\* the object.  v is the uninitialised version.
ServerConstructed(v, k) ==
  /\ kp = Initialized(v, k)
  /\ public_key = k
  /\ public_signing_key = k
  /\ evidence = k
  /\ due = FALSE
  /\ rpc = "idle"
  /\ status = "SUCCESS"

\* The constructor again, in a new process.
ServerRestarts(v, k) ==
  /\ kp' = Initialized(v, k)
  /\ public_key' = k
  /\ public_signing_key' = k
  /\ evidence' = k
  /\ due' = FALSE
  /\ rpc' = "idle"
  /\ status' = "SUCCESS"

-----------------------------------------------------------------------------
(* Steps of the refresh thread *)

Goto(from, to) == rpc = from /\ rpc' = to

\* The rollover interval passes.
IntervalElapses ==
  /\ ~due
  /\ due' = TRUE
  /\ UNCHANGED <<kp, public_key, public_signing_key, evidence, rpc, status>>

\* EnclaveMaybeRefreshKey, called too early: sync_only is true, and a random
\* provider refuses to synchronise.
SyncOnly ==
  /\ rpc = "idle"
  /\ ~due
  /\ status' = "SUCCESS"
  /\ UNCHANGED <<kp, public_key, public_signing_key, evidence, due, rpc>>

\* EnclaveMaybeRefreshKey, called after the interval: a rollover begins.
StartRollover ==
  /\ Goto("idle", "save_version")
  /\ due
  /\ UNCHANGED <<kp, public_key, public_signing_key, evidence, due, status>>

SavePreviousVersion ==
  /\ Goto("save_version", "save_key")
  /\ kp' = [kp EXCEPT !.previous_key_version = kp.current_key_version]
  /\ UNCHANGED <<public_key, public_signing_key, evidence, due, status>>

SavePreviousKey ==
  /\ \/ Goto("save_key", "saving_key") /\ kp' = [kp EXCEPT !.previous_key = Torn]
     \/ Goto("saving_key", "advance") /\ kp' = [kp EXCEPT !.previous_key = kp.current_key]
  /\ UNCHANGED <<public_key, public_signing_key, evidence, due, status>>

AdvanceVersion ==
  /\ Goto("advance", "randomize")
  /\ kp' = [kp EXCEPT !.current_key_version = NextVersion(kp.current_key_version)]
  /\ UNCHANGED <<public_key, public_signing_key, evidence, due, status>>

\* Randomize and the clamping of the key bytes.
RandomizeKey(k) ==
  /\ \/ Goto("randomize", "randomizing") /\ kp' = [kp EXCEPT !.current_key = Torn]
     \/ Goto("randomizing", "stamp") /\ kp' = [kp EXCEPT !.current_key = k]
  /\ UNCHANGED <<public_key, public_signing_key, evidence, due, status>>

\* last_refreshed = now
StampRefresh ==
  /\ Goto("stamp", "share")
  /\ due' = FALSE
  /\ UNCHANGED <<kp, public_key, public_signing_key, evidence, status>>

\* The two vectors are computed in place, one after the other.
MakePublicKeys ==
  /\ \/ /\ Goto("share", "sharing")
        /\ public_key' = Torn
        /\ UNCHANGED public_signing_key
     \/ /\ Goto("sharing", "signing")
        /\ public_key' = kp.current_key
        /\ UNCHANGED public_signing_key
     \/ /\ Goto("signing", "signing_share")
        /\ public_signing_key' = Torn
        /\ UNCHANGED public_key
     \/ /\ Goto("signing_share", "quote")
        /\ public_signing_key' = kp.current_key
        /\ UNCHANGED public_key
  /\ UNCHANGED <<kp, evidence, due, status>>

\* oe_get_report fails: the exception leaves RefreshKey half done and
\* EnclaveMaybeRefreshKey turns it into a status.
QuoteFails ==
  /\ Goto("quote", "idle")
  /\ status' = "UNKNOWN_ERROR"
  /\ UNCHANGED <<kp, public_key, public_signing_key, evidence, due>>

GenerateQuote ==
  /\ Goto("quote", "clear")
  /\ UNCHANGED <<kp, public_key, public_signing_key, evidence, due, status>>

\* evidence.clear() and emplace_back of the quote for public_key.
UpdateEvidence ==
  /\ \/ /\ Goto("clear", "emplace")
        /\ evidence' = Torn
        /\ UNCHANGED status
     \/ /\ Goto("emplace", "idle")
        /\ evidence' = public_key
        /\ status' = "SUCCESS"
  /\ UNCHANGED <<kp, public_key, public_signing_key, due>>

\* Bound of the model: Randomize waits while every key is in use.
CanRandomize(used) == rpc = "randomizing" => Keys \ used # {}

\* A rollover once it has begun; k is the next random key.
Rollover(k) ==
  \/ SavePreviousVersion
  \/ SavePreviousKey
  \/ AdvanceVersion
  \/ RandomizeKey(k)
  \/ StampRefresh
  \/ MakePublicKeys
  \/ QuoteFails
  \/ GenerateQuote
  \/ UpdateEvidence

-----------------------------------------------------------------------------
(* The server alone: its refresh thread and the clock *)

RefreshCall ==
  \/ SyncOnly
  \/ StartRollover
  \/ CanRandomize(ServerKeys) /\ Rollover(FreshKey(ServerKeys))

ServerNext == IntervalElapses \/ RefreshCall

ServerInit == \E v \in Version : ServerConstructed(v, FreshKey({}))

\* The refresh thread calls EnclaveMaybeRefreshKey again and again
\* (host/enclave.cc:117-140) and each call ends; the clock is not fair.
ServerSpec == ServerInit /\ [][ServerNext]_serverVars /\ WF_serverVars(RefreshCall)

-----------------------------------------------------------------------------
(* Properties *)

\* "will retry shortly" (host/enclave.cc:127): when a refresh call reports
\* success after a failed one, the quote vouches for the key being served.
RetryCompletesRefresh ==
  rpc = "idle" /\ status = "SUCCESS" => evidence = public_key

=============================================================================
