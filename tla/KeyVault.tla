------------------------------ MODULE KeyVault ------------------------------
(***************************************************************************)
(* Servers that share one key through Azure Key Vault: KeyVaultProvider    *)
(* and KeyVaultHsmProvider (server/enclave/key_vault*_provider.cc), called *)
(* by each server's refresh thread and, when a client names a newer        *)
(* version, by its HTTP threads (confmsg/server/api.cc:143-149).  Nothing  *)
(* locks a provider.                                                       *)
(*                                                                         *)
(* The vault keeps every secret that was ever PUT under its name and a GET *)
(* returns the last one.  A PUT carries a fresh random key, so a key is    *)
(* named by its place in the vault, and vault[k] is the version tag stored *)
(* with key k.  A request has the form that VaultRequest promises: it      *)
(* takes effect at most once, before the call that makes it ends.          *)
(***************************************************************************)
EXTENDS Integers, Sequences

CONSTANTS
  Servers,
  Rollers,     \* servers whose rollover interval can pass
  Threads,     \* pairs <<server, "refresh" or "request">>
  Refusals,    \* what may come of fetching a key that exists, errors aside
  MaxPuts,     \* bound: length of the vault
  MaxCrashes   \* bound: how often a server process dies

ASSUME KeyVaultAssumption ==
  /\ Rollers \subseteq Servers
  /\ Threads \subseteq Servers \X {"refresh", "request"}
  /\ Servers \X {"refresh"} \subseteq Threads
  /\ Refusals \subseteq {"NOT_FOUND", "DENIED"}
  /\ MaxPuts \in Nat /\ MaxCrashes \in Nat

VARIABLES
  vault,     \* version tags of the secrets PUT so far
  prov,      \* prov[s]: the KeyProvider fields of server s
  life,      \* life[s]: "down", "starting" (in Create) or "up"
  pc,        \* pc[t]: where thread t is in DoRefreshKey
  loc,       \* loc[t]: its locals
  before,    \* history: the current key and version when t began
  alone,     \* history: no other thread of its server has refreshed since t began
  outcome,   \* outcome[s]: how the last RefreshKey of the refresh thread ended
  crashes

vars == <<vault, prov, life, pc, loc, before, alone, outcome, crashes>>

NoKey == 0

Key == Nat
Versioned == [ key: Key, version: Nat ]
Provider == [ current_key: Key, current_key_version: Nat,
              previous_key: Key, previous_key_version: Nat ]
Locals == [ sync_only: BOOLEAN, new: Versioned, status: {"OK", "NOT_FOUND", "DENIED"} ]

Point == { "idle", "fetch", "decide", "put", "previous_version", "previous_key",
           "current_version", "current_key" }

Outcome == {"none", "refreshed", "replaced", "up_to_date", "error"}

TypeOK ==
  /\ vault \in Seq(Nat)
  /\ prov \in [Servers -> Provider]
  /\ life \in [Servers -> {"down", "starting", "up"}]
  /\ pc \in [Threads -> Point]
  /\ loc \in [Threads -> Locals]
  /\ before \in [Threads -> Versioned]
  /\ alone \in [Threads -> BOOLEAN]
  /\ outcome \in [Servers -> Outcome]
  /\ crashes \in Nat

Entry(sync_only) == [ sync_only |-> sync_only, new |-> [key |-> NoKey, version |-> 0],
                      status |-> "OK" ]
NoLocals == Entry(TRUE)

Latest == [ key |-> Len(vault), version |-> vault[Len(vault)] ]
Current(s) == [ key |-> prov[s].current_key, version |-> prov[s].current_key_version ]
Previous(s) == [ key |-> prov[s].previous_key, version |-> prov[s].previous_key_version ]

\* The constructor zeroes the keys and leaves the versions uninitialised; no
\* value of theirs is looked at before it is assigned, and 0 stands for it.
Constructed == [ current_key |-> NoKey, current_key_version |-> 0,
                 previous_key |-> NoKey, previous_key_version |-> 0 ]

\* The vault holds a key from an earlier deployment, one stored without the
\* version tag (read as version 0), or none.
Init ==
  /\ vault \in {<<>>, <<0>>, <<1>>}
  /\ prov = [s \in Servers |-> Constructed]
  /\ life = [s \in Servers |-> "down"]
  /\ pc = [t \in Threads |-> "idle"]
  /\ loc = [t \in Threads |-> NoLocals]
  /\ before = [t \in Threads |-> NoLocals.new]
  /\ alone = [t \in Threads |-> TRUE]
  /\ outcome = [s \in Servers |-> "none"]
  /\ crashes = 0

KeyExists == Init /\ vault # <<>>

-----------------------------------------------------------------------------
Step(t, from, to) == pc[t] = from /\ pc' = [pc EXCEPT ![t] = to]

Refresher(s) == <<s, "refresh">>

Idle(s) == \A t \in Threads : t[1] = s => pc[t] = "idle"

\* RefreshKey is called: by Create when the server starts, by the refresh
\* thread (a rollover if the interval has passed), by an HTTP thread to
\* synchronise, whenever a client names a version this server does not know.
Begin(t) ==
  \E sync \in BOOLEAN :
    /\ Step(t, "idle", "fetch")
    /\ IF life[t[1]] = "down"
       THEN t = Refresher(t[1]) /\ ~sync /\ life' = [life EXCEPT ![t[1]] = "starting"]
       ELSE /\ life[t[1]] = "up"
            /\ sync \/ (t = Refresher(t[1]) /\ t[1] \in Rollers)
            /\ UNCHANGED life
    /\ loc' = [loc EXCEPT ![t] = Entry(sync)]
    /\ before' = [before EXCEPT ![t] = Current(t[1])]
    /\ alone' = [u \in Threads |-> IF u[1] = t[1] THEN Idle(t[1]) ELSE alone[u]]
    /\ UNCHANGED <<vault, prov, outcome, crashes>>

\* RefreshKey returns or throws.  Create returns an initialised provider, or
\* its exception ends the server.
Return(t, result) ==
  LET s == t[1] IN
  /\ pc' = [pc EXCEPT ![t] = "idle"]
  /\ loc' = [loc EXCEPT ![t] = NoLocals]
  /\ alone' = [alone EXCEPT ![t] = TRUE]
  /\ outcome' = IF t = Refresher(s) THEN [outcome EXCEPT ![s] = result] ELSE outcome
  /\ life' = [life EXCEPT ![s] = IF life[s] # "starting" THEN @
                                 ELSE IF result = "error" THEN "down" ELSE "up"]

\* Mutant of RequestFails: a failed PUT goes unnoticed.
RequestFailsUnnoticed(t) ==
  \/ /\ pc[t] = "fetch"
     /\ Return(t, "error")
     /\ UNCHANGED <<vault, prov, before, crashes>>
  \/ /\ Step(t, "put", "previous_version")
     /\ loc' = [loc EXCEPT ![t].new.key = Len(vault) + 1]
     /\ UNCHANGED <<vault, prov, life, before, alone, outcome, crashes>>

\* CurlError becomes KeyRefreshError: the GET or the PUT failed.
RequestFails(t) ==
  /\ pc[t] \in {"fetch", "put"}
  /\ Return(t, "error")
  /\ UNCHANGED <<vault, prov, before, crashes>>

FetchKey(t) ==
  /\ Step(t, "fetch", "decide")
  /\ loc' = [loc EXCEPT ![t] =
               IF vault = <<>> THEN [loc[t] EXCEPT !.status = "NOT_FOUND"]
                               ELSE [loc[t] EXCEPT !.new = Latest]]
  /\ UNCHANGED <<vault, prov, life, before, alone, outcome, crashes>>

\* DENIED: the release policy of the HSM's key no longer covers this enclave.
\* NOT_FOUND: Request passes a 404 of the OAuth service on as if it were the
\* vault's.
FetchRefused(t) ==
  /\ vault # <<>>
  /\ Step(t, "fetch", "decide")
  /\ \E status \in Refusals : loc' = [loc EXCEPT ![t].status = status]
  /\ UNCHANGED <<vault, prov, life, before, alone, outcome, crashes>>

\* Mutant of Newer: any other version is adopted.
NewerOrOlder(t) == loc[t].new.version # prov[t[1]].current_key_version

Newer(t) == loc[t].new.version > prov[t[1]].current_key_version

AdoptFetched(t) == loc[t].status = "OK" /\ (life[t[1]] = "starting" \/ Newer(t))

\* Mutant of DecideAdopt: a synchronisation only looks.
DecideAdoptUnlessSync(t) ==
  /\ AdoptFetched(t) /\ ~loc[t].sync_only
  /\ Step(t, "decide", "previous_version")
  /\ UNCHANGED <<vault, prov, life, loc, before, alone, outcome, crashes>>

\* Adopt what the vault has, ...
DecideAdopt(t) ==
  /\ AdoptFetched(t)
  /\ Step(t, "decide", "previous_version")
  /\ UNCHANGED <<vault, prov, life, loc, before, alone, outcome, crashes>>

\* ... keep what we have (a denied export throws instead), ...
DecideKeep(t) ==
  /\ pc[t] = "decide"
  /\ loc[t].sync_only /\ loc[t].status # "NOT_FOUND" /\ ~AdoptFetched(t)
  /\ Return(t, IF loc[t].status = "DENIED" THEN "error" ELSE "up_to_date")
  /\ UNCHANGED <<vault, prov, before, crashes>>

\* Mutant of NewVersion: the rollover does not count.
NewVersionRepeated(t) == IF loc[t].status = "OK" THEN prov[t[1]].current_key_version ELSE 1

NewVersion(t) == IF loc[t].status = "OK" THEN prov[t[1]].current_key_version + 1 ELSE 1

\* ... or store a new key: the first one, or a rollover.
DecideUpdate(t) ==
  /\ Step(t, "decide", "put")
  /\ ~loc[t].sync_only \/ loc[t].status = "NOT_FOUND"
  /\ ~AdoptFetched(t)
  /\ loc' = [loc EXCEPT ![t].new = [key |-> NoKey, version |-> NewVersion(t)]]
  /\ UNCHANGED <<vault, prov, life, before, alone, outcome, crashes>>

\* UpdateKey: the vault takes the new key.
UpdateKey(t) ==
  /\ Step(t, "put", IF loc[t].status = "OK" THEN "previous_version" ELSE "current_version")
  /\ Len(vault) < MaxPuts
  /\ vault' = Append(vault, loc[t].new.version)
  /\ loc' = [loc EXCEPT ![t].new.key = Len(vault) + 1]
  /\ UNCHANGED <<prov, life, before, alone, outcome, crashes>>

\* The vault takes the new key, but its answer is lost.
UpdateKeyAnswerLost(t) ==
  /\ pc[t] = "put"
  /\ Len(vault) < MaxPuts
  /\ vault' = Append(vault, loc[t].new.version)
  /\ Return(t, "error")
  /\ UNCHANGED <<prov, before, crashes>>

SavePreviousVersion(t) ==
  /\ Step(t, "previous_version", "previous_key")
  /\ prov' = [prov EXCEPT ![t[1]].previous_key_version = prov[t[1]].current_key_version]
  /\ UNCHANGED <<vault, life, loc, before, alone, outcome, crashes>>

\* Mutant of SavePreviousKey: the previous key is not kept.
SavePreviousKeyForgotten(t) ==
  /\ Step(t, "previous_key", "current_version")
  /\ UNCHANGED <<vault, prov, life, loc, before, alone, outcome, crashes>>

SavePreviousKey(t) ==
  /\ Step(t, "previous_key", "current_version")
  /\ prov' = [prov EXCEPT ![t[1]].previous_key = prov[t[1]].current_key]
  /\ UNCHANGED <<vault, life, loc, before, alone, outcome, crashes>>

StoreVersion(t) ==
  /\ Step(t, "current_version", "current_key")
  /\ prov' = [prov EXCEPT ![t[1]].current_key_version = loc[t].new.version]
  /\ UNCHANGED <<vault, life, loc, before, alone, outcome, crashes>>

StoreKey(t) ==
  /\ pc[t] = "current_key"
  /\ prov' = [prov EXCEPT ![t[1]].current_key = loc[t].new.key]
  /\ Return(t, IF loc[t].status = "OK" THEN "refreshed" ELSE "replaced")
  /\ UNCHANGED <<vault, before, crashes>>

\* The server process dies; what it had PUT stays in the vault.
Crash(s) ==
  /\ life[s] # "down" /\ crashes < MaxCrashes
  /\ crashes' = crashes + 1
  /\ life' = [life EXCEPT ![s] = "down"]
  /\ prov' = [prov EXCEPT ![s] = Constructed]
  /\ outcome' = [outcome EXCEPT ![s] = "none"]
  /\ pc' = [t \in Threads |-> IF t[1] = s THEN "idle" ELSE pc[t]]
  /\ loc' = [t \in Threads |-> IF t[1] = s THEN NoLocals ELSE loc[t]]
  /\ alone' = [t \in Threads |-> t[1] = s \/ alone[t]]
  /\ UNCHANGED <<vault, before>>

Answered(t) ==
  \/ FetchKey(t) \/ FetchRefused(t) \/ DecideAdopt(t) \/ DecideKeep(t) \/ DecideUpdate(t) \/ UpdateKey(t)
  \/ SavePreviousVersion(t) \/ SavePreviousKey(t) \/ StoreVersion(t) \/ StoreKey(t)

Next ==
  \/ \E t \in Threads : Begin(t)
  \/ \E t \in Threads : Answered(t)
  \/ \E t \in Threads : RequestFails(t)
  \/ \E t \in Threads : UpdateKeyAnswerLost(t)
  \/ \E s \in Servers : Crash(s)

Spec == Init /\ [][Next]_vars

\* The deployment of the tests: the key is in the vault before a server starts.
ExistingKeySpec == KeyExists /\ [][Next]_vars

\* A request that has been answered is worked off, each thread polls again
\* (the sync interval is finite), and the vault does not fail for ever.
Fairness ==
  \A t \in Threads :
    /\ WF_vars(Answered(t))
    /\ SF_vars(FetchKey(t))
    /\ t[2] = "refresh" => WF_vars(life[t[1]] = "up" /\ Begin(t))

FairSpec == ExistingKeySpec /\ Fairness

-----------------------------------------------------------------------------
InVault(pair) == pair.key \in 1..Len(vault) /\ vault[pair.key] = pair.version

\* With one refreshing thread per server: between refreshes the current key
\* and the current version of a running server are a pair the vault stored,
\* whatever requests failed, whatever answers were lost and whenever servers
\* died (key_vault_provider.cc:46-77, with UpdateKey throwing before any field
\* is written).  It says nothing of two refreshes of one server at once.
HeldKeysComeFromVault ==
  \A s \in Servers : life[s] = "up" /\ Idle(s) => InVault(Current(s))

\* What a server holds, as of the first of the stores that a refresh makes.
Stored(t) ==
  \/ pc[t] = "current_key"
  \/ pc[t] \in {"previous_key", "current_version"} /\ loc[t].status = "OK"

Held(s) == IF Stored(Refresher(s)) THEN loc[Refresher(s)].new ELSE Current(s)
HeldBefore(s) == IF pc[Refresher(s)] = "previous_key" THEN Current(s) ELSE Previous(s)

Shared ==
  INSTANCE SharedKeys WITH
    log <- vault,
    current <- [s \in Servers |-> Held(s)],
    previous <- [s \in Servers |-> HeldBefore(s)]

\* With one refreshing thread each, the servers follow one log: the four
\* stores of a refresh (key_vault_provider.cc:61-64, 74-77) amount to one step,
\* to a newer entry with the former one kept, or to version 1; no failed
\* request, lost answer, refusal or crash shows as anything else.
RefreshIsAtomic == Shared!Spec

\* "All servers should have the same key from AKV" (test_system.py:222): with
\* the key in the vault, one server that rolls over and one refreshing thread
\* per server, two servers never hold different keys for the same version,
\* previous keys included.  So a client's key works on each server that knows
\* its version.
SameVersionSameKey ==
  \A s, o \in Servers :
    life[s] = "up" /\ Idle(s) /\ life[o] = "up" /\ Idle(o) =>
      \A p \in {Current(s), Previous(s)}, q \in {Current(o), Previous(o)} :
        p.key # NoKey /\ q.key # NoKey /\ p.version = q.version => p.key = q.key

\* A running server goes back to an older version only in a refresh whose fetch
\* was refused, or in one that overlaps another refresh of the same server
\* (the refresh thread's with an HTTP thread's, api.cc:143-145, or two of HTTP
\* threads), however many servers write to the vault and in whatever order
\* (key_vault_provider.cc:60, 72).  A server with one refreshing thread has no
\* such overlap.
VersionsGrow ==
  [][\A s \in Servers :
       /\ life[s] = "up" /\ life'[s] = "up"
       /\ prov'[s].current_key_version < prov[s].current_key_version
       => \E t \in Threads :
            t[1] = s /\ pc[t] # "idle" /\ (loc[t].status # "OK" \/ ~alone[t])]_vars

\* After a refresh of the refresh thread, and unless its fetch was refused, the
\* key that was current before it is the previous key: its clients are still
\* served ("EXPECT_TRUE(kp->IsKeyOutdated(initial_key_version))",
\* key_vault_tests.cc:74).
PreviousKeyKept ==
  \A s \in Servers :
    LET old == before[Refresher(s)] IN
    life[s] = "up" /\ Idle(s) /\ outcome[s] = "refreshed" /\ old.key # NoKey =>
      Previous(s) = old

\* With one server that rolls over and one refreshing thread per server: once
\* keys are no longer rolled over, every running server comes to hold the
\* vault's last key, also one whose PUT was applied and answered by an error.
EventualAgreement ==
  \A s \in Servers : <>[](life[s] = "up" => Current(s) = Latest)

=============================================================================
