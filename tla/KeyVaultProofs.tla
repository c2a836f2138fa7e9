--------------------------- MODULE KeyVaultProofs ---------------------------
(***************************************************************************)
(* Proofs about KeyVault, for any number of servers, PUTs and crashes.     *)
(* VersionsGrowTheorem is about any threads; the others are about          *)
(* deployments in which only the refresh threads refresh (with request     *)
(* threads their properties fail).                                         *)
(***************************************************************************)
EXTENDS KeyVault, SequenceTheorems, TLAPS

RefreshOnly == Threads = Servers \X {"refresh"}

Storing == {"previous_version", "previous_key", "current_version", "current_key"}

\* What a thread relies on: the pair it fetched or created is one the vault
\* stored, and its server's pair is whole except between the last two stores.
ThreadInv(t) ==
  /\ life[t[1]] = "down" => pc[t] = "idle" /\ prov[t[1]].current_key = NoKey
  /\ life[t[1]] = "starting" =>
       pc[t] # "idle" /\ ~loc[t].sync_only /\ prov[t[1]].current_key = NoKey
  /\ life[t[1]] = "up" /\ pc[t] # "current_key" => InVault(Current(t[1]))
  /\ pc[t] \in Storing => InVault(loc[t].new)
  /\ pc[t] = "decide" /\ loc[t].status = "OK" => InVault(loc[t].new)
  /\ pc[t] = "current_key" => prov[t[1]].current_key_version = loc[t].new.version

Inv == TypeOK /\ \A t \in Threads : ThreadInv(t)

StepOf(t) == Begin(t) \/ Answered(t) \/ RequestFails(t) \/ UpdateKeyAnswerLost(t)

-----------------------------------------------------------------------------
\* A server has one refresh thread.
LEMMA OneThread ==
  ASSUME RefreshOnly
  PROVE  /\ \A t \in Threads : t[1] \in Servers /\ t = Refresher(t[1])
         /\ \A t, u \in Threads : t # u => t[1] # u[1]
         /\ \A s \in Servers : Refresher(s) \in Threads /\ Refresher(s)[1] = s
BY DEF RefreshOnly, Refresher

\* A thread belongs to a server.
LEMMA ThreadServer ==
  ASSUME NEW t \in Threads
  PROVE  t[1] \in Servers
BY KeyVaultAssumption

\* The vault only grows at its end.
LEMMA VaultGrows ==
  ASSUME TypeOK, NEW t \in Threads, StepOf(t)
  PROVE  vault' = vault \/ vault' = Append(vault, loc[t].new.version)
BY DEF StepOf, Begin, Answered, RequestFails, UpdateKeyAnswerLost, FetchKey, FetchRefused,
       DecideAdopt, DecideKeep, DecideUpdate, UpdateKey, SavePreviousVersion,
       SavePreviousKey, StoreVersion, StoreKey

\* What is in the vault stays there.
LEMMA InVaultStays ==
  ASSUME vault \in Seq(Nat), NEW v \in Nat, NEW pair \in Versioned,
         vault' = vault \/ vault' = Append(vault, v), InVault(pair)
  PROVE  pair.key \in 1..Len(vault') /\ vault'[pair.key] = pair.version
<1>1. CASE vault' = vault
  BY <1>1 DEF InVault
<1>2. CASE vault' = Append(vault, v)
  <2>1. Len(vault') = Len(vault) + 1 /\ Len(vault) \in Nat
    BY <1>2
  <2>2. \A i \in 1..Len(vault) : vault'[i] = vault[i]
    BY <1>2
  <2> QED BY <2>1, <2>2 DEF InVault
<1> QED BY <1>1, <1>2


\* A step of one server's thread leaves the other servers alone.
LEMMA OtherThreads ==
  ASSUME RefreshOnly, TypeOK, NEW t \in Threads, StepOf(t), NEW u \in Threads, u # t
  PROVE  /\ pc'[u] = pc[u] /\ loc'[u] = loc[u] /\ before'[u] = before[u]
         /\ prov'[u[1]] = prov[u[1]] /\ life'[u[1]] = life[u[1]]
         /\ outcome'[u[1]] = outcome[u[1]]
<1> t[1] \in Servers /\ u[1] \in Servers /\ u[1] # t[1]
  BY OneThread
<1> USE DEF TypeOK
<1>1. CASE Begin(t)
  BY <1>1 DEF Begin, Step
<1>2. CASE RequestFails(t) \/ DecideKeep(t) \/ UpdateKeyAnswerLost(t) \/ StoreKey(t)
  BY <1>2 DEF RequestFails, DecideKeep, UpdateKeyAnswerLost, StoreKey, Return
<1>3. CASE FetchKey(t) \/ FetchRefused(t) \/ DecideAdopt(t) \/ DecideUpdate(t)
  BY <1>3 DEF FetchKey, FetchRefused, DecideAdopt, DecideUpdate, Step
<1>4. CASE UpdateKey(t) \/ SavePreviousVersion(t) \/ SavePreviousKey(t) \/ StoreVersion(t)
  BY <1>4 DEF UpdateKey, SavePreviousVersion, SavePreviousKey, StoreVersion, Step
<1> QED BY <1>1, <1>2, <1>3, <1>4 DEF StepOf, Answered

\* Every step keeps the types.
LEMMA TypeStep ==
  ASSUME TypeOK, NEW t \in Threads, StepOf(t)
  PROVE  TypeOK'
<1> t[1] \in Servers
  BY ThreadServer
<1> Len(vault) \in Nat /\ loc[t].new.version \in Nat /\ loc[t] \in Locals
  BY DEF TypeOK, Locals, Versioned
<1> vault' \in Seq(Nat)
  <2>1. vault' = vault \/ vault' = Append(vault, loc[t].new.version)
    BY VaultGrows
  <2>2. vault \in Seq(Nat)
    BY DEF TypeOK
  <2> QED BY <2>1, <2>2
<1>1. ASSUME NEW r \in Outcome, Return(t, r)
      PROVE  /\ pc' \in [Threads -> Point] /\ loc' \in [Threads -> Locals]
             /\ outcome' \in [Servers -> Outcome]
             /\ life' \in [Servers -> {"down", "starting", "up"}]
             /\ alone' \in [Threads -> BOOLEAN]
  <2>1. NoLocals \in Locals
    BY DEF NoLocals, Entry, Locals, Versioned, Key, NoKey
  <2>2. pc' \in [Threads -> Point] /\ loc' \in [Threads -> Locals]
    BY <1>1, <2>1 DEF TypeOK, Return, Point
  <2>3. outcome' \in [Servers -> Outcome]
    BY <1>1 DEF TypeOK, Return
  <2>4. life' \in [Servers -> {"down", "starting", "up"}]
    BY <1>1 DEF TypeOK, Return
  <2>5. alone' \in [Threads -> BOOLEAN]
    BY <1>1 DEF TypeOK, Return
  <2> QED BY <2>2, <2>3, <2>4, <2>5
<1>2. CASE Begin(t)
  <2>1. Current(t[1]) \in Versioned
    BY DEF TypeOK, Current, Provider, Versioned
  <2>2. \A b \in BOOLEAN : Entry(b) \in Locals
    BY DEF Entry, Locals, Versioned, Key, NoKey
  <2>3. alone' \in [Threads -> BOOLEAN]
    BY <1>2 DEF TypeOK, Begin, Idle
  <2> QED BY <1>2, <2>1, <2>2, <2>3 DEF TypeOK, Begin, Step, Point
<1>3. CASE RequestFails(t) \/ DecideKeep(t) \/ UpdateKeyAnswerLost(t)
  BY <1>1, <1>3 DEF TypeOK, RequestFails, DecideKeep, UpdateKeyAnswerLost, Outcome
<1>4. CASE StoreKey(t)
  <2>1. prov' = [prov EXCEPT ![t[1]] = [prov[t[1]] EXCEPT !.current_key = loc[t].new.key]]
    BY <1>4 DEF StoreKey, TypeOK
  <2>2. [prov[t[1]] EXCEPT !.current_key = loc[t].new.key] \in Provider
    <3>1. loc[t].new.key \in Key /\ prov[t[1]] \in Provider
      BY DEF TypeOK, Locals, Versioned
    <3> QED BY <3>1 DEF Provider
  <2> QED BY <1>1, <1>4, <2>1, <2>2 DEF TypeOK, StoreKey, Outcome
<1>5. CASE FetchKey(t)
  <2>1. CASE vault = <<>>
    <3>1. [loc[t] EXCEPT !.status = "NOT_FOUND"] \in Locals
      BY DEF Locals
    <3> QED BY <1>5, <2>1, <3>1 DEF TypeOK, FetchKey, Step, Point
  <2>2. CASE vault # <<>>
    <3>1. Latest \in Versioned
      BY <2>2 DEF TypeOK, Latest, Versioned, Key
    <3>2. [loc[t] EXCEPT !.new = Latest] \in Locals
      BY <3>1 DEF Locals
    <3> QED BY <1>5, <2>2, <3>2 DEF TypeOK, FetchKey, Step, Point
  <2> QED BY <2>1, <2>2
<1>6. CASE FetchRefused(t)
  <2> PICK status \in Refusals : loc' = [loc EXCEPT ![t].status = status]
    BY <1>6 DEF FetchRefused
  <2>1. [loc[t] EXCEPT !.status = status] \in Locals
    BY KeyVaultAssumption DEF Locals
  <2>2. loc' \in [Threads -> Locals]
    BY <2>1 DEF TypeOK
  <2> QED BY <1>6, <2>2 DEF TypeOK, FetchRefused, Step, Point
<1>7. CASE DecideAdopt(t)
  BY <1>7 DEF TypeOK, DecideAdopt, Step, Point
<1>8. CASE DecideUpdate(t)
  <2>1. NewVersion(t) \in Nat
    BY DEF TypeOK, NewVersion, Provider
  <2>2. [loc[t] EXCEPT !.new = [key |-> NoKey, version |-> NewVersion(t)]] \in Locals
    BY <2>1 DEF Locals, Versioned, Key, NoKey
  <2> QED BY <1>8, <2>2 DEF TypeOK, DecideUpdate, Step, Point
<1>9. CASE UpdateKey(t)
  <2>1. [loc[t] EXCEPT !.new = [loc[t].new EXCEPT !.key = Len(vault) + 1]] \in Locals
    BY DEF Locals, Versioned, Key
  <2> QED BY <1>9, <2>1 DEF TypeOK, UpdateKey, Step, Point
<1>10. CASE SavePreviousVersion(t)
  <2>1. [prov[t[1]] EXCEPT !.previous_key_version = prov[t[1]].current_key_version] \in Provider
    BY DEF TypeOK, Provider
  <2> QED BY <1>10, <2>1 DEF TypeOK, SavePreviousVersion, Step, Point
<1>11. CASE SavePreviousKey(t)
  <2>1. [prov[t[1]] EXCEPT !.previous_key = prov[t[1]].current_key] \in Provider
    BY DEF TypeOK, Provider
  <2> QED BY <1>11, <2>1 DEF TypeOK, SavePreviousKey, Step, Point
<1>12. CASE StoreVersion(t)
  <2>1. [prov[t[1]] EXCEPT !.current_key_version = loc[t].new.version] \in Provider
    BY DEF TypeOK, Provider
  <2> QED BY <1>12, <2>1 DEF TypeOK, StoreVersion, Step, Point
<1> QED
  BY <1>2, <1>3, <1>4, <1>5, <1>6, <1>7, <1>8, <1>9, <1>10, <1>11, <1>12
  DEF StepOf, Answered


\* What a thread of another server relies on is not disturbed.
LEMMA OtherThreadInv ==
  ASSUME RefreshOnly, Inv, NEW t \in Threads, StepOf(t), NEW u \in Threads, u # t
  PROVE  ThreadInv(u)'
<1>1. /\ pc'[u] = pc[u] /\ loc'[u] = loc[u]
      /\ prov'[u[1]] = prov[u[1]] /\ life'[u[1]] = life[u[1]]
  BY OtherThreads DEF Inv
<1>2. loc[t].new.version \in Nat /\ loc[u].new \in Versioned /\ vault \in Seq(Nat)
  BY DEF Inv, TypeOK, Locals, Versioned
<1>3. Current(u[1]) \in Versioned /\ Current(u[1])' = Current(u[1])
  BY <1>1, OneThread DEF Inv, TypeOK, Current, Provider, Versioned
<1>4. vault' = vault \/ vault' = Append(vault, loc[t].new.version)
  BY VaultGrows DEF Inv
<1>5. InVault(loc[u].new) => InVault(loc[u].new)'
  BY <1>1, <1>2, <1>4, InVaultStays DEF InVault
<1>6. InVault(Current(u[1])) => InVault(Current(u[1]))'
  BY <1>2, <1>3, <1>4, InVaultStays DEF InVault
<1> QED BY <1>1, <1>5, <1>6 DEF Inv, ThreadInv

\* Neither is what the thread itself relies on.
LEMMA OwnThreadInv ==
  ASSUME RefreshOnly, Inv, NEW t \in Threads, StepOf(t)
  PROVE  ThreadInv(t)'
<1>0. TypeOK /\ ThreadInv(t) /\ t[1] \in Servers /\ t = Refresher(t[1])
  BY OneThread DEF Inv
<1>1. /\ loc[t] \in Locals /\ prov[t[1]] \in Provider /\ loc[t].new \in Versioned
      /\ vault \in Seq(Nat) /\ Len(vault) \in Nat
  BY <1>0 DEF TypeOK, Locals
<1>2. loc[t].new.version \in Nat /\ Current(t[1]) \in Versioned
  BY <1>1 DEF Versioned, Current, Provider
<1>3. vault' = vault \/ vault' = Append(vault, loc[t].new.version)
  BY <1>0, VaultGrows
<1>4. ASSUME prov'[t[1]].current_key = prov[t[1]].current_key,
             prov'[t[1]].current_key_version = prov[t[1]].current_key_version,
             InVault(Current(t[1]))
      PROVE  InVault(Current(t[1]))'
  <2>1. Current(t[1])' = Current(t[1])
    BY <1>4 DEF Current
  <2> QED BY <2>1, <1>1, <1>2, <1>3, <1>4, InVaultStays DEF InVault
<1>5. ASSUME loc'[t].new = loc[t].new, InVault(loc[t].new)
      PROVE  InVault(loc[t].new)'
  BY <1>1, <1>2, <1>3, <1>5, InVaultStays DEF InVault
<1>6. CASE Begin(t)
  <2>1. /\ pc[t] = "idle" /\ pc'[t] = "fetch" /\ prov' = prov
        /\ \/ life[t[1]] = "down" /\ life'[t[1]] = "starting" /\ ~loc'[t].sync_only
           \/ life[t[1]] = "up" /\ life'[t[1]] = "up"
    BY <1>0, <1>6 DEF Begin, Step, TypeOK, Entry
  <2> QED BY <2>1, <1>0, <1>4 DEF ThreadInv, Storing
<1>7. ASSUME NEW r, Return(t, r), prov'[t[1]] = prov[t[1]], pc[t] # "current_key",
             r # "error" => life[t[1]] # "starting"
      PROVE  ThreadInv(t)'
  <2>1. /\ pc'[t] = "idle"
        /\ life'[t[1]] = IF life[t[1]] = "starting" THEN "down" ELSE life[t[1]]
    BY <1>0, <1>7 DEF Return, TypeOK
  <2> QED BY <2>1, <1>0, <1>4, <1>7 DEF ThreadInv, Storing
<1>8. CASE RequestFails(t) \/ UpdateKeyAnswerLost(t)
  BY <1>7, <1>8 DEF RequestFails, UpdateKeyAnswerLost
<1>9. CASE DecideKeep(t)
  <2>1. life[t[1]] # "starting"
    BY <1>0, <1>9 DEF ThreadInv, DecideKeep
  <2> QED BY <1>7, <1>9, <2>1 DEF DecideKeep
<1>10. CASE FetchKey(t)
  <2>1. /\ pc[t] = "fetch" /\ pc'[t] = "decide" /\ prov' = prov /\ life' = life
        /\ vault' = vault
    BY <1>0, <1>10 DEF FetchKey, Step, TypeOK
  <2>2. CASE vault = <<>>
    <3>1. loc'[t] = [loc[t] EXCEPT !.status = "NOT_FOUND"]
      BY <1>0, <1>10, <2>2 DEF FetchKey, TypeOK
    <3>2. loc'[t].status = "NOT_FOUND" /\ loc'[t].sync_only = loc[t].sync_only
      BY <1>1, <3>1 DEF Locals
    <3> QED BY <1>0, <1>4, <2>1, <3>2 DEF ThreadInv, Storing
  <2>3. CASE vault # <<>>
    <3>1. loc'[t] = [loc[t] EXCEPT !.new = Latest]
      BY <1>0, <1>10, <2>3 DEF FetchKey, TypeOK
    <3>2. loc'[t].new = Latest /\ loc'[t].sync_only = loc[t].sync_only
      BY <1>1, <3>1 DEF Locals
    <3>3. InVault(loc[t].new)'
      BY <1>1, <2>1, <2>3, <3>2 DEF InVault, Latest
    <3> QED BY <1>0, <1>4, <2>1, <3>2, <3>3 DEF ThreadInv, Storing
  <2> QED BY <2>2, <2>3
<1>11. CASE FetchRefused(t)
  <2> PICK status \in Refusals : loc' = [loc EXCEPT ![t].status = status]
    BY <1>11 DEF FetchRefused
  <2>1. /\ pc[t] = "fetch" /\ pc'[t] = "decide" /\ prov' = prov /\ life' = life
        /\ loc'[t] = [loc[t] EXCEPT !.status = status]
    BY <1>0, <1>11 DEF FetchRefused, Step, TypeOK
  <2>2. loc'[t].status # "OK" /\ loc'[t].sync_only = loc[t].sync_only
    BY <1>1, <2>1, KeyVaultAssumption DEF Locals
  <2> QED BY <1>0, <1>4, <2>1, <2>2 DEF ThreadInv, Storing
<1>12. CASE DecideAdopt(t)
  <2>1. /\ pc[t] = "decide" /\ pc'[t] = "previous_version" /\ prov' = prov /\ life' = life
        /\ loc' = loc /\ loc[t].status = "OK"
    BY <1>0, <1>12 DEF DecideAdopt, Step, TypeOK, AdoptFetched
  <2> QED BY <1>0, <1>4, <1>5, <2>1 DEF ThreadInv, Storing
<1>13. CASE DecideUpdate(t)
  <2>1. /\ pc[t] = "decide" /\ pc'[t] = "put" /\ prov' = prov /\ life' = life
        /\ loc'[t] = [loc[t] EXCEPT !.new = [key |-> NoKey, version |-> NewVersion(t)]]
    BY <1>0, <1>13 DEF DecideUpdate, Step, TypeOK
  <2>2. loc'[t].sync_only = loc[t].sync_only
    BY <1>1, <2>1 DEF Locals
  <2> QED BY <1>0, <1>4, <2>1, <2>2 DEF ThreadInv, Storing
<1>14. CASE UpdateKey(t)
  <2>1. /\ pc[t] = "put" /\ pc'[t] \in {"previous_version", "current_version"}
        /\ prov' = prov /\ life' = life /\ vault' = Append(vault, loc[t].new.version)
        /\ loc'[t] = [loc[t] EXCEPT !.new = [loc[t].new EXCEPT !.key = Len(vault) + 1]]
    BY <1>0, <1>14 DEF UpdateKey, Step, TypeOK
  <2>2. /\ loc'[t].sync_only = loc[t].sync_only
        /\ loc'[t].new = [loc[t].new EXCEPT !.key = Len(vault) + 1]
    BY <1>1, <2>1 DEF Locals
  <2>3. loc'[t].new.key = Len(vault) + 1 /\ loc'[t].new.version = loc[t].new.version
    BY <1>1, <2>2 DEF Versioned
  <2>4. InVault(loc[t].new)'
    BY <1>1, <1>2, <2>1, <2>3 DEF InVault
  <2> QED BY <1>0, <1>4, <2>1, <2>2, <2>4 DEF ThreadInv, Storing
<1>15. CASE SavePreviousVersion(t)
  <2>2. /\ pc[t] = "previous_version" /\ pc'[t] = "previous_key" /\ life' = life /\ loc' = loc
        /\ prov'[t[1]] = [prov[t[1]] EXCEPT !.previous_key_version
                                              = prov[t[1]].current_key_version]
    BY <1>0, <1>15 DEF SavePreviousVersion, Step, TypeOK
  <2>3. /\ prov'[t[1]].current_key = prov[t[1]].current_key
        /\ prov'[t[1]].current_key_version = prov[t[1]].current_key_version
    BY <1>1, <2>2 DEF Provider
  <2> QED BY <1>0, <1>4, <1>5, <2>2, <2>3 DEF ThreadInv, Storing
<1>16. CASE SavePreviousKey(t)
  <2>2. /\ pc[t] = "previous_key" /\ pc'[t] = "current_version" /\ life' = life /\ loc' = loc
        /\ prov'[t[1]] = [prov[t[1]] EXCEPT !.previous_key = prov[t[1]].current_key]
    BY <1>0, <1>16 DEF SavePreviousKey, Step, TypeOK
  <2>3. /\ prov'[t[1]].current_key = prov[t[1]].current_key
        /\ prov'[t[1]].current_key_version = prov[t[1]].current_key_version
    BY <1>1, <2>2 DEF Provider
  <2> QED BY <1>0, <1>4, <1>5, <2>2, <2>3 DEF ThreadInv, Storing
<1>17. CASE StoreVersion(t)
  <2>2. /\ pc[t] = "current_version" /\ pc'[t] = "current_key" /\ life' = life /\ loc' = loc
        /\ prov'[t[1]] = [prov[t[1]] EXCEPT !.current_key_version = loc[t].new.version]
    BY <1>0, <1>17 DEF StoreVersion, Step, TypeOK
  <2>3. /\ prov'[t[1]].current_key = prov[t[1]].current_key
        /\ prov'[t[1]].current_key_version = loc[t].new.version
    BY <1>1, <2>2 DEF Provider
  <2> QED BY <1>0, <1>5, <2>2, <2>3 DEF ThreadInv, Storing
<1>18. CASE StoreKey(t)
  <2>2. /\ pc[t] = "current_key" /\ pc'[t] = "idle" /\ vault' = vault
        /\ life'[t[1]] = IF life[t[1]] = "starting" THEN "up" ELSE life[t[1]]
        /\ prov'[t[1]] = [prov[t[1]] EXCEPT !.current_key = loc[t].new.key]
    BY <1>0, <1>18 DEF StoreKey, Return, TypeOK
  <2>3. /\ prov'[t[1]].current_key = loc[t].new.key
        /\ prov'[t[1]].current_key_version = prov[t[1]].current_key_version
    BY <1>1, <2>2 DEF Provider
  <2>4. life[t[1]] # "down"
    BY <1>0, <2>2 DEF ThreadInv
  <2>5. InVault(Current(t[1]))'
    BY <1>0, <2>2, <2>3 DEF ThreadInv, Storing, InVault, Current
  <2> QED BY <1>0, <2>2, <2>4, <2>5 DEF ThreadInv, Storing, TypeOK
<1> QED
  BY <1>6, <1>8, <1>9, <1>10, <1>11, <1>12, <1>13, <1>14, <1>15, <1>16, <1>17, <1>18
  DEF StepOf, Answered


\* A server that dies loses its keys; the others do not notice.
LEMMA CrashEffect ==
  ASSUME TypeOK, NEW s \in Servers, Crash(s)
  PROVE  /\ TypeOK'
         /\ vault' = vault /\ before' = before
         /\ \A u \in Threads : u[1] = s =>
              /\ pc'[u] = "idle" /\ loc'[u] = NoLocals /\ life'[s] = "down"
              /\ prov'[s] = Constructed /\ outcome'[s] = "none"
         /\ \A u \in Threads : u[1] # s =>
              /\ pc'[u] = pc[u] /\ loc'[u] = loc[u] /\ life'[u[1]] = life[u[1]]
              /\ prov'[u[1]] = prov[u[1]] /\ outcome'[u[1]] = outcome[u[1]]
<1>1. NoLocals \in Locals /\ Constructed \in Provider
  BY DEF NoLocals, Entry, Locals, Versioned, Key, NoKey, Constructed, Provider
<1>2. \A u \in Threads : u[1] \in Servers
  BY ThreadServer
<1>3. TypeOK'
  BY <1>1 DEF TypeOK, Crash, Point, Outcome
<1> QED BY <1>2, <1>3 DEF TypeOK, Crash

\* The types are right initially.
LEMMA InitType ==
  ASSUME Init
  PROVE  TypeOK
<1>1. NoLocals \in Locals /\ Constructed \in Provider /\ NoLocals.new \in Versioned
  BY DEF NoLocals, Entry, Locals, Versioned, Key, NoKey, Constructed, Provider
<1>2. vault \in Seq(Nat)
  <2>1. <<>> \in Seq(Nat) /\ <<0>> \in Seq(Nat) /\ <<1>> \in Seq(Nat)
    OBVIOUS
  <2> QED BY <2>1, Zenon DEF Init
<1> QED BY <1>1, <1>2 DEF Init, TypeOK, Point, Outcome

\* What a thread relies on.
LEMMA InitInv ==
  ASSUME Init
  PROVE  Inv
<1>1. ASSUME NEW t \in Threads
      PROVE  ThreadInv(t)
  <2>1. pc[t] = "idle" /\ life[t[1]] = "down" /\ prov[t[1]] = Constructed
    BY ThreadServer DEF Init
  <2> QED BY <2>1 DEF ThreadInv, Storing, Constructed
<1> QED BY <1>1, InitType DEF Inv

\* Every step keeps the invariant.
LEMMA NextInv ==
  ASSUME RefreshOnly, Inv, [Next]_vars
  PROVE  Inv'
<1>1. ASSUME NEW t \in Threads, StepOf(t)
      PROVE  Inv'
  BY <1>1, TypeStep, OwnThreadInv, OtherThreadInv DEF Inv
<1>2. ASSUME NEW s \in Servers, Crash(s)
      PROVE  Inv'
  <2>1. TypeOK'
    BY <1>2, CrashEffect DEF Inv
  <2>2. ASSUME NEW u \in Threads
        PROVE  ThreadInv(u)'
    <3>1. vault' = vault /\ ThreadInv(u)
      BY <1>2, CrashEffect DEF Inv
    <3>2. CASE u[1] = s
      <4>1. /\ pc'[u] = "idle" /\ life'[u[1]] = "down" /\ prov'[u[1]] = Constructed
        BY <1>2, <3>2, CrashEffect DEF Inv
      <4> QED BY <4>1 DEF ThreadInv, Storing, Constructed
    <3>3. CASE u[1] # s
      <4>1. /\ pc'[u] = pc[u] /\ loc'[u] = loc[u] /\ life'[u[1]] = life[u[1]]
            /\ prov'[u[1]] = prov[u[1]]
        BY <1>2, <3>3, CrashEffect DEF Inv
      <4> QED BY <3>1, <4>1 DEF ThreadInv, InVault, Current
    <3> QED BY <3>2, <3>3
  <2> QED BY <2>1, <2>2 DEF Inv
<1>3. CASE UNCHANGED vars
  BY <1>3 DEF Inv, vars, TypeOK, ThreadInv, InVault, Current
<1> QED BY <1>1, <1>2, <1>3 DEF Next, StepOf

\* The current key and version of a running server are a pair that the vault
\* stored, for every number of servers that roll over and with either key
\* vault (DoRefreshKey of both providers).
THEOREM HeldKeysComeFromVaultTheorem ==
  ASSUME RefreshOnly
  PROVE  Spec => []HeldKeysComeFromVault
<1>1. Init => Inv
  BY InitInv
<1>2. Inv /\ [Next]_vars => Inv'
  BY NextInv
<1>3. Inv => HeldKeysComeFromVault
  <2> SUFFICES ASSUME Inv, NEW s \in Servers, life[s] = "up", Idle(s)
               PROVE  InVault(Current(s))
    BY DEF HeldKeysComeFromVault
  <2>1. Refresher(s) \in Threads /\ Refresher(s)[1] = s
    BY OneThread
  <2> QED BY <2>1 DEF Inv, ThreadInv, Idle
<1> QED BY <1>1, <1>2, <1>3, PTL DEF Spec


-----------------------------------------------------------------------------
(* A running server finds a key in the vault and stores only a newer       *)
(* version, unless its fetch was refused.                                  *)

\* What the stores of a refresh mean for the versions and the previous key.
RefreshInv(t) ==
  /\ pc[t] \in {"idle", "fetch", "previous_version", "previous_key"} => loc[t].status = "OK"
  /\ pc[t] = "put" /\ loc[t].status = "OK" =>
       loc[t].new.version = prov[t[1]].current_key_version + 1
  /\ pc[t] \in {"put", "current_version", "current_key"} /\ loc[t].status # "OK" =>
       loc[t].new.version = 1
  /\ (/\ life[t[1]] = "up" /\ loc[t].status = "OK"
      /\ pc[t] \in {"put", "previous_version", "previous_key", "current_version"}) =>
       loc[t].new.version > prov[t[1]].current_key_version
  /\ life[t[1]] = "up" /\ pc[t] \notin {"idle", "current_key"} => before[t] = Current(t[1])
  /\ life[t[1]] = "starting" => before[t].key = NoKey
  /\ pc[t] = "previous_key" =>
       prov[t[1]].previous_key_version = prov[t[1]].current_key_version
  /\ (/\ life[t[1]] = "up" /\ loc[t].status = "OK"
      /\ pc[t] \in {"current_version", "current_key"}) => Previous(t[1]) = before[t]
  /\ (/\ life[t[1]] = "up" /\ pc[t] = "idle" /\ outcome[t[1]] = "refreshed"
      /\ before[t].key # NoKey) => Previous(t[1]) = before[t]

\* A step of the thread itself keeps it.
LEMMA OwnRefreshInv ==
  ASSUME RefreshOnly, Inv, NEW t \in Threads, StepOf(t), RefreshInv(t)
  PROVE  RefreshInv(t)'
<1>0. TypeOK /\ ThreadInv(t) /\ t[1] \in Servers /\ t = Refresher(t[1])
  BY OneThread DEF Inv
<1>1. /\ loc[t] \in Locals /\ prov[t[1]] \in Provider /\ loc[t].new \in Versioned
      /\ vault \in Seq(Nat) /\ Len(vault) \in Nat
  BY <1>0 DEF TypeOK, Locals
<1>2. /\ loc[t].new.version \in Nat /\ prov[t[1]].current_key_version \in Nat
  BY <1>1 DEF Versioned, Provider
<1>3. life[t[1]] = "up" /\ pc[t] # "current_key" => vault # <<>>
  BY <1>0 DEF ThreadInv, InVault
<1>6. CASE Begin(t)
  <2>1. /\ pc[t] = "idle" /\ pc'[t] = "fetch" /\ prov' = prov /\ before'[t] = Current(t[1])
        /\ loc'[t].status = "OK"
        /\ \/ life[t[1]] = "down" /\ life'[t[1]] = "starting"
           \/ life[t[1]] = "up" /\ life'[t[1]] = "up"
    BY <1>0, <1>6 DEF Begin, Step, TypeOK, Entry
  <2>2. life[t[1]] = "down" => Current(t[1]).key = NoKey
    BY <1>0, Zenon DEF ThreadInv, Current
  <2>3. Current(t[1])' = Current(t[1])
    BY <2>1 DEF Current
  <2> QED BY <2>1, <2>2, <2>3, SMTT(20) DEF RefreshInv
<1>7. ASSUME NEW r, Return(t, r), before' = before, r # "refreshed",
             r # "error" => life[t[1]] # "starting"
      PROVE  RefreshInv(t)'
  <2>1. /\ pc'[t] = "idle" /\ loc'[t] = NoLocals /\ outcome'[t[1]] = r
        /\ life'[t[1]] # "starting"
    BY <1>0, <1>7 DEF Return, TypeOK
  <2> QED BY <2>1, <1>7 DEF RefreshInv, NoLocals, Entry
<1>8. CASE RequestFails(t) \/ UpdateKeyAnswerLost(t)
  BY <1>7, <1>8 DEF RequestFails, UpdateKeyAnswerLost
<1>9. CASE DecideKeep(t)
  <2>1. life[t[1]] # "starting"
    BY <1>0, <1>9 DEF ThreadInv, DecideKeep
  <2> QED BY <1>7, <1>9, <2>1 DEF DecideKeep
<1>10. CASE FetchKey(t)
  <2>1. /\ pc[t] = "fetch" /\ pc'[t] = "decide" /\ prov' = prov /\ life' = life
        /\ before' = before
    BY <1>0, <1>10 DEF FetchKey, Step, TypeOK
  <2>2. CASE vault = <<>>
    <3>1. loc'[t] = [loc[t] EXCEPT !.status = "NOT_FOUND"]
      BY <1>0, <1>10, <2>2 DEF FetchKey, TypeOK
    <3>2. loc'[t].status = "NOT_FOUND"
      BY <1>1, <3>1 DEF Locals
    <3>3. life[t[1]] = "starting"
      BY <1>0, <1>3, <2>1, <2>2 DEF ThreadInv, TypeOK
    <3> QED BY <2>1, <3>2, <3>3 DEF RefreshInv
  <2>3. CASE vault # <<>>
    <3>1. loc'[t] = [loc[t] EXCEPT !.new = Latest]
      BY <1>0, <1>10, <2>3 DEF FetchKey, TypeOK
    <3>2. loc'[t].status = loc[t].status
      BY <1>1, <3>1 DEF Locals
    <3> QED BY <2>1, <3>2 DEF RefreshInv, Current
  <2> QED BY <2>2, <2>3
<1>11. CASE FetchRefused(t)
  <2> PICK status \in Refusals : loc' = [loc EXCEPT ![t].status = status]
    BY <1>11 DEF FetchRefused
  <2>1. /\ pc[t] = "fetch" /\ pc'[t] = "decide" /\ prov' = prov /\ life' = life
        /\ before' = before /\ loc'[t] = [loc[t] EXCEPT !.status = status]
    BY <1>0, <1>11 DEF FetchRefused, Step, TypeOK
  <2>2. loc'[t].status # "OK"
    BY <1>1, <2>1, KeyVaultAssumption DEF Locals
  <2> QED BY <2>1, <2>2 DEF RefreshInv, Current
<1>12. CASE DecideAdopt(t)
  <2>1. /\ pc[t] = "decide" /\ pc'[t] = "previous_version" /\ prov' = prov /\ life' = life
        /\ loc' = loc /\ before' = before /\ (life[t[1]] = "up" => Newer(t))
        /\ loc[t].status = "OK"
    BY <1>0, <1>12 DEF DecideAdopt, Step, TypeOK, AdoptFetched
  <2> QED BY <2>1 DEF RefreshInv, Newer, Current
<1>13. CASE DecideUpdate(t)
  <2>1. /\ pc[t] = "decide" /\ pc'[t] = "put" /\ prov' = prov /\ life' = life
        /\ before' = before
        /\ loc'[t] = [loc[t] EXCEPT !.new = [key |-> NoKey, version |-> NewVersion(t)]]
    BY <1>0, <1>13 DEF DecideUpdate, Step, TypeOK
  <2>2. loc'[t].status = loc[t].status /\ loc'[t].new.version = NewVersion(t)
    BY <1>1, <2>1 DEF Locals
  <2>4. IF loc[t].status = "OK"
        THEN /\ loc'[t].new.version = prov[t[1]].current_key_version + 1
             /\ loc'[t].new.version > prov[t[1]].current_key_version
        ELSE loc'[t].new.version = 1
    BY <1>2, <2>2 DEF NewVersion
  <2> QED BY <2>1, <2>2, <2>4 DEF RefreshInv, Current
<1>14. CASE UpdateKey(t)
  <2>1. /\ pc[t] = "put" /\ prov' = prov /\ life' = life /\ before' = before
        /\ pc'[t] = IF loc[t].status = "OK" THEN "previous_version" ELSE "current_version"
        /\ loc'[t] = [loc[t] EXCEPT !.new = [loc[t].new EXCEPT !.key = Len(vault) + 1]]
    BY <1>0, <1>14 DEF UpdateKey, Step, TypeOK
  <2>2. /\ loc'[t].status = loc[t].status
        /\ loc'[t].new = [loc[t].new EXCEPT !.key = Len(vault) + 1]
    BY <1>1, <2>1 DEF Locals
  <2>3. loc'[t].new.version = loc[t].new.version
    BY <1>1, <2>2 DEF Versioned
  <2> QED BY <2>1, <2>2, <2>3 DEF RefreshInv, Current
<1>15. CASE SavePreviousVersion(t)
  <2>2. /\ pc[t] = "previous_version" /\ pc'[t] = "previous_key" /\ life' = life /\ loc' = loc
        /\ before' = before
        /\ prov'[t[1]] = [prov[t[1]] EXCEPT !.previous_key_version
                                              = prov[t[1]].current_key_version]
    BY <1>0, <1>15 DEF SavePreviousVersion, Step, TypeOK
  <2>3. /\ prov'[t[1]].current_key = prov[t[1]].current_key
        /\ prov'[t[1]].current_key_version = prov[t[1]].current_key_version
        /\ prov'[t[1]].previous_key_version = prov[t[1]].current_key_version
    BY <1>1, <2>2 DEF Provider
  <2> QED BY <2>2, <2>3 DEF RefreshInv, Current
<1>16. CASE SavePreviousKey(t)
  <2>2. /\ pc[t] = "previous_key" /\ pc'[t] = "current_version" /\ life' = life /\ loc' = loc
        /\ before' = before
        /\ prov'[t[1]] = [prov[t[1]] EXCEPT !.previous_key = prov[t[1]].current_key]
    BY <1>0, <1>16 DEF SavePreviousKey, Step, TypeOK
  <2>3. /\ prov'[t[1]].current_key = prov[t[1]].current_key
        /\ prov'[t[1]].current_key_version = prov[t[1]].current_key_version
        /\ prov'[t[1]].previous_key = prov[t[1]].current_key
        /\ prov'[t[1]].previous_key_version = prov[t[1]].previous_key_version
    BY <1>1, <2>2 DEF Provider
  <2>4. Current(t[1])' = Current(t[1]) /\ Previous(t[1])' = Current(t[1])
    BY <2>2, <2>3 DEF RefreshInv, Current, Previous
  <2> QED BY <2>2, <2>3, <2>4 DEF RefreshInv
<1>17. CASE StoreVersion(t)
  <2>2. /\ pc[t] = "current_version" /\ pc'[t] = "current_key" /\ life' = life /\ loc' = loc
        /\ before' = before
        /\ prov'[t[1]] = [prov[t[1]] EXCEPT !.current_key_version = loc[t].new.version]
    BY <1>0, <1>17 DEF StoreVersion, Step, TypeOK
  <2>3. Previous(t[1])' = Previous(t[1])
    BY <1>1, <2>2 DEF Provider, Previous
  <2> QED BY <2>2, <2>3 DEF RefreshInv
<1>18. CASE StoreKey(t)
  <2>2. /\ pc[t] = "current_key" /\ pc'[t] = "idle" /\ before' = before
        /\ life'[t[1]] = IF life[t[1]] = "starting" THEN "up" ELSE life[t[1]]
        /\ loc'[t] = NoLocals
        /\ outcome'[t[1]] = IF loc[t].status = "OK" THEN "refreshed" ELSE "replaced"
        /\ prov'[t[1]] = [prov[t[1]] EXCEPT !.current_key = loc[t].new.key]
    BY <1>0, <1>18 DEF StoreKey, Return, TypeOK
  <2>3. Previous(t[1])' = Previous(t[1])
    BY <1>1, <2>2 DEF Provider, Previous
  <2> QED BY <2>2, <2>3 DEF RefreshInv, NoLocals, Entry
<1> QED
  BY <1>6, <1>8, <1>9, <1>10, <1>11, <1>12, <1>13, <1>14, <1>15, <1>16, <1>17, <1>18
  DEF StepOf, Answered


RInv == Inv /\ \A t \in Threads : RefreshInv(t)

\* Every step keeps RefreshInv of every thread.
LEMMA NextRInv ==
  ASSUME RefreshOnly, RInv, [Next]_vars
  PROVE  RInv'
<1>1. Inv /\ Inv' /\ TypeOK
  BY NextInv DEF RInv, Inv
<1>2. ASSUME NEW t \in Threads, StepOf(t), NEW u \in Threads
      PROVE  RefreshInv(u)'
  <2>1. CASE u = t
    BY <1>1, <1>2, <2>1, OwnRefreshInv DEF RInv
  <2>2. CASE u # t
    <3>1. /\ pc'[u] = pc[u] /\ loc'[u] = loc[u] /\ before'[u] = before[u]
          /\ prov'[u[1]] = prov[u[1]] /\ life'[u[1]] = life[u[1]]
          /\ outcome'[u[1]] = outcome[u[1]]
      BY <1>1, <1>2, <2>2, OtherThreads
    <3>2. RefreshInv(u) /\ Current(u[1])' = Current(u[1]) /\ Previous(u[1])' = Previous(u[1])
      BY <3>1, Zenon DEF RInv, Current, Previous
    <3> QED BY <3>1, <3>2, ZenonT(20) DEF RefreshInv
  <2> QED BY <2>1, <2>2
<1>3. ASSUME NEW s \in Servers, Crash(s), NEW u \in Threads
      PROVE  RefreshInv(u)'
  <2>1. CASE u[1] = s
    <3>1. pc'[u] = "idle" /\ loc'[u] = NoLocals /\ life'[u[1]] = "down"
      BY <1>1, <1>3, <2>1, CrashEffect
    <3>2. loc'[u].status = "OK"
      BY <3>1 DEF NoLocals, Entry
    <3> QED BY <3>1, <3>2 DEF RefreshInv
  <2>2. CASE u[1] # s
    <3>1. /\ pc'[u] = pc[u] /\ loc'[u] = loc[u] /\ before'[u] = before[u]
          /\ prov'[u[1]] = prov[u[1]] /\ life'[u[1]] = life[u[1]]
          /\ outcome'[u[1]] = outcome[u[1]]
      BY <1>1, <1>3, <2>2, CrashEffect
    <3>2. RefreshInv(u) /\ Current(u[1])' = Current(u[1]) /\ Previous(u[1])' = Previous(u[1])
      BY <3>1, Zenon DEF RInv, Current, Previous
    <3> QED BY <3>1, <3>2, ZenonT(20) DEF RefreshInv
  <2> QED BY <2>1, <2>2
<1>4. ASSUME UNCHANGED vars, NEW u \in Threads
      PROVE  RefreshInv(u)'
  <2>1. RefreshInv(u)
    BY DEF RInv
  <2>2. pc' = pc /\ loc' = loc /\ life' = life /\ before' = before /\ outcome' = outcome
        /\ prov' = prov
    BY <1>4 DEF vars
  <2> QED BY <2>1, <2>2 DEF RefreshInv, Current, Previous
<1> QED BY <1>1, <1>2, <1>3, <1>4 DEF RInv, Next, StepOf

\* It holds initially.
LEMMA InitRInv ==
  ASSUME RefreshOnly, Init
  PROVE  RInv
<1>1. ASSUME NEW t \in Threads
      PROVE  RefreshInv(t)
  <2>1. pc[t] = "idle" /\ life[t[1]] = "down" /\ loc[t] = NoLocals
    BY OneThread DEF Init
  <2>2. loc[t].status = "OK"
    BY <2>1 DEF NoLocals, Entry
  <2> QED BY <2>1, <2>2 DEF RefreshInv
<1> QED BY <1>1, InitInv DEF RInv

\* After a refresh the key that was current is the previous one, so its
\* clients are still served (key_vault_provider.cc:61-64 and 74-77).
THEOREM PreviousKeyKeptTheorem ==
  ASSUME RefreshOnly
  PROVE  Spec => []PreviousKeyKept
<1>1. Init => RInv
  BY InitRInv
<1>2. RInv /\ [Next]_vars => RInv'
  BY NextRInv
<1>3. RInv => PreviousKeyKept
  <2> SUFFICES ASSUME RInv, NEW s \in Servers, life[s] = "up", Idle(s),
                      outcome[s] = "refreshed", before[Refresher(s)].key # NoKey
               PROVE  Previous(s) = before[Refresher(s)]
    BY DEF PreviousKeyKept
  <2>1. Refresher(s) \in Threads /\ Refresher(s)[1] = s
    BY OneThread
  <2> QED BY <2>1 DEF RInv, RefreshInv, Idle
<1> QED BY <1>1, <1>2, <1>3, PTL DEF Spec

-----------------------------------------------------------------------------
(* Any threads may refresh.  A refresh that no other one of its server     *)
(* overlaps stores a newer version, or was refused.                        *)

\* A thread that is alone has its server to itself, and decides on a version
\* that is newer than the one it will replace.
AloneInv(t) ==
  alone[t] /\ pc[t] # "idle" =>
    /\ \A u \in Threads \ {t} : u[1] = t[1] => pc[u] = "idle"
    /\ (/\ life[t[1]] = "up" /\ loc[t].status = "OK"
        /\ pc[t] \in {"put", "previous_version", "previous_key", "current_version"}) =>
         loc[t].new.version > prov[t[1]].current_key_version

AInv == TypeOK /\ \A t \in Threads : AloneInv(t)

\* What a step of a thread leaves alone, whichever threads there are.
LEMMA ThreadStep ==
  ASSUME TypeOK, NEW t \in Threads, StepOf(t)
  PROVE  /\ \A u \in Threads \ {t} : pc'[u] = pc[u] /\ loc'[u] = loc[u]
         /\ \A s \in Servers \ {t[1]} : prov'[s] = prov[s] /\ life'[s] = life[s]
         /\ \A u \in Threads \ {t} : u[1] # t[1] \/ ~Begin(t) => alone'[u] = alone[u]
         /\ Begin(t) => /\ pc[t] = "idle" /\ pc'[t] = "fetch"
                        /\ \A u \in Threads : u[1] = t[1] => alone'[u] = Idle(t[1])
         /\ ~Begin(t) => pc[t] # "idle" /\ (pc'[t] = "idle" \/ alone'[t] = alone[t])
<1> t[1] \in Servers
  BY ThreadServer
<1> USE DEF TypeOK
<1>1. CASE Begin(t)
  BY <1>1 DEF Begin, Step
<1>2. CASE (RequestFails(t) \/ DecideKeep(t) \/ UpdateKeyAnswerLost(t) \/ StoreKey(t)) /\ ~Begin(t)
  BY <1>2 DEF RequestFails, DecideKeep, UpdateKeyAnswerLost, StoreKey, Return
<1>3. CASE (FetchKey(t) \/ FetchRefused(t) \/ DecideAdopt(t) \/ DecideUpdate(t)) /\ ~Begin(t)
  BY <1>3 DEF FetchKey, FetchRefused, DecideAdopt, DecideUpdate, Step
<1>4. CASE /\ UpdateKey(t) \/ SavePreviousVersion(t) \/ SavePreviousKey(t) \/ StoreVersion(t)
           /\ ~Begin(t)
  BY <1>4 DEF UpdateKey, SavePreviousVersion, SavePreviousKey, StoreVersion, Step
<1> QED BY <1>1, <1>2, <1>3, <1>4 DEF StepOf, Answered

\* A thread that is alone decides on a newer version and keeps to it.
LEMMA NewerStep ==
  ASSUME AInv, NEW t \in Threads, StepOf(t), alone[t], pc[t] # "idle",
         life'[t[1]] = "up", loc'[t].status = "OK",
         pc'[t] \in {"put", "previous_version", "previous_key", "current_version"}
  PROVE  loc'[t].new.version > prov'[t[1]].current_key_version
<1>1. /\ TypeOK /\ AloneInv(t) /\ t[1] \in Servers
      /\ loc[t] \in Locals /\ prov[t[1]] \in Provider
  BY ThreadServer DEF AInv, TypeOK
<1>2. /\ loc[t].new.version \in Nat /\ prov[t[1]].current_key_version \in Nat
      /\ loc[t].new \in Versioned
  BY <1>1 DEF Locals, Versioned, Provider
<1>3. CASE DecideAdopt(t)
  <2>1. loc' = loc /\ prov' = prov /\ life' = life /\ AdoptFetched(t)
    BY <1>3 DEF DecideAdopt
  <2> QED BY <2>1 DEF AdoptFetched, Newer
<1>4. CASE DecideUpdate(t)
  <2>1. /\ prov' = prov
        /\ loc'[t] = [loc[t] EXCEPT !.new = [key |-> NoKey, version |-> NewVersion(t)]]
    BY <1>1, <1>4 DEF DecideUpdate, TypeOK
  <2>2. loc'[t].status = loc[t].status /\ loc'[t].new.version = NewVersion(t)
    BY <1>1, <2>1 DEF Locals
  <2>3. NewVersion(t) = prov[t[1]].current_key_version + 1
    BY <2>2 DEF NewVersion
  <2> QED BY <1>2, <2>1, <2>2, <2>3
<1>5. CASE UpdateKey(t)
  <2>1. /\ pc[t] = "put" /\ prov' = prov /\ life' = life
        /\ loc'[t] = [loc[t] EXCEPT !.new = [loc[t].new EXCEPT !.key = Len(vault) + 1]]
    BY <1>1, <1>5 DEF UpdateKey, Step, TypeOK
  <2>2. /\ loc'[t].status = loc[t].status
        /\ loc'[t].new = [loc[t].new EXCEPT !.key = Len(vault) + 1]
    BY <1>1, <2>1 DEF Locals
  <2>3. loc'[t].new.version = loc[t].new.version
    BY <1>2, <2>2 DEF Versioned
  <2> QED BY <1>1, <2>1, <2>2, <2>3 DEF AloneInv
<1>6. CASE SavePreviousVersion(t)
  <2>1. /\ pc[t] = "previous_version" /\ loc' = loc /\ life' = life
        /\ prov'[t[1]] = [prov[t[1]] EXCEPT !.previous_key_version
                                              = prov[t[1]].current_key_version]
    BY <1>1, <1>6 DEF SavePreviousVersion, Step, TypeOK
  <2>2. prov'[t[1]].current_key_version = prov[t[1]].current_key_version
    BY <1>1, <2>1 DEF Provider
  <2> QED BY <1>1, <2>1, <2>2 DEF AloneInv
<1>7. CASE SavePreviousKey(t)
  <2>1. /\ pc[t] = "previous_key" /\ loc' = loc /\ life' = life
        /\ prov'[t[1]] = [prov[t[1]] EXCEPT !.previous_key = prov[t[1]].current_key]
    BY <1>1, <1>7 DEF SavePreviousKey, Step, TypeOK
  <2>2. prov'[t[1]].current_key_version = prov[t[1]].current_key_version
    BY <1>1, <2>1 DEF Provider
  <2> QED BY <1>1, <2>1, <2>2 DEF AloneInv
<1>8. CASE \/ Begin(t) \/ RequestFails(t) \/ DecideKeep(t) \/ UpdateKeyAnswerLost(t)
           \/ StoreKey(t) \/ FetchKey(t) \/ FetchRefused(t) \/ StoreVersion(t)
  <2>1. pc'[t] \in {"idle", "fetch", "decide", "current_key"}
    BY <1>1, <1>8 DEF Begin, RequestFails, DecideKeep, UpdateKeyAnswerLost, StoreKey,
                      FetchKey, FetchRefused, StoreVersion, Return, Step, TypeOK
  <2> QED BY <2>1
<1> QED BY <1>3, <1>4, <1>5, <1>6, <1>7, <1>8 DEF StepOf, Answered

\* Every step keeps the invariant.
LEMMA NextAInv ==
  ASSUME AInv, [Next]_vars
  PROVE  AInv'
<1>1. ASSUME NEW t \in Threads, StepOf(t), NEW u \in Threads
      PROVE  AloneInv(u)'
  <2>0. TypeOK /\ AloneInv(u) /\ t[1] \in Servers /\ u[1] \in Servers
    BY ThreadServer DEF AInv
  <2>1. /\ \A w \in Threads \ {t} : pc'[w] = pc[w] /\ loc'[w] = loc[w]
        /\ \A s \in Servers \ {t[1]} : prov'[s] = prov[s] /\ life'[s] = life[s]
    BY <1>1, <2>0, ThreadStep
  <2>2. /\ \A w \in Threads \ {t} : w[1] # t[1] \/ ~Begin(t) => alone'[w] = alone[w]
        /\ ~Begin(t) => pc[t] # "idle" /\ (pc'[t] = "idle" \/ alone'[t] = alone[t])
    BY <1>1, <2>0, ThreadStep
  <2>3. Begin(t) => /\ pc[t] = "idle" /\ pc'[t] = "fetch"
                    /\ \A w \in Threads : w[1] = t[1] => alone'[w] = Idle(t[1])
    BY <1>1, <2>0, ThreadStep
  <2> SUFFICES ASSUME alone'[u], pc'[u] # "idle"
               PROVE  AloneInv(u)'
    BY DEF AloneInv
  <2>4. CASE u # t /\ u[1] = t[1]
    <3>1. pc[u] # "idle"
      BY <2>4, <2>1
    <3>2. ~Begin(t)
      BY <2>4, <2>3, <3>1 DEF Idle
    <3>3. alone[u] /\ pc[t] # "idle"
      BY <2>4, <2>2, <3>2
    <3> QED BY <2>0, <2>4, <3>1, <3>3 DEF AloneInv
  <2>5. CASE u[1] # t[1]
    <3>1. /\ pc'[u] = pc[u] /\ loc'[u] = loc[u] /\ alone'[u] = alone[u]
          /\ prov'[u[1]] = prov[u[1]] /\ life'[u[1]] = life[u[1]]
      BY <2>0, <2>5, <2>1, <2>2
    <3>2. \A w \in Threads \ {u} : w[1] = u[1] => pc'[w] = pc[w]
      BY <2>0, <2>5, <2>1, <2>2
    <3> QED BY <2>0, <3>1, <3>2 DEF AloneInv
  <2>6. CASE u = t /\ Begin(t)
    <3>1. pc'[u] = "fetch" /\ Idle(t[1])
      BY <2>6, <2>3
    <3>2. \A w \in Threads \ {u} : w[1] = u[1] => pc'[w] = "idle"
      BY <2>6, <2>1, <3>1 DEF Idle
    <3> QED BY <3>1, <3>2 DEF AloneInv
  <2>7. CASE u = t /\ ~Begin(t)
    <3>1. pc[u] # "idle" /\ alone[u]
      BY <2>7, <2>2
    <3>2. \A w \in Threads \ {u} : w[1] = u[1] => pc'[w] = "idle"
      BY <2>0, <2>7, <2>1, <3>1 DEF AloneInv
    <3>3. (/\ life'[u[1]] = "up" /\ loc'[u].status = "OK"
           /\ pc'[u] \in {"put", "previous_version", "previous_key", "current_version"}) =>
            loc'[u].new.version > prov'[u[1]].current_key_version
      BY <1>1, <2>7, <3>1, NewerStep
    <3> QED BY <3>2, <3>3 DEF AloneInv
  <2> QED BY <2>4, <2>5, <2>6, <2>7
<1>2. ASSUME NEW s \in Servers, Crash(s), NEW u \in Threads
      PROVE  AloneInv(u)'
  <2>1. TypeOK /\ AloneInv(u)
    BY DEF AInv
  <2>2. CASE u[1] = s
    BY <1>2, <2>1, <2>2, CrashEffect DEF AloneInv
  <2>3. CASE u[1] # s
    <3>1. /\ pc'[u] = pc[u] /\ loc'[u] = loc[u] /\ life'[u[1]] = life[u[1]]
          /\ prov'[u[1]] = prov[u[1]]
      BY <1>2, <2>1, <2>3, CrashEffect
    <3>2. alone'[u] = alone[u]
      BY <1>2, <2>1, <2>3 DEF Crash, TypeOK
    <3>3. \A w \in Threads : w[1] = u[1] => pc'[w] = pc[w]
      BY <1>2, <2>1, <2>3, CrashEffect
    <3> QED BY <2>1, <3>1, <3>2, <3>3 DEF AloneInv
  <2> QED BY <2>2, <2>3
<1>3. CASE UNCHANGED vars
  BY <1>3 DEF AInv, vars, TypeOK, AloneInv
<1>4. TypeOK'
  BY TypeStep, CrashEffect, <1>3 DEF AInv, Next, StepOf
<1> QED BY <1>1, <1>2, <1>3, <1>4 DEF AInv, Next, StepOf

\* A running server goes back to an older version only in a refresh that was
\* refused or that overlaps another one of this server, whatever the servers
\* store in the vault (key_vault_provider.cc:60 and 72) and however many HTTP
\* threads refresh as well (api.cc:143-145).
THEOREM VersionsGrowTheorem == Spec => VersionsGrow
<1> DEFINE Excused(s) == \E t \in Threads :
             t[1] = s /\ pc[t] # "idle" /\ (loc[t].status # "OK" \/ ~alone[t])
           Grows == \A s \in Servers :
             /\ life[s] = "up" /\ life'[s] = "up"
             /\ prov'[s].current_key_version < prov[s].current_key_version
             => Excused(s)
<1>1. Init => AInv
  <2>1. Init => \A t \in Threads : AloneInv(t)
    BY DEF Init, AloneInv
  <2> QED BY <2>1, InitType DEF AInv
<1>2. AInv /\ [Next]_vars => AInv'
  BY NextAInv
<1>3. AInv /\ [Next]_vars => [Grows]_vars
  <2> SUFFICES ASSUME AInv, Next, NEW s \in Servers, life[s] = "up", life'[s] = "up",
                      prov'[s].current_key_version < prov[s].current_key_version
               PROVE  Excused(s)
    OBVIOUS
  <2>1. TypeOK /\ prov[s] \in Provider /\ prov[s].current_key_version \in Nat
    BY DEF AInv, TypeOK, Provider
  <2>2. ASSUME NEW o \in Servers, Crash(o)
        PROVE  FALSE
    <3>1. s # o
      BY <2>1, <2>2 DEF Crash, TypeOK
    <3>2. prov'[s] = prov[s]
      BY <2>1, <2>2, <3>1 DEF Crash, TypeOK
    <3> QED BY <2>1, <3>2
  <2>3. PICK t \in Threads : StepOf(t)
    BY <2>2 DEF Next, StepOf
  <2>4. t[1] = s
    <3> SUFFICES ASSUME t[1] # s PROVE FALSE
      OBVIOUS
    <3>1. prov'[s] = prov[s]
      BY <2>1, <2>3, ThreadStep
    <3> QED BY <2>1, <3>1
  <2>5. StoreVersion(t)
    <3> SUFFICES ASSUME ~StoreVersion(t) PROVE FALSE
      OBVIOUS
    <3>1. \/ prov' = prov
          \/ prov' = [prov EXCEPT ![t[1]].previous_key_version = prov[t[1]].current_key_version]
          \/ prov' = [prov EXCEPT ![t[1]].previous_key = prov[t[1]].current_key]
          \/ prov' = [prov EXCEPT ![t[1]].current_key = loc[t].new.key]
      BY <2>3
      DEF StepOf, Begin, Answered, RequestFails, UpdateKeyAnswerLost, FetchKey,
          FetchRefused, DecideAdopt, DecideKeep, DecideUpdate, UpdateKey,
          SavePreviousVersion, SavePreviousKey, StoreKey
    <3>2. prov \in [Servers -> Provider]
      BY <2>1 DEF TypeOK
    <3>3. prov'[s].current_key_version = prov[s].current_key_version
      BY <2>1, <2>4, <3>1, <3>2 DEF Provider
    <3> QED BY <2>1, <3>3
  <2>6. /\ pc[t] = "current_version"
        /\ prov'[s] = [prov[s] EXCEPT !.current_key_version = loc[t].new.version]
    BY <2>1, <2>4, <2>5 DEF StoreVersion, Step, TypeOK
  <2>7. prov'[s].current_key_version = loc[t].new.version /\ loc[t].new.version \in Nat
    BY <2>1, <2>6 DEF TypeOK, Provider, Locals, Versioned
  <2>8. loc[t].status # "OK" \/ ~alone[t]
    <3> SUFFICES ASSUME loc[t].status = "OK", alone[t] PROVE FALSE
      OBVIOUS
    <3>1. loc[t].new.version > prov[s].current_key_version
      BY <2>4, <2>6 DEF AInv, AloneInv
    <3> QED BY <2>1, <2>7, <3>1
  <2> QED BY <2>4, <2>6, <2>8
<1>4. [][Grows]_vars => VersionsGrow
  BY PTL DEF VersionsGrow
<1> QED BY <1>1, <1>2, <1>3, <1>4, PTL DEF Spec

-----------------------------------------------------------------------------
(* The servers follow one log.                                              *)

\* What a server holds does not depend on other servers' threads.
LEMMA HeldAlone ==
  ASSUME NEW s, NEW t, t = Refresher(s),
         pc'[t] = pc[t], loc'[t] = loc[t], prov'[s] = prov[s]
  PROVE  Held(s)' = Held(s) /\ HeldBefore(s)' = HeldBefore(s)
BY DEF Held, HeldBefore, Stored, Current, Previous, Refresher

\* A step of one server's thread changes what this server holds, at most.
LEMMA HeldByOne ==
  ASSUME RefreshOnly, TypeOK, NEW t \in Threads, StepOf(t)
  PROVE  \A o \in Servers \ {t[1]} : Held(o)' = Held(o) /\ HeldBefore(o)' = HeldBefore(o)
<1> SUFFICES ASSUME NEW o \in Servers \ {t[1]}
             PROVE  Held(o)' = Held(o) /\ HeldBefore(o)' = HeldBefore(o)
  OBVIOUS
<1> DEFINE u == Refresher(o)
<1>1. u \in Threads /\ u[1] = o /\ u # t
  BY OneThread
<1>2. pc'[u] = pc[u] /\ loc'[u] = loc[u] /\ prov'[o] = prov[o]
  BY <1>1, OtherThreads
<1> QED BY <1>2, HeldAlone

\* The steps of the log, seen from one server.
LEMMA LogStep ==
  ASSUME NEW s \in Servers,
         \A o \in Servers \ {s} : Held(o)' = Held(o) /\ HeldBefore(o)' = HeldBefore(o),
         \/ UNCHANGED <<vault, Held(s), HeldBefore(s)>>
         \/ /\ UNCHANGED <<Held(s), HeldBefore(s)>>
            /\ \/ vault' = Append(vault, 1)
               \/ vault' = Append(vault, Held(s).version + 1)
         \/ /\ vault' = vault /\ InVault(Held(s)') /\ vault \in Seq(Nat)
            /\ Held(s)' \in Versioned
            /\ \/ /\ HeldBefore(s)' = Held(s)
                  /\ Held(s).key = NoKey \/ Held(s)'.version > Held(s).version
               \/ HeldBefore(s)' = HeldBefore(s) /\ Held(s)'.version = 1
         \/ vault' = vault /\ Held(s)' = Shared!None /\ HeldBefore(s)' = Shared!None
  PROVE  [Shared!Next]_(Shared!vars)
<1> DEFINE cur == [o \in Servers |-> Held(o)]
           prev == [o \in Servers |-> HeldBefore(o)]
<1>1. cur[s] = Held(s) /\ prev[s] = HeldBefore(s)
  OBVIOUS
<1>2. cur' = [cur EXCEPT ![s] = Held(s)'] /\ prev' = [prev EXCEPT ![s] = HeldBefore(s)']
  OBVIOUS
<1>3. CASE UNCHANGED <<vault, Held(s), HeldBefore(s)>>
  <2>1. cur' = cur /\ prev' = prev /\ vault' = vault
    BY <1>2, <1>3
  <2> QED BY <2>1 DEF Shared!vars
<1>4. CASE /\ UNCHANGED <<Held(s), HeldBefore(s)>>
           /\ \/ vault' = Append(vault, 1)
              \/ vault' = Append(vault, Held(s).version + 1)
  <2>1. cur' = cur /\ prev' = prev
    BY <1>2, <1>4
  <2>2. Shared!Put(s)
    BY <1>1, <1>4, <2>1 DEF Shared!Put
  <2> QED BY <2>2 DEF Shared!Next
<1>5. CASE /\ vault' = vault /\ InVault(Held(s)') /\ vault \in Seq(Nat)
           /\ Held(s)' \in Versioned
           /\ \/ /\ HeldBefore(s)' = Held(s)
                 /\ Held(s).key = NoKey \/ Held(s)'.version > Held(s).version
              \/ HeldBefore(s)' = HeldBefore(s) /\ Held(s)'.version = 1
  <2> DEFINE k == Held(s)'.key
  <2>1. k \in DOMAIN vault /\ vault[k] = Held(s)'.version
    BY <1>5 DEF InVault
  <2>2. Shared!Entry(k) = Held(s)'
    BY <1>5, <2>1 DEF Shared!Entry, Versioned
  <2>3. CASE /\ HeldBefore(s)' = Held(s)
             /\ Held(s).key = NoKey \/ Held(s)'.version > Held(s).version
    <3>1. Shared!Take(s, k)
      BY <1>1, <1>2, <1>5, <2>1, <2>2, <2>3 DEF Shared!Take, Shared!None, NoKey
    <3> QED BY <2>1, <3>1 DEF Shared!Next
  <2>4. CASE HeldBefore(s)' = HeldBefore(s) /\ Held(s)'.version = 1
    <3>1. prev' = prev
      BY <1>2, <2>4
    <3>2. Shared!Replace(s, k)
      BY <1>2, <1>5, <2>1, <2>2, <2>4, <3>1 DEF Shared!Replace
    <3> QED BY <2>1, <3>2 DEF Shared!Next
  <2> QED BY <1>5, <2>3, <2>4
<1>6. CASE vault' = vault /\ Held(s)' = Shared!None /\ HeldBefore(s)' = Shared!None
  <2>1. Shared!Forget(s)
    BY <1>2, <1>6 DEF Shared!Forget
  <2> QED BY <2>1 DEF Shared!Next
<1> QED BY <1>3, <1>4, <1>5, <1>6

\* A step of a thread is a step of the log: the PUT adds to it, the first store
\* of a refresh takes from it, and the other stores change nothing more.
LEMMA ThreadSimulation ==
  ASSUME RefreshOnly, RInv, NEW t \in Threads, StepOf(t)
  PROVE  [Shared!Next]_(Shared!vars)
<1> DEFINE s == t[1]
<1>1. /\ TypeOK /\ ThreadInv(t) /\ RefreshInv(t) /\ s \in Servers /\ t = Refresher(s)
  BY OneThread DEF RInv, Inv
<1>2. /\ loc[t] \in Locals /\ prov[s] \in Provider /\ loc[t].new \in Versioned
      /\ vault \in Seq(Nat)
  BY <1>1 DEF TypeOK, Locals
<1>3. \A o \in Servers \ {s} : Held(o)' = Held(o) /\ HeldBefore(o)' = HeldBefore(o)
  BY <1>1, HeldByOne
<1>4. ASSUME pc[t] \in {"idle", "fetch", "decide", "put", "previous_version"}
      PROVE  Held(s) = Current(s) /\ HeldBefore(s) = Previous(s)
  BY <1>1, <1>4 DEF Held, HeldBefore, Stored
<1>5. ASSUME pc'[t] \in {"idle", "fetch", "decide", "put", "previous_version"}, prov'[s] = prov[s]
      PROVE  Held(s)' = Current(s) /\ HeldBefore(s)' = Previous(s)
  BY <1>1, <1>5 DEF Held, HeldBefore, Stored, Current, Previous
<1>6. CASE \/ Begin(t) \/ FetchKey(t) \/ FetchRefused(t) \/ DecideAdopt(t) \/ DecideUpdate(t)
           \/ DecideKeep(t) \/ RequestFails(t)
  <2>1. /\ pc[t] \in {"idle", "fetch", "decide", "put"}
        /\ pc'[t] \in {"idle", "fetch", "decide", "put", "previous_version"}
        /\ prov' = prov /\ vault' = vault
    BY <1>1, <1>6 DEF Begin, FetchKey, FetchRefused, DecideAdopt, DecideUpdate, DecideKeep,
                      RequestFails, Return, Step, TypeOK
  <2>2. UNCHANGED <<vault, Held(s), HeldBefore(s)>>
    BY <1>4, <1>5, <2>1
  <2> QED BY <1>1, <1>3, <2>2, LogStep
<1>7. CASE UpdateKey(t) \/ UpdateKeyAnswerLost(t)
  <2>1. /\ pc[t] = "put" /\ prov' = prov
        /\ pc'[t] = "current_version" => loc'[t].status # "OK"
        /\ pc'[t] \in {"idle", "previous_version", "current_version"}
        /\ vault' = Append(vault, loc[t].new.version)
    <3>1. CASE UpdateKey(t)
      <4>1. /\ pc[t] = "put" /\ prov' = prov
            /\ pc'[t] = IF loc[t].status = "OK" THEN "previous_version" ELSE "current_version"
            /\ loc'[t] = [loc[t] EXCEPT !.new = [loc[t].new EXCEPT !.key = Len(vault) + 1]]
            /\ vault' = Append(vault, loc[t].new.version)
        BY <1>1, <3>1 DEF UpdateKey, Step, TypeOK
      <4>2. loc'[t].status = loc[t].status
        BY <1>2, <4>1 DEF Locals
      <4> QED BY <4>1, <4>2
    <3>2. CASE UpdateKeyAnswerLost(t)
      BY <1>1, <3>2 DEF UpdateKeyAnswerLost, Return, TypeOK
    <3> QED BY <1>7, <3>1, <3>2
  <2>2. Held(s)' = Current(s) /\ HeldBefore(s)' = Previous(s)
    BY <1>1, <2>1 DEF Held, HeldBefore, Stored, Current, Previous
  <2>3. UNCHANGED <<Held(s), HeldBefore(s)>>
    BY <1>4, <2>1, <2>2
  <2>4. loc[t].new.version \in {1, Held(s).version + 1}
    <3>1. Held(s).version = prov[s].current_key_version
      BY <1>4, <2>1 DEF Current
    <3>2. loc[t].new.version \in {1, prov[s].current_key_version + 1}
      BY <1>1, <2>1, Zenon DEF RefreshInv
    <3> QED BY <3>1, <3>2, Zenon
  <2> QED BY <1>1, <1>3, <2>1, <2>3, <2>4, LogStep
<1>8. CASE SavePreviousVersion(t)
  <2>1. /\ pc[t] = "previous_version" /\ pc'[t] = "previous_key" /\ loc' = loc /\ vault' = vault
        /\ prov'[s] = [prov[s] EXCEPT !.previous_key_version = prov[s].current_key_version]
    BY <1>1, <1>8 DEF SavePreviousVersion, Step, TypeOK
  <2>2. Current(s)' = Current(s)
    BY <1>2, <2>1 DEF Provider, Current
  <2>3. /\ Held(s) = Current(s) /\ Held(s)' = loc[t].new /\ HeldBefore(s)' = Current(s)
    BY <1>1, <1>4, <2>1, <2>2 DEF Held, HeldBefore, Stored, RefreshInv
  <2>4. InVault(loc[t].new)
    BY <1>1, <2>1 DEF ThreadInv, Storing
  <2>5. Held(s).key = NoKey \/ loc[t].new.version > Held(s).version
    <3>1. life[s] \in {"down", "starting", "up"}
      BY <1>1 DEF TypeOK
    <3>2. CASE life[s] = "up"
      BY <1>1, <2>1, <2>3, <3>2 DEF RefreshInv, Current
    <3>3. CASE life[s] # "up"
      BY <1>1, <2>1, <2>3, <3>1, <3>3 DEF ThreadInv, Current
    <3> QED BY <3>2, <3>3
  <2> QED BY <1>1, <1>2, <1>3, <2>1, <2>3, <2>4, <2>5, LogStep
<1>9. CASE SavePreviousKey(t)
  <2>1. /\ pc[t] = "previous_key" /\ pc'[t] = "current_version" /\ loc' = loc /\ vault' = vault
        /\ prov'[s] = [prov[s] EXCEPT !.previous_key = prov[s].current_key]
    BY <1>1, <1>9 DEF SavePreviousKey, Step, TypeOK
  <2>2. Previous(s)' = Current(s)
    BY <1>1, <1>2, <2>1 DEF Provider, Current, Previous, RefreshInv
  <2>3. UNCHANGED <<vault, Held(s), HeldBefore(s)>>
    BY <1>1, <2>1, <2>2 DEF Held, HeldBefore, Stored, RefreshInv
  <2> QED BY <1>1, <1>3, <2>3, LogStep
<1>10. CASE StoreVersion(t)
  <2>1. /\ pc[t] = "current_version" /\ pc'[t] = "current_key" /\ loc' = loc /\ vault' = vault
        /\ prov'[s] = [prov[s] EXCEPT !.current_key_version = loc[t].new.version]
    BY <1>1, <1>10 DEF StoreVersion, Step, TypeOK
  <2>2. Previous(s)' = Previous(s)
    BY <1>2, <2>1 DEF Provider, Previous
  <2>3. Held(s)' = loc[t].new /\ HeldBefore(s)' = HeldBefore(s)
    BY <1>1, <2>1, <2>2 DEF Held, HeldBefore, Stored
  <2>4. CASE loc[t].status = "OK"
    <3>1. UNCHANGED <<vault, Held(s), HeldBefore(s)>>
      BY <1>1, <2>1, <2>3, <2>4 DEF Held, Stored
    <3> QED BY <1>1, <1>3, <3>1, LogStep
  <2>5. CASE loc[t].status # "OK"
    <3>1. InVault(loc[t].new) /\ loc[t].new.version = 1
      BY <1>1, <2>1, <2>5 DEF ThreadInv, Storing, RefreshInv
    <3> QED BY <1>1, <1>2, <1>3, <2>1, <2>3, <3>1, LogStep
  <2> QED BY <2>4, <2>5
<1>11. CASE StoreKey(t)
  <2>1. /\ pc[t] = "current_key" /\ pc'[t] = "idle" /\ vault' = vault
        /\ prov'[s] = [prov[s] EXCEPT !.current_key = loc[t].new.key]
    BY <1>1, <1>11 DEF StoreKey, Return, TypeOK
  <2>2. Previous(s)' = Previous(s) /\ Current(s)' = loc[t].new
    BY <1>1, <1>2, <2>1 DEF Provider, Versioned, Current, Previous, ThreadInv
  <2>3. UNCHANGED <<vault, Held(s), HeldBefore(s)>>
    BY <1>1, <2>1, <2>2 DEF Held, HeldBefore, Stored
  <2> QED BY <1>1, <1>3, <2>3, LogStep
<1> QED BY <1>6, <1>7, <1>8, <1>9, <1>10, <1>11 DEF StepOf, Answered

\* With any number of servers, of which any number roll over, the providers
\* implement the log of keys: the four stores of a refresh are one step, and
\* failures, refusals and crashes show only as steps the log allows
\* (key_vault_provider.cc:46-77).
THEOREM RefreshIsAtomicTheorem ==
  ASSUME RefreshOnly
  PROVE  Spec => RefreshIsAtomic
<1>1. Init => Shared!Init
  <2> SUFFICES ASSUME Init PROVE Shared!Init
    OBVIOUS
  <2>1. vault \in Seq(Nat)
    BY InitInv DEF Inv, TypeOK
  <2>2. ASSUME NEW s \in Servers
        PROVE  Held(s) = Shared!None /\ HeldBefore(s) = Shared!None
    <3>1. pc[Refresher(s)] = "idle" /\ prov[s] = Constructed
      BY OneThread DEF Init
    <3> QED BY <3>1 DEF Held, HeldBefore, Stored, Current, Previous, Constructed, NoKey,
                        Shared!None
  <2> QED BY <2>1, <2>2 DEF Shared!Init
<1>2. RInv /\ [Next]_vars => [Shared!Next]_(Shared!vars)
  <2> SUFFICES ASSUME RInv, [Next]_vars PROVE [Shared!Next]_(Shared!vars)
    OBVIOUS
  <2>1. ASSUME NEW t \in Threads, StepOf(t)
        PROVE  [Shared!Next]_(Shared!vars)
    BY <2>1, ThreadSimulation
  <2>2. ASSUME NEW s \in Servers, Crash(s)
        PROVE  [Shared!Next]_(Shared!vars)
    <3>1. TypeOK /\ vault' = vault
      BY <2>2 DEF RInv, Inv, Crash
    <3>2. \A o \in Servers \ {s} : Held(o)' = Held(o) /\ HeldBefore(o)' = HeldBefore(o)
      <4> SUFFICES ASSUME NEW o \in Servers \ {s}
                   PROVE  Held(o)' = Held(o) /\ HeldBefore(o)' = HeldBefore(o)
        OBVIOUS
      <4> DEFINE u == Refresher(o)
      <4>1. u \in Threads /\ u[1] = o
        BY OneThread
      <4>2. pc'[u] = pc[u] /\ loc'[u] = loc[u] /\ prov'[o] = prov[o]
        BY <2>2, <3>1, <4>1, CrashEffect
      <4> QED BY <4>2, HeldAlone
    <3>3. pc'[Refresher(s)] = "idle" /\ prov'[s] = Constructed
      BY <2>2, <3>1, OneThread, CrashEffect
    <3>4. Held(s)' = Shared!None /\ HeldBefore(s)' = Shared!None
      BY <3>3 DEF Held, HeldBefore, Stored, Current, Previous, Constructed, NoKey, Shared!None,
                  Refresher
    <3> QED BY <3>1, <3>2, <3>4, LogStep
  <2>3. CASE UNCHANGED vars
    <3>1. \A s \in Servers : Held(s)' = Held(s) /\ HeldBefore(s)' = HeldBefore(s)
      BY <2>3 DEF vars, Held, HeldBefore, Stored, Current, Previous, Refresher
    <3> QED BY <2>3, <3>1 DEF vars, Shared!vars
  <2> QED BY <2>1, <2>2, <2>3 DEF Next, StepOf
<1>3. Init => RInv
  BY InitRInv
<1>4. RInv /\ [Next]_vars => RInv'
  BY NextRInv
<1> QED BY <1>1, <1>2, <1>3, <1>4, PTL DEF Spec, RefreshIsAtomic, Shared!Spec

-----------------------------------------------------------------------------
(* One server rolls over and the key exists: versions in the vault grow.   *)

OneRoller == \A r, q \in Rollers : r = q

VaultInv == vault # <<>> /\ \A i, j \in 1..Len(vault) : i < j => vault[i] < vault[j]

\* What the roller has fetched is still the vault's last key when it decides,
\* so that the version it stores is newer than all in the vault.
RollerInv(t) ==
  /\ loc[t].status = "OK"
  /\ life[t[1]] = "up" /\ pc[t] # "idle" /\ ~loc[t].sync_only => t[1] \in Rollers
  /\ pc[t] = "put" => t[1] \in Rollers /\ loc[t].new.version > vault[Len(vault)]
  /\ pc[t] = "decide" /\ t[1] \in Rollers => loc[t].new.version = vault[Len(vault)]
  /\ pc[t] # "previous_key" => prov[t[1]].previous_key = NoKey \/ InVault(Previous(t[1]))
  /\ pc[t] = "previous_key" =>
       prov[t[1]].previous_key_version = prov[t[1]].current_key_version

OInv == Inv /\ VaultInv /\ \A t \in Threads : RollerInv(t)

\* The roller appends a newer version; nobody else appends.
LEMMA VaultStep ==
  ASSUME OInv, NEW t \in Threads, StepOf(t)
  PROVE  VaultInv' /\ (vault' # vault => pc[t] = "put" /\ t[1] \in Rollers)
<1>0. vault \in Seq(Nat) /\ Len(vault) \in Nat /\ TypeOK /\ RollerInv(t) /\ VaultInv
      /\ loc[t].new.version \in Nat
  BY DEF OInv, Inv, TypeOK, Locals, Versioned
<1>1. CASE UpdateKey(t) \/ UpdateKeyAnswerLost(t)
  <2>1. pc[t] = "put" /\ vault' = Append(vault, loc[t].new.version)
    BY <1>1 DEF UpdateKey, UpdateKeyAnswerLost, Step
  <2>2. loc[t].new.version > vault[Len(vault)] /\ t[1] \in Rollers
    BY <1>0, <2>1 DEF RollerInv
  <2>3. \A i \in 1..Len(vault) : vault[i] \in Nat /\ vault[i] < loc[t].new.version
    BY <1>0, <2>2 DEF VaultInv
  <2>4. /\ Len(vault') = Len(vault) + 1 /\ vault'[Len(vault) + 1] = loc[t].new.version
        /\ \A i \in 1..Len(vault) : vault'[i] = vault[i]
    BY <1>0, <2>1
  <2>5. VaultInv'
    <3>1. vault' # <<>>
      BY <1>0, <2>1
    <3>2. ASSUME NEW i \in 1..Len(vault'), NEW j \in 1..Len(vault'), i < j
          PROVE  vault'[i] < vault'[j]
      <4>1. i \in 1..Len(vault) /\ vault'[i] = vault[i]
        BY <1>0, <2>4, <3>2
      <4>2. CASE j = Len(vault) + 1
        BY <2>3, <2>4, <4>1, <4>2
      <4>3. CASE j # Len(vault) + 1
        <5>1. j \in 1..Len(vault) /\ vault'[j] = vault[j]
          BY <1>0, <2>4, <4>3
        <5> QED BY <1>0, <3>2, <4>1, <5>1 DEF VaultInv
      <4> QED BY <4>2, <4>3
    <3> QED BY <3>1, <3>2 DEF VaultInv
  <2> QED BY <2>1, <2>2, <2>5
<1>2. CASE ~UpdateKey(t) /\ ~UpdateKeyAnswerLost(t)
  <2>1. vault' = vault
    BY <1>2 DEF StepOf, Begin, Answered, RequestFails, FetchKey, FetchRefused,
       DecideAdopt, DecideKeep, DecideUpdate, SavePreviousVersion,
       SavePreviousKey, StoreVersion, StoreKey
  <2> QED BY <1>0, <2>1 DEF VaultInv
<1> QED BY <1>1, <1>2

\* A step of another server's thread does not outdate what this one fetched.
LEMMA OtherRollerInv ==
  ASSUME RefreshOnly, OneRoller, OInv, NEW t \in Threads, StepOf(t), NEW u \in Threads, u # t
  PROVE  RollerInv(u)'
<1>1. /\ pc'[u] = pc[u] /\ loc'[u] = loc[u]
      /\ prov'[u[1]] = prov[u[1]] /\ life'[u[1]] = life[u[1]]
  BY OtherThreads DEF OInv, Inv
<1>2. /\ vault \in Seq(Nat) /\ loc[t].new.version \in Nat /\ RollerInv(u)
      /\ Previous(u[1]) \in Versioned /\ Previous(u[1])' = Previous(u[1])
  BY <1>1, OneThread DEF OInv, Inv, TypeOK, Previous, Provider, Versioned, Locals
<1>3. vault' = vault \/ vault' = Append(vault, loc[t].new.version)
  BY VaultGrows DEF OInv, Inv
<1>4. InVault(Previous(u[1])) => InVault(Previous(u[1]))'
  BY <1>2, <1>3, InVaultStays DEF InVault
<1>5. u[1] \in Rollers => vault' = vault
  BY VaultStep, OneThread DEF OneRoller
<1> QED BY <1>1, <1>2, <1>4, <1>5 DEF RollerInv

\* Neither does a step of its own.
LEMMA OwnRollerInv ==
  ASSUME RefreshOnly, Refusals = {}, OInv, NEW t \in Threads, StepOf(t)
  PROVE  RollerInv(t)'
<1>0. /\ TypeOK /\ ThreadInv(t) /\ RollerInv(t) /\ VaultInv
      /\ t[1] \in Servers /\ t = Refresher(t[1])
  BY OneThread DEF OInv, Inv
<1>1. /\ loc[t] \in Locals /\ prov[t[1]] \in Provider /\ loc[t].new \in Versioned
      /\ vault \in Seq(Nat) /\ Len(vault) \in Nat
  BY <1>0 DEF TypeOK, Locals
<1>2. /\ loc[t].new.version \in Nat /\ prov[t[1]].current_key_version \in Nat
      /\ Previous(t[1]) \in Versioned
  BY <1>1 DEF Versioned, Provider, Previous
<1>3. vault' = vault \/ vault' = Append(vault, loc[t].new.version)
  BY <1>0, VaultGrows
<1>4. ASSUME prov'[t[1]].previous_key = prov[t[1]].previous_key,
             prov'[t[1]].previous_key_version = prov[t[1]].previous_key_version,
             pc[t] # "previous_key"
      PROVE  prov'[t[1]].previous_key = NoKey \/ InVault(Previous(t[1]))'
  <2>1. Previous(t[1])' = Previous(t[1])
    BY <1>4 DEF Previous
  <2>2. InVault(Previous(t[1])) => InVault(Previous(t[1]))'
    BY <2>1, <1>1, <1>2, <1>3, InVaultStays DEF InVault
  <2> QED BY <1>0, <1>4, <2>2 DEF RollerInv
<1>6. CASE Begin(t)
  <2>1. /\ pc[t] = "idle" /\ pc'[t] = "fetch" /\ prov' = prov /\ loc'[t].status = "OK"
        /\ life'[t[1]] = "up" /\ ~loc'[t].sync_only => t[1] \in Rollers
    BY <1>0, <1>6 DEF Begin, Step, TypeOK, Entry
  <2> QED BY <2>1, <1>4 DEF RollerInv
<1>7. ASSUME NEW r, Return(t, r), pc[t] # "previous_key",
             prov'[t[1]].previous_key = prov[t[1]].previous_key,
             prov'[t[1]].previous_key_version = prov[t[1]].previous_key_version
      PROVE  RollerInv(t)'
  <2>1. pc'[t] = "idle" /\ loc'[t] = NoLocals
    BY <1>0, <1>7 DEF Return, TypeOK
  <2>2. loc'[t].status = "OK"
    BY <2>1 DEF NoLocals, Entry
  <2>3. prov'[t[1]].previous_key = NoKey \/ InVault(Previous(t[1]))'
    BY <1>4, <1>7, Zenon
  <2> QED BY <2>1, <2>2, <2>3, Zenon DEF RollerInv
<1>8. CASE RequestFails(t) \/ UpdateKeyAnswerLost(t) \/ DecideKeep(t)
  BY <1>7, <1>8 DEF RequestFails, UpdateKeyAnswerLost, DecideKeep
<1>10. CASE FetchKey(t)
  <2>1. /\ pc[t] = "fetch" /\ pc'[t] = "decide" /\ prov' = prov /\ life' = life
        /\ vault' = vault /\ loc'[t] = [loc[t] EXCEPT !.new = Latest]
    BY <1>0, <1>10 DEF FetchKey, Step, TypeOK, VaultInv
  <2>2. /\ loc'[t].status = loc[t].status /\ loc'[t].sync_only = loc[t].sync_only
        /\ loc'[t].new.version = vault[Len(vault)]
    BY <1>1, <2>1 DEF Locals, Latest
  <2> QED BY <1>0, <1>4, <2>1, <2>2 DEF RollerInv
<1>12. CASE DecideAdopt(t)
  <2>1. /\ pc[t] = "decide" /\ pc'[t] = "previous_version" /\ prov' = prov /\ life' = life
        /\ loc' = loc
    BY <1>0, <1>12 DEF DecideAdopt, Step, TypeOK
  <2> QED BY <1>0, <1>4, <2>1 DEF RollerInv
<1>13. CASE DecideUpdate(t)
  <2>1. /\ pc[t] = "decide" /\ pc'[t] = "put" /\ prov' = prov /\ life' = life /\ vault' = vault
        /\ ~loc[t].sync_only /\ life[t[1]] # "starting" /\ ~Newer(t)
        /\ loc'[t] = [loc[t] EXCEPT !.new = [key |-> NoKey, version |-> NewVersion(t)]]
    BY <1>0, <1>13 DEF DecideUpdate, Step, TypeOK, RollerInv, AdoptFetched
  <2>2. /\ loc'[t].status = loc[t].status /\ loc'[t].sync_only = loc[t].sync_only
        /\ loc'[t].new.version = prov[t[1]].current_key_version + 1
    BY <1>0, <1>1, <2>1 DEF Locals, NewVersion, RollerInv
  <2>3. t[1] \in Rollers
    BY <1>0, <2>1 DEF RollerInv, ThreadInv, TypeOK
  <2>4. loc'[t].new.version > vault[Len(vault)]
    BY <1>0, <1>2, <2>1, <2>2, <2>3 DEF RollerInv, Newer
  <2> QED BY <1>0, <1>4, <2>1, <2>2, <2>3, <2>4 DEF RollerInv
<1>14. CASE UpdateKey(t)
  <2>1. /\ pc[t] = "put" /\ pc'[t] = "previous_version" /\ prov' = prov /\ life' = life
        /\ loc'[t] = [loc[t] EXCEPT !.new = [loc[t].new EXCEPT !.key = Len(vault) + 1]]
    BY <1>0, <1>14 DEF UpdateKey, Step, TypeOK, RollerInv
  <2>2. loc'[t].status = loc[t].status /\ loc'[t].sync_only = loc[t].sync_only
    BY <1>1, <2>1 DEF Locals
  <2> QED BY <1>0, <1>4, <2>1, <2>2 DEF RollerInv
<1>15. CASE SavePreviousVersion(t)
  <2>2. /\ pc[t] = "previous_version" /\ pc'[t] = "previous_key" /\ life' = life /\ loc' = loc
        /\ prov'[t[1]] = [prov[t[1]] EXCEPT !.previous_key_version
                                              = prov[t[1]].current_key_version]
    BY <1>0, <1>15 DEF SavePreviousVersion, Step, TypeOK
  <2>3. prov'[t[1]].previous_key_version = prov'[t[1]].current_key_version
    BY <1>1, <2>2 DEF Provider
  <2> QED BY <1>0, <2>2, <2>3 DEF RollerInv
<1>16. CASE SavePreviousKey(t)
  <2>2. /\ pc[t] = "previous_key" /\ pc'[t] = "current_version" /\ life' = life /\ loc' = loc
        /\ vault' = vault
        /\ prov'[t[1]] = [prov[t[1]] EXCEPT !.previous_key = prov[t[1]].current_key]
    BY <1>0, <1>16 DEF SavePreviousKey, Step, TypeOK
  <2>3. /\ prov'[t[1]].previous_key = prov[t[1]].current_key
        /\ prov'[t[1]].previous_key_version = prov[t[1]].current_key_version
    BY <1>0, <1>1, <2>2 DEF Provider, RollerInv
  <2>4. prov[t[1]].current_key = NoKey \/ InVault(Current(t[1]))
    BY <1>0, <2>2 DEF ThreadInv, TypeOK
  <2>5. Previous(t[1])' = Current(t[1])
    BY <2>3 DEF Previous, Current
  <2>6. prov'[t[1]].previous_key = NoKey \/ InVault(Previous(t[1]))'
    BY <2>2, <2>3, <2>4, <2>5 DEF InVault
  <2> QED BY <1>0, <2>2, <2>6 DEF RollerInv
<1>17. CASE StoreVersion(t)
  <2>2. /\ pc[t] = "current_version" /\ pc'[t] = "current_key" /\ life' = life /\ loc' = loc
        /\ prov'[t[1]] = [prov[t[1]] EXCEPT !.current_key_version = loc[t].new.version]
    BY <1>0, <1>17 DEF StoreVersion, Step, TypeOK
  <2>3. /\ prov'[t[1]].previous_key = prov[t[1]].previous_key
        /\ prov'[t[1]].previous_key_version = prov[t[1]].previous_key_version
    BY <1>1, <2>2 DEF Provider
  <2> QED BY <1>0, <1>4, <2>2, <2>3 DEF RollerInv
<1>18. CASE StoreKey(t)
  <2>2. /\ pc[t] = "current_key" /\ \E r \in Outcome : Return(t, r)
        /\ prov'[t[1]] = [prov[t[1]] EXCEPT !.current_key = loc[t].new.key]
    BY <1>0, <1>18 DEF StoreKey, TypeOK, Outcome
  <2>3. /\ prov'[t[1]].previous_key = prov[t[1]].previous_key
        /\ prov'[t[1]].previous_key_version = prov[t[1]].previous_key_version
    BY <1>1, <2>2 DEF Provider
  <2> QED BY <1>7, <2>2, <2>3
<1> QED
  BY <1>6, <1>8, <1>10, <1>12, <1>13, <1>14, <1>15, <1>16, <1>17, <1>18
  DEF StepOf, Answered, FetchRefused

\* Every step keeps the invariant.
LEMMA NextOInv ==
  ASSUME RefreshOnly, Refusals = {}, OneRoller, OInv, [Next]_vars
  PROVE  OInv'
<1>1. Inv /\ Inv' /\ TypeOK
  BY NextInv DEF OInv, Inv
<1>2. ASSUME NEW t \in Threads, StepOf(t)
      PROVE  OInv'
  BY <1>1, <1>2, VaultStep, OwnRollerInv, OtherRollerInv DEF OInv
<1>3. ASSUME NEW s \in Servers, Crash(s)
      PROVE  OInv'
  <2>1. vault' = vault
    BY <1>1, <1>3, CrashEffect
  <2>2. ASSUME NEW u \in Threads
        PROVE  RollerInv(u)'
    <3>1. CASE u[1] = s
      <4>1. /\ pc'[u] = "idle" /\ loc'[u] = NoLocals /\ life'[u[1]] = "down"
            /\ prov'[u[1]] = Constructed
        BY <1>1, <1>3, <3>1, CrashEffect
      <4>2. loc'[u].status = "OK" /\ prov'[u[1]].previous_key = NoKey
        BY <4>1 DEF NoLocals, Entry, Constructed
      <4> QED BY <4>1, <4>2, Zenon DEF RollerInv
    <3>2. CASE u[1] # s
      <4>1. /\ pc'[u] = pc[u] /\ loc'[u] = loc[u] /\ life'[u[1]] = life[u[1]]
            /\ prov'[u[1]] = prov[u[1]]
        BY <1>1, <1>3, <3>2, CrashEffect
      <4> QED BY <2>1, <4>1 DEF OInv, RollerInv, InVault, Previous
    <3> QED BY <3>1, <3>2
  <2> QED BY <1>1, <2>1, <2>2 DEF OInv, VaultInv
<1>4. CASE UNCHANGED vars
  BY <1>1, <1>4 DEF OInv, vars, VaultInv, RollerInv, InVault, Previous
<1> QED BY <1>2, <1>3, <1>4 DEF Next, StepOf

\* A deployment that starts with the key in the vault.
LEMMA InitOInv ==
  ASSUME RefreshOnly, KeyExists
  PROVE  OInv
<1>1. Inv
  BY InitInv DEF KeyExists
<1>2. VaultInv
  <2>1. vault = <<0>> \/ vault = <<1>>
    BY Zenon DEF KeyExists, Init
  <2>2. Len(vault) = 1
    BY <2>1
  <2> QED BY <2>1, <2>2 DEF VaultInv
<1>3. ASSUME NEW t \in Threads
      PROVE  RollerInv(t)
  <2>1. /\ pc[t] = "idle" /\ life[t[1]] = "down" /\ loc[t] = NoLocals
        /\ prov[t[1]] = Constructed
    BY OneThread DEF KeyExists, Init
  <2>2. loc[t].status = "OK" /\ prov[t[1]].previous_key = NoKey
    BY <2>1 DEF NoLocals, Entry, Constructed
  <2> QED BY <2>1, <2>2, Zenon DEF RollerInv
<1> QED BY <1>1, <1>2, <1>3 DEF OInv

\* Two servers never hold different keys for one version when the key exists
\* in the vault and one server rolls over ("All servers should have the same
\* key from AKV", test_system.py:222).
THEOREM SameVersionSameKeyTheorem ==
  ASSUME RefreshOnly, Refusals = {}, OneRoller
  PROVE  ExistingKeySpec => []SameVersionSameKey
<1>1. KeyExists => OInv
  BY InitOInv
<1>2. OInv /\ [Next]_vars => OInv'
  BY NextOInv
<1>3. OInv => SameVersionSameKey
  <2> SUFFICES ASSUME OInv
               PROVE  SameVersionSameKey
    OBVIOUS
  <2>1. ASSUME NEW s \in Servers, life[s] = "up", Idle(s),
               NEW p \in {Current(s), Previous(s)}, p.key # NoKey
        PROVE  InVault(p)
    <3>1. Refresher(s) \in Threads /\ Refresher(s)[1] = s
      BY OneThread
    <3>2. pc[Refresher(s)] = "idle"
      BY <2>1, <3>1 DEF Idle
    <3>3. InVault(Current(s))
      BY <2>1, <3>1, <3>2, Zenon DEF OInv, Inv, ThreadInv
    <3>4. Previous(s).key # NoKey => InVault(Previous(s))
      BY <2>1, <3>1, <3>2 DEF OInv, RollerInv, Previous
    <3> QED BY <2>1, <3>3, <3>4
  <2>2. ASSUME NEW p, NEW q, InVault(p), InVault(q), p.version = q.version
        PROVE  p.key = q.key
    <3>1. vault \in Seq(Nat) /\ Len(vault) \in Nat
      BY DEF OInv, Inv, TypeOK
    <3> QED BY <2>2, <3>1 DEF OInv, VaultInv, InVault
  <2> QED BY <2>1, <2>2 DEF SameVersionSameKey
<1> QED BY <1>1, <1>2, <1>3, PTL DEF ExistingKeySpec

\* A refresh that ends well on a server leaves it with the vault's last key,
\* unless the vault got another one after the fetch: a fetched or stored key is
\* passed over only where the server holds that very key
\* (key_vault_provider.cc:57-77).
RefreshCatchesUp ==
  [][\A t \in Threads :
       /\ pc[t] # "idle" /\ pc'[t] = "idle"
       /\ life'[t[1]] = "up" /\ outcome'[t[1]] # "error"
       /\ loc[t].new = Latest
       => Current(t[1])' = Latest']_vars

\* With the key in the vault and one server that rolls over, each refresh
\* catches up: the step from which EventualAgreement follows by fairness.
THEOREM RefreshCatchesUpTheorem ==
  ASSUME RefreshOnly, Refusals = {}, OneRoller
  PROVE  ExistingKeySpec => RefreshCatchesUp
<1>1. ASSUME OInv, [Next]_vars, NEW t \in Threads, pc[t] # "idle", pc'[t] = "idle",
             life'[t[1]] = "up", outcome'[t[1]] # "error", loc[t].new = Latest
      PROVE  Current(t[1])' = Latest'
  <2>1. /\ Inv /\ TypeOK /\ ThreadInv(t) /\ RollerInv(t) /\ VaultInv
        /\ t[1] \in Servers /\ t = Refresher(t[1])
    BY <1>1, OneThread, Zenon DEF OInv, Inv
  <2>2. vault \in Seq(Nat) /\ Len(vault) \in Nat \ {0} /\ prov[t[1]] \in Provider
    BY <2>1 DEF VaultInv, TypeOK
  <2>3. PICK u \in Threads : StepOf(u)
    <3>1. ASSUME NEW s \in Servers, Crash(s)
          PROVE  FALSE
      BY <1>1, <2>1, <3>1, CrashEffect, Zenon
    <3> QED BY <1>1, <3>1 DEF Next, StepOf, vars
  <2>4. StepOf(t)
    BY <1>1, <2>1, <2>3, OtherThreads, Zenon
  <2>5. loc[t].new.key = Len(vault) /\ loc[t].new.key # NoKey
        /\ loc[t].new.version = vault[Len(vault)]
    BY <1>1, <2>2 DEF Latest, NoKey
  <2>6. CASE StoreKey(t)
    <3>1. /\ vault' = vault
          /\ prov'[t[1]] = [prov[t[1]] EXCEPT !.current_key = loc[t].new.key]
          /\ prov[t[1]].current_key_version = loc[t].new.version
      BY <2>1, <2>6 DEF StoreKey, ThreadInv, TypeOK
    <3>2. /\ prov'[t[1]].current_key = loc[t].new.key
          /\ prov'[t[1]].current_key_version = loc[t].new.version
      BY <2>2, <3>1 DEF Provider
    <3> QED BY <2>5, <3>1, <3>2 DEF Current, Latest
  <2>7. CASE DecideKeep(t)
    <3>1. /\ vault' = vault /\ prov' = prov /\ pc[t] = "decide"
          /\ loc[t].status = "OK" /\ loc[t].sync_only /\ ~AdoptFetched(t)
      BY <2>1, <2>7, Zenon DEF DecideKeep, RollerInv
    <3>2. life[t[1]] = "up"
      BY <2>1, <3>1, <1>1, Zenon DEF ThreadInv, TypeOK
    <3>3. InVault(Current(t[1])) /\ ~(loc[t].new.version > prov[t[1]].current_key_version)
      BY <2>1, <3>1, <3>2, Zenon DEF ThreadInv, AdoptFetched, Newer
    <3>4. /\ prov[t[1]].current_key \in 1..Len(vault)
          /\ vault[prov[t[1]].current_key] = prov[t[1]].current_key_version
      BY <3>3, Zenon DEF InVault, Current
    <3>5. prov[t[1]].current_key = Len(vault)
      <4>1. /\ \A i, j \in 1..Len(vault) : i < j => vault[i] < vault[j]
            /\ \A i \in 1..Len(vault) : vault[i] \in Nat
        BY <2>1, <2>2 DEF VaultInv
      <4> QED BY <2>2, <2>5, <3>3, <3>4, <4>1, SMTT(20)
    <3> QED BY <3>1, <3>4, <3>5 DEF Current, Latest
  <2>8. CASE RequestFails(t) \/ UpdateKeyAnswerLost(t)
    BY <1>1, <2>1, <2>8 DEF RequestFails, UpdateKeyAnswerLost, Return, TypeOK
  <2>9. CASE ~(StoreKey(t) \/ DecideKeep(t) \/ RequestFails(t) \/ UpdateKeyAnswerLost(t))
    BY <1>1, <2>1, <2>4, <2>9, SMTT(20) DEF StepOf, Answered, Begin, Step, FetchKey,
       FetchRefused, DecideAdopt, DecideUpdate, UpdateKey, SavePreviousVersion,
       SavePreviousKey, StoreVersion, TypeOK
  <2> QED BY <2>4, <2>6, <2>7, <2>8, <2>9, Zenon
<1>2. KeyExists => OInv
  BY InitOInv
<1>3. OInv /\ [Next]_vars => OInv'
  BY NextOInv
<1>4. OInv /\ [Next]_vars =>
        [\A t \in Threads :
           /\ pc[t] # "idle" /\ pc'[t] = "idle"
           /\ life'[t[1]] = "up" /\ outcome'[t[1]] # "error"
           /\ loc[t].new = Latest
           => Current(t[1])' = Latest']_vars
  BY <1>1
<1> QED BY <1>2, <1>3, <1>4, PTL DEF ExistingKeySpec, RefreshCatchesUp

=============================================================================
