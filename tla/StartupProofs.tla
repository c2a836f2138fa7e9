--------------------------- MODULE StartupProofs ---------------------------
(***************************************************************************)
(* Proofs about the start of a server, for every environment, command line *)
(* and number of HTTP threads.                                             *)
(***************************************************************************)
EXTENDS Startup, RefreshThreadProofs

\* In EnclaveInitialize, at one of these steps.
Initializing(steps) == main = "initialize" /\ step \in steps

\* Where main is, and what it knows of the options there.
ConfigInv ==
  /\ main = "configure" => /\ step \in {"environment", "command_line", "validate", "create"}
                           /\ enclave = NoEnclave
  /\ main = "initialize" => step \in {"read", "model_key", "service_key", "model", "start"}
  /\ step = "create" => ValidateOptions
  /\ main \notin {"configure", "exited"} => ValidateOptions

\* Which keys the enclave has, and from when on.
KeysInv ==
  /\ Initializing({"read", "model_key"}) => enclave.model_key = "none"
  /\ Initializing({"read", "model_key", "service_key"}) => enclave.service_key = "none"
  /\ Up \/ Initializing({"model", "start"}) => enclave.service_key # "none"
  /\ enclave.model_key # "none" =>
       use_akv /\ Opt("akv-model-key-name") /\ enclave.model_key = VaultProvider
  /\ enclave.service_key # "none" =>
       enclave.service_key = IF use_akv THEN VaultProvider ELSE "local"
  /\ tpc \notin {"none", "stopped"} => enclave.service_key # "none"

\* The model is the last thing that EnclaveInitialize sets up.
HasModel ==
  IF Opt("use-model-key-provisioning")
  THEN enclave.held /\ enclave.session = "none" /\ enclave.model_key = "none"
  ELSE /\ ~enclave.held /\ enclave.session = machine.file
       /\ enclave.session = "vault" <=> enclave.model_key # "none"

ModelInv ==
  /\ Initializing({"read", "model_key", "service_key", "model"}) =>
       ~enclave.held /\ enclave.session = "none"
  /\ Up \/ Initializing({"start"}) => HasModel

StartInv == StartTypeOK /\ Inv /\ ConfigInv /\ KeysInv /\ ModelInv

-----------------------------------------------------------------------------
\* Every step of a starting server is one of RefreshThread's, or none.
LEMMA StepIsRefreshStep == StartNext => [Next]_vars
<1> SUFFICES ASSUME StartNext PROVE [Next]_vars
  OBVIOUS
<1> USE DEF Next, MainStarts, MainDestroys, Goes, Exits, Throws
<1>1. CASE Configures
  BY <1>1 DEF Configures, ParseEnvironment, ParseCommandLine, Validate, CreateEnclave
<1>2. CASE Initializes
  BY <1>2 DEF Initializes, ReadFile, CreateModelKeyProvider, CreateServiceKeyProvider,
     LoadModel, SetEncryptedModel, InitializeModel, StartThread, Sets, Fails, Aborts
<1>3. CASE Runs
  BY <1>3 DEF Runs
<1>4. CASE DestroyEnclave
  BY <1>4 DEF DestroyEnclave
<1> QED
  BY <1>1, <1>2, <1>3, <1>4 DEF StartNext

\* The options keep their values once main has left ParseInput.
LEMMA OptionsStay ==
  ASSUME UNCHANGED <<vm, machine>>
  PROVE  /\ \A o : Opt(o)' = Opt(o)
         /\ ValidateOptions' = ValidateOptions
         /\ VaultProvider' = VaultProvider
         /\ use_akv' = use_akv
BY DEF Opt, ValidateOptions, VaultProvider, use_akv

\* The values that DestroyEnclave and CreateEnclave give to the enclave.
LEMMA Blank == NoEnclave \in Enclave /\ [NoEnclave EXCEPT !.state = "created"] \in Enclave
<1>1. NoEnclave \in Enclave
  BY DEF NoEnclave, Enclave
<1>2. [NoEnclave EXCEPT !.state = "created"] \in Enclave
  BY <1>1 DEF Enclave
<1> QED BY <1>1, <1>2

\* While main is in ParseInput there is no enclave and no thread.
LEMMA ConfigureStep == StartInv /\ Configures => StartTypeOK' /\ ConfigInv' /\ KeysInv' /\ ModelInv'
<1> SUFFICES ASSUME StartInv, Configures
             PROVE  StartTypeOK' /\ ConfigInv' /\ KeysInv' /\ ModelInv'
  OBVIOUS
<1> USE DEF StartInv, At
<1>1. TypeOK' /\ Inv'
  <2>1. [Next]_vars
    BY StepIsRefreshStep DEF StartNext
  <2> QED BY <2>1, NextInv DEF Inv
<1>2. main = "configure" /\ tpc = "none" /\ enclave = NoEnclave
  BY DEF Configures, ParseEnvironment, ParseCommandLine, Validate, CreateEnclave, ConfigInv,
     Inv, MutexInv
<1>3. tpc' = tpc /\ UNCHANGED <<machine, result>> /\ main' \in {"configure", "initialize", "exited"}
  BY <1>2 DEF Configures, ParseEnvironment, ParseCommandLine, Validate, CreateEnclave, Exits,
     Goes, vars, Configure, M
<1>4. CASE ParseEnvironment \/ ParseCommandLine
  <2>1. vm' \in Given
    <3>1. \A f, g \in Given : Stored(f, g) \in Given
      <4> SUFFICES ASSUME NEW f \in Given, NEW g \in Given PROVE Stored(f, g) \in Given
        OBVIOUS
      <4>1. PICK S \in SUBSET Option : f \in [S -> BOOLEAN]
        BY DEF Given
      <4>2. PICK T1 \in SUBSET Option : g \in [T1 -> BOOLEAN]
        BY DEF Given
      <4>3. Stored(f, g) \in [S \cup T1 -> BOOLEAN]
        BY <4>1, <4>2 DEF Stored
      <4> QED BY <4>3 DEF Given
    <3> QED BY <1>4, <3>1, OptionsAssumption DEF ParseEnvironment, ParseCommandLine, StartTypeOK
  <2>2. /\ UNCHANGED enclave
        /\ main' \in {"configure", "exited"}
        /\ step' \in {"environment", "command_line", "validate"}
    BY <1>4, <1>2 DEF ParseEnvironment, ParseCommandLine, Exits, Goes, Configure, M, vars
  <2> QED BY <1>1, <1>2, <1>3, <2>1, <2>2
    DEF StartTypeOK, ConfigInv, KeysInv, ModelInv, Up, Initializing, NoEnclave
<1>5. CASE Validate
  <2>1. /\ UNCHANGED <<enclave, vm>>
        /\ main' \in {"configure", "exited"}
        /\ step' \in {"validate", "create"}
        /\ step' = "create" => ValidateOptions
    BY <1>5, <1>2 DEF Validate, Exits, Goes, Configure, M, vars
  <2>2. ValidateOptions' = ValidateOptions
    BY <2>1, <1>3, OptionsStay
  <2> QED BY <1>1, <1>2, <1>3, <2>1, <2>2
    DEF StartTypeOK, ConfigInv, KeysInv, ModelInv, Up, Initializing, NoEnclave
<1>6. CASE CreateEnclave
  <2>1. UNCHANGED vm /\ ValidateOptions /\ step = "create"
    BY <1>6, <1>2 DEF CreateEnclave, ConfigInv
  <2>2. ValidateOptions' = ValidateOptions
    BY <2>1, <1>3, OptionsStay
  <2>3. \/ main' = "exited" /\ step' = "create" /\ enclave' = NoEnclave
        \/ /\ main' = "initialize" /\ step' = "read"
           /\ enclave' = [NoEnclave EXCEPT !.state = "created"]
    BY <1>6, <1>2, <2>1 DEF CreateEnclave, Exits
  <2>4. enclave' \in Enclave
    BY <2>3, Blank
  <2>5. StartTypeOK' /\ ConfigInv'
    BY <1>1, <1>3, <2>1, <2>2, <2>3, <2>4 DEF StartTypeOK, ConfigInv
  <2>6. KeysInv' /\ ModelInv'
    BY <1>2, <1>3, <2>3 DEF KeysInv, ModelInv, Up, Initializing, NoEnclave
  <2> QED BY <2>5, <2>6
<1> QED BY <1>4, <1>5, <1>6 DEF Configures

\* The steps of Initialize.
LEMMA InitializeStep == StartInv /\ Initializes => StartTypeOK' /\ ConfigInv' /\ KeysInv' /\ ModelInv'
<1> SUFFICES ASSUME StartInv, Initializes
             PROVE  StartTypeOK' /\ ConfigInv' /\ KeysInv' /\ ModelInv'
  OBVIOUS
<1> USE DEF StartInv, At
<1>1. TypeOK' /\ Inv'
  <2>1. [Next]_vars
    BY StepIsRefreshStep DEF StartNext
  <2> QED BY <2>1, NextInv DEF Inv
<1>2. main = "initialize" /\ tpc = "none" /\ UNCHANGED <<vm, machine>>
  BY DEF Initializes, ReadFile, CreateModelKeyProvider, CreateServiceKeyProvider, LoadModel,
     StartThread, Inv, MutexInv
<1>3. /\ \A o : Opt(o)' = Opt(o)
      /\ ValidateOptions' = ValidateOptions
      /\ VaultProvider' = VaultProvider
      /\ use_akv' = use_akv
  BY <1>2, OptionsStay
<1>4. ValidateOptions
  BY <1>2 DEF ConfigInv
<1>5. ASSUME main' = "cancel", tpc' = tpc, step' = step,
             result' \in Status \cup {"HOST_ERROR", "MODEL_LOADING_ERROR"},
             UNCHANGED enclave \/ enclave' = [enclave EXCEPT !.state = "aborted"]
      PROVE  StartTypeOK' /\ ConfigInv' /\ KeysInv' /\ ModelInv'
  <2>1. /\ enclave' \in Enclave
        /\ enclave'.model_key = enclave.model_key
        /\ enclave'.service_key = enclave.service_key
    BY <1>5 DEF StartTypeOK, Enclave
  <2> QED BY <1>1, <1>2, <1>3, <1>4, <1>5, <2>1
    DEF StartTypeOK, ConfigInv, KeysInv, ModelInv, Up, Initializing
<1>6. CASE ReadFile
  <2>1. CASE Goes("model_key") /\ UNCHANGED result
    BY <1>6, <2>1, <1>1, <1>2, <1>3, <1>4 DEF ReadFile, Goes, vars, StartTypeOK, ConfigInv,
       KeysInv, ModelInv, Up, Initializing
  <2> QED BY <1>6, <2>1, <1>5 DEF ReadFile, Throws, Initialize, M, Status
<1>7. CASE CreateModelKeyProvider
  <2>1. ASSUME NEW kind \in {"none", "vault", "hsm"}, Sets("model_key", kind, "service_key"),
               kind # "none" => use_akv /\ Opt("akv-model-key-name") /\ kind = VaultProvider
        PROVE  StartTypeOK' /\ ConfigInv' /\ KeysInv' /\ ModelInv'
    <3>1. /\ enclave' \in Enclave
          /\ enclave'.model_key = kind
          /\ enclave'.service_key = enclave.service_key
          /\ enclave'.held = enclave.held /\ enclave'.session = enclave.session
      BY <2>1 DEF Sets, StartTypeOK, Enclave
    <3>2. step = "model_key" /\ step' = "service_key" /\ UNCHANGED vars /\ UNCHANGED result
      BY <1>7, <2>1 DEF CreateModelKeyProvider, Sets, Goes
    <3> QED BY <1>1, <1>2, <1>3, <1>4, <2>1, <3>1, <3>2 DEF vars, StartTypeOK, ConfigInv,
       KeysInv, ModelInv, Up, Initializing
  <2>2. VaultProvider \in {"vault", "hsm", "missing"}
    BY DEF VaultProvider
  <2>3. CASE use_akv /\ Opt("akv-model-key-name") /\ VaultProvider # "missing"
    BY <1>7, <2>1, <2>2, <2>3, <1>5 DEF CreateModelKeyProvider, Fails, Throws, Initialize, M, Status
  <2>4. CASE use_akv /\ Opt("akv-model-key-name") /\ VaultProvider = "missing"
    BY <1>7, <2>4, <1>5 DEF CreateModelKeyProvider, Aborts, Throws, Initialize, M, Status
  <2>5. CASE ~(use_akv /\ Opt("akv-model-key-name"))
    BY <1>7, <2>1, <2>5 DEF CreateModelKeyProvider
  <2> QED BY <2>3, <2>4, <2>5
<1>8. CASE CreateServiceKeyProvider
  <2>1. ASSUME NEW kind \in {"local", "vault", "hsm"}, Sets("service_key", kind, "model"),
               kind = IF use_akv THEN VaultProvider ELSE "local"
        PROVE  StartTypeOK' /\ ConfigInv' /\ KeysInv' /\ ModelInv'
    <3>1. /\ enclave' \in Enclave
          /\ enclave'.service_key = kind
          /\ enclave'.model_key = enclave.model_key
          /\ enclave'.held = enclave.held /\ enclave'.session = enclave.session
      BY <2>1 DEF Sets, StartTypeOK, Enclave
    <3>2. step = "service_key" /\ step' = "model" /\ UNCHANGED vars /\ UNCHANGED result
      BY <1>8, <2>1 DEF CreateServiceKeyProvider, Sets, Goes
    <3> QED BY <1>1, <1>2, <1>3, <1>4, <2>1, <3>1, <3>2 DEF vars, StartTypeOK, ConfigInv,
       KeysInv, ModelInv, Up, Initializing
  <2>2. VaultProvider \in {"vault", "hsm", "missing"}
    BY DEF VaultProvider
  <2>3. CASE use_akv /\ VaultProvider # "missing"
    BY <1>8, <2>1, <2>2, <2>3, <1>5 DEF CreateServiceKeyProvider, Fails, Throws, Initialize, M, Status
  <2>4. CASE use_akv /\ VaultProvider = "missing"
    BY <1>8, <2>4, <1>5 DEF CreateServiceKeyProvider, Aborts, Throws, Initialize, M, Status
  <2>5. CASE ~use_akv
    BY <1>8, <2>1, <2>5, <1>5 DEF CreateServiceKeyProvider, Fails, Throws, Initialize, M, Status
  <2> QED BY <2>3, <2>4, <2>5
<1>9. CASE LoadModel
  <2>1. /\ step = "model"
        /\ ~enclave.held /\ enclave.session = "none" /\ enclave.service_key # "none"
        /\ enclave.model_key # "none" => Opt("akv-model-key-name")
    BY <1>9, <1>2 DEF LoadModel, KeysInv, ModelInv, Initializing
  <2>2. ASSUME NEW value, Sets("held", value, "start") \/ Sets("session", value, "start"),
               enclave' \in Enclave, HasModel'
        PROVE  StartTypeOK' /\ ConfigInv' /\ KeysInv' /\ ModelInv'
    <3>1. enclave'.service_key = enclave.service_key /\ enclave'.model_key = enclave.model_key
      BY <2>2 DEF Sets, StartTypeOK, Enclave
    <3>2. step' = "start" /\ UNCHANGED vars /\ UNCHANGED result
      BY <2>2 DEF Sets, Goes
    <3> QED BY <1>1, <1>2, <1>3, <1>4, <2>1, <2>2, <3>1, <3>2 DEF vars, StartTypeOK, ConfigInv,
       KeysInv, ModelInv, Up, Initializing
  <2>3. CASE SetEncryptedModel
    <3>1. Sets("held", TRUE, "start") /\ Opt("use-model-key-provisioning")
      BY <2>3 DEF SetEncryptedModel
    <3>2. enclave.model_key = "none"
      BY <3>1, <2>1, <1>4 DEF ValidateOptions
    <3>3. /\ enclave' \in Enclave /\ enclave'.held = TRUE
          /\ enclave'.session = "none" /\ enclave'.model_key = "none"
      BY <3>1, <3>2, <2>1 DEF Sets, StartTypeOK, Enclave
    <3>4. HasModel'
      BY <3>1, <3>3, <1>3 DEF HasModel
    <3> QED BY <3>1, <3>3, <3>4, <2>2
  <2>4. CASE InitializeModel
    <3>1. ASSUME NEW file \in Plain, Loadable(file), Sets("session", file, "start")
          PROVE  StartTypeOK' /\ ConfigInv' /\ KeysInv' /\ ModelInv'
      <4>1. /\ file = machine.file /\ file \in {"plain", "vault"}
            /\ file = "vault" <=> enclave.model_key # "none"
        BY <3>1 DEF Plain, Loadable
      <4>2. /\ enclave' \in Enclave /\ enclave'.held = FALSE
            /\ enclave'.session = file /\ enclave'.model_key = enclave.model_key
        BY <3>1, <4>1, <2>1 DEF Sets, StartTypeOK, Enclave
      <4>3. HasModel'
        BY <2>4, <4>1, <4>2, <1>2, <1>3 DEF HasModel, InitializeModel
      <4> QED BY <3>1, <4>2, <4>3, <2>2
    <3> QED BY <2>4, <3>1, <1>5 DEF InitializeModel, Fails, Throws, Initialize, M, Status
  <2> QED BY <1>9, <2>3, <2>4 DEF LoadModel
<1>10. CASE StartThread
  <2>1. /\ step = "start" /\ UNCHANGED <<step, enclave>> /\ result' = "SUCCESS"
        /\ main' = "address"
    BY <1>10 DEF StartThread
  <2>2. HasModel' = HasModel
    BY <2>1, <1>2, <1>3 DEF HasModel
  <2> QED BY <2>1, <2>2, <1>1, <1>2, <1>3, <1>4 DEF StartTypeOK, ConfigInv, KeysInv, ModelInv,
     Up, Initializing, Status
<1> QED BY <1>6, <1>7, <1>8, <1>9, <1>10 DEF Initializes

\* The thread runs, and main serves and shuts down: the enclave stays.
LEMMA RunStep == StartInv /\ Runs => StartTypeOK' /\ ConfigInv' /\ KeysInv' /\ ModelInv'
<1> SUFFICES ASSUME StartInv, Runs
             PROVE  StartTypeOK' /\ ConfigInv' /\ KeysInv' /\ ModelInv'
  OBVIOUS
<1> USE DEF StartInv
<1>1. TypeOK' /\ Inv'
  <2>1. [Next]_vars
    BY StepIsRefreshStep DEF StartNext
  <2> QED BY <2>1, NextInv DEF Inv
<1>2. UNCHANGED startVars
  BY DEF Runs
<1>3. /\ \A o : Opt(o)' = Opt(o)
      /\ ValidateOptions' = ValidateOptions
      /\ VaultProvider' = VaultProvider
      /\ use_akv' = use_akv
  BY <1>2, OptionsStay DEF startVars
<1>4. /\ main' \in {"configure", "initialize"} => main' = main
      /\ Up' => Up
      /\ main \in {"configure", "exited"} => main' = main
      /\ tpc' \notin {"none", "stopped"} => tpc \notin {"none", "stopped"}
  BY DEF Runs, ThreadRuns, CheckCancelled, Lock, Predicate, Block, Expire, TestCancelled,
     RefreshReturns, SpuriousWakeup, Timeout, MakeAddress, Listen, ServingThrows, CancelLock,
     CancelSet, CancelNotify, Join, T, M, ProcessEnded, Up
<1>5. HasModel' = HasModel
  BY <1>2, <1>3 DEF HasModel, startVars
<1>6. StartTypeOK' /\ ConfigInv'
  BY <1>1, <1>2, <1>3, <1>4 DEF StartTypeOK, ConfigInv, startVars
<1>7. KeysInv'
  BY <1>2, <1>3, <1>4 DEF KeysInv, Initializing, startVars
<1>8. ModelInv'
  BY <1>2, <1>4, <1>5 DEF ModelInv, Initializing, startVars
<1> QED BY <1>6, <1>7, <1>8

\* When the enclave is destroyed the thread is gone.
LEMMA DestroyStep == StartInv /\ DestroyEnclave => StartTypeOK' /\ ConfigInv' /\ KeysInv' /\ ModelInv'
<1> SUFFICES ASSUME StartInv, DestroyEnclave
             PROVE  StartTypeOK' /\ ConfigInv' /\ KeysInv' /\ ModelInv'
  OBVIOUS
<1> USE DEF StartInv
<1>1. TypeOK' /\ Inv'
  <2>1. [Next]_vars
    BY StepIsRefreshStep DEF StartNext
  <2> QED BY <2>1, NextInv DEF Inv
<1>2. /\ main \in {"destroy", "terminate_enclave"}
      /\ main' \in {"terminate_enclave", "done", "aborted"}
      /\ UNCHANGED <<tpc, machine, vm, step, result>>
  BY DEF DestroyEnclave, Destroy, M
<1>3. /\ ValidateOptions' = ValidateOptions
      /\ VaultProvider' = VaultProvider
      /\ use_akv' = use_akv
      /\ Opt("akv-model-key-name")' = Opt("akv-model-key-name")
  BY <1>2, OptionsStay
<1>4. tpc \in {"none", "stopped"}
  BY <1>2 DEF Inv, NoRefreshDuringDestroy
<1>5. \/ enclave' = NoEnclave \/ enclave' = [NoEnclave EXCEPT !.state = "created"]
      \/ enclave' = enclave
  BY DEF DestroyEnclave
<1>6. enclave' \in Enclave
  BY <1>5, Blank DEF StartTypeOK
<1>7. /\ enclave'.model_key \in {"none", enclave.model_key}
      /\ enclave'.service_key \in {"none", enclave.service_key}
  BY <1>5 DEF NoEnclave
<1>8. StartTypeOK' /\ ConfigInv'
  BY <1>1, <1>2, <1>3, <1>6 DEF StartTypeOK, ConfigInv
<1>9. KeysInv' /\ ModelInv'
  BY <1>2, <1>3, <1>4, <1>7 DEF KeysInv, ModelInv, Up, Initializing
<1> QED BY <1>8, <1>9

\* The invariant, from which the theorems below follow.
LEMMA StartInvariance == StartSpec => []StartInv
<1>1. StartInit => StartInv
  <2> SUFFICES ASSUME StartInit PROVE StartInv
    OBVIOUS
  <2>1. Inv
    BY DEF StartInit, Init, Inv, TypeOK, MutexInv, NoLostWakeup, NoRefreshDuringDestroy, Status
  <2>2. vm \in Given
    BY DEF StartInit, Given
  <2> QED BY <2>1, <2>2, Blank DEF StartInit, Init, StartInv, Inv, StartTypeOK, ConfigInv,
     KeysInv, ModelInv, Up, Initializing, NoEnclave
<1>2. StartInv /\ [StartNext]_<<vars, startVars>> => StartInv'
  <2> SUFFICES ASSUME StartInv, [StartNext]_<<vars, startVars>> PROVE StartInv'
    OBVIOUS
  <2>1. CASE StartNext
    <3>1. Inv'
      BY <2>1, StepIsRefreshStep, NextInv DEF StartInv
    <3> QED BY <2>1, <3>1, ConfigureStep, InitializeStep, RunStep, DestroyStep
      DEF StartNext, StartInv
  <2>2. CASE UNCHANGED <<vars, startVars>>
    <3>1. /\ ValidateOptions' = ValidateOptions /\ VaultProvider' = VaultProvider
          /\ use_akv' = use_akv /\ \A o : Opt(o)' = Opt(o)
      BY <2>2, OptionsStay DEF startVars
    <3>2. Inv' /\ StartTypeOK'
      BY <2>2 DEF vars, startVars, StartInv, StartTypeOK, TypeOK, Inv, MutexInv, NoLostWakeup,
         NoRefreshDuringDestroy
    <3>3. ConfigInv' /\ KeysInv'
      BY <2>2, <3>1 DEF vars, startVars, StartInv, ConfigInv, KeysInv, Up, Initializing
    <3>4. ModelInv'
      BY <2>2, <3>1 DEF vars, startVars, StartInv, ModelInv, HasModel, Up, Initializing
    <3> QED BY <3>2, <3>3, <3>4 DEF StartInv
  <2> QED BY <2>1, <2>2
<1> QED BY <1>1, <1>2, PTL DEF StartSpec

-----------------------------------------------------------------------------
\* A starting server behaves as RefreshThread says, so what is proved there of
\* the thread and the destructor holds however the start ends.
THEOREM StartImplementsRefreshThread == StartSpec => Init /\ [][Next]_vars
<1>1. StartInit => Init
  BY DEF StartInit
<1>2. [StartNext]_<<vars, startVars>> => [Next]_vars
  BY StepIsRefreshStep DEF vars, startVars
<1> QED BY <1>1, <1>2, PTL DEF StartSpec

\* EnclaveMaybeRefreshKey is never called without a Server in the enclave
\* (enclave.cc:276-282).
THEOREM RefreshHasAServer == StartSpec => []RefreshHasServer
<1>1. StartInv => RefreshHasServer
  BY DEF StartInv, KeysInv, RefreshHasServer
<1> QED BY <1>1, StartInvariance, PTL

\* A server that listens has loaded its model, or holds it until its key is
\* provisioned (enclave.cc:176-186).
THEOREM AServerServesItsModel == StartSpec => []ServesItsModel
<1>1. StartInv => ServesItsModel
  BY DEF StartInv, ModelInv, HasModel, ServesItsModel
<1> QED BY <1>1, StartInvariance, PTL

\* --use-akv is never answered by local keys (server_configuration.h:174,
\* host/enclave.cc:89).
THEOREM VaultWhenAsked == StartSpec => []VaultIfAsked
<1>1. StartInv => VaultIfAsked
  BY DEF StartInv, ConfigInv, KeysInv, VaultIfAsked, ValidateOptions, use_akv, VaultProvider,
     Up, StartTypeOK, Enclave
<1> QED BY <1>1, StartInvariance, PTL

\* The model key and the service key come from vaults of the same kind
\* (main.cc:53-54, host/enclave.cc:89-93).
THEOREM VaultsOfOneKind == StartSpec => []OneKindOfVault
<1>1. StartInv => OneKindOfVault
  BY DEF StartInv, KeysInv, OneKindOfVault
<1> QED BY <1>1, StartInvariance, PTL

=============================================================================
