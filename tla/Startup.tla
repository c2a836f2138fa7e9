------------------------------ MODULE Startup ------------------------------
(***************************************************************************)
(* How a server starts: the options (server/host/server_configuration.h),  *)
(* the Enclave object (main.cc, host/enclave.cc) and EnclaveInitialize     *)
(* (enclave/enclave.cc), which picks the key providers and loads the       *)
(* model.  It refines the actions Configure, Initialize and Destroy of     *)
(* RefreshThread; the refresh thread runs in what has been set up here.    *)
(*                                                                         *)
(* An option's value is what the code asks of it: TRUE for a flag that is  *)
(* set, a text that is not empty, a file that opens, a log level that is   *)
(* known, a positive number of threads.                                    *)
(***************************************************************************)
EXTENDS RefreshThread

CONSTANTS
  Environments,   \* what CONFONNX_* variables may give: functions from options
  CommandLines    \* what argv may give: functions from options

Option ==
  { "help", "log-level", "num-http-threads", "enclave-path", "model-path",
    "use-model-key-provisioning", "use-akv", "akv-app-id", "akv-app-pwd", "akv-vault-url",
    "akv-service-key-name", "akv-model-key-name", "akv-attestation-url" }

Given == UNION {[S -> BOOLEAN] : S \in SUBSET Option}

ASSUME OptionsAssumption == Environments \subseteq Given /\ CommandLines \subseteq Given

VARIABLES
  machine,   \* what the process finds: the default values of the options, the
             \* kind of model file, and whether the enclave has libskr
  vm,        \* ServerConfiguration::vm, the values that were given
  step,      \* where main is, in the points "configure" and "initialize"
  enclave,   \* the enclave and its globals
  result     \* how Enclave::Initialize ended

startVars == <<machine, vm, step, enclave, result>>

\* hardware_concurrency() may be 0, and the default enclave may not exist.
Defaults ==
  {d \in [Option -> BOOLEAN] :
     \A o \in Option \ {"num-http-threads", "enclave-path"} :
       d[o] <=> o \in {"log-level", "akv-service-key-name"}}

\* A model in the clear, one encrypted with the model key of the vault, one
\* encrypted with a key that a client will provision, and a file that is too
\* short for any of these.
ModelFile == {"plain", "vault", "client", "short"}

Machine == [defaults: Defaults, file: ModelFile, libskr: BOOLEAN]

\* The key providers are the model's and the service's, `held' is
\* encrypted_model_, `session' the model the session was made from.
Enclave ==
  [ state: {"none", "created", "aborted"},
    model_key: {"none", "vault", "hsm"}, service_key: {"none", "local", "vault", "hsm"},
    held: BOOLEAN, session: {"none", "plain", "vault"} ]

NoEnclave ==
  [ state |-> "none", model_key |-> "none", service_key |-> "none",
    held |-> FALSE, session |-> "none" ]

StartTypeOK ==
  /\ TypeOK
  /\ machine \in Machine
  /\ vm \in Given
  /\ step \in {"environment", "command_line", "validate", "create", "read", "model_key",
               "service_key", "model", "start"}
  /\ enclave \in Enclave
  /\ result \in Status \cup {"none", "HOST_ERROR", "MODEL_LOADING_ERROR"}

StartInit ==
  /\ Init
  /\ machine \in Machine
  /\ vm = [o \in {} |-> FALSE]
  /\ step = "environment"
  /\ enclave = NoEnclave
  /\ result = "none"

\* The value of an option after notify().
Opt(o) == IF o \in DOMAIN vm THEN vm[o] ELSE machine.defaults[o]

At(point, s) == ~ProcessEnded /\ main = point /\ step = s

Goes(s) == step' = s /\ UNCHANGED vars

-----------------------------------------------------------------------------
(* ServerConfiguration::ParseInput, in main *)

Exits == Configure /\ main' = "exited" /\ UNCHANGED step

\* store() keeps what an earlier store() has stored.
Stored(first, second) ==
  [o \in DOMAIN first \cup DOMAIN second |->
     IF o \in DOMAIN first THEN first[o] ELSE second[o]]

\* Each store() throws if a value does not parse.
ParseEnvironment ==
  /\ At("configure", "environment")
  /\ \/ Goes("command_line") /\ \E env \in Environments : vm' = env
     \/ Exits /\ UNCHANGED vm
  /\ UNCHANGED <<machine, enclave, result>>

ParseCommandLine ==
  /\ At("configure", "command_line")
  /\ \/ \E line \in CommandLines :
          /\ vm' = Stored(vm, line)
          /\ IF "help" \in DOMAIN vm' THEN Exits ELSE Goes("validate")
     \/ Exits /\ UNCHANGED vm
  /\ UNCHANGED <<machine, enclave, result>>

\* Mutant of ValidateOptions: --use-akv requires the credentials only.
ValidateOptionsWithoutUrl ==
  /\ \A o \in {"log-level", "num-http-threads", "enclave-path", "model-path"} : Opt(o)
  /\ Opt("use-akv") => Opt("akv-app-id") /\ Opt("akv-app-pwd")
  /\ ~(Opt("use-model-key-provisioning") /\ Opt("akv-model-key-name"))

\* Mutant of ValidateOptions: provisioning may be combined with a vault's key.
ValidateOptionsOfVaultOnly ==
  /\ \A o \in {"log-level", "num-http-threads", "enclave-path", "model-path"} : Opt(o)
  /\ Opt("use-akv") => Opt("akv-app-id") /\ Opt("akv-app-pwd") /\ Opt("akv-vault-url")

\* notify() has thrown unless there is a model path.
ValidateOptions ==
  /\ \A o \in {"log-level", "num-http-threads", "enclave-path", "model-path"} : Opt(o)
  /\ Opt("use-akv") => Opt("akv-app-id") /\ Opt("akv-app-pwd") /\ Opt("akv-vault-url")
  /\ ~(Opt("use-model-key-provisioning") /\ Opt("akv-model-key-name"))

Validate ==
  /\ At("configure", "validate")
  /\ IF ValidateOptions THEN Goes("create") ELSE Exits
  /\ UNCHANGED <<machine, vm, enclave, result>>

-----------------------------------------------------------------------------
(* Enclave::Enclave and Enclave::Initialize *)

CreateEnclave ==
  /\ At("configure", "create")
  /\ \/ /\ Configure /\ main' = "initialize" /\ step' = "read"
        /\ enclave' = [enclave EXCEPT !.state = "created"]
     \/ Exits /\ UNCHANGED enclave
  /\ UNCHANGED <<machine, vm, result>>

\* Initialize throws; main's handler runs when the Enclave object is gone.
Throws(status_) ==
  /\ Initialize /\ main' = "cancel"
  /\ result' = status_
  /\ UNCHANGED step

\* The file may be gone by now, and the call into the enclave may fail.
ReadFile ==
  /\ At("initialize", "read")
  /\ \/ Goes("model_key") /\ UNCHANGED result
     \/ Throws("HOST_ERROR")
     \/ Throws("SDK_ERROR")
  /\ UNCHANGED <<machine, vm, enclave>>

-----------------------------------------------------------------------------
(* _EnclaveInitialize.  Its use_akv is not --use-akv: the host passes whether *)
(* there is a vault URL.  The enclave is fresh and initialised once, so env   *)
(* is null.                                                                   *)

use_akv == Opt("akv-vault-url")

\* The provider for a vault: KeyVaultHsmProvider exists only with libskr.
VaultProvider ==
  IF ~Opt("akv-attestation-url") THEN "vault" ELSE
  IF machine.libskr THEN "hsm" ELSE "missing"

\* abort() in the enclave: this call and all later ones fail.
Aborts ==
  /\ enclave' = [enclave EXCEPT !.state = "aborted"]
  /\ Throws("SDK_ERROR")

Fails(status_) == UNCHANGED enclave /\ Throws(status_)

Sets(provider, kind, s) ==
  /\ enclave' = [enclave EXCEPT ![provider] = kind]
  /\ Goes(s) /\ UNCHANGED result

\* Mutant of CreateModelKeyProvider: main's model_kvc has no attestation URL.
CreateModelKeyProviderUnattested ==
  /\ At("initialize", "model_key")
  /\ IF use_akv /\ Opt("akv-model-key-name")
     THEN Sets("model_key", "vault", "service_key") \/ Fails("UNKNOWN_ERROR")
     ELSE Sets("model_key", "none", "service_key")
  /\ UNCHANGED <<machine, vm>>

CreateModelKeyProvider ==
  /\ At("initialize", "model_key")
  /\ IF use_akv /\ Opt("akv-model-key-name")
     THEN \/ VaultProvider = "missing" /\ Aborts
          \/ VaultProvider # "missing" /\ Sets("model_key", VaultProvider, "service_key")
          \/ VaultProvider # "missing" /\ Fails("UNKNOWN_ERROR")
     ELSE Sets("model_key", "none", "service_key")
  /\ UNCHANGED <<machine, vm>>

\* Mutant of CreateServiceKeyProvider: an error is logged and left at that.
CreateServiceKeyProviderOrNone ==
  /\ At("initialize", "service_key")
  /\ IF use_akv
     THEN \/ VaultProvider = "missing" /\ Aborts
          \/ VaultProvider # "missing" /\ Sets("service_key", VaultProvider, "model")
          \/ VaultProvider # "missing" /\ Sets("service_key", "none", "model")
     ELSE Sets("service_key", "local", "model") \/ Fails("UNKNOWN_ERROR")
  /\ UNCHANGED <<machine, vm>>

\* An error of the vault is a KEY_REFRESH_ERROR; what the constructor of
\* confmsg::Server throws is not.
CreateServiceKeyProvider ==
  /\ At("initialize", "service_key")
  /\ IF use_akv
     THEN \/ VaultProvider = "missing" /\ Aborts
          \/ VaultProvider # "missing" /\ Sets("service_key", VaultProvider, "model")
          \/ /\ VaultProvider # "missing"
             /\ Fails("KEY_REFRESH_ERROR") \/ Fails("UNKNOWN_ERROR")
     ELSE Sets("service_key", "local", "model") \/ Fails("UNKNOWN_ERROR")
  /\ UNCHANGED <<machine, vm>>

\* What InitializeModel gives to the runtime: the file as it is, or what
\* Decrypt makes of it with the vault's key, which fails for any other file.
Plain == IF enclave.model_key = "none" THEN {machine.file} ELSE {machine.file} \cap {"vault"}

\* The runtime may refuse any model, and takes no ciphertext.
Loadable(file) == file = "plain" \/ enclave.model_key # "none"

SetEncryptedModel ==
  /\ Opt("use-model-key-provisioning")
  /\ Sets("held", TRUE, "start")

InitializeModel ==
  /\ ~Opt("use-model-key-provisioning")
  /\ \/ \E file \in Plain : Loadable(file) /\ Sets("session", file, "start")
     \/ Plain # {} /\ Fails("MODEL_LOADING_ERROR")
     \/ Fails("UNKNOWN_ERROR")

LoadModel ==
  /\ At("initialize", "model")
  /\ SetEncryptedModel \/ InitializeModel
  /\ UNCHANGED <<machine, vm>>

\* EnclaveInitialize has returned SUCCESS.
StartThread ==
  /\ At("initialize", "start")
  /\ Initialize /\ main' = "address"
  /\ result' = "SUCCESS"
  /\ UNCHANGED <<machine, vm, step, enclave>>

-----------------------------------------------------------------------------
\* ~Enclave after the join: EnclaveDestroy deletes the globals.
DestroyEnclave ==
  /\ Destroy
  /\ enclave.state = "aborted" => main' = "aborted"
  /\ enclave' = IF main' = "terminate_enclave" THEN [NoEnclave EXCEPT !.state = "created"]
                ELSE IF main' = "done" THEN NoEnclave ELSE enclave
  /\ UNCHANGED <<machine, vm, step, result>>

Configures == ParseEnvironment \/ ParseCommandLine \/ Validate \/ CreateEnclave

Initializes ==
  ReadFile \/ CreateModelKeyProvider \/ CreateServiceKeyProvider \/ LoadModel \/ StartThread

Runs ==
  /\ \/ ThreadRuns \/ SpuriousWakeup \/ Timeout
     \/ MakeAddress \/ Listen \/ ServingThrows
     \/ CancelLock \/ CancelSet \/ CancelNotify \/ Join
  /\ UNCHANGED startVars

StartNext == Configures \/ Initializes \/ Runs \/ DestroyEnclave

StartSpec == StartInit /\ [][StartNext]_<<vars, startVars>> /\ Fairness

-----------------------------------------------------------------------------
(* Properties *)

Up == main \in {"address", "listen", "serving"}

\* The refresh thread calls the enclave only while its Server exists: it is
\* started after everything that may fail, and EnclaveDestroy follows its end
\* (EnclaveMaybeRefreshKey, enclave.cc:276-282, tests nothing).
RefreshHasServer == tpc = "call" => enclave.service_key # "none"

\* A server that listens has its model: with provisioning the file is held
\* back and no other key for it is configured; otherwise a session was made
\* from it, and a file is decrypted exactly if there is a key provider for it
\* (enclave.cc:116-130 and 176-186, environment.cc:64-86).
ServesItsModel ==
  Up => IF Opt("use-model-key-provisioning")
        THEN enclave.held /\ enclave.session = "none" /\ enclave.model_key = "none"
        ELSE /\ ~enclave.held /\ enclave.session = machine.file
             /\ enclave.session = "vault" <=> enclave.model_key # "none"

\* A server that was told to use the vault never falls back to local keys,
\* nor to keys without attestation if that was asked for, although --use-akv
\* itself reaches only ValidateOptions (server_configuration.h:174,
\* host/enclave.cc:89, enclave.cc:149-171).
VaultIfAsked ==
  Up /\ Opt("use-akv") =>
    enclave.service_key = IF Opt("akv-attestation-url") THEN "hsm" ELSE "vault"

\* Both keys come from vaults of one kind, although main configures the model
\* key without an attestation URL (main.cc:53-54, host/enclave.cc:89-93).
OneKindOfVault ==
  enclave.model_key # "none" /\ enclave.service_key # "none" =>
    enclave.model_key = enclave.service_key

=============================================================================
