--------------------------- MODULE ModelServing ---------------------------
(***************************************************************************)
(* The path of a request: HttpSession and Routes on the host, HandleRequest *)
(* of the host, EnclaveHandleRequest, the request callback in the enclave   *)
(* and the ServerEnvironment it works on.                                   *)
(*                                                                         *)
(* A session handles one request at a time and several sessions are served *)
(* at once by the HTTP threads.  ServerEnvironment has no lock: each access *)
(* to a field that another thread may write is a step of its own, and two   *)
(* accesses that race may also end in a fault of the enclave.               *)
(*                                                                         *)
(* What confmsg does with a message before and after the callback is        *)
(* modelled in Confmsg; here it may succeed or throw.  Of the model's output *)
(* names only their number is kept: name i + OutputCount repeats name i.     *)
(***************************************************************************)
EXTENDS Integers, FiniteSets

CONSTANTS
  Conns,        \* HTTP connections
  HttpThreads,  \* --num-http-threads
  OutputCount   \* session.GetOutputCount()

ASSUME OutputCountAssumption == OutputCount \in Nat \ {0}
ASSUME HttpThreadsAssumption == HttpThreads \in Nat \ {0}

VARIABLES
  pc, req, answer,  \* of each session: where it is, its request, the status it sends
  idx,              \* of each session: a loop counter, or the names it copied
  session,          \* ServerEnvironment::session is not null
  key,              \* the key in model_key_provider_
  names,            \* size of model_output_names_
  encrypted,        \* encrypted_model_ is not empty
  aborting,         \* the enclave has faulted; calls into it fail
  announced,        \* history: a client knows that the model is loaded
  overlapped,       \* history: two provisioning requests were in progress at once
  cutShort,         \* history: the loop over the names threw after the first one
  early             \* history: a score request began before it was announced

environment == <<session, key, names, encrypted>>
history == <<announced, overlapped, cutShort, early>>
vars == <<pc, req, answer, idx, environment, aborting, history>>

\* The routes main.cc registers, and what else a client may ask for.
Target == { "GET /", "GET other", "PUT", "POST other", "/score", "/provisionModelKey" }

\* The plaintext of the confmsg message.  Score requests that are no protobuf
\* message and keys that do not decrypt the model are both "junk".
Body == { "key_request", "predict", "predict_filtered", "right_key", "junk" }

Request == [target : Target, authorized : BOOLEAN, body : Body]

EnclaveStatus ==
  { "SUCCESS", "UNKNOWN_ERROR", "CRYPTO_ERROR", "KEY_REFRESH_ERROR",
    "PAYLOAD_PARSE_ERROR", "INFERENCE_ERROR", "OUTPUT_BUFFER_TOO_SMALL_ERROR",
    "OUTPUT_SERIALIZATION_ERROR", "MODEL_ALREADY_INITIALIZED_ERROR" }

HttpStatus == { "ok", "bad_request", "unauthorized", "not_found",
                "method_not_allowed", "internal_server_error" }

Provisioning == { "check", "set_key", "read_model", "decrypt", "load", "push", "clear" }
Scoring == { "inputs", "copy_names", "run", "build" }
Point == Provisioning \cup Scoring
           \cup { "unconnected", "reading", "ecall", "respond", "reply", "writing" }

Answer == [http : HttpStatus, enclave : EnclaveStatus \cup {"none"}]

\* Every field holds a value of its C++ type.
TypeOK ==
  /\ pc \in [Conns -> Point]
  /\ req \in [Conns -> Request]
  /\ answer \in [Conns -> Answer]
  /\ idx \in [Conns -> Nat]
  /\ session \in BOOLEAN
  /\ key \in Body \cup {"none"}
  /\ names \in Nat
  /\ encrypted \in BOOLEAN
  /\ aborting \in BOOLEAN
  /\ announced \in BOOLEAN
  /\ overlapped \in BOOLEAN
  /\ cutShort \in BOOLEAN
  /\ early \in BOOLEAN

NoRequest == [target |-> "GET /", authorized |-> FALSE, body |-> "junk"]
NoAnswer == [http |-> "ok", enclave |-> "none"]

\* _EnclaveInitialize has loaded the model, which may have been encrypted with
\* a key from the vault, or keeps it until its key is provisioned.
ModelInitialized ==
  /\ session = TRUE
  /\ key \in {"none", "right_key"}
  /\ names = OutputCount
  /\ encrypted = FALSE
  /\ announced = TRUE

ModelEncrypted ==
  /\ session = FALSE
  /\ key = "none"
  /\ names = 0
  /\ encrypted = TRUE
  /\ announced = FALSE

Init ==
  /\ pc = [c \in Conns |-> "unconnected"]
  /\ req = [c \in Conns |-> NoRequest]
  /\ answer = [c \in Conns |-> NoAnswer]
  /\ idx = [c \in Conns |-> 0]
  /\ ModelInitialized \/ ModelEncrypted
  /\ aborting = FALSE
  /\ overlapped = FALSE
  /\ cutShort = FALSE
  /\ early = FALSE

Goto(c, from, to) == pc[c] = from /\ pc' = [pc EXCEPT ![c] = to]

-----------------------------------------------------------------------------
(* The HTTP session *)

\* Listener::OnAccept: a new session begins to read.
OnAccept(c) ==
  /\ Goto(c, "unconnected", "reading")
  /\ UNCHANGED <<req, answer, idx, environment, aborting, history>>

\* OnRead with an error, or with the client's end of the stream.
OnReadError(c) ==
  /\ Goto(c, "reading", "unconnected")
  /\ UNCHANGED <<req, answer, idx, environment, aborting, history>>

\* Routes::ParseUrl: there are no GET routes, and two POST routes.
ParseUrl(target) ==
  CASE target \in {"/score", "/provisionModelKey"} -> "ok"
    [] target = "POST other" -> "not_found"
    [] OTHER -> "method_not_allowed"

\* Mutant of HostAnswer: the error callback finds no status.
HostAnswerUnset(r) ==
  CASE r.target = "GET /" -> "ok"
    [] r.target # "GET /" /\ ParseUrl(r.target) # "ok" -> "none"
    [] OTHER -> "unauthorized"

\* The answer the host gives by itself: the liveness probe, the error callback
\* for an unknown route, or the authorization check of HandleRequest.
HostAnswer(r) ==
  CASE r.target = "GET /" -> "ok"
    [] r.target # "GET /" /\ ParseUrl(r.target) # "ok" -> ParseUrl(r.target)
    [] OTHER -> "unauthorized"

ForwardedToEnclave(r) == ParseUrl(r.target) = "ok" /\ r.authorized

InHandler(c) == pc[c] \notin {"unconnected", "reading", "writing"}

\* OnRead with a request, run by a free HTTP thread.
OnRead(c, r) ==
  /\ pc[c] = "reading"
  /\ Cardinality({d \in Conns : InHandler(d)}) < HttpThreads
  /\ req' = [req EXCEPT ![c] = r]
  /\ \/ /\ ForwardedToEnclave(r)
        /\ pc' = [pc EXCEPT ![c] = "ecall"]
        /\ UNCHANGED answer
     \/ /\ ~ForwardedToEnclave(r)
        /\ pc' = [pc EXCEPT ![c] = "writing"]
        /\ answer' = [answer EXCEPT ![c] = [http |-> HostAnswer(r), enclave |-> "none"]]
  /\ UNCHANGED <<idx, environment, aborting, history>>

\* OnWrite of a response that keeps the connection alive: read again.
OnWrite(c) ==
  /\ Goto(c, "writing", "reading")
  /\ req' = [req EXCEPT ![c] = NoRequest]
  /\ answer' = [answer EXCEPT ![c] = NoAnswer]
  /\ idx' = [idx EXCEPT ![c] = 0]
  /\ UNCHANGED <<environment, aborting, history>>

\* OnWrite with an error, or of a response that closes the connection.
OnWriteClose(c) ==
  /\ Goto(c, "writing", "unconnected")
  /\ req' = [req EXCEPT ![c] = NoRequest]
  /\ answer' = [answer EXCEPT ![c] = NoAnswer]
  /\ idx' = [idx EXCEPT ![c] = 0]
  /\ UNCHANGED <<environment, aborting, history>>

-----------------------------------------------------------------------------
(* The call into the enclave *)

\* EnclaveHandleRequest returns a status; the host turns it into a response.
\* A client learns from it that the model is loaded.
Return(c, status) ==
  /\ pc' = [pc EXCEPT ![c] = "writing"]
  /\ answer' = [answer EXCEPT ![c] =
       [http |-> IF status = "SUCCESS" THEN "ok" ELSE "bad_request", enclave |-> status]]
  /\ announced' = (announced \/
       /\ req[c].target = "/provisionModelKey"
       /\ req[c].body # "key_request"
       /\ status \in {"SUCCESS", "MODEL_ALREADY_INITIALIZED_ERROR"})
  /\ cutShort' = (cutShort \/ (pc[c] = "push" /\ names # 0))
  /\ UNCHANGED <<req, idx, aborting, overlapped, early>>

\* The SDK refuses or aborts the call, or the handler runs out of memory.
ReturnError(c) ==
  /\ pc' = [pc EXCEPT ![c] = "writing"]
  /\ answer' = [answer EXCEPT ![c] = [http |-> "internal_server_error", enclave |-> "none"]]
  /\ UNCHANGED <<req, idx, environment, history>>

\* A call fails in an enclave that has aborted or has no free thread control
\* structure: the refresh thread and the enclave's own threads use them too.
CallFails(c) ==
  /\ pc[c] = "ecall"
  /\ ReturnError(c)
  /\ UNCHANGED aborting

Call(c) ==
  /\ Goto(c, "ecall", "respond")
  /\ ~aborting
  /\ UNCHANGED <<req, answer, idx, environment, aborting, history>>

\* RespondToMessage answers a key request without the callback,
RespondKey(c) ==
  /\ pc[c] = "respond"
  /\ req[c].body = "key_request"
  /\ \E e \in {"SUCCESS", "OUTPUT_BUFFER_TOO_SMALL_ERROR"} : Return(c, e)
  /\ UNCHANGED environment

\* fails before the callback,
RespondThrows(c) ==
  /\ pc[c] = "respond"
  /\ \E e \in {"CRYPTO_ERROR", "KEY_REFRESH_ERROR", "PAYLOAD_PARSE_ERROR", "UNKNOWN_ERROR"} :
        Return(c, e)
  /\ UNCHANGED environment

\* or calls it to provision the model key
BeginProvision(c) ==
  /\ Goto(c, "respond", "check")
  /\ req[c].target = "/provisionModelKey"
  /\ req[c].body # "key_request"
  /\ overlapped' = (overlapped \/ \E d \in Conns \ {c} : pc[d] \in Provisioning)
  /\ UNCHANGED <<req, answer, idx, environment, aborting, announced, cutShort, early>>

\* or to score.
BeginScore(c) ==
  /\ Goto(c, "respond", "inputs")
  /\ req[c].target = "/score"
  /\ req[c].body # "key_request"
  /\ early' = (early \/ ~announced)
  /\ UNCHANGED <<req, answer, idx, environment, aborting, announced, overlapped, cutShort>>

\* After the callback: the response is encrypted and written.
Reply(c) ==
  /\ pc[c] = "reply"
  /\ \E e \in {"SUCCESS", "CRYPTO_ERROR", "OUTPUT_BUFFER_TOO_SMALL_ERROR"} : Return(c, e)
  /\ UNCHANGED environment

-----------------------------------------------------------------------------
(* ServerEnvironment::InitializeModel(provider) *)

\* Mutant of CheckNames: no check whether the model is initialized.
CheckNamesDropped(c) ==
  /\ Goto(c, "check", "set_key")
  /\ UNCHANGED <<req, answer, idx, environment, aborting, history>>

CheckNames(c) ==
  /\ pc[c] = "check"
  /\ \/ names # 0 /\ Return(c, "MODEL_ALREADY_INITIALIZED_ERROR")
     \/ /\ names = 0
        /\ pc' = [pc EXCEPT ![c] = "set_key"]
        /\ UNCHANGED <<req, answer, idx, aborting, history>>
  /\ UNCHANGED environment

\* Mutant of SetKey: the first key is kept.
SetKeyOnce(c) ==
  /\ Goto(c, "set_key", "read_model")
  /\ key' = IF key = "none" THEN req[c].body ELSE key
  /\ UNCHANGED <<req, answer, idx, session, names, encrypted, aborting, history>>

SetKey(c) ==
  /\ Goto(c, "set_key", "read_model")
  /\ key' = req[c].body
  /\ UNCHANGED <<req, answer, idx, session, names, encrypted, aborting, history>>

\* data() and size() of encrypted_model_, and the check of the size.  The bytes
\* stay in place when another thread clears the vector later.
ReadModel(c) ==
  /\ pc[c] = "read_model"
  /\ \/ ~encrypted /\ Return(c, "UNKNOWN_ERROR")
     \/ /\ encrypted
        /\ pc' = [pc EXCEPT ![c] = "decrypt"]
        /\ UNCHANGED <<req, answer, idx, aborting, history>>
  /\ UNCHANGED environment

\* Mutant of Decrypt: a failed attempt gives up the encrypted model.
DecryptGivesUp(c) ==
  /\ pc[c] = "decrypt"
  /\ \/ key # "right_key" /\ Return(c, "CRYPTO_ERROR") /\ encrypted' = FALSE
     \/ /\ key = "right_key"
        /\ pc' = [pc EXCEPT ![c] = "load"]
        /\ UNCHANGED <<req, answer, idx, aborting, history, encrypted>>
  /\ UNCHANGED <<session, key, names>>

\* Mutant of Decrypt: a failed attempt is reported as a success.
DecryptErrorSwallowed(c) ==
  /\ pc[c] = "decrypt"
  /\ pc' = [pc EXCEPT ![c] = IF key = "right_key" THEN "load" ELSE "reply"]
  /\ UNCHANGED <<req, answer, idx, environment, aborting, history>>

Decrypt(c) ==
  /\ pc[c] = "decrypt"
  /\ \/ key # "right_key" /\ Return(c, "CRYPTO_ERROR")
     \/ /\ key = "right_key"
        /\ pc' = [pc EXCEPT ![c] = "load"]
        /\ UNCHANGED <<req, answer, idx, aborting, history>>
  /\ UNCHANGED environment

\* ONNX Runtime creates the session, or throws.
Load(c) ==
  /\ pc[c] = "load"
  /\ \/ /\ pc' = [pc EXCEPT ![c] = "push"]
        /\ idx' = [idx EXCEPT ![c] = 0]
        /\ session' = TRUE
        /\ UNCHANGED <<req, answer, aborting, history>>
     \/ Return(c, "UNKNOWN_ERROR") /\ UNCHANGED session
  /\ UNCHANGED <<key, names, encrypted>>

\* Mutant of PushNames: the last name is left out.
PushNamesShort(c) ==
  /\ pc[c] = "push"
  /\ \/ /\ idx[c] < OutputCount - 1
        /\ names' = names + 1
        /\ idx' = [idx EXCEPT ![c] = idx[c] + 1]
        /\ UNCHANGED pc
     \/ /\ idx[c] = OutputCount - 1
        /\ pc' = [pc EXCEPT ![c] = "clear"]
        /\ UNCHANGED <<names, idx>>
  /\ UNCHANGED <<req, answer, session, key, encrypted, aborting, history>>

\* The loop that collects the output names.
PushNames(c) ==
  /\ pc[c] = "push"
  /\ \/ /\ idx[c] < OutputCount
        /\ names' = names + 1
        /\ idx' = [idx EXCEPT ![c] = idx[c] + 1]
        /\ UNCHANGED pc
     \/ /\ idx[c] = OutputCount
        /\ pc' = [pc EXCEPT ![c] = "clear"]
        /\ UNCHANGED <<names, idx>>
  /\ UNCHANGED <<req, answer, session, key, encrypted, aborting, history>>

\* GetOutputCount, GetOutputName or push_back throws (Ort::Exception, bad_alloc):
\* what was stored so far stays, and so does the encrypted model.
PushNamesThrows(c) ==
  /\ pc[c] = "push" /\ idx[c] < OutputCount
  /\ Return(c, "UNKNOWN_ERROR")
  /\ UNCHANGED environment

\* Mutant of ClearEncrypted: the encrypted model is kept.
ClearEncryptedForgotten(c) ==
  /\ Goto(c, "clear", "reply")
  /\ UNCHANGED <<req, answer, idx, environment, aborting, history>>

ClearEncrypted(c) ==
  /\ Goto(c, "clear", "reply")
  /\ encrypted' = FALSE
  /\ UNCHANGED <<req, answer, idx, session, key, names, aborting, history>>

-----------------------------------------------------------------------------
(* HandleRequest for a score request, Executor::Predict *)

\* The request does not parse, or its tensors do not convert.
InputsRejected(c) ==
  /\ pc[c] = "inputs"
  /\ \/ req[c].body \notin {"predict", "predict_filtered"} /\ Return(c, "PAYLOAD_PARSE_ERROR")
     \/ req[c].body \in {"predict", "predict_filtered"} /\ Return(c, "INFERENCE_ERROR")
  /\ UNCHANGED environment

SetInputs(c) ==
  /\ pc[c] = "inputs"
  /\ \/ req[c].body = "predict" /\ pc' = [pc EXCEPT ![c] = "copy_names"]
     \/ req[c].body = "predict_filtered" /\ pc' = [pc EXCEPT ![c] = "run"]
  /\ UNCHANGED <<req, answer, idx, environment, aborting, history>>

\* Without an output filter all of the model's outputs are asked for.
CopyNames(c) ==
  /\ Goto(c, "copy_names", "run")
  /\ idx' = [idx EXCEPT ![c] = names]
  /\ UNCHANGED <<req, answer, environment, aborting, history>>

\* ONNX Runtime runs the session, or throws.
Run(c) ==
  /\ pc[c] = "run"
  /\ session
  /\ \/ /\ pc' = [pc EXCEPT ![c] = "build"]
        /\ UNCHANGED <<req, answer, idx, aborting, history>>
     \/ Return(c, "INFERENCE_ERROR")
  /\ UNCHANGED environment

\* The response holds one tensor for each name; a name that occurs twice is an
\* error, and so is a tensor that does not convert or serialize.
BuildResponse(c) ==
  /\ pc[c] = "build"
  /\ \/ /\ idx[c] <= OutputCount
        /\ pc' = [pc EXCEPT ![c] = "reply"]
        /\ UNCHANGED <<req, answer, idx, aborting, history>>
     \/ \E e \in {"INFERENCE_ERROR", "OUTPUT_SERIALIZATION_ERROR"} : Return(c, e)
  /\ UNCHANGED environment

\* Threads c and d access the same field without a lock, and d writes it: the
\* vector of names, the key provider, or the ONNX Runtime session.
Races(c, d) ==
  \/ pc[d] = "push" /\ pc[c] \in {"push", "copy_names"}
  \/ pc[d] = "set_key" /\ pc[c] \in {"set_key", "decrypt"}
  \/ pc[d] = "load" /\ pc[c] \in {"load", "push", "run"}

\* Memory that another thread frees at the same time, or a null session.
Undefined(c) ==
  \/ \E d \in Conns \ {c} : Races(c, d)
  \/ pc[c] = "run" /\ ~session

\* A fault, which the SDK turns into an abort of the enclave.
Fault(c) ==
  /\ Undefined(c)
  /\ ReturnError(c)
  /\ aborting' = TRUE

\* Or the race goes unnoticed: the key is read while it changes, or two
\* push_backs write the same slot and the same size.
RaceLost(c) ==
  /\ \E d \in Conns \ {c} : Races(c, d)
  /\ \/ pc[c] = "decrypt" /\ Return(c, "CRYPTO_ERROR")
     \/ /\ pc[c] = "push" /\ idx[c] < OutputCount /\ names # 0
        /\ idx' = [idx EXCEPT ![c] = idx[c] + 1]
        /\ UNCHANGED <<pc, req, answer, aborting, history>>
  /\ UNCHANGED environment

-----------------------------------------------------------------------------

Callback(c) ==
  \/ CheckNames(c) \/ SetKey(c) \/ ReadModel(c) \/ Decrypt(c) \/ Load(c)
  \/ PushNames(c) \/ PushNamesThrows(c) \/ ClearEncrypted(c)
  \/ InputsRejected(c) \/ SetInputs(c) \/ CopyNames(c) \/ Run(c) \/ BuildResponse(c)
  \/ Fault(c) \/ RaceLost(c)

HandleRequest(c) ==
  \/ CallFails(c) \/ Call(c)
  \/ RespondKey(c) \/ RespondThrows(c) \/ BeginProvision(c) \/ BeginScore(c)
  \/ Callback(c)
  \/ Reply(c)

Session(c) ==
  \/ OnAccept(c) \/ OnReadError(c)
  \/ \E r \in Request : OnRead(c, r)
  \/ OnWrite(c) \/ OnWriteClose(c)

Next == \E c \in Conns : Session(c) \/ HandleRequest(c)

Spec == Init /\ [][Next]_vars

-----------------------------------------------------------------------------
(* Properties *)

\* InitializeModel gives up the encrypted model only when output names of the
\* loaded model are there: after any number of wrong keys and of failures to
\* decrypt or to load, also at once, the right key can still be provisioned.
\* (When the loop over the names is cut short it cannot: the check at the start
\* of InitializeModel refuses every later key, see AllOutputsIncluded.)
ModelNotLost == names = 0 => encrypted

\* When the server has told a client that the model is initialized, it is: it
\* has a session and exactly the model's output names, and encrypted_model_ is
\* "only kept while model key not provisioned yet" (environment.h:43).  Two
\* provisioning requests at once can break this, and so can an exception in
\* the loop over the names (environment.cc:88-95) once a name is stored; one
\* before the first name cannot.
AnnouncedIsLoaded ==
  announced /\ ~overlapped /\ ~cutShort
    => session /\ names = OutputCount /\ ~encrypted

\* A provisioning request that runs by itself decrypts the model with its own
\* key, whatever keys failed before it.
OwnKeyDecrypts ==
  \A c \in Conns : pc[c] = "decrypt" /\ ~overlapped => key = req[c].body

\* The accesses to the fields of ServerEnvironment meet undefined behaviour
\* only if two provisioning requests overlap or a score request does not wait
\* until the model is provisioned: the code relies on that and checks neither.
\* A loop over the names that was cut short does no harm of this kind.
FaultsOnlyIfMisused == aborting => overlapped \/ early

\* A score request for all outputs that begins after the model is announced
\* gets all of them, unless the loop over the names was cut short.
AnswersAreComplete ==
  \A c \in Conns :
    pc[c] = "build" /\ req[c].body = "predict" /\ ~overlapped /\ ~early /\ ~cutShort
      => idx[c] = OutputCount

\* "If the list is empty, all outputs will be included" (predict.proto:21): what
\* a client that provisions by itself and waits for the announcement expects.
AllOutputsIncluded ==
  \A c \in Conns :
    pc[c] = "build" /\ req[c].body = "predict" /\ ~overlapped /\ ~early
      => idx[c] = OutputCount

\* Once loaded the model stays as it is: a later provisioning request changes
\* neither the session nor the key nor the names.
LoadedForGood ==
  [][announced /\ ~overlapped' => UNCHANGED environment]_vars

=============================================================================
