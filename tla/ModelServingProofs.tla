------------------------ MODULE ModelServingProofs ------------------------
(***************************************************************************)
(* The safety properties of ModelServing for any number of connections,    *)
(* HTTP threads and model outputs.                                         *)
(*                                                                         *)
(* The argument: as long as provisioning requests do not overlap, the one  *)
(* that is past the check of model_output_names_ has the environment to    *)
(* itself (Alone); what it leaves is an untouched model, a fully loaded one *)
(* or one whose names were cut short, and in the last two cases no later   *)
(* request gets past the check (Finished, Unwritten).  Score requests that *)
(* waited for the announcement therefore never meet a writer (Patient).  Only ModelNotLost holds for overlapping requests too, *)
(* and needs what each of them has pushed so far (Pushed).                 *)
(***************************************************************************)
EXTENDS ModelServing, TLAPS

Loaded == session /\ names = OutputCount /\ ~encrypted

\* What a provisioning request leaves that is not as it was before.
Finished == session /\ names # 0 /\ (Loaded \/ cutShort)

Unwritten == \A c \in Conns : pc[c] \notin {"push", "clear"}

\* A provisioning request has been, or is about to be, answered with success.
Done ==
  announced \/ \E c \in Conns : pc[c] = "reply" /\ req[c].target = "/provisionModelKey"

Kinds ==
  \A c \in Conns :
    /\ pc[c] \in Provisioning => req[c].target = "/provisionModelKey"
    /\ pc[c] \in Scoring => req[c].target = "/score"

Pushed ==
  /\ names = 0 => encrypted
  /\ \A c \in Conns :
       /\ pc[c] = "push" /\ idx[c] # 0 => names # 0
       /\ pc[c] = "clear" => names # 0

AloneAt(c) ==
  /\ pc[c] \in {"set_key", "read_model", "decrypt", "load"} => names = 0
  /\ pc[c] \in {"read_model", "decrypt", "load"} => key = req[c].body
  /\ pc[c] \in {"decrypt", "load", "push", "clear"} => encrypted
  /\ pc[c] = "push" => session /\ names = idx[c] /\ idx[c] <= OutputCount
  /\ pc[c] = "clear" => session /\ names = OutputCount

Alone ==
  ~overlapped =>
    /\ \A c, d \in Conns : c # d /\ pc[c] \in Provisioning => pc[d] \notin Provisioning
    /\ \A c \in Conns : AloneAt(c)
    /\ Unwritten => names = 0 \/ Finished
    /\ Done => Finished /\ Unwritten

Patient ==
  ~overlapped /\ ~early =>
    /\ ~aborting
    /\ \A c \in Conns :
         /\ pc[c] \in Scoring => announced
         /\ pc[c] \in {"run", "build"} /\ req[c].body = "predict"
              => idx[c] = OutputCount \/ cutShort

Inv == TypeOK /\ Kinds /\ Pushed /\ Alone /\ Patient

-----------------------------------------------------------------------------

\* Points at which a session holds nothing of the environment.
Neutral == Point \ (Provisioning \cup Scoring \cup {"reply"})

\* What a step of session c leaves alone: the other sessions.
OthersKept(c) ==
  \A d \in Conns \ {c} : pc'[d] = pc[d] /\ req'[d] = req[d] /\ idx'[d] = idx[d]

\* c goes to p, and nothing happens to the environment and the histories.
Moves(c, p) ==
  /\ pc'[c] = p
  /\ OthersKept(c)
  /\ UNCHANGED <<environment, aborting, history>>

\* A session that gives up, waits or returns an error disturbs nothing, unless
\* it were in the middle of collecting names.
LEMMA NeutralStep ==
  ASSUME Inv, TypeOK', NEW c \in Conns, NEW p \in Neutral, Moves(c, p),
         ~overlapped => pc[c] \notin {"push", "clear"}
  PROVE  Inv'
<1> USE DEF Moves, OthersKept, environment, history
<1>0. p \notin Provisioning /\ p \notin Scoring /\ p # "reply"
  BY DEF Neutral
<1>1. Kinds'
  BY <1>0 DEF Inv, Kinds
<1>2. Pushed'
  BY <1>0 DEF Inv, Pushed, Provisioning
<1>3. Alone'
  <2> SUFFICES ASSUME ~overlapped PROVE Alone'
    BY DEF Alone
  <2>1. \A a, d \in Conns : a # d /\ pc'[a] \in Provisioning => pc'[d] \notin Provisioning
    BY <1>0 DEF Inv, Alone
  <2>2. \A d \in Conns : AloneAt(d)'
    BY <1>0 DEF Inv, Alone, AloneAt, Provisioning
  <2>3. Unwritten' => names' = 0 \/ Finished'
    BY DEF Inv, Alone, Finished, Unwritten, Loaded
  <2>4. p \notin {"push", "clear"}
    BY <1>0 DEF Provisioning
  <2>5. Unwritten => Unwritten'
    BY <2>4 DEF Unwritten
  <2>6. Done' => Finished' /\ Unwritten'
    BY <1>0, <2>5 DEF Inv, Alone, Done, Finished, Loaded
  <2> QED
    BY <2>1, <2>2, <2>3, <2>6 DEF Alone
<1>4. Patient'
  BY <1>0 DEF Inv, Patient, Scoring
<1> QED
  BY <1>1, <1>2, <1>3, <1>4 DEF Inv

\* An error returned from the enclave is such a step.
LEMMA ErrorStep ==
  ASSUME Inv, TypeOK', NEW c \in Conns, NEW e \in EnclaveStatus,
         e \notin {"SUCCESS", "MODEL_ALREADY_INITIALIZED_ERROR"},
         Return(c, e), UNCHANGED environment,
         pc[c] \notin {"push", "clear"}
  PROVE  Inv'
<1>1. pc' = [pc EXCEPT ![c] = "writing"] /\ pc \in [Conns -> Point]
  BY DEF Inv, TypeOK, Return
<1>2. UNCHANGED <<req, idx, aborting, overlapped, early>>
  BY DEF Return
<1>3. UNCHANGED <<announced, cutShort>>
  BY DEF Return, Inv, TypeOK
<1>4. Moves(c, "writing")
  BY <1>1, <1>2, <1>3 DEF Moves, OthersKept, environment, history
<1>5. "writing" \in Neutral
  BY DEF Neutral, Point, Provisioning, Scoring
<1> QED
  BY <1>4, <1>5, NeutralStep

\* Initially there is no request, and the model is loaded or untouched.
LEMMA InitInv == Init => Inv
<1> SUFFICES ASSUME Init PROVE Inv
  OBVIOUS
<1> USE DEF Init, ModelInitialized, ModelEncrypted
<1>1. \A c \in Conns : pc[c] = "unconnected"
  OBVIOUS
<1>2. TypeOK
  <2>1. NoRequest \in Request /\ NoAnswer \in Answer /\ "unconnected" \in Point
    BY DEF NoRequest, NoAnswer, Request, Target, Body, Answer, HttpStatus, Point
  <2>2. /\ pc \in [Conns -> Point] /\ req \in [Conns -> Request]
        /\ answer \in [Conns -> Answer] /\ idx \in [Conns -> Nat]
    BY <2>1
  <2>3. key \in Body \cup {"none"} /\ names \in Nat
    BY OutputCountAssumption DEF Body
  <2>4. session \in BOOLEAN /\ encrypted \in BOOLEAN /\ announced \in BOOLEAN
    OBVIOUS
  <2> QED
    BY <2>2, <2>3, <2>4 DEF TypeOK
<1>3. Kinds /\ Patient
  BY <1>1 DEF Kinds, Patient, Provisioning, Scoring
<1>4. Pushed
  BY <1>1, OutputCountAssumption DEF Pushed
<1>5. Alone
  BY <1>1, OutputCountAssumption DEF Alone, AloneAt, Done, Finished, Unwritten, Loaded, Provisioning
<1> QED
  BY <1>2, <1>3, <1>4, <1>5 DEF Inv

-----------------------------------------------------------------------------
(* Types *)

\* What EnclaveHandleRequest's return does to the session's fields.
LEMMA ReturnType ==
  ASSUME TypeOK, NEW c \in Conns, NEW e \in EnclaveStatus, Return(c, e)
  PROVE  /\ pc' \in [Conns -> Point]
         /\ req' \in [Conns -> Request]
         /\ answer' \in [Conns -> Answer]
         /\ idx' \in [Conns -> Nat]
         /\ aborting' \in BOOLEAN /\ announced' \in BOOLEAN
         /\ overlapped' \in BOOLEAN /\ cutShort' \in BOOLEAN /\ early' \in BOOLEAN
<1>1. "writing" \in Point
  BY DEF Point
<1>2. [http |-> IF e = "SUCCESS" THEN "ok" ELSE "bad_request", enclave |-> e] \in Answer
  BY DEF Answer, HttpStatus
<1>3. announced' \in BOOLEAN /\ cutShort' \in BOOLEAN
  BY DEF Return, TypeOK
<1> QED
  BY <1>1, <1>2, <1>3 DEF Return, TypeOK

\* The steps of the HTTP session, and the calls that the SDK fails.
LEMMA SessionType ==
  ASSUME TypeOK, NEW c \in Conns, Session(c)
  PROVE  TypeOK'
<1> USE DEF environment, history
<1>0. "reading" \in Point /\ "unconnected" \in Point /\ "ecall" \in Point /\ "writing" \in Point
  BY DEF Point
<1>1. CASE OnAccept(c) \/ OnReadError(c)
  BY <1>0, <1>1 DEF TypeOK, OnAccept, OnReadError, Goto
<1>2. CASE \E r \in Request : OnRead(c, r)
  <2> PICK r \in Request : OnRead(c, r)
    BY <1>2
  <2>1. HostAnswer(r) \in HttpStatus
    BY DEF HostAnswer, ParseUrl, HttpStatus
  <2>2. [http |-> HostAnswer(r), enclave |-> "none"] \in Answer
    BY <2>1 DEF Answer
  <2>3. answer' \in [Conns -> Answer]
    BY <2>2 DEF OnRead, TypeOK
  <2>4. pc' \in [Conns -> Point]
    BY <1>0 DEF OnRead, TypeOK
  <2> QED
    BY <2>3, <2>4 DEF TypeOK, OnRead
<1>3. CASE OnWrite(c) \/ OnWriteClose(c)
  <2>1. NoRequest \in Request /\ NoAnswer \in Answer
    BY DEF NoRequest, NoAnswer, Request, Target, Body, Answer, HttpStatus
  <2> QED
    BY <1>0, <1>3, <2>1 DEF TypeOK, OnWrite, OnWriteClose, Goto
<1> QED
  BY <1>1, <1>2, <1>3 DEF Session

\* The steps inside the enclave.
LEMMA EnclaveType ==
  ASSUME TypeOK, NEW c \in Conns, HandleRequest(c)
  PROVE  TypeOK'
<1> USE DEF environment, history
<1>0. Provisioning \subseteq Point /\ Scoring \subseteq Point /\ "respond" \in Point
        /\ "reply" \in Point /\ "writing" \in Point
  BY DEF Point
<1>1. ASSUME NEW e \in EnclaveStatus, Return(c, e), UNCHANGED environment
      PROVE  TypeOK'
  BY <1>1, ReturnType DEF TypeOK
<1>2. CASE CallFails(c) \/ Fault(c)
  <2>1. [http |-> "internal_server_error", enclave |-> "none"] \in Answer
    BY DEF Answer, HttpStatus
  <2> QED
    BY <1>0, <1>2, <2>1 DEF TypeOK, CallFails, Fault, ReturnError
<1>3. CASE Call(c)
  BY <1>0, <1>3 DEF TypeOK, Call, Goto
<1>4. CASE RespondKey(c) \/ RespondThrows(c) \/ Reply(c)
  BY <1>1, <1>4 DEF RespondKey, RespondThrows, Reply, EnclaveStatus
<1>5. CASE BeginProvision(c)
  <2>1. overlapped' \in BOOLEAN
    BY <1>5 DEF BeginProvision
  <2> QED
    BY <1>0, <1>5, <2>1 DEF TypeOK, BeginProvision, Goto, Provisioning
<1>6. CASE BeginScore(c)
  <2>1. early' \in BOOLEAN
    BY <1>6 DEF BeginScore
  <2> QED
    BY <1>0, <1>6, <2>1 DEF TypeOK, BeginScore, Goto, Scoring
<1>7. ASSUME NEW p \in Point, pc' = [pc EXCEPT ![c] = p],
             UNCHANGED <<req, answer, idx, aborting, history>>, UNCHANGED environment
      PROVE  TypeOK'
  BY <1>7 DEF TypeOK
<1>8. CASE CheckNames(c) \/ ReadModel(c) \/ Decrypt(c)
  BY <1>0, <1>1, <1>7, <1>8 DEF CheckNames, ReadModel, Decrypt, EnclaveStatus, Provisioning
<1>9. CASE SetKey(c)
  <2>1. req[c].body \in Body
    BY DEF TypeOK, Request
  <2> QED
    BY <1>0, <1>9, <2>1 DEF TypeOK, SetKey, Goto, Provisioning
<1>10. CASE Load(c)
  <2>1. CASE session' = TRUE /\ pc' = [pc EXCEPT ![c] = "push"]
              /\ idx' = [idx EXCEPT ![c] = 0]
              /\ UNCHANGED <<req, answer, key, names, encrypted, aborting, history>>
    BY <1>0, <2>1 DEF TypeOK, Provisioning
  <2>2. CASE Return(c, "UNKNOWN_ERROR") /\ UNCHANGED environment
    BY <1>1, <2>2 DEF EnclaveStatus
  <2> QED
    BY <1>10, <2>1, <2>2 DEF Load
<1>11. CASE PushNames(c)
  BY <1>0, <1>11 DEF TypeOK, PushNames, Provisioning
<1>12. CASE ClearEncrypted(c)
  BY <1>0, <1>12 DEF TypeOK, ClearEncrypted, Goto
<1>16. CASE PushNamesThrows(c)
  BY <1>1, <1>16 DEF PushNamesThrows, EnclaveStatus
<1>13. CASE InputsRejected(c) \/ SetInputs(c) \/ Run(c) \/ BuildResponse(c)
  BY <1>0, <1>1, <1>7, <1>13
     DEF InputsRejected, SetInputs, Run, BuildResponse, EnclaveStatus, Scoring
<1>14. CASE CopyNames(c)
  BY <1>0, <1>14 DEF TypeOK, CopyNames, Goto, Scoring
<1>15. CASE RaceLost(c)
  <2>1. CASE Return(c, "CRYPTO_ERROR") /\ UNCHANGED environment
    BY <1>1, <2>1 DEF EnclaveStatus
  <2>2. CASE idx' = [idx EXCEPT ![c] = idx[c] + 1]
              /\ UNCHANGED <<pc, req, answer, environment, aborting, history>>
    BY <2>2 DEF TypeOK
  <2> QED
    BY <1>15, <2>1, <2>2 DEF RaceLost
<1> QED
  BY <1>2, <1>3, <1>4, <1>5, <1>6, <1>8, <1>9, <1>10, <1>11, <1>12, <1>13, <1>14, <1>15,
     <1>16 DEF HandleRequest, Callback

-----------------------------------------------------------------------------
(* The session and the calls into the enclave *)

\* The steps of the HTTP session are neutral.
LEMMA SessionInv ==
  ASSUME Inv, NEW c \in Conns, Session(c)
  PROVE  Inv'
<1>0. TypeOK /\ TypeOK'
  BY SessionType DEF Inv
<1>1. PICK p \in {"unconnected", "reading", "ecall", "writing"} :
        pc' = [pc EXCEPT ![c] = p]
  BY DEF Session, OnAccept, OnReadError, OnRead, OnWrite, OnWriteClose, Goto
<1>2. UNCHANGED <<environment, aborting, history>>
  BY DEF Session, OnAccept, OnReadError, OnRead, OnWrite, OnWriteClose
<1>3. \A d \in Conns \ {c} : req'[d] = req[d] /\ idx'[d] = idx[d]
  BY <1>0 DEF TypeOK, Session, OnAccept, OnReadError, OnRead, OnWrite, OnWriteClose
<1>4. Moves(c, p)
  BY <1>0, <1>1, <1>2, <1>3 DEF Moves, OthersKept, TypeOK
<1>5. p \in Neutral
  BY DEF Neutral, Point, Provisioning, Scoring
<1>6. pc[c] \notin {"push", "clear"}
  BY DEF Session, OnAccept, OnReadError, OnRead, OnWrite, OnWriteClose, Goto
<1> QED
  BY <1>0, <1>4, <1>5, <1>6, NeutralStep

\* So are the calls that fail, and those that only fetch the server's key.
LEMMA CallInv ==
  ASSUME Inv, TypeOK', NEW c \in Conns,
         CallFails(c) \/ Call(c) \/ RespondKey(c) \/ RespondThrows(c)
  PROVE  Inv'
<1>1. CASE CallFails(c) \/ Call(c)
  <2>1. PICK p \in {"writing", "respond"} : pc' = [pc EXCEPT ![c] = p]
    BY <1>1 DEF CallFails, Call, ReturnError, Goto
  <2>2. Moves(c, p)
    BY <1>1, <2>1 DEF Moves, OthersKept, Inv, TypeOK, CallFails, Call, ReturnError
  <2>3. p \in Neutral /\ pc[c] \notin {"push", "clear"}
    BY <1>1 DEF Neutral, Point, Provisioning, Scoring, CallFails, Call, Goto
  <2> QED
    BY <2>2, <2>3, NeutralStep
<1>2. CASE RespondKey(c)
  <2>1. pc' = [pc EXCEPT ![c] = "writing"] /\ UNCHANGED <<req, idx, environment>>
    BY <1>2 DEF RespondKey, Return
  <2>2. UNCHANGED <<aborting, history>>
    BY <1>2 DEF RespondKey, Return, Inv, TypeOK, history
  <2>3. Moves(c, "writing")
    BY <2>1, <2>2 DEF Moves, OthersKept, Inv, TypeOK
  <2>4. "writing" \in Neutral /\ pc[c] \notin {"push", "clear"}
    BY <1>2 DEF Neutral, Point, Provisioning, Scoring, RespondKey
  <2> QED
    BY <2>3, <2>4, NeutralStep
<1>3. CASE RespondThrows(c)
  BY <1>3, ErrorStep DEF RespondThrows, EnclaveStatus
<1> QED
  BY <1>1, <1>2, <1>3

\* A provisioning request begins: it is alone or the overlap is recorded.
LEMMA BeginProvisionInv ==
  ASSUME Inv, TypeOK', NEW c \in Conns, BeginProvision(c)
  PROVE  Inv'
<1> USE DEF environment, history
<1>1. /\ pc[c] = "respond" /\ pc' = [pc EXCEPT ![c] = "check"] /\ pc \in [Conns -> Point]
      /\ req[c].target = "/provisionModelKey"
      /\ UNCHANGED <<req, idx, environment, aborting, announced, cutShort, early>>
  BY DEF BeginProvision, Goto, Inv, TypeOK
<1>2. ~overlapped' => ~overlapped /\ \A d \in Conns \ {c} : pc[d] \notin Provisioning
  BY DEF BeginProvision
<1>3. Kinds'
  BY <1>1 DEF Inv, Kinds, Scoring
<1>4. Pushed'
  BY <1>1 DEF Inv, Pushed
<1>5. Alone'
  BY <1>1, <1>2 DEF Inv, Alone, AloneAt, Done, Finished, Unwritten, Loaded
<1>6. Patient'
  BY <1>1, <1>2 DEF Inv, Patient, Scoring
<1> QED
  BY <1>3, <1>4, <1>5, <1>6 DEF Inv

\* A score request begins: the model is announced or the haste is recorded.
LEMMA BeginScoreInv ==
  ASSUME Inv, TypeOK', NEW c \in Conns, BeginScore(c)
  PROVE  Inv'
<1> USE DEF environment, history
<1>1. /\ pc[c] = "respond" /\ pc' = [pc EXCEPT ![c] = "inputs"] /\ pc \in [Conns -> Point]
      /\ req[c].target = "/score"
      /\ UNCHANGED <<req, idx, environment, aborting, announced, overlapped, cutShort>>
  BY DEF BeginScore, Goto, Inv, TypeOK
<1>2. ~early' => ~early /\ announced
  BY DEF BeginScore, Inv, TypeOK
<1>3. Kinds'
  BY <1>1 DEF Inv, Kinds, Provisioning
<1>4. Pushed'
  BY <1>1 DEF Inv, Pushed
<1>5. Alone'
  BY <1>1 DEF Inv, Alone, AloneAt, Done, Finished, Unwritten, Loaded, Provisioning
<1>6. Patient'
  BY <1>1, <1>2 DEF Inv, Patient, Scoring
<1> QED
  BY <1>3, <1>4, <1>5, <1>6 DEF Inv

\* Any answer that may announce the model keeps the invariant if provisioning
\* is finished when a request without overlap gives it.
LEMMA AnnounceStep ==
  ASSUME Inv, TypeOK', NEW c \in Conns, NEW e \in EnclaveStatus,
         Return(c, e), UNCHANGED environment, pc[c] \notin {"push", "clear"},
         ~overlapped /\ req[c].target = "/provisionModelKey" => Finished /\ Unwritten
  PROVE  Inv'
<1> USE DEF environment
<1>1. /\ pc' = [pc EXCEPT ![c] = "writing"] /\ pc \in [Conns -> Point]
      /\ UNCHANGED <<req, idx, session, key, names, encrypted, aborting, overlapped,
                     cutShort, early>>
  BY DEF Return, Inv, TypeOK
<1>2. /\ announced => announced'
      /\ announced' => announced \/ req[c].target = "/provisionModelKey"
  BY DEF Return
<1>3. "writing" \notin Provisioning /\ "writing" \notin Scoring
  BY DEF Provisioning, Scoring
<1>4. Kinds'
  BY <1>1, <1>3 DEF Inv, Kinds
<1>5. Pushed'
  BY <1>1 DEF Inv, Pushed
<1>6. Alone'
  <2> SUFFICES ASSUME ~overlapped PROVE Alone'
    BY <1>1 DEF Alone
  <2>1. \A a, d \in Conns : a # d /\ pc'[a] \in Provisioning => pc'[d] \notin Provisioning
    BY <1>1, <1>3 DEF Inv, Alone
  <2>2. \A d \in Conns : AloneAt(d)'
    BY <1>1 DEF Inv, Alone, AloneAt
  <2>3. Unwritten' => names' = 0 \/ Finished'
    BY <1>1 DEF Inv, Alone, Finished, Unwritten, Loaded
  <2>4. Done' => Finished' /\ Unwritten'
    BY <1>1, <1>2 DEF Inv, Alone, Done, Finished, Unwritten, Loaded
  <2> QED
    BY <2>1, <2>2, <2>3, <2>4 DEF Alone
<1>7. Patient'
  BY <1>1, <1>2, <1>3 DEF Inv, Patient, Scoring
<1> QED
  BY <1>4, <1>5, <1>6, <1>7 DEF Inv

\* The reply after the callback.
LEMMA ReplyInv ==
  ASSUME Inv, TypeOK', NEW c \in Conns, Reply(c)
  PROVE  Inv'
<1>1. PICK e \in EnclaveStatus : Return(c, e)
  BY DEF Reply, EnclaveStatus
<1>2. pc[c] = "reply" /\ UNCHANGED environment
  BY DEF Reply
<1>3. ~overlapped /\ req[c].target = "/provisionModelKey" => Finished /\ Unwritten
  BY <1>2 DEF Inv, Alone, Done
<1> QED
  BY <1>1, <1>2, <1>3, AnnounceStep

-----------------------------------------------------------------------------
(* Provisioning *)

\* A request that is alone and finds names finds the work of an earlier one.
LEMMA CheckNamesInv ==
  ASSUME Inv, TypeOK', NEW c \in Conns, CheckNames(c)
  PROVE  Inv'
<1> USE DEF environment, history
<1>0. pc[c] = "check" /\ pc \in [Conns -> Point]
  BY DEF CheckNames, Inv, TypeOK
<1>1. CASE names # 0 /\ Return(c, "MODEL_ALREADY_INITIALIZED_ERROR") /\ UNCHANGED environment
  <2>1. ~overlapped => Unwritten
    BY <1>0 DEF Inv, Alone, Provisioning, Unwritten
  <2>2. ~overlapped => Finished /\ Unwritten
    BY <1>1, <2>1 DEF Inv, Alone
  <2> QED
    BY <1>0, <1>1, <2>2, AnnounceStep DEF EnclaveStatus
<1>2. CASE /\ names = 0 /\ pc' = [pc EXCEPT ![c] = "set_key"]
           /\ UNCHANGED <<req, answer, idx, environment, aborting, history>>
  <2>1. Kinds'
    BY <1>0, <1>2 DEF Inv, Kinds, Provisioning, Scoring
  <2>2. Pushed'
    BY <1>0, <1>2 DEF Inv, Pushed
  <2>3. Alone'
    BY <1>0, <1>2 DEF Inv, Alone, AloneAt, Done, Finished, Unwritten, Loaded, Provisioning
  <2>4. Patient'
    BY <1>0, <1>2 DEF Inv, Patient, Scoring
  <2> QED
    BY <2>1, <2>2, <2>3, <2>4 DEF Inv
<1> QED
  BY <1>1, <1>2 DEF CheckNames

\* From here on the request, if alone, is the only one that uses the provider.
LEMMA SetKeyInv ==
  ASSUME Inv, TypeOK', NEW c \in Conns, SetKey(c)
  PROVE  Inv'
<1> USE DEF history
<1>1. /\ pc[c] = "set_key" /\ pc' = [pc EXCEPT ![c] = "read_model"] /\ pc \in [Conns -> Point]
      /\ key' = req[c].body
      /\ UNCHANGED <<req, idx, session, names, encrypted, aborting, history>>
  BY DEF SetKey, Goto, Inv, TypeOK
<1>2. Kinds'
  BY <1>1 DEF Inv, Kinds, Provisioning, Scoring
<1>3. Pushed'
  BY <1>1 DEF Inv, Pushed
<1>4. Alone'
  BY <1>1 DEF Inv, Alone, AloneAt, Done, Finished, Unwritten, Loaded, Provisioning
<1>5. Patient'
  BY <1>1 DEF Inv, Patient, Scoring
<1> QED
  BY <1>2, <1>3, <1>4, <1>5 DEF Inv

\* Reading and decrypting the model either returns an error or goes on.
LEMMA DecryptInv ==
  ASSUME Inv, TypeOK', NEW c \in Conns, ReadModel(c) \/ Decrypt(c)
  PROVE  Inv'
<1> USE DEF environment, history
<1>0. pc[c] \in {"read_model", "decrypt"} /\ pc \in [Conns -> Point]
  BY DEF ReadModel, Decrypt, Inv, TypeOK
<1>1. CASE \E e \in {"UNKNOWN_ERROR", "CRYPTO_ERROR"} : Return(c, e) /\ UNCHANGED environment
  BY <1>0, <1>1, ErrorStep DEF EnclaveStatus
<1>2. CASE /\ \/ pc[c] = "read_model" /\ encrypted /\ pc' = [pc EXCEPT ![c] = "decrypt"]
              \/ pc[c] = "decrypt" /\ pc' = [pc EXCEPT ![c] = "load"]
           /\ UNCHANGED <<req, answer, idx, environment, aborting, history>>
  <2>1. Kinds'
    BY <1>0, <1>2 DEF Inv, Kinds, Provisioning, Scoring
  <2>2. Pushed'
    BY <1>0, <1>2 DEF Inv, Pushed
  <2>3. Alone'
    BY <1>0, <1>2 DEF Inv, Alone, AloneAt, Done, Finished, Unwritten, Loaded, Provisioning
  <2>4. Patient'
    BY <1>0, <1>2 DEF Inv, Patient, Scoring
  <2> QED
    BY <2>1, <2>2, <2>3, <2>4 DEF Inv
<1> QED
  BY <1>1, <1>2 DEF ReadModel, Decrypt

\* The session is created before the first name is pushed.
LEMMA LoadInv ==
  ASSUME Inv, TypeOK', NEW c \in Conns, Load(c)
  PROVE  Inv'
<1> USE DEF environment, history
<1>0. pc[c] = "load" /\ pc \in [Conns -> Point] /\ idx \in [Conns -> Nat]
  BY DEF Load, Inv, TypeOK
<1>1. CASE Return(c, "UNKNOWN_ERROR") /\ UNCHANGED environment
  BY <1>0, <1>1, ErrorStep DEF EnclaveStatus
<1>2. CASE /\ pc' = [pc EXCEPT ![c] = "push"] /\ idx' = [idx EXCEPT ![c] = 0]
           /\ session' = TRUE
           /\ UNCHANGED <<req, key, names, encrypted, aborting, history>>
  <2>1. Kinds'
    BY <1>0, <1>2 DEF Inv, Kinds, Provisioning, Scoring
  <2>2. Pushed'
    BY <1>0, <1>2 DEF Inv, Pushed
  <2>3. Alone'
    BY <1>0, <1>2, OutputCountAssumption DEF Inv, Alone, AloneAt, Done, Finished, Unwritten, Loaded, Provisioning
  <2>4. Patient'
    BY <1>0, <1>2 DEF Inv, Patient, Scoring
  <2> QED
    BY <2>1, <2>2, <2>3, <2>4 DEF Inv
<1> QED
  BY <1>1, <1>2 DEF Load

\* Names are pushed one by one; when all are, their number is not zero.
LEMMA PushNamesInv ==
  ASSUME Inv, TypeOK', NEW c \in Conns, PushNames(c)
  PROVE  Inv'
<1> USE DEF history
<1>0. /\ pc[c] = "push" /\ pc \in [Conns -> Point] /\ idx \in [Conns -> Nat] /\ names \in Nat
      /\ UNCHANGED <<req, session, key, encrypted, aborting, history>>
  BY DEF PushNames, Inv, TypeOK
<1>1. CASE /\ idx[c] < OutputCount /\ names' = names + 1
           /\ idx' = [idx EXCEPT ![c] = idx[c] + 1] /\ UNCHANGED pc
  <2>1. Kinds'
    BY <1>0, <1>1 DEF Inv, Kinds
  <2>2. Pushed'
    BY <1>0, <1>1 DEF Inv, Pushed
  <2>3. Alone'
    BY <1>0, <1>1, OutputCountAssumption DEF Inv, Alone, AloneAt, Done, Finished, Unwritten, Loaded, Provisioning
  <2>4. Patient'
    BY <1>0, <1>1 DEF Inv, Patient
  <2> QED
    BY <2>1, <2>2, <2>3, <2>4 DEF Inv
<1>2. CASE /\ idx[c] = OutputCount /\ pc' = [pc EXCEPT ![c] = "clear"]
           /\ UNCHANGED <<names, idx>>
  <2>1. Kinds'
    BY <1>0, <1>2 DEF Inv, Kinds, Provisioning, Scoring
  <2>2. Pushed'
    BY <1>0, <1>2, OutputCountAssumption DEF Inv, Pushed
  <2>3. Alone'
    BY <1>0, <1>2 DEF Inv, Alone, AloneAt, Done, Finished, Unwritten, Loaded, Provisioning
  <2>4. Patient'
    BY <1>0, <1>2 DEF Inv, Patient, Scoring
  <2> QED
    BY <2>1, <2>2, <2>3, <2>4 DEF Inv
<1> QED
  BY <1>1, <1>2 DEF PushNames

\* The loop over the names throws: it leaves all as it was before, or names.
LEMMA PushNamesThrowsInv ==
  ASSUME Inv, TypeOK', NEW c \in Conns, PushNamesThrows(c)
  PROVE  Inv'
<1> USE DEF environment
<1>1. /\ pc[c] = "push" /\ pc' = [pc EXCEPT ![c] = "writing"] /\ pc \in [Conns -> Point]
      /\ UNCHANGED <<req, idx, session, key, names, encrypted, aborting, overlapped, early>>
  BY DEF PushNamesThrows, Return, Inv, TypeOK
<1>2. UNCHANGED announced /\ cutShort' = (cutShort \/ names # 0)
  BY DEF PushNamesThrows, Return, Inv, TypeOK
<1>3. "writing" \notin Provisioning /\ "writing" \notin Scoring
  BY DEF Provisioning, Scoring
<1>4. Kinds' /\ Pushed'
  BY <1>1, <1>3 DEF Inv, Kinds, Pushed
<1>5. Alone'
  <2> SUFFICES ASSUME ~overlapped PROVE Alone'
    BY <1>1 DEF Alone
  <2>1. \A a, d \in Conns : a # d /\ pc'[a] \in Provisioning => pc'[d] \notin Provisioning
    BY <1>1, <1>3 DEF Inv, Alone
  <2>2. \A d \in Conns : AloneAt(d)'
    BY <1>1 DEF Inv, Alone, AloneAt
  <2>3. names' = 0 \/ Finished'
    BY <1>1, <1>2 DEF Inv, Alone, AloneAt, Finished, Loaded
  <2>4. ~Done
    BY <1>1 DEF Inv, Alone, Unwritten
  <2>5. ~Done'
    BY <1>1, <1>2, <2>4 DEF Done
  <2> QED
    BY <2>1, <2>2, <2>3, <2>5 DEF Alone
<1>6. Patient'
  BY <1>1, <1>2, <1>3 DEF Inv, Patient, Scoring
<1> QED
  BY <1>4, <1>5, <1>6 DEF Inv

\* The encrypted model goes last.
LEMMA ClearEncryptedInv ==
  ASSUME Inv, TypeOK', NEW c \in Conns, ClearEncrypted(c)
  PROVE  Inv'
<1> USE DEF history
<1>1. /\ pc[c] = "clear" /\ pc' = [pc EXCEPT ![c] = "reply"] /\ pc \in [Conns -> Point]
      /\ encrypted' = FALSE
      /\ UNCHANGED <<req, idx, session, key, names, aborting, history>>
  BY DEF ClearEncrypted, Goto, Inv, TypeOK
<1>2. Kinds'
  BY <1>1 DEF Inv, Kinds, Provisioning, Scoring
<1>3. Pushed'
  BY <1>1 DEF Inv, Pushed
<1>4. Alone'
  <2> SUFFICES ASSUME ~overlapped PROVE Alone'
    BY <1>1 DEF Alone
  <2>1. \A d \in Conns \ {c} : pc[d] \notin Provisioning
    BY <1>1 DEF Inv, Alone, Provisioning
  <2>2. \A a, d \in Conns : a # d /\ pc'[a] \in Provisioning => pc'[d] \notin Provisioning
    BY <1>1, <2>1 DEF Provisioning
  <2>3. \A d \in Conns : AloneAt(d)'
    BY <1>1, <2>1 DEF AloneAt, Provisioning
  <2>4. Unwritten'
    BY <1>1, <2>1 DEF Unwritten, Provisioning
  <2>5. Finished'
    BY <1>1, OutputCountAssumption DEF Inv, Alone, AloneAt, Finished, Loaded
  <2> QED
    BY <2>2, <2>3, <2>4, <2>5 DEF Alone
<1>5. Patient'
  BY <1>1 DEF Inv, Patient, Scoring
<1> QED
  BY <1>2, <1>3, <1>4, <1>5 DEF Inv

-----------------------------------------------------------------------------
(* Scoring and undefined behaviour *)

\* A score request reads the environment and never writes it.
LEMMA ScoreInv ==
  ASSUME Inv, TypeOK', NEW c \in Conns,
         InputsRejected(c) \/ SetInputs(c) \/ CopyNames(c) \/ Run(c) \/ BuildResponse(c)
  PROVE  Inv'
<1> USE DEF environment, history
<1>0. pc[c] \in Scoring /\ pc \in [Conns -> Point] /\ idx \in [Conns -> Nat]
  BY DEF InputsRejected, SetInputs, CopyNames, Run, BuildResponse, Goto, Scoring, Inv, TypeOK
<1>1. CASE \E e \in {"PAYLOAD_PARSE_ERROR", "INFERENCE_ERROR", "OUTPUT_SERIALIZATION_ERROR"} :
             Return(c, e) /\ UNCHANGED environment
  BY <1>0, <1>1, ErrorStep DEF EnclaveStatus, Scoring
<1>2. CASE /\ \E p \in {"copy_names", "run", "build", "reply"} : pc' = [pc EXCEPT ![c] = p]
           /\ \A d \in Conns \ {c} : idx'[d] = idx[d]
           /\ pc[c] = "inputs" /\ req[c].body = "predict" => pc'[c] = "copy_names"
           /\ pc[c] = "copy_names" => idx'[c] = names
           /\ pc[c] # "copy_names" => idx'[c] = idx[c]
           /\ pc'[c] = "run" => pc[c] \in {"inputs", "copy_names"}
           /\ pc'[c] = "build" => pc[c] = "run"
           /\ UNCHANGED <<req, environment, aborting, history>>
  <2>1. Kinds'
    BY <1>0, <1>2 DEF Inv, Kinds, Provisioning, Scoring
  <2>2. Pushed'
    BY <1>0, <1>2 DEF Inv, Pushed
  <2>3. Alone'
    <3> SUFFICES ASSUME ~overlapped PROVE Alone'
      BY <1>2 DEF Alone
    <3>1. \A a, d \in Conns : a # d /\ pc'[a] \in Provisioning => pc'[d] \notin Provisioning
      BY <1>0, <1>2 DEF Inv, Alone, Provisioning
    <3>2. \A d \in Conns : AloneAt(d)'
      BY <1>0, <1>2 DEF Inv, Alone, AloneAt
    <3>3. Unwritten' => names' = 0 \/ Finished'
      BY <1>0, <1>2 DEF Inv, Alone, Finished, Unwritten, Loaded, Scoring
    <3>4. Done' => Finished' /\ Unwritten'
      BY <1>0, <1>2 DEF Inv, Alone, Kinds, Done, Finished, Unwritten, Loaded
    <3> QED
      BY <3>1, <3>2, <3>3, <3>4 DEF Alone
  <2>4. Patient'
    <3> SUFFICES ASSUME ~overlapped, ~early PROVE Patient'
      BY <1>2 DEF Patient
    <3>1. names = OutputCount \/ cutShort
      BY <1>0 DEF Inv, Patient, Alone, Done, Finished, Unwritten, Loaded
    <3> QED
      BY <1>0, <1>2, <3>1 DEF Inv, Patient, Scoring
  <2> QED
    BY <2>1, <2>2, <2>3, <2>4 DEF Inv
<1>3. CASE InputsRejected(c)
  BY <1>1, <1>3 DEF InputsRejected
<1>4. CASE SetInputs(c)
  BY <1>0, <1>2, <1>4 DEF SetInputs
<1>5. CASE CopyNames(c)
  BY <1>0, <1>2, <1>5 DEF CopyNames, Goto
<1>6. CASE Run(c)
  BY <1>0, <1>1, <1>2, <1>6 DEF Run
<1>7. CASE BuildResponse(c)
  BY <1>0, <1>1, <1>2, <1>7 DEF BuildResponse
<1> QED
  BY <1>3, <1>4, <1>5, <1>6, <1>7

\* Without overlap a race needs a score request, and a patient one meets no
\* writer and no null session.
LEMMA NoRace ==
  ASSUME Inv, NEW c \in Conns, Undefined(c), ~overlapped
  PROVE  pc[c] \in Scoring /\ early
<1>1. CASE pc[c] = "run" /\ ~session
  BY <1>1 DEF Inv, Patient, Alone, Done, Finished, Unwritten, Loaded, Scoring
<1>2. CASE \E d \in Conns \ {c} : Races(c, d)
  <2> PICK d \in Conns \ {c} : Races(c, d)
    BY <1>2
  <2>1. pc[d] \in {"push", "set_key", "load"} /\ pc[c] \in Provisioning \cup Scoring
    BY DEF Races, Provisioning, Scoring
  <2>2. pc[c] \notin Provisioning
    BY <2>1 DEF Inv, Alone, Provisioning
  <2>3. pc[c] \in Scoring /\ pc[d] \in {"push", "load"}
    BY <2>1, <2>2 DEF Races, Provisioning
  <2>4. names = 0 \/ ~Unwritten
    BY <2>3 DEF Inv, Alone, AloneAt, Unwritten
  <2> QED
    BY <2>3, <2>4 DEF Inv, Patient, Alone, Done, Finished
<1> QED
  BY <1>1, <1>2 DEF Undefined

\* A fault, or a race that goes unnoticed.
LEMMA UndefinedInv ==
  ASSUME Inv, TypeOK', NEW c \in Conns, Fault(c) \/ RaceLost(c)
  PROVE  Inv'
<1> USE DEF environment, history
<1>0. Undefined(c) /\ pc \in [Conns -> Point] /\ idx \in [Conns -> Nat] /\ names \in Nat
  BY DEF Fault, RaceLost, Undefined, Inv, TypeOK
<1>1. ~overlapped => pc[c] \in Scoring /\ early
  BY <1>0, NoRace
<1>2. ~overlapped => pc[c] \notin {"push", "clear", "decrypt"}
  BY <1>1 DEF Scoring
<1>3. CASE Fault(c)
  <2>1. /\ pc' = [pc EXCEPT ![c] = "writing"]
        /\ UNCHANGED <<req, idx, session, key, names, encrypted, announced, overlapped,
                       cutShort, early>>
    BY <1>3 DEF Fault, ReturnError
  <2>2. "writing" \notin Provisioning /\ "writing" \notin Scoring
    BY DEF Provisioning, Scoring
  <2>3. Kinds' /\ Pushed'
    BY <1>0, <2>1, <2>2 DEF Inv, Kinds, Pushed
  <2>4. Alone'
    BY <1>0, <1>2, <2>1, <2>2 DEF Inv, Alone, AloneAt, Done, Finished, Unwritten, Loaded
  <2>5. Patient'
    BY <1>1, <2>1 DEF Patient
  <2> QED
    BY <2>3, <2>4, <2>5 DEF Inv
<1>4. CASE RaceLost(c)
  <2>1. CASE Return(c, "CRYPTO_ERROR") /\ pc[c] = "decrypt" /\ UNCHANGED environment
    BY <2>1, ErrorStep DEF EnclaveStatus
  <2>2. CASE /\ pc[c] = "push" /\ names # 0
             /\ idx' = [idx EXCEPT ![c] = idx[c] + 1]
             /\ UNCHANGED <<pc, req, answer, environment, aborting, history>>
    <3>1. Kinds' /\ Pushed'
      BY <1>0, <2>2 DEF Inv, Kinds, Pushed
    <3>2. overlapped'
      BY <1>2, <2>2
    <3> QED
      BY <3>1, <3>2 DEF Inv, Alone, Patient
  <2> QED
    BY <1>4, <2>1, <2>2 DEF RaceLost
<1> QED
  BY <1>3, <1>4

-----------------------------------------------------------------------------
(* The theorems *)

\* Every step keeps the invariant.
LEMMA NextInv == Inv /\ [Next]_vars => Inv'
<1> SUFFICES ASSUME Inv, [Next]_vars PROVE Inv'
  OBVIOUS
<1>1. ASSUME NEW c \in Conns, Session(c) PROVE Inv'
  BY <1>1, SessionInv
<1>2. ASSUME NEW c \in Conns, HandleRequest(c) PROVE Inv'
  <2>1. TypeOK'
    BY <1>2, EnclaveType DEF Inv
  <2> QED
    BY <1>2, <2>1, CallInv, BeginProvisionInv, BeginScoreInv, ReplyInv, CheckNamesInv,
       SetKeyInv, DecryptInv, LoadInv, PushNamesInv, PushNamesThrowsInv, ClearEncryptedInv, ScoreInv, UndefinedInv
       DEF HandleRequest, Callback
<1>3. CASE UNCHANGED vars
  <2> USE <1>3 DEF vars, environment, history
  <2>1. TypeOK' /\ Kinds' /\ Pushed'
    BY DEF Inv, TypeOK, Kinds, Pushed
  <2>2. Alone' /\ Patient'
    BY DEF Inv, Alone, AloneAt, Done, Finished, Unwritten, Loaded, Patient
  <2> QED
    BY <2>1, <2>2 DEF Inv
<1> QED
  BY <1>1, <1>2, <1>3 DEF Next

\* The inductive invariant holds throughout.
THEOREM Invariance == Spec => []Inv
  BY InitInv, NextInv, PTL DEF Spec

\* The connections, the session and the enclave's environment keep their
\* types, whatever the interleaving: no output index, key or output count
\* leaves its range even where requests overlap.
THEOREM TypeCorrect == Spec => []TypeOK
<1>1. Inv => TypeOK
  BY DEF Inv
<1> QED
  BY <1>1, Invariance, PTL

\* A failed key, or any race of provisioning requests, never costs the server
\* the encrypted model while nothing is loaded (environment.cc:56-61).
THEOREM ModelNotLostTheorem == Spec => []ModelNotLost
<1>1. Inv => ModelNotLost
  BY DEF Inv, Pushed, ModelNotLost
<1> QED
  BY <1>1, Invariance, PTL

\* Without overlapping provisioning requests and without an exception in the
\* loop over the names, the model a client was told of is loaded, with each
\* output name once, and its ciphertext is gone.
THEOREM AnnouncedIsLoadedTheorem == Spec => []AnnouncedIsLoaded
<1>1. Inv => AnnouncedIsLoaded
  BY DEF Inv, Alone, Done, Finished, Unwritten, Loaded, AnnouncedIsLoaded
<1> QED
  BY <1>1, Invariance, PTL

\* Without overlap a provisioning request decrypts with the key it brought.
THEOREM OwnKeyDecryptsTheorem == Spec => []OwnKeyDecrypts
<1>1. Inv => OwnKeyDecrypts
  BY DEF Inv, Alone, AloneAt, OwnKeyDecrypts
<1> QED
  BY <1>1, Invariance, PTL

\* Clients that provision one after the other and score afterwards never take
\* the enclave into undefined behaviour.
THEOREM FaultsOnlyIfMisusedTheorem == Spec => []FaultsOnlyIfMisused
<1>1. Inv => FaultsOnlyIfMisused
  BY DEF Inv, Patient, FaultsOnlyIfMisused
<1> QED
  BY <1>1, Invariance, PTL

\* Such clients get every output of the model, unless the loop over the names
\* was cut short.
THEOREM AnswersAreCompleteTheorem == Spec => []AnswersAreComplete
<1>1. Inv => AnswersAreComplete
  BY DEF Inv, Patient, AnswersAreComplete
<1> QED
  BY <1>1, Invariance, PTL

\* No request changes a model that was announced, without overlap.
THEOREM LoadedForGoodTheorem == Spec => LoadedForGood
<1>1. Inv /\ [Next]_vars => [announced /\ ~overlapped' => UNCHANGED environment]_vars
  <2> SUFFICES ASSUME Inv, Next, announced, ~overlapped' PROVE UNCHANGED environment
    BY DEF vars
  <2>1. ~overlapped
    <3>1. ASSUME NEW c \in Conns, NEW e \in EnclaveStatus, Return(c, e) PROVE ~overlapped
      BY <3>1 DEF Return
    <3>2. PICK c \in Conns : Session(c) \/ HandleRequest(c)
      BY DEF Next
    <3>3. CASE Session(c)
      BY <3>3 DEF Session, OnAccept, OnReadError, OnRead, OnWrite, OnWriteClose, history
    <3>4. CASE CallFails(c) \/ Call(c) \/ BeginProvision(c) \/ BeginScore(c)
      BY <3>4 DEF CallFails, Call, ReturnError, BeginProvision, BeginScore, history
    <3>5. CASE RespondKey(c) \/ RespondThrows(c) \/ Reply(c)
      BY <3>1, <3>5 DEF RespondKey, RespondThrows, Reply, EnclaveStatus
    <3>6. CASE Callback(c)
      BY <3>1, <3>6
         DEF Callback, CheckNames, SetKey, ReadModel, Decrypt, Load, PushNames, PushNamesThrows, ClearEncrypted,
             InputsRejected, SetInputs, CopyNames, Run, BuildResponse, Fault, RaceLost,
             ReturnError, EnclaveStatus, history
    <3> QED
      BY <3>2, <3>3, <3>4, <3>5, <3>6 DEF HandleRequest
  <2>2. \A c \in Conns : pc[c] \notin {"set_key", "load", "push", "clear"}
    BY <2>1 DEF Inv, Alone, AloneAt, Done, Finished, Unwritten
  <2>3. PICK c \in Conns : Session(c) \/ HandleRequest(c)
    BY DEF Next
  <2>4. CASE Session(c)
    BY <2>4 DEF Session, OnAccept, OnReadError, OnRead, OnWrite, OnWriteClose
  <2>5. CASE HandleRequest(c)
    BY <2>2, <2>5
       DEF HandleRequest, CallFails, Call, RespondKey, RespondThrows, BeginProvision, BeginScore,
           Callback, CheckNames, SetKey, ReadModel, Decrypt, Load, PushNames, PushNamesThrows, ClearEncrypted,
           InputsRejected, SetInputs, CopyNames, Run, BuildResponse, Fault, RaceLost, Reply,
           ReturnError, Goto
  <2> QED
    BY <2>3, <2>4, <2>5
<1> QED
  BY <1>1, Invariance, PTL DEF Spec, LoadedForGood

=============================================================================
