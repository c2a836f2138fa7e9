----------------------------- MODULE MCStartup -----------------------------
(* An instance of Startup for TLC. *)
EXTENDS Startup

All(S, value) == [o \in S |-> value]

\* Every combination of the options that decide about keys, the credentials
\* together; and, one at a time, each other option and what rejects it.
MCCommandLines ==
  {All(S \cup {"model-path"} \cup (IF "akv-app-id" \in S THEN {"akv-app-pwd"} ELSE {}), TRUE) :
     S \in SUBSET {"use-akv", "akv-app-id", "akv-vault-url", "akv-model-key-name",
                   "akv-attestation-url", "use-model-key-provisioning"}}
  \cup {All({o}, value) : o \in {"help", "model-path"}, value \in BOOLEAN}
  \cup {[x \in {o, "model-path"} |-> x = "model-path" \/ value] :
          o \in {"log-level", "num-http-threads", "enclave-path"}, value \in BOOLEAN}

\* Variables that say the same as, or the opposite of, the command line.
MCEnvironments ==
  {All({}, TRUE), All({"akv-vault-url"}, TRUE), All({"akv-vault-url"}, FALSE),
   All({"use-akv"}, FALSE), All({"akv-service-key-name"}, FALSE)}
=============================================================================
