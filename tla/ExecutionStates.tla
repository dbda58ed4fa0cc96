---------------------------- MODULE ExecutionStates ----------------------------
(***************************************************************************)
(* The published path of one execution (models/execution.py) and the       *)
(* failure code its refusal is reported under (outcomes.py).               *)
(***************************************************************************)
EXTENDS ExecutionModes, Sequences

CONSTANT MaxPath

VARIABLES path,       \* the execution states so far
          failure     \* the FailureCode a refusal was reported under

statesVars == <<path, failure>>

(***************************************************************************)
(* The execution-state path.                                               *)
(***************************************************************************)

TerminalExecutionStates == {"confirmed", "refused", "failed", "replay_refused", "expired", "revoked"}

ExecutionTransitionsRefusable(s) ==
    CASE s = "received"            -> {"policy_allowed", "refused", "expired", "revoked"}
      [] s = "policy_allowed"      -> {"proof_minted", "refused", "expired", "revoked"}
      [] s = "proof_minted"        -> {"escrow_issued", "refused", "expired", "revoked"}
      [] s = "escrow_issued"       -> {"execution_attempted", "replay_refused", "refused", "expired", "revoked"}
      [] s = "execution_attempted" -> {"provider_pending", "confirmed", "failed", "ambiguous", "replay_refused"}
      [] s = "provider_pending"    -> {"confirmed", "failed", "ambiguous", "expired", "revoked"}
      [] s = "ambiguous"           -> {"confirmed", "failed"}
      [] OTHER                     -> {}

ExecutionTransitions(s) ==
    CASE s = "received"            -> {"policy_allowed", "refused", "expired", "revoked"}
      [] s = "policy_allowed"      -> {"proof_minted", "refused", "expired", "revoked"}
      [] s = "proof_minted"        -> {"escrow_issued", "refused", "expired", "revoked"}
      [] s = "escrow_issued"       -> {"execution_attempted", "replay_refused", "refused", "expired", "revoked"}
      [] s = "execution_attempted" -> {"provider_pending", "confirmed", "failed", "ambiguous"}
      [] s = "provider_pending"    -> {"confirmed", "failed", "ambiguous", "expired", "revoked"}
      [] s = "ambiguous"           -> {"confirmed", "failed"}
      [] OTHER                     -> {}

(* validate_execution_state_path.                                          *)
ValidPath(states) ==
    /\ states # <<>> /\ states[1] = "received"
    /\ \A n \in 1..(Len(states) - 1) :
           states[n] \notin TerminalExecutionStates /\ states[n + 1] \in ExecutionTransitions(states[n])

(***************************************************************************)
(* Failure codes.                                                          *)
(***************************************************************************)

FailureCodes == {"NOT_ACTIVE", "REVOKED", "EXPIRED", "SCOPE_DENIED", "OUT_OF_SCOPE", "BUDGET_EXCEEDED",
                 "RATE_LIMITED", "ENGINE_ERROR", "PCCB_REQUIRED", "SIGNATURE_INVALID", "ACTION_MISMATCH",
                 "PCCB_EXPIRED", "DUPLICATE_REPLAY", "AUDIENCE_MISMATCH"}

(* _REFUSAL_CODE_MAP, by the member it maps to.                            *)
RefusalCodeMap ==
    [SIGNATURE_INVALID |-> {"PROOF_INVALID", "PROOF_PAYLOAD_INVALID", "ISSUER_UNTRUSTED", "MALFORMED_REQUEST",
                            "UNSUPPORTED_PROTOCOL_VERSION", "CANONICALISATION_FAILURE"},
     ACTION_MISMATCH   |-> {"INTENT_MISMATCH", "TARGET_MISMATCH", "ACTION_HASH_MISMATCH", "ACTION_HASH_ALGORITHM_INVALID",
                            "ACTION_HASH_INVALID", "SCOPE_MODE_INVALID", "SCOPE_CAPABILITY_MISMATCH", "TENANT_MISMATCH",
                            "SUBJECT_MISMATCH", "PARAMETER_MISMATCH"},
     PCCB_EXPIRED      |-> {"PROOF_EXPIRED", "PROOF_NOT_YET_VALID"},
     PCCB_REQUIRED     |-> {"PROOF_MISSING"},
     DUPLICATE_REPLAY  |-> {"REPLAY_DETECTED"},
     REVOKED           |-> {"AUTHORITY_REVOKED"},
     NOT_ACTIVE        |-> {"POLICY_REFUSAL"},
     ENGINE_ERROR      |-> {"OUTCOME_UNKNOWN", "CREDENTIAL_UNAVAILABLE", "PROVIDER_REFUSAL", "PROVIDER_FAILURE"}]

RefusalCodes == FailureCodes \cup UNION {RefusalCodeMap[f] : f \in DOMAIN RefusalCodeMap}

(* refusal_code_to_failure_code: the member itself, then the map; the      *)
(* alias lookup behind them is reached by no code of these tables.         *)
FailureCodeOf(code) ==
    IF code \in FailureCodes THEN code
    ELSE CHOOSE f \in DOMAIN RefusalCodeMap : code \in RefusalCodeMap[f]

(***************************************************************************)
(* The execution.                                                          *)
(***************************************************************************)

StatesInit == path = <<"received">> /\ failure = "none"

(* The attempt's path is extended if the longer path validates; a refusal  *)
(* is reported under its failure code.                                     *)
Extend(s, code) ==
    /\ Len(path) < MaxPath /\ ValidPath(Append(path, s))
    /\ path' = Append(path, s)
    /\ failure' = IF s \in {"refused", "replay_refused"} THEN FailureCodeOf(code) ELSE failure

StatesNext == \E s \in TerminalExecutionStates \cup {"policy_allowed", "proof_minted", "escrow_issued", "execution_attempted",
                                                        "provider_pending", "ambiguous"}, code \in RefusalCodes :
                     /\ s \notin {"refused", "replay_refused"} => code = "OUTCOME_UNKNOWN"
                     /\ s = "replay_refused" => FailureCodeOf(code) = "DUPLICATE_REPLAY"
                     /\ Extend(s, code)

StatesSpec == StatesInit /\ [][StatesNext]_statesVars

(***************************************************************************)
(* Properties.                                                             *)
(***************************************************************************)

(* Once the execution was attempted, no continuation of the path ends as a *)
(* refusal: what may have had an effect is confirmed, failed, ambiguous or *)
(* cut off, never reported refused.                                        *)
AttemptedNeverRefused ==
    (\E n \in DOMAIN path : path[n] = "execution_attempted") =>
        path[Len(path)] \notin {"refused", "replay_refused"} /\ failure = "none"

(* An attempt reported succeeded is vouched for by the broker's provider   *)
(* or by a receipt the resource signed, whatever is lost, altered, late or *)
(* rotated (mode_aware.py); and a path on which the execution was          *)
(* attempted never ends as refused (the transition table of the execution  *)
(* states).                                                                *)
OutcomeIsVouched == SucceededIsVouched /\ AttemptedNeverRefused
=============================================================================
