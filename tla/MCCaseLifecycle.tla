---------------------------- MODULE MCCaseLifecycle ----------------------------
(***************************************************************************)
(* One problem fingerprint; Solutions that need an automated check and     *)
(* Solutions that state why there is none.                                 *)
(***************************************************************************)
EXTENDS CaseLifecycle

CONSTANTS Problems, Attempts, RootCauses, Solutions, Verifications, Others

MCSolutionData ==
    {[exception |-> x, humanRequired |-> ~x, complete |-> TRUE] : x \in BOOLEAN}
MCVerificationData ==
    {[kind |-> "automated", succeeded |-> TRUE, humanConfirmed |-> FALSE],
     [kind |-> "human", succeeded |-> TRUE, humanConfirmed |-> TRUE]}
MCQuota ==
    [type \in NodeTypes |->
        CASE type = "Problem" -> Problems [] type = "Attempt" -> Attempts
          [] type = "RootCause" -> RootCauses [] type = "Solution" -> Solutions
          [] type = "Verification" -> Verifications [] OTHER -> Others]

================================================================================
