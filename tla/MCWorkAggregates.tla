---------------------------- MODULE MCWorkAggregates ----------------------------
(***************************************************************************)
(* A checkpoint of a failure, one of a success and a routine one; a final  *)
(* call that names a checkpoint, one that describes the work again, and    *)
(* two that report no success; a batch.                                    *)
(***************************************************************************)
EXTENDS WorkAggregates

CONSTANTS c1, f1, b1, t1, t2, p1

Human == [kind |-> "human", succeeded |-> TRUE, humanConfirmed |-> TRUE]
Automated == [kind |-> "automated", succeeded |-> TRUE, humanConfirmed |-> FALSE]

Checkpoint(outcome, root, solution, routine) ==
    [kind |-> "checkpoint_work", op |-> c1, text |-> t1, outcome |-> outcome,
     fingerprint |-> p1, root |-> root, solution |-> solution, humanConfirmed |-> FALSE,
     routine |-> routine]
Final(checkpoint, outcome, root, solution, failedAttempts, verifications) ==
    [kind |-> "finalize_work", op |-> f1, text |-> t1, outcome |-> outcome,
     fingerprint |-> p1, root |-> root, solution |-> solution, checkpoint |-> checkpoint,
     failedAttempts |-> failedAttempts, verifications |-> verifications,
     commit |-> outcome = "succeeded"]

MCInputs ==
    {Checkpoint("failed", t1, NoText, FALSE), Checkpoint("succeeded", t1, t1, FALSE),
     Checkpoint("succeeded", NoText, NoText, TRUE),
     Final(c1, "succeeded", t2, t2, <<>>, <<Automated, Human>>),
     Final(NoOperation, "succeeded", t1, t1, <<t1>>, <<Automated>>),
     Final(c1, "inconclusive", NoText, NoText, <<>>, <<>>),
     Final(NoOperation, "failed", t1, NoText, <<t2>>, <<>>),
     Final(c1, "succeeded", t1, t1, <<>>, <<>>),
     [kind |-> "record_checkpoint", op |-> b1]}
MCOperations == {c1, f1, b1}
MCTexts == {t1, t2}
MCPlainTexts == {t1}
MCFingerprints == {p1}
MCSolutionData == {[exception |-> FALSE, humanRequired |-> FALSE, complete |-> TRUE]}
MCVerificationData == {Automated, Human}
MCQuota ==
    [Problem |-> 2, Attempt |-> 3, RootCause |-> 2, Solution |-> 2, Verification |-> 2,
     Artifact |-> 2, Guardrail |-> 0]
================================================================================
