---------------------------- MODULE MCReliableWrite ----------------------------
(***************************************************************************)
(* a1 and a2 name their writes with one operationId but want different     *)
(* kinds of write; a3 names none, and its first request id is one a1 also  *)
(* uses, as a client that supplies its own ids could.                      *)
(***************************************************************************)
EXTENDS ReliableWrite, TLC

CONSTANTS a1, a2, a3, k1

MCKeyOf == [a \in Agents |-> IF a = a3 THEN NoKey ELSE k1]
MCKindOf == [a \in Agents |-> IF a = a2 THEN "closeCase" ELSE "recordAttempt"]
MCRequestIdOf == [a \in Agents |->
    CASE a = a1 -> <<"r1", "r2">> [] a = a2 -> <<"r3", "r4">> [] OTHER -> <<"r1", "r5">>]
MCSymmetry == Permutations(Processes)

================================================================================
