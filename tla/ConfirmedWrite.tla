---------------------------- MODULE ConfirmedWrite ----------------------------
(***************************************************************************)
(* What the write path promises to a caller that names its write with an   *)
(* operationId: the write takes effect at most once, its effect never      *)
(* changes afterwards, and a caller is told of one effect only, the stored *)
(* one.  Module ReliableWrite implements this promise with retries, a      *)
(* replay cache and a table of operation results.                          *)
(***************************************************************************)
EXTENDS Naturals

CONSTANTS
    Callers,    \* the callers that name their write
    Keys,       \* (project, operationId) pairs
    KeyOf       \* the key each caller uses

VARIABLES
    effect,     \* effect[k]: the node written under k, 0 while there is none
    told        \* told[c]: the node caller c was told of, 0 while it was not

vars == <<effect, told>>

Init ==
    /\ effect = [k \in Keys |-> 0]
    /\ told = [c \in Callers |-> 0]

(* The write of key k takes effect, once. *)
Apply(k) ==
    /\ effect[k] = 0
    /\ effect'[k] \in Nat \ {0}
    /\ effect' = [effect EXCEPT ![k] = effect'[k]]
    /\ UNCHANGED told

(* Caller c learns, once, of the effect its key has. *)
Tell(c) ==
    /\ told[c] = 0
    /\ effect[KeyOf[c]] # 0
    /\ told' = [told EXCEPT ![c] = effect[KeyOf[c]]]
    /\ UNCHANGED effect

Next ==
    \/ \E k \in Keys : Apply(k)
    \/ \E c \in Callers : Tell(c)

Spec == Init /\ [][Next]_vars

================================================================================
