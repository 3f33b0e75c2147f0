------------------------------ MODULE Permits ------------------------------
(***************************************************************************)
(* What a cap on concurrent use promises, whatever keeps it: Limit permits *)
(* that clients take one at a time and give back.  The connection pool of  *)
(* a pod and the host cap of the cluster both implement it.                *)
(***************************************************************************)
EXTENDS Naturals, FiniteSets

CONSTANTS Clients, Limit
VARIABLE held      \* clients with a permit

PInit == held = {}

Grant(c) ==
    /\ c \notin held
    /\ Cardinality(held) < Limit
    /\ held' = held \cup {c}

GiveBack(c) ==
    /\ c \in held
    /\ held' = held \ {c}

PNext == \E c \in Clients : Grant(c) \/ GiveBack(c)

PSpec == PInit /\ [][PNext]_held
=============================================================================
