--------------------------- MODULE AtomicReplace ---------------------------
(***************************************************************************)
(* What a reader of the destinations sees of the transfers: between the    *)
(* begin and the end of its job a sender puts its whole stream at its      *)
(* place in one step, or nothing.  A shared place, at which senders can    *)
(* get into each other's way, may be spoilt until one delivers alone.      *)
(***************************************************************************)
CONSTANTS Senders, Places, Shared, None, Spoilt

VARIABLES
    shown,     \* what is at a place: nothing, a sender's stream, or spoilt
    target     \* the place of a sender's job

avars == <<shown, target>>

AInit ==
    /\ shown = [p \in Places |-> None]
    /\ target = [s \in Senders |-> None]

Begin(s, p) ==
    /\ target[s] = None
    /\ target' = [target EXCEPT ![s] = p]
    /\ UNCHANGED shown

\* The stream that ended, as long as the source announced or shorter.
Deliver(s, r) ==
    /\ target[s] # None
    /\ UNCHANGED target
    /\ shown' = [shown EXCEPT ![target[s]] = <<r, s>>]

End(s) ==
    /\ target[s] # None
    /\ target' = [target EXCEPT ![s] = None]
    /\ UNCHANGED shown

Spoil(s) ==
    /\ target[s] \in Shared
    /\ UNCHANGED target
    /\ shown' = [shown EXCEPT ![target[s]] = Spoilt]

ANext ==
    \E s \in Senders :
        \/ \E p \in Places : Begin(s, p)
        \/ \E r \in {"full", "short"} : Deliver(s, r)
        \/ End(s) \/ Spoil(s)

ASpec == AInit /\ [][ANext]_avars
=============================================================================
