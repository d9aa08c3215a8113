---------------------------- MODULE KeyRegistry ----------------------------
(***************************************************************************)
(* What the storage of a token key promises, for one file name: the key    *)
(* that the next start will load under this name, and the key that the     *)
(* client was told it has.                                                 *)
(*                                                                         *)
(* A call takes effect at once or not at all, with one exception that      *)
(* src/README.md admits (key and metadata are not one transaction): a      *)
(* creation that did not succeed may leave something behind.               *)
(***************************************************************************)
CONSTANTS Keys, Policies, Default, NoKey

\* A "short" key is what is left of an AES key whose file was cut.
Stored == [key : Keys, form : {"whole", "short"},
           policy : Policies \cup {Default}]

VARIABLES
    stored,  \* what the next start loads
    told     \* what the client may rely on

vars == <<stored, told>>

Init == stored = NoKey /\ told = NoKey

Create(k, p) ==
    /\ stored = NoKey
    /\ stored' = [key |-> k, form |-> "whole", policy |-> p]
    /\ told' = stored'

Update(p) ==
    /\ stored # NoKey
    /\ stored' = [stored EXCEPT !.policy = p]
    /\ told' = stored'

\* Once the key is gone the client was told so, or will find out.
Destroy ==
    /\ stored # NoKey
    /\ stored' = NoKey
    /\ told' = NoKey

LeaveBehind ==
    /\ stored = NoKey
    /\ told = NoKey
    /\ stored' \in Stored
    /\ UNCHANGED told

Next ==
    \/ \E k \in Keys, p \in Policies : Create(k, p)
    \/ \E p \in Policies : Update(p)
    \/ Destroy
    \/ LeaveBehind

Spec == Init /\ [][Next]_vars
=============================================================================
