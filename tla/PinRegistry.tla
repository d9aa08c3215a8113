---------------------------- MODULE PinRegistry ----------------------------
(***************************************************************************)
(* What a change of PIN promises: it takes effect at one instant, for the  *)
(* logins of this process and for the file of its next start alike, before *)
(* the client is told that it succeeded; a change that is refused has no   *)
(* effect.  A process that dies in a call leaves the old PIN or the new    *)
(* one.  What is promised is the file: the next start takes a byte order   *)
(* mark off, and its logins are compared to what is left of such a PIN.    *)
(***************************************************************************)
CONSTANTS
    Pins,     \* PINs that validatePin accepts
    BadPins,  \* and those it refuses
    Unmarked, \* content of a file -> what a start takes of it
    NoPin,    \* no PIN
    EnvPin    \* USER PIN of a slot without a file, or NoPin

Roles == {"USER", "SO"}
NoCall == [role |-> "USER", pin |-> NoPin]

VARIABLES
    stored,   \* role -> content of the file that the next start reads
    running,  \* between Initialize and Finalize
    active,   \* role -> PIN that a login is compared to
    asked,    \* the change in progress
    done,     \* it took effect
    reply     \* answer to the last change

vars == <<stored, running, active, asked, done, reply>>

None == [role \in Roles |-> NoPin]
Whole == {c \in DOMAIN Unmarked : Unmarked[c] \in Pins}

\* Only the USER PIN has a value of its own where there is no file.
Loaded(role) ==
    IF stored[role] # NoPin THEN Unmarked[stored[role]]
    ELSE IF role = "USER" THEN EnvPin ELSE NoPin

Init ==
    /\ stored \in [Roles -> Whole \cup {NoPin}]
    /\ running = FALSE
    /\ active = None
    /\ asked = NoCall
    /\ done = FALSE
    /\ reply = "none"

Start ==
    /\ ~running
    /\ running' = TRUE
    /\ active' = [role \in Roles |-> Loaded(role)]
    /\ UNCHANGED <<stored, asked, done, reply>>

Stop ==
    /\ running
    /\ running' = FALSE
    /\ active' = None
    /\ asked' = NoCall
    /\ done' = FALSE
    /\ reply' = "none"
    /\ UNCHANGED stored

Ask(role, pin) ==
    /\ running
    /\ asked = NoCall
    /\ asked' = [role |-> role, pin |-> pin]
    /\ reply' = "none"
    /\ UNCHANGED <<stored, running, active, done>>

TakeEffect ==
    /\ asked # NoCall
    /\ ~done
    /\ asked.pin \in Pins
    /\ stored' = [stored EXCEPT ![asked.role] = asked.pin]
    /\ active' = [active EXCEPT ![asked.role] = asked.pin]
    /\ done' = TRUE
    /\ UNCHANGED <<running, asked, reply>>

Answer ==
    /\ asked # NoCall
    /\ reply' \in IF done THEN {"OK"} ELSE {"PIN_INVALID", "DEVICE_ERROR", "THROWN"}
    /\ asked' = NoCall
    /\ done' = FALSE
    /\ UNCHANGED <<stored, running, active>>

Next ==
    \/ Start
    \/ Stop
    \/ \E role \in Roles, pin \in Pins \cup BadPins : Ask(role, pin)
    \/ TakeEffect
    \/ Answer

Spec == Init /\ [][Next]_vars
=============================================================================
