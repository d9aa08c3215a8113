------------------------------ MODULE PinStore ------------------------------
(***************************************************************************)
(* The PIN files of one slot, step by step: readPassword, loadPasswords    *)
(* and storePin of src/src/storage/slots.cpp.  Runtime takes C_SetPIN and  *)
(* C_InitPIN as one step; here every file operation is a step, may fail,   *)
(* and the process may die between two.  Who may change a PIN is Runtime's *)
(* business: here a change is asked for whenever the library runs.         *)
(***************************************************************************)
EXTENDS Naturals

CONSTANTS
    Pins,      \* PINs that validatePin accepts
    BadPins,   \* and those it refuses: too long, or with a line break
    Rest,      \* what a write that stopped half-way leaves of a PIN
    Unmarked,  \* content -> what readPassword takes of it: not the byte order
               \* mark at its start, not the line end
    NoPin,     \* no PIN, no file
    EnvPin,    \* HSM_SIM_PIN, or NoPin
    Faults,    \* what may go wrong
    MaxFaults  \* bound: how often it goes wrong

Roles == {"USER", "SO"}

\* The first bytes of a PIN are a PIN: readPassword takes them for one.
Loadable == Pins \cup {Rest}
Contents == Loadable \cup BadPins

ASSUME ContentsAssumption ==
    /\ NoPin \notin Contents
    /\ Rest \notin Pins
    /\ BadPins \cap Loadable = {}
    /\ EnvPin \in Pins \cup {NoPin}
ASSUME UnmarkedAssumption ==
    /\ Unmarked \in [Contents -> Contents]
    /\ \A pin \in Pins : Unmarked[pin] \in Pins
    /\ Unmarked[Rest] = Rest
ASSUME FaultsAssumption ==
    /\ Faults \subseteq {"crash", "memory", "write", "rename", "remove"}
    /\ MaxFaults \in Nat

VARIABLES
    files,    \* disk: role -> content of pin.txt, so-pin.txt
    temps,    \* disk: role -> content of the .tmp file beside it
    running,  \* between Initialize and Finalize
    active,   \* memory: slot.userPin, slot.soPin
    call,     \* the call of storePin in progress
    reply,    \* answer to the last one
    faults    \* how often something went wrong

vars == <<files, temps, running, active, call, reply, faults>>
disk == <<files, temps>>

None == [role \in Roles |-> NoPin]
Idle == [role |-> "USER", pin |-> NoPin, step |-> "idle"]

At(step) == call.step = step
GoTo(step) == call' = [call EXCEPT !.step = step]

Fault(kind) ==
    /\ kind \in Faults
    /\ faults < MaxFaults
    /\ faults' = faults + 1

\* Contents that are read as a whole PIN, those of files that somebody wrote
\* with an editor too.
Whole == {c \in Contents : Unmarked[c] \in Pins}

Init ==
    /\ files \in [Roles -> Whole \cup {NoPin}]
    /\ temps = None
    /\ running = FALSE
    /\ active = None
    /\ call = Idle
    /\ reply = "none"
    /\ faults = 0

-----------------------------------------------------------------------------
(* The process.                                                            *)

\* readPassword throws when what it takes of the content is not a PIN.
ReadPassword(content) == IF content = NoPin THEN NoPin ELSE Unmarked[content]
ReadsPasswords ==
    \A role \in Roles : ReadPassword(files[role]) \in Loadable \cup {NoPin}

\* loadPasswords: the file wins over the environment, the .tmp file is not read.
LoadPasswords ==
    [role \in Roles |->
        IF role = "USER" /\ files[role] = NoPin THEN EnvPin
                                               ELSE ReadPassword(files[role])]

Start ==
    /\ ~running
    /\ ReadsPasswords
    /\ running' = TRUE
    /\ active' = LoadPasswords
    /\ UNCHANGED <<disk, call, reply, faults>>

\* Mutant of MemoryLost: Finalize keeps the slots.
SlotsKept ==
    /\ running' = FALSE
    /\ call' = Idle
    /\ reply' = "none"
    /\ UNCHANGED active

MemoryLost ==
    /\ running' = FALSE
    /\ active' = None
    /\ call' = Idle
    /\ reply' = "none"

\* Finalize
Stop ==
    /\ running
    /\ call = Idle
    /\ MemoryLost
    /\ UNCHANGED <<disk, faults>>

Crash ==
    /\ running
    /\ Fault("crash")
    /\ MemoryLost
    /\ UNCHANGED disk

\* Somebody removes the file that a crash left behind; no code does it.
RemoveByHand(role) ==
    /\ ~running
    /\ temps[role] # NoPin
    /\ temps' = [temps EXCEPT ![role] = NoPin]
    /\ UNCHANGED <<files, running, active, call, reply, faults>>

-----------------------------------------------------------------------------
(* storePin                                                                *)

Ask(role, pin) ==
    /\ running
    /\ call = Idle
    /\ call' = [role |-> role, pin |-> pin, step |-> "validating"]
    /\ reply' = "none"
    /\ UNCHANGED <<disk, running, active, faults>>

Answer(code) ==
    /\ call' = Idle
    /\ reply' = code
    /\ UNCHANGED running

\* Mutant of Validate: any content is written.
ValidateNothing ==
    /\ At("validating")
    /\ GoTo("testing")
    /\ UNCHANGED <<disk, running, active, reply, faults>>

Validate ==
    /\ At("validating")
    /\ call.pin \notin BadPins
    /\ GoTo("testing")
    /\ UNCHANGED <<disk, running, active, reply, faults>>

RefusePin ==
    /\ At("validating")
    /\ call.pin \in BadPins
    /\ Answer("PIN_INVALID")
    /\ UNCHANGED <<disk, active, faults>>

\* Copying the PIN, naming the files or looking for them throws.
ThrowEarly ==
    /\ At("testing")
    /\ Fault("memory")
    /\ Answer("THROWN")
    /\ UNCHANGED <<disk, active>>

\* The temporary file of another writer, or of a process that died.
MeetStale ==
    /\ At("testing")
    /\ temps[call.role] # NoPin
    /\ Answer("DEVICE_ERROR")
    /\ UNCHANGED <<disk, active, faults>>

\* Mutant of OpenTemporary: no file is looked for, std::ios::trunc empties it.
OpenAnyway ==
    /\ At("testing")
    /\ temps' = [temps EXCEPT ![call.role] = Rest]
    /\ GoTo("writing")
    /\ UNCHANGED <<files, running, active, reply, faults>>

OpenTemporary ==
    /\ At("testing")
    /\ temps[call.role] = NoPin
    /\ temps' = [temps EXCEPT ![call.role] = Rest]
    /\ GoTo("writing")
    /\ UNCHANGED <<files, running, active, reply, faults>>

OpenFails ==
    /\ At("testing")
    /\ temps[call.role] = NoPin
    /\ Fault("write")
    /\ GoTo("failing")
    /\ UNCHANGED <<disk, running, active, reply>>

Write ==
    /\ At("writing")
    /\ temps' = [temps EXCEPT ![call.role] = call.pin]
    /\ GoTo("written")
    /\ UNCHANGED <<files, running, active, reply, faults>>

\* The stream is bad after close.
WriteFails ==
    /\ At("writing")
    /\ Fault("write")
    /\ GoTo("failing")
    /\ UNCHANGED <<disk, running, active, reply>>

Rename ==
    /\ At("written")
    /\ files' = [files EXCEPT ![call.role] = temps[call.role]]
    /\ temps' = [temps EXCEPT ![call.role] = NoPin]
    /\ GoTo("renamed")
    /\ UNCHANGED <<running, active, reply, faults>>

RenameFails ==
    /\ At("written")
    /\ Fault("rename")
    /\ GoTo("failing")
    /\ UNCHANGED <<disk, running, active, reply>>

\* Mutant of CleanUp: the temporary file stays.
CleanNothing ==
    /\ At("failing")
    /\ Answer("DEVICE_ERROR")
    /\ UNCHANGED <<disk, active, faults>>

\* The catch clause; fs::remove reports to an error code that nobody reads.
CleanUp ==
    /\ At("failing")
    /\ temps' = [temps EXCEPT ![call.role] = NoPin]
    /\ Answer("DEVICE_ERROR")
    /\ UNCHANGED <<files, active, faults>>

CleanUpFails ==
    /\ At("failing")
    /\ Fault("remove")
    /\ Answer("DEVICE_ERROR")
    /\ UNCHANGED <<disk, active>>

\* Mutant of Assign: the memory of the other role.
AssignUser ==
    /\ At("renamed")
    /\ active' = [active EXCEPT !["USER"] = call.pin]
    /\ Answer("OK")
    /\ UNCHANGED <<disk, faults>>

Assign ==
    /\ At("renamed")
    /\ active' = [active EXCEPT ![call.role] = call.pin]
    /\ Answer("OK")
    /\ UNCHANGED <<disk, faults>>

StorePinStep ==
    \/ Validate
    \/ RefusePin
    \/ ThrowEarly
    \/ MeetStale
    \/ OpenTemporary
    \/ OpenFails
    \/ Write
    \/ WriteFails
    \/ Rename
    \/ RenameFails
    \/ CleanUp
    \/ CleanUpFails
    \/ Assign

Next ==
    \/ Start
    \/ Stop
    \/ Crash
    \/ \E role \in Roles : RemoveByHand(role)
    \/ \E role \in Roles, pin \in Pins \cup BadPins : Ask(role, pin)
    \/ StorePinStep

Spec == Init /\ [][Next]_vars

-----------------------------------------------------------------------------
Steps == {"validating", "testing", "writing", "written", "renamed", "failing"}

\* Every variable has its type, and a PIN in memory exists in the process only.
PinTypeOK ==
    /\ files \in [Roles -> Contents \cup {NoPin}]
    /\ temps \in [Roles -> Contents \cup {NoPin}]
    /\ running \in BOOLEAN
    /\ active \in [Roles -> Pins \cup {NoPin}]
    /\ call = Idle \/ call \in [role : Roles, pin : Pins \cup BadPins, step : Steps]
    /\ reply \in {"none", "OK", "PIN_INVALID", "DEVICE_ERROR", "THROWN"}
    /\ faults \in 0..MaxFaults
    /\ ~running => active = None /\ call = Idle

\* Whatever fails and whenever the process dies, a PIN file is absent or holds a
\* whole PIN that readPassword accepts: a file cut short would be read as another
\* PIN, and a PIN with a line break would make every later C_Initialize fail.
PinFilesWhole == \A role \in Roles : files[role] \in Whole \cup {NoPin}

\* The places of a call that has made a temporary file.
Owning == {"writing", "written", "renamed", "failing"}

\* The file that blocks every later change of a PIN is never left by a write or
\* a rename that failed: it takes a crash, or a clean-up that fails as well.
LeftByFaultOnly ==
    [][call.step \in Owning /\ call' = Idle
           => temps'[call.role] = NoPin \/ faults' > faults]_vars

\* A call never touches a temporary file that it did not make, and so never
\* gives a PIN file a content that another writer has not finished.
StaleKept ==
    [][\A role \in Roles :
           /\ temps[role] # NoPin
           /\ ~(call.role = role /\ call.step \in Owning)
           => /\ temps'[role] = temps[role] \/ RemoveByHand(role)
              /\ files'[role] = files[role]]_vars

\* C_SetPIN and C_InitPIN take effect at one instant, for the logins of this
\* process and for the file that the next start reads without its mark; a change
\* that fails keeps the active PIN and the file, and a PIN of the other role is
\* never touched.
Registry == INSTANCE PinRegistry WITH
    stored <- files,
    active <- IF At("renamed") THEN [active EXCEPT ![call.role] = call.pin]
                               ELSE active,
    asked <- [role |-> call.role, pin |-> call.pin],
    done <- At("renamed")

ChangesAreAtomic == Registry!Spec
=============================================================================
