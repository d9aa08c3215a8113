--------------------------- MODULE PinStoreProofs ---------------------------
(***************************************************************************)
(* Theorems about PinStore, for any set of PINs and any faults: the files  *)
(* of PINs are whole, the temporary file of another writer is respected,   *)
(* and a change of PIN is atomic.  The invariant adds to the type what a   *)
(* call in progress has achieved: the PIN it writes was validated, and the *)
(* file it is about to rename holds that PIN.                              *)
(***************************************************************************)
EXTENDS PinStore, TLAPS

Written ==
    /\ call # Idle => running
    /\ call.step \in Steps \ {"validating"} => call.pin \in Pins
    /\ call.step = "written" => temps[call.role] = call.pin
    /\ call.step = "renamed" =>
           temps[call.role] = NoPin /\ files[call.role] = call.pin

Inv ==
    /\ PinTypeOK
    /\ PinFilesWhole
    /\ Written

LEMMA NoneTyped ==
    /\ None \in [Roles -> Contents \cup {NoPin}]
    /\ None \in [Roles -> Pins \cup {NoPin}]
BY DEF None

\* A PIN that validatePin accepts is read as a PIN, its mark taken off.
LEMMA PinsWhole == Pins \subseteq Whole
BY UnmarkedAssumption DEF Whole, Contents, Loadable

\* What readPassword accepts is a PIN, and so is what a start loads.
LEMMA LoadTyped ==
    ASSUME files \in [Roles -> Contents \cup {NoPin}], PinFilesWhole
    PROVE  /\ ReadsPasswords
           /\ LoadPasswords \in [Roles -> Pins \cup {NoPin}]
<1>1. \A role \in Roles : ReadPassword(files[role]) \in Pins \cup {NoPin}
  BY DEF PinFilesWhole, Whole, ReadPassword
<1>2. ReadsPasswords
  BY <1>1 DEF ReadsPasswords, Loadable
<1>3. EnvPin \in Pins \cup {NoPin}
  BY ContentsAssumption
<1> QED BY <1>1, <1>2, <1>3 DEF LoadPasswords

LEMMA InitInv == Init => Inv
<1> SUFFICES ASSUME Init PROVE Inv
  OBVIOUS
<1> USE ContentsAssumption, FaultsAssumption
    DEF Init, Idle, Steps
<1>1. PinTypeOK
  <2>1. files \in [Roles -> Contents \cup {NoPin}]
    BY DEF Whole
  <2>2. /\ None \in [Roles -> Contents \cup {NoPin}]
        /\ None \in [Roles -> Pins \cup {NoPin}]
    BY NoneTyped
  <2>3. 0 \in 0..MaxFaults
    OBVIOUS
  <2> QED BY <2>1, <2>2, <2>3 DEF PinTypeOK
<1>2. PinFilesWhole
  BY DEF PinFilesWhole
<1>3. Written
  BY DEF Written
<1> QED BY <1>1, <1>2, <1>3 DEF Inv

\* The disk stays: what is left to check is the memory.
LEMMA ProcessInv ==
    ASSUME Inv,
           \/ Start \/ Stop \/ Crash \/ (\E role \in Roles : RemoveByHand(role))
           \/ \E role \in Roles, pin \in Pins \cup BadPins : Ask(role, pin)
    PROVE  Inv'
<1> USE ContentsAssumption, FaultsAssumption
    DEF Inv, Roles, Idle, Contents, Loadable, Steps, disk
<1>1. CASE Start
  <2>1. active' \in [Roles -> Pins \cup {NoPin}]
    BY <1>1, LoadTyped DEF Start, PinTypeOK
  <2> QED BY <1>1, <2>1 DEF Start, PinTypeOK, PinFilesWhole, Written
<1>2. CASE Stop
  <2>1. active' = None /\ None \in [Roles -> Pins \cup {NoPin}]
    BY <1>2, NoneTyped DEF Stop, MemoryLost
  <2> HIDE DEF Contents, Loadable, Roles
  <2> QED BY <1>2, <2>1
             DEF Stop, MemoryLost, PinTypeOK, PinFilesWhole, Written
<1>3. CASE Crash
  <2>1. faults' \in 0..MaxFaults
    BY <1>3 DEF Crash, Fault, PinTypeOK
  <2>2. active' = None /\ None \in [Roles -> Pins \cup {NoPin}]
    BY <1>3, NoneTyped DEF Crash, MemoryLost
  <2> HIDE DEF Contents, Loadable, Roles
  <2> QED BY <1>3, <2>1, <2>2
             DEF Crash, MemoryLost, PinTypeOK, PinFilesWhole, Written
<1>4. ASSUME NEW role \in Roles, RemoveByHand(role) PROVE Inv'
  BY <1>4 DEF RemoveByHand, PinTypeOK, PinFilesWhole, Written
<1>5. ASSUME NEW role \in Roles, NEW pin \in Pins \cup BadPins, Ask(role, pin)
      PROVE Inv'
  BY <1>5 DEF Ask, PinTypeOK, PinFilesWhole, Written
<1> QED BY <1>1, <1>2, <1>3, <1>4, <1>5

LEMMA StorePinInv ==
    ASSUME Inv, StorePinStep
    PROVE  Inv'
<1> USE ContentsAssumption, FaultsAssumption
    DEF Inv, Roles, Idle, Contents, Loadable, Steps, disk, At, GoTo, Answer,
        Fault
<1>1. CASE Validate
  BY <1>1 DEF Validate, PinTypeOK, PinFilesWhole, Written
<1>2. CASE RefusePin \/ ThrowEarly \/ MeetStale \/ CleanUpFails
  BY <1>2 DEF RefusePin, ThrowEarly, MeetStale, CleanUpFails, PinTypeOK,
              PinFilesWhole, Written
<1>3. CASE OpenTemporary
  BY <1>3 DEF OpenTemporary, PinTypeOK, PinFilesWhole, Written
<1>4. CASE OpenFails \/ WriteFails \/ RenameFails
  BY <1>4 DEF OpenFails, WriteFails, RenameFails, PinTypeOK, PinFilesWhole,
              Written
<1>5. CASE Write
  BY <1>5 DEF Write, PinTypeOK, PinFilesWhole, Written
<1>6. CASE Rename
  BY <1>6, PinsWhole DEF Rename, PinTypeOK, PinFilesWhole, Written
<1>7. CASE CleanUp
  BY <1>7 DEF CleanUp, PinTypeOK, PinFilesWhole, Written
<1>8. CASE Assign
  BY <1>8 DEF Assign, PinTypeOK, PinFilesWhole, Written
<1> QED
  BY <1>1, <1>2, <1>3, <1>4, <1>5, <1>6, <1>7, <1>8 DEF StorePinStep

LEMMA NextInv == Inv /\ [Next]_vars => Inv'
<1>1. ASSUME Inv, UNCHANGED vars PROVE Inv'
  BY <1>1 DEF Inv, vars, PinTypeOK, PinFilesWhole, Written
<1> QED BY <1>1, ProcessInv, StorePinInv DEF Next

-----------------------------------------------------------------------------
\* The inductive invariant holds of every reachable state.
THEOREM PinInductive == Spec => []Inv
BY InitInv, NextInv, PTL DEF Spec

\* Every variable keeps its type, and no PIN is in memory outside
\* C_Initialize .. C_Finalize.
THEOREM PinTypeCorrect == Spec => []PinTypeOK
<1>1. Inv => PinTypeOK
  BY DEF Inv
<1> QED BY <1>1, PinInductive, PTL

\* Neither a failure nor the death of the process at any point of storePin
\* leaves a PIN file that is cut short or that loadPasswords refuses.
THEOREM PinFilesCorrect == Spec => []PinFilesWhole
<1>1. Inv => PinFilesWhole
  BY DEF Inv
<1> QED BY <1>1, PinInductive, PTL

\* A write or a rename that fails leaves no temporary file behind.
THEOREM LeftCorrect == Spec => LeftByFaultOnly
<1>1. Inv /\ [Next]_vars
      => [call.step \in Owning /\ call' = Idle
              => temps'[call.role] = NoPin \/ faults' > faults]_vars
  <2> SUFFICES ASSUME Inv, Next, call.step \in Owning, call' = Idle
               PROVE  temps'[call.role] = NoPin \/ faults' > faults
    OBVIOUS
  <2> USE DEF Owning, At, GoTo, Idle
  <2>1. faults \in Nat /\ call.role \in Roles /\ DOMAIN temps = Roles
    BY FaultsAssumption DEF Inv, PinTypeOK, Roles
  <2>2. call # Idle
    OBVIOUS
  <2>3. ~Start /\ ~(\E role \in Roles : RemoveByHand(role)) /\ ~Stop
    BY <2>2 DEF Start, RemoveByHand, Stop, Inv, Written
  <2>4. CASE Crash
    BY <2>1, <2>4 DEF Crash, Fault
  <2>5. CASE \E role \in Roles, pin \in Pins \cup BadPins : Ask(role, pin)
    BY <2>2, <2>5 DEF Ask
  <2>6. CASE StorePinStep
    <3>1. CASE CleanUp
      BY <2>1, <3>1 DEF CleanUp
    <3>2. CASE CleanUpFails
      BY <2>1, <3>2 DEF CleanUpFails, Fault
    <3>3. CASE Assign
      <4>1. temps' = temps /\ temps[call.role] = NoPin
        BY <3>3 DEF Assign, disk, Inv, Written
      <4> QED BY <4>1
    <3> QED
      BY <2>6, <3>1, <3>2, <3>3 DEF StorePinStep, Validate, RefusePin,
         ThrowEarly, MeetStale, OpenTemporary, OpenFails, Write, WriteFails,
         Rename, RenameFails
  <2> QED BY <2>3, <2>4, <2>5, <2>6 DEF Next
<1> QED BY <1>1, PinInductive, PTL DEF Spec, LeftByFaultOnly

\* A call neither changes nor adopts a temporary file that it did not make.
THEOREM StaleCorrect == Spec => StaleKept
<1>1. ASSUME Inv, [Next]_vars, NEW role \in Roles, temps[role] # NoPin,
             ~(call.role = role /\ call.step \in Owning), ~RemoveByHand(role)
      PROVE  temps'[role] = temps[role] /\ files'[role] = files[role]
  <2> USE DEF Owning, At
  <2>1. CASE disk' = disk
    BY <2>1 DEF disk
  <2>2. /\ temps \in [Roles -> Contents \cup {NoPin}]
        /\ files \in [Roles -> Contents \cup {NoPin}]
    BY <1>1 DEF Inv, PinTypeOK
  <2>3. ASSUME NEW other \in Roles, RemoveByHand(other)
        PROVE  temps'[role] = temps[role] /\ files'[role] = files[role]
    BY <1>1, <2>2, <2>3 DEF RemoveByHand
  <2>4. CASE OpenTemporary
    BY <1>1, <2>2, <2>4 DEF OpenTemporary
  <2>5. CASE Write \/ CleanUp
    BY <1>1, <2>2, <2>5 DEF Write, CleanUp
  <2>6. CASE Rename
    BY <1>1, <2>2, <2>6 DEF Rename
  <2>7. CASE UNCHANGED vars
    BY <2>1, <2>7 DEF vars, disk
  <2>8. CASE Start \/ Stop \/ Crash
             \/ \E r \in Roles, pin \in Pins \cup BadPins : Ask(r, pin)
    BY <2>1, <2>8 DEF Start, Stop, Crash, Ask
  <2>9. CASE Validate \/ RefusePin \/ ThrowEarly \/ MeetStale \/ OpenFails
             \/ WriteFails \/ RenameFails \/ CleanUpFails \/ Assign
    BY <2>1, <2>9 DEF Validate, RefusePin, ThrowEarly, MeetStale, OpenFails,
                      WriteFails, RenameFails, CleanUpFails, Assign
  <2> QED BY <1>1, <2>3, <2>4, <2>5, <2>6, <2>7, <2>8, <2>9
             DEF Next, StorePinStep
<1>2. Inv /\ [Next]_vars
      => [\A role \in Roles :
              /\ temps[role] # NoPin
              /\ ~(call.role = role /\ call.step \in Owning)
              => /\ temps'[role] = temps[role] \/ RemoveByHand(role)
                 /\ files'[role] = files[role]]_vars
  <2>1. ASSUME NEW role \in Roles, RemoveByHand(role)
        PROVE  files'[role] = files[role]
    BY <2>1 DEF RemoveByHand
  <2> QED BY <1>1, <2>1
<1> QED BY <1>2, PinInductive, PTL DEF Spec, StaleKept

-----------------------------------------------------------------------------
(* The refinement: the renaming is the instant at which a change happens.  *)

LEMMA RegistryInit == Init => Registry!Init
BY UnmarkedAssumption
   DEF Init, Registry!Init, None, Registry!None, Roles, Registry!Roles, Idle,
       Registry!NoCall, At, Whole, Registry!Whole

\* Steps of the process.
LEMMA RegistryProcess ==
    ASSUME Inv,
           \/ Start \/ Stop \/ Crash \/ (\E role \in Roles : RemoveByHand(role))
           \/ \E role \in Roles, pin \in Pins \cup BadPins : Ask(role, pin)
    PROVE  [Registry!Next]_(Registry!vars)
<1> USE DEF Idle, At, disk, Registry!NoCall
<1>1. CASE Start
  <2>1. call = Idle /\ files \in [Roles -> Contents \cup {NoPin}]
    BY <1>1 DEF Inv, PinTypeOK, Start
  <2>2. active' = [role \in Registry!Roles |-> Registry!Loaded(role)]
    BY <1>1, ContentsAssumption
       DEF Start, LoadPasswords, ReadPassword, Registry!Loaded, Roles,
           Registry!Roles
  <2>3. Registry!Start
    BY <1>1, <2>1, <2>2 DEF Start, Registry!Start
  <2> QED BY <2>3 DEF Registry!Next
<1>2. CASE Stop \/ Crash
  <2>1. Registry!Stop
    BY <1>2 DEF Stop, Crash, MemoryLost, None, Registry!Stop, Registry!None,
                Roles, Registry!Roles
  <2> QED BY <2>1 DEF Registry!Next
<1>3. ASSUME NEW role \in Roles, RemoveByHand(role)
      PROVE  UNCHANGED Registry!vars
  BY <1>3 DEF RemoveByHand, Registry!vars
<1>4. ASSUME NEW role \in Roles, NEW pin \in Pins \cup BadPins, Ask(role, pin)
      PROVE  Registry!Next
  <2>1. Registry!Ask(role, pin)
    BY <1>4 DEF Ask, Registry!Ask
  <2> QED BY <2>1 DEF Registry!Next, Roles, Registry!Roles
<1> QED BY <1>1, <1>2, <1>3, <1>4

LEMMA RegistryStorePin ==
    ASSUME Inv, StorePinStep
    PROVE  [Registry!Next]_(Registry!vars)
<1> USE DEF At, GoTo, Answer, disk
<1>s. call \in [role : Roles, pin : Pins \cup BadPins, step : Steps]
  BY DEF Inv, PinTypeOK, Idle, StorePinStep, Validate, RefusePin, ThrowEarly,
         MeetStale, OpenTemporary, OpenFails, Write, WriteFails, Rename,
         RenameFails, CleanUp, CleanUpFails, Assign
<1>n. call.pin # NoPin
  BY <1>s, ContentsAssumption DEF Contents, Loadable
<1>1. CASE Validate \/ OpenTemporary \/ OpenFails \/ Write \/ WriteFails
           \/ RenameFails
  <2>1. /\ UNCHANGED <<files, running, active, reply>>
        /\ call'.role = call.role /\ call'.pin = call.pin
        /\ call.step # "renamed" /\ call'.step # "renamed"
    BY <1>s, <1>1 DEF Validate, OpenTemporary, OpenFails, Write, WriteFails,
                      RenameFails
  <2> QED BY <2>1 DEF Registry!vars
<1>2. CASE RefusePin \/ ThrowEarly \/ MeetStale \/ CleanUp \/ CleanUpFails
  <2>1. /\ UNCHANGED <<files, running, active>> /\ call' = Idle
        /\ call.step # "renamed"
        /\ reply' \in {"PIN_INVALID", "DEVICE_ERROR", "THROWN"}
    BY <1>2 DEF RefusePin, ThrowEarly, MeetStale, CleanUp, CleanUpFails
  <2>2. Registry!Answer
    BY <1>n, <2>1 DEF Registry!Answer, Registry!NoCall, Idle
  <2> QED BY <2>2 DEF Registry!Next
<1>3. CASE Rename
  <2>1. /\ UNCHANGED <<running, active, reply>>
        /\ files' = [files EXCEPT ![call.role] = call.pin]
        /\ call'.role = call.role /\ call'.pin = call.pin
        /\ call.step # "renamed" /\ call'.step = "renamed"
        /\ call.pin \in Pins
    BY <1>s, <1>3 DEF Rename, Inv, Written, Steps
  <2>2. Registry!TakeEffect
    BY <1>n, <2>1 DEF Registry!TakeEffect, Registry!NoCall
  <2> QED BY <2>2 DEF Registry!Next
<1>4. CASE Assign
  <2>1. /\ UNCHANGED <<files, running>> /\ call' = Idle
        /\ active' = [active EXCEPT ![call.role] = call.pin]
        /\ call.step = "renamed" /\ reply' = "OK"
    BY <1>4 DEF Assign
  <2>2. Registry!Answer
    BY <1>n, <2>1 DEF Registry!Answer, Registry!NoCall, Idle
  <2> QED BY <2>2 DEF Registry!Next
<1> QED BY <1>1, <1>2, <1>3, <1>4 DEF StorePinStep

\* C_SetPIN and C_InitPIN are atomic for every set of PINs and all faults: a
\* call that fails keeps the active PIN and the one of the next start.
THEOREM ChangesCorrect == Spec => ChangesAreAtomic
<1>1. Inv /\ [Next]_vars => [Registry!Next]_(Registry!vars)
  <2>1. ASSUME UNCHANGED vars PROVE UNCHANGED Registry!vars
    BY <2>1 DEF vars, Registry!vars, At
  <2> QED BY <2>1, RegistryProcess, RegistryStorePin DEF Next
<1> QED BY <1>1, RegistryInit, PinInductive, PTL
        DEF Spec, ChangesAreAtomic, Registry!Spec

-----------------------------------------------------------------------------
(* Memory and files.                                                       *)

\* Between two calls the next start is not refused, and what it reads is the PIN
\* that a login is compared with, or that PIN without its byte order mark:
\* loadPasswords takes the file, or HSM_SIM_PIN where there is none, and no
\* failure of storePin makes the two differ otherwise.
MemoryMirrorsFiles ==
    running /\ call = Idle =>
        /\ ReadsPasswords
        /\ \A role \in Roles :
               LoadPasswords[role] \in {active[role], ReadPassword(active[role])}

\* From the renaming to the assignment the file is ahead.
Ahead == IF At("renamed") THEN [active EXCEPT ![call.role] = call.pin] ELSE active
OneAhead ==
    running => \A role \in Roles :
        LoadPasswords[role] \in {Ahead[role], ReadPassword(Ahead[role])}

LEMMA OneAheadStep ==
    ASSUME Inv, OneAhead, [Next]_vars
    PROVE  OneAhead'
<1> USE DEF At, GoTo, disk
<1>t. /\ files \in [Roles -> Contents \cup {NoPin}]
      /\ active \in [Roles -> Pins \cup {NoPin}]
      /\ call.role \in Roles
  BY DEF Inv, PinTypeOK, Idle, Roles
<1>l. files' = files => LoadPasswords' = LoadPasswords
  BY DEF LoadPasswords, ReadPassword
<1>s. ASSUME UNCHANGED files, running' => running, Ahead' = Ahead
      PROVE  OneAhead'
  BY <1>l, <1>s DEF OneAhead, ReadPassword
<1>1. CASE Start
  <2>1. Ahead' = LoadPasswords /\ UNCHANGED files
    BY <1>1 DEF Start, Ahead, Inv, PinTypeOK, Idle
  <2> QED BY <1>l, <2>1 DEF OneAhead
<1>2. CASE Stop \/ Crash
  BY <1>2 DEF Stop, Crash, MemoryLost, OneAhead
<1>3. ASSUME NEW role \in Roles, RemoveByHand(role) PROVE OneAhead'
  BY <1>3, <1>s DEF RemoveByHand, Ahead
<1>4. ASSUME NEW role \in Roles, NEW pin \in Pins \cup BadPins, Ask(role, pin)
      PROVE  OneAhead'
  BY <1>4, <1>s DEF Ask, Ahead, Idle
<1>5. CASE Rename
  <2>1. /\ files' = [files EXCEPT ![call.role] = call.pin]
        /\ active' = active /\ running' = running
        /\ call'.role = call.role /\ call'.pin = call.pin
        /\ call.step # "renamed" /\ call'.step = "renamed"
        /\ call.pin # NoPin
    <3>1. call \in [role : Roles, pin : Pins \cup BadPins, step : Steps]
      BY <1>5 DEF Rename, Inv, PinTypeOK, Idle
    <3> QED
      BY <1>5, <3>1, ContentsAssumption
         DEF Rename, Inv, Written, Contents, Loadable, Steps
  <2>2. Ahead = active /\ Ahead' = [active EXCEPT ![call.role] = call.pin]
    BY <2>1 DEF Ahead
  <2>3. ASSUME NEW role \in Roles, running
        PROVE  LoadPasswords'[role] \in {Ahead'[role], ReadPassword(Ahead'[role])}
    <3>1. CASE role = call.role
      <4>1. files'[role] = call.pin /\ Ahead'[role] = call.pin
        BY <1>t, <2>1, <2>2, <3>1
      <4>2. LoadPasswords'[role] = ReadPassword(call.pin)
        BY <2>1, <4>1 DEF LoadPasswords, ReadPassword
      <4> QED BY <4>1, <4>2
    <3>2. CASE role # call.role
      <4>1. files'[role] = files[role] /\ Ahead'[role] = Ahead[role]
        BY <1>t, <2>1, <2>2, <3>2
      <4>2. LoadPasswords'[role] = LoadPasswords[role]
        BY <4>1 DEF LoadPasswords, ReadPassword
      <4> QED BY <2>3, <4>1, <4>2 DEF OneAhead
    <3> QED BY <3>1, <3>2
  <2> QED BY <2>1, <2>3 DEF OneAhead, ReadPassword
<1>6. CASE Assign
  BY <1>6, <1>s DEF Assign, Answer, Idle, Ahead
<1>7. CASE UNCHANGED vars
  BY <1>7, <1>s DEF vars, Ahead
<1>8. CASE /\ StorePinStep
           /\ ~Rename
           /\ ~Assign
  <2>1. /\ UNCHANGED <<files, active, running>>
        /\ call.step # "renamed"
    BY <1>8 DEF StorePinStep, Validate, RefusePin, ThrowEarly, MeetStale,
                OpenTemporary, OpenFails, Write, WriteFails, RenameFails,
                CleanUp, CleanUpFails, Answer
  <2>2. call'.step # "renamed"
    BY <1>8 DEF StorePinStep, Validate, RefusePin, ThrowEarly, MeetStale,
                OpenTemporary, OpenFails, Write, WriteFails, RenameFails,
                CleanUp, CleanUpFails, Answer, Idle, Inv, PinTypeOK
  <2> QED BY <1>s, <2>1, <2>2 DEF Ahead
<1> QED BY <1>1, <1>2, <1>3, <1>4, <1>5, <1>6, <1>7, <1>8 DEF Next

LEMMA OneAheadCorrect == Spec => []OneAhead
<1>1. Init => OneAhead
  BY DEF Init, OneAhead
<1> QED BY <1>1, OneAheadStep, PinInductive, PTL DEF Spec

\* What a login is compared with and what the next start reads agree, up to a
\* byte order mark, whenever no call is in progress, and that start is not
\* refused.
THEOREM MirrorFiles == Spec => []MemoryMirrorsFiles
<1>1. Inv /\ OneAhead => MemoryMirrorsFiles
  BY LoadTyped DEF Inv, PinTypeOK, OneAhead, Ahead, MemoryMirrorsFiles, At, Idle
<1> QED BY <1>1, OneAheadCorrect, PinInductive, PTL

\* Where no PIN begins with a byte order mark, they are the same.
MemoryIsFiles == running /\ call = Idle => active = LoadPasswords

\* As long as nobody chooses a PIN that begins with a byte order mark, a restart
\* changes no PIN (the run marked_pin of Runtime shows the other case).
THEOREM RestartKeepsPins ==
    ASSUME \A pin \in Pins : Unmarked[pin] = pin
    PROVE  Spec => []MemoryIsFiles
<1>1. ASSUME Inv, MemoryMirrorsFiles, running, call = Idle
      PROVE  active = LoadPasswords
  <2>1. active \in [Roles -> Pins \cup {NoPin}]
    BY <1>1 DEF Inv, PinTypeOK
  <2>2. \A role \in Roles : ReadPassword(active[role]) = active[role]
    BY <2>1 DEF ReadPassword
  <2>3. \A role \in Roles : LoadPasswords[role] = active[role]
    BY <1>1, <2>2 DEF MemoryMirrorsFiles
  <2> QED BY <2>1, <2>3 DEF LoadPasswords
<1>2. Inv /\ MemoryMirrorsFiles => MemoryIsFiles
  BY <1>1 DEF MemoryIsFiles
<1> QED BY <1>2, MirrorFiles, PinInductive, PTL
=============================================================================
