--------------------------- MODULE KeyStoreProofs ---------------------------
(***************************************************************************)
(* Theorems about KeyStore, for any keys, policies, faults and bound: an   *)
(* acknowledged key survives, and the file steps implement KeyRegistry,    *)
(* provided that a failed write of the key file is seen.                   *)
(***************************************************************************)
EXTENDS KeyStore, TLAPS

\* A failed write is seen for a PKCS#12 file; an AES file must not fail.
WriteErrorsSeen == Kind = "pair" \/ "write" \notin Faults

USE DEF At, GoTo, Idle, Calling

-----------------------------------------------------------------------------
(* Types, whatever goes wrong.                                             *)

\* The steps that use the key file or the object find them there.
InProgress ==
    /\ At("save") => keyFile # NoFile
    /\ call.step \in {"write", "rename", "clean"} => object # NoKey

Typed == TypeOK /\ InProgress

\* What a start loads is an object.
LEMMA LoadType == TypeOK => Load \in Stored \cup {NoKey}
  BY SentinelsAssumption
     DEF TypeOK, Load, Stored, KeyFiles, Metas, Forms, Recorded

\* The fault counter respects its bound.
LEMMA FaultType ==
    ASSUME faults \in 0..MaxFaults, NEW kind, Fault(kind)
    PROVE  faults' \in 0..MaxFaults
  BY FaultsAssumption DEF Fault

LEMMA TypedInit == Init => Typed
<1> SUFFICES ASSUME Init PROVE Typed
  OBVIOUS
<1>1. call = Idle /\ faults \in 0..MaxFaults
  BY FaultsAssumption DEF Init
<1>2. temp \in BOOLEAN /\ running \in BOOLEAN
  BY DEF Init
<1> QED
  BY <1>1, <1>2 DEF Init, Typed, TypeOK, InProgress

\* No step, failing or not, leaves a variable without its type.
LEMMA TypedStep == Typed /\ [Next]_vars => Typed'
<1> SUFFICES ASSUME Typed, [Next]_vars PROVE Typed'
  OBVIOUS
<1> USE SentinelsAssumption DEF Typed, TypeOK, InProgress, disk
<1>1. CASE Start
  BY <1>1, LoadType DEF Start
<1>2. CASE Stop
  BY <1>2 DEF Stop, MemoryLost
<1>3. CASE Crash
  BY <1>3, FaultType DEF Crash, MemoryLost
<1>4. ASSUME NEW k \in Keys, NEW p \in Policies, Create(k, p)
      PROVE  Typed'
  BY <1>4 DEF Create, KeyFiles, Forms
<1>5. CASE Save
  BY <1>5 DEF Save, Register, KeyFiles, Forms, Stored, Recorded
<1>6. CASE SaveFails
  BY <1>6, FaultType DEF SaveFails
<1>7. CASE SaveCut
  BY <1>7, FaultType DEF SaveCut, Register, KeyFiles, Forms, Stored, Recorded
<1>8. CASE RollBack
  BY <1>8, FaultType DEF RollBack
<1>9. ASSUME NEW p \in Policies, Update(p)
      PROVE  Typed'
  BY <1>9 DEF Update
<1>10. CASE Refuse
  BY <1>10 DEF Refuse, Abandon
<1>11. CASE WriteTemp
  BY <1>11, FaultType DEF WriteTemp
<1>12. CASE Rename
  <2>1. /\ call.policy \in Policies
        /\ object \in Stored
    BY <1>12 DEF Rename
  <2>2. meta' \in Metas /\ object' \in Stored
    BY <1>12, <2>1 DEF Rename, Metas, Stored, Recorded
  <2>3. /\ call' = Idle
        /\ temp' \in BOOLEAN
        /\ running' \in BOOLEAN
        /\ told' \in Stored
        /\ keyFile' \in KeyFiles \cup {NoFile}
        /\ faults' \in 0..MaxFaults
    BY <1>12, <2>2 DEF Rename
  <2>4. running'
    BY <1>12 DEF Rename
  <2> QED
    BY <2>2, <2>3, <2>4
<1>13. CASE RenameFails
  BY <1>13, FaultType DEF RenameFails
<1>14. CASE Clean
  <2>1. faults' \in 0..MaxFaults
    BY <1>14, FaultType DEF Clean
  <2>2. temp' \in BOOLEAN
    BY <1>14 DEF Clean
  <2>3. CASE call.op = "create"
    BY <1>14, <2>1, <2>2, <2>3 DEF Clean, Abandon
  <2>4. CASE call.op # "create"
    BY <1>14, <2>1, <2>2, <2>4 DEF Clean, Abandon
  <2> QED
    BY <2>3, <2>4
<1>15. CASE Destroy
  BY <1>15 DEF Destroy
<1>16. CASE Forget
  BY <1>16, FaultType DEF Forget
<1>17. CASE UNCHANGED vars
  BY <1>17 DEF vars
<1> QED
  BY <1>1, <1>2, <1>3, <1>4, <1>5, <1>6, <1>7, <1>8, <1>9, <1>10, <1>11,
     <1>12, <1>13, <1>14, <1>15, <1>16, <1>17 DEF Next

\* Every reachable state is well typed, and the files of a call in progress
\* are those its next step expects (saveKeyPair .. metadata::create).
THEOREM StoreTypeCorrect == Spec => []TypeOK
  BY TypedInit, TypedStep, PTL DEF Spec, Typed

-----------------------------------------------------------------------------
(* Acknowledged keys.                                                      *)

\* During a creation nothing was promised yet; the object exists from the
\* moment the key file is whole until the creation is given up.
Creating ==
    call.op = "create" =>
        /\ told = NoKey
        /\ keyFile # NoFile
        /\ call.step \in {"write", "rename", "clean"} =>
               /\ keyFile.form = "whole"
               /\ object = [key |-> keyFile.key, form |-> "whole",
                            policy |-> call.policy]

\* An object that is neither new nor going away is what the disk holds.
Settled ==
    /\ call.op \in {"none", "update"} /\ object # NoKey => object = Load
    /\ call.op = "destroy" => keyFile = NoFile /\ told = NoKey
    /\ call.step \in {"save", "rollback"} => object = NoKey

Inv == Typed /\ Creating /\ Settled /\ AcknowledgedSurvives

\* Whatever fails and wherever the process dies, memory and promise follow
\* the disk, if a failed write of the key file is seen.
LEMMA InvStep ==
    ASSUME WriteErrorsSeen, Inv, [Next]_vars
    PROVE  Inv'
<1>1. Typed'
  BY TypedStep DEF Inv
<1> SUFFICES (Creating /\ Settled /\ AcknowledgedSurvives)'
  BY <1>1 DEF Inv
<1> USE SentinelsAssumption
    DEF Inv, Typed, TypeOK, InProgress, Creating, Settled,
        AcknowledgedSurvives, disk
<1>2. CASE Start
  BY <1>2 DEF Start, Load
<1>3. CASE Stop
  BY <1>3 DEF Stop, MemoryLost, Load
<1>4. CASE Crash
  BY <1>4 DEF Crash, MemoryLost, Load
<1>5. ASSUME NEW k \in Keys, NEW p \in Policies, Create(k, p)
      PROVE  (Creating /\ Settled /\ AcknowledgedSurvives)'
  <2>1. told = NoKey /\ object = NoKey
    BY <1>5 DEF Create, Load
  <2>2. /\ call'.op = "create" /\ call'.step = "save"
        /\ keyFile' # NoFile
        /\ told' = NoKey /\ object' = NoKey
    BY <1>5, <2>1 DEF Create, KeyFiles, Forms
  <2> QED
    BY <2>2
<1>6. CASE Save
  <2>1. call.op = "create" /\ keyFile \in KeyFiles /\ told = NoKey
    BY <1>6 DEF Save
  <2>2. /\ keyFile' \in KeyFiles
        /\ keyFile'.form = "whole"
        /\ keyFile'.key = keyFile.key
    BY <1>6, <2>1 DEF Save, KeyFiles, Forms
  <2>3. /\ call'.op = "create" /\ call'.step = "write"
        /\ call'.policy = call.policy
    BY <1>6, <2>1 DEF Save, Register
  <2> QED
    BY <1>6, <2>1, <2>2, <2>3 DEF Save, Register
<1>7. CASE SaveFails
  <2>1. call.op = "create" /\ told = NoKey
    BY <1>7 DEF SaveFails
  <2>2. object = NoKey
    BY <1>7 DEF SaveFails
  <2> QED
    BY <1>7, <2>1, <2>2 DEF SaveFails
<1>8. CASE SaveCut
  BY <1>8 DEF SaveCut, Fault, WriteErrorsSeen
<1>9. CASE RollBack
  BY <1>9 DEF RollBack, Load
<1>10. ASSUME NEW p \in Policies, Update(p)
       PROVE  (Creating /\ Settled /\ AcknowledgedSurvives)'
  BY <1>10 DEF Update, Load
<1>11. CASE Refuse
  BY <1>11 DEF Refuse, Abandon, Load
<1>12. CASE WriteTemp
  BY <1>12 DEF WriteTemp, Load
<1>13. CASE Rename
  BY <1>13 DEF Rename, Load, Metas, Stored, Recorded, KeyFiles
<1>14. CASE RenameFails
  BY <1>14 DEF RenameFails, Load
<1>15. CASE Clean
  BY <1>15 DEF Clean, Abandon, Load
<1>16. CASE Destroy
  BY <1>16 DEF Destroy, Load
<1>17. CASE Forget
  BY <1>17 DEF Forget, Load
<1>18. CASE UNCHANGED vars
  BY <1>18 DEF vars, Load
<1> QED
  BY <1>2, <1>3, <1>4, <1>5, <1>6, <1>7, <1>8, <1>9, <1>10, <1>11, <1>12,
     <1>13, <1>14, <1>15, <1>16, <1>17, <1>18 DEF Next

LEMMA InvInit == Init => Inv
  BY TypedInit
     DEF Init, Inv, Creating, Settled, AcknowledgedSurvives

\* A key that a creation or an update acknowledged is what the next start
\* loads, with its policy, whatever fails, if a failed write of the key file
\* is seen.
THEOREM AcknowledgedCorrect ==
    ASSUME WriteErrorsSeen
    PROVE  Spec => []AcknowledgedSurvives
<1>1. Inv /\ [Next]_vars => Inv'
  BY InvStep
<1> QED
  BY <1>1, InvInit, PTL DEF Spec, Inv

-----------------------------------------------------------------------------
(* Refinement.                                                             *)

\* A step of the files is a step of the registry, or none.
LEMMA RegistryStep ==
    ASSUME WriteErrorsSeen, Inv, [Next]_vars
    PROVE  [Registry!Next]_(Registry!vars)
<1> DEFINE stored == IF call.op = "create" THEN NoKey ELSE Load
<1>l. Load \in Stored \cup {NoKey} /\ Load' \in Stored \cup {NoKey}
  <2>1. Typed'
    BY TypedStep DEF Inv
  <2>2. TypeOK /\ TypeOK'
    BY <2>1 DEF Inv, Typed
  <2>3. Load \in Stored \cup {NoKey}
    BY <2>2, LoadType
  <2>4. Load' \in Stored \cup {NoKey}
    BY <2>2, SentinelsAssumption
       DEF TypeOK, Load, Stored, KeyFiles, Metas, Forms, Recorded
  <2> QED
    BY <2>3, <2>4
<1>s. Registry!Stored = Stored
  BY DEF Registry!Stored, Stored, Recorded
<1> USE SentinelsAssumption
    DEF Inv, Typed, TypeOK, InProgress, Creating, Settled,
        AcknowledgedSurvives, disk
<1>n. ASSUME stored' = stored, told' = told
      PROVE  [Registry!Next]_(Registry!vars)
  BY <1>n DEF Registry!vars
<1>b. ASSUME call.op = "create", call'.op = "none", told' = told
      PROVE  [Registry!Next]_(Registry!vars)
  <2>1. CASE Load' = NoKey
    BY <2>1, <1>b, <1>n
  <2>2. CASE Load' # NoKey
    BY <2>2, <1>b, <1>l, <1>s
       DEF Registry!Next, Registry!LeaveBehind
  <2> QED
    BY <2>1, <2>2
<1>1. CASE Start
  BY <1>1, <1>n DEF Start, Load
<1>2. CASE Stop
  BY <1>2, <1>n DEF Stop, MemoryLost, Load
<1>3. CASE Crash
  <2>1. CASE call.op = "create"
    BY <1>3, <2>1, <1>b DEF Crash, MemoryLost
  <2>2. CASE call.op # "create"
    BY <1>3, <2>2, <1>n DEF Crash, MemoryLost, Load
  <2> QED
    BY <2>1, <2>2
<1>4. ASSUME NEW k \in Keys, NEW p \in Policies, Create(k, p)
      PROVE  [Registry!Next]_(Registry!vars)
  BY <1>4, <1>n DEF Create, Load
<1>5. CASE Save
  BY <1>5, <1>n DEF Save, Register
<1>6. CASE SaveFails
  BY <1>6, <1>b DEF SaveFails
<1>7. CASE SaveCut
  BY <1>7 DEF SaveCut, Fault, WriteErrorsSeen
<1>8. CASE RollBack
  BY <1>8, <1>b DEF RollBack
<1>9. ASSUME NEW p \in Policies, Update(p)
      PROVE  [Registry!Next]_(Registry!vars)
  BY <1>9, <1>n DEF Update, Load
<1>10. CASE Refuse
  BY <1>10, <1>n DEF Refuse, Abandon, Load
<1>11. CASE WriteTemp
  BY <1>11, <1>n DEF WriteTemp, Load
<1>12. CASE Rename
  <2>1. CASE call.op = "create"
    <3>1. call.policy \in Policies /\ keyFile.key \in Keys
      BY <1>12, <2>1 DEF Rename, KeyFiles
    <3>2. Load' = [key |-> keyFile.key, form |-> "whole", policy |-> call.policy]
      BY <1>12, <2>1 DEF Rename, Load, Metas, KeyFiles
    <3>3. told' = Load'
      BY <1>12, <2>1, <3>2 DEF Rename
    <3>4. Registry!Create(keyFile.key, call.policy)
      BY <1>12, <2>1, <3>2, <3>3 DEF Rename, Registry!Create
    <3> QED
      BY <3>1, <3>4 DEF Registry!Next
  <2>2. CASE call.op = "update"
    <3>1. call.policy \in Policies /\ object = Load /\ object # NoKey
      BY <1>12, <2>2 DEF Rename
    <3>2. meta' # NoFile /\ meta'.policy = call.policy
      BY <1>12, <3>1 DEF Rename, Metas, Stored
    <3>3. Load' = [key |-> keyFile.key, form |-> keyFile.form,
                   policy |-> call.policy]
      BY <1>12, <3>1, <3>2 DEF Rename, Load
    <3>4. [Load EXCEPT !.policy = call.policy] = Load'
      BY <3>1, <3>3 DEF Load
    <3>5. told' = Load'
      BY <1>12, <3>1, <3>4 DEF Rename
    <3>6. Registry!Update(call.policy)
      BY <1>12, <2>2, <3>1, <3>4, <3>5 DEF Rename, Registry!Update
    <3> QED
      BY <3>1, <3>6 DEF Registry!Next
  <2> QED
    BY <1>12, <2>1, <2>2 DEF Rename
<1>13. CASE RenameFails
  BY <1>13, <1>n DEF RenameFails, Load
<1>14. CASE Clean
  BY <1>14, <1>n DEF Clean, Abandon, Load
<1>15. CASE Destroy
  BY <1>15 DEF Destroy, Load, Registry!Next, Registry!Destroy
<1>16. CASE Forget
  BY <1>16, <1>n DEF Forget, Load
<1>17. CASE UNCHANGED vars
  BY <1>17, <1>n DEF vars, Load
<1> QED
  BY <1>1, <1>2, <1>3, <1>4, <1>5, <1>6, <1>7, <1>8, <1>9, <1>10, <1>11,
     <1>12, <1>13, <1>14, <1>15, <1>16, <1>17 DEF Next

\* The separate file steps, with their failures and crashes, implement calls
\* that take effect at once, if a failed write of the key file is seen.
THEOREM RegistryImplemented ==
    ASSUME WriteErrorsSeen
    PROVE  Spec => ImplementsRegistry
<1>1. Init => Registry!Init
  BY DEF Init, Registry!Init, Load
<1>2. Inv /\ [Next]_vars => Inv'
  BY InvStep
<1>3. Inv /\ [Next]_vars => [Registry!Next]_(Registry!vars)
  BY RegistryStep
<1> QED
  BY <1>1, <1>2, <1>3, InvInit, PTL
     DEF Spec, ImplementsRegistry, Registry!Spec

-----------------------------------------------------------------------------
(* Creations that fail.                                                    *)

\* The object has the key of the file, cut short or not; what saveKeyPair has
\* not finished does not parse.
KeyFollows ==
    /\ call.op = "destroy" => keyFile = NoFile
    /\ object # NoKey /\ call.op # "destroy" =>
           keyFile # NoFile /\ object.key = keyFile.key
    /\ call.step \in {"save", "rollback"} => object = NoKey
    /\ At("save") => keyFile.form = "broken"

KeyInv == Typed /\ KeyFollows

\* Whatever goes wrong, and however often, the object has the key of its file.
LEMMA KeyStep ==
    ASSUME KeyInv, [Next]_vars
    PROVE  KeyInv'
<1>1. Typed'
  BY TypedStep DEF KeyInv
<1> SUFFICES KeyFollows'
  BY <1>1 DEF KeyInv
<1> USE SentinelsAssumption
    DEF KeyInv, Typed, TypeOK, InProgress, KeyFollows, disk
<1>2. CASE Start
  BY <1>2 DEF Start, Load
<1>3. CASE Stop
  BY <1>3 DEF Stop, MemoryLost
<1>4. CASE Crash
  BY <1>4 DEF Crash, MemoryLost
<1>5. ASSUME NEW k \in Keys, NEW p \in Policies, Create(k, p)
      PROVE  KeyFollows'
  BY <1>5 DEF Create
<1>6. CASE Save \/ SaveCut
  <2>1. call.op = "create" /\ keyFile \in KeyFiles
    BY <1>6 DEF Save, SaveCut
  <2>2. /\ keyFile' \in KeyFiles
        /\ keyFile'.key = keyFile.key
        /\ object'.key = keyFile.key
    BY <1>6, <2>1 DEF Save, SaveCut, Register, KeyFiles, Forms
  <2>3. call'.op = "create" /\ call'.step = "write"
    BY <1>6, <2>1 DEF Save, SaveCut, Register
  <2> QED
    BY <2>1, <2>2, <2>3
<1>7. CASE SaveFails
  BY <1>7 DEF SaveFails
<1>8. CASE RollBack
  <2>1. object' = NoKey /\ call' = Idle
    BY <1>8 DEF RollBack
  <2> QED
    BY <2>1
<1>9. ASSUME NEW p \in Policies, Update(p)
      PROVE  KeyFollows'
  BY <1>9 DEF Update
<1>10. CASE Refuse
  BY <1>10 DEF Refuse, Abandon
<1>11. CASE WriteTemp
  BY <1>11 DEF WriteTemp
<1>12. CASE Rename
  BY <1>12 DEF Rename, Stored
<1>13. CASE RenameFails
  BY <1>13 DEF RenameFails
<1>14. CASE Clean
  <2>1. keyFile' = keyFile
    BY <1>14 DEF Clean
  <2>2. CASE call.op = "create"
    BY <1>14, <2>1, <2>2 DEF Clean, Abandon
  <2>3. CASE call.op = "update"
    BY <1>14, <2>1, <2>3 DEF Clean, Abandon
  <2> QED
    BY <1>14, <2>2, <2>3 DEF Clean
<1>15. CASE Destroy
  BY <1>15 DEF Destroy
<1>16. CASE Forget
  BY <1>16 DEF Forget
<1>17. CASE UNCHANGED vars
  BY <1>17 DEF vars
<1> QED
  BY <1>2, <1>3, <1>4, <1>5, <1>6, <1>7, <1>8, <1>9, <1>10, <1>11, <1>12,
     <1>13, <1>14, <1>15, <1>16, <1>17 DEF Next

LEMMA KeyInit == Init => KeyInv
  BY TypedInit DEF Init, KeyInv, KeyFollows

LEMMA FailedCreationStep ==
    ASSUME KeyInv, [Next]_vars,
           call.op = "create", call' = Idle, running', told' = NoKey
    PROVE  /\ object' = NoKey
           /\ \/ Load' = NoKey
              \/ call.step = "rollback" /\ faults' > faults
<1> USE DEF KeyInv, Typed, TypeOK, InProgress, KeyFollows, disk
<1>1. CASE SaveFails
  BY <1>1 DEF SaveFails, Load
<1>2. CASE RollBack
  <2>1. call.step = "rollback" /\ object' = NoKey
    BY <1>2 DEF RollBack
  <2>2. keyFile' = NoFile => Load' = NoKey
    BY DEF Load
  <2>3. Fault("remove") => faults' > faults
    BY FaultsAssumption DEF Fault
  <2> QED
    BY <1>2, <2>1, <2>2, <2>3 DEF RollBack
<1>3. ~Rename
  <2> SUFFICES ASSUME Rename PROVE FALSE
    OBVIOUS
  <2>1. object \in Stored /\ call.policy \in Policies
    BY DEF Rename
  <2>2. object' \in Stored
    BY <2>1 DEF Rename, Stored, Recorded
  <2> QED
    BY <2>2, SentinelsAssumption DEF Rename
<1>4. /\ call.op # "none" /\ call'.step = "idle" /\ call'.op = "none"
      /\ call.step \in {"save", "rollback", "write", "rename", "clean"}
  OBVIOUS
<1>5. /\ ~Start /\ ~Stop /\ ~Crash /\ ~Destroy /\ ~Forget
      /\ \A k \in Keys, p \in Policies : ~Create(k, p)
      /\ \A p \in Policies : ~Update(p)
      /\ ~UNCHANGED vars
  BY <1>4 DEF Start, Stop, Crash, MemoryLost, Destroy, Forget, Create, Update, vars
<1>6. ~Save /\ ~SaveCut /\ ~WriteTemp /\ ~RenameFails
  BY <1>4 DEF Save, SaveCut, Register, WriteTemp, RenameFails
<1>7. ~Refuse /\ ~Clean
  BY <1>4 DEF Refuse, Clean, Abandon
<1> QED
  BY <1>1, <1>2, <1>3, <1>5, <1>6, <1>7 DEF Next

\* A creation that returns an error leaves no object and nothing that a start
\* would load, unless the removal of the key file failed, whatever else went
\* wrong (saveKeyPair, persistMetadata, metadata::create).
THEOREM FailedCreationCorrect == Spec => FailedCreationLeavesNothing
<1>1. KeyInv /\ [Next]_vars => KeyInv'
  BY KeyStep
<1>2. KeyInv /\ [Next]_vars =>
          [call.op = "create" /\ call' = Idle /\ running' /\ told' = NoKey
           => /\ object' = NoKey
              /\ \/ Load' = NoKey
                 \/ call.step = "rollback" /\ faults' > faults]_vars
  BY FailedCreationStep
<1> QED
  BY <1>1, <1>2, KeyInit, PTL DEF Spec, FailedCreationLeavesNothing

-----------------------------------------------------------------------------
(* What a single fault cannot do.  With two of them a destruction can leave *)
(* its .meta file behind, and the roll-back of the next creation its key    *)
(* file, which the next start gives the old policy.                         *)

OneFault == MaxFaults <= 1
Spent == faults = MaxFaults

\* A .meta file belongs to the key file, or is an orphan that a fault has left;
\* a creation that meets one cannot pass metadata::create.
MetaFollows ==
    /\ meta # NoFile /\ call.op \in {"none", "update"} =>
           \/ keyFile # NoFile /\ meta.of = keyFile.key
           \/ keyFile = NoFile /\ Spent
    /\ meta # NoFile /\ call.op = "create" =>
           Spent /\ call.step \in {"save", "write", "rollback"}

\* A temporary file that stands in the way of a call is due to a fault.
LeftByFault ==
    temp => \/ Spent
            \/ call.step = "rename"
            \/ At("clean") /\ call.policy \in Oversized

OneFaultInv == KeyInv /\ MetaFollows /\ LeftByFault

LEMMA SpentOnce ==
    ASSUME OneFault, faults \in 0..MaxFaults, NEW kind, Fault(kind)
    PROVE  ~Spent /\ Spent'
  BY FaultsAssumption DEF OneFault, Fault, Spent

LEMMA OneFaultStep ==
    ASSUME OneFault, OneFaultInv, [Next]_vars
    PROVE  OneFaultInv'
<1>1. KeyInv'
  BY KeyStep DEF OneFaultInv
<1> SUFFICES (MetaFollows /\ LeftByFault)'
  BY <1>1 DEF OneFaultInv
<1>0. /\ \A kind : Fault(kind) => ~Spent /\ Spent'
      /\ UNCHANGED faults => Spent' = Spent
  BY SpentOnce DEF OneFaultInv, KeyInv, Typed, TypeOK, Spent
<1> USE <1>0, SentinelsAssumption
    DEF OneFaultInv, KeyInv, Typed, TypeOK, InProgress, KeyFollows, MetaFollows,
        LeftByFault, disk
<1>2. CASE Start
  BY <1>2 DEF Start, Load
<1>3. CASE Stop
  BY <1>3 DEF Stop, MemoryLost
<1>4. CASE Crash
  BY <1>4 DEF Crash, MemoryLost
<1>5. ASSUME NEW k \in Keys, NEW p \in Policies, Create(k, p)
      PROVE  (MetaFollows /\ LeftByFault)'
  <2>1. (meta # NoFile => Spent) /\ (temp => Spent)
    BY <1>5 DEF Create
  <2>2. /\ call'.op = "create" /\ call'.step = "save"
        /\ meta' = meta /\ temp' = temp /\ Spent' = Spent
    BY <1>5, <2>1 DEF Create
  <2> QED
    BY <2>1, <2>2
<1>6. CASE Save \/ SaveCut
  <2>1. /\ call.op = "create" /\ At("save")
        /\ meta' = meta /\ temp' = temp
        /\ Spent => Spent'
    BY <1>6 DEF Save, SaveCut
  <2>2. call'.op = "create" /\ call'.step = "write"
    BY <1>6, <2>1 DEF Save, SaveCut, Register
  <2> QED
    BY <2>1, <2>2
<1>7. CASE SaveFails
  BY <1>7 DEF SaveFails
<1>9. CASE RollBack
  <2>1. /\ call.op = "create" /\ At("rollback")
        /\ call' = Idle /\ meta' = meta /\ temp' = temp
    BY <1>9 DEF RollBack
  <2>2. CASE keyFile' = NoFile /\ UNCHANGED faults
    BY <2>1, <2>2
  <2>3. CASE Fault("remove")
    BY <2>1, <2>3
  <2> QED
    BY <1>9, <2>2, <2>3 DEF RollBack
<1>10. ASSUME NEW p \in Policies, Update(p)
       PROVE  (MetaFollows /\ LeftByFault)'
  BY <1>10 DEF Update
<1>11. CASE Refuse
  BY <1>11 DEF Refuse, Abandon, Blocked
<1>12. CASE WriteTemp
  <2>1. /\ At("write") /\ ~temp /\ meta' = meta /\ keyFile' = keyFile
        /\ call.op = "create" => meta = NoFile
        /\ Spent => Spent'
    BY <1>12 DEF WriteTemp, Blocked
  <2>2. /\ call'.op = call.op /\ call'.policy = call.policy
        /\ \/ call'.step = "rename"
           \/ call'.step = "clean" /\ (call.policy \in Oversized \/ Spent')
    BY <1>12, <2>1 DEF WriteTemp
  <2> QED
    BY <2>1, <2>2
<1>13. CASE Rename
  BY <1>13 DEF Rename, Metas, Stored
<1>14. CASE RenameFails
  BY <1>14 DEF RenameFails
<1>15. CASE Clean
  <2>1. /\ keyFile' = keyFile /\ meta' = meta
        /\ Spent => Spent'
        /\ temp' => Spent'
    BY <1>15 DEF Clean
  <2>3. CASE call.op = "create"
    BY <1>15, <2>1, <2>3 DEF Clean, Abandon
  <2>4. CASE call.op = "update"
    BY <1>15, <2>1, <2>4 DEF Clean, Abandon
  <2> QED
    BY <1>15, <2>3, <2>4 DEF Clean
<1>16. CASE Destroy
  BY <1>16 DEF Destroy
<1>17. CASE Forget
  BY <1>17 DEF Forget
<1>18. CASE UNCHANGED vars
  BY <1>18 DEF vars
<1> QED
  BY <1>2, <1>3, <1>4, <1>5, <1>6, <1>7, <1>9, <1>10, <1>11, <1>12,
     <1>13, <1>14, <1>15, <1>16, <1>17, <1>18 DEF Next

LEMMA OneFaultInit == Init => OneFaultInv
  BY KeyInit DEF Init, OneFaultInv, MetaFollows, LeftByFault

\* As long as one thing at most goes wrong, no object shows what was recorded
\* for an earlier key of its name (the test of metadata::create).
THEOREM OwnPolicyCorrect ==
    ASSUME OneFault
    PROVE  Spec => []OwnPolicy
<1>1. OneFaultInv /\ [Next]_vars => OneFaultInv'
  BY OneFaultStep
<1>2. OneFaultInv => OwnPolicy
  BY DEF OneFaultInv, KeyInv, KeyFollows, MetaFollows, OwnPolicy
<1> QED
  BY <1>1, <1>2, OneFaultInit, PTL DEF Spec

-----------------------------------------------------------------------------
(* Between two calls the registry and the disk agree, as they do in Runtime *)
(* (RegistryMirrorsDisk), but for a key whose creation was not undone.      *)

MemoryMirrorsDisk ==
    running /\ call = Idle =>
        \/ object = Load
        \/ object = NoKey /\ told = NoKey /\ faults > 0

\* A key that is on the disk and not in memory was promised to nobody, and a
\* fault has left it there.
HiddenByFault ==
    running /\ call = Idle /\ object = NoKey /\ Load # NoKey =>
        told = NoKey /\ faults > 0

LEMMA HiddenStep ==
    ASSUME KeyInv, Inv, HiddenByFault, [Next]_vars
    PROVE  HiddenByFault'
<1> SUFFICES ASSUME running', call' = Idle, object' = NoKey, Load' # NoKey
             PROVE  told' = NoKey /\ faults' > 0
  BY DEF HiddenByFault
<1> USE DEF KeyInv, Inv, Typed, TypeOK, InProgress, KeyFollows, Creating,
            Settled, disk
<1>1. CASE Start
  BY <1>1 DEF Start, Load
<1>2. CASE SaveFails
  BY <1>2 DEF SaveFails, Load
<1>3. CASE RollBack
  <2>1. told' = NoKey
    BY <1>3 DEF RollBack
  <2>2. ~(keyFile' = NoFile)
    BY DEF Load
  <2> QED
    BY <1>3, <2>1, <2>2, FaultsAssumption DEF RollBack, Fault
<1>4. CASE Refuse \/ Clean
  <2>1. object # NoKey /\ call.step \in {"write", "clean"}
    BY <1>4 DEF Refuse, Clean
  <2>2. call.op = "create" => call'.step = "rollback"
    BY <1>4 DEF Refuse, Clean, Abandon
  <2>3. call.op # "create" => object' = object
    BY <1>4 DEF Refuse, Clean, Abandon
  <2> QED BY <2>1, <2>2, <2>3
<1>5. CASE Rename
  <2>1. object \in Stored /\ call.policy \in Policies
    BY <1>5 DEF Rename
  <2>2. object' \in Stored
    BY <1>5, <2>1 DEF Rename, Stored, Recorded
  <2> QED BY <2>2, SentinelsAssumption
<1>6. CASE Forget
  BY <1>6 DEF Forget, Load
<1>7. CASE UNCHANGED vars
  BY <1>7 DEF vars, HiddenByFault, Load
<1>8. ~Stop /\ ~Crash
  BY DEF Stop, Crash, MemoryLost
<1>9. /\ ~Save /\ ~SaveCut /\ ~WriteTemp /\ ~RenameFails /\ ~Destroy
      /\ \A k \in Keys, p \in Policies : ~Create(k, p)
      /\ \A p \in Policies : ~Update(p)
  BY DEF Save, SaveCut, Register, WriteTemp, RenameFails, Destroy, Create, Update
<1> QED
  BY <1>1, <1>2, <1>3, <1>4, <1>5, <1>6, <1>7, <1>8, <1>9 DEF Next

\* Between two calls the object in memory, if there is one, is what the next
\* start would load; what is on the disk and not in memory is the key of a
\* failed creation that a fault kept from being removed (persistMetadata), if a
\* failed write of the key file is seen.
THEOREM MirrorStored ==
    ASSUME WriteErrorsSeen
    PROVE  Spec => []MemoryMirrorsDisk
<1>1. /\ KeyInv /\ [Next]_vars => KeyInv'
      /\ Inv /\ [Next]_vars => Inv'
  BY KeyStep, InvStep
<1>2. KeyInv /\ Inv /\ HiddenByFault /\ [Next]_vars => HiddenByFault'
  BY HiddenStep
<1>3. Inv /\ HiddenByFault => MemoryMirrorsDisk
  BY DEF Inv, Settled, HiddenByFault, MemoryMirrorsDisk
<1>4. Init => HiddenByFault
  BY DEF Init, HiddenByFault
<1> QED
  BY <1>1, <1>2, <1>3, <1>4, KeyInit, InvInit, PTL DEF Spec

-----------------------------------------------------------------------------
(* The temporary file that a call leaves behind.                           *)

\* The steps that have a temporary file of their own.
Owning == {"rename", "clean"}

LeftByFaultOnly == temp /\ call.step \notin Owning => faults > 0

\* A call that meets a temporary file does not touch it, and records nothing.
TempKept ==
    [][temp /\ call.step \notin Owning =>
           /\ temp'
           /\ meta' # meta => call.op = "destroy"]_vars

LEMMA LeftStep ==
    ASSUME Typed, LeftByFaultOnly, [Next]_vars
    PROVE  LeftByFaultOnly'
<1>0. /\ faults \in Nat
      /\ \A kind : Fault(kind) => faults' = faults + 1
  BY FaultsAssumption DEF Typed, TypeOK, Fault
<1>1. faults' = faults \/ faults' = faults + 1
  BY <1>0 DEF Next, Start, Stop, Crash, Create, Save, SaveFails, SaveCut, RollBack,
         Update, Refuse, WriteTemp, Rename, RenameFails, Clean, Destroy, Forget, vars
<1> SUFFICES ASSUME temp', call'.step \notin Owning
             PROVE  faults' > 0
  BY DEF LeftByFaultOnly
<1>2. CASE faults > 0
  BY <1>0, <1>1, <1>2
<1>3. CASE temp /\ call.step \in Owning
  <2>1. CASE Crash \/ Clean
    BY <1>0, <1>3, <2>1 DEF Crash, Clean
  <2>2. ~Rename /\ ~RenameFails
    BY DEF Rename, RenameFails, Owning, Typed, TypeOK
  <2>3. UNCHANGED vars => FALSE
    BY <1>3 DEF vars
  <2>4. call # Idle /\ call.step \in {"rename", "clean"}
    BY <1>3 DEF Owning
  <2>5. /\ ~Start /\ ~Stop /\ ~Save /\ ~SaveFails /\ ~SaveCut /\ ~RollBack
        /\ ~Refuse /\ ~WriteTemp /\ ~Destroy /\ ~Forget
        /\ \A k \in Keys, p \in Policies : ~Create(k, p)
        /\ \A p \in Policies : ~Update(p)
    BY <2>4 DEF Typed, TypeOK, Start, Stop, Save, SaveFails, SaveCut, RollBack,
                Refuse, WriteTemp, Destroy, Forget, Create, Update
  <2> QED BY <2>1, <2>2, <2>3, <2>5 DEF Next
<1>4. CASE ~temp
  <2>1. WriteTemp
    BY <1>4 DEF Next, Start, Stop, Crash, Create, Save, SaveFails, SaveCut, RollBack,
           Update, Refuse, Rename, RenameFails, Clean, Destroy, Forget, vars, disk
  <2>2. call'.step \notin {"rename", "clean"}
    BY DEF Owning
  <2> QED BY <2>1, <2>2 DEF WriteTemp, Typed, TypeOK
<1> QED BY <1>2, <1>3, <1>4 DEF LeftByFaultOnly

LEMMA TempKeptStep ==
    ASSUME Typed, [Next]_vars, temp, call.step \notin Owning
    PROVE  temp' /\ (meta' # meta => call.op = "destroy")
<1>1. ~Rename /\ ~RenameFails /\ ~Clean
  BY DEF Rename, RenameFails, Clean, Owning
<1>2. ~WriteTemp
  BY DEF WriteTemp, Blocked
<1>3. CASE Forget
  BY <1>3 DEF Forget, Typed, TypeOK
<1>4. ASSUME ~Forget PROVE temp' = temp /\ meta' = meta
  BY <1>1, <1>2, <1>4
     DEF Next, Start, Stop, Crash, Create, Save, SaveFails, SaveCut, RollBack,
         Update, Refuse, Destroy, vars, disk
<1>5. Forget => temp' = temp
  BY DEF Forget
<1> QED BY <1>3, <1>4, <1>5

\* A temporary file is left by a fault only; as long as it is there, no call
\* records a policy in the .meta file, however often it is tried: somebody has
\* to remove it (metadata::create tests for it and refuses).
THEOREM LeftoverCorrect == Spec => []LeftByFaultOnly /\ TempKept
<1>1. Init => LeftByFaultOnly
  BY DEF Init, LeftByFaultOnly
<1>2. Typed /\ LeftByFaultOnly /\ [Next]_vars => LeftByFaultOnly'
  BY LeftStep
<1>3. Typed /\ [Next]_vars =>
          [temp /\ call.step \notin Owning =>
               /\ temp'
               /\ meta' # meta => call.op = "destroy"]_vars
  BY TempKeptStep
<1> QED
  BY <1>1, <1>2, <1>3, TypedInit, TypedStep, PTL DEF Spec, TempKept
=============================================================================
