---------------------------- MODULE RuntimeProofs ----------------------------
(***************************************************************************)
(* Theorems about Runtime, for every number of slots, sessions, objects,   *)
(* PINs and templates: the type invariant first, then the invariants that  *)
(* tie sessions, logins and objects together.                              *)
(***************************************************************************)
EXTENDS Runtime, TLAPS

\* The key files stay well typed when one is added or erased.
LEMMA ExtendDisk ==
    ASSUME NEW d, NEW p \in Paths, NEW f, IsDisk(d), IsKeyFile(f)
    PROVE  IsDisk(Extend(d, [q \in {p} |-> f]))
<1> DEFINE e == Extend(d, [q \in {p} |-> f])
<1>1. DOMAIN e = DOMAIN d \cup {p}
  BY DEF Extend
<1>2. e = [q \in DOMAIN e |-> e[q]]
  BY DEF Extend
<1>3. ASSUME NEW q \in DOMAIN e PROVE IsKeyFile(e[q])
  BY <1>1, IsDisk(d) DEF Extend, IsDisk
<1> QED BY <1>1, <1>2, <1>3 DEF IsDisk

LEMMA EraseDisk ==
    ASSUME NEW d, NEW K, IsDisk(d)
    PROVE  IsDisk(Erase(d, K))
BY DEF IsDisk, Erase, Restrict

\* A session or object that does not exist cannot be named.
LEMMA Named ==
    ASSUME TypeOK
    PROVE  /\ (DOMAIN slots # {} \/ DOMAIN sessions # {} \/ DOMAIN objects # {})
                  => initialized
           /\ initialized => DOMAIN slots = SlotIds
BY DEF TypeOK, Empty

\* What TypeOK says of one session and of one object.
LEMMA SessionType ==
    ASSUME TypeOK, NEW s \in DOMAIN sessions
    PROVE  /\ initialized
           /\ s \in SessionHandles
           /\ sessions[s] \in Session
           /\ sessions[s].slot \in SlotIds
           /\ sessions[s].slot \in DOMAIN slots
           /\ SlotOf(s) \in Slot
BY Named DEF TypeOK, Session, SlotOf

LEMMA ObjectType ==
    ASSUME TypeOK, NEW h \in DOMAIN objects
    PROVE  h \in ObjectHandles /\ objects[h] \in Object
BY DEF TypeOK

LEMMA ReadPasswordType ==
    ASSUME NEW content \in Pins \cup {NoPin}
    PROVE  ReadPassword(content) \in Pins \cup {NoPin}
BY PinsAssumption DEF ReadPassword

LEMMA LoadPasswordsType ==
    ASSUME TypeOK, NEW id \in SlotIds
    PROVE  LoadPasswords(id) \in [Roles -> Pins \cup {NoPin}]
<1>1. \A role \in Roles : pinFiles[id][role] \in Pins \cup {NoPin}
  BY DEF TypeOK, PinFiles
<1>2. EnvPin \in Pins \cup {NoPin}
  BY PinsAssumption
<1> QED BY <1>1, <1>2, ReadPasswordType DEF LoadPasswords

LEMMA PolicyType ==
    ASSUME NEW p \in Policies, NEW t \in Policies
    PROVE  ApplyPolicyTemplate(p, t) \in Policies /\ NoPolicy \in Policies
BY DEF ApplyPolicyTemplate, Policies, NoPolicy, Settings

LEMMA LoadedType ==
    ASSUME TypeOK, NEW item \in Stored
    PROVE  Loaded(item) \in Object
<1>1. PICK p \in DOMAIN keyFiles : \E c \in DOMAIN keyFiles[p] :
          item = [path |-> p, class |-> c]
  BY DEF Stored
<1>2. /\ item.path \in Paths
      /\ item.class \in Classes
      /\ keyFiles[item.path][item.class] \in Policies
  BY <1>1 DEF TypeOK, IsDisk, IsKeyFile
<1>3. item.path.slot \in SlotIds
  BY <1>2 DEF Paths
<1> QED BY <1>2, <1>3 DEF Loaded, Object

-----------------------------------------------------------------------------
(* Type correctness, one lemma per group of actions.                       *)

LEMMA InitType == Init => TypeOK
<1> SUFFICES ASSUME Init PROVE TypeOK
  OBVIOUS
<1>1. Empty = [x \in {} |-> x] /\ DOMAIN Empty = {}
  BY DEF Empty
<1>2. Empty \in [{} -> Slot] /\ Empty \in [{} -> Session] /\ Empty \in [{} -> Object]
  BY DEF Empty
<1>3. 1 \in 1..MaxSession + 1 /\ 1 \in 1..MaxObject + 1
  BY BoundsAssumption
<1>4. pinFiles \in PinFiles /\ IsDisk(keyFiles)
  BY PinsAssumption, StorageAssumption DEF Init
<1> QED BY <1>1, <1>2, <1>3, <1>4 DEF Init, TypeOK

LEMMA InitializeType ==
    ASSUME TypeOK, Initialize
    PROVE  TypeOK'
<1>1. PICK n \in 0..MaxObject :
          /\ nextObject' = n + 1
          /\ \E f \in Bijection(1..n, Stored) :
                 objects' = [h \in 1..n |-> Loaded(f[h])]
  BY DEF Initialize
<1>2. PICK f \in [1..n -> Stored] : objects' = [h \in 1..n |-> Loaded(f[h])]
  BY <1>1 DEF Bijection, Injection, Surjection
<1>3. objects' \in [1..n -> Object]
  BY <1>2, LoadedType
<1>4. \A id \in SlotIds :
          [pins |-> LoadPasswords(id), login |-> "none"] \in Slot
  BY LoadPasswordsType DEF Slot
<1>5. slots' \in [SlotIds -> Slot] /\ initialized' = TRUE
  BY <1>4 DEF Initialize
<1>6. DOMAIN objects' \subseteq ObjectHandles /\ nextObject' \in 1..MaxObject + 1
  BY <1>1, <1>3, BoundsAssumption DEF ObjectHandles
<1> QED BY <1>3, <1>5, <1>6 DEF Initialize, TypeOK

LEMMA ClearType ==
    ASSUME TypeOK, Finalize \/ Restart
    PROVE  TypeOK'
<1>1. Empty = [x \in {} |-> x] /\ DOMAIN Empty = {}
  BY DEF Empty
<1>2. Empty \in [{} -> Slot] /\ Empty \in [{} -> Session] /\ Empty \in [{} -> Object]
  BY DEF Empty
<1>3. slots' = Empty /\ sessions' = Empty /\ objects' = Empty /\ initialized' = FALSE
  BY DEF Finalize, Restart, ClearRegistries
<1>4. nextSession' \in 1..MaxSession + 1 /\ nextObject' \in 1..MaxObject + 1
  BY BoundsAssumption DEF Finalize, Restart, TypeOK
<1>5. pinFiles' \in PinFiles /\ IsDisk(keyFiles')
  BY DEF Finalize, Restart, TypeOK
<1> QED BY <1>1, <1>2, <1>3, <1>4, <1>5 DEF TypeOK

LEMMA OpenSessionType ==
    ASSUME TypeOK, NEW id \in DOMAIN slots, NEW rw \in BOOLEAN,
           OpenSession(id, rw)
    PROVE  TypeOK'
<1> DEFINE new == [slot |-> id, rw |-> rw, op |-> NoOperation,
                   search |-> NoSearch]
           one == [h \in {nextSession} |-> new]
<1>1. id \in SlotIds /\ initialized
  BY Named DEF TypeOK
<1>2. NoOperation \in Operation /\ NoSearch \in Search
  BY DEF NoOperation, Operation, NoSearch, Search
<1>3. one \in [DOMAIN one -> Session] /\ DOMAIN one = {nextSession}
  BY <1>1, <1>2 DEF Session
<1>4. sessions \in [DOMAIN sessions -> Session]
  BY DEF TypeOK
<1>5. sessions' = Extend(sessions, one)
  BY DEF OpenSession
<1>6. /\ sessions' \in [DOMAIN sessions' -> Session]
      /\ DOMAIN sessions' = DOMAIN sessions \cup {nextSession}
  BY <1>3, <1>4, <1>5 DEF Extend
<1>7. /\ nextSession \in SessionHandles
      /\ nextSession' \in 1..MaxSession + 1
  BY BoundsAssumption DEF OpenSession, TypeOK, SessionHandles
<1> QED BY <1>1, <1>6, <1>7 DEF OpenSession, TypeOK

\* A step that replaces the logins and erases sessions and objects.
LEMMA EraseStepType ==
    ASSUME TypeOK, initialized,
           slots' \in [DOMAIN slots -> Slot],
           NEW S, sessions' = Erase(sessions, S),
           NEW H, objects' = Erase(objects, H),
           UNCHANGED <<initialized, nextSession, nextObject, pinFiles, keyFiles>>
    PROVE  TypeOK'
<1>1. /\ sessions' \in [DOMAIN sessions' -> Session]
      /\ DOMAIN sessions' \subseteq SessionHandles
  BY DEF Erase, Restrict, TypeOK
<1>2. /\ objects' \in [DOMAIN objects' -> Object]
      /\ DOMAIN objects' \subseteq ObjectHandles
  BY DEF Erase, Restrict, TypeOK
<1> QED BY <1>1, <1>2 DEF TypeOK

\* Assigning a login or a PIN keeps the slots well typed.
LEMMA SlotUpdateType ==
    ASSUME TypeOK, NEW id \in DOMAIN slots
    PROVE  /\ \A who \in Roles \cup {"none"} :
                  [slots EXCEPT ![id].login = who] \in [DOMAIN slots -> Slot]
           /\ \A role \in Roles, pin \in Pins :
                  [slots EXCEPT ![id].pins[role] = pin] \in [DOMAIN slots -> Slot]
<1>1. slots[id] \in Slot
  BY DEF TypeOK
<1>2. \A who \in Roles \cup {"none"} : [slots[id] EXCEPT !.login = who] \in Slot
  BY <1>1 DEF Slot
<1>3. ASSUME NEW role \in Roles, NEW pin \in Pins
      PROVE  [slots[id] EXCEPT !.pins[role] = pin] \in Slot
  BY <1>1 DEF Slot
<1> QED BY <1>2, <1>3 DEF TypeOK

LEMMA SessionStepType ==
    ASSUME TypeOK, NEW s \in DOMAIN sessions, SessionStep(s)
    PROVE  TypeOK'
<1> USE SessionType
<1>1. CASE CloseSession(s)
  <2>1. slots' \in [DOMAIN slots -> Slot]
    BY <1>1, SlotUpdateType DEF CloseSession, TypeOK
  <2> QED BY <1>1, <2>1, EraseStepType DEF CloseSession
<1>2. ASSUME NEW role \in Roles, NEW pin \in Pins, Login(s, role, pin)
      PROVE  TypeOK'
  <2>1. slots' \in [DOMAIN slots -> Slot]
    BY <1>2, SlotUpdateType DEF Login
  <2> QED BY <1>2, <2>1 DEF Login, TypeOK
<1>3. CASE Logout(s)
  <2>1. slots' \in [DOMAIN slots -> Slot]
    BY <1>3, SlotUpdateType DEF Logout
  <2>2. \A x \in DOMAIN sessions : LoggedOut(sessions[x]) \in Session
    <3>1. NoOperation \in Operation /\ NoSearch \in Search
      BY DEF NoOperation, Operation, NoSearch, Search
    <3> QED BY <3>1 DEF LoggedOut, Session
  <2>3. sessions' \in [DOMAIN sessions -> Session]
    BY <1>3, <2>2 DEF Logout, TypeOK
  <2>4. /\ objects' \in [DOMAIN objects' -> Object]
        /\ DOMAIN objects' \subseteq ObjectHandles
    BY <1>3 DEF Erase, Restrict, Logout, TypeOK
  <2> QED BY <1>3, <2>1, <2>3, <2>4 DEF Logout, TypeOK
<1>4. ASSUME NEW role \in Roles, NEW pin \in Pins,
             StorePin(sessions[s].slot, role, pin),
             UNCHANGED <<initialized, sessions, objects, nextSession,
                         nextObject, keyFiles>>
      PROVE  TypeOK'
  <2>1. slots' \in [DOMAIN slots -> Slot]
    BY <1>4, SlotUpdateType DEF StorePin
  <2>2. pinFiles' \in PinFiles
    <3>1. pinFiles[sessions[s].slot] \in [Roles -> Pins \cup {NoPin}]
      BY DEF TypeOK, PinFiles
    <3>2. [pinFiles[sessions[s].slot] EXCEPT ![role] = pin]
              \in [Roles -> Pins \cup {NoPin}]
      BY <3>1
    <3> QED BY <1>4, <3>2 DEF StorePin, TypeOK, PinFiles
  <2> QED BY <1>4, <2>1, <2>2 DEF TypeOK
<1>5. ASSUME NEW pin \in Pins, InitPIN(s, pin)
      PROVE  TypeOK'
  BY <1>4, <1>5 DEF InitPIN, Roles
<1>6. ASSUME NEW old \in Pins, NEW new \in Pins, SetPIN(s, old, new)
      PROVE  TypeOK'
  BY <1>4, <1>6 DEF SetPIN, Roles
<1> QED BY <1>1, <1>2, <1>3, <1>5, <1>6 DEF SessionStep

\* What PathFor and the creation templates are made of.
LEMMA PathType ==
    ASSUME TypeOK, NEW s \in DOMAIN sessions, NEW file \in Files,
           NEW directory \in Directories
    PROVE  PathFor(s, directory, file) \in Paths
BY SessionType DEF PathFor, Paths

\* Publishing objects whose handles, classes and policies are well typed.
LEMMA PublishType ==
    ASSUME TypeOK, NEW s \in DOMAIN sessions, NEW token \in BOOLEAN,
           NEW path \in Paths, NEW classAt, NEW policyOf,
           DOMAIN classAt \subseteq ObjectHandles,
           IsKeyFile(policyOf),
           \A h \in DOMAIN classAt : classAt[h] \in DOMAIN policyOf,
           Publish(s, token, path, classAt, policyOf),
           nextObject' \in 1..MaxObject + 1,
           UNCHANGED <<initialized, slots, sessions, nextSession, pinFiles>>
    PROVE  TypeOK'
<1> DEFINE new(h) == [slot |-> sessions[s].slot, class |-> classAt[h],
                      owner |-> IF token THEN 0 ELSE s,
                      path |-> IF token THEN path ELSE NoPath,
                      policy |-> policyOf[classAt[h]]]
<1>1. \A h \in DOMAIN classAt : new(h) \in Object
  BY SessionType DEF Object, IsKeyFile
<1>2. objects' = Extend(objects, [h \in DOMAIN classAt |-> new(h)])
  BY DEF Publish
<1>3. /\ DOMAIN objects' \subseteq ObjectHandles
      /\ objects' \in [DOMAIN objects' -> Object]
  <2> HIDE DEF new
  <2> QED BY <1>1, <1>2 DEF Extend, TypeOK
<1>4. IsDisk(keyFiles')
  BY ExtendDisk DEF Publish, TypeOK
<1>5. initialized
  BY SessionType
<1> QED BY <1>3, <1>4, <1>5 DEF TypeOK

LEMMA NewSecretKeyType ==
    ASSUME TypeOK, NEW s \in DOMAIN sessions, NEW file \in Files,
           NEW t \in [token : BOOLEAN, policy : Policies],
           NewSecretKey(s, t, file)
    PROVE  TypeOK'
<1> DEFINE path == PathFor(s, "symmetric", file)
           classAt == [h \in {FreshHandle} |-> "secret"]
           policyOf == [c \in {"secret"} |-> t.policy]
<1>1. path \in Paths
  BY PathType DEF Directories
<1>2. DOMAIN classAt \subseteq ObjectHandles /\ nextObject' \in 1..MaxObject + 1
  BY BoundsAssumption DEF NewSecretKey, FreshHandle, TypeOK, ObjectHandles
<1>3. IsKeyFile(policyOf) /\ \A h \in DOMAIN classAt : classAt[h] \in DOMAIN policyOf
  BY DEF IsKeyFile, Classes
<1>4. Publish(s, t.token, path, classAt, policyOf)
  BY DEF NewSecretKey
<1>5. UNCHANGED <<initialized, slots, sessions, nextSession, pinFiles>>
  BY DEF NewSecretKey
<1> HIDE DEF path, classAt, policyOf
<1> QED BY <1>1, <1>2, <1>3, <1>4, <1>5, PublishType

LEMMA LoseHandleType ==
    ASSUME TypeOK, LoseHandle
    PROVE  TypeOK'
BY BoundsAssumption DEF TypeOK, LoseHandle

LEMMA NewKeyPairType ==
    ASSUME TypeOK, NEW s \in DOMAIN sessions, NEW file \in Files,
           NEW token \in BOOLEAN, NEW private \in Policies,
           NEW public \in Policies,
           NewKeyPair(s, token, private, public, file)
    PROVE  TypeOK'
<1> DEFINE path == PathFor(s, "asymmetric", file)
           classAt == [h \in {FreshHandle, FreshHandle + 1} |->
                          IF h = FreshHandle THEN "private" ELSE "public"]
           policyOf == [c \in {"private", "public"} |->
                           IF c = "private" THEN private ELSE public]
<1>1. path \in Paths
  BY PathType DEF Directories
<1>2. DOMAIN classAt \subseteq ObjectHandles /\ nextObject' \in 1..MaxObject + 1
  BY BoundsAssumption DEF NewKeyPair, FreshHandle, TypeOK, ObjectHandles
<1>3. IsKeyFile(policyOf) /\ \A h \in DOMAIN classAt : classAt[h] \in DOMAIN policyOf
  BY DEF IsKeyFile, Classes
<1>4. \/ Publish(s, token, path, classAt, policyOf)
      \/ UNCHANGED <<objects, keyFiles>>
  BY DEF NewKeyPair
<1>5. UNCHANGED <<initialized, slots, sessions, nextSession, pinFiles>>
  BY DEF NewKeyPair
<1>6. CASE UNCHANGED <<objects, keyFiles>>
  BY <1>2, <1>5, <1>6 DEF TypeOK
<1>7. CASE Publish(s, token, path, classAt, policyOf)
  <2> HIDE DEF path, classAt, policyOf
  <2> QED BY <1>1, <1>2, <1>3, <1>5, <1>7, PublishType
<1> QED BY <1>4, <1>6, <1>7

LEMMA CreationStepType ==
    ASSUME TypeOK, NEW s \in DOMAIN sessions, CreationStep(s)
    PROVE  TypeOK'
<1>1. PICK file \in Files :
          \/ \E t \in SecretTemplates : GenerateKey(s, t, file)
          \/ \E t \in PairTemplates : GenerateKeyPair(s, t, file)
          \/ \E h \in DOMAIN objects, t \in SecretTemplates :
                \/ DeriveKey(s, h, t, file)
                \/ UnwrapSecretKey(s, h, t, file)
                \/ UnwrapPrivateKey(s, h, t, file)
  BY DEF CreationStep
<1>2. ASSUME NEW t \in SecretTemplates,
             NewSecretKey(s, t, file) \/ LoseHandle
      PROVE  TypeOK'
  BY <1>2, NewSecretKeyType, LoseHandleType, TemplatesAssumption
<1>3. ASSUME NEW t \in PairTemplates, GenerateKeyPair(s, t, file)
      PROVE  TypeOK'
  <2>1. t.token \in BOOLEAN /\ t.private \in Policies /\ t.public \in Policies
    BY TemplatesAssumption
  <2> QED BY <1>3, <2>1, NewKeyPairType DEF GenerateKeyPair
<1>4. ASSUME NEW h \in DOMAIN objects, NEW t \in SecretTemplates,
             UnwrapPrivateKey(s, h, t, file)
      PROVE  TypeOK'
  <2>1. t.token \in BOOLEAN /\ t.policy \in Policies /\ NoPolicy \in Policies
    BY TemplatesAssumption, PolicyType
  <2> QED BY <1>4, <2>1, NewKeyPairType DEF UnwrapPrivateKey
<1> QED BY <1>1, <1>2, <1>3, <1>4 DEF GenerateKey, DeriveKey, UnwrapSecretKey

LEMMA SetAttributeValueType ==
    ASSUME TypeOK, NEW s \in DOMAIN sessions, NEW h \in DOMAIN objects,
           NEW t \in Updates, SetAttributeValue(s, h, t)
    PROVE  TypeOK'
<1> DEFINE policy == ApplyPolicyTemplate(objects[h].policy, t)
           changed == [objects EXCEPT ![h].policy = policy]
           records == CollectMetadata(changed, objects[h].path)
<1>1. objects[h] \in Object /\ t \in Policies
  BY ObjectType, TemplatesAssumption
<1>2. policy \in Policies
  BY <1>1, PolicyType DEF Object
<1>3. changed \in [DOMAIN objects -> Object]
  <2>1. [objects[h] EXCEPT !.policy = policy] \in Object
    BY <1>1, <1>2 DEF Object
  <2> QED BY <2>1 DEF TypeOK
<1>4. objects' = changed
  BY DEF SetAttributeValue
<1>5. ASSUME objects[h].path \in DOMAIN keyFiles
      PROVE  IsKeyFile(records)
  <2>1. DOMAIN records \subseteq Classes
    BY <1>5 DEF CollectMetadata, TypeOK, IsDisk, IsKeyFile
  <2>2. ASSUME NEW c \in DOMAIN records PROVE records[c] \in Policies
    <3> DEFINE stored == {x \in DOMAIN changed :
                             changed[x].path = objects[h].path /\ changed[x].class = c}
    <3>1. records[c] = IF stored = {} THEN NoPolicy
                       ELSE changed[CHOOSE x \in stored : TRUE].policy
      BY <2>2 DEF CollectMetadata
    <3>2. CASE stored = {}
      BY <3>1, <3>2, <1>1, PolicyType
    <3>3. CASE stored # {}
      <4>1. (CHOOSE x \in stored : TRUE) \in DOMAIN objects
        BY <3>3, <1>3
      <4> HIDE DEF changed
      <4> QED BY <3>1, <3>3, <4>1, <1>3 DEF Object
    <3> QED BY <3>2, <3>3
  <2>3. records = [c \in DOMAIN records |-> records[c]]
    BY DEF CollectMetadata
  <2> QED BY <2>1, <2>2, <2>3 DEF IsKeyFile
<1>6. IsDisk(keyFiles')
  <2>1. keyFiles' = keyFiles \/ keyFiles' = [keyFiles EXCEPT ![objects[h].path] = records]
    BY DEF SetAttributeValue
  <2> HIDE DEF records
  <2> QED BY <2>1, <1>5 DEF TypeOK, IsDisk
<1> HIDE DEF changed
<1>7. initialized
  BY Named
<1> QED BY <1>3, <1>4, <1>6, <1>7 DEF SetAttributeValue, TypeOK

LEMMA DestroyObjectType ==
    ASSUME TypeOK, NEW s \in DOMAIN sessions, NEW h \in DOMAIN objects,
           DestroyObject(s, h)
    PROVE  TypeOK'
<1>1. PICK H : objects' = Erase(objects, H)
  BY DEF DestroyObject
<1>2. /\ DOMAIN objects' \subseteq ObjectHandles
      /\ objects' \in [DOMAIN objects' -> Object]
  BY <1>1 DEF Erase, Restrict, TypeOK
<1>3. IsDisk(keyFiles')
  BY EraseDisk DEF DestroyObject, TypeOK
<1>4. initialized
  BY Named
<1> QED BY <1>2, <1>3, <1>4 DEF DestroyObject, TypeOK

\* The steps that change nothing but the operation or the search of s.
LEMMA SearchStepType ==
    ASSUME TypeOK, NEW s \in DOMAIN sessions,
           NEW new \in Session, sessions' = [sessions EXCEPT ![s] = new],
           UNCHANGED <<initialized, slots, objects, nextSession, nextObject,
                       pinFiles, keyFiles>>
    PROVE  TypeOK'
<1>1. sessions' \in [DOMAIN sessions -> Session] /\ initialized
  BY SessionType DEF TypeOK
<1> QED BY <1>1 DEF TypeOK

LEMMA ObjectStepType ==
    ASSUME TypeOK, NEW s \in DOMAIN sessions, ObjectStep(s)
    PROVE  TypeOK'
<1>0. /\ sessions[s] \in Session
      /\ NoOperation \in Operation
      /\ NoSearch \in Search
  BY SessionType DEF NoOperation, Operation, NoSearch, Search
<1>1. ASSUME NEW classes \in Searches, FindObjectsInit(s, classes)
      PROVE  TypeOK'
  <2> DEFINE found == [active |-> TRUE,
                       pending |-> {h \in Visible(s) :
                           Accessible(s, h) /\ objects[h].class \in classes}]
             new == [sessions[s] EXCEPT !.search = found]
  <2>1. found \in Search
    BY DEF Search, Visible, TypeOK
  <2>2. new \in Session
    <3> HIDE DEF found
    <3> QED BY <1>0, <2>1 DEF Session
  <2>3. sessions' = [sessions EXCEPT ![s] = new]
    BY <1>1 DEF FindObjectsInit
  <2> HIDE DEF new
  <2> QED BY <1>1, <2>2, <2>3, SearchStepType DEF FindObjectsInit
<1>2. ASSUME NEW taken \in SUBSET sessions[s].search.pending,
             FindObjects(s, taken)
      PROVE  TypeOK'
  <2> DEFINE new == [sessions[s] EXCEPT
                        !.search.pending = sessions[s].search.pending \ taken]
  <2>1. new \in Session
    BY <1>0 DEF Session, Search
  <2>2. sessions' = [sessions EXCEPT ![s] = new]
    BY <1>2 DEF FindObjects
  <2> HIDE DEF new
  <2> QED BY <1>2, <2>1, <2>2, SearchStepType DEF FindObjects
<1>3. CASE FindObjectsFinal(s)
  <2> DEFINE new == [sessions[s] EXCEPT !.search = NoSearch]
  <2>1. new \in Session
    BY <1>0 DEF Session
  <2>2. sessions' = [sessions EXCEPT ![s] = new]
    BY <1>3 DEF FindObjectsFinal
  <2> HIDE DEF new
  <2> QED BY <1>3, <2>1, <2>2, SearchStepType DEF FindObjectsFinal
<1>4. ASSUME NEW h \in DOMAIN objects, NEW verify \in BOOLEAN,
             OperationInit(s, h, verify)
      PROVE  TypeOK'
  <2> DEFINE new == [sessions[s] EXCEPT
                        !.op = [active |-> TRUE, verify |-> verify, key |-> h]]
  <2>1. [active |-> TRUE, verify |-> verify, key |-> h] \in Operation
    BY ObjectType DEF Operation
  <2>2. new \in Session
    BY <1>0, <2>1 DEF Session
  <2>3. sessions' = [sessions EXCEPT ![s] = new]
    BY <1>4 DEF OperationInit
  <2> HIDE DEF new
  <2> QED BY <1>4, <2>2, <2>3, SearchStepType DEF OperationInit
<1>5. CASE OperationEnd(s)
  <2> DEFINE new == [sessions[s] EXCEPT !.op = NoOperation]
  <2>1. new \in Session
    BY <1>0 DEF Session
  <2>2. sessions' = [sessions EXCEPT ![s] = new]
    BY <1>5 DEF OperationEnd
  <2> HIDE DEF new
  <2> QED BY <1>5, <2>1, <2>2, SearchStepType DEF OperationEnd
<1> QED BY <1>1, <1>2, <1>3, <1>4, <1>5, SetAttributeValueType,
           DestroyObjectType DEF ObjectStep, ManagementStep, OperationStep

LEMMA NextType == TypeOK /\ [Next]_vars => TypeOK'
<1> SUFFICES ASSUME TypeOK, [Next]_vars PROVE TypeOK'
  OBVIOUS
<1>1. CASE UNCHANGED vars
  BY <1>1 DEF vars, TypeOK
<1>2. ASSUME NEW id \in DOMAIN slots, CloseAllSessions(id)
      PROVE  TypeOK'
  <2>1. slots' \in [DOMAIN slots -> Slot]
    BY <1>2, SlotUpdateType DEF CloseAllSessions
  <2>2. initialized
    BY Named
  <2> QED BY <1>2, <2>1, <2>2, EraseStepType DEF CloseAllSessions
<1> QED BY <1>1, <1>2, InitializeType, ClearType, OpenSessionType,
           SessionStepType, CreationStepType, ObjectStepType DEF Next, LibraryStep

\* Every reachable state is well typed, and the registries are empty whenever
\* the library is not initialised (runtime.hpp, C_Initialize and C_Finalize).
THEOREM TypeCorrect == Spec => []TypeOK
BY InitType, NextType, PTL DEF Spec

-----------------------------------------------------------------------------
(* The invariant that is inductive.  Handles are fresh when they are dealt, *)
(* so that what is still held by a session, or by the objects it owns, is   *)
(* never confused with something newer.                                     *)

HandlesFresh ==
    /\ \A s \in DOMAIN sessions : s < nextSession
    /\ \A h \in DOMAIN objects : h < nextObject

Inv ==
    /\ TypeOK
    /\ HandlesFresh
    /\ SessionObjectsHaveOwner
    /\ LoginNeedsSession
    /\ SoExcludesReadOnly
    /\ ReferencesInSlot
    /\ SecretsNeedLogin

\* A creation adds objects of the caller's slot under numbers not dealt before.
LEMMA CreationShape ==
    ASSUME TypeOK, NEW s \in DOMAIN sessions, CreationStep(s)
    PROVE  /\ UNCHANGED <<initialized, slots, sessions, nextSession>>
           /\ nextObject' \in Nat /\ nextObject <= nextObject'
           /\ DOMAIN objects \subseteq DOMAIN objects'
           /\ \A h \in DOMAIN objects' :
                 \/ h \in DOMAIN objects /\ objects'[h] = objects[h]
                 \/ /\ UserReady(s)
                    /\ nextObject <= h /\ h < nextObject'
                    /\ objects'[h].slot = sessions[s].slot
                    /\ objects'[h].owner \in {0, s}
<1> DEFINE Shape ==
           /\ UNCHANGED <<initialized, slots, sessions, nextSession>>
           /\ nextObject' \in Nat /\ nextObject <= nextObject'
           /\ DOMAIN objects \subseteq DOMAIN objects'
           /\ \A h \in DOMAIN objects' :
                 \/ h \in DOMAIN objects /\ objects'[h] = objects[h]
                 \/ /\ UserReady(s)
                    /\ nextObject <= h /\ h < nextObject'
                    /\ objects'[h].slot = sessions[s].slot
                    /\ objects'[h].owner \in {0, s}
<1>0. nextObject \in Nat
  BY BoundsAssumption DEF TypeOK
<1>1. PICK file \in Files :
          \/ \E t \in SecretTemplates : GenerateKey(s, t, file)
          \/ \E t \in PairTemplates : GenerateKeyPair(s, t, file)
          \/ \E h \in DOMAIN objects, t \in SecretTemplates :
                \/ DeriveKey(s, h, t, file)
                \/ UnwrapSecretKey(s, h, t, file)
                \/ UnwrapPrivateKey(s, h, t, file)
  BY DEF CreationStep
<1>2. ASSUME LoseHandle PROVE Shape
  BY <1>0, <1>2 DEF LoseHandle
<1>3. ASSUME NEW t, NewSecretKey(s, t, file) PROVE Shape
  BY <1>0, <1>3 DEF NewSecretKey, Publish, Extend, FreshHandle, MayCreate
<1>4. ASSUME NEW token, NEW private, NEW public,
             NewKeyPair(s, token, private, public, file)
      PROVE  Shape
  <2> DEFINE path == PathFor(s, "asymmetric", file)
             classAt == [h \in {FreshHandle, FreshHandle + 1} |->
                            IF h = FreshHandle THEN "private" ELSE "public"]
             policyOf == [c \in {"private", "public"} |->
                             IF c = "private" THEN private ELSE public]
  <2>1. /\ UNCHANGED <<initialized, slots, sessions, nextSession>>
        /\ nextObject' = nextObject + 2
        /\ UserReady(s)
    BY <1>4 DEF NewKeyPair, MayCreate
  <2>2. UNCHANGED objects \/ Publish(s, token, path, classAt, policyOf)
    BY <1>4 DEF NewKeyPair
  <2>3. CASE UNCHANGED objects
    BY <1>0, <2>1, <2>3
  <2>4. CASE Publish(s, token, path, classAt, policyOf)
    <3>1. DOMAIN classAt = {nextObject, nextObject + 1}
      BY DEF FreshHandle
    <3> HIDE DEF classAt, policyOf, path
    <3> QED BY <1>0, <2>1, <2>4, <3>1 DEF Publish, Extend
  <2> QED BY <2>2, <2>3, <2>4
<1> HIDE DEF Shape
<1>5. Shape
  BY <1>1, <1>2, <1>3, <1>4 DEF GenerateKey, DeriveKey, UnwrapSecretKey,
     GenerateKeyPair, UnwrapPrivateKey
<1> QED BY <1>5 DEF Shape

\* The calls on PINs leave the logins as they are.
LEMMA PinShape ==
    ASSUME TypeOK, NEW s \in DOMAIN sessions,
           \/ \E pin \in Pins : InitPIN(s, pin)
           \/ \E old, new \in Pins : SetPIN(s, old, new)
    PROVE  /\ UNCHANGED <<initialized, sessions, objects, nextSession, nextObject>>
           /\ DOMAIN slots' = DOMAIN slots
           /\ \A id \in DOMAIN slots : slots'[id].login = slots[id].login
<1>1. \A id \in DOMAIN slots : slots[id] \in Slot
  BY DEF TypeOK
<1>2. PICK role, pin : StorePin(sessions[s].slot, role, pin)
  BY DEF InitPIN, SetPIN
<1>3. \A id \in DOMAIN slots : slots'[id].login = slots[id].login
  BY <1>1, <1>2 DEF StorePin, Slot
<1> QED BY <1>2, <1>3 DEF StorePin, InitPIN, SetPIN

\* The calls on existing objects leave slots and handle counters as they are;
\* objects keep their slot and their owner or disappear.
LEMMA ObjectShape ==
    ASSUME TypeOK, NEW s \in DOMAIN sessions, ObjectStep(s)
    PROVE  /\ UNCHANGED <<initialized, slots, nextSession, nextObject>>
           /\ DOMAIN sessions' = DOMAIN sessions
           /\ \A x \in DOMAIN sessions : /\ sessions'[x].slot = sessions[x].slot
                                         /\ sessions'[x].rw = sessions[x].rw
           /\ DOMAIN objects' \subseteq DOMAIN objects
           /\ \A h \in DOMAIN objects' : /\ objects'[h].slot = objects[h].slot
                                         /\ objects'[h].owner = objects[h].owner
                                         /\ objects'[h].class = objects[h].class
<1>0. /\ \A x \in DOMAIN sessions : sessions[x] \in Session
      /\ \A h \in DOMAIN objects : objects[h] \in Object
  BY DEF TypeOK
<1>1. UNCHANGED <<initialized, slots, nextSession, nextObject>>
  BY DEF ObjectStep, ManagementStep, OperationStep, SetAttributeValue,
     DestroyObject, FindObjectsInit,
     FindObjects, FindObjectsFinal, OperationInit, OperationEnd
<1>2. \/ UNCHANGED objects
      \/ \E h \in DOMAIN objects, t \in Updates : SetAttributeValue(s, h, t)
      \/ \E h \in DOMAIN objects : DestroyObject(s, h)
  BY DEF ObjectStep, ManagementStep, OperationStep, FindObjectsInit, FindObjects, FindObjectsFinal,
     OperationInit, OperationEnd
<1> DEFINE Kept ==
           /\ DOMAIN objects' \subseteq DOMAIN objects
           /\ \A h \in DOMAIN objects' : /\ objects'[h].slot = objects[h].slot
                                         /\ objects'[h].owner = objects[h].owner
                                         /\ objects'[h].class = objects[h].class
<1>3. Kept
  <2>1. ASSUME NEW h \in DOMAIN objects, NEW t \in Updates,
               SetAttributeValue(s, h, t)
        PROVE  Kept
    BY <1>0, <2>1 DEF SetAttributeValue, Object
  <2>2. ASSUME NEW h \in DOMAIN objects, DestroyObject(s, h)
        PROVE  Kept
    BY <2>2 DEF DestroyObject, Erase, Restrict
  <2> QED BY <1>2, <2>1, <2>2
<1>4. \/ UNCHANGED sessions
      \/ \E v : sessions' = [sessions EXCEPT ![s].search = v]
      \/ \E v : sessions' = [sessions EXCEPT ![s].search.pending = v]
      \/ \E v : sessions' = [sessions EXCEPT ![s].op = v]
  BY DEF ObjectStep, ManagementStep, OperationStep, SetAttributeValue,
     DestroyObject, FindObjectsInit,
     FindObjects, FindObjectsFinal, OperationInit, OperationEnd
<1>5. /\ DOMAIN sessions' = DOMAIN sessions
      /\ \A x \in DOMAIN sessions : /\ sessions'[x].slot = sessions[x].slot
                                    /\ sessions'[x].rw = sessions[x].rw
  BY <1>0, <1>4 DEF Session
<1> QED BY <1>1, <1>3, <1>5

LEMMA InitInv == Init => Inv
BY InitType DEF Init, Inv, Empty, HandlesFresh, SessionObjectsHaveOwner,
   LoginNeedsSession, SoExcludesReadOnly, ReferencesInSlot, SecretsNeedLogin

\* The types of counters, handles and slots, in the form the steps below use.
LEMMA BasicTypes ==
    ASSUME TypeOK
    PROVE  /\ nextSession \in Nat \ {0} /\ nextObject \in Nat \ {0}
           /\ DOMAIN sessions \subseteq Nat \ {0}
           /\ DOMAIN objects \subseteq Nat \ {0}
           /\ \A s \in DOMAIN sessions :
                 /\ sessions[s] \in Session
                 /\ sessions[s].slot \in DOMAIN slots
                 /\ \A h \in References(s) : h \in Nat
           /\ \A id \in DOMAIN slots : slots[id] \in Slot
<1>1. /\ nextSession \in Nat \ {0} /\ nextObject \in Nat \ {0}
      /\ SessionHandles \subseteq Nat \ {0} /\ ObjectHandles \subseteq Nat \ {0}
  BY BoundsAssumption DEF TypeOK, SessionHandles, ObjectHandles
<1>2. /\ \A id \in DOMAIN slots : slots[id] \in Slot
      /\ \A s \in DOMAIN sessions : sessions[s] \in Session
      /\ \A s \in DOMAIN sessions : sessions[s].slot \in DOMAIN slots
  BY SessionType DEF TypeOK
<1>3. ASSUME NEW s \in DOMAIN sessions 
      PROVE  \A h \in References(s) : h \in Nat
  <2>1. sessions[s].search \in Search /\ sessions[s].op \in Operation
    BY <1>2 DEF Session
  <2>2. /\ sessions[s].search.pending \subseteq ObjectHandles
        /\ sessions[s].op.key \in ObjectHandles \cup {0}
    BY <2>1 DEF Search, Operation
  <2>3. \A h \in References(s) : h \in ObjectHandles \cup {0}
    BY <2>2 DEF References
  <2> QED BY <2>3, BoundsAssumption DEF ObjectHandles
<1> QED BY <1>1, <1>2, <1>3 DEF TypeOK

LEMMA InitializeInv ==
    ASSUME Inv, Initialize, TypeOK'
    PROVE  Inv'
<1>1. sessions' = Empty /\ DOMAIN Empty = {}
  BY DEF Inv, TypeOK, Initialize, Empty
<1>2. PICK n \in 0..MaxObject :
          /\ nextObject' = n + 1
          /\ \E f : objects' = [h \in 1..n |-> Loaded(f[h])]
  BY DEF Initialize
<1>3. \A h \in DOMAIN objects' : objects'[h].owner = 0 /\ h < nextObject'
  BY <1>2, BoundsAssumption DEF Loaded
<1>4. \A id \in DOMAIN slots' : slots'[id].login = "none"
  BY DEF Initialize
<1> QED BY <1>1, <1>3, <1>4 DEF Inv, HandlesFresh, SessionObjectsHaveOwner,
           LoginNeedsSession, SoExcludesReadOnly, ReferencesInSlot,
           SecretsNeedLogin

LEMMA ClearInv ==
    ASSUME Inv, Finalize \/ Restart, TypeOK'
    PROVE  Inv'
<1>1. slots' = Empty /\ sessions' = Empty /\ objects' = Empty
  BY DEF Finalize, Restart, ClearRegistries
<1>2. DOMAIN Empty = {}
  BY DEF Empty
<1> QED BY <1>1, <1>2 DEF Inv, HandlesFresh, SessionObjectsHaveOwner,
           LoginNeedsSession, SoExcludesReadOnly, ReferencesInSlot,
           SecretsNeedLogin

LEMMA OpenSessionInv ==
    ASSUME Inv, NEW id \in DOMAIN slots, NEW rw \in BOOLEAN,
           OpenSession(id, rw), TypeOK'
    PROVE  Inv'
<1>0. /\ TypeOK /\ HandlesFresh
      /\ UNCHANGED <<slots, objects, nextObject>>
      /\ nextSession' = nextSession + 1
  BY DEF Inv, OpenSession
<1>1. PICK new : new = nextSession
  OBVIOUS
<1>2. /\ new \notin DOMAIN sessions
      /\ DOMAIN sessions' = DOMAIN sessions \cup {new}
      /\ \A s \in DOMAIN sessions : sessions'[s] = sessions[s]
      /\ sessions'[new] = [slot |-> id, rw |-> rw, op |-> NoOperation,
                           search |-> NoSearch]
  BY <1>0, <1>1, BasicTypes DEF OpenSession, Extend, HandlesFresh
<1>3. HandlesFresh'
  BY <1>0, <1>1, <1>2, BasicTypes DEF HandlesFresh
<1>4. SessionObjectsHaveOwner'
  BY <1>0, <1>2 DEF Inv, SessionObjectsHaveOwner
<1>5. LoginNeedsSession'
  BY <1>0, <1>2 DEF Inv, LoginNeedsSession, SessionsOn
<1>6. SoExcludesReadOnly'
  BY <1>0, <1>2 DEF Inv, SoExcludesReadOnly, SlotOf, OpenSession
<1>7. \A h \in References(new)' : h = 0
  <2>1. /\ sessions'[new].search.pending = {}
        /\ sessions'[new].op.key = 0
    BY <1>2 DEF NoOperation, NoSearch
  <2> QED BY <2>1 DEF References
<1>8. \A s \in DOMAIN sessions : References(s)' = References(s)
  BY <1>2 DEF References
<1>9. ReferencesInSlot'
  BY <1>0, <1>2, <1>7, <1>8, BasicTypes DEF Inv, ReferencesInSlot
<1>10. SecretsNeedLogin'
  BY <1>0, <1>2, BasicTypes DEF Inv, SecretsNeedLogin, NoOperation, NoSearch
<1> QED BY <1>3, <1>4, <1>5, <1>6, <1>9, <1>10 DEF Inv

\* CloseSession and CloseAllSessions: some sessions of one slot go, with the
\* objects they own and, when none is left, with the login of the slot.
LEMMA CloseInv ==
    ASSUME Inv, NEW id \in DOMAIN slots, NEW S \in SUBSET SessionsOn(id),
           sessions' = Erase(sessions, S),
           DOMAIN objects' \subseteq DOMAIN objects \ OwnedBy(S),
           \A h \in DOMAIN objects' : objects'[h] = objects[h],
           \A h \in DOMAIN objects \ DOMAIN objects' : objects[h].owner # 0,
           \/ slots' = slots /\ S # SessionsOn(id)
           \/ slots' = [slots EXCEPT ![id].login = "none"] /\ S = SessionsOn(id),
           UNCHANGED <<nextSession, nextObject>>, TypeOK'
    PROVE  Inv'
<1>0. TypeOK
  BY DEF Inv
<1>1. /\ DOMAIN sessions' = DOMAIN sessions \ S
      /\ \A s \in DOMAIN sessions' : sessions'[s] = sessions[s]
  BY DEF Erase, Restrict
<1>2. /\ DOMAIN slots' = DOMAIN slots
      /\ \A x \in DOMAIN slots : \/ slots'[x].login = slots[x].login
                                 \/ x = id /\ slots'[x].login = "none"
  BY <1>0, BasicTypes DEF Slot
<1>3. HandlesFresh'
  BY <1>1 DEF Inv, HandlesFresh
<1>4. SessionObjectsHaveOwner'
  BY <1>1 DEF Inv, SessionObjectsHaveOwner, OwnedBy
<1>5. LoginNeedsSession'
  <2> SUFFICES ASSUME NEW x \in DOMAIN slots, slots'[x].login # "none"
               PROVE  SessionsOn(x)' # {}
    BY <1>2 DEF LoginNeedsSession
  <2>1. slots[x].login # "none" /\ SessionsOn(x) # {}
    BY <1>2 DEF Inv, LoginNeedsSession
  <2>2. CASE x # id
    <3>1. SessionsOn(x) \cap S = {}
      BY <2>2 DEF SessionsOn
    <3> QED BY <2>1, <3>1, <1>1 DEF SessionsOn
  <2>3. CASE x = id
    <3>1. S # SessionsOn(id)
      BY <2>3, <1>0, BasicTypes DEF Slot
    <3> QED BY <2>3, <3>1, <1>1 DEF SessionsOn
  <2> QED BY <2>2, <2>3
<1>6. SoExcludesReadOnly'
  BY <1>0, <1>1, <1>2, BasicTypes DEF Inv, SoExcludesReadOnly, SlotOf
<1>7. ReferencesInSlot'
  BY <1>1 DEF Inv, ReferencesInSlot, References
<1>8. SecretsNeedLogin'
  <2> SUFFICES ASSUME ~LegacyLayout, NEW h \in DOMAIN objects',
                      Protected(objects[h]),
                      slots'[objects[h].slot].login # "USER"
               PROVE  /\ objects[h].owner = 0
                      /\ \A s \in DOMAIN sessions' :
                             /\ sessions[s].op.key # h
                             /\ h \notin sessions[s].search.pending
    BY <1>1 DEF SecretsNeedLogin
  <2>0. h \in DOMAIN objects /\ objects[h].slot \in DOMAIN slots
    BY <1>0, Named, ObjectType DEF Object
  <2>1. CASE slots[objects[h].slot].login # "USER"
    BY <2>0, <2>1, <1>1 DEF Inv, SecretsNeedLogin
  <2>2. CASE slots[objects[h].slot].login = "USER"
    <3>1. objects[h].slot = id /\ S = SessionsOn(id)
      BY <2>0, <2>2, <1>2
    <3>2. \A s \in DOMAIN sessions' : sessions[s].slot # id
      BY <1>1, <3>1 DEF SessionsOn
    <3>3. objects[h].owner = 0
      BY <2>0, <3>1 DEF Inv, SessionObjectsHaveOwner, SessionsOn, OwnedBy
    <3> QED BY <2>0, <3>1, <3>2, <3>3, <1>1 DEF Inv, ReferencesInSlot, References
  <2> QED BY <2>1, <2>2
<1> QED BY <1>3, <1>4, <1>5, <1>6, <1>7, <1>8 DEF Inv

\* Login: the slot had nobody; the officer meets no read-only session.
LEMMA LoginInv ==
    ASSUME Inv, NEW s \in DOMAIN sessions, NEW role \in Roles, NEW pin,
           Login(s, role, pin), TypeOK'
    PROVE  Inv'
<1>0. /\ TypeOK
      /\ UNCHANGED <<sessions, objects, nextSession, nextObject>>
      /\ sessions[s].slot \in DOMAIN slots
  BY BasicTypes DEF Inv, Login
<1>1. /\ DOMAIN slots' = DOMAIN slots
      /\ slots'[sessions[s].slot].login = role
      /\ slots[sessions[s].slot].login = "none"
      /\ \A id \in DOMAIN slots \ {sessions[s].slot} : slots'[id] = slots[id]
  BY <1>0, BasicTypes DEF Login, Slot, SlotOf
<1>2. HandlesFresh' /\ SessionObjectsHaveOwner' /\ ReferencesInSlot'
  BY <1>0 DEF Inv, HandlesFresh, SessionObjectsHaveOwner, ReferencesInSlot,
     References
<1>3. LoginNeedsSession'
  BY <1>0, <1>1 DEF Inv, LoginNeedsSession, SessionsOn
<1>4. SoExcludesReadOnly'
  BY <1>0, <1>1 DEF Inv, SoExcludesReadOnly, SlotOf, Login, OfficerMayEnter,
     SessionsOn
<1>5. SecretsNeedLogin'
  <2>1. \A id \in DOMAIN slots : slots'[id].login # "USER" =>
                                     slots[id].login # "USER"
    BY <1>1
  <2>2. \A h \in DOMAIN objects : objects[h].slot \in DOMAIN slots
    BY <1>0, Named, ObjectType DEF Object
  <2> QED BY <1>0, <2>1, <2>2 DEF Inv, SecretsNeedLogin
<1> QED BY <1>2, <1>3, <1>4, <1>5 DEF Inv

\* Logout ends the operations and searches of the slot and erases the
\* protected session objects of the slot.
LEMMA LogoutInv ==
    ASSUME Inv, NEW s \in DOMAIN sessions, Logout(s), TypeOK'
    PROVE  Inv'
<1> DEFINE slot == sessions[s].slot
<1>0. /\ TypeOK
      /\ UNCHANGED <<nextSession, nextObject>>
      /\ slot \in DOMAIN slots
  BY BasicTypes DEF Inv, Logout
<1>1. /\ DOMAIN slots' = DOMAIN slots
      /\ slots'[slot].login = "none"
      /\ \A id \in DOMAIN slots \ {slot} : slots'[id] = slots[id]
  BY <1>0, BasicTypes DEF Logout, Slot
<1>2. /\ DOMAIN sessions' = DOMAIN sessions
      /\ \A x \in DOMAIN sessions :
            /\ sessions'[x].slot = sessions[x].slot
            /\ sessions'[x].rw = sessions[x].rw
            /\ x \in SessionsOn(slot) => /\ sessions'[x].op = NoOperation
                                         /\ sessions'[x].search = NoSearch
            /\ x \notin SessionsOn(slot) => sessions'[x] = sessions[x]
  <2>1. \A x \in DOMAIN sessions :
            sessions'[x] = IF x \in SessionsOn(slot) THEN LoggedOut(sessions[x])
                                                     ELSE sessions[x]
    BY DEF Logout, SessionsOn
  <2>2. \A x \in DOMAIN sessions : /\ LoggedOut(sessions[x]).slot = sessions[x].slot
                                   /\ LoggedOut(sessions[x]).rw = sessions[x].rw
                                   /\ LoggedOut(sessions[x]).op = NoOperation
                                   /\ LoggedOut(sessions[x]).search = NoSearch
    BY <1>0, BasicTypes DEF LoggedOut, Session
  <2>3. DOMAIN sessions' = DOMAIN sessions
    BY DEF Logout
  <2> QED BY <2>1, <2>2, <2>3
<1>3. /\ DOMAIN objects' \subseteq DOMAIN objects
      /\ \A h \in DOMAIN objects' : objects'[h] = objects[h]
      /\ \A h \in DOMAIN objects' : objects[h].slot = slot =>
             objects[h].owner = 0 \/ ~Protected(objects[h])
  <2> DEFINE gone == {h \in Visible(s) :
                         objects[h].owner # 0 /\ Protected(objects[h])}
  <2>1. objects' = Erase(objects, gone)
    BY DEF Logout
  <2>2. \A h \in DOMAIN objects \ gone :
            objects[h].slot = slot => objects[h].owner = 0 \/ ~Protected(objects[h])
    BY DEF Visible
  <2> HIDE DEF gone
  <2> QED BY <2>1, <2>2 DEF Erase, Restrict
<1>4. HandlesFresh'
  BY <1>0, <1>2, <1>3 DEF Inv, HandlesFresh
<1>5. SessionObjectsHaveOwner'
  BY <1>2, <1>3 DEF Inv, SessionObjectsHaveOwner
<1>6. LoginNeedsSession'
  BY <1>1, <1>2 DEF Inv, LoginNeedsSession, SessionsOn
<1>7. SoExcludesReadOnly'
  BY <1>0, <1>1, <1>2, BasicTypes DEF Inv, SoExcludesReadOnly, SlotOf
<1>8. \A x \in DOMAIN sessions : \A h \in References(x)' :
          h = 0 \/ (h \in References(x) /\ x \notin SessionsOn(slot))
  BY <1>2 DEF References, NoOperation, NoSearch
<1>9. ReferencesInSlot'
  BY <1>0, <1>2, <1>3, <1>8, BasicTypes DEF Inv, ReferencesInSlot
<1>10. SecretsNeedLogin'
  <2> SUFFICES ASSUME ~LegacyLayout, NEW h \in DOMAIN objects',
                      Protected(objects[h]),
                      slots'[objects[h].slot].login # "USER"
               PROVE  /\ objects[h].owner = 0
                      /\ \A x \in DOMAIN sessions' :
                             /\ sessions'[x].op.key # h
                             /\ h \notin sessions'[x].search.pending
    BY <1>3 DEF SecretsNeedLogin
  <2>0. h \in DOMAIN objects /\ h # 0 /\ objects[h].slot \in DOMAIN slots
    BY <1>0, <1>3, Named, ObjectType, BasicTypes DEF Object
  <2>1. CASE objects[h].slot # slot
    <3>1. slots[objects[h].slot].login # "USER"
      BY <2>0, <2>1, <1>1
    <3>2. objects[h].owner = 0 /\ \A x \in DOMAIN sessions : h \notin References(x)
      BY <2>0, <3>1 DEF Inv, SecretsNeedLogin, References
    <3> QED BY <2>0, <3>2, <1>2, <1>8 DEF References
  <2>2. CASE objects[h].slot = slot
    <3>1. objects[h].owner = 0
      BY <2>2, <1>3
    <3>2. \A x \in DOMAIN sessions : h \in References(x) => x \in SessionsOn(slot)
      BY <2>0, <2>2 DEF Inv, ReferencesInSlot, SessionsOn
    <3> QED BY <2>0, <3>1, <3>2, <1>2, <1>8 DEF References
  <2> QED BY <2>1, <2>2
<1> QED BY <1>4, <1>5, <1>6, <1>7, <1>9, <1>10 DEF Inv

\* Whoever creates an object on a slot that demands a PIN is logged in, and no
\* session refers to the new handles yet.
LEMMA CreationInv ==
    ASSUME Inv, NEW s \in DOMAIN sessions, CreationStep(s), TypeOK'
    PROVE  Inv'
<1>0. /\ TypeOK
      /\ UNCHANGED <<slots, sessions, nextSession>>
      /\ nextObject' \in Nat /\ nextObject <= nextObject'
  BY CreationShape DEF Inv
<1>1. \A h \in DOMAIN objects' :
          \/ h \in DOMAIN objects /\ objects'[h] = objects[h]
          \/ /\ UserReady(s)
             /\ nextObject <= h /\ h < nextObject'
             /\ objects'[h].slot = sessions[s].slot
             /\ objects'[h].owner \in {0, s}
  BY CreationShape DEF Inv
<1>2. HandlesFresh'
  BY <1>0, <1>1, BasicTypes DEF Inv, HandlesFresh
<1>3. SessionObjectsHaveOwner'
  BY <1>0, <1>1 DEF Inv, SessionObjectsHaveOwner
<1>4. LoginNeedsSession' /\ SoExcludesReadOnly'
  BY <1>0 DEF Inv, LoginNeedsSession, SessionsOn, SoExcludesReadOnly, SlotOf
<1>5. \A x \in DOMAIN sessions : References(x)' = References(x)
  BY <1>0 DEF References
<1>6. ReferencesInSlot'
  <2> SUFFICES ASSUME NEW x \in DOMAIN sessions, NEW h \in References(x)
               PROVE  /\ h < nextObject'
                      /\ h \in DOMAIN objects' => objects'[h].slot = sessions[x].slot
    BY <1>0, <1>5 DEF ReferencesInSlot
  <2>1. h \in Nat /\ nextObject \in Nat /\ h < nextObject
    BY <1>0, BasicTypes DEF Inv, ReferencesInSlot
  <2> QED BY <1>0, <1>1, <2>1 DEF Inv, ReferencesInSlot
<1>7. SecretsNeedLogin'
  <2> SUFFICES ASSUME ~LegacyLayout, NEW h \in DOMAIN objects',
                      Protected(objects'[h]),
                      slots[objects'[h].slot].login # "USER"
               PROVE  /\ objects'[h].owner = 0
                      /\ \A x \in DOMAIN sessions :
                             /\ sessions[x].op.key # h
                             /\ h \notin sessions[x].search.pending
    BY <1>0 DEF SecretsNeedLogin, Protected, PolicyValue, Value
  <2>1. h \in DOMAIN objects /\ objects'[h] = objects[h]
    BY <1>1 DEF UserReady, RequiresLogin, SlotOf
  <2> QED BY <2>1 DEF Inv, SecretsNeedLogin
<1> QED BY <1>2, <1>3, <1>4, <1>6, <1>7 DEF Inv

\* A session refers to nothing new but what it can see and is allowed to use.
LEMMA ReferenceShape ==
    ASSUME TypeOK, NEW s \in DOMAIN sessions, ObjectStep(s)
    PROVE  \A x \in DOMAIN sessions : \A h \in References(x)' :
               \/ h = 0
               \/ h \in References(x)
               \/ x = s /\ h \in Visible(s) /\ Accessible(s, h) /\ UNCHANGED objects
<1> DEFINE Allowed(x, h) ==
               \/ h = 0
               \/ h \in References(x)
               \/ x = s /\ h \in Visible(s) /\ Accessible(s, h) /\ UNCHANGED objects
<1>0. sessions[s] \in Session /\ \A x \in DOMAIN sessions : sessions[x] \in Session
  BY DEF TypeOK
<1> SUFFICES ASSUME NEW x \in DOMAIN sessions, NEW h \in References(x)'
             PROVE  Allowed(x, h)
  OBVIOUS
<1>1. CASE sessions'[x] = sessions[x]
  BY <1>1 DEF References
<1>2. CASE x = s
  <2>1. CASE UNCHANGED sessions
    BY <2>1 DEF References
  <2>2. ASSUME NEW classes, FindObjectsInit(s, classes)
        PROVE  Allowed(s, h)
    BY <1>0, <1>2, <2>2 DEF FindObjectsInit, References, Session
  <2>3. ASSUME NEW taken, FindObjects(s, taken)
        PROVE  Allowed(s, h)
    BY <1>0, <1>2, <2>3 DEF FindObjects, References, Session, Search
  <2>4. CASE FindObjectsFinal(s)
    BY <1>0, <1>2, <2>4 DEF FindObjectsFinal, References, Session, NoSearch
  <2>5. ASSUME NEW key \in DOMAIN objects, NEW verify, OperationInit(s, key, verify)
        PROVE  Allowed(s, h)
    BY <1>0, <1>2, <2>5 DEF OperationInit, References, Session
  <2>6. CASE OperationEnd(s)
    BY <1>0, <1>2, <2>6 DEF OperationEnd, References, Session, NoOperation
  <2> QED BY <1>2, <2>1, <2>2, <2>3, <2>4, <2>5, <2>6
          DEF ObjectStep, ManagementStep, OperationStep, SetAttributeValue, DestroyObject
<1>3. x = s \/ sessions'[x] = sessions[x]
  BY DEF ObjectStep, ManagementStep, OperationStep, SetAttributeValue,
     DestroyObject, FindObjectsInit,
     FindObjects, FindObjectsFinal, OperationInit, OperationEnd
<1> QED BY <1>1, <1>2, <1>3

\* Only a logged-in user changes the policy of an object, of his own slot.
LEMMA PolicyShape ==
    ASSUME TypeOK, NEW s \in DOMAIN sessions, ObjectStep(s)
    PROVE  \A h \in DOMAIN objects' :
               \/ objects'[h] = objects[h]
               \/ h \in Visible(s) /\ UserReady(s)
<1>1. ASSUME NEW k \in DOMAIN objects, NEW t \in Updates,
             SetAttributeValue(s, k, t), NEW h \in DOMAIN objects'
      PROVE  \/ objects'[h] = objects[h]
             \/ h \in Visible(s) /\ UserReady(s)
  BY <1>1 DEF SetAttributeValue
<1>2. ASSUME NEW k \in DOMAIN objects, DestroyObject(s, k),
             NEW h \in DOMAIN objects'
      PROVE  objects'[h] = objects[h]
  BY <1>2 DEF DestroyObject, Erase, Restrict
<1>3. \/ UNCHANGED objects
      \/ \E k \in DOMAIN objects, t \in Updates : SetAttributeValue(s, k, t)
      \/ \E k \in DOMAIN objects : DestroyObject(s, k)
  BY DEF ObjectStep, ManagementStep, OperationStep, FindObjectsInit, FindObjects, FindObjectsFinal,
     OperationInit, OperationEnd
<1> QED BY <1>1, <1>2, <1>3

LEMMA ObjectStepInv ==
    ASSUME Inv, NEW s \in DOMAIN sessions, ObjectStep(s), TypeOK'
    PROVE  Inv'
<1>0. /\ TypeOK
      /\ UNCHANGED <<slots, nextSession, nextObject>>
      /\ DOMAIN sessions' = DOMAIN sessions
      /\ \A x \in DOMAIN sessions : /\ sessions'[x].slot = sessions[x].slot
                                    /\ sessions'[x].rw = sessions[x].rw
      /\ DOMAIN objects' \subseteq DOMAIN objects
      /\ \A h \in DOMAIN objects' : /\ objects'[h].slot = objects[h].slot
                                    /\ objects'[h].owner = objects[h].owner
  BY ObjectShape DEF Inv
<1>1. HandlesFresh'
  BY <1>0 DEF Inv, HandlesFresh
<1>2. SessionObjectsHaveOwner'
  BY <1>0 DEF Inv, SessionObjectsHaveOwner
<1>3. LoginNeedsSession' /\ SoExcludesReadOnly'
  BY <1>0 DEF Inv, LoginNeedsSession, SessionsOn, SoExcludesReadOnly, SlotOf
<1>4. ReferencesInSlot'
  <2> SUFFICES ASSUME NEW x \in DOMAIN sessions, NEW h \in References(x)'
               PROVE  /\ h < nextObject
                      /\ h \in DOMAIN objects' => objects'[h].slot = sessions[x].slot
    BY <1>0 DEF ReferencesInSlot
  <2>1. \/ h = 0
        \/ h \in References(x)
        \/ x = s /\ h \in Visible(s)
    BY <1>0, ReferenceShape
  <2>2. CASE h = 0
    BY <1>0, <2>2, BasicTypes
  <2>3. CASE h \in References(x)
    BY <1>0, <2>3 DEF Inv, ReferencesInSlot
  <2>4. CASE x = s /\ h \in Visible(s)
    BY <1>0, <2>4 DEF Inv, HandlesFresh, Visible
  <2> QED BY <2>1, <2>2, <2>3, <2>4
<1>5. SecretsNeedLogin'
  <2> SUFFICES ASSUME ~LegacyLayout, NEW h \in DOMAIN objects',
                      Protected(objects'[h]),
                      slots[objects'[h].slot].login # "USER"
               PROVE  /\ objects'[h].owner = 0
                      /\ \A x \in DOMAIN sessions : h \notin References(x)'
    BY <1>0 DEF SecretsNeedLogin, References, Protected, PolicyValue, Value
  <2>1. h \in DOMAIN objects /\ h # 0
    BY <1>0, BasicTypes
  <2>2. h \in Visible(s) => ~UserReady(s)
    BY <1>0 DEF Visible, UserReady, RequiresLogin, SlotOf
  <2>3. objects'[h] = objects[h]
    BY <1>0, <2>2, PolicyShape
  <2>4. /\ objects[h].owner = 0
        /\ \A x \in DOMAIN sessions : h \notin References(x)
    BY <2>1, <2>3 DEF Inv, SecretsNeedLogin, References
  <2>5. h \in Visible(s) => ~Accessible(s, h)
    BY <2>2, <2>3 DEF Accessible
  <2> QED BY <1>0, <2>1, <2>3, <2>4, <2>5, ReferenceShape
<1> QED BY <1>1, <1>2, <1>3, <1>4, <1>5 DEF Inv

LEMMA SessionStepInv ==
    ASSUME Inv, NEW s \in DOMAIN sessions, SessionStep(s), TypeOK'
    PROVE  Inv'
<1>0. TypeOK
  BY DEF Inv
<1>1. CASE CloseSession(s)
  <2> DEFINE id == sessions[s].slot
  <2>1. id \in DOMAIN slots /\ {s} \in SUBSET SessionsOn(id)
    BY <1>0, BasicTypes DEF SessionsOn
  <2>2. /\ sessions' = Erase(sessions, {s})
        /\ objects' = Erase(objects, OwnedBy({s}))
        /\ UNCHANGED <<nextSession, nextObject>>
        /\ \/ slots' = slots /\ {s} # SessionsOn(id)
           \/ slots' = [slots EXCEPT ![id].login = "none"] /\ {s} = SessionsOn(id)
    BY <1>1 DEF CloseSession, LastSession
  <2>3. /\ DOMAIN objects' = DOMAIN objects \ OwnedBy({s})
        /\ \A h \in DOMAIN objects' : objects'[h] = objects[h]
    BY <2>2 DEF Erase, Restrict
  <2>4. \A h \in DOMAIN objects \ DOMAIN objects' : objects[h].owner # 0
    BY <1>0, <2>3, BasicTypes DEF OwnedBy
  <2> HIDE DEF id
  <2> QED BY <2>1, <2>2, <2>3, <2>4, CloseInv
<1>2. CASE \/ \E pin \in Pins : InitPIN(s, pin)
           \/ \E old, new \in Pins : SetPIN(s, old, new)
  <2>1. /\ UNCHANGED <<sessions, objects, nextSession, nextObject>>
        /\ DOMAIN slots' = DOMAIN slots
        /\ \A id \in DOMAIN slots : slots'[id].login = slots[id].login
    BY <1>0, <1>2, PinShape
  <2>2. /\ \A x \in DOMAIN sessions : sessions[x].slot \in DOMAIN slots
        /\ \A h \in DOMAIN objects : objects[h].slot \in DOMAIN slots
    BY <1>0, Named, BasicTypes, ObjectType DEF Object
  <2>3. /\ HandlesFresh' /\ SessionObjectsHaveOwner' /\ ReferencesInSlot'
        /\ LoginNeedsSession' /\ SoExcludesReadOnly'
    BY <2>1, <2>2 DEF Inv, HandlesFresh, SessionObjectsHaveOwner,
       ReferencesInSlot, References, LoginNeedsSession, SessionsOn,
       SoExcludesReadOnly, SlotOf
  <2>4. SecretsNeedLogin'
    BY <2>1, <2>2 DEF Inv, SecretsNeedLogin
  <2> QED BY <2>3, <2>4 DEF Inv
<1> QED BY <1>1, <1>2, LoginInv, LogoutInv DEF SessionStep

LEMMA CloseAllSessionsInv ==
    ASSUME Inv, NEW id \in DOMAIN slots, CloseAllSessions(id), TypeOK'
    PROVE  Inv'
<1>1. /\ sessions' = Erase(sessions, SessionsOn(id))
      /\ slots' = [slots EXCEPT ![id].login = "none"]
      /\ UNCHANGED <<nextSession, nextObject>>
  BY DEF CloseAllSessions
<1>2. /\ DOMAIN objects' = DOMAIN objects \
                 {h \in DOMAIN objects : objects[h].slot = id /\ objects[h].owner # 0}
      /\ \A h \in DOMAIN objects' : objects'[h] = objects[h]
  BY DEF CloseAllSessions, Erase, Restrict
<1>3. \A h \in OwnedBy(SessionsOn(id)) : objects[h].slot = id /\ objects[h].owner # 0
  BY BasicTypes DEF Inv, SessionObjectsHaveOwner, OwnedBy, SessionsOn
<1> QED BY <1>1, <1>2, <1>3, CloseInv DEF OwnedBy

LEMMA NextInv == Inv /\ [Next]_vars => Inv'
<1> SUFFICES ASSUME Inv, [Next]_vars PROVE Inv'
  OBVIOUS
<1>1. TypeOK'
  BY NextType DEF Inv
<1>2. CASE UNCHANGED vars
  BY <1>1, <1>2 DEF vars, Inv, HandlesFresh, SessionObjectsHaveOwner,
     LoginNeedsSession, SessionsOn, SoExcludesReadOnly, SlotOf,
     ReferencesInSlot, References, SecretsNeedLogin
<1> QED BY <1>1, <1>2, InitializeInv, ClearInv, OpenSessionInv,
           CloseAllSessionsInv, SessionStepInv, CreationInv, ObjectStepInv
        DEF Next, LibraryStep

\* The inductive invariant holds in every reachable state: sessions, logins,
\* objects and what the sessions refer to fit together (runtime.hpp).
THEOREM Inductive == Spec => []Inv
BY InitInv, NextInv, PTL DEF Spec

\* A session object never outlives the session that created it, whatever the
\* order in which sessions are closed (C_CloseSession, C_CloseAllSessions).
THEOREM OwnersCorrect == Spec => []SessionObjectsHaveOwner
<1>1. Inv => SessionObjectsHaveOwner
  BY DEF Inv
<1> QED BY <1>1, Inductive, PTL

\* A login never outlives the last session of its slot.
THEOREM LoginCorrect == Spec => []LoginNeedsSession
<1>1. Inv => LoginNeedsSession
  BY DEF Inv
<1> QED BY <1>1, Inductive, PTL

\* The security officer and a read-only session never share a slot
\* (the tests of C_OpenSession and C_Login).
THEOREM OfficerCorrect == Spec => []SoExcludesReadOnly
<1>1. Inv => SoExcludesReadOnly
  BY DEF Inv
<1> QED BY <1>1, Inductive, PTL

\* An operation or a search never refers to an object of another slot
\* (findObject), nor to a handle that was not dealt yet.
THEOREM SlotsCorrect == Spec => []ReferencesInSlot
<1>1. Inv => ReferencesInSlot
  BY DEF Inv
<1> QED BY <1>1, Inductive, PTL

\* Nothing that needs the user's login outlives it: no protected session
\* object, no operation, no search result (C_Logout, objectAccessStatus).
THEOREM SecretsCorrect == Spec => []SecretsNeedLogin
<1>1. Inv => SecretsNeedLogin
  BY DEF Inv
<1> QED BY <1>1, Inductive, PTL

-----------------------------------------------------------------------------
(* An action property that follows from the invariant.                     *)

LEMMA NewHandles ==
    ASSUME Inv, [Next]_vars,
           NEW s \in DOMAIN sessions \cap DOMAIN sessions'
    PROVE  References(s) \cap (DOMAIN objects' \ DOMAIN objects) = {}
<1>0. TypeOK /\ initialized
  BY SessionType DEF Inv
<1>1. CASE \/ UNCHANGED vars
           \/ \E id \in DOMAIN slots, rw \in BOOLEAN : OpenSession(id, rw)
           \/ \E id \in DOMAIN slots : CloseAllSessions(id)
           \/ \E x \in DOMAIN sessions : SessionStep(x) \/ ObjectStep(x)
  <2>1. DOMAIN objects' \subseteq DOMAIN objects
    BY <1>0, <1>1, ObjectShape DEF vars, OpenSession, CloseAllSessions, SessionStep,
       CloseSession, Login, Logout, InitPIN, SetPIN, Erase, Restrict
  <2> QED BY <2>1
<1>2. CASE Initialize \/ Finalize \/ Restart
  BY <1>0, <1>2 DEF Initialize, Finalize, Restart, ClearRegistries, Empty
<1>3. ASSUME NEW x \in DOMAIN sessions, CreationStep(x)
      PROVE  References(s) \cap (DOMAIN objects' \ DOMAIN objects) = {}
  <2>1. \A h \in DOMAIN objects' \ DOMAIN objects : nextObject <= h /\ h < nextObject'
    BY <1>0, <1>3, CreationShape
  <2>2. \A h \in References(s) : h \in Nat /\ h < nextObject
    BY <1>0, BasicTypes DEF Inv, ReferencesInSlot
  <2>3. nextObject \in Nat
    BY <1>0, BasicTypes
  <2> QED BY <2>1, <2>2, <2>3
<1> QED BY <1>1, <1>2, <1>3 DEF Next, LibraryStep

\* A handle that an operation or a search still holds is never given to a new
\* object: handles only grow (runtime.nextObjectHandle++).
THEOREM HandlesCorrect == Spec => StaleStaysStale
<1>1. Inv /\ [Next]_vars =>
          [\A s \in DOMAIN sessions \cap DOMAIN sessions' :
              References(s) \cap (DOMAIN objects' \ DOMAIN objects) = {}]_vars
  BY NewHandles
<1> QED BY <1>1, Inductive, PTL DEF Spec, StaleStaysStale

=============================================================================
