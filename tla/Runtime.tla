------------------------------- MODULE Runtime -------------------------------
(***************************************************************************)
(* The token state of the simulator (RuntimeState in src/src/core/         *)
(* runtime.hpp) and the calls that change it: library life cycle, sessions,*)
(* login and PINs, creation, update and destruction of objects, searches   *)
(* and signature operations.                                               *)
(*                                                                         *)
(* Every exported call runs under one lock (src/src/pkcs11/boundary.hpp),  *)
(* so a call is one action, and an interleaving of client threads is an    *)
(* interleaving of actions.  A call that returns an error before it has    *)
(* changed anything is a stuttering step.  File writes succeed, or fail    *)
(* without a trace: what they leave behind when they do not is not modelled*)
(* here.                                                                   *)
(*                                                                         *)
(* Key bytes, labels, ids and the data being signed are left out: a file   *)
(* name stands for a label, and two labels that map to one file name are   *)
(* one element of Files.                                                   *)
(***************************************************************************)
EXTENDS Integers, FiniteSets, Functions, Policy

CONSTANTS
    SlotIds,          \* slot directories found below the storage root
    LegacyLayout,     \* no numbered directory: one implicit slot, number 1
    Files,            \* base names of key files
    Pins,             \* what a PIN file may contain, what a client may type
    NoPin,            \* no PIN configured
    EnvPin,           \* HSM_SIM_PIN, or NoPin
    NoPath,           \* Object::path of a session object
    SecretTemplates,  \* templates of GenerateKey, DeriveKey, UnwrapKey
    PairTemplates,    \* template pairs of GenerateKeyPair
    Updates,          \* templates of SetAttributeValue
    Searches,         \* classes that a FindObjectsInit template may select
    InitialPinFiles,  \* PIN files before the first start
    InitialKeyFiles,  \* key files before the first start
    MaxSession,       \* bound: sessions opened in one life of the process
    MaxObject         \* bound: object handles drawn in one life

Roles == {"USER", "SO"}
Directories == {"asymmetric", "symmetric"}

Paths == [slot : SlotIds, directory : Directories, file : Files]

\* A PIN is a text, which a byte order mark may precede.
PinFiles == [SlotIds -> [Roles -> Pins \cup {NoPin}]]

\* The objects a key file holds, each with the policy recorded beside it.
IsKeyFile(f) == DOMAIN f \subseteq Classes /\ f \in [DOMAIN f -> Policies]

\* The key files of the storage root.
IsDisk(d) ==
    /\ DOMAIN d \subseteq Paths
    /\ d = [p \in DOMAIN d |-> d[p]]
    /\ \A p \in DOMAIN d : IsKeyFile(d[p])

ASSUME SlotsAssumption ==
    /\ SlotIds \subseteq Nat
    /\ LegacyLayout \in BOOLEAN
    /\ LegacyLayout => SlotIds = {1}

ASSUME PinsAssumption ==
    /\ Pins \subseteq [bom : BOOLEAN, text : STRING]
    /\ \A pin \in Pins : [pin EXCEPT !.bom = FALSE] \in Pins
    /\ NoPin \notin Pins
    /\ EnvPin \in Pins \cup {NoPin}
    /\ InitialPinFiles \in PinFiles

ASSUME TemplatesAssumption ==
    /\ SecretTemplates \subseteq [token : BOOLEAN, policy : Policies]
    /\ PairTemplates \subseteq
           [token : BOOLEAN, private : Policies, public : Policies]
    /\ Updates \subseteq Policies
    /\ Searches \subseteq SUBSET Classes

ASSUME StorageAssumption ==
    /\ NoPath \notin Paths
    /\ IsDisk(InitialKeyFiles)

ASSUME BoundsAssumption == MaxSession \in Nat /\ MaxObject \in Nat

VARIABLES
    initialized,  \* C_Initialize was called
    slots,        \* slot number -> PINs in memory and who is logged in
    sessions,     \* session handle -> session
    objects,      \* object handle -> object
    nextSession,  \* next session handle
    nextObject,   \* next object handle
    pinFiles,     \* disk: pin.txt and so-pin.txt of each slot
    keyFiles      \* disk: path -> class -> policy

memory == <<initialized, slots, sessions, objects, nextSession, nextObject>>
vars == <<initialized, slots, sessions, objects, nextSession, nextObject,
          pinFiles, keyFiles>>

-----------------------------------------------------------------------------
SessionHandles == 1..MaxSession
ObjectHandles == 1..MaxObject

Slot == [pins : [Roles -> Pins \cup {NoPin}], login : Roles \cup {"none"}]

Operation == [active : BOOLEAN, verify : BOOLEAN, key : ObjectHandles \cup {0}]
NoOperation == [active |-> FALSE, verify |-> FALSE, key |-> 0]

\* A search keeps the handles it has not handed out yet.
Search == [active : BOOLEAN, pending : SUBSET ObjectHandles]
NoSearch == [active |-> FALSE, pending |-> {}]

Session == [slot : SlotIds, rw : BOOLEAN, op : Operation, search : Search]

\* owner = 0 marks a token object, otherwise the session that created it.
Object == [slot : SlotIds, class : Classes, owner : SessionHandles \cup {0},
           path : Paths \cup {NoPath}, policy : Policies]

Empty == [x \in {} |-> x]

\* map plus the entries of the map more
Extend(map, more) ==
    [x \in DOMAIN map \cup DOMAIN more |->
        IF x \in DOMAIN more THEN more[x] ELSE map[x]]

\* map without the keys in S
Erase(map, S) == Restrict(map, DOMAIN map \ S)

\* readPassword: a mark at the start of the file is not part of the PIN.
ReadPassword(content) ==
    IF content = NoPin THEN NoPin ELSE [content EXCEPT !.bom = FALSE]

\* Mutant of LoadPasswords: the environment wins over the file.
EnvironmentFirst(id) ==
    [role \in Roles |->
        IF role = "USER" /\ EnvPin # NoPin
        THEN EnvPin
        ELSE ReadPassword(pinFiles[id][role])]

\* loadPasswords: HSM_SIM_PIN replaces a missing pin.txt, never so-pin.txt.
LoadPasswords(id) ==
    [role \in Roles |->
        IF role = "USER" /\ pinFiles[id][role] = NoPin
        THEN EnvPin
        ELSE ReadPassword(pinFiles[id][role])]

RequiresLogin(slot) ==
    \/ ~LegacyLayout
    \/ \E role \in Roles : slot.pins[role] # NoPin

\* A legacy slot without any PIN lets everybody in; checkPin otherwise.
PinAccepted(slot, role, pin) ==
    \/ ~RequiresLogin(slot)
    \/ slot.pins[role] # NoPin /\ pin = slot.pins[role]

SlotOf(s) == slots[sessions[s].slot]

\* Mutant of SessionsOn: the slot is not compared.
EverySession(id) == DOMAIN sessions

SessionsOn(id) == {s \in DOMAIN sessions : sessions[s].slot = id}

\* Mutant of Visible: the slots are not compared.
VisibleAnywhere(s) == DOMAIN objects

\* findObject: a session only sees the objects of its own slot.
Visible(s) == {h \in DOMAIN objects : objects[h].slot = sessions[s].slot}

\* requireUserLogin
UserReady(s) == RequiresLogin(SlotOf(s)) => SlotOf(s).login = "USER"

\* objectAccessStatus
Accessible(s, h) == Protected(objects[h]) => UserReady(s)

\* Mutant of OwnedBy: the objects of a session are forgotten.
OwnedByNobody(S) == {}

\* The objects erased together with their owners.
OwnedBy(S) == {h \in DOMAIN objects : objects[h].owner \in S}

\* The objects that share a key file.
Siblings(path) == {h \in DOMAIN objects : objects[h].path = path}

-----------------------------------------------------------------------------
(* Library life cycle.                                                     *)

Init ==
    /\ initialized = FALSE
    /\ slots = Empty
    /\ sessions = Empty
    /\ objects = Empty
    /\ nextSession = 1
    /\ nextObject = 1
    /\ pinFiles = InitialPinFiles
    /\ keyFiles = InitialKeyFiles

\* What there is to load: an object per class that a key file holds.
Stored ==
    UNION {{[path |-> p, class |-> c] : c \in DOMAIN keyFiles[p]} :
              p \in DOMAIN keyFiles}

\* registerKeyPair: private key, public key, certificate.
Rank == [private |-> 1, public |-> 2, certificate |-> 3, secret |-> 1]

\* The order handles are dealt in: slots ascending, PKCS#12 files before AES
\* files, the members of one file in a row.  The order of the files of one
\* directory is the file system's.
InLoadOrder(f) ==
    \A i, j \in DOMAIN f : i < j =>
        LET a == f[i].path
            b == f[j].path
        IN  /\ a.slot <= b.slot
            /\ a.slot = b.slot =>
                   a.directory = "asymmetric" \/ b.directory = "symmetric"
            /\ a = b => /\ \A k \in i..j : f[k].path = a
                        /\ Rank[f[i].class] < Rank[f[j].class]

\* registerKeyPair, loadSymmetricFiles, then loadObjectMetadata
Loaded(item) ==
    [slot |-> item.path.slot, class |-> item.class, owner |-> 0,
     path |-> item.path, policy |-> keyFiles[item.path][item.class]]

\* discoverSlots and loadTokenObjects on a storage root they accept
Initialize ==
    /\ ~initialized
    /\ initialized' = TRUE
    /\ slots' = [id \in SlotIds |->
                    [pins |-> LoadPasswords(id), login |-> "none"]]
    /\ \E n \in 0..MaxObject :
        /\ n = Cardinality(Stored)
        /\ nextObject' = n + 1
        /\ \E f \in Bijection(1..n, Stored) :
            /\ InLoadOrder(f)
            /\ objects' = [h \in 1..n |-> Loaded(f[h])]
    /\ UNCHANGED <<sessions, nextSession, pinFiles, keyFiles>>

\* Mutant of ClearRegistries: the sessions stay.
ClearSlotsAndObjects ==
    /\ slots' = Empty
    /\ objects' = Empty
    /\ UNCHANGED sessions

ClearRegistries ==
    /\ slots' = Empty
    /\ objects' = Empty
    /\ sessions' = Empty

\* The handle counters survive: the next Initialize resets one of them.
Finalize ==
    /\ initialized
    /\ initialized' = FALSE
    /\ ClearRegistries
    /\ UNCHANGED <<nextSession, nextObject, pinFiles, keyFiles>>

\* The process ends, by itself or not, and another one loads the library.
Restart ==
    /\ initialized' = FALSE
    /\ ClearRegistries
    /\ nextSession' = 1
    /\ nextObject' = 1
    /\ UNCHANGED <<pinFiles, keyFiles>>

-----------------------------------------------------------------------------
(* Sessions, login and PINs.  A session handle s is one findSession knows. *)

OpenSession(id, rw) ==
    /\ id \in DOMAIN slots
    /\ nextSession <= MaxSession
    /\ ~rw => slots[id].login # "SO"
    /\ sessions' = Extend(sessions, [h \in {nextSession} |->
           [slot |-> id, rw |-> rw, op |-> NoOperation, search |-> NoSearch]])
    /\ nextSession' = nextSession + 1
    /\ UNCHANGED <<initialized, slots, objects, nextObject, pinFiles, keyFiles>>

\* Mutant of LastSession: the sessions of the other slots count.
LastSessionOfAll(s) == DOMAIN sessions = {s}

LastSession(s) == SessionsOn(sessions[s].slot) = {s}

\* Mutant of CloseSession: every session object of the slot goes.
CloseSessionOfSlot(s) ==
    /\ sessions' = Erase(sessions, {s})
    /\ objects' = Erase(objects, {h \in Visible(s) : objects[h].owner # 0})
    /\ slots' = IF LastSession(s)
                THEN [slots EXCEPT ![sessions[s].slot].login = "none"]
                ELSE slots
    /\ UNCHANGED <<initialized, nextSession, nextObject, pinFiles, keyFiles>>

CloseSession(s) ==
    /\ sessions' = Erase(sessions, {s})
    /\ objects' = Erase(objects, OwnedBy({s}))
    /\ slots' = IF LastSession(s)
                THEN [slots EXCEPT ![sessions[s].slot].login = "none"]
                ELSE slots
    /\ UNCHANGED <<initialized, nextSession, nextObject, pinFiles, keyFiles>>

CloseAllSessions(id) ==
    /\ id \in DOMAIN slots
    /\ sessions' = Erase(sessions, SessionsOn(id))
    /\ objects' = Erase(objects, {h \in DOMAIN objects :
                                     objects[h].slot = id /\ objects[h].owner # 0})
    /\ slots' = [slots EXCEPT ![id].login = "none"]
    /\ UNCHANGED <<initialized, nextSession, nextObject, pinFiles, keyFiles>>

\* Mutant of OfficerMayEnter: only the session of the call is tested.
OwnSessionMayEnter(s) == sessions[s].rw

\* The officer needs a read-write session and no read-only one on the slot.
OfficerMayEnter(s) ==
    /\ sessions[s].rw
    /\ \A other \in SessionsOn(sessions[s].slot) : sessions[other].rw

Login(s, role, pin) ==
    /\ SlotOf(s).login = "none"
    /\ role = "SO" => OfficerMayEnter(s)
    /\ PinAccepted(SlotOf(s), role, pin)
    /\ slots' = [slots EXCEPT ![sessions[s].slot].login = role]
    /\ UNCHANGED <<initialized, sessions, objects, nextSession, nextObject,
                   pinFiles, keyFiles>>

\* Mutant of LoggedOut: the operation goes on.
SearchEnded(session) == [session EXCEPT !.search = NoSearch]

LoggedOut(session) ==
    [session EXCEPT !.op = NoOperation, !.search = NoSearch]

Logout(s) ==
    /\ SlotOf(s).login # "none"
    /\ slots' = [slots EXCEPT ![sessions[s].slot].login = "none"]
    /\ sessions' = [x \in DOMAIN sessions |->
           IF sessions[x].slot = sessions[s].slot
           THEN LoggedOut(sessions[x])
           ELSE sessions[x]]
    /\ objects' = Erase(objects, {h \in Visible(s) :
                                     objects[h].owner # 0 /\ Protected(objects[h])})
    /\ UNCHANGED <<initialized, nextSession, nextObject, pinFiles, keyFiles>>

\* The PIN in the file, then the PIN in memory.
StorePin(id, role, pin) ==
    /\ pinFiles' = [pinFiles EXCEPT ![id][role] = pin]
    /\ slots' = [slots EXCEPT ![id].pins[role] = pin]

InitPIN(s, pin) ==
    /\ sessions[s].rw
    /\ SlotOf(s).login = "SO"
    /\ StorePin(sessions[s].slot, "USER", pin)
    /\ UNCHANGED <<initialized, sessions, objects, nextSession, nextObject,
                   keyFiles>>

SetPIN(s, old, new) ==
    LET role == IF SlotOf(s).login = "SO" THEN "SO" ELSE "USER" IN
    /\ sessions[s].rw
    /\ PinAccepted(SlotOf(s), role, old)
    /\ StorePin(sessions[s].slot, role, new)
    /\ UNCHANGED <<initialized, sessions, objects, nextSession, nextObject,
                   keyFiles>>

-----------------------------------------------------------------------------
(* Creation of keys.  A token object goes to a new file of its slot.       *)

PathFor(s, directory, file) ==
    [slot |-> sessions[s].slot, directory |-> directory, file |-> file]

\* Mutant of FreshHandle: the numbers of erased objects are given again.
FirstFreeHandle ==
    CHOOSE h \in ObjectHandles \ DOMAIN objects :
        \A g \in ObjectHandles \ DOMAIN objects : h <= g

\* runtime.nextObjectHandle++
FreshHandle == nextObject

\* Mutant of MayCreate: any session may write token objects.
MayCreateReadOnly(s, token, path) ==
    /\ UserReady(s)
    /\ token => path \notin DOMAIN keyFiles

\* applyCreationTemplate, and the existence test of saveSecretKey/saveKeyPair
MayCreate(s, token, path) ==
    /\ UserReady(s)
    /\ token => sessions[s].rw /\ path \notin DOMAIN keyFiles

\* The new objects and their file: a class per handle, a policy per class.
Publish(s, token, path, classAt, policyOf) ==
    /\ objects' = Extend(objects, [h \in DOMAIN classAt |->
           [slot |-> sessions[s].slot, class |-> classAt[h],
            owner |-> IF token THEN 0 ELSE s,
            path |-> IF token THEN path ELSE NoPath,
            policy |-> policyOf[classAt[h]]]])
    /\ keyFiles' = IF token
                   THEN Extend(keyFiles, [p \in {path} |-> policyOf])
                   ELSE keyFiles

NewSecretKey(s, template, file) ==
    LET path == PathFor(s, "symmetric", file) IN
    /\ nextObject <= MaxObject
    /\ MayCreate(s, template.token, path)
    /\ nextObject' = nextObject + 1
    /\ Publish(s, template.token, path,
               [h \in {FreshHandle} |-> "secret"],
               [c \in {"secret"} |-> template.policy])
    /\ UNCHANGED <<initialized, slots, sessions, nextSession, pinFiles>>

\* The handle is drawn before the template is applied and the file written: a
\* call that fails there has used it up.
LoseHandle ==
    /\ nextObject <= MaxObject
    /\ nextObject' = nextObject + 1
    /\ UNCHANGED <<initialized, slots, sessions, objects, nextSession,
                   pinFiles, keyFiles>>

\* GenerateKeyPair and UnwrapKey register the pair after it was saved: only
\* metadata that cannot be written costs the two handles.
NewKeyPair(s, token, privatePolicy, publicPolicy, file) ==
    LET path == PathFor(s, "asymmetric", file) IN
    /\ nextObject + 1 <= MaxObject
    /\ MayCreate(s, token, path)
    /\ nextObject' = nextObject + 2
    /\ \/ Publish(s, token, path,
                  [h \in {FreshHandle, FreshHandle + 1} |->
                      IF h = FreshHandle THEN "private" ELSE "public"],
                  [c \in {"private", "public"} |->
                      IF c = "private" THEN privatePolicy ELSE publicPolicy])
       \/ token /\ UNCHANGED <<objects, keyFiles>>
    /\ UNCHANGED <<initialized, slots, sessions, nextSession, pinFiles>>

\* A key that may be used: it exists in the slot, is an AES key, allows it.
Usable(s, h, attribute) ==
    /\ UserReady(s)
    /\ h \in Visible(s)
    /\ objects[h].class = "secret"
    /\ PolicyValue(objects[h], attribute)

GenerateKey(s, template, file) ==
    NewSecretKey(s, template, file) \/ LoseHandle

\* DeriveKey has tested the whole template by then; only its file can fail.
DeriveKey(s, master, template, file) ==
    /\ Usable(s, master, "DERIVE")
    /\ template.token => sessions[s].rw
    /\ NewSecretKey(s, template, file) \/ (template.token /\ LoseHandle)

UnwrapSecretKey(s, wrapping, template, file) ==
    /\ Usable(s, wrapping, "UNWRAP")
    /\ NewSecretKey(s, template, file) \/ LoseHandle

GenerateKeyPair(s, template, file) ==
    NewKeyPair(s, template.token, template.private, template.public, file)

\* Only the private object gets the template's policy.
UnwrapPrivateKey(s, wrapping, template, file) ==
    /\ Usable(s, wrapping, "UNWRAP")
    /\ NewKeyPair(s, template.token, template.policy, NoPolicy, file)

-----------------------------------------------------------------------------
(* Objects: update, destruction, search.                                   *)

\* Mutant of CollectMetadata: the replacement is not taken into account.
CollectOldMetadata(registry, path) ==
    [c \in DOMAIN keyFiles[path] |->
        LET stored == {x \in DOMAIN objects :
                          objects[x].path = path /\ objects[x].class = c}
        IN  IF stored = {} THEN NoPolicy
            ELSE objects[CHOOSE x \in stored : TRUE].policy]

\* collectMetadata: the policies that the registry holds for the file.
CollectMetadata(registry, path) ==
    [c \in DOMAIN keyFiles[path] |->
        LET stored == {x \in DOMAIN registry :
                          registry[x].path = path /\ registry[x].class = c}
        IN  IF stored = {} THEN NoPolicy
            ELSE registry[CHOOSE x \in stored : TRUE].policy]

SetAttributeValue(s, h, template) ==
    LET object == objects[h]
        token == object.owner = 0
        changed == [objects EXCEPT ![h].policy =
                       ApplyPolicyTemplate(object.policy, template)]
    IN
    /\ h \in Visible(s)
    /\ UserReady(s)
    /\ PolicyValue(object, "MODIFIABLE")
    /\ token => sessions[s].rw
    /\ OneWay(object, template)
    /\ keyFiles' = IF token
                   THEN [keyFiles EXCEPT ![object.path] =
                            CollectMetadata(changed, object.path)]
                   ELSE keyFiles
    /\ objects' = changed
    /\ UNCHANGED <<initialized, slots, sessions, nextSession, nextObject,
                   pinFiles>>

\* Mutant of MayDestroy: the other objects of the file have no say.
MayDestroyAlone(h) == PolicyValue(objects[h], "DESTROYABLE")

\* The object, and whatever disappears with its file, allows it.
MayDestroy(h) ==
    /\ PolicyValue(objects[h], "DESTROYABLE")
    /\ objects[h].owner = 0 =>
           \A other \in Siblings(objects[h].path) :
               PolicyValue(objects[other], "DESTROYABLE")

\* A token object takes its file and the other objects of the file with it.
DestroyObject(s, h) ==
    LET object == objects[h]
        token == object.owner = 0
    IN
    /\ h \in Visible(s)
    /\ UserReady(s)
    /\ MayDestroy(h)
    /\ token => sessions[s].rw
    /\ keyFiles' = IF token THEN Erase(keyFiles, {object.path}) ELSE keyFiles
    /\ objects' = Erase(objects, IF token THEN Siblings(object.path) ELSE {h})
    /\ UNCHANGED <<initialized, slots, sessions, nextSession, nextObject,
                   pinFiles>>

FindObjectsInit(s, classes) ==
    /\ ~sessions[s].search.active
    /\ sessions' = [sessions EXCEPT ![s].search =
           [active |-> TRUE,
            pending |-> {h \in Visible(s) :
                            Accessible(s, h) /\ objects[h].class \in classes}]]
    /\ UNCHANGED <<initialized, slots, objects, nextSession, nextObject,
                   pinFiles, keyFiles>>

\* The loop takes handles in ascending order, skips those that are no longer
\* visible, and stops after a handle it returns (capacity reached) or at the
\* end of the list.
FindObjects(s, taken) ==
    LET pending == sessions[s].search.pending IN
    /\ sessions[s].search.active
    /\ \A a \in taken, b \in pending \ taken : a < b
    /\ \/ taken = pending
       \/ \E last \in taken : /\ \A a \in taken : a <= last
                              /\ last \in Visible(s) /\ Accessible(s, last)
    /\ sessions' = [sessions EXCEPT ![s].search.pending = pending \ taken]
    /\ UNCHANGED <<initialized, slots, objects, nextSession, nextObject,
                   pinFiles, keyFiles>>

FindObjectsFinal(s) ==
    /\ sessions[s].search.active
    /\ sessions' = [sessions EXCEPT ![s].search = NoSearch]
    /\ UNCHANGED <<initialized, slots, objects, nextSession, nextObject,
                   pinFiles, keyFiles>>

-----------------------------------------------------------------------------
(* Signature operations: which key a session is bound to.  The data they   *)
(* collect and the result they return are left out.                        *)

OperationInit(s, h, verify) ==
    /\ ~sessions[s].op.active
    /\ h \in Visible(s)
    /\ objects[h].class \in IF verify THEN {"private", "public"} ELSE {"private"}
    /\ Accessible(s, h)
    /\ PolicyValue(objects[h], IF verify THEN "VERIFY" ELSE "SIGN")
    /\ sessions' = [sessions EXCEPT ![s].op =
           [active |-> TRUE, verify |-> verify, key |-> h]]
    /\ UNCHANGED <<initialized, slots, objects, nextSession, nextObject,
                   pinFiles, keyFiles>>

\* A result, an error of executeSignature or an update that does not fit ends
\* the operation; a size query and a short buffer do not.
OperationEnd(s) ==
    /\ sessions[s].op.active
    /\ sessions' = [sessions EXCEPT ![s].op = NoOperation]
    /\ UNCHANGED <<initialized, slots, objects, nextSession, nextObject,
                   pinFiles, keyFiles>>

-----------------------------------------------------------------------------
SessionStep(s) ==
    \/ CloseSession(s)
    \/ \E role \in Roles, pin \in Pins : Login(s, role, pin)
    \/ Logout(s)
    \/ \E pin \in Pins : InitPIN(s, pin)
    \/ \E old, new \in Pins : SetPIN(s, old, new)

CreationStep(s) ==
    \E file \in Files :
        \/ \E t \in SecretTemplates : GenerateKey(s, t, file)
        \/ \E t \in PairTemplates : GenerateKeyPair(s, t, file)
        \/ \E h \in DOMAIN objects, t \in SecretTemplates :
              \/ DeriveKey(s, h, t, file)
              \/ UnwrapSecretKey(s, h, t, file)
              \/ UnwrapPrivateKey(s, h, t, file)

ManagementStep(s) ==
    \/ \E h \in DOMAIN objects, t \in Updates : SetAttributeValue(s, h, t)
    \/ \E h \in DOMAIN objects : DestroyObject(s, h)
    \/ \E classes \in Searches : FindObjectsInit(s, classes)
    \/ \E taken \in SUBSET sessions[s].search.pending : FindObjects(s, taken)
    \/ FindObjectsFinal(s)

OperationStep(s) ==
    \/ \E h \in DOMAIN objects, verify \in BOOLEAN : OperationInit(s, h, verify)
    \/ OperationEnd(s)

ObjectStep(s) == ManagementStep(s) \/ OperationStep(s)

LibraryStep ==
    \/ Initialize
    \/ Finalize
    \/ Restart
    \/ \E id \in DOMAIN slots, rw \in BOOLEAN : OpenSession(id, rw)
    \/ \E id \in DOMAIN slots : CloseAllSessions(id)

Next ==
    \/ LibraryStep
    \/ \E s \in DOMAIN sessions :
          SessionStep(s) \/ CreationStep(s) \/ ObjectStep(s)

Spec == Init /\ [][Next]_vars

-----------------------------------------------------------------------------
(* What every state satisfies.                                             *)

\* Every variable has its type; the registries are empty before Initialize.
TypeOK ==
    /\ initialized \in BOOLEAN
    /\ DOMAIN slots = IF initialized THEN SlotIds ELSE {}
    /\ slots \in [DOMAIN slots -> Slot]
    /\ DOMAIN sessions \subseteq SessionHandles
    /\ sessions \in [DOMAIN sessions -> Session]
    /\ DOMAIN objects \subseteq ObjectHandles
    /\ objects \in [DOMAIN objects -> Object]
    /\ ~initialized => sessions = Empty /\ objects = Empty
    /\ nextSession \in 1..MaxSession + 1
    /\ nextObject \in 1..MaxObject + 1
    /\ pinFiles \in PinFiles
    /\ IsDisk(keyFiles)

\* A session object never outlives the session that created it, and belongs to
\* the slot of that session (CloseSession, CloseAllSessions, Logout).
SessionObjectsHaveOwner ==
    \A h \in DOMAIN objects : objects[h].owner # 0 =>
        /\ objects[h].owner \in DOMAIN sessions
        /\ sessions[objects[h].owner].slot = objects[h].slot

\* A login never outlives the last session of its slot.
LoginNeedsSession ==
    \A id \in DOMAIN slots : slots[id].login # "none" => SessionsOn(id) # {}

\* While the security officer is logged in, no read-only session exists on the
\* slot: OpenSession and Login(SO) test it from their two sides.
SoExcludesReadOnly ==
    \A s \in DOMAIN sessions : SlotOf(s).login = "SO" => sessions[s].rw

\* The handles a session still refers to after the calls that gave them.
References(s) == sessions[s].search.pending \cup {sessions[s].op.key}

\* An operation or a search only ever holds handles dealt since Initialize and,
\* among the live ones, objects of the slot of its session.
ReferencesInSlot ==
    \A s \in DOMAIN sessions : \A h \in References(s) :
        /\ h < nextObject
        /\ h \in DOMAIN objects => objects[h].slot = sessions[s].slot

\* On a slot that demands a PIN, nothing that needs the user outlives his
\* login: no protected session object, no signature operation on a protected
\* key and no search result that lists one.
SecretsNeedLogin ==
    ~LegacyLayout =>
        \A h \in DOMAIN objects :
            Protected(objects[h]) /\ slots[objects[h].slot].login # "USER" =>
                /\ objects[h].owner = 0
                /\ \A s \in DOMAIN sessions :
                       /\ sessions[s].op.key # h
                       /\ h \notin sessions[s].search.pending

\* The token objects in memory are exactly what a restart would load: no ghost
\* file, no lost object, no policy that differs from its record.
RegistryMirrorsDisk ==
    LET tokens == {h \in DOMAIN objects : objects[h].owner = 0} IN
    initialized =>
        /\ {objects[h] : h \in tokens} = {Loaded(item) : item \in Stored}
        /\ \A g, h \in tokens : objects[g] = objects[h] => g = h
        /\ \A h \in DOMAIN objects \ tokens : objects[h].path = NoPath

\* The PINs in memory are those that the next start will read.
PinsSurviveRestart ==
    \A id \in DOMAIN slots : slots[id].pins = LoadPasswords(id)

-----------------------------------------------------------------------------
(* What no step does.                                                      *)

NeverLooser(class, before, after) ==
    /\ Value(class, before, "SENSITIVE") => Value(class, after, "SENSITIVE")
    /\ Value(class, after, "EXTRACTABLE") => Value(class, before, "EXTRACTABLE")
    /\ ~Value(class, before, "MODIFIABLE") => after = before

\* A key that became sensitive, unextractable or unmodifiable stays so, in
\* memory and in its file; the file carries it across restarts.
StickyPolicy ==
    [][/\ \A h \in DOMAIN objects \cap DOMAIN objects' :
             NeverLooser(objects[h].class, objects[h].policy, objects'[h].policy)
       /\ \A p \in DOMAIN keyFiles \cap DOMAIN keyFiles' :
             \A c \in DOMAIN keyFiles[p] :
                 NeverLooser(c, keyFiles[p][c], keyFiles'[p][c])]_vars

\* While the library runs, a session object disappears for three reasons only:
\* the session that made it is closed, the login that protects it ends, or a
\* call destroys this one object.  No other session of the slot takes it along.
SessionObjectsKept ==
    [][initialized' => \A h \in DOMAIN objects \ DOMAIN objects' :
          LET object == objects[h] IN
          \/ object.owner = 0
          \/ object.owner \notin DOMAIN sessions'
          \/ /\ Protected(object)
             /\ slots[object.slot].login # "none"
             /\ slots'[object.slot].login = "none"
          \/ /\ DOMAIN sessions' = DOMAIN sessions
             /\ DOMAIN objects \ DOMAIN objects' = {h}]_vars

\* A key file stays as long as one of the objects it holds is not destroyable,
\* whichever of its objects the call names.
UndestroyableStays ==
    [][\A p \in DOMAIN keyFiles :
          (\E c \in DOMAIN keyFiles[p] :
              ~Value(c, keyFiles[p][c], "DESTROYABLE"))
          => p \in DOMAIN keyFiles']_vars

KeyFilesOf(id) ==
    Restrict(keyFiles, {p \in DOMAIN keyFiles : p.slot = id})

\* The key files of a slot change only while the slot has a read-write session
\* and, when it demands a login, the user is logged in.
TokenWritesAuthorised ==
    [][\A id \in SlotIds : KeyFilesOf(id)' # KeyFilesOf(id) =>
          /\ id \in DOMAIN slots
          /\ \E s \in SessionsOn(id) : sessions[s].rw
          /\ RequiresLogin(slots[id]) => slots[id].login = "USER"]_vars

\* Everything that belongs to one slot.
View(id) ==
    <<slots[id], pinFiles[id], KeyFilesOf(id),
      Restrict(sessions, SessionsOn(id)),
      Restrict(objects, {h \in DOMAIN objects : objects[h].slot = id})>>

\* Between Initialize and Finalize a call touches one slot at most: login,
\* operations, objects and files of the others stay as they are.
SlotIsolation ==
    [][initialized /\ initialized' =>
          \A a, b \in SlotIds :
              a # b => View(a)' = View(a) \/ View(b)' = View(b)]_vars

\* A handle that has gone stale never comes back to life under a session that
\* refers to it: no new object gets a number that an operation or a search
\* still holds.
StaleStaysStale ==
    [][\A s \in DOMAIN sessions \cap DOMAIN sessions' :
          References(s) \cap (DOMAIN objects' \ DOMAIN objects) = {}]_vars
=============================================================================
