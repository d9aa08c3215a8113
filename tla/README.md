# Formal model of Pkcs11HSMSim

Pkcs11HSMSim is a PKCS#11 3.2 library that simulates an HSM: slots, PINs and
keys live in directories of a storage root, everything else in the memory of the
process that loaded the library. This directory holds TLA+ modules translated
from `src/src/`, TLC configurations that check them on small instances, and
TLAPS proofs of their invariants for every instance.

Paths below are relative to `src/src/` (the C++ sources) unless they start with
`docs/` or `src/`.

## 1. The system

### Components

| component | files | state it keeps | operations | what makes it correct |
|---|---|---|---|---|
| call boundary | `pkcs11/boundary.hpp`, `entry_points.cpp` | `runtime.mutex` | `call`: lock, run the service, turn an exception into a return code | calls are atomic; the lock is always released |
| runtime registry | `core/runtime.*` | `RuntimeState`: `initialized`, `slots`, `sessions`, `objects`, the two handle counters | `findSession`, `findObject`, `findSlot`, `requireUserLogin`, `objectAccessStatus`, `clearRegistries` | slots never see each other; a stale handle stays stale |
| life cycle and information | `pkcs11/token.*` | none of its own | `Initialize`, `Finalize`, `GetInfo`, `GetSlotList`, `GetSlotInfo`, `GetTokenInfo` | registries are empty outside of Initialize .. Finalize |
| sessions | `pkcs11/sessions.*` | `Session`: slot, flags, operation, search | `OpenSession`, `CloseSession`, `CloseAllSessions`, `GetSessionInfo` | the login ends with the last session; session objects end with their owner |
| slots, PINs, login | `storage/slots.*`, `pkcs11/sessions.cpp` | `Slot`: PINs and login in memory; `pin.txt`, `so-pin.txt` on disk | `discoverSlots`, `loadPasswords`, `Login`, `Logout`, `InitPIN`, `SetPIN`, `storePin` | officer and read-only sessions exclude each other; a logout revokes everything the login allowed; a PIN survives a restart |
| objects and attributes | `objects/objects.*`, `attributes.*` | `Object`: slot, class, owner session, path, key, policy | `DestroyObject`, `FindObjectsInit`, `FindObjects`, `FindObjectsFinal`, `GetAttributeValue`, `SetAttributeValue` | access control; an undestroyable member protects its file |
| policy and templates | `objects/policy.*`, `template.*` | the map `Object::policy` | `policyValue`, `applyPolicyTemplate`, `applyCreationTemplate` | SENSITIVE and EXTRACTABLE are one-way |
| key creation | `crypto/key_generation.*`, `derivation.*`, `wrapping.*` | none of its own | `GenerateKey`, `GenerateKeyPair`, `DeriveKey`, `WrapKey`, `UnwrapKey`, `GenerateRandom` | token keys are written with a read-write session and a login only |
| signatures | `crypto/signature.*` | `Operation` of a session: key, mechanism, collected data | `SignInit` .. `VerifyFinal` | an operation is bound to one key and ends when it must |
| key files | `storage/key_store.*`, `metadata.*` | `asymmetric/*.p12`, `symmetric/*.key` and their `.meta` files | `loadTokenObjects`, `saveSecretKey`, `saveKeyPair`, `metadata::create`, `update`, `read` | files and memory agree; nothing is lost or loosened by a crash |
| mechanisms | `crypto/mechanisms.*` | constant tables | lookups | the tables agree with each other and with what `GetMechanismInfo` announces |
| interfaces, unsupported calls | `pkcs11/interfaces.cpp`, `unsupported.cpp` | constant tables | `C_GetFunctionList`, `C_GetInterfaceList`, `C_GetInterface`; 60-odd exports that refuse | a refusal tests `initialized` like any other call |
| OpenSSL, utilities | `core/openssl.hpp`, `core/utilities.*` | none | key and byte operations | - |

### Interactions

A client thread enters through an exported function, which runs its service
under `runtime.mutex`. The services share the registry: closing a session
(`sessions.cpp`) erases objects, a logout cancels operations (`signature.cpp`)
and searches (`objects.cpp`) of *other* sessions of the slot, a destroyed object
is still named by operations and searches, `SetAttributeValue` rewrites the
metadata of every object of a file, `DestroyObject` removes a file and all its
objects. The disk is the only state that survives `C_Finalize` and the process.

### What is hard here

* **Shared state between sessions.** The login belongs to the slot; operations,
  searches and session objects belong to sessions. Any call of one session may
  invalidate what another one keeps between two calls.
* **Handles.** Object handles restart from 1 at every `C_Initialize`; session
  handles do not. Sessions keep object handles between calls.
* **Three copies of a policy.** The map in memory, the `.meta` file, and the
  class-dependent default of a value that was never recorded.
* **Files.** A key is a key file plus a `.meta` file plus a temporary one, each
  written and removed by separate steps that may fail or be cut by a crash.
* **Boundaries.** Number parsing, rounding of derivation data, sizes promised by
  size queries, the limit of multipart data.

The hazards are listed one by one, with their source line, in `PROJECT.json`.

## 2. Modules

| module | models |
|---|---|
| `Policy` | object classes, the twelve policy attributes, defaults, the overlay of a template and the one-way rule of `objects/policy.cpp` |
| `Runtime` | `RuntimeState` and every call that changes it, plus the PIN files and key files |
| `MCRuntime` | templates, PINs and storage roots for the runs of `Runtime` and of the modules that extend it |
| `RuntimeProofs`, `RegistryProofs` | theorems about `Runtime`: handles, sessions and logins; memory against disk, and with it `Reading` |
| `Mechanisms` | the tables of `crypto/mechanisms.cpp`, the flags of `GetMechanismInfo`, the hash rules of RSA-PSS |
| `Lengths`, `LengthsProofs` | the length arithmetic of `signature.cpp`, `wrapping.cpp`, `derivation.cpp`, and what the callers rely on, proved for every length |
| `Signing` | signature operations in full, on top of `Runtime`, which it implements |
| `MCSigning`, `SigningProofs` | values for its run, and theorems about it and about `Mechanisms` |
| `Reading` | what `C_GetAttributeValue` and `C_WrapKey` answer in each state of `Runtime` |
| `MCReading` | values for its run |
| `AtomicCalls` | abstract: calls of several threads that take effect at one instant |
| `Boundary`, `BoundaryProofs` | `pkcs11/boundary.hpp`: threads, the mutex, exceptions and services in several steps; that it implements `AtomicCalls` |
| `PinRegistry` | abstract: what a change of PIN promises |
| `PinStore`, `PinStoreProofs` | the PIN files of one slot, one file operation per step, with failures and crashes; that it implements `PinRegistry` |
| `MCPinStore` | values for its run |
| `SlotScan` | `discoverSlots` and `parseSlotId`, entry by entry and digit by digit |
| `MCSlotScan`, `SlotScanProofs` | values for its run, and theorems about it |
| `KeyRegistry` | abstract: what the storage of one token key promises |
| `KeyStore`, `KeyStoreProofs` | the files of one token key, one file operation per step, with failures and crashes; that it implements `KeyRegistry` |

How they fit together: `Boundary` justifies that a call is one step of `Runtime`;
`Signing` and `Reading` extend `Runtime` with what it keeps of one service only;
`KeyStore`, `PinStore` and `SlotScan` look into the calls whose effect on the disk
`Runtime` takes in one step, or assumes to have been done (`SlotIds`,
`LegacyLayout`).

Two of these links are theorems as well: `Runtime` and `KeyStore` both implement
`KeyRegistry` (`FilesImplemented`, `RegistryImplemented`), and the slots that a start of
`SlotScan` publishes are what `Runtime` assumes (`RuntimeGrounded`).

### How `Runtime` corresponds to the code

State: `initialized`, `slots`, `sessions`, `objects` are the members of
`RuntimeState`; `nextSession` and `nextObject` its counters; `pinFiles` and
`keyFiles` the disk. `slots` is a function on the slot numbers found at
`C_Initialize`, empty before. An object with `owner = 0` is a token object
(`Object::token`); the others name the session that created them. `Settings`
has a third value, `unset`, for an attribute that the policy map does not hold:
the code then falls back on a default by class.

Actions carry the names of the services. What an action stands for:

* **One call, one action.** Every stateful export takes `runtime.mutex` for its
  whole duration, so calls of several threads interleave as wholes.
* **Refused calls.** A call that returns an error before it changed anything is
  a stuttering step, and so are calls that only read (`C_Get*`, `C_WrapKey`,
  `C_GenerateRandom`, a size query, a successful `C_SignUpdate`). A
  `C_Initialize` that fails clears what it had loaded and is one of them: it
  restores the counters to values the next successful call sets again.
* **Calls that fail late.** `C_GenerateKey`, `C_DeriveKey` and `C_UnwrapKey`
  draw a handle before their last test: `LoseHandle`. `C_GenerateKeyPair` and the
  private form of `C_UnwrapKey` draw two and may lose both when the metadata
  cannot be written.
* **`Initialize`** deals handles in the order of the code: slots ascending, PKCS#12
  files before AES files, private key, public key and certificate of one file in
  a row. The order of the files of one directory is the file system's, so the
  action chooses any.
* **`Restart`** is the end of the process, by itself or by a crash *between* two
  calls, and a new process.
* **`OperationEnd`** stands for every way a signature operation ends by itself: a
  result, an error, an update over the limit.

Left out of `Runtime`: key bytes, labels and ids (a member of `Files` is a file
name, so two labels that map to one name are one element; an update of
`CKA_LABEL` or `CKA_ID` changes nothing the properties see), key types other
than by class, the data being signed (`Signing` has it), and the separate file steps
inside one call: a write happens, or fails without a trace.

### How `Boundary` corresponds to the code

`invoke` is `Enter` (the export is called), `Acquire` (`std::scoped_lock`), `Admit` or
`NotInitialized` (the test under the lock), the steps of the service, and `Leave`, which
every return and every `Throw` goes through: the destructor of the lock runs before
the client sees the code. `pc[t]` is where thread `t` is. Five services stand for the
others: `Initialize` and `Finalize`, which write the shared state in two steps;
`OpenSession`, which reads a counter, writes it and registers a session;
`GetTokenInfo`, which keeps a reference to a slot between two steps; and the
unsupported exports. `findSlot` answers `MissSlot` when the slots are not there, and for a
number there is no slot for, which a client may always name. `Discover` is the three exports of `interfaces.cpp`, which
take no lock. `settled`, the state when the mutex was last free, is
not in the code: it is what the refinement mapping to `AtomicCalls` needs.

### How `Signing` corresponds to the code

`work[s]` is what `Operation` holds beside the key and the direction; an `Operation`
stays, with its data, when `active` is cleared, as in the code. The actions are
`InitializeSignature`, `UpdateAccepted`, `UpdateRefused`, `SignCall` and `VerifyCall`
with the data of the call (`Single`) or the collected data (`Final`); `SignResults`
and `VerifyResults` follow `executeSignature` test by test. Every other call is the
action of `Runtime` with `KeepWork`, which gives a new `Operation` to new sessions and,
on a logout, to all the sessions of the slot. `accepted` and `answer` are what
the client knows. A piece of data has a name and a size; OpenSSL may succeed or
fail whenever the lengths fit.

### How `Reading` corresponds to the code

`C_GetAttributeValue` and `C_WrapKey` change nothing, so they are operators: the
answer, with one entry per attribute, or whether the key leaves. Attribute types
that are read alike are one element. A value that OpenSSL does not give (an EC key on
a curve without a name) is `CKR_DEVICE_ERROR` and leaves the length as the client wrote it. `sensitive` and `sealed` record which keys have
ever been sensitive or not extractable; a token key is known by its file, so that
the record spans restarts.

### How `PinStore` and `SlotScan` correspond to the code

`PinStore` has one action per file operation of `storePin`: `MeetStale` or
`OpenTemporary` (which truncates), `Write`, `Rename`, `CleanUp`, `Assign`, each with its
failure, and `ThrowEarly` for what throws outside of the `try`. `Start` is
`loadPasswords`. `ReadPassword` is what `readPassword` takes of a content: the constant
`Unmarked` gives the PIN without a leading byte order mark and, for a file that
somebody wrote with an editor, without its line end; `storePin` converts
nothing, so a marked PIN is stored with its mark. A cut write leaves
`Rest`, which `readPassword` would accept as a PIN. `Finalize` only comes between calls, a crash at any step.

`SlotScan` is one start: `Begin`, then one entry of the directory at a time in any
order, `ReadDigit` with the arithmetic of a `CK_SLOT_ID` (modulo `MaxId + 1`), `KeepSlot`,
`PublishSlots` or `PublishLegacy`, and `Load`, which creates the key directories
as `loadTokenObjects` does; every exception is `Fail`, or `LoadFails` once the slots
were published. The outcome of `LoadFails` has a name of its own, although the code
returns `CKR_DEVICE_ERROR` for both, so that a property can tell them apart. Between
two starts the storage is edited as `docs/slots.md` describes.

### How `KeyStore` corresponds to the code

`Runtime` lets a call change the disk in one step. `KeyStore` looks into that
step, for one file name: a call is a series of file operations (`call.step` is the
next one), each of which may fail, and the process may die between two of them.

* Creation: `Create` opens the key file, `Save` writes it (`saveSecretKey`,
  `saveKeyPair`), then `persistMetadata`: `WriteTemp`, `Rename`, or `Refuse`,
  `Clean` and `RollBack` when `metadata::create` throws. It does so without any
  failure of the system too: `writeString` refuses a label or an id of more than 65536
  bytes, which no template check limits. The policies of `Oversized` stand for
  those: `WriteTemp` goes to `Clean` and counts no fault.
* `Update` is `SetAttributeValue` once its checks are over: the same
  `metadata::create` with `replace`, then the assignment to the object.
* `Destroy` and `Forget` are the two removals of `DestroyObject`.
* `Start`, `Stop` and `Crash` are `C_Initialize`, `C_Finalize` and the end of the
  process.

`told` is the only variable that is not the code's: the key and policy that the last
successful call reported. The content of a key file is whole, `short` (an even
number of digits, which loads as a shorter AES key) or `broken` (empty or not
parseable, skipped by the loaders). A failed `open` leaves nothing and is a
stuttering step, as is a failed first removal of `DestroyObject`.

`KeyRegistry` has two variables, what the next start loads and what the client
was told, and actions that take effect at once. The refinement mapping takes the
first from the disk, except that a key being created does not count yet. The one
concession is `LeaveBehind`: a creation that did not succeed may leave something,
as `src/README.md:100-101` admits.

## 3. Runs

`sessions`, `access`, `owners`, `marked_pin` use the full `Next` of `Runtime`, `reading`
and `signing` add to it. Bounds: `MaxSession` and
`MaxObject` limit the handles drawn in one life of the process; `Restart` gives
new lives, so histories are unbounded in length.

| run | instance | checks |
|---|---|---|
| `sessions` | two slots, one with both PINs and one with the officer's, `HSM_SIM_PIN` set to another PIN, four sessions, no keys | `LoginNeedsSession`, `SoExcludesReadOnly`, `PinsSurviveRestart` |
| `access` | two slots with a user PIN, a token key pair whose public half is private too, session keys, two sessions, three handles | `TypeOK`, `SecretsNeedLogin`, `ReferencesInSlot`, `StaleStaysStale` |
| `owners` | two slots, three sessions, three handles, session keys and pairs | `SessionObjectsHaveOwner`, `SessionObjectsKept`, `SlotIsolation` |
| `reading` | one slot, a stored key pair, token and session keys with restrictive templates, four updates, every pair of attributes and buffers that contains `CKA_VALUE` | `RegistryMirrorsDisk`, `ClosedKeysKept`, `StickyPolicy`, `UndestroyableStays` |
| `signing` | the implicit slot without PIN, an RSA and an EC pair, one session, four mechanisms, pieces of 20, 32 and 250 bytes with integers of eight bits and a limit of 64 | `BufferBounded`, `FinalUsesAccepted`, `UseAuthorised`, `LostOnlyByAnswer`, `ImplementsRuntime`, `TokenWritesAuthorised` |
| `marked_pin` | a slot with an officer's PIN and a user PIN that starts with a byte order mark | `PinsSurviveRestart` **is violated** |
| `threads` | three threads, two session handles, one kind of exception | `TypeOK`, `SlotStaysWhileUsed`, `HandlesUnique`, `CallsAreAtomic`, and under fairness `LockedCallsAnswer`, `SomebodyIsServed` |
| `faults` | the PIN files of a slot, two plain PINs, one with a byte order mark, a content with a line end, one that is too long, `HSM_SIM_PIN`, two faults of any kind | `PinTypeOK`, `PinFilesWhole`, `LeftByFaultOnly`, `StaleKept`, `ChangesAreAtomic` |
| `slots` | a storage root edited between starts, six names, slot numbers of four bits | `ScanTypeOK`, `SlotNumbersExact`, `NoKeyHidden`, `StartExact` |
| `pair` | the files of a PKCS#12 key, two keys, two policies and one too long for a `.meta` file, four faults of any kind | `TypeOK`, `AcknowledgedSurvives`, `FailedCreationLeavesNothing`, `ImplementsRegistry` |
| `one_fault` | the files of an AES key, the same policies, one fault of any kind | `OwnPolicy` |
| `cut_key` | the same, the fault being a failed write | `AcknowledgedSurvives` **is violated** |

Why the bounds are enough: the interference this code can suffer is between two
sessions of a slot (one acts, one is acted upon), a third session elsewhere that
must not be touched, two slots, a file with two members and a key beside it. Four sessions in
`sessions` allow two per slot; three handles in `access` allow a pair and a key
created after one of them was destroyed or after a restart; `reading` has a
stored pair, one session, and updates that tighten and try to loosen each of the
one-way attributes. In `signing` one session is enough because what another one may
do to an operation (a logout, a destruction, an update) the session can do itself,
and `access` has several; two pieces reach the limit, a third passes it, the
long one makes a sum of sizes wrap, and a salt of 94 bytes is the last that fits
the modulus. `threads` has one thread in a service, one that waits and one that
discovers or waits as well; two handles allow a draw while one is open.
In `faults` the second fault is one in the clean-up of the first, or a crash after
it. The six names of `slots` are two spellings of one number, the largest
number, the first that does not fit, an empty label and a directory that is no
slot. Two keys and two policies are what `KeyStore` needs to tell a key
from its predecessor and an update from what it replaces, and the third policy makes a
creation fail by itself; four faults allow a
failure in each of two calls and in the cleanup of each. In `one_fault` the bound
is part of the statement: with two faults `OwnPolicy` fails (an orphan `.meta`
left by one crash is taken over by a creation that another crash cuts off), and
that is what the code does.
Each property is also shown to be sensitive: for every one of
them a plausible bug (the definitions commented "Mutant of ...", used by no
specification) makes its run fail.

What the runs say:

* a login ends with the last session of its slot, whichever call closes it;
* no read-only session coexists with the officer;
* after a logout, nothing protected is left to any session of the slot: no
  session object, no operation, no search result;
* session objects end with their owner, and with no other session; token objects in memory are exactly what
  a restart would load, including their policies;
* no series of updates and restarts loosens a key;
* an undestroyable object protects its file from all its handles;
* key files are written only with a read-write session and, once a PIN exists, a login;
* the value of a secret key that has ever been sensitive or not extractable is never
  given out, in whatever company it is asked for and through restarts; a key that
  was once not extractable never leaves wrapped;
* a signature answers for exactly the data accepted since its `Init`; size queries
  and short buffers cost nothing; the rights to the key are those of the answer,
  not of the `Init`;
* every call takes effect at one instant, and whoever gets the mutex answers and
  gives it back, exceptions included;
* a change of PIN happens at once or not at all, on disk and in memory (a mark at the
  start of a PIN apart, which the next start takes off: `marked_pin`); the
  `.tmp` file that blocks later changes takes a crash or a second failure;
* `C_Initialize` refuses exactly the storages that `docs/slots.md` calls malformed,
  and no layout it accepts hides a key directory;
* a call touches one slot at most;
* an acknowledged PKCS#12 key survives any faults with its policy, updates are all or
  nothing, and it takes two faults to give a key the policy of an earlier one;
* a creation that returns an error leaves no key behind, except by a failed removal of
  the key file in the roll-back. One failure is then enough, since an id over
  the limit of `metadata.cpp:46` leads to the roll-back by itself.

### Findings

`marked_pin`: `storePin` (`storage/slots.cpp:208`) writes the new PIN byte for
byte, `readPassword` (`storage/slots.cpp:37`) drops a leading UTF-8 byte order
mark. A PIN that starts with the mark is accepted by `C_SetPIN` and `C_InitPIN`
and works until `C_Finalize`; the next start reads a PIN three bytes shorter, and
the one that was set is refused. `docs/slots.md:117-120` promises that the file
these calls write is the one that counts from the next load on. `sessions` checks
the same property for PINs without a mark, where it holds.

`cut_key`: `saveSecretKey` (`storage/key_store.cpp:227`) tests its stream while the
digits are still in the stream's buffer; the destructor writes them and ignores a
failure. When the disk is full the call returns `CKR_OK` for a token key whose file is
empty or cut, and the next start loads nothing or a shorter key.
`saveKeyPair` closes the file first, and `pair` shows that this is enough.

Not contradicted by any document, but worth knowing: after a crash, a leftover
temporary file, an orphan `.meta` or a key file that does not parse blocks its name
until somebody removes it by hand (`Blocked` and the guard of `Create`); the same
holds for a PIN (`MeetStale`). A start of an empty storage creates `asymmetric/` and
`symmetric/` in the root, so a slot directory added afterwards makes every start
fail until the two are moved or removed, empty as they may be (`Mixed`).

### Fairness and liveness

Only `Boundary` assumes fairness. Nothing else in the library has to happen on its
own: a call is atomic and returns, and whether a client makes another one is the
client's business. `FairSpec` assumes

* `WF(Proceed(t))` for every thread: a thread that is inside a service, or in an
  export that takes no lock, waits for nobody and is run by the operating system. No
  service loops without bound or waits for anything but a file operation;
* `WF(\E t : Acquire(t))`: when the mutex is free and threads wait for it, one of them
  gets it. `std::mutex` promises no more: there is no fairness between waiters, so
  a thread may be overtaken for ever, and no property says otherwise.

From this follow `LockedCallsAnswer` (whoever gets the mutex gives it back) and
`SomebodyIsServed`. Discovery takes no lock, so that nothing can keep it from
answering: no property is spent on it. A thread that calls `C_OpenSession` when the
bound on handles is reached can only throw, which is an artefact of the bound.

## 4. Proofs

`RuntimeProofs` proves, for any set of slots, files, PINs, templates, any storage
root and any bounds:

| theorem | statement |
|---|---|
| `TypeCorrect` | `Spec => []TypeOK` |
| `OwnersCorrect` | `Spec => []SessionObjectsHaveOwner` |
| `LoginCorrect` | `Spec => []LoginNeedsSession` |
| `OfficerCorrect` | `Spec => []SoExcludesReadOnly` |
| `SlotsCorrect` | `Spec => []ReferencesInSlot` |
| `SecretsCorrect` | `Spec => []SecretsNeedLogin` |
| `HandlesCorrect` | `Spec => StaleStaysStale` |
| `Inductive` | `Spec => []Inv` |

The assumptions are those `Runtime` states about its constants, which TLC evaluates
on the values of every run: slot numbers are naturals, the legacy layout has slot
1 only, PINs and PIN files are what their types say and `Pins` is closed under
removing a mark, templates are policies, the initial disk is well formed.

The argument is one inductive invariant,

    Inv == TypeOK /\ HandlesFresh /\ SessionObjectsHaveOwner /\ LoginNeedsSession
           /\ SoExcludesReadOnly /\ ReferencesInSlot /\ SecretsNeedLogin

None of the last three is inductive alone. `HandlesFresh` (live handles are below
their counters) is what the code relies on and nowhere says: without it a new
object could take the number of a live one, and a new session could become the
owner of an old session object. `ReferencesInSlot` needs it because a handle held by a
session may be dead, and only a counter that never goes back while a session lives
keeps the number from being dealt again; for the same reason `Initialize`, which
does set the object counter back, needs `TypeOK`'s clause that no session exists
before it. `SecretsNeedLogin` needs `ReferencesInSlot`: a logout cancels
the operations of the sessions of its slot, which is enough only because
operations never name an object of another slot.

The proof has a lemma per group of actions ("...Shape": what the group does to the
registries, so that a conjunct is proved once per group) and a preservation
lemma per conjunct; the shared facts about `Extend` and `Erase` come first.

`RegistryProofs` goes on from there with the disk:

| theorem | statement |
|---|---|
| `MirrorInductive` | `Spec => [](Inv /\ Mirror)` |
| `MirrorCorrect` | `Spec => []RegistryMirrorsDisk` |
| `UndestroyableCorrect`, `StickyCorrect` | `Spec => UndestroyableStays`, `StickyPolicy` |
| `WritesCorrect`, `IsolationCorrect` | `Spec => TokenWritesAuthorised`, `SlotIsolation` |
| `KeptCorrect` | `Spec => SessionObjectsKept` |
| `PinsCorrect` | `Spec => []PinsSurviveRestart`, if no PIN of `Pins` begins with a byte order mark |
| `PinWritesCorrect` | `Spec => PinWritesAuthorised` |
| `FilesImplemented` | for every path, `Spec` implements the steps of `KeyRegistry`, and `KeyRegistry!Spec` if the path starts without a file |
| `ReadingInductive` | `ReadingSpec => [](Inv /\ Mirror /\ SensitiveKept /\ SealedKept)` |
| `ClosedCorrect` | `ReadingSpec => []ClosedKeysKept` |

`Mirror` speaks of places, a path and a class: every token object lies at a place of the
disk with the policy stored there (`TokensOnDisk`), every place has an object
(`DiskInRegistry`), one only (`PlacesDistinct`), and session objects have none
(`SessionObjectsNowhere`). It is needed for the action properties too: the code
decides on the objects in memory (`MayDestroy`, `OneWay`) and changes the files, so
that a change of the disk respects a policy only because the object that was
tested holds the policy of the record that goes. `PlacesDistinct` makes
`collectMetadata` deterministic: with two objects at one place it could write back
the policy of the other. The hypothesis of `PinsCorrect` is the one that the run
`marked_pin` shows to be needed.

`SessionObjectsKept` is the other half of `SessionObjectsHaveOwner`: of the objects made by
sessions, a close takes those of the closed sessions only, a logout the protected ones
of its slot, a destruction the one it names. It needs `Inv` for the owner of an object
(`CloseAllSessions` goes by slot) and `Mirror` for a destruction (the objects that
share a path are token objects).

`PinWritesAuthorised` is to PIN files what `TokenWritesAuthorised` is to key files: a
PIN changes for a read-write session of its slot, the officer's only while he is
logged in, the PIN in memory changes with it and nothing else does. No PIN is
ever unset, so a slot that demands a login goes on demanding it.

`FilesImplemented` joins the two models of a key file. `KeyRegistry` says what a key
file goes through (created where there is none, kept when a policy is recorded,
removed as a whole); `KeyStore` implements it step by step with failures and crashes
(`RegistryImplemented`), and `Runtime` call by call, for each of its paths, through all
sessions, slots and restarts. What `Runtime` assumes to happen at once is thus what
the file operations achieve. It rests on `Mirror` for `Destroy`: the calls remove a
file after a look at one object in memory, and only because both objects of a pair are
where the registry says is the file gone as a whole.

`ClosedKeysKept` says that a key which once was sensitive, or not extractable, is never
given away. `SensitiveKept` and `SealedKept` carry it from one step to the next: such
a key exists and its record still says so. While the library does not run there is no
object to look at, and what a start loads afterwards is as closed as before only because
of what the files hold; hence the invariant speaks of the record, and uses `Mirror` to get
from a new object to its record and from there back to the object that is read.

`KeyStoreProofs` proves, for any keys, policies, kinds of faults and any bound on them:

| theorem | statement |
|---|---|
| `StoreTypeCorrect` | `Spec => []TypeOK` |
| `AcknowledgedCorrect` | `Spec => []AcknowledgedSurvives`, if `WriteErrorsSeen` |
| `RegistryImplemented` | `Spec => ImplementsRegistry`, if `WriteErrorsSeen` |
| `FailedCreationCorrect` | `Spec => FailedCreationLeavesNothing`, for any number of faults |
| `OwnPolicyCorrect` | `Spec => []OwnPolicy`, if `OneFault` |
| `MirrorStored` | `Spec => []MemoryMirrorsDisk`, if `WriteErrorsSeen` |
| `LeftoverCorrect` | `Spec => []LeftByFaultOnly /\ TempKept`, for any number of faults |

`WriteErrorsSeen` is the hypothesis `cut_key` shows to be needed: the key is a PKCS#12
file, or writing does not fail. `OneFault` (`MaxFaults <= 1`) is needed as
well, for `OwnPolicy` alone: with `MaxFaults = 2` TLC violates it, when a `.meta` file
that a destruction could not remove speaks for another key of that name whose
creation is cut off by a crash. The invariant adds to the types
what ties memory to disk at each step: `Creating` (while a key is created nothing was
promised, and its object is whole and in the key file) and `Settled` (an object that
is neither new nor going away is what a start would load). The refinement has one
case per step; all but four are stutters: the rename is `Create` or `Update`, the first removal is
`Destroy`, and the ends of a cut creation are `LeaveBehind`.

`KeyInv` says that the object in memory has the key of the file (`KeyFollows`). From
it follows `FailedCreationCorrect`: what `metadata::create` throws, after a failure or
for a label that is too long, ends in `RollBack`, and only its removal can fail there.
For one fault the invariant is `OneFaultInv`: `KeyInv`, a `.meta` file is that of the
key file or the trace of the fault (`MetaFollows`), and a call is in its clean-up, or
finds a temporary file in its way, only after that fault or for a policy of
`Oversized` (`LeftByFault`). `MemoryMirrorsDisk` is `Runtime`'s mirror seen from the
files: between two calls an object in the registry is what the next start would load; a
key that is on the disk and not in the registry is one that nobody was promised, and it
takes a fault to leave it (`HiddenByFault`). It is not a property of the runs; TLC agrees
on them. `LeftoverCorrect` is about the
temporary file of a dead process, which blocks every later update of its key: only a
fault leaves one, and a call that meets it changes neither the file nor the
metadata, so that what it blocks stays as it was.

`SigningProofs` proves, for any data, sizes, mechanisms, key sizes and widths of
integers (`Lengths` and `Signing` state what they assume about them):

| theorem | statement |
|---|---|
| `RuntimeImplemented` | `SigningSpec => ImplementsRuntime` |
| `SigningSecretsCorrect` | `SigningSpec => []SecretsNeedLogin`, one of the theorems about `Runtime` that the refinement carries over |
| `SigningInductive` | `SigningSpec => [](TypeOK /\ SigningInv)` |
| `SigningTypeCorrect`, `BufferCorrect` | `SigningSpec => []SigningTypeOK`, `[]BufferBounded` |
| `FinalCorrect`, `UseCorrect` | `SigningSpec => FinalUsesAccepted`, `UseAuthorised` |
| `LostCorrect` | `SigningSpec => LostOnlyByAnswer` |
| `CatalogueConsistent` | `CatalogueAgrees` of `Mechanisms` |

The refinement drops `work`, `accepted` and `answer`; what it has to show is that a call
that keeps the operation changes nothing and that every other one is
`OperationInit` or `OperationEnd`. `SigningInv` adds to the types that the data
of an operation is what was accepted since its `Init`: it holds although ended
operations keep their data, because `InitializeSignature` builds a whole new
`Operation` and a logout resets it.

`BoundaryProofs` proves, for any set of threads, any bound on the handles and any
exceptions:

| theorem | statement |
|---|---|
| `BoundaryInductive` | `Spec => []Inv` |
| `BoundaryTypeCorrect` | `Spec => []TypeOK`, which contains mutual exclusion |
| `SlotCorrect`, `HandlesCorrect` | `Spec => []SlotStaysWhileUsed`, `[]HandlesUnique` |
| `CallsCorrect` | `Spec => CallsAreAtomic` |
| `HoldCorrect` | `Spec => HoldBounded` |

The invariant says how far the thread inside has moved the shared state from
`settled`, for each of its places (`Progress`), and that `settled` is a state
between two calls (`SettledInv`). With it every step but the last of a call
maps to a stutter of `AtomicCalls`, and the last one to the whole call.

`HoldBounded` is the part of `LockedCallsAnswer` that is safety: the mutex changes hands
only when its holder leaves, `StepsLeft` (at most 4) falls with each step of the holder, also
when the step throws, and no step of another thread is seen inside. That the
holder runs at all, and that a waiting thread is let in, is fairness, and TLC's part.

`PinStoreProofs` proves, for any PINs, any kinds of faults and any number of them:
`PinInductive`, `PinTypeCorrect`, `PinFilesCorrect`, `LeftCorrect`, `StaleCorrect`
(`Spec` implies `PinTypeOK` and `PinFilesWhole` always, `LeftByFaultOnly` and
`StaleKept`) and `ChangesCorrect` (`Spec => ChangesAreAtomic`). The invariant adds what a
call has achieved at each step: its PIN was validated, and the file it is about
to rename holds that PIN. The change takes effect at the rename; until
`Assign`, the refinement mapping counts the new PIN as active. `PinRegistry` promises the
file, and that a start takes of it what `readPassword` takes, marks removed. `MirrorFiles`
(`Spec => []MemoryMirrorsFiles`) is `PinsSurviveRestart` seen from the files: between two calls
what the next start reads is the PIN that a login is compared with or, of a PIN with a
mark, what is left without it, whatever failed, and `readPassword` accepts what it
finds. `RestartKeepsPins` (`Spec => []MemoryIsFiles`) says that the two are equal if no
accepted PIN begins with a mark, the hypothesis of `PinsCorrect`. `OneAhead` is the invariant behind it: the file is
ahead of the memory from the rename to `Assign` and nowhere else.

`SlotScanProofs` proves, for any names, any digits and any width of `CK_SLOT_ID` from 9 up:

| theorem | statement |
|---|---|
| `ScanInductive`, `ScanTypeCorrect` | `Spec => []Inv`, `[]ScanTypeOK` |
| `NumbersCorrect` | `Spec => []SlotNumbersExact` |
| `KeysCorrect` | `Spec => []NoKeyHidden` |
| `StartCorrect` | `Spec => []StartExact` |
| `RuntimeGrounded` | `Spec => []SlotsGrounded` |

`DigitExact` is the lemma about the overflow test: one more digit fits exactly when the
code lets it pass. The invariant says that a slot of the tree is still to come, being
parsed or found. `StartExact` compares what the loop over the entries did with a
definition that does not mention it (`WellFormed`, `Number`). `Number` is a function of
the digits read so far, so its value has to be followed from one digit to the next: that
it exists (`PrefixesExist`), gives the number of a prefix from that of a shorter one
(`PrefixesExact`) and never falls (`PrefixesGrow`) is proved by induction over the length. The
library states induction with an operator as a parameter; `SetInduction` states it with a
set instead (a set that has 0 and, with a natural number, the next one has them all)
and follows from the least element of a set of naturals. `ExactInv` then adds to `Inv` what a start has
collected (`Collected`) and what its answer means (`Answered`), a refusal as well as
a list of slots.

`SlotsGrounded` closes the gap to `Runtime`, which takes its slots as constants: the slots of
a start are numbers of a `CK_SLOT_ID`, there is at least one, each has one directory,
which exists while the library runs, and the root serves as a slot in the historical
layout only. These are `Runtime`'s assumptions about `SlotIds` and `LegacyLayout`.

`LengthsProofs` proves, for every length: `LimitExact`, `WrapSizeExact`,
`DerivationInBounds`, `EncodedLengthExact`. That OpenSSL writes what
`IsWrappedLength` says is an assumption about a library (RFC 3394 and 5649).

Model-checked only: the two liveness properties of `Boundary`. Every other property of
the passing runs is stated by a theorem above, under the hypotheses named there.

Outside the prover's reach: liveness under fairness and `ENABLED`, and anything in a
module with a `RECURSIVE` operator (no module here has one). Induction theorems that
take an operator cannot be cited either; where a proof needs induction it goes
through sets, as in `SlotScanProofs`.

## 5. Not modelled

* The bytes of `.meta` files, their malformed forms, which make `C_Initialize`
  fail, and an invalid `HSM_SIM_PIN`, which does too.
* Two processes on one storage root: `docs/slots.md:121` forbids it.
* A crash of the operating system: files are not synchronised, so a rename may
  be lost or overtake the data; the models have crashes of the process.
* The checks of malformed templates and attribute values in `policy.cpp` and
  `template.cpp`: they return an error before anything changed.
* Key bytes, signatures, wrapped keys and PKCS#12 files: OpenSSL is a library, and its
  results only decide whether a call succeeds.
* The content of the function tables, hexadecimal coding, file names from
  labels, padding of strings: constants and formatting.
* The OASIS headers in `src/include/oasis`: declarations only.

## 6. Left to do

The grammar of `.meta` files (`storage/metadata.cpp`) with a reference definition of what a
file means, and the files that make `C_Initialize` fail.
