------------------------------ MODULE KeyStore ------------------------------
(***************************************************************************)
(* The files of one token key, step by step: the key file, its .meta file  *)
(* and the temporary file that becomes the .meta file (storage/key_store,  *)
(* storage/metadata, DestroyObject and SetAttributeValue under src/src).   *)
(* Runtime takes a call on these files as one step; here every file        *)
(* operation is a step, may fail, and the process may die between two.     *)
(*                                                                         *)
(* Calls are serialised, so at most one is in progress.  Permissions are   *)
(* Runtime's business: here a call is made whenever its object exists.     *)
(* Key bytes are a member of Keys, the records of a .meta file one policy. *)
(***************************************************************************)
EXTENDS Naturals

CONSTANTS
    Kind,       \* "secret": hexadecimal .key file, "pair": PKCS#12 file
    Keys,       \* key material
    Policies,   \* what the templates record
    Oversized,  \* those with a label or an id too long for a .meta file
    Default,    \* policy of an object without a record
    NoKey,      \* no object
    NoFile,     \* no file
    Faults,     \* what may go wrong
    MaxFaults   \* bound: how often it goes wrong

\* "short": an even number of digits, "broken": anything that does not parse.
Forms == {"whole", "short", "broken"}
Recorded == Policies \cup {Default}

KeyFiles == [key : Keys, form : Forms]
Metas == [of : Keys, policy : Policies]

\* The objects a file name can have.
Stored == [key : Keys, form : {"whole", "short"}, policy : Recorded]

ASSUME KindAssumption == Kind \in {"secret", "pair"}
ASSUME OversizedAssumption == Oversized \subseteq Policies
ASSUME FaultsAssumption ==
    /\ Faults \subseteq {"crash", "write", "rename", "remove"}
    /\ MaxFaults \in Nat
ASSUME SentinelsAssumption ==
    /\ NoKey \notin Stored
    /\ NoFile \notin KeyFiles \cup Metas

VARIABLES
    keyFile,  \* disk: the key and what there is of it
    meta,     \* disk: the policy, and the key it was recorded for
    temp,     \* disk: the temporary file exists
    running,  \* between Initialize and Finalize
    object,   \* memory: the object of the file
    call,     \* the call in progress
    told,     \* what the client was told it has (no variable of the code)
    faults    \* how often something went wrong

vars == <<keyFile, meta, temp, running, object, call, told, faults>>
disk == <<keyFile, meta, temp>>

\* A call waits for its next file operation.
Idle == [op |-> "none", step |-> "idle", policy |-> Default]
Calling(op, step, p) == [op |-> op, step |-> step, policy |-> p]
At(step) == call.step = step
GoTo(step) == call' = [call EXCEPT !.step = step]

Fault(kind) ==
    /\ kind \in Faults
    /\ faults < MaxFaults
    /\ faults' = faults + 1

\* loadSymmetricFiles, loadAsymmetricFiles, loadObjectMetadata: what does not
\* parse is skipped.
Load ==
    IF keyFile = NoFile \/ keyFile.form = "broken"
    THEN NoKey
    ELSE [key |-> keyFile.key, form |-> keyFile.form,
          policy |-> IF meta = NoFile THEN Default ELSE meta.policy]

Init ==
    /\ keyFile = NoFile
    /\ meta = NoFile
    /\ temp = FALSE
    /\ running = FALSE
    /\ object = NoKey
    /\ call = Idle
    /\ told = NoKey
    /\ faults = 0

-----------------------------------------------------------------------------
(* The process.                                                            *)

Start ==
    /\ ~running
    /\ running' = TRUE
    /\ object' = Load
    /\ UNCHANGED <<disk, call, told, faults>>

\* Mutant of MemoryLost: the registry stays.
CallLost ==
    /\ running' = FALSE
    /\ call' = Idle
    /\ UNCHANGED object

MemoryLost ==
    /\ running' = FALSE
    /\ call' = Idle
    /\ object' = NoKey

\* Finalize
Stop ==
    /\ running
    /\ call = Idle
    /\ MemoryLost
    /\ UNCHANGED <<disk, told, faults>>

Crash ==
    /\ running
    /\ Fault("crash")
    /\ MemoryLost
    /\ UNCHANGED <<disk, told>>

-----------------------------------------------------------------------------
(* Creation: the key file, then its metadata.                              *)

\* saveSecretKey, saveKeyPair: the name must be free; the file is opened.
Create(k, p) ==
    /\ running
    /\ call = Idle
    /\ keyFile = NoFile
    /\ keyFile' = [key |-> k, form |-> "broken"]
    /\ call' = Calling("create", "save", p)
    /\ UNCHANGED <<meta, temp, running, object, told, faults>>

\* The object is registered before its metadata is written.
Register ==
    /\ object' = [key |-> keyFile.key, form |-> "whole", policy |-> call.policy]
    /\ GoTo("write")

Save ==
    /\ At("save")
    /\ keyFile' = [keyFile EXCEPT !.form = "whole"]
    /\ Register
    /\ UNCHANGED <<meta, temp, running, told, faults>>

\* saveKeyPair closes the file before it tests the stream, and leaves what
\* there is of it.
SaveFails ==
    /\ At("save")
    /\ Kind = "pair"
    /\ Fault("write")
    /\ call' = Idle
    /\ UNCHANGED <<disk, running, object, told>>

\* saveSecretKey tests the stream while the digits are in its buffer: it does
\* not see that its destructor fails to write them.
SaveCut ==
    /\ At("save")
    /\ Kind = "secret"
    /\ Fault("write")
    /\ \E form \in {"short", "broken"} : keyFile' = [keyFile EXCEPT !.form = form]
    /\ Register
    /\ UNCHANGED <<meta, temp, running, told>>

\* Mutant of RollBack: the key file stays.
KeepFile ==
    /\ At("rollback")
    /\ call' = Idle
    /\ UNCHANGED <<disk, running, object, told, faults>>

\* persistMetadata, when metadata::create has thrown: the object goes, then
\* its file; an error of the removal is ignored.
RollBack ==
    /\ At("rollback")
    /\ call' = Idle
    /\ \/ keyFile' = NoFile /\ UNCHANGED faults
       \/ Fault("remove") /\ UNCHANGED keyFile
    /\ UNCHANGED <<meta, temp, running, object, told>>

-----------------------------------------------------------------------------
(* metadata::create, which SetAttributeValue calls with replace = true.    *)

\* SetAttributeValue: memory changes last.
Update(p) ==
    /\ running
    /\ call = Idle
    /\ object # NoKey
    /\ call' = Calling("update", "write", p)
    /\ UNCHANGED <<disk, running, object, told, faults>>

\* Mutant of Abandon: the creation goes on without its metadata.
AbandonMetadata ==
    /\ call' = Idle
    /\ UNCHANGED object

\* The exception reaches persistMetadata or SetAttributeValue.
Abandon ==
    IF call.op = "create"
    THEN GoTo("rollback") /\ object' = NoKey
    ELSE call' = Idle /\ UNCHANGED object

Blocked == temp \/ (call.op = "create" /\ meta # NoFile)

\* The test comes before the try block: nothing is removed.
Refuse ==
    /\ At("write")
    /\ Blocked
    /\ Abandon
    /\ UNCHANGED <<disk, running, told, faults>>

\* Mutant of WriteTemp: the .meta file itself is written.
WriteInPlace ==
    /\ At("write")
    /\ ~Blocked
    /\ temp' = TRUE
    /\ meta' = NoFile
    /\ GoTo("rename")
    /\ UNCHANGED <<keyFile, running, object, told, faults>>

\* open, write, close; writeString throws on a string that is too long
WriteTemp ==
    /\ At("write")
    /\ ~Blocked
    /\ temp' = TRUE
    /\ \/ call.policy \notin Oversized /\ GoTo("rename") /\ UNCHANGED faults
       \/ call.policy \in Oversized /\ GoTo("clean") /\ UNCHANGED faults
       \/ GoTo("clean") /\ Fault("write")
    /\ UNCHANGED <<keyFile, meta, running, object, told>>

\* The rename, and the assignment to the object that follows it.
Rename ==
    /\ At("rename")
    /\ temp' = FALSE
    /\ meta' = [of |-> object.key, policy |-> call.policy]
    /\ object' = [object EXCEPT !.policy = call.policy]
    /\ told' = object'
    /\ call' = Idle
    /\ UNCHANGED <<keyFile, running, faults>>

RenameFails ==
    /\ At("rename")
    /\ Fault("rename")
    /\ GoTo("clean")
    /\ UNCHANGED <<disk, running, object, told>>

\* catch (...): the temporary file goes, unless that fails too.
Clean ==
    /\ At("clean")
    /\ \/ temp' = FALSE /\ UNCHANGED faults
       \/ Fault("remove") /\ UNCHANGED temp
    /\ Abandon
    /\ UNCHANGED <<keyFile, meta, running, told>>

-----------------------------------------------------------------------------
(* DestroyObject: the key file, its metadata, the object.                  *)

\* Mutant of Destroy: the metadata goes first.
DestroyMeta ==
    /\ running
    /\ call = Idle
    /\ object # NoKey
    /\ meta' = NoFile
    /\ told' = NoKey
    /\ call' = Calling("destroy", "forget", Default)
    /\ UNCHANGED <<keyFile, temp, running, object, faults>>

Destroy ==
    /\ running
    /\ call = Idle
    /\ object # NoKey
    /\ keyFile' = NoFile
    /\ told' = NoKey
    /\ call' = Calling("destroy", "forget", Default)
    /\ UNCHANGED <<meta, temp, running, object, faults>>

\* The object goes whether the .meta file could be removed or not.
Forget ==
    /\ At("forget")
    /\ \/ meta' = NoFile /\ UNCHANGED faults
       \/ Fault("remove") /\ UNCHANGED meta
    /\ object' = NoKey
    /\ call' = Idle
    /\ UNCHANGED <<keyFile, temp, running, told>>

-----------------------------------------------------------------------------
Next ==
    \/ Start
    \/ Stop
    \/ Crash
    \/ \E k \in Keys, p \in Policies : Create(k, p)
    \/ Save
    \/ SaveFails
    \/ SaveCut
    \/ RollBack
    \/ \E p \in Policies : Update(p)
    \/ Refuse
    \/ WriteTemp
    \/ Rename
    \/ RenameFails
    \/ Clean
    \/ Destroy
    \/ Forget

Spec == Init /\ [][Next]_vars

-----------------------------------------------------------------------------
\* Every variable has its type, and which files exist in the middle of a call.
TypeOK ==
    /\ keyFile \in KeyFiles \cup {NoFile}
    /\ meta \in Metas \cup {NoFile}
    /\ temp \in BOOLEAN
    /\ running \in BOOLEAN
    /\ object \in Stored \cup {NoKey}
    /\ call \in
           {Idle} \cup
           [op : {"create"}, step : {"save", "rollback"}, policy : Policies] \cup
           [op : {"create", "update"}, step : {"write", "rename", "clean"},
            policy : Policies] \cup
           {Calling("destroy", "forget", Default)}
    /\ told \in Stored \cup {NoKey}
    /\ faults \in 0..MaxFaults
    /\ ~running => object = NoKey /\ call = Idle

\* A key whose creation or last update succeeded is what the next start loads,
\* with its policy, until somebody asks to destroy it: whatever fails and
\* wherever the process dies, an update is all or nothing.
AcknowledgedSurvives == told # NoKey => Load = told

\* The object a client can see has its own policy or the default, never what
\* was recorded for a key that had the same name (an orphan .meta file).
OwnPolicy ==
    call = Idle /\ object # NoKey /\ meta # NoFile => meta.of = object.key

\* A creation that returns an error, at whatever step and after whatever
\* failures, leaves no object and nothing that a start would load, unless the
\* one thing that undoes it, the removal of the key file, fails as well.
FailedCreationLeavesNothing ==
    [][call.op = "create" /\ call' = Idle /\ running' /\ told' = NoKey
       => /\ object' = NoKey
          /\ \/ Load' = NoKey
             \/ call.step = "rollback" /\ faults' > faults]_vars

\* While a key is being created, it does not count.
Registry == INSTANCE KeyRegistry WITH
    stored <- IF call.op = "create" THEN NoKey ELSE Load

\* The separate file steps implement calls that take effect at once.
ImplementsRegistry == Registry!Spec
=============================================================================
