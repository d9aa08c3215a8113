------------------------------ MODULE SlotScan ------------------------------
(***************************************************************************)
(* How C_Initialize finds the slots: discoverSlots and parseSlotId of      *)
(* src/src/storage/slots.cpp, entry by entry and digit by digit, then the  *)
(* key directories that loadTokenObjects creates.  Between two runs of the *)
(* library somebody edits the storage, as docs/slots.md tells him to.      *)
(*                                                                         *)
(* The files of a directory are Runtime's and PinStore's business; here a  *)
(* directory has its name, its key directories or not, and a password file *)
(* that readPassword refuses or not.                                       *)
(***************************************************************************)
EXTENDS Integers, Sequences, Functions

CONSTANTS
    Names,     \* names of directories: the digits before '_', and the label
    Root,      \* the storage root itself
    NoName,    \* no directory
    NoLabel,   \* the empty label
    MaxId,     \* largest CK_SLOT_ID
    LegacyId   \* slot number of the historical layout

\* A name without digits stands for everything that is no slot.
ASSUME NamesAssumption ==
    /\ \A name \in Names : name.digits \in Seq(0..9)
    /\ Root \notin Names /\ NoName \notin Names /\ NoName # Root
ASSUME WidthAssumption == MaxId \in Nat /\ MaxId >= 9 /\ LegacyId \in 0..MaxId

Places == Names \cup {Root}

VARIABLES
    tree,     \* disk: names of the directories of the root
    refused,  \* disk: places with a password file that readPassword refuses
    keyDirs,  \* disk: places that hold asymmetric/ or symmetric/
    slots,    \* runtime.slots: number -> place
    status,   \* where the library is
    todo,     \* directory_iterator: entries still to come
    found,    \* discoverSlots: slots
    current,  \* name being parsed
    position, \* digits parsed so far
    id,       \* the number in a CK_SLOT_ID
    value,    \* ghost: the number the digits say
    outcome   \* result of the last C_Initialize

disk == <<tree, refused, keyDirs>>
parsing == <<current, position, id, value>>
vars == <<disk, slots, status, todo, found, parsing, outcome>>

Empty == [i \in {} |-> NoName]

Init ==
    /\ tree = {}
    /\ refused = {}
    /\ keyDirs \in SUBSET {Root}
    /\ slots = Empty
    /\ status = "stopped"
    /\ todo = {}
    /\ found = Empty
    /\ current = NoName /\ position = 0 /\ id = 0 /\ value = 0
    /\ outcome = "none"

-----------------------------------------------------------------------------
(* What happens to the storage while no client uses it.                    *)

Edited ==
    /\ status = "stopped"
    /\ outcome' = "none"
    /\ UNCHANGED <<slots, status, todo, found, parsing>>

MakeDirectory(name) ==
    /\ name \notin tree
    /\ tree' = tree \cup {name}
    /\ UNCHANGED <<refused, keyDirs>>
    /\ Edited

RemoveDirectory(name) ==
    /\ name \in tree
    /\ tree' = tree \ {name}
    /\ refused' = refused \ {name}
    /\ keyDirs' = keyDirs \ {name}
    /\ Edited

\* A password file is written, well or badly.
WritePassword(place) ==
    /\ place \in tree \cup {Root}
    /\ refused' \in {refused \cup {place}, refused \ {place}}
    /\ UNCHANGED <<tree, keyDirs>>
    /\ Edited

\* The migration of docs/slots.md: the key directories move into a slot.
MoveKeys(name) ==
    /\ name \in tree /\ Root \in keyDirs
    /\ keyDirs' = (keyDirs \ {Root}) \cup {name}
    /\ UNCHANGED <<tree, refused>>
    /\ Edited

-----------------------------------------------------------------------------
(* Initialize                                                              *)

Begin ==
    /\ status = "stopped"
    /\ status' = "scanning"
    /\ todo' = tree
    /\ found' = Empty
    /\ outcome' = "none"
    /\ UNCHANGED <<disk, slots, parsing>>

NotParsing == current' = NoName /\ position' = 0 /\ id' = 0 /\ value' = 0

\* Mutant of Fail: the registry of the attempt stays.
FailFound ==
    /\ slots' = found
    /\ status' = "stopped"
    /\ todo' = {}
    /\ found' = Empty
    /\ NotParsing
    /\ outcome' = "DEVICE_ERROR"
    /\ UNCHANGED disk

\* An exception: Initialize catches it and clears the registries.
Fail ==
    /\ slots' = Empty
    /\ status' = "stopped"
    /\ todo' = {}
    /\ found' = Empty
    /\ NotParsing
    /\ outcome' = "DEVICE_ERROR"
    /\ UNCHANGED disk

IsSlot(name) == name.digits # <<>>

\* The next entry, in the order the file system chooses: no slot ...
Skip(name) ==
    /\ status = "scanning" /\ current = NoName
    /\ name \in todo /\ ~IsSlot(name)
    /\ todo' = todo \ {name}
    /\ UNCHANGED <<disk, slots, status, found, parsing, outcome>>

\* ... a slot without a label ...
RefuseLabel(name) ==
    /\ status = "scanning" /\ current = NoName
    /\ name \in todo /\ IsSlot(name) /\ name.label = NoLabel
    /\ Fail

\* ... or a slot whose number is now parsed.
Parse(name) ==
    /\ status = "scanning" /\ current = NoName
    /\ name \in todo /\ IsSlot(name) /\ name.label # NoLabel
    /\ todo' = todo \ {name}
    /\ current' = name
    /\ position' = 0 /\ id' = 0 /\ value' = 0
    /\ UNCHANGED <<disk, slots, status, found, outcome>>

Digit == current.digits[position + 1]

\* Mutant of OutOfRange: the last digit is not counted.
OutOfRangeByTens == id > MaxId \div 10

OutOfRange == id > (MaxId - Digit) \div 10

ReadDigit ==
    /\ current # NoName /\ position < Len(current.digits)
    /\ ~OutOfRange
    /\ position' = position + 1
    /\ id' = (id * 10 + Digit) % (MaxId + 1)
    /\ value' = value * 10 + Digit
    /\ UNCHANGED <<disk, slots, status, todo, found, current, outcome>>

RefuseNumber ==
    /\ current # NoName /\ position < Len(current.digits)
    /\ OutOfRange
    /\ Fail

Parsed == current # NoName /\ position = Len(current.digits)

\* Mutant of Duplicate: the second slot with a number is dropped silently.
DuplicateNever == FALSE

Duplicate == id \in DOMAIN found

\* loadPasswords, emplace
RefuseSlot ==
    /\ Parsed
    /\ current \in refused \/ Duplicate
    /\ Fail

KeepSlot ==
    /\ Parsed
    /\ current \notin refused /\ ~Duplicate
    /\ found' = [i \in DOMAIN found \cup {id} |->
                     IF i \in DOMAIN found THEN found[i] ELSE current]
    /\ NotParsing
    /\ UNCHANGED <<disk, slots, status, todo, outcome>>

Scanned == status = "scanning" /\ current = NoName /\ todo = {}

Publish(registry) ==
    /\ slots' = registry
    /\ status' = "loading"
    /\ found' = Empty
    /\ UNCHANGED <<disk, todo, parsing, outcome>>

PublishLegacy ==
    /\ Scanned /\ found = Empty
    /\ Root \notin refused
    /\ Publish([i \in {LegacyId} |-> Root])

\* Mutant of Mixed: no slot of the historical layout is looked for.
MixedNever == FALSE

\* Keys of the historical layout that the slots would hide.
Mixed == Root \in keyDirs

PublishSlots ==
    /\ Scanned /\ found # Empty
    /\ ~Mixed
    /\ Publish(found)

RefuseLayout ==
    /\ Scanned
    /\ IF found = Empty THEN Root \in refused ELSE Mixed
    /\ Fail

\* loadTokenObjects creates the key directories that are missing.
Load ==
    /\ status = "loading"
    /\ keyDirs' = keyDirs \cup Range(slots)
    /\ status' = "running"
    /\ outcome' = "OK"
    /\ UNCHANGED <<tree, refused, slots, todo, found, parsing>>

\* A directory cannot be created or read; those before it are there.
LoadFails ==
    /\ status = "loading"
    /\ \E made \in SUBSET Range(slots) : keyDirs' = keyDirs \cup made
    /\ slots' = Empty
    /\ status' = "stopped"
    /\ outcome' = "LOAD_ERROR"
    /\ UNCHANGED <<tree, refused, todo, found, parsing>>

\* Finalize
Stop ==
    /\ status = "running"
    /\ slots' = Empty
    /\ status' = "stopped"
    /\ outcome' = "none"
    /\ UNCHANGED <<disk, todo, found, parsing>>

Edit ==
    \/ \E name \in Names :
           MakeDirectory(name) \/ RemoveDirectory(name) \/ MoveKeys(name)
    \/ \E place \in Places : WritePassword(place)

DiscoverSlots ==
    \/ \E name \in Names : Skip(name) \/ RefuseLabel(name) \/ Parse(name)
    \/ ReadDigit
    \/ RefuseNumber
    \/ RefuseSlot
    \/ KeepSlot
    \/ PublishLegacy
    \/ PublishSlots
    \/ RefuseLayout

Next == Edit \/ Begin \/ DiscoverSlots \/ Load \/ LoadFails \/ Stop

Spec == Init /\ [][Next]_vars

-----------------------------------------------------------------------------
Statuses == {"stopped", "scanning", "loading", "running"}
SlotNames == {name \in tree : IsSlot(name)}

\* Every variable has its type, and slots are seen after the scan only.
ScanTypeOK ==
    /\ tree \subseteq Names
    /\ refused \subseteq tree \cup {Root}
    /\ keyDirs \subseteq tree \cup {Root}
    /\ DOMAIN slots \subseteq 0..MaxId /\ Range(slots) \subseteq tree \cup {Root}
    /\ status \in Statuses
    /\ todo \subseteq tree
    /\ DOMAIN found \subseteq 0..MaxId /\ Range(found) \subseteq tree
    /\ current \in Names \cup {NoName}
    /\ position \in Nat /\ id \in 0..MaxId /\ value \in Nat
    /\ outcome \in {"none", "OK", "DEVICE_ERROR", "LOAD_ERROR"}
    /\ status \in {"stopped", "scanning"} => slots = Empty
    /\ status # "scanning" => todo = {} /\ found = Empty /\ current = NoName

\* The number of a slot is the one its name says, for CK_SLOT_ID of any width:
\* parseSlotId refuses a number before the multiplication or the sum wraps.
SlotNumbersExact == current # NoName => id = value

\* No key directory is hidden: whenever slots are visible, the directory of
\* each belongs to one of them, whatever was created, moved or left behind.
NoKeyHidden ==
    slots # Empty => keyDirs \cap (SlotNames \cup {Root}) \subseteq Range(slots)

\* The numbers that the leading digits of a name say: none, one, all of them.
Prefixes(digits) ==
    LET prefix[n \in 0..Len(digits)] ==
            IF n = 0 THEN 0 ELSE prefix[n - 1] * 10 + digits[n]
    IN  prefix

\* The decimal number of a name, by its definition.
Number(name) == Prefixes(name.digits)[Len(name.digits)]

\* What docs/slots.md asks of the storage.
WellFormed ==
    /\ \A name \in SlotNames :
           /\ name.label # NoLabel
           /\ Number(name) <= MaxId
           /\ name \notin refused
           /\ \A other \in SlotNames \ {name} : Number(other) # Number(name)
    /\ IF SlotNames = {} THEN Root \notin refused
                         ELSE Root \notin keyDirs

\* Whatever the order of the directory entries and whatever an earlier attempt
\* left, C_Initialize refuses the storage if and only if it is not well formed,
\* and shows exactly its slots otherwise.
StartExact ==
    /\ outcome = "DEVICE_ERROR" => ~WellFormed
    /\ status \in {"loading", "running"} =>
           /\ WellFormed
           /\ IF SlotNames = {}
              THEN slots = [i \in {LegacyId} |-> Root]
              ELSE slots = [i \in {Number(name) : name \in SlotNames} |->
                                CHOOSE name \in SlotNames : Number(name) = i]
=============================================================================
