--------------------------- MODULE SlotScanProofs ---------------------------
(***************************************************************************)
(* Theorems about SlotScan, for any storage and any width of CK_SLOT_ID:   *)
(* the number parsed is the number written, no key directory is hidden,    *)
(* and a start shows the slots of the storage or rightly refuses it.  The  *)
(* invariant follows the scan: what was found are the slots of the tree    *)
(* that are neither still to come nor being parsed, and the registry that  *)
(* is published is all of them.                                            *)
(***************************************************************************)
EXTENDS SlotScan, WellFoundedInduction, TLAPS

Progress ==
    /\ current # NoName =>
           /\ id = value
           /\ status = "scanning"
           /\ current \in tree /\ IsSlot(current)
           /\ position \in 0..Len(current.digits)
    /\ status = "scanning" =>
           \A name \in SlotNames :
               name \in todo \/ name = current \/ name \in Range(found)

Shown ==
    status \in {"loading", "running"} =>
        \/ SlotNames = {} /\ Range(slots) = {Root}
        \/ /\ SlotNames \subseteq Range(slots) /\ Range(slots) \subseteq tree
           /\ Root \notin keyDirs

Inv ==
    /\ ScanTypeOK
    /\ Progress
    /\ Shown

LEMMA EmptyRange == DOMAIN Empty = {} /\ Range(Empty) = {}
BY DEF Empty, Range

\* One digit more fits exactly when the test of parseSlotId lets it pass.
LEMMA DigitExact ==
    ASSUME NEW n \in 0..MaxId, NEW d \in 0..9
    PROVE  /\ n > (MaxId - d) \div 10 <=> n * 10 + d > MaxId
           /\ ~(n > (MaxId - d) \div 10) =>
                  /\ n * 10 + d \in 0..MaxId
                  /\ (n * 10 + d) % (MaxId + 1) = n * 10 + d
<1> DEFINE q == (MaxId - d) \div 10
           r == (MaxId - d) % 10
<1>1. /\ q \in Int /\ r \in 0..9 /\ MaxId - d = 10 * q + r
  BY WidthAssumption
<1> HIDE DEF q, r
<1>2. n > q <=> n * 10 + d > MaxId
  BY <1>1, WidthAssumption
<1>3. ASSUME ~(n > q) PROVE n * 10 + d \in 0..MaxId
  BY <1>2, <1>3, WidthAssumption
<1>4. ASSUME NEW m \in 0..MaxId PROVE m % (MaxId + 1) = m
  BY <1>4, WidthAssumption
<1> QED BY <1>2, <1>3, <1>4 DEF q

LEMMA InitInv == Init => Inv
<1> SUFFICES ASSUME Init PROVE Inv
  OBVIOUS
<1> USE EmptyRange DEF Init
<1>1. ScanTypeOK
  BY WidthAssumption DEF ScanTypeOK, Statuses
<1>2. Progress /\ Shown
  BY DEF Progress, Shown
<1> QED BY <1>1, <1>2 DEF Inv

\* Edits: the library is stopped.
LEMMA EditInv ==
    ASSUME Inv, Edit
    PROVE  Inv'
<1>1. /\ status = "stopped" /\ slots = Empty
      /\ todo = {} /\ found = Empty /\ current = NoName
      /\ outcome' = "none"
      /\ UNCHANGED <<slots, status, todo, found, parsing>>
  BY DEF Inv, ScanTypeOK, Edit, MakeDirectory, RemoveDirectory, MoveKeys,
         WritePassword, Edited
<1>2. /\ tree' \subseteq Names
      /\ refused' \subseteq tree' \cup {Root}
      /\ keyDirs' \subseteq tree' \cup {Root}
  BY DEF Inv, ScanTypeOK, Edit, MakeDirectory, RemoveDirectory, MoveKeys,
         WritePassword
<1>3. ScanTypeOK'
  BY <1>1, <1>2, EmptyRange DEF Inv, ScanTypeOK, parsing
<1>4. Progress' /\ Shown'
  BY <1>1 DEF Progress, Shown, parsing
<1> QED BY <1>3, <1>4 DEF Inv

\* An attempt that ends leaves nothing to see.
LEMMA FailInv ==
    ASSUME Inv, Fail
    PROVE  Inv'
<1>1. ScanTypeOK'
  BY EmptyRange, WidthAssumption
     DEF Inv, ScanTypeOK, Fail, NotParsing, disk, Statuses
<1>2. Progress' /\ Shown'
  BY DEF Fail, NotParsing, Progress, Shown
<1> QED BY <1>1, <1>2 DEF Inv

LEMMA ScanInv ==
    ASSUME Inv,
           \/ Begin \/ ReadDigit \/ KeepSlot
           \/ \E name \in Names : Skip(name) \/ Parse(name)
    PROVE  Inv'
<1>1. CASE Begin
  <2>1. ScanTypeOK'
    BY <1>1, EmptyRange DEF Inv, ScanTypeOK, Begin, disk, parsing, Statuses
  <2>2. Progress' /\ Shown'
    BY <1>1 DEF Inv, ScanTypeOK, Progress, Shown, Begin, disk, parsing, SlotNames
  <2> QED BY <2>1, <2>2 DEF Inv
<1>2. CASE ReadDigit
  <2>1. /\ current \in Names /\ current # NoName
        /\ position \in 0..Len(current.digits) - 1
        /\ current.digits \in Seq(0..9)
    BY <1>2, NamesAssumption DEF Inv, ScanTypeOK, Progress, ReadDigit
  <2>2. Digit \in 0..9
    BY <2>1 DEF Digit
  <2>3. /\ id' = id * 10 + Digit /\ id' \in 0..MaxId
        /\ id = value /\ value' = value * 10 + Digit
    BY <1>2, <2>1, <2>2, DigitExact
       DEF Inv, ScanTypeOK, Progress, ReadDigit, OutOfRange
  <2>4. ScanTypeOK'
    BY <1>2, <2>1, <2>2, <2>3 DEF Inv, ScanTypeOK, ReadDigit, disk
  <2>5. Progress' /\ Shown'
    BY <1>2, <2>1, <2>3 DEF Inv, Progress, Shown, ReadDigit, disk, SlotNames
  <2> QED BY <2>4, <2>5 DEF Inv
<1>3. CASE KeepSlot
  <2>1. /\ status = "scanning" /\ current # NoName
        /\ current \in Names /\ current \in tree
        /\ id \in 0..MaxId
    BY <1>3 DEF Inv, ScanTypeOK, Progress, KeepSlot, Parsed
  <2>2. /\ DOMAIN found' = DOMAIN found \cup {id}
        /\ Range(found') = Range(found) \cup {current}
    BY <1>3 DEF KeepSlot, Duplicate, Range
  <2>3. ScanTypeOK'
    BY <1>3, <2>1, <2>2, WidthAssumption
       DEF Inv, ScanTypeOK, KeepSlot, NotParsing, disk
  <2>4. Progress' /\ Shown'
    BY <1>3, <2>1, <2>2
       DEF Inv, Progress, Shown, KeepSlot, NotParsing, disk, SlotNames
  <2> QED BY <2>3, <2>4 DEF Inv
<1>4. ASSUME NEW name \in Names, Skip(name) PROVE Inv'
  <2>1. ScanTypeOK'
    BY <1>4 DEF Inv, ScanTypeOK, Skip, disk, parsing
  <2>2. Progress' /\ Shown'
    BY <1>4 DEF Inv, Progress, Shown, Skip, disk, parsing, SlotNames
  <2> QED BY <2>1, <2>2 DEF Inv
<1>5. ASSUME NEW name \in Names, Parse(name) PROVE Inv'
  <2>1. name \in tree /\ name # NoName /\ Len(name.digits) \in Nat
    BY <1>5, NamesAssumption DEF Inv, ScanTypeOK, Parse
  <2>2. ScanTypeOK'
    BY <1>5, <2>1, WidthAssumption DEF Inv, ScanTypeOK, Parse, disk
  <2>3. Progress' /\ Shown'
    <3>1. /\ tree' = tree /\ found' = found /\ status' = "scanning"
          /\ status = "scanning" /\ current = NoName
          /\ current' = name /\ todo' = todo \ {name}
          /\ id' = value' /\ position' = 0 /\ IsSlot(name)
      BY <1>5 DEF Parse, disk
    <3>2. 0 \in 0..Len(name.digits)
      BY <2>1
    <3>3. \A other \in SlotNames' :
              other \in todo' \/ other = current' \/ other \in Range(found')
      BY <3>1, NamesAssumption DEF Inv, ScanTypeOK, Progress, SlotNames
    <3> QED BY <2>1, <3>1, <3>2, <3>3 DEF Progress, Shown
  <2> QED BY <2>2, <2>3 DEF Inv
<1> QED BY <1>1, <1>2, <1>3, <1>4, <1>5

\* What is published is everything that the scan met.
LEMMA PublishInv ==
    ASSUME Inv, PublishLegacy \/ PublishSlots
    PROVE  Inv'
<1>1. /\ status = "scanning" /\ current = NoName /\ todo = {}
      /\ status' = "loading" /\ found' = Empty
      /\ UNCHANGED <<disk, todo, parsing, outcome>>
  BY DEF PublishLegacy, PublishSlots, Publish, Scanned
<1>2. SlotNames \subseteq Range(found)
  BY <1>1, NamesAssumption DEF Inv, ScanTypeOK, Progress, SlotNames
<1>3. /\ DOMAIN slots' \subseteq 0..MaxId /\ Range(slots') \subseteq tree \cup {Root}
      /\ Shown'
  <2>1. CASE PublishLegacy
    <3>1. DOMAIN slots' = {LegacyId} /\ Range(slots') = {Root}
      BY <2>1 DEF PublishLegacy, Publish, Range
    <3>2. SlotNames' = {}
      BY <1>1, <1>2, <2>1, EmptyRange DEF PublishLegacy, SlotNames, disk
    <3> QED BY <3>1, <3>2, WidthAssumption DEF Shown
  <2>2. CASE PublishSlots
    <3>1. slots' = found /\ Root \notin keyDirs
      BY <2>2 DEF PublishSlots, Publish, Mixed
    <3> QED BY <1>1, <1>2, <3>1
            DEF Inv, ScanTypeOK, Shown, SlotNames, disk
  <2> QED BY <2>1, <2>2
<1>4. ScanTypeOK'
  BY <1>1, <1>3, EmptyRange DEF Inv, ScanTypeOK, disk, parsing, Statuses
<1>5. Progress'
  BY <1>1 DEF Progress, parsing
<1> QED BY <1>3, <1>4, <1>5 DEF Inv

LEMMA LoadInv ==
    ASSUME Inv, Load \/ LoadFails \/ Stop
    PROVE  Inv'
<1>1. CASE Load
  <2>1. /\ status = "loading" /\ status' = "running" /\ outcome' = "OK"
        /\ keyDirs' = keyDirs \cup Range(slots)
        /\ UNCHANGED <<tree, refused, slots, todo, found, current, position,
                       id, value>>
    BY <1>1 DEF Load, parsing
  <2>2. ScanTypeOK'
    BY <2>1 DEF Inv, ScanTypeOK, Statuses
  <2>3. Progress'
    BY <2>1 DEF Inv, ScanTypeOK, Progress
  <2>4. Shown'
    BY <2>1, NamesAssumption DEF Inv, ScanTypeOK, Shown, SlotNames
  <2> QED BY <2>2, <2>3, <2>4 DEF Inv
<1>2. CASE LoadFails \/ Stop
  <2>1. /\ status \in {"loading", "running"} /\ status' = "stopped"
        /\ outcome' \in {"LOAD_ERROR", "none"}
        /\ slots' = Empty
        /\ keyDirs' \subseteq keyDirs \cup Range(slots)
        /\ UNCHANGED <<tree, refused, todo, found, current, position, id, value>>
    BY <1>2 DEF LoadFails, Stop, parsing, disk
  <2>2. ScanTypeOK'
    BY <2>1, EmptyRange DEF Inv, ScanTypeOK, Statuses
  <2>3. Progress' /\ Shown'
    BY <2>1 DEF Inv, ScanTypeOK, Progress, Shown
  <2> QED BY <2>2, <2>3 DEF Inv
<1> QED BY <1>1, <1>2

LEMMA NextInv == Inv /\ [Next]_vars => Inv'
<1>1. ASSUME Inv, UNCHANGED vars PROVE Inv'
  BY <1>1 DEF Inv, vars, disk, parsing, ScanTypeOK, Progress, Shown, SlotNames
<1>2. ASSUME Inv, DiscoverSlots PROVE Inv'
  <2>1. CASE RefuseNumber \/ RefuseSlot \/ RefuseLayout
             \/ \E name \in Names : RefuseLabel(name)
    BY <1>2, <2>1, FailInv DEF RefuseNumber, RefuseSlot, RefuseLayout, RefuseLabel
  <2> QED BY <1>2, <2>1, ScanInv, PublishInv DEF DiscoverSlots
<1> QED BY <1>1, <1>2, EditInv, ScanInv, LoadInv DEF Next

-----------------------------------------------------------------------------
(* Induction over the natural numbers, as a fact about sets.               *)

\* The order of the natural numbers, as a set of pairs.
Less == {p \in Nat \X Nat : p[1] < p[2]}
LEMMA LessWellFounded == IsWellFoundedOn(Less, Nat)
<1>1. OpToRel(<, Nat) = Less
  BY DEF OpToRel, Less
<1> QED BY <1>1, NatLessThanWellFounded, Zenon

\* A set of natural numbers with an element has a least one.
LEMMA LeastElement ==
    ASSUME NEW T \in SUBSET Nat, T # {}
    PROVE  \E x \in T : \A y \in T : x <= y
<1>1. \E x \in T : \A y \in T : <<y, x>> \notin Less
  BY LessWellFounded, WFMin
<1>2. PICK x \in T : \A y \in T : <<y, x>> \notin Less
  BY <1>1
<1>3. ASSUME NEW y \in T PROVE x <= y
  <2>1. <<y, x>> \in Nat \X Nat /\ <<y, x>>[1] = y /\ <<y, x>>[2] = x
    OBVIOUS
  <2>2. ~(y < x)
    BY <1>2, <2>1 DEF Less
  <2> QED BY <2>2
<1> QED BY <1>3

\* A set that holds zero and the successor of each element holds them all.
LEMMA SetInduction ==
    ASSUME NEW S, 0 \in S, \A n \in Nat : n \in S => n + 1 \in S
    PROVE  Nat \subseteq S
<1> SUFFICES ASSUME NEW n \in Nat, n \notin S PROVE FALSE
  OBVIOUS
<1> DEFINE T == {i \in Nat : i \notin S}
<1>1. PICK m \in T : \A y \in T : m <= y
  <2>1. T \in SUBSET Nat /\ T # {}
    OBVIOUS
  <2> HIDE DEF T
  <2> QED BY <2>1, LeastElement
<1>2. m # 0 /\ m - 1 \in Nat /\ m - 1 \notin T
  BY <1>1
<1> QED BY <1>1, <1>2

-----------------------------------------------------------------------------
(* What the recursive definition of a number computes.                     *)

\* p holds the numbers of the first n digits.
IsPrefixes(p, digits, n) ==
    /\ p \in [0..n -> Nat]
    /\ p[0] = 0
    /\ \A i \in 1..n : p[i] = p[i - 1] * 10 + digits[i]

\* The equations of Prefixes have a solution ...
LEMMA PrefixesExist ==
    ASSUME NEW digits \in Seq(0..9)
    PROVE  \E p : IsPrefixes(p, digits, Len(digits))
<1> DEFINE S == {n \in Nat : n <= Len(digits) =>
                                 \E p : IsPrefixes(p, digits, n)}
<1>1. 0 \in S
  <2>1. IsPrefixes([i \in 0..0 |-> 0], digits, 0)
    BY DEF IsPrefixes
  <2> QED BY <2>1
<1>2. ASSUME NEW n \in Nat, n \in S PROVE n + 1 \in S
  <2>1. SUFFICES ASSUME n + 1 <= Len(digits)
                 PROVE  \E p : IsPrefixes(p, digits, n + 1)
    BY <1>2
  <2>2. PICK p : IsPrefixes(p, digits, n)
    BY <1>2, <2>1
  <2> DEFINE q == [i \in 0..n + 1 |->
                       IF i = n + 1 THEN p[n] * 10 + digits[n + 1] ELSE p[i]]
  <2>3. digits[n + 1] \in 0..9 /\ p[n] \in Nat
    BY <2>1, <2>2 DEF IsPrefixes
  <2>4. IsPrefixes(q, digits, n + 1)
    <3>1. q \in [0..n + 1 -> Nat] /\ q[0] = 0
      <4>1. p \in [0..n -> Nat] /\ p[0] = 0
        BY <2>2 DEF IsPrefixes
      <4>2. p[n] * 10 + digits[n + 1] \in Nat
        <5>1. \A v \in Nat, d \in 0..9 : v * 10 + d \in Nat
          OBVIOUS
        <5> QED BY <2>3, <5>1
      <4>3. \A i \in 0..n + 1 : i # n + 1 => i \in 0..n
        OBVIOUS
      <4>4. ASSUME NEW i \in 0..n + 1 PROVE q[i] \in Nat
        BY <4>1, <4>2, <4>3
      <4>5. q[0] = 0
        BY <4>1
      <4> QED BY <4>4, <4>5
    <3>2. ASSUME NEW i \in 1..n + 1
          PROVE  q[i] = q[i - 1] * 10 + digits[i]
      BY <2>2 DEF IsPrefixes
    <3> QED BY <3>1, <3>2 DEF IsPrefixes
  <2> QED BY <2>4
<1>3. Len(digits) \in S
  <2> HIDE DEF S
  <2>1. \A n \in Nat : n \in S => n + 1 \in S
    BY <1>2
  <2> QED BY <1>1, <2>1, SetInduction
<1> QED BY <1>3

\* ... so Prefixes is one.
LEMMA PrefixesExact ==
    ASSUME NEW digits \in Seq(0..9)
    PROVE  IsPrefixes(Prefixes(digits), digits, Len(digits))
<1>1. PICK p : IsPrefixes(p, digits, Len(digits))
  BY PrefixesExist
<1>2. p = [n \in 0..Len(digits) |->
               IF n = 0 THEN 0 ELSE p[n - 1] * 10 + digits[n]]
  BY <1>1 DEF IsPrefixes
<1>3. Prefixes(digits) =
          [n \in 0..Len(digits) |->
               IF n = 0 THEN 0
               ELSE Prefixes(digits)[n - 1] * 10 + digits[n]]
  BY <1>2, Zenon DEF Prefixes
<1> DEFINE S == {n \in Nat : n <= Len(digits) => Prefixes(digits)[n] = p[n]}
<1>4. 0 \in S
  BY <1>1, <1>3 DEF IsPrefixes
<1>5. ASSUME NEW n \in Nat, n \in S PROVE n + 1 \in S
  BY <1>1, <1>3, <1>5 DEF IsPrefixes
<1>6. Nat \subseteq S
  <2> HIDE DEF S
  <2>1. \A n \in Nat : n \in S => n + 1 \in S
    BY <1>5
  <2> QED BY <1>4, <2>1, SetInduction
<1>7. \A n \in 0..Len(digits) : Prefixes(digits)[n] = p[n]
  BY <1>6
<1>8. Prefixes(digits) = p
  <2>1. DOMAIN Prefixes(digits) = 0..Len(digits) /\ DOMAIN p = 0..Len(digits)
    BY <1>1, <1>3 DEF IsPrefixes
  <2>2. Prefixes(digits) = [n \in 0..Len(digits) |-> Prefixes(digits)[n]]
    BY <1>3
  <2>3. p = [n \in 0..Len(digits) |-> p[n]]
    BY <1>1 DEF IsPrefixes
  <2> QED BY <1>7, <2>2, <2>3
<1> QED BY <1>1, <1>8

\* A number is at least as large as any of its leading parts.
LEMMA PrefixesGrow ==
    ASSUME NEW digits \in Seq(0..9), NEW n \in 0..Len(digits)
    PROVE  /\ Prefixes(digits)[n] \in Nat
           /\ Prefixes(digits)[n] <= Prefixes(digits)[Len(digits)]
<1> DEFINE p == Prefixes(digits)
           S == {m \in Nat : m \in n..Len(digits) => p[n] <= p[m]}
<1>1. IsPrefixes(p, digits, Len(digits))
  BY PrefixesExact
<1>2. /\ p \in [0..Len(digits) -> Nat]
      /\ \A i \in 1..Len(digits) : p[i] = p[i - 1] * 10 + digits[i]
  BY <1>1 DEF IsPrefixes
<1> HIDE DEF p
<1>3. 0 \in S
  BY <1>2
<1>4. ASSUME NEW m \in Nat, m \in S PROVE m + 1 \in S
  <2> SUFFICES ASSUME m + 1 \in n..Len(digits) PROVE p[n] <= p[m + 1]
    OBVIOUS
  <2>1. /\ n \in 0..Len(digits) /\ p[n] \in Nat
        /\ m \in 0..Len(digits) /\ p[m] \in Nat
        /\ m + 1 \in 1..Len(digits) /\ digits[m + 1] \in 0..9
    <3>1. m \in 0..Len(digits) /\ m + 1 \in 1..Len(digits)
      OBVIOUS
    <3>2. \A i \in 1..Len(digits) : digits[i] \in 0..9
      OBVIOUS
    <3> QED BY <1>2, <3>1, <3>2
  <2>2. p[m + 1] = p[m] * 10 + digits[m + 1]
    BY <1>2
  <2>3. CASE m + 1 = n
    BY <2>1, <2>3
  <2>4. CASE m \in n..Len(digits)
    <3>1. p[n] <= p[m]
      BY <1>4, <2>4
    <3>2. \A v \in Nat, d \in 0..9 : v <= v * 10 + d /\ v * 10 + d \in Nat
      OBVIOUS
    <3> HIDE DEF S
    <3>3. p[m] <= p[m + 1] /\ p[m + 1] \in Nat
      BY <2>1, <2>2, <3>2
    <3> QED BY <2>1, <3>1, <3>3
  <2> QED BY <2>3, <2>4
<1>5. Nat \subseteq S
  <2> HIDE DEF S
  <2>1. \A m \in Nat : m \in S => m + 1 \in S
    BY <1>4
  <2> QED BY <1>3, <2>1, SetInduction
<1>6. p[n] <= p[Len(digits)]
  BY <1>5
<1> QED BY <1>2, <1>6 DEF p

-----------------------------------------------------------------------------
(* What C_Initialize shows is what the storage says.  While it scans, the  *)
(* slots found are slots of the tree with the numbers of their names, none *)
(* of them refused, still to come or being parsed.                         *)

Collected ==
    status = "scanning" =>
        /\ found = [i \in DOMAIN found |-> found[i]]
        /\ \A i \in DOMAIN found :
               /\ found[i] \in SlotNames
               /\ found[i] \notin todo \cup refused \cup {current}
               /\ found[i].label # NoLabel
               /\ Number(found[i]) = i
        /\ current # NoName =>
               /\ current \notin todo
               /\ current.label # NoLabel
               /\ value = Prefixes(current.digits)[position]

\* A refusal is the answer of a library that has stopped.
Answered == outcome = "DEVICE_ERROR" => status = "stopped"

ExactInv ==
    /\ Inv
    /\ Collected
    /\ Answered
    /\ StartExact

LEMMA SameStorage ==
    ASSUME UNCHANGED <<tree, refused, keyDirs>>
    PROVE  (WellFormed <=> WellFormed') /\ SlotNames' = SlotNames
<1>1. SlotNames' = SlotNames
  BY DEF SlotNames
<1> QED BY <1>1 DEF WellFormed

LEMMA CollectedScan ==
    ASSUME Inv, Collected,
           \/ Begin \/ ReadDigit \/ KeepSlot
           \/ \E name \in Names : Skip(name) \/ Parse(name)
    PROVE  Collected'
<1>1. CASE Begin
  BY <1>1, EmptyRange DEF Inv, ScanTypeOK, Collected, Begin, disk, parsing, Empty
<1>2. CASE ReadDigit
  <2>1. /\ current \in Names /\ current # NoName /\ status = "scanning"
        /\ position \in Nat /\ position + 1 \in 1..Len(current.digits)
        /\ current.digits \in Seq(0..9)
        /\ position' = position + 1
        /\ value' = value * 10 + current.digits[position + 1]
        /\ UNCHANGED <<tree, refused, keyDirs, slots, status, todo, found,
                       current, outcome>>
    BY <1>2, NamesAssumption DEF Inv, ScanTypeOK, Progress, ReadDigit, Digit, disk
  <2>2. Prefixes(current.digits)[position + 1] =
            Prefixes(current.digits)[position] * 10 + current.digits[position + 1]
    <3>1. position + 1 - 1 = position
      BY <2>1
    <3> QED BY <2>1, <3>1, PrefixesExact DEF IsPrefixes
  <2> QED BY <2>1, <2>2, SameStorage DEF Collected
<1>3. CASE KeepSlot
  <2>1. /\ status = "scanning" /\ status' = status
        /\ current # NoName /\ current \in Names /\ current \in SlotNames
        /\ current.digits \in Seq(0..9)
        /\ id = Number(current) /\ id \notin DOMAIN found
        /\ current \notin todo \cup refused /\ current.label # NoLabel
        /\ current' = NoName
        /\ UNCHANGED <<tree, refused, keyDirs, todo>>
    BY <1>3, NamesAssumption
       DEF Inv, ScanTypeOK, Progress, Collected, KeepSlot, Parsed, Duplicate,
           NotParsing, disk, SlotNames, Number
  <2>2. /\ DOMAIN found' = DOMAIN found \cup {id}
        /\ found' = [i \in DOMAIN found' |-> found'[i]]
        /\ found'[id] = current
        /\ \A i \in DOMAIN found : found'[i] = found[i]
    BY <1>3 DEF KeepSlot, Duplicate
  <2>3. ASSUME NEW i \in DOMAIN found'
        PROVE  /\ found'[i] \in SlotNames
               /\ found'[i] \notin todo \cup refused \cup {NoName}
               /\ found'[i].label # NoLabel
               /\ Number(found'[i]) = i
    BY <2>1, <2>2, NamesAssumption DEF Inv, ScanTypeOK, Collected, SlotNames
  <2> QED BY <2>1, <2>2, <2>3, SameStorage DEF Collected
<1>4. ASSUME NEW name \in Names, Skip(name) PROVE Collected'
  BY <1>4, SameStorage DEF Collected, Skip, disk, parsing
<1>5. ASSUME NEW name \in Names, Parse(name) PROVE Collected'
  <2>1. Prefixes(name.digits)[0] = 0
    BY NamesAssumption, PrefixesExact DEF IsPrefixes
  <2> QED BY <1>5, <2>1, SameStorage DEF Collected, Parse, disk
<1> QED BY <1>1, <1>2, <1>3, <1>4, <1>5

\* The scan has met every slot when nothing is to come.
LEMMA FoundAll ==
    ASSUME Inv, Collected, Scanned
    PROVE  /\ SlotNames = Range(found)
           /\ found = Empty <=> SlotNames = {}
<1>1. SlotNames \subseteq Range(found)
  BY NamesAssumption DEF Inv, ScanTypeOK, Progress, Scanned, SlotNames
<1>2. Range(found) \subseteq SlotNames
  BY DEF Collected, Scanned, Range
<1>3. found = [i \in DOMAIN found |-> found[i]]
  BY DEF Collected, Scanned
<1>4. ASSUME SlotNames = {} PROVE found = Empty
  <2>1. DOMAIN found = {}
    BY <1>1, <1>2, <1>4 DEF Range
  <2> QED BY <1>3, <2>1 DEF Empty
<1> QED BY <1>1, <1>2, <1>4, EmptyRange

\* A start is refused for a reason that the storage has.
LEMMA RefusedRightly ==
    ASSUME Inv, Collected,
           \/ RefuseNumber \/ RefuseSlot \/ RefuseLayout
           \/ \E name \in Names : RefuseLabel(name)
    PROVE  ~WellFormed
<1>1. CASE RefuseNumber
  <2>1. /\ current \in SlotNames /\ current.digits \in Seq(0..9)
        /\ position \in Nat /\ position + 1 \in 1..Len(current.digits)
        /\ id \in 0..MaxId /\ id = Prefixes(current.digits)[position]
        /\ OutOfRange
    BY <1>1, NamesAssumption
       DEF Inv, ScanTypeOK, Progress, Collected, RefuseNumber, SlotNames
  <2>2. Digit \in 0..9 /\ Digit = current.digits[position + 1]
    BY <2>1 DEF Digit
  <2>3. id * 10 + Digit > MaxId
    BY <2>1, <2>2, DigitExact DEF OutOfRange
  <2>4. Prefixes(current.digits)[position + 1] = id * 10 + Digit
    <3>1. position + 1 - 1 = position
      BY <2>1
    <3> QED BY <2>1, <2>2, <3>1, PrefixesExact DEF IsPrefixes
  <2>5. /\ id * 10 + Digit <= Number(current)
        /\ Number(current) \in Nat
    <3>1. position + 1 \in 0..Len(current.digits)
          /\ Len(current.digits) \in 0..Len(current.digits)
      BY <2>1
    <3> QED BY <2>1, <2>4, <3>1, PrefixesGrow DEF Number
  <2>6. ~(Number(current) <= MaxId)
    BY <2>1, <2>2, <2>3, <2>5, WidthAssumption
  <2> QED BY <2>1, <2>6 DEF WellFormed
<1>2. CASE RefuseSlot
  <2>1. /\ current \in SlotNames /\ id = Number(current)
        /\ status = "scanning"
        /\ current \in refused \/ id \in DOMAIN found
    BY <1>2 DEF Inv, Progress, Collected, RefuseSlot, Parsed, Duplicate,
                SlotNames, Number
  <2>2. CASE current \in refused
    BY <2>1, <2>2 DEF WellFormed
  <2>3. CASE id \in DOMAIN found
    <3>1. /\ found[id] \in SlotNames \ {current}
          /\ Number(found[id]) = Number(current)
      BY <2>1, <2>3 DEF Collected
    <3> QED BY <2>1, <3>1 DEF WellFormed
  <2> QED BY <2>1, <2>2, <2>3
<1>3. CASE RefuseLayout
  BY <1>3, FoundAll DEF RefuseLayout, Mixed, WellFormed
<1>4. ASSUME NEW name \in Names, RefuseLabel(name) PROVE ~WellFormed
  BY <1>4 DEF Inv, ScanTypeOK, RefuseLabel, WellFormed, SlotNames
<1> QED BY <1>1, <1>2, <1>3, <1>4

Exact(registry) ==
    /\ WellFormed
    /\ IF SlotNames = {}
       THEN registry = [i \in {LegacyId} |-> Root]
       ELSE registry = [i \in {Number(name) : name \in SlotNames} |->
                            CHOOSE name \in SlotNames : Number(name) = i]

\* What is published is what the storage says.
LEMMA PublishedExact ==
    ASSUME Inv, Collected, PublishLegacy \/ PublishSlots
    PROVE  Exact(slots')
<1>1. Scanned
  BY DEF PublishLegacy, PublishSlots
<1>2. /\ SlotNames = Range(found)
      /\ found = Empty <=> SlotNames = {}
  BY <1>1, FoundAll
<1>3. CASE PublishLegacy
  BY <1>2, <1>3 DEF PublishLegacy, Publish, Exact, WellFormed
<1>4. CASE PublishSlots
  <2>1. slots' = found /\ SlotNames # {} /\ Root \notin keyDirs
    BY <1>2, <1>4 DEF PublishSlots, Publish, Mixed
  <2>2. \A i \in DOMAIN found : /\ found[i] \in SlotNames
                                /\ found[i] \notin refused
                                /\ found[i].label # NoLabel
                                /\ Number(found[i]) = i
    BY <1>1 DEF Collected, Scanned
  <2>3. \A name \in SlotNames : \E i \in DOMAIN found : found[i] = name
    BY <1>2 DEF Range
  <2>4. \A name \in SlotNames : /\ Number(name) \in DOMAIN found
                                /\ found[Number(name)] = name
    BY <2>2, <2>3
  <2>5. WellFormed
    <3>1. DOMAIN found \subseteq 0..MaxId
      BY DEF Inv, ScanTypeOK
    <3>2. \A name \in SlotNames : Number(name) <= MaxId
      BY <2>4, <3>1, WidthAssumption
    <3>3. \A name \in SlotNames : name.label # NoLabel /\ name \notin refused
      BY <2>2, <2>4
    <3>4. \A name, other \in SlotNames :
              Number(other) = Number(name) => other = name
      BY <2>4
    <3> QED BY <2>1, <3>2, <3>3, <3>4 DEF WellFormed
  <2>6. DOMAIN found = {Number(name) : name \in SlotNames}
    BY <2>2, <2>4
  <2>7. ASSUME NEW i \in DOMAIN found
        PROVE  found[i] = CHOOSE name \in SlotNames : Number(name) = i
    <3>1. \A name \in SlotNames : Number(name) = i <=> name = found[i]
      BY <2>2, <2>4
    <3> QED BY <2>2, <3>1
  <2>8. found = [i \in {Number(name) : name \in SlotNames} |->
                     CHOOSE name \in SlotNames : Number(name) = i]
    <3>1. found = [i \in DOMAIN found |-> found[i]]
      BY <1>1 DEF Collected, Scanned
    <3> QED BY <2>6, <2>7, <3>1
  <2> QED BY <2>1, <2>5, <2>8 DEF Exact
<1> QED BY <1>3, <1>4

LEMMA ExactNext == ExactInv /\ [Next]_vars => ExactInv'
<1> SUFFICES ASSUME ExactInv, [Next]_vars PROVE ExactInv'
  OBVIOUS
<1>1. Inv'
  BY NextInv DEF ExactInv
<1>2. CASE Edit \/ Begin
  <2>1. /\ status = "stopped" /\ outcome' = "none"
        /\ status' \in {"stopped", "scanning"}
    BY <1>2 DEF Edit, MakeDirectory, RemoveDirectory, MoveKeys, WritePassword,
                Edited, Begin
  <2>2. Collected'
    <3>1. CASE Begin
      BY <3>1, CollectedScan DEF ExactInv
    <3>2. CASE Edit
      BY <2>1, <3>2 DEF Collected, Edit, MakeDirectory, RemoveDirectory, MoveKeys,
                        WritePassword, Edited
    <3> QED BY <1>2, <3>1, <3>2
  <2> QED BY <1>1, <2>1, <2>2 DEF ExactInv, Answered, StartExact
<1>3. CASE ReadDigit \/ KeepSlot \/ \E name \in Names : Skip(name) \/ Parse(name)
  <2>1. /\ status' = status /\ outcome' = outcome
        /\ status = "scanning"
    BY <1>3 DEF ExactInv, Inv, Progress, ReadDigit, KeepSlot, Parsed, Skip, Parse
  <2>2. Collected'
    BY <1>3, CollectedScan DEF ExactInv
  <2> QED BY <1>1, <2>1, <2>2 DEF ExactInv, Answered, StartExact
<1>4. CASE \/ RefuseNumber \/ RefuseSlot \/ RefuseLayout
           \/ \E name \in Names : RefuseLabel(name)
  <2>1. Fail
    BY <1>4 DEF RefuseNumber, RefuseSlot, RefuseLayout, RefuseLabel
  <2>2. ~WellFormed'
    BY <1>4, <2>1, RefusedRightly, SameStorage DEF ExactInv, Fail, disk
  <2>3. status' = "stopped"
    BY <2>1 DEF Fail
  <2> QED BY <1>1, <2>2, <2>3 DEF ExactInv, Collected, Answered, StartExact
<1>5. CASE PublishLegacy \/ PublishSlots
  <2>1. /\ status = "scanning" /\ status' = "loading" /\ outcome' = outcome
        /\ UNCHANGED <<tree, refused, keyDirs>>
    BY <1>5 DEF PublishLegacy, PublishSlots, Publish, Scanned, disk
  <2>2. Exact(slots') /\ (WellFormed <=> WellFormed') /\ SlotNames' = SlotNames
    BY <1>5, <2>1, PublishedExact, SameStorage DEF ExactInv
  <2> QED BY <1>1, <2>1, <2>2
          DEF ExactInv, Collected, Answered, StartExact, Exact
<1>6. CASE Load
  <2>1. /\ status = "loading" /\ status' = "running" /\ outcome' = "OK"
        /\ keyDirs' = keyDirs \cup Range(slots)
        /\ UNCHANGED <<tree, refused, slots>>
    BY <1>6 DEF Load
  <2>2. SlotNames' = SlotNames
    BY <2>1 DEF SlotNames
  <2>3. WellFormed'
    <3>1. WellFormed
      BY <2>1 DEF ExactInv, StartExact
    <3>2. SlotNames # {} => Root \notin keyDirs'
      BY <2>1, NamesAssumption DEF ExactInv, Inv, ScanTypeOK, Shown
    <3> QED BY <2>1, <2>2, <3>1, <3>2 DEF WellFormed
  <2> QED BY <1>1, <2>1, <2>2, <2>3
          DEF ExactInv, Collected, Answered, StartExact
<1>7. CASE LoadFails \/ Stop
  <2>1. status' = "stopped" /\ outcome' \in {"LOAD_ERROR", "none"}
    BY <1>7 DEF LoadFails, Stop
  <2> QED BY <1>1, <2>1 DEF ExactInv, Collected, Answered, StartExact
<1>8. CASE UNCHANGED vars
  <2>1. /\ UNCHANGED <<tree, refused, keyDirs, slots, status, todo, found,
                       current, position, value, outcome>>
    BY <1>8 DEF vars, disk, parsing
  <2>2. (WellFormed <=> WellFormed') /\ SlotNames' = SlotNames
    BY <2>1, SameStorage
  <2> QED BY <1>1, <2>1, <2>2 DEF ExactInv, Collected, Answered, StartExact
<1> QED BY <1>2, <1>3, <1>4, <1>5, <1>6, <1>7, <1>8 DEF Next, DiscoverSlots

-----------------------------------------------------------------------------
\* The inductive invariant holds of every reachable state.
THEOREM ScanInductive == Spec => []Inv
BY InitInv, NextInv, PTL DEF Spec

\* Every variable keeps its type, and slots are seen after the scan only.
THEOREM ScanTypeCorrect == Spec => []ScanTypeOK
<1>1. Inv => ScanTypeOK
  BY DEF Inv
<1> QED BY <1>1, ScanInductive, PTL

\* parseSlotId computes the number that is written, for CK_SLOT_ID of any width
\* that holds a digit and for names of any length.
THEOREM NumbersCorrect == Spec => []SlotNumbersExact
<1>1. Inv => SlotNumbersExact
  BY DEF Inv, Progress, SlotNumbersExact
<1> QED BY <1>1, ScanInductive, PTL

\* Whatever is done to the storage between two starts, and whatever an earlier
\* start has created in it, no key directory is hidden.
THEOREM KeysCorrect == Spec => []NoKeyHidden
<1>1. Inv => NoKeyHidden
  BY DEF Inv, ScanTypeOK, Shown, NoKeyHidden, Statuses
<1> QED BY <1>1, ScanInductive, PTL

\* Whatever the order of the directory entries, whatever the names and their
\* lengths and whatever an earlier attempt left, C_Initialize refuses the
\* storage exactly when it is not well formed, and shows exactly its slots.
THEOREM StartCorrect == Spec => []StartExact
<1>1. Init => ExactInv
  BY InitInv DEF Init, ExactInv, Collected, Answered, StartExact
<1>2. ExactInv => StartExact
  BY DEF ExactInv
<1> QED BY <1>1, <1>2, ExactNext, PTL DEF Spec

-----------------------------------------------------------------------------
(* What Runtime takes for granted: its slots are numbers, one directory is *)
(* one slot (so that the key files of two slots never share a place), the  *)
(* root is a slot in the historical layout only and then the only one, and *)
(* the directories that keys are written to exist.                         *)

SlotsGrounded ==
    status \in {"loading", "running"} =>
        /\ DOMAIN slots # {} /\ DOMAIN slots \subseteq 0..MaxId
        /\ \A i, j \in DOMAIN slots : slots[i] = slots[j] => i = j
        /\ Root \in Range(slots) => DOMAIN slots = {LegacyId}
        /\ status = "running" => Range(slots) \subseteq keyDirs

DirectoriesMade == status = "running" => Range(slots) \subseteq keyDirs

LEMMA DirectoriesNext == Inv /\ DirectoriesMade /\ [Next]_vars => DirectoriesMade'
<1> SUFFICES ASSUME Inv, DirectoriesMade, [Next]_vars PROVE DirectoriesMade'
  OBVIOUS
<1>1. CASE Load
  BY <1>1 DEF DirectoriesMade, Load
<1>2. CASE UNCHANGED <<status, slots, keyDirs>>
  BY <1>2 DEF DirectoriesMade
<1>3. CASE status' # "running"
  BY <1>3 DEF DirectoriesMade
<1>4. Edit \/ Begin \/ LoadFails \/ Stop => status' # "running"
  BY DEF Edit, MakeDirectory, RemoveDirectory, MoveKeys, WritePassword, Edited,
         Begin, LoadFails, Stop
<1>5. DiscoverSlots => status' # "running" \/ UNCHANGED <<status, slots, keyDirs>>
  <2>1. PublishLegacy \/ PublishSlots => status' # "running"
    BY DEF PublishLegacy, PublishSlots, Publish
  <2>2. RefuseNumber \/ RefuseSlot \/ RefuseLayout
            \/ (\E name \in Names : RefuseLabel(name)) => status' # "running"
    BY DEF RefuseNumber, RefuseSlot, RefuseLayout, RefuseLabel, Fail
  <2>3. ReadDigit \/ KeepSlot \/ (\E name \in Names : Skip(name) \/ Parse(name))
            => UNCHANGED <<status, slots, keyDirs>>
    BY DEF ReadDigit, KeepSlot, Skip, Parse, disk
  <2> QED BY <2>1, <2>2, <2>3 DEF DiscoverSlots
<1> QED BY <1>1, <1>2, <1>3, <1>4, <1>5 DEF Next, vars, disk

LEMMA GroundedIsInvariant == ExactInv /\ DirectoriesMade => SlotsGrounded
<1> SUFFICES ASSUME ExactInv, DirectoriesMade, status \in {"loading", "running"}
             PROVE  /\ DOMAIN slots # {} /\ DOMAIN slots \subseteq 0..MaxId
                    /\ \A i, j \in DOMAIN slots : slots[i] = slots[j] => i = j
                    /\ Root \in Range(slots) => DOMAIN slots = {LegacyId}
  BY DEF SlotsGrounded, DirectoriesMade
<1>1. DOMAIN slots \subseteq 0..MaxId
  BY DEF ExactInv, Inv, ScanTypeOK
<1>2. CASE SlotNames = {}
  <2>1. slots = [i \in {LegacyId} |-> Root]
    BY <1>2 DEF ExactInv, StartExact
  <2> QED BY <1>1, <2>1
<1>3. CASE SlotNames # {}
  <2>1. slots = [i \in {Number(name) : name \in SlotNames} |->
                     CHOOSE name \in SlotNames : Number(name) = i]
    BY <1>3 DEF ExactInv, StartExact
  <2>2. \A i \in DOMAIN slots : slots[i] \in SlotNames /\ Number(slots[i]) = i
    BY <2>1
  <2>3. Root \notin Range(slots)
    BY <2>2, NamesAssumption DEF Range, SlotNames, ExactInv, Inv, ScanTypeOK
  <2>4. DOMAIN slots # {}
    BY <1>3, <2>1
  <2> QED BY <1>1, <2>2, <2>3, <2>4
<1> QED BY <1>2, <1>3

\* The slots that C_Initialize hands to the rest of the library are what Runtime
\* assumes of its constants SlotIds and LegacyLayout, for any storage root.
THEOREM RuntimeGrounded == Spec => []SlotsGrounded
<1>1. Init => ExactInv /\ DirectoriesMade
  BY InitInv DEF Init, ExactInv, Collected, Answered, StartExact, DirectoriesMade
<1>2. ExactInv => Inv
  BY DEF ExactInv
<1> QED BY <1>1, <1>2, ExactNext, DirectoriesNext, GroundedIsInvariant, PTL DEF Spec
=============================================================================
