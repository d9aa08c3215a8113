------------------------------ MODULE Reading ------------------------------
(***************************************************************************)
(* What leaves the token: C_GetAttributeValue (readAttributes and its      *)
(* helpers in src/src/objects/attributes.cpp) and C_WrapKey (src/src/      *)
(* crypto/wrapping.cpp), on the state of Runtime.  Neither call changes    *)
(* that state, so each is an operator: the answer it gives in a state.     *)
(*                                                                         *)
(* Two histories say of every key whether it has ever been sensitive, or   *)
(* not extractable, since it was created, restarts included.               *)
(***************************************************************************)
EXTENDS Runtime, Sequences, SequencesExt

VARIABLES
    sensitive,  \* keys that once had CKA_SENSITIVE
    sealed      \* keys that once had no CKA_EXTRACTABLE

history == <<sensitive, sealed>>

-----------------------------------------------------------------------------
(* GetAttributeValue                                                       *)

\* Attributes that are read alike are one element: a boolean of the policy, the
\* numbers of an RSA key, the curve and point of an EC key, what any object has.
AttributeTypes == {"boolean", "RSA", "EC", "PARAMETER_SET", "common", "VALUE"}

\* What the client offers for a value.
Rooms == {"none", "short", "enough"}

Query == [type : AttributeTypes, room : Rooms]

\* An attribute is not filled in: its length says why.
Invalid == [code |-> "ATTRIBUTE_TYPE_INVALID", length |-> "unavailable",
            filled |-> FALSE]

\* writeAttribute
WriteAttribute(room) ==
    [code   |-> IF room = "short" THEN "BUFFER_TOO_SMALL" ELSE "OK",
     length |-> "size",
     filled |-> room = "enough"]

\* readRsaAttribute, readEcAttribute, keyParameterSet; a key is an AES, RSA, EC
\* or post-quantum (PQ) key.  Of an EC key on a curve without a name (EC_NO_NAME)
\* OpenSSL does not give the values: the length stays what the client wrote.
ReadKeyAttribute(keyType, query) ==
    CASE query.type = "EC" /\ keyType = "EC_NO_NAME" ->
             [code |-> "DEVICE_ERROR", length |-> "given", filled |-> FALSE]
      [] query.type = (IF keyType = "PQ" THEN "PARAMETER_SET" ELSE keyType) ->
             WriteAttribute(query.room)
      [] OTHER -> Invalid

\* Mutant of ValueReadable: the two attributes are alternatives.
ValueReadableEither(object) ==
    ~PolicyValue(object, "SENSITIVE") \/ PolicyValue(object, "EXTRACTABLE")

ValueReadable(object) ==
    ~PolicyValue(object, "SENSITIVE") /\ PolicyValue(object, "EXTRACTABLE")

ReadValue(object, room) ==
    CASE object.class = "secret" ->
             IF ValueReadable(object) THEN WriteAttribute(room)
             ELSE [Invalid EXCEPT !.code = "ATTRIBUTE_SENSITIVE"]
      [] object.class = "certificate" -> WriteAttribute(room)
      [] OTHER -> Invalid

ReadAttribute(object, keyType, query) ==
    CASE query.type \in {"boolean", "common"} -> WriteAttribute(query.room)
      [] query.type = "VALUE" -> ReadValue(object, query.room)
      [] OTHER -> ReadKeyAttribute(keyType, query)

\* Mutant of ReadAttributes: each attribute overwrites the result.
ReadAttributesLast(object, keyType, queries) ==
    LET entries == [i \in DOMAIN queries |->
                        ReadAttribute(object, keyType, queries[i])]
    IN  [code |-> Last(entries).code, entries |-> entries]

\* readAttributes: every attribute is read, the last failure is the result.
ReadAttributes(object, keyType, queries) ==
    LET entries == [i \in DOMAIN queries |->
                        ReadAttribute(object, keyType, queries[i])]
        failures == {i \in DOMAIN entries : entries[i].code # "OK"}
    IN  [code |-> IF failures = {} THEN "OK" ELSE entries[Max(failures)].code,
         entries |-> entries]

GetAttributeValue(s, h, keyType, queries) ==
    CASE h \notin Visible(s)  -> [code |-> "OBJECT_HANDLE_INVALID", entries |-> <<>>]
      [] h \in Visible(s) /\ ~Accessible(s, h) ->
             [code |-> "USER_NOT_LOGGED_IN", entries |-> <<>>]
      [] OTHER -> ReadAttributes(objects[h], keyType, queries)

-----------------------------------------------------------------------------
(* WrapKey                                                                 *)

\* Mutant of MayWrap: the key that wraps is asked, the key that leaves is not.
MayWrapAny(s, wrapping, h) ==
    /\ {wrapping, h} \subseteq Visible(s)
    /\ UserReady(s)
    /\ PolicyValue(objects[wrapping], "WRAP")

MayWrap(s, wrapping, h) ==
    /\ {wrapping, h} \subseteq Visible(s)
    /\ UserReady(s)
    /\ PolicyValue(objects[wrapping], "WRAP")
    /\ PolicyValue(objects[h], "EXTRACTABLE")

\* serializeKeyForWrapping, aesKeyWrap: the classes that have a secret, and the
\* one that wraps.
Wraps(s, wrapping, h) ==
    /\ MayWrap(s, wrapping, h)
    /\ objects[h].class \in {"secret", "private"}
    /\ objects[wrapping].class = "secret"

-----------------------------------------------------------------------------
(* The histories.                                                          *)

\* A token key is its place on disk, a session key its handle.
Key(h) ==
    [path |-> objects[h].path, class |-> objects[h].class,
     handle |-> IF objects[h].owner = 0 THEN 0 ELSE h]

Exists(key) ==
    IF key.handle = 0
    THEN key.path \in DOMAIN keyFiles /\ key.class \in DOMAIN keyFiles[key.path]
    ELSE key.handle \in DOMAIN objects /\ objects[key.handle].owner # 0

SensitiveKeys ==
    {Key(h) : h \in {x \in DOMAIN objects : PolicyValue(objects[x], "SENSITIVE")}}
SealedKeys ==
    {Key(h) : h \in {x \in DOMAIN objects : ~PolicyValue(objects[x], "EXTRACTABLE")}}

Remember ==
    /\ sensitive' = {key \in sensitive : Exists(key)'} \cup SensitiveKeys'
    /\ sealed' = {key \in sealed : Exists(key)'} \cup SealedKeys'

ReadingInit ==
    /\ Init
    /\ sensitive = {}
    /\ sealed = {}

ReadingNext == Next /\ Remember

ReadingSpec == ReadingInit /\ [][ReadingNext]_<<vars, history>>

-----------------------------------------------------------------------------
\* The value of a secret key never leaves in clear once the key has been
\* sensitive or not extractable, whatever else is read with it, and the client
\* is told; a key that was not extractable once never leaves at all.  Neither an
\* update, nor another session, nor a restart that reads its policy back from
\* the disk reopens it.
ValueQueries == {query \in Query : query.type = "VALUE"}

ClosedKeysKept ==
    \A s \in DOMAIN sessions, h \in DOMAIN objects :
        /\ objects[h].class = "secret" /\ Key(h) \in sensitive \cup sealed
               => \A value \in ValueQueries, other \in Query :
                  \A queries \in {<<value, other>>, <<other, value>>} :
                      LET answer == GetAttributeValue(s, h, "AES", queries)
                      IN  /\ answer.code # "OK"
                          /\ \A i \in DOMAIN answer.entries :
                                 queries[i] = value => ~answer.entries[i].filled
        /\ Key(h) \in sealed
               => \A wrapping \in DOMAIN objects : ~Wraps(s, wrapping, h)
=============================================================================
