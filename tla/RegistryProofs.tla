---------------------------- MODULE RegistryProofs ----------------------------
(***************************************************************************)
(* Theorems that relate the registry of Runtime to the disk and one slot   *)
(* to the others: what a restart would load, which files may change, on    *)
(* whose behalf, what a call leaves alone; and, from what the disk keeps,  *)
(* which keys the calls of Reading give away.                              *)
(***************************************************************************)
EXTENDS RuntimeProofs, Reading

-----------------------------------------------------------------------------
(* The registry and the key files.  RegistryMirrorsDisk compares two sets  *)
(* of objects; Mirror says the same of places (a path and a class), which  *)
(* is what the steps below work with.                                      *)

\* The object h is the token object stored at path p as class c.
StoredAt(h, p, c) ==
    objects[h].owner = 0 /\ objects[h].path = p /\ objects[h].class = c

TokensOnDisk ==
    \A h \in DOMAIN objects : objects[h].owner = 0 =>
        /\ objects[h].path \in DOMAIN keyFiles
        /\ objects[h].class \in DOMAIN keyFiles[objects[h].path]
        /\ objects[h].slot = objects[h].path.slot
        /\ objects[h].policy = keyFiles[objects[h].path][objects[h].class]

DiskInRegistry ==
    \A p \in DOMAIN keyFiles : \A c \in DOMAIN keyFiles[p] :
        \E h \in DOMAIN objects : StoredAt(h, p, c)

PlacesDistinct ==
    \A g, h \in DOMAIN objects :
        StoredAt(g, objects[h].path, objects[h].class) /\ objects[h].owner = 0
            => g = h

SessionObjectsNowhere ==
    \A h \in DOMAIN objects : objects[h].owner # 0 => objects[h].path = NoPath

Mirror ==
    initialized => /\ TokensOnDisk
                   /\ DiskInRegistry
                   /\ PlacesDistinct
                   /\ SessionObjectsNowhere

\* A token object has a real path: the objects that share it are token objects.
LEMMA PathsReal ==
    ASSUME TypeOK, Mirror, initialized
    PROVE  /\ DOMAIN keyFiles \subseteq Paths /\ NoPath \notin DOMAIN keyFiles
           /\ \A p \in DOMAIN keyFiles : \A h \in Siblings(p) : objects[h].owner = 0
BY StorageAssumption DEF TypeOK, IsDisk, Mirror, SessionObjectsNowhere, Siblings

LEMMA MirrorIsInvariant ==
    ASSUME TypeOK, Mirror
    PROVE  RegistryMirrorsDisk
<1> SUFFICES ASSUME initialized
             PROVE  LET tokens == {h \in DOMAIN objects : objects[h].owner = 0}
                    IN  /\ {objects[h] : h \in tokens} = {Loaded(item) : item \in Stored}
                        /\ \A g, h \in tokens : objects[g] = objects[h] => g = h
                        /\ \A h \in DOMAIN objects \ tokens : objects[h].path = NoPath
  BY DEF RegistryMirrorsDisk
<1> DEFINE tokens == {h \in DOMAIN objects : objects[h].owner = 0}
           Place(h) == [path |-> objects[h].path, class |-> objects[h].class]
<1>1. /\ TokensOnDisk /\ DiskInRegistry /\ PlacesDistinct /\ SessionObjectsNowhere
      /\ \A h \in DOMAIN objects : objects[h] \in Object
  BY DEF Mirror, TypeOK
<1>2. ASSUME NEW h \in tokens
      PROVE  Place(h) \in Stored /\ objects[h] = Loaded(Place(h))
  <2>1. /\ objects[h].path \in DOMAIN keyFiles
        /\ objects[h].class \in DOMAIN keyFiles[objects[h].path]
        /\ objects[h].slot = objects[h].path.slot
        /\ objects[h].policy = keyFiles[objects[h].path][objects[h].class]
    BY <1>1 DEF TokensOnDisk
  <2>2. Place(h) \in Stored
    BY <2>1 DEF Stored
  <2>3. objects[h] = Loaded(Place(h))
    BY <1>1, <2>1 DEF Loaded, Object
  <2> QED BY <2>2, <2>3
<1>3. ASSUME NEW item \in Stored
      PROVE  \E h \in tokens : Place(h) = item
  <2>1. PICK p \in DOMAIN keyFiles : \E c \in DOMAIN keyFiles[p] :
            item = [path |-> p, class |-> c]
    BY DEF Stored
  <2>2. PICK c \in DOMAIN keyFiles[p] : item = [path |-> p, class |-> c]
    BY <2>1
  <2>3. PICK h \in DOMAIN objects : StoredAt(h, p, c)
    BY <1>1 DEF DiskInRegistry
  <2> QED BY <2>2, <2>3 DEF StoredAt
<1>4. {objects[h] : h \in tokens} = {Loaded(item) : item \in Stored}
  <2> HIDE DEF tokens, Place
  <2> QED BY <1>2, <1>3
<1>5. \A g, h \in tokens : objects[g] = objects[h] => g = h
  BY <1>1 DEF PlacesDistinct, StoredAt
<1>6. \A h \in DOMAIN objects \ tokens : objects[h].path = NoPath
  BY <1>1 DEF SessionObjectsNowhere
<1> QED BY <1>4, <1>5, <1>6

\* Steps that leave the files and the token objects alone.
LEMMA MirrorKept ==
    ASSUME Mirror, UNCHANGED <<initialized, keyFiles>>,
           DOMAIN objects' \subseteq DOMAIN objects,
           \A h \in DOMAIN objects' : objects'[h] = objects[h],
           \A h \in DOMAIN objects \ DOMAIN objects' : objects[h].owner # 0
    PROVE  Mirror'
BY DEF Mirror, TokensOnDisk, DiskInRegistry, PlacesDistinct,
   SessionObjectsNowhere, StoredAt

LEMMA InitializeMirror ==
    ASSUME TypeOK, Initialize
    PROVE  Mirror'
<1>0. PICK n \in 0..MaxObject : \E f \in Bijection(1..n, Stored) :
          objects' = [h \in 1..n |-> Loaded(f[h])]
  BY DEF Initialize
<1>1. PICK f \in Bijection(1..n, Stored) : objects' = [h \in 1..n |-> Loaded(f[h])]
  BY <1>0
<1>2. /\ f \in [1..n -> Stored]
      /\ \A a, b \in 1..n : f[a] = f[b] => a = b
      /\ \A item \in Stored : \E h \in 1..n : f[h] = item
  BY DEF Bijection, Injection, Surjection, IsInjective
<1>3. /\ keyFiles' = keyFiles
      /\ DOMAIN objects' = 1..n
  BY <1>1 DEF Initialize
<1>4. ASSUME NEW h \in 1..n
      PROVE  /\ objects'[h].owner = 0
             /\ objects'[h].path = f[h].path
             /\ objects'[h].class = f[h].class
             /\ objects'[h].slot = f[h].path.slot
             /\ objects'[h].policy = keyFiles[f[h].path][f[h].class]
             /\ f[h].path \in DOMAIN keyFiles
             /\ f[h].class \in DOMAIN keyFiles[f[h].path]
             /\ f[h] = [path |-> f[h].path, class |-> f[h].class]
  <2>1. objects'[h] = Loaded(f[h]) /\ f[h] \in Stored
    BY <1>1, <1>2
  <2>2. PICK p \in DOMAIN keyFiles : \E c \in DOMAIN keyFiles[p] :
            f[h] = [path |-> p, class |-> c]
    BY <2>1 DEF Stored
  <2> QED BY <2>1, <2>2 DEF Loaded
<1>5. TokensOnDisk'
  BY <1>3, <1>4 DEF TokensOnDisk
<1>6. DiskInRegistry'
  <2> SUFFICES ASSUME NEW p \in DOMAIN keyFiles, NEW c \in DOMAIN keyFiles[p]
               PROVE  \E h \in 1..n : /\ objects'[h].owner = 0
                                      /\ objects'[h].path = p
                                      /\ objects'[h].class = c
    BY <1>3 DEF DiskInRegistry, StoredAt
  <2>1. [path |-> p, class |-> c] \in Stored
    BY DEF Stored
  <2>2. PICK h \in 1..n : f[h] = [path |-> p, class |-> c]
    BY <1>2, <2>1
  <2> QED BY <1>4, <2>2
<1>7. PlacesDistinct'
  <2> SUFFICES ASSUME NEW g \in 1..n, NEW h \in 1..n,
                      objects'[g].path = objects'[h].path,
                      objects'[g].class = objects'[h].class
               PROVE  g = h
    BY <1>3 DEF PlacesDistinct, StoredAt
  <2>1. f[g].path = f[h].path /\ f[g].class = f[h].class
    BY <1>4
  <2>2. /\ f[g] = [path |-> f[g].path, class |-> f[g].class]
        /\ f[h] = [path |-> f[h].path, class |-> f[h].class]
    BY <1>4
  <2>3. f[g] = f[h]
    BY ONLY <2>1, <2>2
  <2> QED BY <1>2, <2>3
<1>8. SessionObjectsNowhere'
  BY <1>3, <1>4 DEF SessionObjectsNowhere
<1> QED BY <1>5, <1>6, <1>7, <1>8 DEF Mirror

\* Whatever a creation publishes is in memory what its file says.
LEMMA PublishMirror ==
    ASSUME Inv, Mirror, NEW s \in DOMAIN sessions, NEW token \in BOOLEAN,
           NEW path \in Paths, path.slot = sessions[s].slot,
           token => path \notin DOMAIN keyFiles,
           NEW classAt, NEW policyOf,
           \A h \in DOMAIN classAt : h \notin DOMAIN objects,
           \A h \in DOMAIN classAt : classAt[h] \in DOMAIN policyOf,
           \A g, h \in DOMAIN classAt : classAt[g] = classAt[h] => g = h,
           \A c \in DOMAIN policyOf : \E h \in DOMAIN classAt : classAt[h] = c,
           Publish(s, token, path, classAt, policyOf),
           UNCHANGED initialized
    PROVE  Mirror'
<1>0. /\ TypeOK /\ initialized /\ s # 0
      /\ TokensOnDisk /\ DiskInRegistry /\ PlacesDistinct /\ SessionObjectsNowhere
  BY SessionType, BasicTypes DEF Inv, Mirror
<1>1. /\ DOMAIN objects' = DOMAIN objects \cup DOMAIN classAt
      /\ \A h \in DOMAIN objects : objects'[h] = objects[h]
      /\ \A h \in DOMAIN classAt :
            /\ objects'[h].slot = sessions[s].slot
            /\ objects'[h].class = classAt[h]
            /\ objects'[h].owner = IF token THEN 0 ELSE s
            /\ objects'[h].path = IF token THEN path ELSE NoPath
            /\ objects'[h].policy = policyOf[classAt[h]]
  BY DEF Publish, Extend
<1>2. CASE ~token
  <2>1. keyFiles' = keyFiles
    BY <1>2 DEF Publish
  <2>2. \A h \in DOMAIN classAt : objects'[h].owner # 0 /\ objects'[h].path = NoPath
    BY <1>0, <1>1, <1>2
  <2>3. TokensOnDisk'
    BY <1>0, <1>1, <2>1, <2>2 DEF TokensOnDisk
  <2>4. DiskInRegistry'
    BY <1>0, <1>1, <2>1 DEF DiskInRegistry, StoredAt
  <2>5. PlacesDistinct'
    BY <1>0, <1>1, <2>2 DEF PlacesDistinct, StoredAt
  <2>6. SessionObjectsNowhere'
    BY <1>0, <1>1, <2>2 DEF SessionObjectsNowhere
  <2> QED BY <2>3, <2>4, <2>5, <2>6 DEF Mirror
<1>3. CASE token
  <2>1. /\ DOMAIN keyFiles' = DOMAIN keyFiles \cup {path}
        /\ path \notin DOMAIN keyFiles
        /\ keyFiles'[path] = policyOf
        /\ \A p \in DOMAIN keyFiles : keyFiles'[p] = keyFiles[p]
    BY <1>3 DEF Publish, Extend
  <2>2. \A h \in DOMAIN classAt : objects'[h].owner = 0 /\ objects'[h].path = path
    BY <1>1, <1>3
  <2>3. TokensOnDisk'
    BY <1>0, <1>1, <2>1, <2>2 DEF TokensOnDisk
  <2>4. DiskInRegistry'
    <3> SUFFICES ASSUME NEW p \in DOMAIN keyFiles', NEW c \in DOMAIN keyFiles'[p]
                 PROVE  \E h \in DOMAIN objects' : /\ objects'[h].owner = 0
                                                   /\ objects'[h].path = p
                                                   /\ objects'[h].class = c
      BY DEF DiskInRegistry, StoredAt
    <3>1. CASE p = path
      BY <3>1, <1>1, <2>1, <2>2
    <3>2. CASE p # path
      BY <3>2, <1>0, <1>1, <2>1 DEF DiskInRegistry, StoredAt
    <3> QED BY <3>1, <3>2
  <2>5. PlacesDistinct'
    <3> SUFFICES ASSUME NEW g \in DOMAIN objects', NEW h \in DOMAIN objects',
                        objects'[g].owner = 0, objects'[h].owner = 0,
                        objects'[g].path = objects'[h].path,
                        objects'[g].class = objects'[h].class
                 PROVE  g = h
      BY DEF PlacesDistinct, StoredAt
    <3>1. \A x \in DOMAIN objects :
              objects'[x].owner = 0 => objects'[x].path # path
      BY <1>0, <1>1, <2>1 DEF TokensOnDisk
    <3>2. CASE g \in DOMAIN objects /\ h \in DOMAIN objects
      BY <3>2, <1>0, <1>1 DEF PlacesDistinct, StoredAt
    <3>3. CASE g \in DOMAIN classAt /\ h \in DOMAIN classAt
      BY <3>3, <1>1
    <3> QED BY <3>1, <3>2, <3>3, <1>1, <2>2
  <2>6. SessionObjectsNowhere'
    BY <1>0, <1>1, <2>2 DEF SessionObjectsNowhere
  <2> QED BY <2>3, <2>4, <2>5, <2>6 DEF Mirror
<1> QED BY <1>2, <1>3

\* How a creation changes the files: not at all, or by one new file of the
\* slot of a read-write session that is ready (applyCreationTemplate).
CreatedFile(s, path) ==
    /\ path \notin DOMAIN keyFiles
    /\ path.slot = sessions[s].slot
    /\ sessions[s].rw
    /\ UserReady(s)
    /\ DOMAIN keyFiles' = DOMAIN keyFiles \cup {path}
    /\ \A p \in DOMAIN keyFiles : keyFiles'[p] = keyFiles[p]

LEMMA NewSecretKeyMirror ==
    ASSUME Inv, Mirror, NEW s \in DOMAIN sessions, NEW file \in Files,
           NEW t \in [token : BOOLEAN, policy : Policies],
           NewSecretKey(s, t, file)
    PROVE  /\ Mirror'
           /\ UNCHANGED keyFiles \/ \E path : CreatedFile(s, path)
<1> DEFINE path == PathFor(s, "symmetric", file)
           classAt == [h \in {FreshHandle} |-> "secret"]
           policyOf == [c \in {"secret"} |-> t.policy]
<1>1. /\ path \in Paths /\ path.slot = sessions[s].slot
      /\ t.token \in BOOLEAN
      /\ MayCreate(s, t.token, path)
      /\ UNCHANGED initialized
  BY PathType DEF Inv, Directories, PathFor, NewSecretKey
<1>2. Publish(s, t.token, path, classAt, policyOf)
  BY DEF NewSecretKey
<1>3. /\ DOMAIN classAt = {nextObject} /\ nextObject \notin DOMAIN objects
      /\ \A h \in DOMAIN classAt : classAt[h] = "secret"
      /\ DOMAIN policyOf = {"secret"}
  BY BasicTypes DEF Inv, HandlesFresh, FreshHandle
<1> HIDE DEF path, classAt, policyOf
<1>4. Mirror'
  BY <1>1, <1>2, <1>3, PublishMirror DEF MayCreate
<1>5. UNCHANGED keyFiles \/ CreatedFile(s, path)
  BY <1>1, <1>2 DEF Publish, Extend, MayCreate, CreatedFile
<1> QED BY <1>4, <1>5

LEMMA NewKeyPairMirror ==
    ASSUME Inv, Mirror, NEW s \in DOMAIN sessions, NEW file \in Files,
           NEW token \in BOOLEAN, NEW private, NEW public,
           NewKeyPair(s, token, private, public, file)
    PROVE  /\ Mirror'
           /\ UNCHANGED keyFiles \/ \E path : CreatedFile(s, path)
<1> DEFINE path == PathFor(s, "asymmetric", file)
           classAt == [h \in {FreshHandle, FreshHandle + 1} |->
                          IF h = FreshHandle THEN "private" ELSE "public"]
           policyOf == [c \in {"private", "public"} |->
                           IF c = "private" THEN private ELSE public]
<1>1. /\ path \in Paths /\ path.slot = sessions[s].slot
      /\ MayCreate(s, token, path)
      /\ UNCHANGED initialized
  BY PathType DEF Inv, Directories, PathFor, NewKeyPair
<1>2. \/ Publish(s, token, path, classAt, policyOf)
      \/ UNCHANGED <<objects, keyFiles>>
  BY DEF NewKeyPair
<1>3. /\ nextObject \notin DOMAIN objects /\ nextObject + 1 \notin DOMAIN objects
      /\ nextObject # nextObject + 1
  BY BasicTypes DEF Inv, HandlesFresh
<1>4. /\ DOMAIN classAt = {nextObject, nextObject + 1}
      /\ classAt[nextObject] = "private" /\ classAt[nextObject + 1] = "public"
      /\ DOMAIN policyOf = {"private", "public"}
  BY <1>3 DEF FreshHandle
<1> HIDE DEF path, classAt, policyOf
<1>5. CASE UNCHANGED <<objects, keyFiles>>
  BY <1>1, <1>5, MirrorKept
<1>6. CASE Publish(s, token, path, classAt, policyOf)
  <2>1. Mirror'
    BY <1>1, <1>3, <1>4, <1>6, PublishMirror DEF MayCreate
  <2>2. UNCHANGED keyFiles \/ CreatedFile(s, path)
    BY <1>1, <1>6 DEF Publish, Extend, MayCreate, CreatedFile
  <2> QED BY <2>1, <2>2
<1> QED BY <1>2, <1>5, <1>6

LEMMA CreationMirror ==
    ASSUME Inv, Mirror, NEW s \in DOMAIN sessions, CreationStep(s)
    PROVE  /\ Mirror'
           /\ UNCHANGED keyFiles \/ \E path : CreatedFile(s, path)
<1> DEFINE Goal == /\ Mirror'
                   /\ UNCHANGED keyFiles \/ \E path : CreatedFile(s, path)
<1>1. PICK file \in Files :
          \/ \E t \in SecretTemplates : GenerateKey(s, t, file)
          \/ \E t \in PairTemplates : GenerateKeyPair(s, t, file)
          \/ \E h \in DOMAIN objects, t \in SecretTemplates :
                \/ DeriveKey(s, h, t, file)
                \/ UnwrapSecretKey(s, h, t, file)
                \/ UnwrapPrivateKey(s, h, t, file)
  BY DEF CreationStep
<1>2. ASSUME LoseHandle PROVE Goal
  BY <1>2, MirrorKept DEF LoseHandle
<1>3. ASSUME NEW t \in SecretTemplates, NewSecretKey(s, t, file) PROVE Goal
  BY <1>3, TemplatesAssumption, NewSecretKeyMirror
<1>4. ASSUME NEW token \in BOOLEAN, NEW private, NEW public,
             NewKeyPair(s, token, private, public, file)
      PROVE  Goal
  BY <1>4, NewKeyPairMirror
<1>5. /\ \A t \in PairTemplates : t.token \in BOOLEAN
      /\ \A t \in SecretTemplates : t.token \in BOOLEAN
  BY TemplatesAssumption
<1> HIDE DEF Goal
<1>6. Goal
  BY <1>1, <1>2, <1>3, <1>4, <1>5 DEF GenerateKey, DeriveKey, UnwrapSecretKey,
     GenerateKeyPair, UnwrapPrivateKey
<1> QED BY <1>6 DEF Goal

\* collectMetadata finds, for every class of the file, the one object stored
\* there: the file keeps its records except the one that changed.
LEMMA SetAttributeValueFiles ==
    ASSUME TypeOK, Mirror, initialized, NEW s \in DOMAIN sessions,
           NEW h \in DOMAIN objects, NEW t \in Updates,
           SetAttributeValue(s, h, t), objects[h].owner = 0
    PROVE  /\ objects[h].path \in DOMAIN keyFiles
           /\ DOMAIN keyFiles' = DOMAIN keyFiles
           /\ \A p \in DOMAIN keyFiles :
                 /\ DOMAIN keyFiles'[p] = DOMAIN keyFiles[p]
                 /\ p # objects[h].path => keyFiles'[p] = keyFiles[p]
           /\ \A g \in DOMAIN objects : objects[g].owner = 0 =>
                 objects'[g].policy = keyFiles'[objects[g].path][objects[g].class]
<1> DEFINE path == objects[h].path
           changed == [objects EXCEPT ![h].policy =
                          ApplyPolicyTemplate(objects[h].policy, t)]
           records == CollectMetadata(changed, path)
<1>0. /\ TokensOnDisk /\ DiskInRegistry /\ PlacesDistinct
      /\ \A g \in DOMAIN objects : objects[g] \in Object
  BY DEF Mirror, TypeOK
<1>1. /\ path \in DOMAIN keyFiles
      /\ keyFiles' = [keyFiles EXCEPT ![path] = records]
      /\ objects' = changed
  BY <1>0 DEF SetAttributeValue, TokensOnDisk
<1>2. /\ DOMAIN changed = DOMAIN objects
      /\ \A g \in DOMAIN objects : /\ changed[g].path = objects[g].path
                                   /\ changed[g].class = objects[g].class
                                   /\ changed[g].owner = objects[g].owner
                                   /\ g # h => changed[g] = objects[g]
  BY <1>0 DEF Object
<1> HIDE DEF changed
<1>3. DOMAIN records = DOMAIN keyFiles[path]
  BY DEF CollectMetadata
<1>4. \A g \in DOMAIN objects : objects[g].path = path => objects[g].owner = 0
  BY <1>1, PathsReal DEF Siblings
<1>5. ASSUME NEW g \in DOMAIN objects, objects[g].path = path
      PROVE  changed[g].policy = records[objects[g].class]
  <2> DEFINE stored == {x \in DOMAIN changed :
                           /\ changed[x].path = path
                           /\ changed[x].class = objects[g].class}
  <2>1. objects[g].class \in DOMAIN keyFiles[path]
    BY <1>0, <1>4, <1>5 DEF TokensOnDisk
  <2>2. records[objects[g].class] =
            IF stored = {} THEN NoPolicy
            ELSE changed[CHOOSE x \in stored : TRUE].policy
    BY <2>1 DEF CollectMetadata
  <2>3. stored = {g}
    BY <1>0, <1>2, <1>4, <1>5 DEF PlacesDistinct, StoredAt
  <2> QED BY <2>2, <2>3
<1>6. \A g \in DOMAIN objects : objects[g].owner = 0 =>
          changed[g].policy =
              [keyFiles EXCEPT ![path] = records][objects[g].path][objects[g].class]
  <2> SUFFICES ASSUME NEW g \in DOMAIN objects, objects[g].owner = 0
               PROVE  changed[g].policy =
                          [keyFiles EXCEPT ![path] = records]
                              [objects[g].path][objects[g].class]
    OBVIOUS
  <2>1. objects[g].path \in DOMAIN keyFiles
    BY <1>0 DEF TokensOnDisk
  <2> HIDE DEF records
  <2>2. CASE objects[g].path = path
    BY <2>1, <2>2, <1>5
  <2>3. CASE objects[g].path # path
    BY <2>1, <2>3, <1>0, <1>2 DEF TokensOnDisk
  <2> QED BY <2>2, <2>3
<1> HIDE DEF records
<1> QED BY <1>1, <1>3, <1>6

LEMMA SetAttributeValueMirror ==
    ASSUME TypeOK, Mirror, initialized, NEW s \in DOMAIN sessions,
           NEW h \in DOMAIN objects, NEW t \in Updates,
           SetAttributeValue(s, h, t)
    PROVE  Mirror'
<1>1. /\ TokensOnDisk /\ DiskInRegistry /\ PlacesDistinct /\ SessionObjectsNowhere
      /\ initialized' = initialized
  BY DEF Mirror, SetAttributeValue
<1>2. /\ DOMAIN objects' = DOMAIN objects
      /\ \A g \in DOMAIN objects : /\ objects'[g].path = objects[g].path
                                   /\ objects'[g].class = objects[g].class
                                   /\ objects'[g].owner = objects[g].owner
                                   /\ objects'[g].slot = objects[g].slot
                                   /\ g # h => objects'[g] = objects[g]
  BY DEF SetAttributeValue, Object, TypeOK
<1>3. /\ DOMAIN keyFiles' = DOMAIN keyFiles
      /\ \A p \in DOMAIN keyFiles : DOMAIN keyFiles'[p] = DOMAIN keyFiles[p]
      /\ \A g \in DOMAIN objects : objects[g].owner = 0 =>
            objects'[g].policy = keyFiles'[objects[g].path][objects[g].class]
  <2>1. CASE objects[h].owner = 0
    BY <2>1, SetAttributeValueFiles
  <2>2. CASE objects[h].owner # 0
    BY <2>2, <1>1, <1>2 DEF SetAttributeValue, TokensOnDisk
  <2> QED BY <2>1, <2>2
<1>4. TokensOnDisk'
  BY <1>1, <1>2, <1>3 DEF TokensOnDisk
<1>5. DiskInRegistry'
  BY <1>1, <1>2, <1>3 DEF DiskInRegistry, StoredAt
<1>6. PlacesDistinct' /\ SessionObjectsNowhere'
  BY <1>1, <1>2 DEF PlacesDistinct, StoredAt, SessionObjectsNowhere
<1> QED BY <1>4, <1>5, <1>6 DEF Mirror

LEMMA DestroyObjectMirror ==
    ASSUME TypeOK, Mirror, initialized, NEW s \in DOMAIN sessions,
           NEW h \in DOMAIN objects, DestroyObject(s, h)
    PROVE  Mirror'
<1>1. CASE objects[h].owner # 0
  <2>1. /\ UNCHANGED <<initialized, keyFiles>>
        /\ DOMAIN objects' = DOMAIN objects \ {h}
        /\ \A g \in DOMAIN objects' : objects'[g] = objects[g]
    BY <1>1 DEF DestroyObject, Erase, Restrict
  <2> QED BY <1>1, <2>1, MirrorKept
<1>2. CASE objects[h].owner = 0
  <2>1. /\ initialized' = initialized
        /\ DOMAIN keyFiles' = DOMAIN keyFiles \ {objects[h].path}
        /\ \A p \in DOMAIN keyFiles' : keyFiles'[p] = keyFiles[p]
        /\ DOMAIN objects' = DOMAIN objects \ Siblings(objects[h].path)
        /\ \A g \in DOMAIN objects' : objects'[g] = objects[g]
    BY <1>2 DEF DestroyObject, Erase, Restrict
  <2> QED BY <2>1 DEF Mirror, TokensOnDisk, DiskInRegistry, PlacesDistinct,
             SessionObjectsNowhere, StoredAt, Siblings
<1> QED BY <1>1, <1>2

LEMMA NextMirror ==
    ASSUME Inv, Mirror, [Next]_vars
    PROVE  Mirror'
<1>0. TypeOK
  BY DEF Inv
<1>1. CASE UNCHANGED vars \/ \E id \in DOMAIN slots, rw \in BOOLEAN : OpenSession(id, rw)
  BY <1>1, MirrorKept DEF vars, OpenSession
<1>2. CASE Initialize
  BY <1>0, <1>2, InitializeMirror
<1>3. CASE Finalize \/ Restart
  BY <1>3 DEF Finalize, Restart, Mirror
<1>4. ASSUME NEW id \in DOMAIN slots, CloseAllSessions(id) PROVE Mirror'
  <2>1. /\ UNCHANGED <<initialized, keyFiles>>
        /\ DOMAIN objects' = DOMAIN objects \ {h \in DOMAIN objects :
                                 objects[h].slot = id /\ objects[h].owner # 0}
        /\ \A h \in DOMAIN objects' : objects'[h] = objects[h]
    BY <1>4 DEF CloseAllSessions, Erase, Restrict
  <2> QED BY <2>1, MirrorKept
<1>5. ASSUME NEW s \in DOMAIN sessions, SessionStep(s) PROVE Mirror'
  <2>1. CASE CloseSession(s)
    <3>1. /\ UNCHANGED <<initialized, keyFiles>>
          /\ DOMAIN objects' = DOMAIN objects \ OwnedBy({s})
          /\ \A h \in DOMAIN objects' : objects'[h] = objects[h]
      BY <2>1 DEF CloseSession, Erase, Restrict
    <3>2. \A h \in OwnedBy({s}) : objects[h].owner # 0
      BY <1>0, BasicTypes DEF OwnedBy
    <3> QED BY <3>1, <3>2, MirrorKept
  <2>2. CASE Logout(s)
    <3>1. /\ UNCHANGED <<initialized, keyFiles>>
          /\ DOMAIN objects' = DOMAIN objects \ {h \in Visible(s) :
                                   objects[h].owner # 0 /\ Protected(objects[h])}
          /\ \A h \in DOMAIN objects' : objects'[h] = objects[h]
      BY <2>2 DEF Logout, Erase, Restrict
    <3> QED BY <3>1, MirrorKept
  <2>3. CASE \/ \E role \in Roles, pin \in Pins : Login(s, role, pin)
             \/ \E pin \in Pins : InitPIN(s, pin)
             \/ \E old, new \in Pins : SetPIN(s, old, new)
    BY <2>3, MirrorKept DEF Login, InitPIN, SetPIN
  <2> QED BY <1>5, <2>1, <2>2, <2>3 DEF SessionStep
<1>6. ASSUME NEW s \in DOMAIN sessions, ObjectStep(s) PROVE Mirror'
  <2>0. initialized
    BY <1>0, Named
  <2>1. CASE UNCHANGED <<initialized, objects, keyFiles>>
    BY <2>1, MirrorKept
  <2>2. \/ UNCHANGED <<initialized, objects, keyFiles>>
        \/ \E h \in DOMAIN objects, t \in Updates : SetAttributeValue(s, h, t)
        \/ \E h \in DOMAIN objects : DestroyObject(s, h)
    BY <1>6 DEF ObjectStep, ManagementStep, OperationStep, FindObjectsInit,
       FindObjects, FindObjectsFinal, OperationInit, OperationEnd
  <2> QED BY <1>0, <2>0, <2>1, <2>2, SetAttributeValueMirror, DestroyObjectMirror
<1> QED BY <1>1, <1>2, <1>3, <1>4, <1>5, <1>6, CreationMirror DEF Next, LibraryStep

\* The token objects in memory are what a restart would load, place by place
\* (loadTokenObjects against GenerateKey, SetAttributeValue, DestroyObject).
THEOREM MirrorInductive == Spec => [](Inv /\ Mirror)
<1>1. Init => Inv /\ Mirror
  BY InitInv DEF Init, Mirror
<1>2. Inv /\ Mirror /\ [Next]_vars => (Inv /\ Mirror)'
  BY NextInv, NextMirror
<1> QED BY <1>1, <1>2, PTL DEF Spec

\* No ghost file, no lost object, no policy that differs from its record: the
\* registry and the disk agree after any sequence of calls and restarts.
THEOREM MirrorCorrect == Spec => []RegistryMirrorsDisk
<1>1. Inv /\ Mirror => RegistryMirrorsDisk
  BY MirrorIsInvariant DEF Inv
<1> QED BY <1>1, MirrorInductive, PTL

-----------------------------------------------------------------------------
(* Who changes a file, and how.                                            *)

\* The three ways in which a call of session s changes the key files.
FileStep(s) ==
    \/ \E path : CreatedFile(s, path)
    \/ \E h \in DOMAIN objects, t \in Updates :
          SetAttributeValue(s, h, t) /\ objects[h].owner = 0
    \/ \E h \in DOMAIN objects : DestroyObject(s, h) /\ objects[h].owner = 0

LEMMA FileStepOf ==
    ASSUME Inv, Mirror, NEW s \in DOMAIN sessions, CreationStep(s) \/ ObjectStep(s)
    PROVE  UNCHANGED keyFiles \/ FileStep(s)
<1>1. CASE CreationStep(s)
  BY <1>1, CreationMirror DEF FileStep
<1>2. CASE ObjectStep(s)
  <2>1. ASSUME NEW h \in DOMAIN objects, NEW t \in Updates, SetAttributeValue(s, h, t)
        PROVE  UNCHANGED keyFiles \/ FileStep(s)
    BY <2>1 DEF SetAttributeValue, FileStep
  <2>2. ASSUME NEW h \in DOMAIN objects, DestroyObject(s, h)
        PROVE  UNCHANGED keyFiles \/ FileStep(s)
    BY <2>2 DEF DestroyObject, FileStep
  <2>3. \/ UNCHANGED keyFiles
        \/ \E h \in DOMAIN objects, t \in Updates : SetAttributeValue(s, h, t)
        \/ \E h \in DOMAIN objects : DestroyObject(s, h)
    BY <1>2 DEF ObjectStep, ManagementStep, OperationStep, FindObjectsInit,
       FindObjects, FindObjectsFinal, OperationInit, OperationEnd
  <2> QED BY <2>1, <2>2, <2>3
<1> QED BY <1>1, <1>2

LEMMA FileSteps ==
    ASSUME Inv, Mirror, [Next]_vars
    PROVE  UNCHANGED keyFiles \/ \E s \in DOMAIN sessions : FileStep(s)
<1>1. CASE UNCHANGED vars
  BY <1>1 DEF vars
<1>2. CASE LibraryStep
  BY <1>2 DEF LibraryStep, Initialize, Finalize, Restart, OpenSession, CloseAllSessions
<1>3. ASSUME NEW s \in DOMAIN sessions, SessionStep(s)
      PROVE  UNCHANGED keyFiles
  BY <1>3 DEF SessionStep, CloseSession, Login, Logout, InitPIN, SetPIN
<1> QED BY <1>1, <1>2, <1>3, FileStepOf DEF Next

LEMMA DestroyedFile ==
    ASSUME NEW s \in DOMAIN sessions, NEW h \in DOMAIN objects,
           DestroyObject(s, h), objects[h].owner = 0
    PROVE  /\ DOMAIN keyFiles' = DOMAIN keyFiles \ {objects[h].path}
           /\ \A p \in DOMAIN keyFiles' : keyFiles'[p] = keyFiles[p]
BY DEF DestroyObject, Erase, Restrict

LEMMA UndestroyableStep ==
    ASSUME Inv, Mirror, [Next]_vars, NEW p \in DOMAIN keyFiles,
           NEW c \in DOMAIN keyFiles[p], ~Value(c, keyFiles[p][c], "DESTROYABLE")
    PROVE  p \in DOMAIN keyFiles'
<1>1. ASSUME NEW s \in DOMAIN sessions, NEW h \in DOMAIN objects,
             DestroyObject(s, h), objects[h].owner = 0
      PROVE  p # objects[h].path
  <2>1. initialized
    BY Named DEF Inv
  <2>2. PICK x \in DOMAIN objects : StoredAt(x, p, c)
    BY <2>1 DEF Mirror, DiskInRegistry
  <2>3. ~PolicyValue(objects[x], "DESTROYABLE")
    BY <2>1, <2>2 DEF Mirror, TokensOnDisk, StoredAt, PolicyValue
  <2>4. x \notin Siblings(objects[h].path)
    BY <1>1, <2>3 DEF DestroyObject, MayDestroy
  <2> QED BY <2>2, <2>4 DEF Siblings, StoredAt
<1>2. ASSUME NEW s \in DOMAIN sessions, NEW h \in DOMAIN objects,
             DestroyObject(s, h), objects[h].owner = 0
      PROVE  p \in DOMAIN keyFiles'
  BY <1>1, <1>2, DestroyedFile
<1>3. ASSUME NEW s \in DOMAIN sessions, NEW h \in DOMAIN objects, NEW t \in Updates,
             SetAttributeValue(s, h, t), objects[h].owner = 0
      PROVE  p \in DOMAIN keyFiles'
  BY <1>3, SetAttributeValueFiles, Named DEF Inv
<1> QED BY <1>2, <1>3, FileSteps DEF FileStep, CreatedFile

\* A key file stays as long as one of its objects is not destroyable,
\* whichever of them C_DestroyObject names.
THEOREM UndestroyableCorrect == Spec => UndestroyableStays
<1>1. Inv /\ Mirror /\ [Next]_vars =>
          [\A p \in DOMAIN keyFiles :
              (\E c \in DOMAIN keyFiles[p] :
                  ~Value(c, keyFiles[p][c], "DESTROYABLE"))
              => p \in DOMAIN keyFiles']_vars
  BY UndestroyableStep
<1> QED BY <1>1, MirrorInductive, PTL DEF Spec, UndestroyableStays

\* The template rules of C_SetAttributeValue never loosen an object.
LEMMA OneWayStep ==
    ASSUME NEW object, NEW t \in Policies, object.policy \in Policies,
           OneWay(object, t), PolicyValue(object, "MODIFIABLE")
    PROVE  NeverLooser(object.class, object.policy,
                       ApplyPolicyTemplate(object.policy, t))
<1> DEFINE before == object.policy
           after == ApplyPolicyTemplate(before, t)
<1>1. /\ {"SENSITIVE", "EXTRACTABLE", "MODIFIABLE"} \subseteq PolicyAttributes
      /\ \A a \in PolicyAttributes : t[a] \in Settings /\ before[a] \in Settings
      /\ \A a \in PolicyAttributes :
            after[a] = IF t[a] = "unset" THEN before[a] ELSE t[a]
  BY DEF PolicyAttributes, Policies, ApplyPolicyTemplate
<1> HIDE DEF after
<1>2. Value(object.class, before, "SENSITIVE") => Value(object.class, after, "SENSITIVE")
  BY <1>1 DEF OneWay, PolicyValue, Value, Settings
<1>3. Value(object.class, after, "EXTRACTABLE") => Value(object.class, before, "EXTRACTABLE")
  BY <1>1 DEF OneWay, PolicyValue, Value, Settings
<1>4. Value(object.class, before, "MODIFIABLE")
  BY DEF PolicyValue
<1> QED BY <1>2, <1>3, <1>4 DEF NeverLooser, after

LEMMA ObjectsNeverLooser ==
    ASSUME Inv, [Next]_vars, NEW h \in DOMAIN objects, h \in DOMAIN objects'
    PROVE  NeverLooser(objects[h].class, objects[h].policy, objects'[h].policy)
<1>0. TypeOK /\ initialized
  BY Named DEF Inv
<1>1. ASSUME objects'[h] = objects[h]
      PROVE  NeverLooser(objects[h].class, objects[h].policy, objects'[h].policy)
  BY <1>1 DEF NeverLooser
<1>2. CASE UNCHANGED vars
  BY <1>1, <1>2 DEF vars
<1>3. CASE LibraryStep
  <2>1. CASE Initialize \/ Finalize \/ Restart
    BY <1>0, <2>1 DEF Initialize, Finalize, Restart, ClearRegistries, Empty
  <2>2. ASSUME NEW id \in DOMAIN slots, CloseAllSessions(id)
        PROVE  objects'[h] = objects[h]
    <3>1. PICK K : objects' = Erase(objects, K)
      BY <2>2 DEF CloseAllSessions
    <3> QED BY <3>1 DEF Erase, Restrict
  <2>3. ASSUME NEW id \in DOMAIN slots, NEW rw \in BOOLEAN, OpenSession(id, rw)
        PROVE  objects'[h] = objects[h]
    BY <2>3 DEF OpenSession
  <2> QED BY <1>1, <1>3, <2>1, <2>2, <2>3 DEF LibraryStep
<1>4. ASSUME NEW s \in DOMAIN sessions, SessionStep(s)
      PROVE  objects'[h] = objects[h]
  BY <1>4 DEF SessionStep, CloseSession, Login, Logout, InitPIN, SetPIN, Erase, Restrict
<1>5. ASSUME NEW s \in DOMAIN sessions, CreationStep(s)
      PROVE  objects'[h] = objects[h]
  <2>1. h < nextObject /\ h \in Nat /\ nextObject \in Nat
    BY <1>0, BasicTypes DEF Inv, HandlesFresh
  <2>2. objects'[h] = objects[h] \/ nextObject <= h
    BY <1>0, <1>5, CreationShape
  <2> QED BY <2>1, <2>2
<1>6. ASSUME NEW s \in DOMAIN sessions, ObjectStep(s)
      PROVE  NeverLooser(objects[h].class, objects[h].policy, objects'[h].policy)
  <2>1. ASSUME NEW k \in DOMAIN objects, NEW t \in Updates, SetAttributeValue(s, k, t)
        PROVE  NeverLooser(objects[h].class, objects[h].policy, objects'[h].policy)
    <3>1. CASE h # k
      BY <1>1, <2>1, <3>1 DEF SetAttributeValue
    <3>2. CASE h = k
      <4>1. /\ objects[h] \in Object /\ t \in Policies
            /\ OneWay(objects[h], t) /\ PolicyValue(objects[h], "MODIFIABLE")
        BY <1>0, <2>1, <3>2, ObjectType, TemplatesAssumption DEF SetAttributeValue
      <4>2. objects'[h].policy = ApplyPolicyTemplate(objects[h].policy, t)
        BY <2>1, <3>2, <4>1 DEF SetAttributeValue, Object
      <4> QED BY <4>1, <4>2, OneWayStep DEF Object
    <3> QED BY <3>1, <3>2
  <2>2. ASSUME NEW k \in DOMAIN objects, DestroyObject(s, k)
        PROVE  objects'[h] = objects[h]
    BY <2>2 DEF DestroyObject, Erase, Restrict
  <2>3. \/ UNCHANGED objects
        \/ \E k \in DOMAIN objects, t \in Updates : SetAttributeValue(s, k, t)
        \/ \E k \in DOMAIN objects : DestroyObject(s, k)
    BY <1>6 DEF ObjectStep, ManagementStep, OperationStep, FindObjectsInit,
       FindObjects, FindObjectsFinal, OperationInit, OperationEnd
  <2> QED BY <1>1, <2>1, <2>2, <2>3
<1> QED BY <1>1, <1>2, <1>3, <1>4, <1>5, <1>6 DEF Next

LEMMA FilesNeverLooser ==
    ASSUME Inv, Mirror, [Next]_vars,
           NEW p \in DOMAIN keyFiles, p \in DOMAIN keyFiles',
           NEW c \in DOMAIN keyFiles[p]
    PROVE  NeverLooser(c, keyFiles[p][c], keyFiles'[p][c])
<1>1. ASSUME keyFiles'[p] = keyFiles[p]
      PROVE  NeverLooser(c, keyFiles[p][c], keyFiles'[p][c])
  BY <1>1 DEF NeverLooser
<1>2. ASSUME NEW s \in DOMAIN sessions, NEW h \in DOMAIN objects, NEW t \in Updates,
             SetAttributeValue(s, h, t), objects[h].owner = 0
      PROVE  NeverLooser(c, keyFiles[p][c], keyFiles'[p][c])
  <2>1. initialized /\ TypeOK
    BY Named DEF Inv
  <2>2. PICK x \in DOMAIN objects : StoredAt(x, p, c)
    BY <2>1 DEF Mirror, DiskInRegistry
  <2>3. /\ objects[x].policy = keyFiles[p][c]
        /\ objects'[x].policy = keyFiles'[p][c]
        /\ objects[x].class = c
    BY <1>2, <2>1, <2>2, SetAttributeValueFiles DEF Mirror, TokensOnDisk, StoredAt
  <2>4. x \in DOMAIN objects'
    BY <1>2 DEF SetAttributeValue
  <2> QED BY <2>3, <2>4, ObjectsNeverLooser
<1>3. ASSUME NEW s \in DOMAIN sessions, NEW h \in DOMAIN objects,
             DestroyObject(s, h), objects[h].owner = 0
      PROVE  keyFiles'[p] = keyFiles[p]
  BY <1>3, DestroyedFile
<1> QED BY <1>1, <1>2, <1>3, FileSteps DEF FileStep, CreatedFile

\* A key that became sensitive, unextractable or unmodifiable stays so, in
\* memory and in its file (SetAttributeValue and collectMetadata).
THEOREM StickyCorrect == Spec => StickyPolicy
<1>1. Inv /\ Mirror /\ [Next]_vars =>
          [/\ \A h \in DOMAIN objects \cap DOMAIN objects' :
                 NeverLooser(objects[h].class, objects[h].policy, objects'[h].policy)
           /\ \A p \in DOMAIN keyFiles \cap DOMAIN keyFiles' :
                 \A c \in DOMAIN keyFiles[p] :
                     NeverLooser(c, keyFiles[p][c], keyFiles'[p][c])]_vars
  BY ObjectsNeverLooser, FilesNeverLooser
<1> QED BY <1>1, MirrorInductive, PTL DEF Spec, StickyPolicy

-----------------------------------------------------------------------------
(* What takes a session object away.                                       *)

\* The reasons of SessionObjectsKept.
Explained(h) ==
    \/ objects[h].owner = 0
    \/ objects[h].owner \notin DOMAIN sessions'
    \/ /\ Protected(objects[h])
       /\ slots[objects[h].slot].login # "none"
       /\ slots'[objects[h].slot].login = "none"
    \/ /\ DOMAIN sessions' = DOMAIN sessions
       /\ DOMAIN objects \ DOMAIN objects' = {h}

LEMMA ClosedExplained ==
    ASSUME Inv, NEW h \in DOMAIN objects \ DOMAIN objects',
           \/ \E s \in DOMAIN sessions : CloseSession(s)
           \/ \E id \in DOMAIN slots : CloseAllSessions(id)
    PROVE  Explained(h)
<1>1. ASSUME NEW s \in DOMAIN sessions, CloseSession(s) PROVE Explained(h)
  <2>1. objects[h].owner = s
    BY <1>1 DEF CloseSession, Erase, Restrict, OwnedBy
  <2>2. s \notin DOMAIN sessions'
    BY <1>1 DEF CloseSession, Erase, Restrict
  <2> QED BY <2>1, <2>2 DEF Explained
<1>2. ASSUME NEW id \in DOMAIN slots, CloseAllSessions(id) PROVE Explained(h)
  <2>1. objects[h].slot = id /\ objects[h].owner # 0
    BY <1>2 DEF CloseAllSessions, Erase, Restrict
  <2>2. objects[h].owner \in SessionsOn(id)
    BY <2>1 DEF Inv, SessionObjectsHaveOwner, SessionsOn
  <2>3. objects[h].owner \notin DOMAIN sessions'
    BY <1>2, <2>2 DEF CloseAllSessions, Erase, Restrict
  <2> QED BY <2>3 DEF Explained
<1> QED BY <1>1, <1>2

LEMMA LogoutExplained ==
    ASSUME Inv, NEW s \in DOMAIN sessions, Logout(s),
           NEW h \in DOMAIN objects \ DOMAIN objects'
    PROVE  Explained(h)
<1>1. h \in Visible(s) /\ Protected(objects[h])
  BY DEF Logout, Erase, Restrict
<1>2. objects[h].slot = sessions[s].slot /\ sessions[s].slot \in DOMAIN slots
  BY <1>1, SessionType DEF Inv, Visible
<1>3. slots'[sessions[s].slot].login = "none" /\ SlotOf(s).login # "none"
  <2>1. slots[sessions[s].slot] \in Slot
    BY <1>2 DEF Inv, TypeOK
  <2> QED BY <1>2, <2>1 DEF Logout, Slot
<1> QED BY <1>1, <1>2, <1>3 DEF Explained, SlotOf

LEMMA DestroyExplained ==
    ASSUME Inv, Mirror, initialized, NEW s \in DOMAIN sessions,
           NEW g \in DOMAIN objects, DestroyObject(s, g),
           NEW h \in DOMAIN objects \ DOMAIN objects'
    PROVE  Explained(h)
<1>1. CASE objects[g].owner = 0
  <2>1. h \in Siblings(objects[g].path)
    BY <1>1 DEF DestroyObject, Erase, Restrict
  <2>2. objects[g].path \in DOMAIN keyFiles
    BY <1>1 DEF Mirror, TokensOnDisk
  <2>3. objects[h].owner = 0
    BY <2>1, <2>2, PathsReal DEF Inv
  <2> QED BY <2>3 DEF Explained
<1>2. CASE objects[g].owner # 0
  <2>1. DOMAIN objects' = DOMAIN objects \ {g} /\ sessions' = sessions
    BY <1>2 DEF DestroyObject, Erase, Restrict
  <2> QED BY <2>1 DEF Explained
<1> QED BY <1>1, <1>2

LEMMA ExplainedStep ==
    ASSUME Inv, Mirror, [Next]_vars, initialized',
           NEW h \in DOMAIN objects \ DOMAIN objects'
    PROVE  Explained(h)
<1>0. TypeOK /\ initialized
  BY SessionType DEF Inv, TypeOK, Empty
<1>1. CASE UNCHANGED vars
  BY <1>1 DEF vars
<1>2. CASE Initialize \/ Finalize \/ Restart
  BY <1>0, <1>2 DEF Initialize, Finalize, Restart
<1>3. ASSUME NEW id \in DOMAIN slots, NEW rw \in BOOLEAN, OpenSession(id, rw)
      PROVE  Explained(h)
  BY <1>3 DEF OpenSession
<1>4. ASSUME NEW s \in DOMAIN sessions, CreationStep(s) PROVE Explained(h)
  BY <1>0, <1>4, CreationShape
<1>5. ASSUME NEW s \in DOMAIN sessions, SessionStep(s) PROVE Explained(h)
  <2>1. CASE CloseSession(s)
    BY <2>1, ClosedExplained
  <2>2. CASE Logout(s)
    BY <2>2, LogoutExplained
  <2>3. CASE ~CloseSession(s) /\ ~Logout(s)
    BY <1>5, <2>3 DEF SessionStep, Login, InitPIN, SetPIN
  <2> QED BY <2>1, <2>2, <2>3
<1>6. ASSUME NEW s \in DOMAIN sessions, ObjectStep(s) PROVE Explained(h)
  <2>1. CASE \E g \in DOMAIN objects : DestroyObject(s, g)
    BY <1>0, <2>1, DestroyExplained
  <2>2. ASSUME NEW g \in DOMAIN objects, NEW t \in Updates,
               SetAttributeValue(s, g, t)
        PROVE  FALSE
    BY <2>2 DEF SetAttributeValue
  <2> QED BY <1>6, <2>1, <2>2
          DEF ObjectStep, ManagementStep, OperationStep, FindObjectsInit,
              FindObjects, FindObjectsFinal, OperationInit, OperationEnd
<1> QED BY <1>1, <1>2, <1>3, <1>4, <1>5, <1>6, ClosedExplained
        DEF Next, LibraryStep

\* Closing a session takes the objects of that session, a logout those that the
\* login protected, a destruction the object it names, and nothing else takes a
\* session object away while the library runs.
THEOREM KeptCorrect == Spec => SessionObjectsKept
<1>1. Inv /\ Mirror /\ [Next]_vars =>
          [initialized' => \A h \in DOMAIN objects \ DOMAIN objects' :
              LET object == objects[h] IN
              \/ object.owner = 0
              \/ object.owner \notin DOMAIN sessions'
              \/ /\ Protected(object)
                 /\ slots[object.slot].login # "none"
                 /\ slots'[object.slot].login = "none"
              \/ /\ DOMAIN sessions' = DOMAIN sessions
                 /\ DOMAIN objects \ DOMAIN objects' = {h}]_vars
  BY ExplainedStep DEF Explained
<1> QED BY <1>1, MirrorInductive, PTL DEF Spec, SessionObjectsKept

-----------------------------------------------------------------------------
(* On whose behalf a file changes, and what a call leaves alone.           *)

\* The files of the other slots are what they were.
OtherFilesKept(id) ==
    \A p \in DOMAIN keyFiles \cup DOMAIN keyFiles' : p.slot # id =>
        /\ p \in DOMAIN keyFiles /\ p \in DOMAIN keyFiles'
        /\ keyFiles'[p] = keyFiles[p]

LEMMA FileStepOwner ==
    ASSUME Inv, Mirror, NEW s \in DOMAIN sessions, FileStep(s)
    PROVE  /\ sessions[s].rw
           /\ UserReady(s)
           /\ OtherFilesKept(sessions[s].slot)
<1>0. initialized /\ TypeOK /\ TokensOnDisk
  BY SessionType DEF Inv, Mirror
<1>1. ASSUME NEW path, CreatedFile(s, path)
      PROVE  OtherFilesKept(sessions[s].slot)
  BY <1>1 DEF CreatedFile, OtherFilesKept
<1>2. ASSUME NEW h \in DOMAIN objects, NEW t \in Updates,
             SetAttributeValue(s, h, t), objects[h].owner = 0
      PROVE  OtherFilesKept(sessions[s].slot)
  <2>1. objects[h].path.slot = sessions[s].slot
    BY <1>0, <1>2 DEF SetAttributeValue, Visible, TokensOnDisk
  <2> QED BY <1>0, <1>2, <2>1, SetAttributeValueFiles DEF OtherFilesKept
<1>3. ASSUME NEW h \in DOMAIN objects, DestroyObject(s, h), objects[h].owner = 0
      PROVE  OtherFilesKept(sessions[s].slot)
  <2>1. objects[h].path.slot = sessions[s].slot
    BY <1>0, <1>3 DEF DestroyObject, Visible, TokensOnDisk
  <2> QED BY <1>3, <2>1, DestroyedFile DEF OtherFilesKept
<1>4. sessions[s].rw /\ UserReady(s)
  BY DEF FileStep, CreatedFile, SetAttributeValue, DestroyObject
<1> QED BY <1>1, <1>2, <1>3, <1>4 DEF FileStep

LEMMA OtherFilesOf ==
    ASSUME NEW id, NEW x, x # id, OtherFilesKept(id) \/ UNCHANGED keyFiles
    PROVE  KeyFilesOf(x)' = KeyFilesOf(x)
<1> DEFINE P == {p \in DOMAIN keyFiles : p.slot = x}
           Q == {p \in DOMAIN keyFiles' : p.slot = x}
<1>1. P = Q /\ \A p \in P : keyFiles'[p] = keyFiles[p]
  BY DEF OtherFilesKept
<1>2. KeyFilesOf(x) = [p \in P |-> keyFiles[p]] /\ KeyFilesOf(x)' = [p \in Q |-> keyFiles'[p]]
  BY DEF KeyFilesOf, Restrict
<1> HIDE DEF P, Q
<1> QED BY <1>1, <1>2

\* The key files of a slot change only while the slot has a read-write session
\* and, when it demands a login, the user is logged in.
THEOREM WritesCorrect == Spec => TokenWritesAuthorised
<1> DEFINE Authorised ==
        \A id \in SlotIds : KeyFilesOf(id)' # KeyFilesOf(id) =>
            /\ id \in DOMAIN slots
            /\ \E s \in SessionsOn(id) : sessions[s].rw
            /\ RequiresLogin(slots[id]) => slots[id].login = "USER"
<1>1. Inv /\ Mirror /\ [Next]_vars => [Authorised]_vars
  <2> SUFFICES ASSUME Inv, Mirror, [Next]_vars, NEW id \in SlotIds,
                      KeyFilesOf(id)' # KeyFilesOf(id)
               PROVE  /\ id \in DOMAIN slots
                      /\ \E s \in SessionsOn(id) : sessions[s].rw
                      /\ RequiresLogin(slots[id]) => slots[id].login = "USER"
    OBVIOUS
  <2>1. PICK s \in DOMAIN sessions : FileStep(s)
    BY FileSteps, OtherFilesOf
  <2>2. id = sessions[s].slot
    BY <2>1, FileStepOwner, OtherFilesOf
  <2>3. id \in DOMAIN slots /\ s \in SessionsOn(id) /\ sessions[s].rw
    BY <2>1, <2>2, FileStepOwner, SessionType DEF Inv, SessionsOn
  <2>4. RequiresLogin(slots[id]) => slots[id].login = "USER"
    BY <2>1, <2>2, FileStepOwner DEF UserReady, SlotOf
  <2> QED BY <2>3, <2>4
<1> QED BY <1>1, MirrorInductive, PTL DEF Spec, TokenWritesAuthorised

\* f and g have the same sessions, or the same objects, of slot x.
Agree(f, g, x) ==
    /\ \A y \in DOMAIN f : f[y].slot = x => y \in DOMAIN g
    /\ \A y \in DOMAIN g : g[y].slot = x => y \in DOMAIN f
    /\ \A y \in DOMAIN f \cap DOMAIN g :
          f[y].slot = x \/ g[y].slot = x => g[y] = f[y]

LEMMA AgreeRestrict ==
    ASSUME NEW f, NEW g, NEW x, Agree(f, g, x)
    PROVE  Restrict(f, {y \in DOMAIN f : f[y].slot = x}) =
           Restrict(g, {y \in DOMAIN g : g[y].slot = x})
<1> DEFINE F == {y \in DOMAIN f : f[y].slot = x}
           G == {y \in DOMAIN g : g[y].slot = x}
<1>1. F = G /\ \A y \in F : f[y] = g[y]
  BY DEF Agree
<1>2. Restrict(f, F) = [y \in F |-> f[y]] /\ Restrict(g, G) = [y \in G |-> g[y]]
  BY DEF Restrict
<1> HIDE DEF F, G
<1>3. Restrict(f, F) = Restrict(g, G)
  BY <1>1, <1>2
<1> QED BY <1>3 DEF F, G

\* The part of the view that a call on slot id must not touch.
Untouched(id) ==
    \A x \in SlotIds \ {id} : /\ slots'[x] = slots[x]
                              /\ pinFiles'[x] = pinFiles[x]
                              /\ Agree(sessions, sessions', x)
                              /\ Agree(objects, objects', x)

LEMMA ViewKept ==
    ASSUME NEW id, Untouched(id), OtherFilesKept(id) \/ UNCHANGED keyFiles,
           NEW x \in SlotIds \ {id}
    PROVE  View(x)' = View(x)
<1>1. KeyFilesOf(x)' = KeyFilesOf(x)
  BY OtherFilesOf
<1>2. /\ Restrict(sessions, SessionsOn(x)) = Restrict(sessions', SessionsOn(x)')
      /\ Restrict(objects, {h \in DOMAIN objects : objects[h].slot = x}) =
         Restrict(objects', {h \in DOMAIN objects' : objects'[h].slot = x})
  BY AgreeRestrict DEF Untouched, SessionsOn
<1>3. slots'[x] = slots[x] /\ pinFiles'[x] = pinFiles[x]
  BY DEF Untouched
<1> QED BY <1>1, <1>2, <1>3 DEF View

LEMMA AgreeErase ==
    ASSUME NEW f, NEW g, NEW K, NEW x, g = Erase(f, K),
           \A y \in K : y \in DOMAIN f => f[y].slot # x
    PROVE  Agree(f, g, x)
BY DEF Agree, Erase, Restrict

LEMMA OpenSessionUntouched ==
    ASSUME Inv, NEW id \in DOMAIN slots, NEW rw \in BOOLEAN, OpenSession(id, rw)
    PROVE  Untouched(id)
<1>1. nextSession \notin DOMAIN sessions
  BY BasicTypes DEF Inv, HandlesFresh
<1>2. /\ DOMAIN sessions' = DOMAIN sessions \cup {nextSession}
      /\ \A s \in DOMAIN sessions : sessions'[s] = sessions[s]
      /\ sessions'[nextSession].slot = id
  BY <1>1 DEF OpenSession, Extend
<1> QED BY <1>1, <1>2 DEF OpenSession, Untouched, Agree

LEMMA CloseAllSessionsUntouched ==
    ASSUME Inv, NEW id \in DOMAIN slots, CloseAllSessions(id)
    PROVE  Untouched(id)
<1> DEFINE gone == {h \in DOMAIN objects :
                       objects[h].slot = id /\ objects[h].owner # 0}
<1>1. /\ sessions' = Erase(sessions, SessionsOn(id))
      /\ objects' = Erase(objects, gone)
      /\ pinFiles' = pinFiles
      /\ slots' = [slots EXCEPT ![id].login = "none"]
  BY DEF CloseAllSessions
<1>2. ASSUME NEW x \in SlotIds \ {id}
      PROVE  Agree(sessions, sessions', x) /\ Agree(objects, objects', x)
  <2>1. \A y \in SessionsOn(id) : sessions[y].slot # x
    BY DEF SessionsOn
  <2>2. \A y \in gone : objects[y].slot # x
    OBVIOUS
  <2> HIDE DEF gone
  <2> QED BY <1>1, <2>1, <2>2, AgreeErase
<1>3. \A x \in SlotIds \ {id} : slots'[x] = slots[x]
  BY <1>1, Named DEF Inv
<1> QED BY <1>1, <1>2, <1>3 DEF Untouched

LEMMA SessionStepUntouched ==
    ASSUME Inv, NEW s \in DOMAIN sessions, SessionStep(s)
    PROVE  Untouched(sessions[s].slot)
<1> DEFINE id == sessions[s].slot
<1>0. /\ TypeOK /\ SlotIds = DOMAIN slots /\ id \in SlotIds
      /\ pinFiles = [x \in SlotIds |-> pinFiles[x]]
  BY SessionType, Named DEF Inv, TypeOK, PinFiles
<1>1. CASE CloseSession(s)
  <2>1. /\ sessions' = Erase(sessions, {s})
        /\ objects' = Erase(objects, OwnedBy({s}))
        /\ pinFiles' = pinFiles
        /\ slots' = slots \/ slots' = [slots EXCEPT ![id].login = "none"]
    BY <1>1 DEF CloseSession
  <2>2. \A h \in OwnedBy({s}) : objects[h].slot = id
    BY <1>0, BasicTypes DEF Inv, SessionObjectsHaveOwner, OwnedBy
  <2>3. ASSUME NEW x \in SlotIds \ {id}
        PROVE  Agree(sessions, sessions', x) /\ Agree(objects, objects', x)
    BY <2>1, <2>2, AgreeErase
  <2> QED BY <1>0, <2>1, <2>3 DEF Untouched
<1>2. CASE Logout(s)
  <2> DEFINE gone == {h \in Visible(s) :
                         objects[h].owner # 0 /\ Protected(objects[h])}
  <2>1. /\ objects' = Erase(objects, gone)
        /\ pinFiles' = pinFiles
        /\ slots' = [slots EXCEPT ![id].login = "none"]
    BY <1>2 DEF Logout
  <2>2. \A h \in gone : objects[h].slot = id
    BY DEF Visible
  <2> HIDE DEF gone
  <2>3. /\ DOMAIN sessions' = DOMAIN sessions
        /\ \A y \in DOMAIN sessions :
              /\ sessions'[y].slot = sessions[y].slot
              /\ sessions[y].slot # id => sessions'[y] = sessions[y]
    BY <1>0, <1>2, BasicTypes DEF Logout, LoggedOut, Session
  <2>4. ASSUME NEW x \in SlotIds \ {id}
        PROVE  Agree(sessions, sessions', x) /\ Agree(objects, objects', x)
    <3>1. Agree(sessions, sessions', x)
      BY <2>3 DEF Agree
    <3>2. Agree(objects, objects', x)
      BY <2>1, <2>2, AgreeErase
    <3> QED BY <3>1, <3>2
  <2> QED BY <1>0, <2>1, <2>4 DEF Untouched
<1>3. CASE \E role \in Roles, pin \in Pins : Login(s, role, pin)
  BY <1>0, <1>3 DEF Login, Untouched, Agree
<1>4. CASE \/ \E pin \in Pins : InitPIN(s, pin)
           \/ \E old, new \in Pins : SetPIN(s, old, new)
  <2>1. PICK role, pin : StorePin(id, role, pin)
    BY <1>4 DEF InitPIN, SetPIN
  <2>2. UNCHANGED <<sessions, objects>>
    BY <1>4 DEF InitPIN, SetPIN
  <2> QED BY <1>0, <2>1, <2>2 DEF StorePin, Untouched, Agree
<1> QED BY <1>1, <1>2, <1>3, <1>4 DEF SessionStep

\* A call on objects changes the operation or the search of its own session.
LEMMA OtherSessionsKept ==
    ASSUME TypeOK, NEW s \in DOMAIN sessions, ObjectStep(s)
    PROVE  \A x \in DOMAIN sessions \ {s} : sessions'[x] = sessions[x]
BY DEF ObjectStep, ManagementStep, OperationStep, SetAttributeValue,
   DestroyObject, FindObjectsInit, FindObjects, FindObjectsFinal,
   OperationInit, OperationEnd

LEMMA PinFilesKept ==
    ASSUME NEW s \in DOMAIN sessions, CreationStep(s) \/ ObjectStep(s)
    PROVE  UNCHANGED pinFiles
BY DEF CreationStep, GenerateKey, GenerateKeyPair, DeriveKey, UnwrapSecretKey,
   UnwrapPrivateKey, NewSecretKey, NewKeyPair, LoseHandle, ObjectStep,
   ManagementStep, OperationStep, SetAttributeValue, DestroyObject,
   FindObjectsInit, FindObjects, FindObjectsFinal, OperationInit, OperationEnd

\* C_DestroyObject erases objects of its own slot only: the file is there.
LEMMA DestroyedSlot ==
    ASSUME TypeOK, Mirror, NEW s \in DOMAIN sessions, NEW k \in DOMAIN objects,
           DestroyObject(s, k), NEW h \in DOMAIN objects, h \notin DOMAIN objects'
    PROVE  objects[h].slot = sessions[s].slot
<1>0. /\ initialized /\ TokensOnDisk
      /\ objects[k].slot = sessions[s].slot
  BY Named DEF Mirror, DestroyObject, Visible
<1>1. CASE objects[k].owner # 0
  BY <1>0, <1>1 DEF DestroyObject, Erase, Restrict
<1>2. CASE objects[k].owner = 0
  <2>1. h \in Siblings(objects[k].path)
    BY <1>2 DEF DestroyObject, Erase, Restrict
  <2>2. objects[k].path \in DOMAIN keyFiles /\ objects[k].slot = objects[k].path.slot
    BY <1>0, <1>2 DEF TokensOnDisk
  <2>3. objects[h].owner = 0 /\ objects[h].path = objects[k].path
    BY <1>0, <2>1, <2>2, PathsReal DEF Siblings
  <2> QED BY <1>0, <2>2, <2>3 DEF TokensOnDisk
<1> QED BY <1>1, <1>2

LEMMA CallUntouched ==
    ASSUME Inv, Mirror, NEW s \in DOMAIN sessions, CreationStep(s) \/ ObjectStep(s)
    PROVE  Untouched(sessions[s].slot)
<1> DEFINE id == sessions[s].slot
<1>0. TypeOK /\ UNCHANGED pinFiles
  BY PinFilesKept DEF Inv
<1>1. CASE CreationStep(s)
  <2>1. /\ UNCHANGED <<slots, sessions>>
        /\ DOMAIN objects \subseteq DOMAIN objects'
    BY <1>0, <1>1, CreationShape
  <2>2. \A h \in DOMAIN objects' :
            \/ h \in DOMAIN objects /\ objects'[h] = objects[h]
            \/ nextObject <= h /\ objects'[h].slot = id
    BY <1>0, <1>1, CreationShape
  <2>3. \A h \in DOMAIN objects : ~(nextObject <= h)
    BY <1>0, BasicTypes DEF Inv, HandlesFresh
  <2> QED BY <1>0, <2>1, <2>2, <2>3 DEF Untouched, Agree
<1>2. CASE ObjectStep(s)
  <2>1. /\ UNCHANGED slots
        /\ DOMAIN sessions' = DOMAIN sessions
        /\ sessions'[s].slot = id
        /\ \A x \in DOMAIN sessions \ {s} : sessions'[x] = sessions[x]
    BY <1>0, <1>2, ObjectShape, OtherSessionsKept
  <2>2. \A h \in DOMAIN objects' : objects'[h] = objects[h] \/ objects'[h].slot = id
    BY <1>0, <1>2, ObjectShape, PolicyShape DEF Visible
  <2>3. \A h \in DOMAIN objects' : h \in DOMAIN objects
                                   /\ objects'[h].slot = objects[h].slot
    BY <1>0, <1>2, ObjectShape
  <2>4. \A h \in DOMAIN objects \ DOMAIN objects' : objects[h].slot = id
    <3>1. \/ DOMAIN objects' = DOMAIN objects
          \/ \E k \in DOMAIN objects : DestroyObject(s, k)
      BY <1>2 DEF ObjectStep, ManagementStep, OperationStep, SetAttributeValue,
         FindObjectsInit, FindObjects, FindObjectsFinal, OperationInit, OperationEnd
    <3> QED BY <1>0, <3>1, DestroyedSlot
  <2> QED BY <1>0, <2>1, <2>2, <2>3, <2>4 DEF Untouched, Agree
<1> QED BY <1>1, <1>2

LEMMA StepView ==
    ASSUME Inv, Mirror, [Next]_vars, initialized, initialized'
    PROVE  \E id : \A x \in SlotIds \ {id} : View(x)' = View(x)
<1>1. CASE UNCHANGED vars
  BY <1>1 DEF vars, View, KeyFilesOf, SessionsOn
<1>2. ASSUME NEW id \in DOMAIN slots, NEW rw \in BOOLEAN, OpenSession(id, rw)
      PROVE  \A x \in SlotIds \ {id} : View(x)' = View(x)
  <2>1. UNCHANGED keyFiles
    BY <1>2 DEF OpenSession
  <2> QED BY <1>2, <2>1, OpenSessionUntouched, ViewKept
<1>3. ASSUME NEW id \in DOMAIN slots, CloseAllSessions(id)
      PROVE  \A x \in SlotIds \ {id} : View(x)' = View(x)
  <2>1. UNCHANGED keyFiles
    BY <1>3 DEF CloseAllSessions
  <2> QED BY <1>3, <2>1, CloseAllSessionsUntouched, ViewKept
<1>4. ASSUME NEW s \in DOMAIN sessions, SessionStep(s)
      PROVE  \A x \in SlotIds \ {sessions[s].slot} : View(x)' = View(x)
  <2>1. UNCHANGED keyFiles
    BY <1>4 DEF SessionStep, CloseSession, Login, Logout, InitPIN, SetPIN
  <2> QED BY <1>4, <2>1, SessionStepUntouched, ViewKept
<1>5. ASSUME NEW s \in DOMAIN sessions, CreationStep(s) \/ ObjectStep(s)
      PROVE  \A x \in SlotIds \ {sessions[s].slot} : View(x)' = View(x)
  <2>1. UNCHANGED keyFiles \/ OtherFilesKept(sessions[s].slot)
    BY <1>5, FileStepOf, FileStepOwner
  <2> QED BY <1>5, <2>1, CallUntouched, ViewKept
<1>6. ~Initialize /\ ~Finalize /\ ~Restart
  BY DEF Initialize, Finalize, Restart
<1> QED BY <1>1, <1>2, <1>3, <1>4, <1>5, <1>6 DEF Next, LibraryStep

\* Between Initialize and Finalize a call touches one slot at most: login,
\* operations, objects, PINs and files of the others stay as they are.
THEOREM IsolationCorrect == Spec => SlotIsolation
<1>1. Inv /\ Mirror /\ [Next]_vars =>
          [initialized /\ initialized' =>
              \A a, b \in SlotIds :
                  a # b => View(a)' = View(a) \/ View(b)' = View(b)]_vars
  BY StepView
<1> QED BY <1>1, MirrorInductive, PTL DEF Spec, SlotIsolation

-----------------------------------------------------------------------------
(* One key file.  Runtime changes it in one step, KeyStore file operation  *)
(* by file operation; both keep what KeyRegistry promises of one name.     *)
(* Here the key is the set of objects that its file holds.                 *)

KeyFileContents == UNION {[held -> Policies] : held \in SUBSET Classes}

KeyFile(p) ==
    IF p \in DOMAIN keyFiles
    THEN [key |-> DOMAIN keyFiles[p], form |-> "whole", policy |-> keyFiles[p]]
    ELSE Empty

FileRegistry(p) == INSTANCE KeyRegistry WITH
    Keys <- SUBSET Classes, Policies <- KeyFileContents,
    Default <- NoPolicy, NoKey <- Empty,
    stored <- KeyFile(p), told <- KeyFile(p)

LEMMA KeyFileReal ==
    ASSUME NEW p \in DOMAIN keyFiles
    PROVE  KeyFile(p) # Empty
<1>1. KeyFile(p).form = "whole" /\ "form" \in DOMAIN KeyFile(p)
  BY DEF KeyFile
<1>2. "form" \notin DOMAIN Empty
  BY DEF Empty
<1> QED BY <1>1, <1>2

LEMMA KeyFileStep ==
    ASSUME Inv, Mirror, TypeOK', [Next]_vars, NEW p
    PROVE  KeyFile(p)' = KeyFile(p) \/ FileRegistry(p)!Next
<1> DEFINE Goal == KeyFile(p)' = KeyFile(p) \/ FileRegistry(p)!Next
<1>1. ASSUME p \notin DOMAIN keyFiles, p \notin DOMAIN keyFiles'
      PROVE  Goal
  BY <1>1 DEF KeyFile
<1>2. ASSUME p \in DOMAIN keyFiles, p \in DOMAIN keyFiles',
             keyFiles'[p] = keyFiles[p]
      PROVE  Goal
  BY <1>2 DEF KeyFile
<1>3. ASSUME p \in DOMAIN keyFiles'
      PROVE  /\ DOMAIN keyFiles'[p] \in SUBSET Classes
             /\ keyFiles'[p] \in KeyFileContents
  BY <1>3 DEF TypeOK, IsDisk, IsKeyFile, KeyFileContents
<1>4. ASSUME p \notin DOMAIN keyFiles, p \in DOMAIN keyFiles'
      PROVE  Goal
  <2>1. FileRegistry(p)!Create(DOMAIN keyFiles'[p], keyFiles'[p])
    BY <1>4 DEF FileRegistry!Create, KeyFile
  <2> QED BY <1>3, <1>4, <2>1 DEF FileRegistry!Next
<1>5. ASSUME p \in DOMAIN keyFiles, p \notin DOMAIN keyFiles'
      PROVE  Goal
  <2>1. FileRegistry(p)!Destroy
    BY <1>5, KeyFileReal DEF FileRegistry!Destroy, KeyFile
  <2> QED BY <2>1 DEF FileRegistry!Next
<1>6. ASSUME p \in DOMAIN keyFiles, p \in DOMAIN keyFiles',
             DOMAIN keyFiles'[p] = DOMAIN keyFiles[p]
      PROVE  Goal
  <2>1. FileRegistry(p)!Update(keyFiles'[p])
    BY <1>6, KeyFileReal DEF FileRegistry!Update, KeyFile
  <2> QED BY <1>3, <1>6, <2>1 DEF FileRegistry!Next
<1> HIDE DEF Goal
<1>7. ASSUME NEW s \in DOMAIN sessions, NEW path, CreatedFile(s, path) PROVE Goal
  BY <1>1, <1>2, <1>4, <1>7 DEF CreatedFile
<1>8. ASSUME NEW s \in DOMAIN sessions, NEW h \in DOMAIN objects, NEW t \in Updates,
             SetAttributeValue(s, h, t), objects[h].owner = 0
      PROVE  Goal
  BY <1>1, <1>6, <1>8, SetAttributeValueFiles, Named DEF Inv
<1>9. ASSUME NEW s \in DOMAIN sessions, NEW h \in DOMAIN objects,
             DestroyObject(s, h), objects[h].owner = 0
      PROVE  Goal
  BY <1>1, <1>2, <1>5, <1>9, DestroyedFile
<1>10. CASE UNCHANGED keyFiles
  BY <1>10 DEF Goal, KeyFile
<1> QED BY <1>7, <1>8, <1>9, <1>10, FileSteps DEF FileStep, Goal

\* A key file, whatever its name and whichever session, slot or process life
\* the calls belong to, is created where there is none, keeps its objects when
\* a policy is recorded, and is removed as a whole: no call overwrites one.
THEOREM FilesImplemented ==
    ASSUME NEW p \in Paths
    PROVE  Spec => /\ [][FileRegistry(p)!Next]_(FileRegistry(p)!vars)
                   /\ p \notin DOMAIN InitialKeyFiles => FileRegistry(p)!Spec
<1>1. Inv /\ Mirror /\ TypeOK' /\ [Next]_vars =>
          [FileRegistry(p)!Next]_(FileRegistry(p)!vars)
  BY KeyFileStep DEF FileRegistry!vars
<1>2. Init /\ p \notin DOMAIN InitialKeyFiles => FileRegistry(p)!Init
  BY DEF Init, FileRegistry!Init, KeyFile
<1> QED BY <1>1, <1>2, TypeCorrect, MirrorInductive, PTL
        DEF Spec, FileRegistry!Spec

-----------------------------------------------------------------------------
(* PINs.  A byte order mark is part of the PIN that C_SetPIN stores but not *)
(* of the one a start reads, so the theorem is about PINs without a mark.   *)

LEMMA StorePinLoads ==
    ASSUME TypeOK, PinsSurviveRestart, NEW id \in DOMAIN slots,
           NEW role \in Roles, NEW pin \in Pins, pin.bom = FALSE,
           StorePin(id, role, pin), NEW x \in DOMAIN slots
    PROVE  slots'[x].pins = LoadPasswords(x)'
<1>0. /\ slots[x] \in Slot /\ slots[id] \in Slot /\ id \in SlotIds /\ x \in SlotIds
      /\ pinFiles \in [SlotIds -> [Roles -> Pins \cup {NoPin}]]
      /\ slots[x].pins = LoadPasswords(x)
      /\ pin # NoPin /\ pin \in [bom : BOOLEAN, text : STRING]
  BY Named, PinsAssumption DEF TypeOK, PinFiles, PinsSurviveRestart
<1>1. CASE x # id
  <2>1. slots'[x] = slots[x] /\ pinFiles'[x] = pinFiles[x]
    BY <1>0, <1>1 DEF StorePin
  <2> QED BY <1>0, <2>1 DEF LoadPasswords
<1>2. CASE x = id
  <2>1. /\ slots'[x].pins = [slots[x].pins EXCEPT ![role] = pin]
        /\ pinFiles'[x] = [pinFiles[x] EXCEPT ![role] = pin]
    BY <1>0, <1>2 DEF StorePin, Slot
  <2>2. ReadPassword(pin) = pin
    BY <1>0 DEF ReadPassword
  <2>3. pinFiles[x] \in [Roles -> Pins \cup {NoPin}]
    BY <1>0
  <2> QED BY <1>0, <2>1, <2>2, <2>3 DEF LoadPasswords
<1> QED BY <1>1, <1>2

LEMMA PinsStep ==
    ASSUME TypeOK, PinsSurviveRestart, [Next]_vars,
           \A pin \in Pins : pin.bom = FALSE
    PROVE  PinsSurviveRestart'
<1> USE DEF PinsSurviveRestart
<1>1. CASE UNCHANGED <<slots, pinFiles>>
  BY <1>1 DEF LoadPasswords
<1>2. CASE Initialize
  BY <1>2 DEF Initialize, LoadPasswords
<1>3. CASE Finalize \/ Restart
  BY <1>3 DEF Finalize, Restart, ClearRegistries, Empty
<1>4. ASSUME UNCHANGED pinFiles, DOMAIN slots' = DOMAIN slots,
             \A id \in DOMAIN slots : slots'[id].pins = slots[id].pins
      PROVE  PinsSurviveRestart'
  BY <1>4 DEF LoadPasswords
<1>5. \A id \in DOMAIN slots : slots[id] \in Slot
  BY DEF TypeOK
<1>6. ASSUME NEW id \in DOMAIN slots, CloseAllSessions(id) PROVE PinsSurviveRestart'
  BY <1>4, <1>5, <1>6 DEF CloseAllSessions, Slot
<1>7. ASSUME NEW s \in DOMAIN sessions, SessionStep(s) PROVE PinsSurviveRestart'
  <2>1. CASE CloseSession(s) \/ Logout(s)
             \/ \E role \in Roles, pin \in Pins : Login(s, role, pin)
    <3>1. /\ UNCHANGED pinFiles
          /\ \/ slots' = slots
             \/ \E who : slots' = [slots EXCEPT ![sessions[s].slot].login = who]
      <4>1. CASE CloseSession(s)
        BY <4>1 DEF CloseSession
      <4>2. CASE Logout(s)
        BY <4>2 DEF Logout
      <4>3. ASSUME NEW role \in Roles, NEW pin \in Pins, Login(s, role, pin)
            PROVE  /\ UNCHANGED pinFiles
                   /\ slots' = [slots EXCEPT ![sessions[s].slot].login = role]
        BY <4>3 DEF Login
      <4> QED BY <2>1, <4>1, <4>2, <4>3
    <3>2. DOMAIN slots' = DOMAIN slots
      BY <3>1
    <3>3. \A id \in DOMAIN slots : slots'[id].pins = slots[id].pins
      <4> SUFFICES ASSUME NEW id \in DOMAIN slots
                   PROVE  slots'[id].pins = slots[id].pins
        OBVIOUS
      <4>1. CASE slots' = slots
        BY <4>1
      <4>2. ASSUME NEW who, slots' = [slots EXCEPT ![sessions[s].slot].login = who]
            PROVE  slots'[id].pins = slots[id].pins
        <5>1. slots[id] \in Slot
          BY <1>5
        <5>2. \/ slots'[id] = slots[id]
              \/ slots'[id] = [slots[id] EXCEPT !.login = who]
          BY <4>2
        <5> QED BY <5>1, <5>2 DEF Slot
      <4> QED BY <3>1, <4>1, <4>2
    <3> QED BY <1>4, <3>1, <3>2, <3>3
  <2>2. CASE \/ \E pin \in Pins : InitPIN(s, pin)
             \/ \E old, new \in Pins : SetPIN(s, old, new)
    <3>1. PICK role \in Roles : \E pin \in Pins : StorePin(sessions[s].slot, role, pin)
      BY <2>2 DEF InitPIN, SetPIN, Roles
    <3>2. DOMAIN slots' = DOMAIN slots /\ sessions[s].slot \in DOMAIN slots
      BY <3>1, SessionType DEF StorePin
    <3> QED BY <3>1, <3>2, StorePinLoads
  <2> QED BY <1>7, <2>1, <2>2 DEF SessionStep
<1>8. ASSUME NEW s \in DOMAIN sessions, CreationStep(s) \/ ObjectStep(s)
      PROVE  UNCHANGED <<slots, pinFiles>>
  BY <1>8, CreationShape, ObjectShape, PinFilesKept
<1> QED BY <1>1, <1>2, <1>3, <1>6, <1>7, <1>8
        DEF Next, LibraryStep, OpenSession, vars

\* The PINs in memory are those the next start will read, as long as no PIN
\* starts with a byte order mark (StorePin against readPassword).
THEOREM PinsCorrect ==
    ASSUME \A pin \in Pins : pin.bom = FALSE
    PROVE  Spec => []PinsSurviveRestart
<1>1. Init => PinsSurviveRestart
  BY DEF Init, Empty, PinsSurviveRestart
<1>2. TypeOK /\ PinsSurviveRestart /\ [Next]_vars => PinsSurviveRestart'
  BY PinsStep
<1> QED BY <1>1, <1>2, TypeCorrect, PTL DEF Spec

\* A PIN file changes only for a read-write session of its slot, the officer's
\* only while he is logged in; the PIN in memory changes with it, and no other
\* PIN, no login and no session does.  A PIN that is set is never unset, so a
\* slot that demands a login goes on demanding it.
PinWrites(id, role) ==
    /\ id \in DOMAIN slots
    /\ \E s \in SessionsOn(id) : sessions[s].rw
    /\ role = "SO" => slots[id].login = "SO"
    /\ pinFiles'[id][role] # NoPin
    /\ pinFiles' = [pinFiles EXCEPT ![id][role] = pinFiles'[id][role]]
    /\ slots' = [slots EXCEPT ![id].pins[role] = pinFiles'[id][role]]
    /\ UNCHANGED <<sessions, objects, keyFiles>>

PinWritesAuthorised ==
    [][\A id \in SlotIds, role \in Roles :
           pinFiles'[id][role] # pinFiles[id][role] => PinWrites(id, role)]_vars

LEMMA StorePinWrites ==
    ASSUME TypeOK, NEW s \in DOMAIN sessions, sessions[s].rw,
           NEW who \in Roles, NEW pin \in Pins,
           StorePin(sessions[s].slot, who, pin),
           who = "SO" => SlotOf(s).login = "SO",
           UNCHANGED <<sessions, objects, keyFiles>>,
           NEW id \in SlotIds, NEW role \in Roles,
           pinFiles'[id][role] # pinFiles[id][role]
    PROVE  PinWrites(id, role)
<1>1. /\ sessions[s].slot \in SlotIds /\ sessions[s].slot \in DOMAIN slots
      /\ pin # NoPin
      /\ pinFiles \in [SlotIds -> [Roles -> Pins \cup {NoPin}]]
  BY SessionType, PinsAssumption DEF TypeOK, PinFiles
<1>2. pinFiles' = [pinFiles EXCEPT ![sessions[s].slot][who] = pin]
  BY DEF StorePin
<1>3. id = sessions[s].slot /\ role = who /\ pinFiles'[id][role] = pin
  <2>1. id = sessions[s].slot
    BY <1>1, <1>2
  <2>2. pinFiles'[id] = [pinFiles[id] EXCEPT ![who] = pin]
    BY <1>1, <1>2, <2>1
  <2>3. pinFiles[id] \in [Roles -> Pins \cup {NoPin}]
    BY <1>1
  <2> QED BY <2>1, <2>2, <2>3
<1>4. slots' = [slots EXCEPT ![id].pins[role] = pin]
  BY <1>3 DEF StorePin
<1>5. s \in SessionsOn(id)
  BY <1>3 DEF SessionsOn
<1> QED BY <1>1, <1>2, <1>3, <1>4, <1>5 DEF PinWrites, SlotOf

LEMMA PinWritesStep ==
    ASSUME TypeOK, [Next]_vars, NEW id \in SlotIds, NEW role \in Roles,
           pinFiles'[id][role] # pinFiles[id][role]
    PROVE  PinWrites(id, role)
<1>1. ~(UNCHANGED pinFiles)
  OBVIOUS
<1>2. ~LibraryStep /\ ~(UNCHANGED vars)
  BY <1>1 DEF LibraryStep, Initialize, Finalize, Restart, OpenSession,
              CloseAllSessions, vars
<1>3. PICK s \in DOMAIN sessions : SessionStep(s)
  BY <1>1, <1>2, PinFilesKept DEF Next
<1>4. \/ \E pin \in Pins : InitPIN(s, pin)
      \/ \E old, new \in Pins : SetPIN(s, old, new)
  BY <1>1, <1>3 DEF SessionStep, CloseSession, Login, Logout
<1>5. ASSUME NEW pin \in Pins, InitPIN(s, pin) PROVE PinWrites(id, role)
  <2>1. "USER" \in Roles /\ "USER" # "SO"
    BY DEF Roles
  <2> QED BY <1>5, <2>1, StorePinWrites DEF InitPIN
<1>6. ASSUME NEW old \in Pins, NEW new \in Pins, SetPIN(s, old, new)
      PROVE  PinWrites(id, role)
  <2> DEFINE who == IF SlotOf(s).login = "SO" THEN "SO" ELSE "USER"
  <2>1. who \in Roles /\ (who = "SO" => SlotOf(s).login = "SO")
    BY DEF Roles
  <2>2. /\ sessions[s].rw /\ StorePin(sessions[s].slot, who, new)
        /\ UNCHANGED <<sessions, objects, keyFiles>>
    BY <1>6 DEF SetPIN
  <2> HIDE DEF who
  <2> QED BY <2>1, <2>2, StorePinWrites
<1> QED BY <1>4, <1>5, <1>6

\* Who changes which PIN, and what changes with it (C_InitPIN and C_SetPIN), on
\* slots of either layout.
THEOREM PinWritesCorrect == Spec => PinWritesAuthorised
<1>1. TypeOK /\ [Next]_vars =>
          [\A id \in SlotIds, role \in Roles :
               pinFiles'[id][role] # pinFiles[id][role]
                   => PinWrites(id, role)]_vars
  BY PinWritesStep
<1> QED BY <1>1, TypeCorrect, PTL DEF Spec, PinWritesAuthorised

-----------------------------------------------------------------------------
(* What leaves the token.  A key that once was sensitive, or could not be  *)
(* extracted, still is: its policy is in its record, which no step         *)
(* loosens, whether or not the library runs.                               *)

PolicyOf(key) ==
    IF key.handle = 0 THEN keyFiles[key.path][key.class]
                      ELSE objects[key.handle].policy

SensitiveKept ==
    \A key \in sensitive : /\ Exists(key)
                           /\ key.handle # 0 => key = Key(key.handle)
                           /\ Value(key.class, PolicyOf(key), "SENSITIVE")

SealedKept ==
    \A key \in sealed : /\ Exists(key)
                        /\ key.handle # 0 => key = Key(key.handle)
                        /\ ~Value(key.class, PolicyOf(key), "EXTRACTABLE")

KeysRecorded ==
    \A h \in DOMAIN objects : \A key : key = Key(h) =>
        /\ Exists(key)
        /\ key.handle # 0 => key = Key(key.handle)
        /\ key.class = objects[h].class
        /\ PolicyOf(key) = objects[h].policy

\* A key that an object in memory has is recorded with the policy of the object.
LEMMA KeyOfObject == TypeOK /\ Mirror => KeysRecorded
<1> SUFFICES ASSUME TypeOK, Mirror, NEW h \in DOMAIN objects,
                    NEW key, key = Key(h)
             PROVE  /\ Exists(key)
                    /\ key.handle # 0 => key = Key(key.handle)
                    /\ key.class = objects[h].class
                    /\ PolicyOf(key) = objects[h].policy
  BY DEF KeysRecorded
<1>1. initialized /\ h # 0
  BY Named, BasicTypes
<1>2. CASE objects[h].owner = 0
  BY <1>1, <1>2 DEF Mirror, TokensOnDisk, Exists, Key, PolicyOf
<1>3. CASE objects[h].owner # 0
  BY <1>1, <1>3 DEF Exists, Key, PolicyOf
<1> QED BY <1>2, <1>3

\* An object never changes its class, its owner or its place.
LEMMA KeyKept ==
    ASSUME Inv, [Next]_vars, NEW h \in DOMAIN objects, h \in DOMAIN objects'
    PROVE  Key(h)' = Key(h)
<1>0. TypeOK /\ initialized
  BY Named DEF Inv
<1>1. ASSUME objects'[h] = objects[h]
      PROVE  Key(h)' = Key(h)
  BY <1>1 DEF Key
<1>2. CASE UNCHANGED vars
  BY <1>1, <1>2 DEF vars
<1>3. CASE LibraryStep
  <2>1. CASE Initialize \/ Finalize \/ Restart
    BY <1>0, <2>1 DEF Initialize, Finalize, Restart, ClearRegistries, Empty
  <2>2. ASSUME NEW id \in DOMAIN slots, CloseAllSessions(id)
        PROVE  objects'[h] = objects[h]
    <3>1. PICK K : objects' = Erase(objects, K)
      BY <2>2 DEF CloseAllSessions
    <3> QED BY <3>1 DEF Erase, Restrict
  <2>3. ASSUME NEW id \in DOMAIN slots, NEW rw \in BOOLEAN, OpenSession(id, rw)
        PROVE  objects'[h] = objects[h]
    BY <2>3 DEF OpenSession
  <2> QED BY <1>1, <1>3, <2>1, <2>2, <2>3 DEF LibraryStep
<1>4. ASSUME NEW s \in DOMAIN sessions, SessionStep(s)
      PROVE  objects'[h] = objects[h]
  BY <1>4 DEF SessionStep, CloseSession, Login, Logout, InitPIN, SetPIN, Erase, Restrict
<1>5. ASSUME NEW s \in DOMAIN sessions, CreationStep(s)
      PROVE  objects'[h] = objects[h]
  <2>1. h < nextObject /\ h \in Nat /\ nextObject \in Nat
    BY <1>0, BasicTypes DEF Inv, HandlesFresh
  <2>2. objects'[h] = objects[h] \/ nextObject <= h
    BY <1>0, <1>5, CreationShape
  <2> QED BY <2>1, <2>2
<1>6. ASSUME NEW s \in DOMAIN sessions, ObjectStep(s)
      PROVE  Key(h)' = Key(h)
  <2>1. ASSUME NEW k \in DOMAIN objects, NEW t \in Updates, SetAttributeValue(s, k, t)
        PROVE  Key(h)' = Key(h)
    <3>1. CASE h # k
      BY <1>1, <2>1, <3>1 DEF SetAttributeValue
    <3>2. CASE h = k
      <4>1. objects[h] \in Object
        BY <1>0, ObjectType
      <4> QED BY <2>1, <3>2, <4>1 DEF SetAttributeValue, Object, Key
    <3> QED BY <3>1, <3>2
  <2>2. ASSUME NEW k \in DOMAIN objects, DestroyObject(s, k)
        PROVE  objects'[h] = objects[h]
    BY <2>2 DEF DestroyObject, Erase, Restrict
  <2>3. \/ UNCHANGED objects
        \/ \E k \in DOMAIN objects, t \in Updates : SetAttributeValue(s, k, t)
        \/ \E k \in DOMAIN objects : DestroyObject(s, k)
    BY <1>6 DEF ObjectStep, ManagementStep, OperationStep, FindObjectsInit,
       FindObjects, FindObjectsFinal, OperationInit, OperationEnd
  <2> QED BY <1>1, <2>1, <2>2, <2>3
<1> QED BY <1>1, <1>2, <1>3, <1>4, <1>5, <1>6 DEF Next

\* The policy of a key that goes on existing is not loosened.
LEMMA KeyNeverLooser ==
    ASSUME Inv, Mirror, [Next]_vars,
           NEW key, Exists(key), Exists(key)',
           key.handle # 0 => key = Key(key.handle)
    PROVE  /\ key.handle # 0 => key = Key(key.handle)'
           /\ NeverLooser(key.class, PolicyOf(key), PolicyOf(key)')
<1>1. CASE key.handle = 0
  <2>1. /\ key.path \in DOMAIN keyFiles /\ key.path \in DOMAIN keyFiles'
        /\ key.class \in DOMAIN keyFiles[key.path]
    BY <1>1 DEF Exists
  <2> QED BY <1>1, <2>1, FilesNeverLooser DEF PolicyOf
<1>2. CASE key.handle # 0
  <2>1. key.handle \in DOMAIN objects /\ key.handle \in DOMAIN objects'
    BY <1>2 DEF Exists
  <2>2. Key(key.handle)' = key
    BY <1>2, <2>1, KeyKept
  <2>3. objects[key.handle].class = key.class
    BY <1>2 DEF Key
  <2> QED BY <1>2, <2>1, <2>2, <2>3, ObjectsNeverLooser DEF PolicyOf
<1> QED BY <1>1, <1>2

LEMMA HistoryStep ==
    ASSUME Inv, Mirror, (Inv /\ Mirror)', SensitiveKept, SealedKept,
           [Next]_vars, Remember
    PROVE  (SensitiveKept /\ SealedKept)'
<1>1. KeysRecorded'
  <2>1. TypeOK' /\ Mirror'
    BY DEF Inv
  <2> QED BY <2>1, KeyOfObject, PTL
<1>2. SensitiveKept'
  <2> SUFFICES ASSUME NEW key \in sensitive'
               PROVE  /\ Exists(key)'
                      /\ key.handle # 0 => key = Key(key.handle)'
                      /\ Value(key.class, PolicyOf(key)', "SENSITIVE")
    BY DEF SensitiveKept
  <2>1. CASE key \in sensitive /\ Exists(key)'
    BY <2>1, KeyNeverLooser DEF SensitiveKept, NeverLooser
  <2>2. CASE key \in SensitiveKeys'
    <3>1. PICK h \in DOMAIN objects' : /\ key = Key(h)'
                                       /\ PolicyValue(objects'[h], "SENSITIVE")
      BY <2>2 DEF SensitiveKeys
    <3> QED BY <1>1, <3>1 DEF KeysRecorded, PolicyValue
  <2> QED BY <2>1, <2>2 DEF Remember
<1>3. SealedKept'
  <2> SUFFICES ASSUME NEW key \in sealed'
               PROVE  /\ Exists(key)'
                      /\ key.handle # 0 => key = Key(key.handle)'
                      /\ ~Value(key.class, PolicyOf(key)', "EXTRACTABLE")
    BY DEF SealedKept
  <2>1. CASE key \in sealed /\ Exists(key)'
    BY <2>1, KeyNeverLooser DEF SealedKept, NeverLooser
  <2>2. CASE key \in SealedKeys'
    <3>1. PICK h \in DOMAIN objects' : /\ key = Key(h)'
                                       /\ ~PolicyValue(objects'[h], "EXTRACTABLE")
      BY <2>2 DEF SealedKeys
    <3> QED BY <1>1, <3>1 DEF KeysRecorded, PolicyValue
  <2> QED BY <2>1, <2>2 DEF Remember
<1> QED BY <1>2, <1>3

\* A closed value is refused and not filled in, before or after another
\* attribute that can be read (readAttributes).
LEMMA ClosedAnswer ==
    ASSUME NEW s, NEW h, objects[h].class = "secret", ~ValueReadable(objects[h]),
           NEW value \in ValueQueries, NEW other \in Query,
           NEW queries \in {<<value, other>>, <<other, value>>}
    PROVE  LET answer == GetAttributeValue(s, h, "AES", queries)
           IN  /\ answer.code # "OK"
               /\ \A i \in DOMAIN answer.entries :
                      queries[i] = value => ~answer.entries[i].filled
<1> DEFINE answer == ReadAttributes(objects[h], "AES", queries)
           entries == [i \in DOMAIN queries |->
                           ReadAttribute(objects[h], "AES", queries[i])]
           failures == {i \in DOMAIN entries : entries[i].code # "OK"}
<1>1. value.type = "VALUE"
  BY DEF ValueQueries, Query
<1>2. /\ ReadAttribute(objects[h], "AES", value).code = "ATTRIBUTE_SENSITIVE"
      /\ ~ReadAttribute(objects[h], "AES", value).filled
  BY <1>1 DEF ReadAttribute, ReadValue, Invalid
<1>3. DOMAIN queries = 1..2 /\ \E i \in 1..2 : queries[i] = value
  OBVIOUS
<1>4. failures # {} /\ failures \subseteq 1..2
  BY <1>2, <1>3
<1>5. Max(failures) \in failures
  <2>1. \E x \in failures : \A y \in failures : x >= y
    <3>1. CASE 2 \in failures
      BY <1>4, <3>1
    <3>2. CASE 2 \notin failures
      BY <1>4, <3>2
    <3> QED BY <3>1, <3>2
  <2> HIDE DEF failures
  <2> QED BY <2>1 DEF Max
<1>6. answer.code # "OK" /\ answer.entries = entries
  BY <1>4, <1>5 DEF ReadAttributes
<1>7. \A i \in DOMAIN entries : queries[i] = value => ~entries[i].filled
  BY <1>2
<1> QED BY <1>6, <1>7 DEF GetAttributeValue

\* The inductive invariant of the histories, on top of that of the registry.
THEOREM ReadingInductive ==
    ReadingSpec => [](Inv /\ Mirror /\ SensitiveKept /\ SealedKept)
<1>1. ReadingInit => Inv /\ Mirror /\ SensitiveKept /\ SealedKept
  BY InitInv DEF ReadingInit, Init, Mirror, SensitiveKept, SealedKept
<1>2. Inv /\ Mirror /\ SensitiveKept /\ SealedKept
      /\ [ReadingNext]_<<vars, history>>
          => (Inv /\ Mirror /\ SensitiveKept /\ SealedKept)'
  <2> SUFFICES ASSUME Inv, Mirror, SensitiveKept, SealedKept,
                      [ReadingNext]_<<vars, history>>
               PROVE  (Inv /\ Mirror /\ SensitiveKept /\ SealedKept)'
    OBVIOUS
  <2>1. [Next]_vars
    BY DEF ReadingNext
  <2>2. (Inv /\ Mirror)'
    BY <2>1, NextInv, NextMirror
  <2>3. CASE ReadingNext
    BY <2>1, <2>2, <2>3, HistoryStep DEF ReadingNext
  <2>4. CASE UNCHANGED <<vars, history>>
    BY <2>2, <2>4 DEF vars, history, SensitiveKept, SealedKept, Exists, Key, PolicyOf
  <2> QED BY <2>2, <2>3, <2>4
<1> QED BY <1>1, <1>2, PTL DEF ReadingSpec

\* The value of a secret key never leaves in clear once the key has been
\* sensitive or not extractable, nor wrapped once it has been not extractable,
\* over updates, sessions and restarts (readAttributes, WrapKey).
THEOREM ClosedCorrect == ReadingSpec => []ClosedKeysKept
<1>1. ASSUME Inv, Mirror, SensitiveKept, SealedKept
      PROVE  ClosedKeysKept
  <2>0. TypeOK
    BY <1>1 DEF Inv
  <2> SUFFICES ASSUME NEW s \in DOMAIN sessions, NEW h \in DOMAIN objects
               PROVE  /\ objects[h].class = "secret"
                         /\ Key(h) \in sensitive \cup sealed
                             => ~ValueReadable(objects[h])
                      /\ Key(h) \in sealed
                             => \A wrapping \in DOMAIN objects :
                                    ~Wraps(s, wrapping, h)
    BY ClosedAnswer DEF ClosedKeysKept
  <2>1. Key(h) \in sensitive => PolicyValue(objects[h], "SENSITIVE")
    BY <1>1, <2>0, KeyOfObject DEF KeysRecorded, SensitiveKept, PolicyValue
  <2>2. Key(h) \in sealed => ~PolicyValue(objects[h], "EXTRACTABLE")
    BY <1>1, <2>0, KeyOfObject DEF KeysRecorded, SealedKept, PolicyValue
  <2> QED BY <2>1, <2>2 DEF ValueReadable, Wraps, MayWrap
<1>2. Inv /\ Mirror /\ SensitiveKept /\ SealedKept => ClosedKeysKept
  BY <1>1
<1> QED BY <1>2, ReadingInductive, PTL
=============================================================================
