------------------------------- MODULE Signing -------------------------------
(***************************************************************************)
(* Signature operations in full (src/src/crypto/signature.cpp): what a     *)
(* session collects between C_SignInit and the call that answers, which    *)
(* calls consume the operation, and what is tested again before the key is *)
(* used.  Runtime keeps of all this the key and the direction only; every  *)
(* other call is the action of Runtime.                                    *)
(*                                                                         *)
(* The bytes of a client's data are left out: a piece is a name and a size.*)
(* An allocation that fails leaves the operation as it was, a stuttering   *)
(* step.                                                                   *)
(***************************************************************************)
EXTENDS Runtime, Sequences, Mechanisms, Lengths

CONSTANTS
    Pieces,            \* what a client may pass as data
    Capacities,        \* sizes of its signature buffers, NoBuffer for NULL
    ClientMechanisms,  \* mechanisms that clients ask for
    PssParameters,     \* their CK_RSA_PKCS_PSS_PARAMS
    FileKeyType,       \* type of the key pair that a file holds
    SessionKeyType,    \* type of the key pairs that are session objects
    KeyBits            \* EVP_PKEY_get_bits for a type of key

NoBuffer == -1
NoParameter == [hash |-> "none", salt |-> 0]

ASSUME SigningAssumption ==
    /\ Pieces \subseteq [name : STRING, size : 0..MaxUlong]
    /\ Capacities \subseteq 0..MaxUlong \cup {NoBuffer}
    /\ ClientMechanisms \subseteq SupportedMechanisms
    /\ PssParameters \subseteq [hash : Hashes, salt : 0..MaxUlong]
    /\ FileKeyType \in [Files -> KeyPairTypes]
    /\ SessionKeyType \in KeyPairTypes
    /\ KeyBits \in [KeyPairTypes -> Nat]

VARIABLES
    work,      \* session -> the rest of its Operation
    accepted,  \* ghost: pieces accepted since the last Init (or C_Logout)
    answer     \* ghost: what the last call of an operation answered

signingVars == <<vars, work, accepted, answer>>

\* Operation::mechanism, pss, bufferedData and its size
NoWork == [mechanism |-> "none", hash |-> "none", data |-> <<>>, size |-> 0]

Work ==
    [mechanism : ClientMechanisms \cup {"none"}, hash : Hashes \cup {"none"},
     data : Seq(Pieces), size : Nat]

Results == {"length", "too_small", "refused", "failed", "signature", "verdict"}
Calls == {"update", "single", "final"}

Answer ==
    [session : SessionHandles, call : Calls, result : Results, data : Seq(Pieces)]
NoAnswer == [session |-> 0]

\* The bytes of a piece, none when its length is zero.
Bytes(piece) == IF piece.size = 0 THEN <<>> ELSE <<piece>>

KeyType(object) ==
    IF object.path = NoPath THEN SessionKeyType ELSE FileKeyType[object.path.file]

\* requiredLength: r || s for EC, the size of the modulus or of the scheme.
SignatureSize(type) ==
    IF type = "EC" THEN 2 * ((KeyBits[type] + 7) \div 8)
                   ELSE (KeyBits[type] + 7) \div 8

-----------------------------------------------------------------------------
(* SignInit, VerifyInit                                                    *)

ParameterFits(mechanism, parameter, type) ==
    IF IsRsaPss(mechanism)
    THEN /\ parameter # NoParameter
         /\ ExpectedHash(mechanism, parameter.hash) = parameter.hash
         /\ SaltFits(KeyBits[type], HashLength(parameter.hash), parameter.salt)
    ELSE parameter = NoParameter

\* Mutant of Started: the data of an operation that ended is still there.
StartedOver(old, mechanism, parameter) ==
    [old EXCEPT !.mechanism = mechanism, !.hash = parameter.hash]

\* A whole new Operation: the calls that end one only clear its active flag.
Started(old, mechanism, parameter) ==
    [mechanism |-> mechanism, hash |-> parameter.hash, data |-> <<>>, size |-> 0]

\* Mutant of Startable: an active operation is replaced.
StartableAgain(s, h, verify) ==
    LET idle == [sessions EXCEPT ![s].op = NoOperation] IN
    /\ h \in Visible(s)
    /\ objects[h].class \in IF verify THEN {"private", "public"} ELSE {"private"}
    /\ Accessible(s, h)
    /\ sessions' = [idle EXCEPT ![s].op =
           [active |-> TRUE, verify |-> verify, key |-> h]]
    /\ UNCHANGED <<initialized, slots, objects, nextSession, nextObject,
                   pinFiles, keyFiles>>

\* What initializeSignature has in common with Runtime.
Startable(s, h, verify) == OperationInit(s, h, verify)

InitializeSignature(s, h, verify, mechanism, parameter) ==
    /\ Startable(s, h, verify)
    /\ mechanism \in SignatureMechanisms(KeyType(objects[h]))
    /\ ParameterFits(mechanism, parameter, KeyType(objects[h]))
    /\ work' = [work EXCEPT ![s] = Started(work[s], mechanism, parameter)]
    /\ accepted' = [accepted EXCEPT ![s] = <<>>]
    /\ answer' = NoAnswer

-----------------------------------------------------------------------------
(* SignUpdate, VerifyUpdate                                                *)

\* appendSignatureData
Collects(s, piece) ==
    /\ ~IsRaw(work[s].mechanism)
    /\ ~OverLimit(work[s].size, piece.size)

UpdateAccepted(s, piece) ==
    /\ sessions[s].op.active
    /\ Collects(s, piece)
    /\ work' = [work EXCEPT ![s].data = @ \o Bytes(piece),
                            ![s].size = @ + piece.size]
    /\ accepted' = [accepted EXCEPT ![s] = @ \o Bytes(piece)]
    /\ answer' = NoAnswer
    /\ UNCHANGED vars

UpdateRefused(s, piece) ==
    /\ sessions[s].op.active
    /\ ~Collects(s, piece)
    /\ OperationEnd(s)
    /\ answer' = [session |-> s, call |-> "update", result |-> "failed",
                  data |-> <<>>]
    /\ UNCHANGED <<work, accepted>>

-----------------------------------------------------------------------------
(* Sign, SignFinal, Verify, VerifyFinal                                    *)

\* Mutant of KeyReady: what C_SignInit tested is not tested again.
KeyStillThere(s) ==
    LET key == sessions[s].op.key IN
    /\ key \in Visible(s)
    /\ objects[key].class \in {"private", "public"}

\* The key may have been destroyed, or forbidden, or the slot may have begun to
\* demand a login, since the operation was started.
KeyReady(s) ==
    LET key == sessions[s].op.key IN
    /\ key \in Visible(s)
    /\ objects[key].class \in {"private", "public"}
    /\ Accessible(s, key)
    /\ PolicyValue(objects[key], IF sessions[s].op.verify THEN "VERIFY" ELSE "SIGN")

RequiredSize(s) == SignatureSize(KeyType(objects[sessions[s].op.key]))

\* The mechanisms that take prepared data know how long it may be.
DataFits(s, size) ==
    /\ work[s].mechanism = "RSA_PKCS" => size <= RequiredSize(s) - 11
    /\ work[s].mechanism = "RSA_PKCS_PSS" => size = HashLength(work[s].hash)

\* executeSignature, in the order of its tests; OpenSSL may fail as well.
SignResults(s, size, capacity) ==
    IF ~KeyReady(s) THEN {"refused"}
    ELSE IF capacity = NoBuffer THEN {"length"}
    ELSE IF capacity < RequiredSize(s) THEN {"too_small"}
    ELSE IF DataFits(s, size) THEN {"signature", "failed"} ELSE {"failed"}

VerifyResults(s, size, capacity) ==
    IF ~KeyReady(s) THEN {"refused"}
    ELSE IF \/ capacity = NoBuffer
            \/ /\ KeyType(objects[sessions[s].op.key]) = "EC"
               /\ capacity # RequiredSize(s)
         THEN {"failed"}
    ELSE IF DataFits(s, size) THEN {"verdict", "failed"} ELSE {"failed"}

\* Mutant of Consumes: a short buffer costs the operation.
ConsumesWithBuffer(capacity, result) == capacity # NoBuffer

\* A size query or a short buffer leaves the operation for a retry.
Consumes(capacity, result) == capacity # NoBuffer /\ result # "too_small"

SignCall(s, call, data, size, capacity) ==
    /\ sessions[s].op.active /\ ~sessions[s].op.verify
    /\ \E result \in SignResults(s, size, capacity) :
        /\ IF Consumes(capacity, result) THEN OperationEnd(s) ELSE UNCHANGED vars
        /\ answer' = [session |-> s, call |-> call, result |-> result,
                      data |-> data]
    /\ UNCHANGED <<work, accepted>>

VerifyCall(s, call, data, size, capacity) ==
    /\ sessions[s].op.active /\ sessions[s].op.verify
    /\ \E result \in VerifyResults(s, size, capacity) :
        answer' = [session |-> s, call |-> call, result |-> result,
                   data |-> data]
    /\ OperationEnd(s)
    /\ UNCHANGED <<work, accepted>>

\* The data of the call itself: what was collected before is not looked at.
Single(s, piece, capacity) ==
    \/ SignCall(s, "single", Bytes(piece), piece.size, capacity)
    \/ VerifyCall(s, "single", Bytes(piece), piece.size, capacity)

Final(s, capacity) ==
    \/ SignCall(s, "final", work[s].data, work[s].size, capacity)
    \/ VerifyCall(s, "final", work[s].data, work[s].size, capacity)

-----------------------------------------------------------------------------
\* A step of this client call only.
SigningStep(s) ==
    \/ \E h \in DOMAIN objects, verify \in BOOLEAN,
          mechanism \in ClientMechanisms,
          parameter \in PssParameters \cup {NoParameter} :
              InitializeSignature(s, h, verify, mechanism, parameter)
    \/ \E piece \in Pieces : UpdateAccepted(s, piece) \/ UpdateRefused(s, piece)
    \/ \E piece \in Pieces, capacity \in Capacities : Single(s, piece, capacity)
    \/ \E capacity \in Capacities : Final(s, capacity)

\* C_Logout gives every session of the slot a new Operation.
LogoutOn(id) == slots[id].login # "none" /\ slots'[id].login = "none"

KeepWork ==
    /\ work' = [s \in DOMAIN sessions' |->
           IF s \in DOMAIN sessions /\ ~LogoutOn(sessions[s].slot)
           THEN work[s] ELSE NoWork]
    /\ accepted' = [s \in DOMAIN sessions' |->
           IF s \in DOMAIN sessions /\ ~LogoutOn(sessions[s].slot)
           THEN accepted[s] ELSE <<>>]
    /\ answer' = NoAnswer

OtherStep ==
    /\ \/ LibraryStep
       \/ \E s \in DOMAIN sessions :
             SessionStep(s) \/ CreationStep(s) \/ ManagementStep(s)
    /\ KeepWork

SigningInit ==
    /\ Init
    /\ work = Empty
    /\ accepted = Empty
    /\ answer = NoAnswer

SigningNext == OtherStep \/ \E s \in DOMAIN sessions : SigningStep(s)

SigningSpec == SigningInit /\ [][SigningNext]_signingVars

-----------------------------------------------------------------------------
\* Every session has an Operation, and every variable its type.
SigningTypeOK ==
    /\ work \in [DOMAIN sessions -> Work]
    /\ accepted \in [DOMAIN sessions -> Seq(Pieces)]
    /\ answer \in Answer \cup {NoAnswer}

\* An operation never holds more than the limit, whatever the order and the
\* lengths of the updates: the test of appendSignatureData cannot be passed by
\* a length that makes a sum wrap.
BufferBounded == \A s \in DOMAIN sessions : work[s].size <= MaxMultipart

\* What C_SignFinal and C_VerifyFinal answer for is what the client was told is
\* accepted since its last Init, in that order: nothing of an earlier operation
\* of the session and nothing of a refused update.
FinalUsesAccepted ==
    [][/\ answer' # NoAnswer
       /\ answer'.call = "final"
       => answer'.data = accepted[answer'.session]]_signingVars

\* A key is used only while its object exists in the slot of the session,
\* permits the use and, when the slot demands a login now, the user is in:
\* the first PIN of a legacy slot, a logout or an update of the key between
\* Init and the answer all count.
UseAuthorised ==
    [][/\ answer' # NoAnswer
       /\ answer'.result \in {"signature", "verdict", "length", "too_small"}
       => LET s == answer'.session
              key == sessions[s].op.key
          IN  /\ key \in DOMAIN objects
              /\ objects[key].slot = sessions[s].slot
              /\ RequiresLogin(SlotOf(s)) /\ Protected(objects[key])
                     => SlotOf(s).login = "USER"
              /\ PolicyValue(objects[key],
                             IF sessions[s].op.verify THEN "VERIFY" ELSE "SIGN")]_signingVars

\* Seen without the data, this is the token that Runtime describes.
ImplementsRuntime == Spec

\* An operation disappears only in an answer that its client can tell from a
\* size query, or with the login or the session it belongs to: a NULL or short
\* signature buffer does not consume it.
LostOnlyByAnswer ==
    [][\A s \in DOMAIN sessions \cap DOMAIN sessions' :
          sessions[s].op.active /\ ~sessions'[s].op.active =>
              \/ /\ answer' # NoAnswer /\ answer'.session = s
                 /\ answer'.result \notin {"length", "too_small"}
              \/ LogoutOn(sessions[s].slot)]_signingVars
=============================================================================
