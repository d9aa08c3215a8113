---------------------------- MODULE SigningProofs ----------------------------
(***************************************************************************)
(* Theorems about Signing.  A step of Signing is a step of Runtime or      *)
(* leaves it alone, so what RuntimeProofs proves holds here too; the rest  *)
(* is about the data of an operation and the answer of a call.             *)
(***************************************************************************)
EXTENDS Signing, RuntimeProofs, LengthsProofs

-----------------------------------------------------------------------------
(* Signing implements Runtime.                                             *)

\* A step of a signature call is the start or the end of an operation for
\* Runtime, or nothing.
LEMMA SigningStepMaps ==
    ASSUME NEW s \in DOMAIN sessions, SigningStep(s)
    PROVE  OperationStep(s) \/ UNCHANGED vars
<1>1. CASE \E h \in DOMAIN objects, verify \in BOOLEAN,
              mechanism \in ClientMechanisms,
              parameter \in PssParameters \cup {NoParameter} :
                  InitializeSignature(s, h, verify, mechanism, parameter)
  BY <1>1 DEF InitializeSignature, Startable, OperationStep
<1>2. CASE \E piece \in Pieces : UpdateAccepted(s, piece) \/ UpdateRefused(s, piece)
  BY <1>2 DEF UpdateAccepted, UpdateRefused, OperationStep
<1>3. ASSUME NEW call, NEW data, NEW size, NEW capacity,
             SignCall(s, call, data, size, capacity)
      PROVE  OperationEnd(s) \/ UNCHANGED vars
  BY <1>3 DEF SignCall
<1>4. ASSUME NEW call, NEW data, NEW size, NEW capacity,
             VerifyCall(s, call, data, size, capacity)
      PROVE  OperationEnd(s)
  BY <1>4 DEF VerifyCall
<1>5. CASE \E piece \in Pieces, capacity \in Capacities : Single(s, piece, capacity)
  BY <1>3, <1>4, <1>5 DEF Single, OperationStep
<1>6. CASE \E capacity \in Capacities : Final(s, capacity)
  BY <1>3, <1>4, <1>6 DEF Final, OperationStep
<1> QED BY <1>1, <1>2, <1>5, <1>6 DEF SigningStep

LEMMA SigningNextMaps ==
    ASSUME [SigningNext]_signingVars
    PROVE  [Next]_vars
<1>1. CASE OtherStep
  BY <1>1 DEF OtherStep, Next, ObjectStep
<1>2. CASE \E s \in DOMAIN sessions : SigningStep(s)
  BY <1>2, SigningStepMaps DEF Next, ObjectStep
<1>3. CASE UNCHANGED signingVars
  BY <1>3 DEF signingVars
<1> QED BY <1>1, <1>2, <1>3 DEF SigningNext

\* Seen without the data and the answers, every behaviour of Signing is one of
\* Runtime: initializeSignature and executeSignature start and end operations
\* as Runtime says, and the guards they add only refuse more.
THEOREM RuntimeImplemented == SigningSpec => ImplementsRuntime
<1>1. SigningInit => Init
  BY DEF SigningInit
<1>2. [SigningNext]_signingVars => [Next]_vars
  BY SigningNextMaps
<1> QED BY <1>1, <1>2, PTL DEF SigningSpec, Spec, ImplementsRuntime

\* On a slot that demands a PIN no signature operation on a protected key
\* outlives the login, whatever the data and the order of the calls
\* (Logout, executeSignature).
THEOREM SigningSecretsCorrect == SigningSpec => []SecretsNeedLogin
BY RuntimeImplemented, SecretsCorrect, PTL DEF ImplementsRuntime

-----------------------------------------------------------------------------
(* The data of an operation.                                               *)

\* The data of an operation is what its client was told is accepted.
Collected == \A s \in DOMAIN sessions : work[s].data = accepted[s]

SigningInv == SigningTypeOK /\ BufferBounded /\ Collected

LEMMA NoWorkType == NoWork \in Work /\ NoWork.size = 0
BY DEF NoWork, Work

LEMMA BytesType ==
    ASSUME NEW piece \in Pieces
    PROVE  Bytes(piece) \in Seq(Pieces) /\ piece.size \in 0..MaxUlong
BY SigningAssumption DEF Bytes

LEMMA AnswerType ==
    ASSUME TypeOK, NEW s \in DOMAIN sessions, NEW call \in Calls,
           NEW result \in Results, NEW data \in Seq(Pieces)
    PROVE  [session |-> s, call |-> call, result |-> result, data |-> data]
               \in Answer
BY SessionType DEF Answer

LEMMA InitializeSignatureInv ==
    ASSUME TypeOK, SigningInv, NEW s \in DOMAIN sessions,
           NEW h, NEW verify, NEW mechanism \in ClientMechanisms,
           NEW parameter \in PssParameters \cup {NoParameter},
           InitializeSignature(s, h, verify, mechanism, parameter)
    PROVE  SigningInv'
<1> DEFINE new == [mechanism |-> mechanism, hash |-> parameter.hash,
                   data |-> <<>>, size |-> 0]
<1>1. parameter.hash \in Hashes \cup {"none"}
  BY SigningAssumption DEF NoParameter
<1>2. new \in Work /\ new.size = 0 /\ new.data = <<>>
  BY <1>1 DEF Work
<1>3. /\ work' = [work EXCEPT ![s] = new]
      /\ accepted' = [accepted EXCEPT ![s] = <<>>]
      /\ answer' = NoAnswer
  BY DEF InitializeSignature, Started
<1>4. /\ DOMAIN sessions' = DOMAIN sessions
      /\ \A x \in DOMAIN sessions \ {s} : sessions'[x] = sessions[x]
  BY DEF InitializeSignature, Startable, OperationInit
<1>5. <<>> \in Seq(Pieces)
  OBVIOUS
<1>6. SigningTypeOK'
  BY <1>2, <1>3, <1>4, <1>5 DEF SigningInv, SigningTypeOK
<1>7. BufferBounded'
  BY <1>2, <1>3, <1>4, LengthsAssumption
     DEF SigningInv, SigningTypeOK, BufferBounded
<1>8. Collected'
  BY <1>2, <1>3, <1>4 DEF SigningInv, SigningTypeOK, Collected
<1> QED BY <1>6, <1>7, <1>8 DEF SigningInv

LEMMA UpdateAcceptedInv ==
    ASSUME TypeOK, SigningInv, NEW s \in DOMAIN sessions, NEW piece \in Pieces,
           UpdateAccepted(s, piece)
    PROVE  SigningInv'
<1> DEFINE data == work[s].data \o Bytes(piece)
           size == work[s].size + piece.size
<1>1. work[s] \in Work /\ accepted[s] \in Seq(Pieces)
  BY DEF SigningInv, SigningTypeOK
<1>2. data \in Seq(Pieces) /\ accepted[s] \o Bytes(piece) \in Seq(Pieces)
  BY <1>1, BytesType DEF Work
<1>3. work[s].size \in 0..MaxMultipart
  BY <1>1, LengthsAssumption DEF SigningInv, BufferBounded, Work
<1>4. size \in Nat /\ size <= MaxMultipart
  BY <1>3, BytesType, LimitExact, LengthsAssumption DEF UpdateAccepted, Collects
<1>5. work' = [work EXCEPT ![s] = [work[s] EXCEPT !.data = data, !.size = size]]
  BY <1>1 DEF UpdateAccepted, SigningInv, SigningTypeOK
<1>6. [work[s] EXCEPT !.data = data, !.size = size] \in Work
  BY <1>1, <1>2, <1>4 DEF Work
<1>7. sessions' = sessions /\ answer' = NoAnswer
      /\ accepted' = [accepted EXCEPT ![s] = @ \o Bytes(piece)]
  BY DEF UpdateAccepted, vars
<1>8. SigningTypeOK'
  BY <1>2, <1>5, <1>6, <1>7 DEF SigningInv, SigningTypeOK
<1>9. /\ work'[s].size = size /\ work'[s].data = data
      /\ \A x \in DOMAIN sessions \ {s} : work'[x] = work[x]
  BY <1>1, <1>5 DEF SigningInv, SigningTypeOK, Work
<1>10. BufferBounded'
  BY <1>4, <1>7, <1>9 DEF SigningInv, BufferBounded
<1>11. Collected'
  BY <1>7, <1>9 DEF SigningInv, SigningTypeOK, Collected
<1> QED BY <1>8, <1>10, <1>11 DEF SigningInv

\* A step that gives an answer and at most ends the operation.
LEMMA AnswerInv ==
    ASSUME TypeOK, SigningInv, NEW s \in DOMAIN sessions,
           OperationEnd(s) \/ UNCHANGED vars,
           answer' \in Answer, UNCHANGED <<work, accepted>>
    PROVE  SigningInv'
<1>1. /\ DOMAIN sessions' = DOMAIN sessions
      /\ \A x \in DOMAIN sessions : sessions'[x].op.active => sessions[x].op.active
  BY DEF OperationEnd, NoOperation, vars, TypeOK, Session
<1>2. work' = work /\ accepted' = accepted
  OBVIOUS
<1>3. SigningTypeOK'
  BY <1>1, <1>2 DEF SigningInv, SigningTypeOK
<1>4. BufferBounded'
  BY <1>1, <1>2 DEF SigningInv, BufferBounded
<1>5. Collected'
  BY <1>1, <1>2 DEF SigningInv, Collected
<1> QED BY <1>3, <1>4, <1>5 DEF SigningInv

LEMMA CallInv ==
    ASSUME TypeOK, SigningInv, NEW s \in DOMAIN sessions,
           NEW call \in {"single", "final"}, NEW data \in Seq(Pieces),
           NEW size, NEW capacity,
           \/ SignCall(s, call, data, size, capacity)
           \/ VerifyCall(s, call, data, size, capacity)
    PROVE  SigningInv'
<1>1. CASE SignCall(s, call, data, size, capacity)
  <2>1. PICK result \in SignResults(s, size, capacity) :
           /\ IF Consumes(capacity, result) THEN OperationEnd(s) ELSE UNCHANGED vars
           /\ answer' = [session |-> s, call |-> call, result |-> result,
                         data |-> data]
    BY <1>1 DEF SignCall
  <2>2. result \in Results
    BY DEF SignResults, Results
  <2>3. answer' \in Answer
    BY <2>1, <2>2, AnswerType DEF Calls
  <2> QED BY <1>1, <2>1, <2>3, AnswerInv DEF SignCall
<1>2. CASE VerifyCall(s, call, data, size, capacity)
  <2>1. PICK result \in VerifyResults(s, size, capacity) :
           answer' = [session |-> s, call |-> call, result |-> result,
                      data |-> data]
    BY <1>2 DEF VerifyCall
  <2>2. result \in Results
    BY DEF VerifyResults, Results
  <2>3. answer' \in Answer
    BY <2>1, <2>2, AnswerType DEF Calls
  <2> QED BY <1>2, <2>3, AnswerInv DEF VerifyCall
<1> QED BY <1>1, <1>2

LEMMA SigningStepInv ==
    ASSUME TypeOK, SigningInv, NEW s \in DOMAIN sessions, SigningStep(s)
    PROVE  SigningInv'
<1>1. CASE \E h \in DOMAIN objects, verify \in BOOLEAN,
              mechanism \in ClientMechanisms,
              parameter \in PssParameters \cup {NoParameter} :
                  InitializeSignature(s, h, verify, mechanism, parameter)
  BY <1>1, InitializeSignatureInv
<1>2. CASE \E piece \in Pieces : UpdateAccepted(s, piece)
  BY <1>2, UpdateAcceptedInv
<1>3. CASE \E piece \in Pieces : UpdateRefused(s, piece)
  <2>1. [session |-> s, call |-> "update", result |-> "failed", data |-> <<>>]
            \in Answer
    <3>1. <<>> \in Seq(Pieces) /\ "update" \in Calls /\ "failed" \in Results
      BY DEF Calls, Results
    <3> QED BY <3>1, AnswerType
  <2> QED BY <1>3, <2>1, AnswerInv DEF UpdateRefused
<1>4. CASE \E piece \in Pieces, capacity \in Capacities : Single(s, piece, capacity)
  BY <1>4, BytesType, CallInv DEF Single
<1>5. CASE \E capacity \in Capacities : Final(s, capacity)
  <2>1. work[s].data \in Seq(Pieces)
    BY DEF SigningInv, SigningTypeOK, Work
  <2> QED BY <1>5, <2>1, CallInv DEF Final
<1> QED BY <1>1, <1>2, <1>3, <1>4, <1>5 DEF SigningStep

\* Any other call: new sessions have an empty operation, and those a logout
\* clears too.
LEMMA OtherStepInv ==
    ASSUME SigningInv, OtherStep
    PROVE  SigningInv'
<1>1. /\ DOMAIN work' = DOMAIN sessions' /\ DOMAIN accepted' = DOMAIN sessions'
      /\ \A s \in DOMAIN sessions' :
            \/ /\ s \in DOMAIN sessions
               /\ work'[s] = work[s] /\ accepted'[s] = accepted[s]
            \/ work'[s] = NoWork /\ accepted'[s] = <<>>
      /\ work' = [s \in DOMAIN sessions' |-> work'[s]]
      /\ accepted' = [s \in DOMAIN sessions' |-> accepted'[s]]
      /\ answer' = NoAnswer
  BY DEF OtherStep, KeepWork
<1>2. NoWork.data = <<>> /\ <<>> \in Seq(Pieces)
  BY DEF NoWork
<1>3. SigningTypeOK'
  BY <1>1, <1>2, NoWorkType DEF SigningInv, SigningTypeOK
<1>4. BufferBounded'
  BY <1>1, NoWorkType, LengthsAssumption DEF SigningInv, BufferBounded
<1>5. Collected'
  BY <1>1, <1>2 DEF SigningInv, Collected
<1> QED BY <1>3, <1>4, <1>5 DEF SigningInv

LEMMA SigningNextInv ==
    ASSUME TypeOK, SigningInv, [SigningNext]_signingVars
    PROVE  SigningInv'
<1>1. CASE OtherStep
  BY <1>1, OtherStepInv
<1>2. CASE \E s \in DOMAIN sessions : SigningStep(s)
  BY <1>2, SigningStepInv
<1>3. CASE UNCHANGED signingVars
  BY <1>3 DEF signingVars, vars, SigningInv, SigningTypeOK, BufferBounded, Collected
<1> QED BY <1>1, <1>2, <1>3 DEF SigningNext

\* The inductive invariant: types, the limit and the data of an operation.
THEOREM SigningInductive == SigningSpec => [](TypeOK /\ SigningInv)
<1>1. SigningInit => SigningInv
  BY DEF SigningInit, Init, Empty, SigningInv, SigningTypeOK, BufferBounded,
         Collected
<1>2. SigningSpec => []TypeOK
  BY RuntimeImplemented, TypeCorrect, PTL DEF ImplementsRuntime
<1>3. TypeOK /\ SigningInv /\ [SigningNext]_signingVars => SigningInv'
  BY SigningNextInv
<1> QED BY <1>1, <1>2, <1>3, PTL DEF SigningSpec

\* Every session has an Operation of its own, and every variable its type.
THEOREM SigningTypeCorrect == SigningSpec => []SigningTypeOK
<1>1. SigningInv => SigningTypeOK
  BY DEF SigningInv
<1> QED BY <1>1, SigningInductive, PTL

\* The data collected by appendSignatureData never exceeds the limit, for any
\* width of CK_ULONG and any lengths of the updates.
THEOREM BufferCorrect == SigningSpec => []BufferBounded
<1>1. SigningInv => BufferBounded
  BY DEF SigningInv
<1> QED BY <1>1, SigningInductive, PTL

-----------------------------------------------------------------------------
(* The answers.                                                            *)

\* An answer comes from a call that uses the key, or refuses an update.
LEMMA AnswerShape ==
    ASSUME SigningNext, answer' # NoAnswer
    PROVE  \E s \in DOMAIN sessions :
              \/ answer' = [session |-> s, call |-> "update",
                            result |-> "failed", data |-> <<>>]
              \/ \E call, data, size, capacity :
                    /\ call \in {"single", "final"}
                    /\ call = "final" => data = work[s].data
                    /\ \/ SignCall(s, call, data, size, capacity)
                       \/ VerifyCall(s, call, data, size, capacity)
<1>1. ~OtherStep
  BY DEF OtherStep, KeepWork
<1>2. PICK s \in DOMAIN sessions : SigningStep(s)
  BY <1>1 DEF SigningNext
<1>3. ~\E h \in DOMAIN objects, verify \in BOOLEAN,
           mechanism \in ClientMechanisms,
           parameter \in PssParameters \cup {NoParameter} :
               InitializeSignature(s, h, verify, mechanism, parameter)
  BY DEF InitializeSignature
<1>4. CASE \E piece \in Pieces : UpdateAccepted(s, piece) \/ UpdateRefused(s, piece)
  BY <1>4 DEF UpdateAccepted, UpdateRefused
<1>5. CASE \E piece \in Pieces, capacity \in Capacities : Single(s, piece, capacity)
  <2>1. "single" \in {"single", "final"} /\ "single" # "final"
    OBVIOUS
  <2> QED BY <1>5, <2>1 DEF Single
<1>6. CASE \E capacity \in Capacities : Final(s, capacity)
  <2>1. "final" \in {"single", "final"}
    OBVIOUS
  <2> QED BY <1>6, <2>1 DEF Final
<1> QED BY <1>2, <1>3, <1>4, <1>5, <1>6 DEF SigningStep

\* What C_SignFinal and C_VerifyFinal answer for is what the client was told is
\* accepted since its last Init, for any data and any earlier operation.
THEOREM FinalCorrect == SigningSpec => FinalUsesAccepted
<1> DEFINE A == /\ answer' # NoAnswer
                /\ answer'.call = "final"
                => answer'.data = accepted[answer'.session]
<1>1. ASSUME SigningInv, SigningNext, answer' # NoAnswer, answer'.call = "final"
      PROVE  answer'.data = accepted[answer'.session]
  <2>1. PICK s \in DOMAIN sessions :
           \/ answer' = [session |-> s, call |-> "update",
                         result |-> "failed", data |-> <<>>]
           \/ \E call, data, size, capacity :
                 /\ call \in {"single", "final"}
                 /\ call = "final" => data = work[s].data
                 /\ \/ SignCall(s, call, data, size, capacity)
                    \/ VerifyCall(s, call, data, size, capacity)
    BY <1>1, AnswerShape
  <2>2. PICK call, data, size, capacity :
           /\ call \in {"single", "final"}
           /\ call = "final" => data = work[s].data
           /\ \/ SignCall(s, call, data, size, capacity)
              \/ VerifyCall(s, call, data, size, capacity)
    BY <1>1, <2>1
  <2>3. /\ answer'.session = s /\ answer'.call = call /\ answer'.data = data
    BY <2>2 DEF SignCall, VerifyCall
  <2> QED BY <1>1, <2>2, <2>3 DEF SigningInv, Collected
<1>2. SigningInv /\ [SigningNext]_signingVars => [A]_signingVars
  BY <1>1
<1> QED BY <1>2, SigningInductive, PTL DEF SigningSpec, FinalUsesAccepted

\* A key is used only while its object exists in the slot of the session,
\* permits the use and, when the slot demands a login by now, the user is in.
THEOREM UseCorrect == SigningSpec => UseAuthorised
<1> DEFINE Used == /\ answer' # NoAnswer
                   /\ answer'.result \in {"signature", "verdict", "length",
                                          "too_small"}
           Authorised ==
               LET s == answer'.session
                   key == sessions[s].op.key
               IN  /\ key \in DOMAIN objects
                   /\ objects[key].slot = sessions[s].slot
                   /\ RequiresLogin(SlotOf(s)) /\ Protected(objects[key])
                          => SlotOf(s).login = "USER"
                   /\ PolicyValue(objects[key],
                                  IF sessions[s].op.verify THEN "VERIFY" ELSE "SIGN")
<1>1. ASSUME SigningNext, Used PROVE Authorised
  <2>1. PICK s \in DOMAIN sessions :
           \/ answer' = [session |-> s, call |-> "update",
                         result |-> "failed", data |-> <<>>]
           \/ \E call, data, size, capacity :
                 /\ call \in {"single", "final"}
                 /\ call = "final" => data = work[s].data
                 /\ \/ SignCall(s, call, data, size, capacity)
                    \/ VerifyCall(s, call, data, size, capacity)
    BY <1>1, AnswerShape
  <2>2. PICK call, data, size, capacity :
           \/ SignCall(s, call, data, size, capacity)
           \/ VerifyCall(s, call, data, size, capacity)
    BY <1>1, <2>1
  <2>3. answer'.session = s /\ answer'.result # "refused" /\ answer'.result # "failed"
    BY <1>1, <2>2 DEF SignCall, VerifyCall
  <2>4. KeyReady(s)
    <3>1. \A size_, capacity_ : ~KeyReady(s) =>
              /\ SignResults(s, size_, capacity_) = {"refused"}
              /\ VerifyResults(s, size_, capacity_) = {"refused"}
      BY DEF SignResults, VerifyResults
    <3>2. answer'.result \in SignResults(s, size, capacity)
                             \cup VerifyResults(s, size, capacity)
      BY <2>2 DEF SignCall, VerifyCall
    <3> QED BY <2>3, <3>1, <3>2
  <2>5. PICK key : key = sessions[s].op.key
    OBVIOUS
  <2>6. key \in DOMAIN objects /\ objects[key].slot = sessions[s].slot
    BY <2>4, <2>5 DEF KeyReady, Visible
  <2>7. Accessible(s, key)
    BY <2>4, <2>5 DEF KeyReady
  <2>8. RequiresLogin(SlotOf(s)) /\ Protected(objects[key])
            => SlotOf(s).login = "USER"
    BY <2>7 DEF Accessible, UserReady
  <2>9. PolicyValue(objects[key], IF sessions[s].op.verify THEN "VERIFY" ELSE "SIGN")
    BY <2>4, <2>5 DEF KeyReady
  <2> QED BY <2>3, <2>5, <2>6, <2>8, <2>9
<1>2. [SigningNext]_signingVars => [Used => Authorised]_signingVars
  BY <1>1
<1> QED BY <1>2, PTL DEF SigningSpec, UseAuthorised

-----------------------------------------------------------------------------
(* The end of an operation.                                                *)

\* The calls that are not about signatures leave an operation alone, but for a
\* logout of its slot.
LEMMA OtherKeeps ==
    ASSUME TypeOK, HandlesFresh, OtherStep,
           NEW s \in DOMAIN sessions, s \in DOMAIN sessions'
    PROVE  sessions'[s].op = sessions[s].op \/ LogoutOn(sessions[s].slot)
<1>1. /\ sessions[s] \in Session
      /\ sessions[s].slot \in DOMAIN slots
  BY SessionType
<1>2. CASE LibraryStep
  <2>1. CASE Initialize
    BY <2>1 DEF Initialize
  <2>2. CASE Finalize \/ Restart
    BY <2>2 DEF Finalize, Restart, ClearRegistries, Empty
  <2>3. ASSUME NEW id \in DOMAIN slots, NEW rw \in BOOLEAN, OpenSession(id, rw)
        PROVE  sessions'[s] = sessions[s]
    <3>1. s # nextSession
      BY BasicTypes DEF HandlesFresh
    <3> QED BY <2>3, <3>1 DEF OpenSession, Extend
  <2>4. ASSUME NEW id \in DOMAIN slots, CloseAllSessions(id)
        PROVE  sessions'[s] = sessions[s]
    BY <2>4 DEF CloseAllSessions, Erase, Restrict
  <2> QED BY <1>2, <2>1, <2>2, <2>3, <2>4 DEF LibraryStep
<1>3. ASSUME NEW t \in DOMAIN sessions, SessionStep(t)
      PROVE  sessions'[s].op = sessions[s].op \/ LogoutOn(sessions[s].slot)
  <2>1. CASE CloseSession(t)
    BY <2>1 DEF CloseSession, Erase, Restrict
  <2>2. CASE \E role \in Roles, pin \in Pins : Login(t, role, pin)
    BY <2>2 DEF Login
  <2>3. CASE Logout(t)
    BY <1>1, <2>3, SessionType DEF Logout, SlotOf, LogoutOn, TypeOK, Slot
  <2>4. CASE \/ \E pin \in Pins : InitPIN(t, pin)
             \/ \E old, new \in Pins : SetPIN(t, old, new)
    BY <2>4 DEF InitPIN, SetPIN
  <2> QED BY <1>3, <2>1, <2>2, <2>3, <2>4 DEF SessionStep
<1>4. ASSUME NEW t \in DOMAIN sessions, CreationStep(t)
      PROVE  sessions'[s].op = sessions[s].op
  BY <1>4, CreationShape
<1>5. ASSUME NEW t \in DOMAIN sessions, ManagementStep(t)
      PROVE  sessions'[s].op = sessions[s].op
  <2>1. CASE \/ \E h \in DOMAIN objects, u \in Updates : SetAttributeValue(t, h, u)
             \/ \E h \in DOMAIN objects : DestroyObject(t, h)
    BY <2>1 DEF SetAttributeValue, DestroyObject
  <2>2. sessions[t] \in Session
    BY SessionType
  <2>3. CASE \E classes \in Searches : FindObjectsInit(t, classes)
    BY <1>1, <2>2, <2>3 DEF FindObjectsInit, Session, TypeOK
  <2>4. CASE \E taken \in SUBSET sessions[t].search.pending : FindObjects(t, taken)
    BY <1>1, <2>2, <2>4 DEF FindObjects, Session, TypeOK
  <2>5. CASE FindObjectsFinal(t)
    BY <1>1, <2>2, <2>5 DEF FindObjectsFinal, Session, TypeOK
  <2> QED BY <1>5, <2>1, <2>3, <2>4, <2>5 DEF ManagementStep
<1> QED BY <1>2, <1>3, <1>4, <1>5 DEF OtherStep

\* A signature call that ends an operation answers for it, and neither with a
\* length nor with "too small".
LEMMA SigningEnds ==
    ASSUME TypeOK, NEW t \in DOMAIN sessions, SigningStep(t),
           NEW s \in DOMAIN sessions,
           sessions[s].op.active, ~sessions'[s].op.active
    PROVE  /\ answer' # NoAnswer
           /\ answer'.session = s
           /\ answer'.result \notin {"length", "too_small"}
<1>1. sessions # sessions' /\ s # 0
  BY SessionType DEF SessionHandles
<1>2. ASSUME OperationEnd(t)
      PROVE  s = t
  BY <1>2 DEF OperationEnd, TypeOK
<1>3. ASSUME answer'.session = s
      PROVE  answer' # NoAnswer
  BY <1>1, <1>3 DEF NoAnswer
<1>4. ASSUME NEW h \in DOMAIN objects, NEW verify \in BOOLEAN,
             NEW mechanism \in ClientMechanisms,
             NEW parameter \in PssParameters \cup {NoParameter},
             InitializeSignature(t, h, verify, mechanism, parameter)
      PROVE  FALSE
  <2>1. OperationInit(t, h, verify)
    BY <1>4 DEF InitializeSignature, Startable
  <2>2. s # t
    BY <2>1 DEF OperationInit
  <2> QED BY <2>1, <2>2 DEF OperationInit, TypeOK
<1>5. ASSUME NEW piece \in Pieces, UpdateAccepted(t, piece)
      PROVE  FALSE
  BY <1>1, <1>5 DEF UpdateAccepted, vars
<1>6. ASSUME NEW piece \in Pieces, UpdateRefused(t, piece)
      PROVE  /\ answer'.session = s
             /\ answer'.result \notin {"length", "too_small"}
  BY <1>2, <1>6 DEF UpdateRefused
<1>7. ASSUME NEW call, NEW data, NEW size, NEW capacity,
             SignCall(t, call, data, size, capacity)
      PROVE  /\ answer'.session = s
             /\ answer'.result \notin {"length", "too_small"}
  <2>1. PICK result \in SignResults(t, size, capacity) :
           /\ IF Consumes(capacity, result) THEN OperationEnd(t) ELSE UNCHANGED vars
           /\ answer' = [session |-> t, call |-> call, result |-> result,
                         data |-> data]
    BY <1>7 DEF SignCall
  <2>2. Consumes(capacity, result) /\ OperationEnd(t)
    BY <1>1, <2>1 DEF vars
  <2>3. result \notin {"length", "too_small"}
    BY <2>2 DEF Consumes, SignResults
  <2> QED BY <1>2, <2>1, <2>2, <2>3
<1>8. ASSUME NEW call, NEW data, NEW size, NEW capacity,
             VerifyCall(t, call, data, size, capacity)
      PROVE  /\ answer'.session = s
             /\ answer'.result \notin {"length", "too_small"}
  BY <1>2, <1>8 DEF VerifyCall, VerifyResults
<1>9. ASSUME NEW piece \in Pieces, NEW capacity \in Capacities,
             Single(t, piece, capacity)
      PROVE  /\ answer'.session = s
             /\ answer'.result \notin {"length", "too_small"}
  BY <1>7, <1>8, <1>9 DEF Single
<1>10. ASSUME NEW capacity \in Capacities, Final(t, capacity)
       PROVE  /\ answer'.session = s
              /\ answer'.result \notin {"length", "too_small"}
  BY <1>7, <1>8, <1>10 DEF Final
<1> QED BY <1>3, <1>4, <1>5, <1>6, <1>9, <1>10 DEF SigningStep

\* An operation disappears only in an answer that its client can tell from a
\* size query, or with the login or the session it belongs to (executeSignature,
\* Logout), for any sizes of data, buffers and keys.
THEOREM LostCorrect == SigningSpec => LostOnlyByAnswer
<1> DEFINE Told == \A s \in DOMAIN sessions \cap DOMAIN sessions' :
               sessions[s].op.active /\ ~sessions'[s].op.active =>
                   \/ /\ answer' # NoAnswer /\ answer'.session = s
                      /\ answer'.result \notin {"length", "too_small"}
                   \/ LogoutOn(sessions[s].slot)
<1>1. ASSUME TypeOK, HandlesFresh, SigningNext PROVE Told
  <2> SUFFICES ASSUME NEW s \in DOMAIN sessions, s \in DOMAIN sessions',
                      sessions[s].op.active, ~sessions'[s].op.active
               PROVE  \/ /\ answer' # NoAnswer /\ answer'.session = s
                         /\ answer'.result \notin {"length", "too_small"}
                      \/ LogoutOn(sessions[s].slot)
    OBVIOUS
  <2>1. CASE OtherStep
    BY <1>1, <2>1, OtherKeeps
  <2>2. CASE \E t \in DOMAIN sessions : SigningStep(t)
    BY <1>1, <2>2, SigningEnds
  <2> QED BY <1>1, <2>1, <2>2 DEF SigningNext
<1>2. TypeOK /\ HandlesFresh /\ [SigningNext]_signingVars => [Told]_signingVars
  BY <1>1
<1>3. Inv => TypeOK /\ HandlesFresh
  BY DEF Inv
<1>4. SigningSpec => []Inv
  BY RuntimeImplemented, Inductive, PTL DEF ImplementsRuntime
<1> QED BY <1>2, <1>3, <1>4, PTL DEF SigningSpec, LostOnlyByAnswer

-----------------------------------------------------------------------------
(* The catalogue.                                                          *)

\* GetMechanismInfo announces exactly what the signature and the generation
\* services accept (supportedMechanisms, supportsSignature,
\* generationAlgorithm), and the digest table knows the hashing mechanisms.
THEOREM CatalogueConsistent == CatalogueAgrees
<1> USE DEF RsaHashing, PssHashing, EcHashing, KeyPairGeneration, Wrapping,
            KeyPairTypes
<1>1. ASSUME NEW m \in SupportedMechanisms
      PROVE  "SIGN" \in Announced(m) <=>
                 m \notin {"AES_ECB_ENCRYPT_DATA", "AES_KEY_GEN"}
                         \cup KeyPairGeneration \cup Wrapping
  BY DEF Announced
<1>2. SignatureMechanisms("RSA") =
          {"RSA_PKCS", "RSA_PKCS_PSS"} \cup RsaHashing \cup PssHashing
  BY DEF SignatureMechanisms
<1>3. SignatureMechanisms("EC") = {"ECDSA"} \cup EcHashing
  BY DEF SignatureMechanisms
<1>4. /\ SignatureMechanisms("ML_DSA") = {"ML_DSA"}
      /\ SignatureMechanisms("SLH_DSA") = {"SLH_DSA"}
      /\ SignatureMechanisms("none") = {}
  BY DEF SignatureMechanisms
<1>5. ASSUME NEW m \in SupportedMechanisms
      PROVE  "SIGN" \in Announced(m) <=>
                 \E type \in KeyPairTypes : m \in SignatureMechanisms(type)
  BY <1>1, <1>2, <1>3, <1>4 DEF SupportedMechanisms
<1>6. ASSUME NEW m \in SupportedMechanisms
      PROVE  "GENERATE_KEY_PAIR" \in Announced(m) <=>
                 SignatureMechanisms(GeneratedType(m)) # {}
  <2>1. CASE m \in KeyPairGeneration
    BY <2>1, <1>2, <1>3, <1>4 DEF Announced, GeneratedType
  <2>2. CASE m \notin KeyPairGeneration
    BY <2>2, <1>4 DEF Announced, GeneratedType
  <2> QED BY <2>1, <2>2
<1>7. ASSUME NEW m \in SignatureMechanisms("RSA") \cup SignatureMechanisms("EC")
      PROVE  SignatureDigest(m) = "none" <=> IsRaw(m) \/ IsRsaPss(m)
  BY <1>2, <1>3 DEF SignatureDigest, IsRaw, IsRsaPss
<1> QED BY <1>5, <1>6, <1>7 DEF CatalogueAgrees
=============================================================================
