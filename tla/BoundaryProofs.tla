--------------------------- MODULE BoundaryProofs ---------------------------
(***************************************************************************)
(* Theorems about Boundary, for any set of threads: mutual exclusion, what *)
(* a service may rely on while it runs, and the refinement that justifies  *)
(* taking a call as one step.  The invariant says, for the thread inside,  *)
(* how far the shared state has moved from the state the mutex was last    *)
(* released in.                                                            *)
(***************************************************************************)
EXTENDS Boundary, TLAPS

\* The call of a thread, as far as its place tells.
AskedFits(t) ==
    /\ pc[t] = "outside" => asked[t] = "none"
    /\ pc[t] = "discovering" => asked[t] = "discover"
    /\ pc[t] \in Inside \cup {"waiting"} => asked[t] \in LockedCalls
    /\ pc[t] = "loading" => asked[t] = "initialize"
    /\ pc[t] = "clearing" => asked[t] = "finalize"
    /\ pc[t] \in {"drawing", "drawn"} => asked[t] = "open"
    /\ pc[t] = "looking" => asked[t] = "info"

\* What the thread inside has changed so far, and what it knows.
Progress(t) ==
    /\ pc[t] \in {"admission", "service", "drawing", "looking"} =>
           /\ initialized = settled.initialized /\ loaded = settled.loaded
           /\ open = settled.open /\ next = settled.next
    /\ pc[t] = "service" /\ asked[t] # "initialize" => settled.initialized
    /\ pc[t] = "loading" =>
           /\ ~initialized /\ ~settled.initialized /\ loaded
           /\ open = settled.open /\ next = settled.next
    /\ pc[t] = "clearing" =>
           /\ initialized /\ settled.initialized /\ ~loaded
           /\ open = settled.open /\ next = settled.next
    /\ pc[t] = "drawing" => settled.initialized /\ drawn[t] = next
    /\ pc[t] = "drawn" =>
           /\ initialized /\ loaded /\ settled.initialized
           /\ open = settled.open
           /\ drawn[t] = settled.next /\ next = settled.next + 1
    /\ pc[t] = "looking" => settled.initialized

SettledInv ==
    /\ settled.loaded <=> settled.initialized
    /\ \A h \in settled.open : h < settled.next
    /\ mutex = NoThread =>
           /\ initialized = settled.initialized /\ loaded = settled.loaded
           /\ open = settled.open /\ next = settled.next

Inv ==
    /\ TypeOK
    /\ SettledInv
    /\ \A t \in Threads : AskedFits(t) /\ Progress(t)

LEMMA InitInv == Init => Inv
<1> SUFFICES ASSUME Init PROVE Inv
  OBVIOUS
<1>1. TypeOK
  <2>1. /\ next \in 1..MaxSession + 1 /\ open \subseteq 1..MaxSession
        /\ 0 \in 0..MaxSession
    BY ThreadsAssumption DEF Init
  <2>2. settled \in [initialized : BOOLEAN, loaded : BOOLEAN,
                     open : SUBSET (1..MaxSession), next : 1..MaxSession + 1]
    BY <2>1 DEF Init, Settled
  <2>3. \A t \in Threads : pc[t] \in Inside <=> mutex = t
    BY ThreadsAssumption DEF Init, Inside
  <2>4. /\ pc \in [Threads -> Inside \cup {"outside", "waiting", "discovering"}]
        /\ asked \in [Threads -> Calls \cup {"none"}]
        /\ drawn \in [Threads -> 0..MaxSession]
    BY <2>1 DEF Init
  <2> QED BY <2>1, <2>2, <2>3, <2>4 DEF Init, TypeOK
<1>2. SettledInv
  BY DEF Init, SettledInv, Settled
<1>3. \A t \in Threads : AskedFits(t) /\ Progress(t)
  BY DEF Init, AskedFits, Progress, Inside
<1> QED BY <1>1, <1>2, <1>3 DEF Inv

\* A step of a thread outside, or one that only takes the mutex.
LEMMA EnterInv ==
    ASSUME Inv, NEW t \in Threads, NEW call \in Calls, Enter(t, call)
    PROVE  Inv'
<1>1. TypeOK'
  BY DEF Inv, TypeOK, Enter, GoTo, shared, Inside
<1>2. SettledInv'
  BY DEF Inv, SettledInv, Enter, shared
<1>3. ASSUME NEW u \in Threads PROVE AskedFits(u)' /\ Progress(u)'
  BY DEF Inv, TypeOK, Enter, GoTo, shared, AskedFits, Progress, Inside, Calls,
         LockedCalls
<1> QED BY <1>1, <1>2, <1>3 DEF Inv

LEMMA AcquireInv ==
    ASSUME Inv, NEW t \in Threads, Acquire(t)
    PROVE  Inv'
<1>1. TypeOK'
  BY ThreadsAssumption
     DEF Inv, TypeOK, Acquire, MayLock, GoTo, shared, Inside
<1>2. SettledInv'
  BY ThreadsAssumption DEF Inv, SettledInv, Acquire, shared
<1>3. ASSUME NEW u \in Threads PROVE AskedFits(u)' /\ Progress(u)'
  BY DEF Inv, TypeOK, SettledInv, Acquire, MayLock, GoTo, shared, AskedFits,
         Progress, Inside
<1> QED BY <1>1, <1>2, <1>3 DEF Inv

LEMMA DiscoverInv ==
    ASSUME Inv, NEW t \in Threads, Discover(t)
    PROVE  Inv'
<1>1. TypeOK'
  BY DEF Inv, TypeOK, Discover, GoTo, shared, Inside
<1>2. SettledInv'
  BY DEF Inv, SettledInv, Discover, shared
<1>3. ASSUME NEW u \in Threads PROVE AskedFits(u)' /\ Progress(u)'
  BY DEF Inv, TypeOK, Discover, GoTo, shared, AskedFits, Progress, Inside
<1> QED BY <1>1, <1>2, <1>3 DEF Inv

\* A service that goes on: the other threads are not inside.
LEMMA InsideInv ==
    ASSUME Inv, NEW t \in Threads, pc[t] \in Inside, NEW place \in Inside,
           GoTo(t, place), UNCHANGED <<mutex, asked, settled>>,
           DOMAIN drawn' = Threads,
           \A u \in Threads : drawn'[u] \in 0..MaxSession,
           drawn' = [u \in Threads |-> drawn'[u]],
           initialized' \in BOOLEAN, loaded' \in BOOLEAN,
           open' \subseteq 1..MaxSession, next' \in 1..MaxSession + 1,
           AskedFits(t)', Progress(t)'
    PROVE  Inv'
<1>1. mutex = t
  BY DEF Inv, TypeOK
<1>2. TypeOK'
  BY <1>1 DEF Inv, TypeOK, GoTo, Inside
<1>3. SettledInv'
  BY <1>1, ThreadsAssumption DEF Inv, SettledInv
<1>4. ASSUME NEW u \in Threads, u # t PROVE AskedFits(u)' /\ Progress(u)'
  <2>1. pc'[u] = pc[u] /\ pc[u] \notin Inside
    BY <1>1, <1>4 DEF Inv, TypeOK, GoTo
  <2> QED BY <2>1 DEF Inv, AskedFits, Progress, Inside
<1> QED BY <1>2, <1>3, <1>4 DEF Inv

LEMMA ServiceInv ==
    ASSUME Inv, NEW t \in Threads,
           \/ Admit(t) \/ BeginInitialize(t) \/ BeginFinalize(t)
           \/ ReadHandle(t) \/ AdvanceHandle(t) \/ FindSlot(t)
    PROVE  Inv'
<1> USE DEF GoTo, Inside, shared
<1>1. /\ pc \in [Threads -> Inside \cup {"outside", "waiting", "discovering"}]
      /\ drawn \in [Threads -> 0..MaxSession]
      /\ AskedFits(t) /\ Progress(t) /\ SettledInv
      /\ initialized \in BOOLEAN /\ loaded \in BOOLEAN
      /\ open \subseteq 1..MaxSession /\ next \in 1..MaxSession + 1
  BY DEF Inv, TypeOK
<1>2. CASE Admit(t)
  <2>1. AskedFits(t)' /\ Progress(t)'
    BY <1>1, <1>2 DEF Admit, AskedFits, Progress, NeedsInitialization
  <2> QED BY <1>1, <1>2, <2>1, InsideInv DEF Admit
<1>3. CASE BeginInitialize(t)
  <2>1. AskedFits(t)' /\ Progress(t)'
    BY <1>1, <1>3 DEF BeginInitialize, AskedFits, Progress
  <2> QED BY <1>1, <1>3, <2>1, InsideInv DEF BeginInitialize
<1>4. CASE BeginFinalize(t)
  <2>1. AskedFits(t)' /\ Progress(t)'
    BY <1>1, <1>4 DEF BeginFinalize, AskedFits, Progress
  <2> QED BY <1>1, <1>4, <2>1, InsideInv DEF BeginFinalize
<1>5. CASE ReadHandle(t)
  <2>1. AskedFits(t)' /\ Progress(t)'
    BY <1>1, <1>5 DEF ReadHandle, AskedFits, Progress
  <2>2. next \in 0..MaxSession
    BY <1>1, <1>5, ThreadsAssumption DEF ReadHandle
  <2> QED BY <1>1, <1>5, <2>1, <2>2, InsideInv DEF ReadHandle
<1>6. CASE AdvanceHandle(t)
  <2>1. AskedFits(t)' /\ Progress(t)'
    BY <1>1, <1>6 DEF AdvanceHandle, AskedFits, Progress, SettledInv
  <2>2. drawn[t] + 1 \in 1..MaxSession + 1
    BY <1>1, ThreadsAssumption
  <2> QED BY <1>1, <1>6, <2>1, <2>2, InsideInv DEF AdvanceHandle
<1>7. CASE FindSlot(t)
  <2>1. AskedFits(t)' /\ Progress(t)'
    BY <1>1, <1>7 DEF FindSlot, AskedFits, Progress
  <2> QED BY <1>1, <1>7, <2>1, InsideInv DEF FindSlot
<1> QED BY <1>2, <1>3, <1>4, <1>5, <1>6, <1>7

\* A service that returns or throws: the shared state settles.
LEMMA LeaveInv ==
    ASSUME Inv, NEW t \in Threads, pc[t] \in Inside, NEW reply, Leave(t, reply),
           initialized' \in BOOLEAN, loaded' \in BOOLEAN,
           open' \subseteq 1..MaxSession, next' \in 1..MaxSession + 1,
           loaded' <=> initialized',
           \A h \in open' : h < next'
    PROVE  Inv'
<1>1. mutex = t
  BY DEF Inv, TypeOK
<1>2. settled' = [initialized |-> initialized', loaded |-> loaded',
                  open |-> open', next |-> next']
  BY DEF Leave, Settled
<1>3. TypeOK'
  BY <1>1, <1>2, ThreadsAssumption DEF Inv, TypeOK, Leave, GoTo, Inside
<1>4. SettledInv'
  BY <1>2 DEF SettledInv
<1>5. ASSUME NEW u \in Threads PROVE AskedFits(u)' /\ Progress(u)'
  <2>1. CASE u = t
    BY <2>1 DEF Inv, TypeOK, Leave, GoTo, AskedFits, Progress, Inside
  <2>2. CASE u # t
    <3>1. pc'[u] = pc[u] /\ pc[u] \notin Inside /\ asked'[u] = asked[u]
      BY <1>1, <2>2 DEF Inv, TypeOK, Leave, GoTo
    <3> QED BY <3>1 DEF Inv, AskedFits, Progress, Inside
  <2> QED BY <2>1, <2>2
<1> QED BY <1>3, <1>4, <1>5 DEF Inv

LEMMA LeavingInv ==
    ASSUME Inv, NEW t \in Threads,
           \/ NotInitialized(t) \/ (\E code \in Exceptions : Throw(t, code))
           \/ EndInitialize(t) \/ FailInitialize(t) \/ AlreadyInitialized(t)
           \/ EndFinalize(t) \/ RegisterSession(t) \/ UseSlot(t)
           \/ Unsupported(t) \/ MissSlot(t)
    PROVE  Inv'
<1> USE DEF Inside, shared
<1>1. /\ AskedFits(t) /\ Progress(t) /\ SettledInv
      /\ initialized \in BOOLEAN /\ loaded \in BOOLEAN
      /\ open \subseteq 1..MaxSession /\ next \in 1..MaxSession + 1
      /\ drawn[t] \in 0..MaxSession
      /\ settled.next \in 1..MaxSession + 1
      /\ settled.open \subseteq 1..MaxSession
  BY DEF Inv, TypeOK
<1>2. CASE NotInitialized(t)
  BY <1>1, <1>2, LeaveInv DEF NotInitialized, Progress, SettledInv
<1>3. ASSUME NEW code \in Exceptions, Throw(t, code) PROVE Inv'
  <2>1. /\ loaded <=> initialized
        /\ \A h \in open : h < next
    BY <1>1, <1>3 DEF Throw, Progress, SettledInv
  <2> QED BY <1>1, <1>3, <2>1, LeaveInv DEF Throw
<1>4. CASE EndInitialize(t)
  BY <1>1, <1>4, LeaveInv DEF EndInitialize, Progress, SettledInv
<1>5. CASE FailInitialize(t)
  BY <1>1, <1>5, LeaveInv DEF FailInitialize, Progress, SettledInv
<1>6. CASE AlreadyInitialized(t)
  BY <1>1, <1>6, LeaveInv DEF AlreadyInitialized, Progress, SettledInv
<1>7. CASE EndFinalize(t)
  BY <1>1, <1>7, LeaveInv DEF EndFinalize, Progress, SettledInv
<1>8. CASE RegisterSession(t)
  <2>1. /\ drawn[t] = settled.next /\ next = settled.next + 1
        /\ open = settled.open /\ (loaded <=> initialized)
    BY <1>1, <1>8 DEF RegisterSession, Progress
  <2>2. drawn[t] \in 1..MaxSession
    BY <1>1, <2>1, ThreadsAssumption
  <2>3. open' \subseteq 1..MaxSession
    BY <1>1, <1>8, <2>2 DEF RegisterSession
  <2>4. \A h \in open' : h < next'
    BY <1>1, <1>8, <2>1, <2>2, ThreadsAssumption DEF RegisterSession, SettledInv
  <2> QED BY <1>1, <1>8, <2>1, <2>3, <2>4, LeaveInv DEF RegisterSession
<1>9. CASE UseSlot(t)
  BY <1>1, <1>9, LeaveInv DEF UseSlot, Progress, SettledInv
<1>10. CASE Unsupported(t)
  BY <1>1, <1>10, LeaveInv DEF Unsupported, Progress, SettledInv
<1>11. CASE MissSlot(t)
  BY <1>1, <1>11, LeaveInv DEF MissSlot, Progress, SettledInv
<1> QED BY <1>2, <1>3, <1>4, <1>5, <1>6, <1>7, <1>8, <1>9, <1>10, <1>11

LEMMA StutterInv == Inv /\ UNCHANGED vars => Inv'
<1> SUFFICES ASSUME Inv, UNCHANGED vars PROVE Inv'
  OBVIOUS
<1>1. TypeOK'
  BY DEF Inv, TypeOK, vars, shared
<1>2. SettledInv'
  BY DEF Inv, SettledInv, vars, shared
<1>3. ASSUME NEW t \in Threads PROVE AskedFits(t)' /\ Progress(t)'
  BY DEF Inv, AskedFits, Progress, vars, shared
<1> QED BY <1>1, <1>2, <1>3 DEF Inv

LEMMA NextInv == Inv /\ [Next]_vars => Inv'
<1> SUFFICES ASSUME Inv, Next PROVE Inv'
  BY StutterInv
<1>1. PICK t \in Threads :
          (\E call \in Calls : Enter(t, call)) \/ Acquire(t) \/ Proceed(t)
  BY DEF Next
<1>2. CASE Proceed(t)
  BY <1>2, ServiceInv, LeavingInv, DiscoverInv DEF Proceed
<1> QED BY <1>1, <1>2, EnterInv, AcquireInv

-----------------------------------------------------------------------------
\* The inductive invariant holds of every reachable state.
THEOREM BoundaryInductive == Spec => []Inv
BY InitInv, NextInv, PTL DEF Spec

\* Mutual exclusion: the threads inside a service are the one that holds the
\* mutex of invoke.
THEOREM BoundaryTypeCorrect == Spec => []TypeOK
<1>1. Inv => TypeOK
  BY DEF Inv
<1> QED BY <1>1, BoundaryInductive, PTL

\* A service that looked its slot up still has it when it uses it, however many
\* threads call C_Finalize meanwhile.
THEOREM SlotCorrect == Spec => []SlotStaysWhileUsed
<1>1. Inv => SlotStaysWhileUsed
  BY DEF Inv, SlotStaysWhileUsed, Progress, SettledInv
<1> QED BY <1>1, BoundaryInductive, PTL

\* The handle drawn by C_OpenSession belongs to no open session.
THEOREM HandlesCorrect == Spec => []HandlesUnique
<1>1. Inv => HandlesUnique
  <2> SUFFICES ASSUME Inv, NEW t \in Threads, pc[t] = "drawn"
               PROVE  drawn[t] \notin open
    BY DEF HandlesUnique
  <2>1. open = settled.open /\ drawn[t] = settled.next
    BY DEF Inv, Progress
  <2>2. /\ \A h \in open : h < drawn[t]
        /\ drawn[t] \in Int
    BY <2>1, ThreadsAssumption DEF Inv, SettledInv, TypeOK
  <2> QED BY <2>2
<1> QED BY <1>1, BoundaryInductive, PTL

-----------------------------------------------------------------------------
(* How long a call keeps the mutex.                                        *)

\* At most so many steps of a service are left until its thread leaves.
StepsLeft(place) ==
    CASE place = "admission" -> 4
      [] place = "service"   -> 3
      [] place = "drawing"   -> 2
      [] place \in {"loading", "clearing", "drawn", "looking"} -> 1
      [] OTHER               -> 0

\* The call of the thread returns, with an answer that is its own.
Returns(t) ==
    /\ mutex' = NoThread
    /\ pc'[t] = "outside"
    /\ answer'.thread = t

\* Its service comes closer to that.
Advances(t) ==
    /\ mutex' = t
    /\ StepsLeft(pc'[t]) < StepsLeft(pc[t])

\* The step is not seen by the thread inside.
Undisturbed(t) ==
    /\ UNCHANGED <<shared, mutex>>
    /\ pc'[t] = pc[t] /\ asked'[t] = asked[t] /\ drawn'[t] = drawn[t]

\* The mutex is released by its holder alone, after at most four steps of its
\* service, and what the other threads do meanwhile does not reach the service:
\* what LockedCallsAnswer needs besides a scheduler.
HoldBounded ==
    [][\A t \in Threads : mutex = t =>
           Returns(t) \/ Advances(t) \/ Undisturbed(t)]_vars

LEMMA HolderStep ==
    ASSUME Inv, NEW t \in Threads, mutex = t, Proceed(t)
    PROVE  Returns(t) \/ Advances(t)
<1>1. pc[t] \in Inside /\ pc \in [Threads -> Inside \cup
                                        {"outside", "waiting", "discovering"}]
  BY DEF Inv, TypeOK
<1>2. ASSUME NEW reply, reply.thread = t, Leave(t, reply)
      PROVE  Returns(t)
  BY <1>1, <1>2 DEF Returns, Leave, GoTo
<1>3. ASSUME NEW code, Leave(t, Reply(t, code)) PROVE Returns(t)
  BY <1>2, <1>3 DEF Reply
<1>4. ASSUME NEW handles, Leave(t, Value(t, handles)) PROVE Returns(t)
  BY <1>2, <1>4 DEF Value
<1>5. CASE \/ Admit(t) \/ BeginInitialize(t) \/ BeginFinalize(t)
           \/ ReadHandle(t) \/ AdvanceHandle(t) \/ FindSlot(t)
  BY <1>1, <1>5
     DEF Admit, BeginInitialize, BeginFinalize, ReadHandle, AdvanceHandle,
         FindSlot, GoTo, Advances, StepsLeft
<1>6. ~Discover(t)
  BY <1>1 DEF Discover, Inside
<1>7. CASE \/ NotInitialized(t) \/ \E code \in Exceptions : Throw(t, code)
           \/ EndInitialize(t) \/ FailInitialize(t) \/ AlreadyInitialized(t)
           \/ EndFinalize(t) \/ Unsupported(t) \/ MissSlot(t)
  BY <1>3, <1>7
     DEF NotInitialized, Throw, EndInitialize, FailInitialize,
         AlreadyInitialized, EndFinalize, Unsupported, MissSlot
<1>8. CASE RegisterSession(t) \/ UseSlot(t)
  BY <1>4, <1>8 DEF RegisterSession, UseSlot
<1> QED BY <1>5, <1>6, <1>7, <1>8 DEF Proceed

\* A thread that does not hold the mutex can only call, or look interfaces up.
LEMMA OtherStep ==
    ASSUME Inv, NEW t \in Threads, mutex = t, NEW u \in Threads,
           (\E call \in Calls : Enter(u, call)) \/ Acquire(u) \/ Proceed(u),
           u # t \/ ~Proceed(u)
    PROVE  Undisturbed(t)
<1>1. /\ t # NoThread /\ pc[t] \in Inside
      /\ u # t => pc[u] \notin Inside
      /\ pc \in [Threads -> Inside \cup {"outside", "waiting", "discovering"}]
      /\ asked \in [Threads -> Calls \cup {"none"}]
  BY ThreadsAssumption DEF Inv, TypeOK
<1>2. ~Acquire(u)
  BY <1>1 DEF Acquire, MayLock
<1>3. ASSUME Proceed(u) PROVE Discover(u)
  <2>1. pc[u] \notin Inside
    BY <1>1, <1>3
  <2>2. pc[u] \notin {"admission", "service", "loading", "clearing", "drawing",
                      "drawn", "looking"}
    BY <2>1 DEF Inside
  <2> QED BY <1>3, <2>2
          DEF Proceed, Admit, NotInitialized, Throw, BeginInitialize,
              EndInitialize, FailInitialize, AlreadyInitialized, BeginFinalize,
              EndFinalize, MissSlot, ReadHandle, AdvanceHandle,
              RegisterSession, FindSlot, UseSlot, Unsupported
<1>4. ASSUME NEW call \in Calls, Enter(u, call) PROVE Undisturbed(t)
  <2>1. u # t
    BY <1>1, <1>4 DEF Enter, Inside
  <2> QED BY <1>1, <1>4, <2>1 DEF Enter, GoTo, Undisturbed
<1>5. ASSUME Discover(u) PROVE Undisturbed(t)
  <2>1. u # t
    BY <1>1, <1>5 DEF Discover, Inside
  <2> QED BY <1>1, <1>5, <2>1 DEF Discover, GoTo, Undisturbed
<1> QED BY <1>2, <1>3, <1>4, <1>5

\* Whatever a service meets, its thread keeps the mutex for four steps at most,
\* and nobody else releases it or changes the state under it.
THEOREM HoldCorrect == Spec => HoldBounded
<1>1. Inv /\ [Next]_vars =>
          [\A t \in Threads : mutex = t =>
               Returns(t) \/ Advances(t) \/ Undisturbed(t)]_vars
  BY HolderStep, OtherStep DEF Next
<1> QED BY <1>1, BoundaryInductive, PTL DEF Spec, HoldBounded

-----------------------------------------------------------------------------
(* The refinement: a call takes effect when its thread leaves.             *)

LEMMA AtomicInit == Init => Atomic!Init
BY DEF Init, Atomic!Init, Settled, NoAnswer, Atomic!NoAnswer

LEMMA AtomicStart ==
    ASSUME Inv, NEW t \in Threads, NEW call \in Calls, Enter(t, call)
    PROVE  Atomic!Next
<1>1. asked[t] = "none"
  BY DEF Inv, AskedFits, Enter
<1>2. Atomic!Start(t, call)
  BY <1>1 DEF Enter, Atomic!Start
<1>3. call \in Atomic!Calls
  BY DEF Calls, LockedCalls, Atomic!Calls
<1> QED BY <1>2, <1>3 DEF Atomic!Next

\* Inside a service nothing that a client can see changes.
LEMMA AtomicHidden ==
    ASSUME NEW t \in Threads,
           \/ Acquire(t) \/ Admit(t) \/ BeginInitialize(t) \/ BeginFinalize(t)
           \/ ReadHandle(t) \/ AdvanceHandle(t) \/ FindSlot(t)
    PROVE  UNCHANGED Atomic!vars
BY DEF Acquire, Admit, BeginInitialize, BeginFinalize, ReadHandle,
       AdvanceHandle, FindSlot, Atomic!vars

LEMMA AtomicReturn ==
    ASSUME Inv, NEW t \in Threads,
           \/ NotInitialized(t) \/ (\E code \in Exceptions : Throw(t, code))
           \/ EndInitialize(t) \/ FailInitialize(t) \/ AlreadyInitialized(t)
           \/ EndFinalize(t) \/ RegisterSession(t) \/ UseSlot(t)
           \/ Unsupported(t) \/ Discover(t) \/ MissSlot(t)
    PROVE  Atomic!Next
<1> USE DEF Inside, shared, Leave, Settled, Reply, Value, Atomic!Return,
            Atomic!Reply, Atomic!Value, Atomic!Unchanged
<1>1. AskedFits(t) /\ Progress(t) /\ SettledInv
  BY DEF Inv
<1>a. /\ initialized \in BOOLEAN /\ loaded \in BOOLEAN
      /\ settled.initialized \in BOOLEAN /\ settled.loaded \in BOOLEAN
  BY DEF Inv, TypeOK
<1>2. CASE NotInitialized(t)
  <2>1. Atomic!Refuse(t)
    BY <1>1, <1>2 DEF NotInitialized, Progress, AskedFits, LockedCalls,
                      NeedsInitialization, Atomic!Refuse
  <2> QED BY <2>1 DEF Atomic!Next
<1>3. ASSUME NEW code \in Exceptions, Throw(t, code) PROVE Atomic!Next
  <2>1. /\ settled' = [initialized |-> initialized, loaded |-> loaded,
                       open |-> open, next |-> next]
        /\ asked' = [asked EXCEPT ![t] = "none"]
        /\ answer' = Reply(t, code)
        /\ asked[t] \in {"open", "info"}
        /\ pc[t] \in {"service", "drawing", "drawn", "looking"}
    BY <1>3 DEF Throw
  <2>2. /\ settled.initialized /\ loaded = settled.loaded
        /\ initialized = settled.initialized
        /\ open = settled.open
        /\ next \in IF asked[t] = "open"
                    THEN {settled.next, settled.next + 1} ELSE {settled.next}
    BY <1>1, <2>1 DEF Progress, AskedFits, SettledInv
  <2>3. Atomic!Fail(t, code)
    BY <2>1, <2>2 DEF Atomic!Fail
  <2> QED BY <2>3 DEF Atomic!Next
<1>4. CASE EndInitialize(t)
  <2>1. Atomic!Initialize(t)
    BY <1>1, <1>4 DEF EndInitialize, Progress, AskedFits, Atomic!Initialize
  <2> QED BY <2>1 DEF Atomic!Next
<1>5. CASE FailInitialize(t)
  <2>1. asked[t] = "initialize" /\ ~settled.initialized
    BY <1>1, <1>5 DEF FailInitialize, Progress, AskedFits
  <2>2. /\ settled' = [initialized |-> initialized, loaded |-> FALSE,
                       open |-> settled.open, next |-> settled.next]
        /\ initialized = FALSE
    BY <1>1, <1>a, <1>5 DEF FailInitialize, Progress
  <2>3. settled.initialized = FALSE /\ settled.loaded = FALSE
    BY <1>1, <1>a, <2>1 DEF SettledInv
  <2>4. /\ settled' = [initialized |-> FALSE, loaded |-> FALSE,
                       open |-> settled.open, next |-> settled.next]
        /\ Atomic!Return(t, Atomic!Reply(t, "DEVICE_ERROR"))
    BY <1>5, <2>2 DEF FailInitialize
  <2>5. Atomic!Initialize(t)
    BY <2>1, <2>3, <2>4 DEF Atomic!Initialize
  <2> QED BY <2>5 DEF Atomic!Next
<1>6. CASE AlreadyInitialized(t)
  <2>1. Atomic!Initialize(t)
    BY <1>1, <1>6 DEF AlreadyInitialized, Progress, AskedFits,
                      Atomic!Initialize
  <2> QED BY <2>1 DEF Atomic!Next
<1>7. CASE EndFinalize(t)
  <2>1. Atomic!Finalize(t)
    BY <1>1, <1>7 DEF EndFinalize, Progress, AskedFits, Atomic!Finalize
  <2> QED BY <2>1 DEF Atomic!Next
<1>8. CASE RegisterSession(t)
  <2>1. Atomic!OpenSession(t)
    BY <1>1, <1>8 DEF RegisterSession, Progress, AskedFits, SettledInv,
                      Atomic!OpenSession
  <2> QED BY <2>1 DEF Atomic!Next
<1>9. CASE UseSlot(t)
  <2>1. /\ asked[t] = "info" /\ settled.initialized
        /\ initialized = settled.initialized /\ loaded = settled.loaded
        /\ open = settled.open /\ next = settled.next
    BY <1>1, <1>9 DEF UseSlot, Progress, AskedFits
  <2>2. Atomic!Info(t)
    BY <1>9, <2>1 DEF UseSlot, Atomic!Info
  <2> QED BY <2>2 DEF Atomic!Next
<1>10. CASE Unsupported(t)
  <2>1. Atomic!Unsupported(t)
    BY <1>1, <1>10 DEF Unsupported, Progress, AskedFits, Atomic!Unsupported
  <2> QED BY <2>1 DEF Atomic!Next
<1>11. CASE Discover(t)
  <2>1. Atomic!Discover(t)
    BY <1>1, <1>11 DEF Discover, AskedFits, Atomic!Discover
  <2> QED BY <2>1 DEF Atomic!Next
<1>12. CASE MissSlot(t)
  <2>1. /\ asked[t] \in {"open", "info"} /\ settled.initialized
        /\ initialized = settled.initialized /\ loaded = settled.loaded
        /\ open = settled.open /\ next = settled.next
    BY <1>1, <1>12 DEF MissSlot, Progress, AskedFits
  <2>2. Atomic!UnknownSlot(t)
    BY <1>12, <2>1 DEF MissSlot, Atomic!UnknownSlot
  <2> QED BY <2>2 DEF Atomic!Next
<1> QED BY <1>2, <1>3, <1>4, <1>5, <1>6, <1>7, <1>8, <1>9, <1>10, <1>11, <1>12

LEMMA AtomicStep == Inv /\ [Next]_vars => [Atomic!Next]_Atomic!vars
<1> SUFFICES ASSUME Inv, [Next]_vars PROVE [Atomic!Next]_Atomic!vars
  OBVIOUS
<1>1. CASE UNCHANGED vars
  BY <1>1 DEF vars, Atomic!vars
<1>2. CASE Next
  <2>1. PICK t \in Threads :
            (\E call \in Calls : Enter(t, call)) \/ Acquire(t) \/ Proceed(t)
    BY <1>2 DEF Next
  <2>2. CASE Proceed(t)
    BY <2>2, AtomicHidden, AtomicReturn DEF Proceed
  <2> QED BY <2>1, <2>2, AtomicStart, AtomicHidden
<1> QED BY <1>1, <1>2

\* Whatever the number of threads, a call made through invoke takes effect at
\* one instant between its start and its answer.
THEOREM CallsCorrect == Spec => CallsAreAtomic
BY AtomicInit, AtomicStep, BoundaryInductive, PTL
   DEF CallsAreAtomic, Spec, Atomic!Spec
=============================================================================
