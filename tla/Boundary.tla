------------------------------ MODULE Boundary ------------------------------
(***************************************************************************)
(* The call boundary of src/src/pkcs11/boundary.hpp: threads that enter    *)
(* exports, one mutex, the test of runtime.initialized under it, services  *)
(* that read and write the shared state in several steps and may throw in  *)
(* between, and the exports that go round it.                              *)
(*                                                                         *)
(* Five services stand for the others: the two of the library's life cycle,*)
(* OpenSession, which draws a handle and then registers it, GetTokenInfo,  *)
(* which looks its slot up and then uses it, and the unsupported ones.     *)
(***************************************************************************)
EXTENDS Integers

CONSTANTS
    Threads,     \* threads of the client
    NoThread,    \* nobody holds the mutex
    MaxSession,  \* bound: session handles dealt in the life of the process
    Exceptions   \* return codes of a service that threw

ASSUME ThreadsAssumption == NoThread \notin Threads /\ MaxSession \in Nat

VARIABLES
    initialized,  \* runtime.initialized
    loaded,       \* runtime.slots is filled
    open,         \* handles in runtime.sessions
    next,         \* runtime.nextSessionHandle
    mutex,        \* who holds runtime.mutex
    pc,           \* thread -> where it is
    asked,        \* thread -> export it called
    drawn,        \* thread -> handle its OpenSession has drawn
    answer,       \* thread and result of the call that returned last
    settled       \* ghost: the shared state when the mutex was last free

shared == <<initialized, loaded, open, next>>
vars == <<initialized, loaded, open, next, mutex, pc, asked, drawn, answer,
          settled>>

\* Exports that take the mutex, and those of interfaces.cpp, which do not.
LockedCalls == {"initialize", "finalize", "open", "info", "unsupported"}
Calls == LockedCalls \cup {"discover"}

\* Where a service can be while its thread holds the mutex.
Inside == {"admission", "service", "loading", "clearing", "drawing", "drawn",
           "looking"}

\* What a client learns: the result of its call and the handles it told of.
Reply(t, code) == [thread |-> t, code |-> code, value |-> {}]
Value(t, handles) == [thread |-> t, code |-> "OK", value |-> handles]
NoAnswer == [thread |-> NoThread]

Settled == [initialized |-> initialized, loaded |-> loaded, open |-> open,
            next |-> next]

Init ==
    /\ initialized = FALSE
    /\ loaded = FALSE
    /\ open = {}
    /\ next = 1
    /\ mutex = NoThread
    /\ pc = [t \in Threads |-> "outside"]
    /\ asked = [t \in Threads |-> "none"]
    /\ drawn = [t \in Threads |-> 0]
    /\ answer = NoAnswer
    /\ settled = Settled

GoTo(t, place) == pc' = [pc EXCEPT ![t] = place]

-----------------------------------------------------------------------------
(* invoke                                                                  *)

\* C_Initialize is the one export that may come first.
NeedsInitialization(call) == call # "initialize"

\* An export is called.
Enter(t, call) ==
    /\ pc[t] = "outside"
    /\ GoTo(t, IF call = "discover" THEN "discovering" ELSE "waiting")
    /\ asked' = [asked EXCEPT ![t] = call]
    /\ UNCHANGED <<shared, mutex, drawn, settled, answer>>

\* Mutant of MayLock: the mutex was forgotten.
MayLockAlways == TRUE

MayLock == mutex = NoThread

\* std::scoped_lock: blocks while another thread, or the same, holds the mutex.
Acquire(t) ==
    /\ pc[t] = "waiting"
    /\ MayLock
    /\ mutex' = t
    /\ GoTo(t, "admission")
    /\ UNCHANGED <<shared, asked, drawn, settled, answer>>

\* The call returns: the lock is released before the code reaches the client.
Leave(t, reply) ==
    /\ mutex' = NoThread
    /\ GoTo(t, "outside")
    /\ asked' = [asked EXCEPT ![t] = "none"]
    /\ answer' = reply
    /\ drawn' = [drawn EXCEPT ![t] = 0]
    /\ settled' = Settled'

Admit(t) ==
    /\ pc[t] = "admission"
    /\ NeedsInitialization(asked[t]) => initialized
    /\ GoTo(t, "service")
    /\ UNCHANGED <<shared, mutex, asked, drawn, settled, answer>>

NotInitialized(t) ==
    /\ pc[t] = "admission"
    /\ NeedsInitialization(asked[t])
    /\ ~initialized
    /\ UNCHANGED shared
    /\ Leave(t, Reply(t, "NOT_INITIALIZED"))

\* Mutant of Throw: the exception leaves the mutex locked.
ThrowLocked(t, code) ==
    /\ asked[t] \in {"open", "info"}
    /\ pc[t] \in {"service", "drawing", "drawn", "looking"}
    /\ UNCHANGED <<shared, drawn, mutex>>
    /\ GoTo(t, "outside")
    /\ asked' = [asked EXCEPT ![t] = "none"]
    /\ answer' = Reply(t, code)
    /\ settled' = Settled'

\* A service may throw at any step; what it has changed stays.  Unwinding
\* releases the mutex, the catch clauses choose the code.
Throw(t, code) ==
    /\ asked[t] \in {"open", "info"}
    /\ pc[t] \in {"service", "drawing", "drawn", "looking"}
    /\ UNCHANGED shared
    /\ Leave(t, Reply(t, code))

-----------------------------------------------------------------------------
(* Services.                                                               *)

\* Initialize: discoverSlots and loadTokenObjects, then the flag.  An exception
\* on the way is caught here, and the registries are cleared.
BeginInitialize(t) ==
    /\ pc[t] = "service" /\ asked[t] = "initialize"
    /\ ~initialized
    /\ loaded' = TRUE
    /\ GoTo(t, "loading")
    /\ UNCHANGED <<initialized, open, next, mutex, asked, drawn,
                   settled, answer>>

EndInitialize(t) ==
    /\ pc[t] = "loading"
    /\ initialized' = TRUE
    /\ UNCHANGED <<loaded, open, next>>
    /\ Leave(t, Reply(t, "OK"))

\* Mutant of FailInitialize: what was loaded stays.
FailInitializeLoaded(t) ==
    /\ pc[t] = "loading"
    /\ UNCHANGED shared
    /\ Leave(t, Reply(t, "DEVICE_ERROR"))

FailInitialize(t) ==
    /\ pc[t] = "loading"
    /\ loaded' = FALSE
    /\ UNCHANGED <<initialized, open, next>>
    /\ Leave(t, Reply(t, "DEVICE_ERROR"))

AlreadyInitialized(t) ==
    /\ pc[t] = "service" /\ asked[t] = "initialize"
    /\ initialized
    /\ UNCHANGED shared
    /\ Leave(t, Reply(t, "ALREADY_INITIALIZED"))

\* Finalize: slots, sessions, then the flag.
BeginFinalize(t) ==
    /\ pc[t] = "service" /\ asked[t] = "finalize"
    /\ loaded' = FALSE
    /\ GoTo(t, "clearing")
    /\ UNCHANGED <<initialized, open, next, mutex, asked, drawn,
                   settled, answer>>

EndFinalize(t) ==
    /\ pc[t] = "clearing"
    /\ open' = {}
    /\ initialized' = FALSE
    /\ UNCHANGED <<loaded, next>>
    /\ Leave(t, Reply(t, "OK"))

\* findSlot of OpenSession and GetTokenInfo: the slots may be gone, and a client
\* may always name one that there is not.
MissSlot(t) ==
    /\ pc[t] = "service" /\ asked[t] \in {"open", "info"}
    /\ UNCHANGED shared
    /\ Leave(t, Reply(t, "SLOT_ID_INVALID"))

\* OpenSession: runtime.nextSessionHandle++ reads and writes, then the session
\* is registered.
ReadHandle(t) ==
    /\ pc[t] = "service" /\ asked[t] = "open"
    /\ loaded
    /\ next <= MaxSession
    /\ drawn' = [drawn EXCEPT ![t] = next]
    /\ GoTo(t, "drawing")
    /\ UNCHANGED <<shared, mutex, asked, settled, answer>>

AdvanceHandle(t) ==
    /\ pc[t] = "drawing"
    /\ next' = drawn[t] + 1
    /\ GoTo(t, "drawn")
    /\ UNCHANGED <<initialized, loaded, open, mutex, asked, drawn,
                   settled, answer>>

RegisterSession(t) ==
    /\ pc[t] = "drawn"
    /\ open' = open \cup {drawn[t]}
    /\ UNCHANGED <<initialized, loaded, next>>
    /\ Leave(t, Value(t, {drawn[t]}))

\* GetTokenInfo: findSlot, then findSlot once more, this time without a test,
\* and the sessions.
FindSlot(t) ==
    /\ pc[t] = "service" /\ asked[t] = "info"
    /\ loaded
    /\ GoTo(t, "looking")
    /\ UNCHANGED <<shared, mutex, asked, drawn, settled, answer>>

UseSlot(t) ==
    /\ pc[t] = "looking"
    /\ UNCHANGED shared
    /\ Leave(t, Value(t, open))

\* Mutant of Unsupported: the service calls an export.
UnsupportedReenters(t) ==
    /\ pc[t] = "service" /\ asked[t] = "unsupported"
    /\ GoTo(t, "waiting")
    /\ UNCHANGED <<shared, mutex, asked, drawn, settled, answer>>

\* unsupportedOperation
Unsupported(t) ==
    /\ pc[t] = "service" /\ asked[t] = "unsupported"
    /\ UNCHANGED shared
    /\ Leave(t, Reply(t, "SUPPORTED_BY_NONE"))

\* C_GetFunctionList, C_GetInterfaceList, C_GetInterface: static tables, no lock.
Discover(t) ==
    /\ pc[t] = "discovering"
    /\ GoTo(t, "outside")
    /\ asked' = [asked EXCEPT ![t] = "none"]
    /\ answer' = Reply(t, "OK")
    /\ UNCHANGED <<shared, mutex, drawn, settled>>

-----------------------------------------------------------------------------
\* What a thread does without waiting for anybody.
Proceed(t) ==
    \/ Admit(t)
    \/ NotInitialized(t)
    \/ \E code \in Exceptions : Throw(t, code)
    \/ BeginInitialize(t)
    \/ EndInitialize(t)
    \/ FailInitialize(t)
    \/ AlreadyInitialized(t)
    \/ BeginFinalize(t)
    \/ EndFinalize(t)
    \/ MissSlot(t)
    \/ ReadHandle(t)
    \/ AdvanceHandle(t)
    \/ RegisterSession(t)
    \/ FindSlot(t)
    \/ UseSlot(t)
    \/ Unsupported(t)
    \/ Discover(t)

Next == \E t \in Threads :
    (\E call \in Calls : Enter(t, call)) \/ Acquire(t) \/ Proceed(t)

\* A thread that holds the mutex, or needs none, is scheduled; a free mutex goes
\* to one of those that wait for it, no matter which.
Fairness ==
    /\ \A t \in Threads : WF_vars(Proceed(t))
    /\ WF_vars(\E t \in Threads : Acquire(t))

Spec == Init /\ [][Next]_vars
FairSpec == Spec /\ Fairness

-----------------------------------------------------------------------------
\* Every variable has its type, and the thread that is inside a service is the
\* one that holds the mutex.
TypeOK ==
    /\ initialized \in BOOLEAN /\ loaded \in BOOLEAN
    /\ open \subseteq 1..MaxSession
    /\ next \in 1..MaxSession + 1
    /\ mutex \in Threads \cup {NoThread}
    /\ pc \in [Threads -> Inside \cup {"outside", "waiting", "discovering"}]
    /\ asked \in [Threads -> Calls \cup {"none"}]
    /\ drawn \in [Threads -> 0..MaxSession]
    /\ settled \in [initialized : BOOLEAN, loaded : BOOLEAN,
                    open : SUBSET (1..MaxSession), next : 1..MaxSession + 1]
    /\ \A t \in Threads : pc[t] \in Inside <=> mutex = t

\* A service never uses a slot that another thread's C_Finalize has erased
\* since it was found, and never meets half-loaded slots.
SlotStaysWhileUsed ==
    \A t \in Threads : pc[t] = "looking" => initialized /\ loaded

\* The handle that C_OpenSession is about to register is nobody else's: emplace
\* would keep the session that has it, and two clients would share it.
HandlesUnique == \A t \in Threads : pc[t] = "drawn" => drawn[t] \notin open

\* With the steps of a service hidden until it releases the mutex, every call
\* takes effect at one instant: the boundary is what lets Runtime, and every
\* client, take a call as one step.
Atomic == INSTANCE AtomicCalls WITH
    initialized <- settled.initialized,
    loaded <- settled.loaded,
    open <- settled.open,
    next <- settled.next

CallsAreAtomic == Atomic!Spec

\* A call that got the mutex answers, whatever it meets on the way: no service
\* waits for the lock its own thread holds, and no exception keeps it.
LockedCallsAnswer ==
    \A t \in Threads : mutex = t ~> mutex # t

\* As long as threads wait for the mutex, calls are answered.  Which thread is
\* next is up to the mutex, which promises no turn.
SomebodyIsServed ==
    (\E t \in Threads : pc[t] = "waiting") ~> (\E t \in Threads : pc[t] \in Inside)
=============================================================================
