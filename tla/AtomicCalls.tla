----------------------------- MODULE AtomicCalls -----------------------------
(***************************************************************************)
(* What client threads may rely on: a call takes effect at one instant     *)
(* between its start and its answer, whatever the other threads do.  This  *)
(* is the assumption under which Runtime makes every call one action.      *)
(***************************************************************************)
EXTENDS Integers

CONSTANTS
    Threads,     \* threads of the client
    NoThread,    \* none of them
    Exceptions   \* return codes of a service that threw

\* The exports, by what they do with the state.
Calls == {"initialize", "finalize", "open", "info", "unsupported", "discover"}

VARIABLES
    initialized,  \* C_Initialize was called
    loaded,       \* the slots are known
    open,         \* session handles
    next,         \* next session handle
    asked,        \* thread -> call in progress, or "none"
    answer        \* thread and result of the call that returned last

\* What a client learns: the result of its call and the handles it told of.
Reply(t, code) == [thread |-> t, code |-> code, value |-> {}]
Value(t, handles) == [thread |-> t, code |-> "OK", value |-> handles]
NoAnswer == [thread |-> NoThread]

Init ==
    /\ initialized = FALSE
    /\ loaded = FALSE
    /\ open = {}
    /\ next = 1
    /\ asked = [t \in Threads |-> "none"]
    /\ answer = NoAnswer

Start(t, call) ==
    /\ asked[t] = "none"
    /\ asked' = [asked EXCEPT ![t] = call]
    /\ UNCHANGED <<initialized, loaded, open, next, answer>>

Return(t, reply) ==
    /\ asked' = [asked EXCEPT ![t] = "none"]
    /\ answer' = reply

Unchanged == UNCHANGED <<initialized, loaded, open, next>>

Refuse(t) ==
    /\ asked[t] \notin {"none", "initialize", "discover"}
    /\ ~initialized
    /\ Return(t, Reply(t, "NOT_INITIALIZED"))
    /\ Unchanged

Initialize(t) ==
    /\ asked[t] = "initialize"
    /\ \/ /\ initialized
          /\ Return(t, Reply(t, "ALREADY_INITIALIZED"))
          /\ Unchanged
       \/ /\ ~initialized
          /\ Return(t, Reply(t, "DEVICE_ERROR"))
          /\ Unchanged
       \/ /\ ~initialized
          /\ initialized' = TRUE
          /\ loaded' = TRUE
          /\ Return(t, Reply(t, "OK"))
          /\ UNCHANGED <<open, next>>

Finalize(t) ==
    /\ asked[t] = "finalize"
    /\ initialized
    /\ initialized' = FALSE
    /\ loaded' = FALSE
    /\ open' = {}
    /\ Return(t, Reply(t, "OK"))
    /\ UNCHANGED next

OpenSession(t) ==
    /\ asked[t] = "open"
    /\ initialized
    /\ open' = open \cup {next}
    /\ next' = next + 1
    /\ Return(t, Value(t, {next}))
    /\ UNCHANGED <<initialized, loaded>>

Info(t) ==
    /\ asked[t] = "info"
    /\ initialized
    /\ Return(t, Value(t, open))
    /\ Unchanged

\* Both name a slot, which need not exist.
UnknownSlot(t) ==
    /\ asked[t] \in {"open", "info"}
    /\ initialized
    /\ Return(t, Reply(t, "SLOT_ID_INVALID"))
    /\ Unchanged

Unsupported(t) ==
    /\ asked[t] = "unsupported"
    /\ initialized
    /\ Return(t, Reply(t, "SUPPORTED_BY_NONE"))
    /\ Unchanged

Discover(t) ==
    /\ asked[t] = "discover"
    /\ Return(t, Reply(t, "OK"))
    /\ Unchanged

\* An exception costs a session handle at most.
Fail(t, code) ==
    /\ asked[t] \in {"open", "info"}
    /\ initialized
    /\ Return(t, Reply(t, code))
    /\ next' \in IF asked[t] = "open" THEN {next, next + 1} ELSE {next}
    /\ UNCHANGED <<initialized, loaded, open>>

Next == \E t \in Threads :
    \/ \E call \in Calls : Start(t, call)
    \/ Refuse(t)
    \/ Initialize(t)
    \/ Finalize(t)
    \/ OpenSession(t)
    \/ Info(t)
    \/ UnknownSlot(t)
    \/ Unsupported(t)
    \/ Discover(t)
    \/ \E code \in Exceptions : Fail(t, code)

vars == <<initialized, loaded, open, next, asked, answer>>

Spec == Init /\ [][Next]_vars
=============================================================================
