--------------------------- MODULE ChainlitSession ---------------------------
(***************************************************************************)
(* app/chainlit_ui.py: chat sessions of one server process.  Each session   *)
(* has a lock that is meant to serialise its requests; all of them share a  *)
(* runtime built lazily, in worker threads, under a threading lock.         *)
(*                                                                          *)
(* The steps of a coroutine between two awaits are one action.  A lock      *)
(* object is named after the coroutine that created it.                     *)
(***************************************************************************)
EXTENDS Integers, Sequences

CONSTANTS
  Sessions,
  Messages,           \* questions typed by the users
  SessionOf,          \* SessionOf[m]: the session m is typed in
  Signatures,         \* UiConfig.runtime_signature
  None,
  MaxClarifications,  \* questions one request can be suspended for: its slots
  MaxChanges          \* bound of the model: changes of the environment variables

\* on_chat_start of a session and on_message of a message: whoever may await
\* get_runtime.
Coroutines == Sessions \cup Messages

ASSUME SessionAssumption ==
  /\ SessionOf \in [Messages -> Sessions]
  /\ Sessions \cap Messages = {}
  /\ None \notin Coroutines \cup Signatures
  /\ MaxClarifications \in Nat /\ MaxChanges \in Nat

VARIABLES
  phase,    \* where each coroutine is
  wants,    \* the signature of the UiConfig it read
  rounds,   \* clarifications a message has been suspended for
  lock,     \* user_session[_SESSION_LOCK_KEY]: a lock object or None
  queue,    \* of each lock object: its owner, then its waiters in order
  runtime,  \* _RUNTIME_SIGNATURE, None while there is no runtime
  builder,  \* the thread inside _RUNTIME_LOCK building the runtime
  env,      \* the signature UiConfig.from_env reads
  seen      \* observed: builds, changes, and who came first

vars == <<phase, wants, rounds, lock, queue, runtime, builder, env, seen>>

Init ==
  /\ phase = [c \in Coroutines |-> "new"]
  /\ wants = [c \in Coroutines |-> None]
  /\ rounds = [m \in Messages |-> 0]
  /\ lock = [s \in Sessions |-> None]
  /\ queue = [c \in Coroutines |-> <<>>]
  /\ runtime = None
  /\ builder = None
  /\ env \in Signatures
  /\ seen = [builds |-> 0, changes |-> 0, late |-> {},
             earlier |-> [m \in Messages |-> {}]]

Ended == {"answered", "failed", "timed out", "dismissed", "started"}

\* Sent and neither answered nor still waiting for the session lock.
Running(m) == phase[m] \notin {"new", "queued"} \cup Ended

Replied(m) == phase[m] \in Ended

-----------------------------------------------------------------------------
(* The users and the operator.                                               *)

\* A browser opens a chat: on_chat_start reads the config and awaits the runtime.
OpenChat(s) ==
  /\ phase[s] = "new"
  /\ phase' = [phase EXCEPT ![s] = "runtime"]
  /\ wants' = [wants EXCEPT ![s] = env]
  /\ UNCHANGED <<rounds, lock, queue, runtime, builder, env, seen>>

\* m is sent to a chat that has started, after those in seen.late.
Arrives(m) ==
  [seen EXCEPT !.late = @ \cup {m},
               !.earlier[m] = {n \in seen.late : SessionOf[n] = SessionOf[m]}]

\* Variant: every request makes a lock of its own.
LockOfItsOwn(s, m) == m

\* The lock a request waits for: the session's, made by whoever comes first.
LockFor(s, m) == IF lock[s] = None THEN m ELSE lock[s]

\* on_message up to `async with lock`.  An empty text and a greeting are
\* answered at once; otherwise the session's lock is taken or created.
Send(m) ==
  LET s == SessionOf[m]
  IN  /\ phase[s] # "new" /\ phase[m] = "new"
      /\ \/ /\ phase' = [phase EXCEPT ![m] = "dismissed"]
            /\ UNCHANGED <<lock, queue, seen>>
         \/ /\ phase' = [phase EXCEPT ![m] = "queued"]
            /\ lock' = [lock EXCEPT ![s] = LockFor(s, m)]
            /\ queue' = [queue EXCEPT ![LockFor(s, m)] = Append(@, m)]
            /\ seen' = IF phase[s] \in Ended THEN Arrives(m) ELSE seen
      /\ UNCHANGED <<wants, rounds, runtime, builder, env>>

EnvChange ==
  /\ seen.changes < MaxChanges
  /\ env' \in Signatures \ {env}
  /\ seen' = [seen EXCEPT !.changes = @ + 1]
  /\ UNCHANGED <<phase, wants, rounds, lock, queue, runtime, builder>>

-----------------------------------------------------------------------------
(* get_runtime, in a worker thread.                                          *)

\* Variant: the runtime is looked for before the lock is taken.
NeverLocked == FALSE

\* Someone is inside `with _RUNTIME_LOCK`.
Locked == builder # None

\* Variant: whatever runtime there is serves every configuration.
FitsAny(c) == TRUE

Fits(c) == runtime = wants[c]

\* The thread takes the lock: it builds the first runtime, returns the one there
\* is, or raises because the environment has changed since.
EnterRuntime(c) ==
  /\ phase[c] = "runtime" /\ ~Locked
  /\ IF runtime = None
       THEN /\ builder' = c
            /\ phase' = [phase EXCEPT ![c] = "building"]
       ELSE /\ phase' = [phase EXCEPT ![c] = IF Fits(c) THEN "ready" ELSE "broken"]
            /\ UNCHANGED builder
  /\ UNCHANGED <<wants, rounds, lock, queue, runtime, env, seen>>

\* AppRuntime.build returns, or raises and leaves no runtime behind.
FinishBuild(c) ==
  /\ phase[c] = "building"
  /\ builder' = None
  /\ \/ /\ runtime' = wants[c]
        /\ phase' = [phase EXCEPT ![c] = "ready"]
        /\ seen' = [seen EXCEPT !.builds = @ + 1]
     \/ /\ phase' = [phase EXCEPT ![c] = "broken"]
        /\ UNCHANGED <<runtime, seen>>
  /\ UNCHANGED <<wants, rounds, lock, queue, env>>

\* on_chat_start goes on: a new lock object, whatever is in the session by now.
ChatStarted(s) ==
  /\ phase[s] = "ready"
  /\ phase' = [phase EXCEPT ![s] = "started"]
  /\ lock' = [lock EXCEPT ![s] = s]
  /\ UNCHANGED <<wants, rounds, queue, runtime, builder, env, seen>>

\* The runtime could not start, and the chat says so.
ChatFailed(s) ==
  /\ phase[s] = "broken"
  /\ phase' = [phase EXCEPT ![s] = "failed"]
  /\ UNCHANGED <<wants, rounds, lock, queue, runtime, builder, env, seen>>

-----------------------------------------------------------------------------
(* on_message, inside the lock.                                              *)

\* The lock is acquired: its queue is first come, first served.
Begin(m) ==
  /\ phase[m] = "queued"
  /\ \E c \in Coroutines : queue[c] # <<>> /\ Head(queue[c]) = m
  /\ phase' = [phase EXCEPT ![m] = "runtime"]
  /\ wants' = [wants EXCEPT ![m] = env]
  /\ UNCHANGED <<rounds, lock, queue, runtime, builder, env, seen>>

\* Leaving `async with`, on every path.
Unlocked(m) ==
  [c \in Coroutines |->
     IF queue[c] # <<>> /\ Head(queue[c]) = m THEN Tail(queue[c]) ELSE queue[c]]

\* Variant: the lock is released only by a request that has an answer.
ReplyHolding(m, how) ==
  /\ phase' = [phase EXCEPT ![m] = how]
  /\ queue' = IF how = "answered" THEN Unlocked(m) ELSE queue

Reply(m, how) ==
  /\ phase' = [phase EXCEPT ![m] = how]
  /\ queue' = Unlocked(m)

\* pending_clarification names a slot that has not been asked about yet.
Pending(m) == rounds[m] < MaxClarifications

\* runtime.ask and runtime.resume return: the thread is suspended on one more
\* clarification, or has its answer; or the invocation raises.
GraphReturns(m) ==
  /\ phase[m] \in {"ready", "resuming"}
  /\ \/ /\ Pending(m)
        /\ rounds' = [rounds EXCEPT ![m] = @ + 1]
        /\ phase' = [phase EXCEPT ![m] = "clarifying"]
        /\ UNCHANGED queue
     \/ Reply(m, "answered") /\ UNCHANGED rounds
     \/ Reply(m, "failed") /\ UNCHANGED rounds
  /\ UNCHANGED <<wants, lock, runtime, builder, env, seen>>

\* AskActionMessage: the user picks an option, or 180 seconds pass.
Clarify(m) ==
  /\ phase[m] = "clarifying"
  /\ \/ phase' = [phase EXCEPT ![m] = "resuming"] /\ UNCHANGED queue
     \/ Reply(m, "timed out")
  /\ UNCHANGED <<wants, rounds, lock, runtime, builder, env, seen>>

\* get_runtime raised: the handler answers with an error and leaves the lock.
RequestFailed(m) ==
  /\ phase[m] = "broken"
  /\ Reply(m, "failed")
  /\ UNCHANGED <<wants, rounds, lock, runtime, builder, env, seen>>

-----------------------------------------------------------------------------
ChatStep(s) == EnterRuntime(s) \/ FinishBuild(s) \/ ChatStarted(s) \/ ChatFailed(s)

MessageStep(m) ==
  \/ Begin(m) \/ EnterRuntime(m) \/ FinishBuild(m)
  \/ GraphReturns(m) \/ Clarify(m) \/ RequestFailed(m)

Next ==
  \/ \E s \in Sessions : OpenChat(s) \/ ChatStep(s)
  \/ \E m \in Messages : Send(m) \/ MessageStep(m)
  \/ EnvChange

\* The event loop and the thread pool run what is ready; an unanswered question
\* times out.  Nothing makes a user open a chat or type.
Fairness ==
  /\ \A s \in Sessions : WF_vars(ChatStep(s))
  /\ \A m \in Messages : WF_vars(MessageStep(m))

Spec == Init /\ [][Next]_vars /\ Fairness

-----------------------------------------------------------------------------
(* Properties.                                                               *)

Phases ==
  {"new", "runtime", "building", "ready", "broken", "queued", "clarifying",
   "resuming"} \cup Ended

TypeOK ==
  /\ phase \in [Coroutines -> Phases]
  /\ wants \in [Coroutines -> Signatures \cup {None}]
  /\ rounds \in [Messages -> 0..MaxClarifications]
  /\ lock \in [Sessions -> Coroutines \cup {None}]
  /\ queue \in [Coroutines -> Seq(Messages)]
  /\ runtime \in Signatures \cup {None}
  /\ builder \in Coroutines \cup {None}
  /\ env \in Signatures
  /\ seen \in [builds : Nat, changes : 0..MaxChanges, late : SUBSET Messages,
                earlier : [Messages -> SUBSET Messages]]

\* Once a chat has started, its requests run one at a time in the order they were
\* sent: none starts before every earlier one has its reply.
FirstComeFirstServed ==
  \A n \in Messages : Running(n) \/ Replied(n) =>
    \A m \in seen.earlier[n] : Replied(m)

\* However many chats and messages race for it, the runtime is built once ...
BuiltOnce == seen.builds <= 1

\* ... and no request runs on a runtime built for another configuration.
RuntimeFits ==
  \A m \in Messages :
    phase[m] \in {"ready", "clarifying", "resuming"} => runtime = wants[m]

\* Every question gets a reply: an answer, an error, or the news that the
\* clarification timed out.  A failure never leaves the session locked.
EveryMessageReplied == \A m \in Messages : phase[m] = "queued" ~> Replied(m)

\* README.md: "Each question uses an independent graph thread, while each user
\* session has a lock that serializes its requests."
SessionSerialized ==
  \A m, n \in Messages :
    m # n /\ SessionOf[m] = SessionOf[n] => ~(Running(m) /\ Running(n))

=============================================================================
