------------------------ MODULE ChainlitSessionProofs ------------------------
(***************************************************************************)
(* Order, single build and configuration of the chat sessions, for any      *)
(* number of chats and messages and any assignment of messages to chats.    *)
(***************************************************************************)
EXTENDS ChainlitSession, SequenceTheorems, TLAPS

-----------------------------------------------------------------------------
(* The runtime: who builds it, and for which configuration.                   *)

Configured == {"runtime", "building", "ready", "broken", "clarifying", "resuming"}

\* A coroutine inside get_runtime or beyond has read a configuration.
ConfigRead == \A c \in Coroutines : phase[c] \in Configured => wants[c] \in Signatures

\* One thread builds at a time, and only the first runtime.
OneBuilder ==
  \A c \in Coroutines : phase[c] = "building" => builder = c /\ runtime = None

\* Builds are counted; there is a runtime after the first.
BuildsCounted == seen.builds = IF runtime = None THEN 0 ELSE 1

\* Whoever has a runtime has the one there is, built for its configuration.
Served ==
  \A c \in Coroutines :
    phase[c] \in {"ready", "clarifying", "resuming"} => runtime = wants[c]

RuntimeInv == ConfigRead /\ OneBuilder /\ BuildsCounted /\ Served

-----------------------------------------------------------------------------
(* The locks: who owns them, and who waits in which order.                    *)

\* m is the i-th in the queue of the lock c.
At(c, i, m) == i \in 1..Len(queue[c]) /\ queue[c][i] = m

\* Whoever is in a queue was sent and has no reply.
QueuedWait ==
  \A c \in Coroutines, i \in Nat, m \in Messages :
    At(c, i, m) => phase[m] \notin {"new"} \cup Ended

\* A message has one place, in one queue.
OnePlace ==
  \A c, d \in Coroutines, i, j \in Nat, m \in Messages :
    At(c, i, m) /\ At(d, j, m) => c = d /\ i = j

\* A message that runs owns a lock.
RunningOwns ==
  \A m \in Messages : Running(m) => \E c \in Coroutines : At(c, 1, m)

\* A message of a chat that has started waits for the lock the chat has, for good.
LateWait ==
  \A n \in seen.late :
    /\ phase[SessionOf[n]] \in Ended /\ lock[SessionOf[n]] \in Coroutines
    /\ Replied(n) \/ \E i \in Nat : At(lock[SessionOf[n]], i, n)

\* Whoever came earlier has its reply or is further ahead.
InOrder ==
  \A n \in Messages : \A m \in seen.earlier[n] :
    /\ n \in seen.late /\ m \in seen.late /\ SessionOf[m] = SessionOf[n]
    /\ \/ Replied(m)
       \/ \E i, j \in Nat : /\ i < j
                            /\ At(lock[SessionOf[n]], i, m) /\ At(lock[SessionOf[n]], j, n)

QueueInv == QueuedWait /\ OnePlace /\ RunningOwns /\ LateWait /\ InOrder

Inv == TypeOK /\ RuntimeInv /\ QueueInv

LEMMA Kinds ==
  /\ Sessions \subseteq Coroutines /\ Messages \subseteq Coroutines
  /\ Sessions \cap Messages = {} /\ SessionOf \in [Messages -> Sessions]
  /\ None \notin Signatures /\ None \notin Coroutines
  /\ MaxClarifications \in Nat /\ MaxChanges \in Nat
BY SessionAssumption DEF Coroutines

LEMMA InvInit == Init => Inv
<1>. SUFFICES ASSUME Init PROVE Inv OBVIOUS
<1>. USE Kinds DEF Init
<1>1. TypeOK
  <2>1. queue \in [Coroutines -> Seq(Messages)] BY EmptySeq
  <2>. QED BY <2>1 DEF TypeOK, Phases
<1>2. RuntimeInv
  BY DEF RuntimeInv, ConfigRead, OneBuilder, BuildsCounted, Served, Configured
<1>3. \A c \in Coroutines, i \in Nat, m \in Messages : ~At(c, i, m)
  BY EmptySeq DEF At
<1>4. QueueInv
  BY <1>3 DEF QueueInv, QueuedWait, OnePlace, RunningOwns, LateWait, InOrder, Running
<1>. QED BY <1>1, <1>2, <1>4 DEF Inv

-----------------------------------------------------------------------------
(* Types.                                                                    *)

LEMMA UnlockedType ==
  ASSUME TypeOK, NEW m \in Messages
  PROVE  Unlocked(m) \in [Coroutines -> Seq(Messages)]
<1>1. ASSUME NEW c \in Coroutines
      PROVE  (IF queue[c] # <<>> /\ Head(queue[c]) = m THEN Tail(queue[c]) ELSE queue[c])
               \in Seq(Messages)
  BY HeadTailProperties DEF TypeOK
<1>. QED BY <1>1 DEF Unlocked

LEMMA ReplyTypes ==
  ASSUME TypeOK, NEW m \in Messages, NEW how \in Ended, Reply(m, how)
  PROVE  /\ phase' \in [Coroutines -> Phases]
         /\ queue' \in [Coroutines -> Seq(Messages)]
BY Kinds, UnlockedType DEF Reply, TypeOK, Phases

\* A message that is sent is answered at once, or queued for the lock of its chat.
LEMMA SendCases ==
  ASSUME NEW m \in Messages, Send(m)
  PROVE  /\ phase[m] = "new" /\ UNCHANGED <<wants, rounds, runtime, builder, env>>
         /\ \/ phase' = [phase EXCEPT ![m] = "dismissed"] /\ UNCHANGED <<lock, queue, seen>>
            \/ /\ phase' = [phase EXCEPT ![m] = "queued"]
               /\ lock' = [lock EXCEPT ![SessionOf[m]] = LockFor(SessionOf[m], m)]
               /\ queue' = [queue EXCEPT ![LockFor(SessionOf[m], m)] =
                              Append(queue[LockFor(SessionOf[m], m)], m)]
               /\ seen' = IF phase[SessionOf[m]] \in Ended THEN Arrives(m) ELSE seen
BY DEF Send

LEMMA SendTypes == ASSUME TypeOK, NEW m \in Messages, Send(m) PROVE TypeOK'
<1>. USE Kinds
<1>0. SessionOf[m] \in Sessions /\ LockFor(SessionOf[m], m) \in Coroutines
  BY DEF LockFor, TypeOK
<1>1. CASE phase' = [phase EXCEPT ![m] = "dismissed"] /\ UNCHANGED <<lock, queue, seen>>
  BY <1>1, SendCases DEF TypeOK, Phases, Ended
<1>2. CASE /\ phase' = [phase EXCEPT ![m] = "queued"]
           /\ lock' = [lock EXCEPT ![SessionOf[m]] = LockFor(SessionOf[m], m)]
           /\ queue' = [queue EXCEPT ![LockFor(SessionOf[m], m)] =
                          Append(queue[LockFor(SessionOf[m], m)], m)]
           /\ seen' = IF phase[SessionOf[m]] \in Ended THEN Arrives(m) ELSE seen
  <2>1. Append(queue[LockFor(SessionOf[m], m)], m) \in Seq(Messages)
    BY <1>0, AppendProperties DEF TypeOK
  <2>2. queue' \in [Coroutines -> Seq(Messages)] BY <1>0, <1>2, <2>1 DEF TypeOK
  <2>3. lock' \in [Sessions -> Coroutines \cup {None}] BY <1>0, <1>2 DEF TypeOK
  <2>4. phase' \in [Coroutines -> Phases] BY <1>2 DEF TypeOK, Phases
  <2>5. Arrives(m) \in [builds : Nat, changes : 0..MaxChanges, late : SUBSET Messages,
                        earlier : [Messages -> SUBSET Messages]]
    <3>1. {n \in seen.late : SessionOf[n] = SessionOf[m]} \in SUBSET Messages BY DEF TypeOK
    <3>2. seen.earlier \in [Messages -> SUBSET Messages] BY DEF TypeOK
    <3>3. seen.late \cup {m} \in SUBSET Messages BY DEF TypeOK
    <3>. QED BY <3>1, <3>2, <3>3 DEF Arrives, TypeOK
  <2>. QED BY <1>2, <2>2, <2>3, <2>4, <2>5, SendCases DEF TypeOK
<1>. QED BY <1>1, <1>2, SendCases

LEMMA TypesKept == ASSUME TypeOK, Next PROVE TypeOK'
<1>. USE Kinds
<1>1. ASSUME NEW s \in Sessions, OpenChat(s) PROVE TypeOK'
  BY <1>1 DEF OpenChat, TypeOK, Phases
<1>2. ASSUME NEW c \in Coroutines, EnterRuntime(c) PROVE TypeOK'
  BY <1>2 DEF EnterRuntime, TypeOK, Phases
<1>3. ASSUME NEW c \in Coroutines, FinishBuild(c) PROVE TypeOK'
  <2>1. phase' \in [Coroutines -> Phases] BY <1>3 DEF FinishBuild, TypeOK, Phases
  <2>2. runtime' \in Signatures \cup {None} BY <1>3 DEF FinishBuild, TypeOK
  <2>3. seen' \in [builds : Nat, changes : 0..MaxChanges, late : SUBSET Messages,
                   earlier : [Messages -> SUBSET Messages]]
    <3>1. seen.builds + 1 \in Nat BY DEF TypeOK
    <3>. QED BY <1>3, <3>1 DEF FinishBuild, TypeOK
  <2>. QED BY <1>3, <2>1, <2>2, <2>3 DEF FinishBuild, TypeOK
<1>4. ASSUME NEW s \in Sessions, ChatStarted(s) \/ ChatFailed(s) PROVE TypeOK'
  <2>1. phase' \in [Coroutines -> Phases]
    BY <1>4 DEF ChatStarted, ChatFailed, TypeOK, Phases, Ended
  <2>2. lock' \in [Sessions -> Coroutines \cup {None}]
    BY <1>4 DEF ChatStarted, ChatFailed, TypeOK
  <2>. QED BY <1>4, <2>1, <2>2 DEF ChatStarted, ChatFailed, TypeOK
<1>5. ASSUME NEW m \in Messages, Begin(m) PROVE TypeOK'
  BY <1>5 DEF Begin, TypeOK, Phases
<1>6. ASSUME NEW m \in Messages, GraphReturns(m) PROVE TypeOK'
  <2>1. CASE /\ Pending(m) /\ rounds' = [rounds EXCEPT ![m] = @ + 1]
             /\ phase' = [phase EXCEPT ![m] = "clarifying"] /\ UNCHANGED queue
    <3>1. rounds[m] + 1 \in 0..MaxClarifications BY <2>1 DEF Pending, TypeOK
    <3>. QED BY <1>6, <2>1, <3>1 DEF GraphReturns, TypeOK, Phases
  <2>2. ASSUME NEW how \in Ended, Reply(m, how), UNCHANGED rounds PROVE TypeOK'
    BY <1>6, <2>2, ReplyTypes DEF GraphReturns, TypeOK
  <2>. QED BY <1>6, <2>1, <2>2 DEF GraphReturns, Ended
<1>7. ASSUME NEW m \in Messages, Clarify(m) PROVE TypeOK'
  <2>1. CASE phase' = [phase EXCEPT ![m] = "resuming"] /\ UNCHANGED queue
    BY <1>7, <2>1 DEF Clarify, TypeOK, Phases
  <2>2. CASE Reply(m, "timed out")
    BY <1>7, <2>2, ReplyTypes DEF Clarify, TypeOK, Ended
  <2>. QED BY <1>7, <2>1, <2>2 DEF Clarify
<1>8. ASSUME NEW m \in Messages, RequestFailed(m) PROVE TypeOK'
  BY <1>8, ReplyTypes DEF RequestFailed, TypeOK, Ended
<1>9. CASE EnvChange
  <2>1. seen.changes + 1 \in 0..MaxChanges BY <1>9 DEF EnvChange, TypeOK
  <2>. QED BY <1>9, <2>1 DEF EnvChange, TypeOK
<1>. QED BY <1>1, <1>2, <1>3, <1>4, <1>5, <1>6, <1>7, <1>8, <1>9, SendTypes
     DEF Next, ChatStep, MessageStep

-----------------------------------------------------------------------------
(* The runtime.                                                              *)

\* Neither a phase outside get_runtime nor the user changes who builds what.
LEMMA RuntimeUntouched ==
  ASSUME TypeOK, RuntimeInv, NEW c \in Coroutines, NEW p, phase' = [phase EXCEPT ![c] = p],
         UNCHANGED <<runtime, builder>>, seen'.builds = seen.builds,
         \/ p \notin Configured /\ UNCHANGED wants
         \/ p = "runtime" /\ wants' = [wants EXCEPT ![c] = env]
         \/ /\ p \in {"clarifying", "resuming"} /\ UNCHANGED wants
            /\ phase[c] \in {"ready", "clarifying", "resuming"}
  PROVE  RuntimeInv'
<1>0. \A d \in Coroutines : phase'[d] = IF d = c THEN p ELSE phase[d] BY DEF TypeOK
<1>1. ConfigRead' BY <1>0 DEF RuntimeInv, ConfigRead, Configured, TypeOK
<1>2. OneBuilder' BY <1>0 DEF RuntimeInv, OneBuilder, Configured
<1>3. BuildsCounted' BY DEF RuntimeInv, BuildsCounted
<1>4. Served' BY <1>0 DEF RuntimeInv, Served, Configured, TypeOK
<1>. QED BY <1>1, <1>2, <1>3, <1>4 DEF RuntimeInv

LEMMA EnterRuntimeKeeps ==
  ASSUME TypeOK, RuntimeInv, NEW c \in Coroutines, EnterRuntime(c) PROVE RuntimeInv'
<1>0. wants[c] \in Signatures BY DEF RuntimeInv, ConfigRead, Configured, EnterRuntime
<1>1. \A d \in Coroutines : phase[d] # "building"
  BY Kinds DEF RuntimeInv, OneBuilder, EnterRuntime, Locked
<1>2. CASE runtime = None
  <2>1. \A d \in Coroutines : phase'[d] = IF d = c THEN "building" ELSE phase[d]
    BY <1>2 DEF EnterRuntime, TypeOK
  <2>. QED BY <1>0, <1>1, <1>2, <2>1
       DEF EnterRuntime, RuntimeInv, ConfigRead, OneBuilder, BuildsCounted, Served, Configured
<1>3. CASE runtime # None
  <2>1. \A d \in Coroutines :
          phase'[d] = IF d = c THEN IF Fits(c) THEN "ready" ELSE "broken" ELSE phase[d]
    BY <1>3 DEF EnterRuntime, TypeOK
  <2>. QED BY <1>0, <1>1, <1>3, <2>1
       DEF EnterRuntime, RuntimeInv, ConfigRead, OneBuilder, BuildsCounted, Served, Configured,
           Fits
<1>. QED BY <1>2, <1>3

LEMMA FinishBuildKeeps ==
  ASSUME TypeOK, RuntimeInv, NEW c \in Coroutines, FinishBuild(c) PROVE RuntimeInv'
<1>0. /\ wants[c] \in Signatures /\ wants[c] # None /\ runtime = None /\ seen.builds = 0
      /\ \A d \in Coroutines : phase[d] = "building" => d = c
  BY Kinds DEF RuntimeInv, ConfigRead, Configured, OneBuilder, BuildsCounted, FinishBuild
<1>1. CASE /\ runtime' = wants[c] /\ phase' = [phase EXCEPT ![c] = "ready"]
           /\ seen' = [seen EXCEPT !.builds = @ + 1]
  <2>1. \A d \in Coroutines : phase'[d] = IF d = c THEN "ready" ELSE phase[d]
    BY <1>1 DEF TypeOK
  <2>2. seen'.builds = 1 BY <1>0, <1>1 DEF TypeOK
  <2>3. \A d \in Coroutines : phase[d] \in {"ready", "clarifying", "resuming"} => FALSE
    BY <1>0, Kinds DEF RuntimeInv, Served, ConfigRead, Configured
  <2>. QED BY <1>0, <1>1, <2>1, <2>2, <2>3
       DEF FinishBuild, RuntimeInv, ConfigRead, OneBuilder, BuildsCounted, Served, Configured
<1>2. CASE phase' = [phase EXCEPT ![c] = "broken"] /\ UNCHANGED <<runtime, seen>>
  <2>1. \A d \in Coroutines : phase'[d] = IF d = c THEN "broken" ELSE phase[d]
    BY <1>2 DEF TypeOK
  <2>. QED BY <1>0, <1>2, <2>1
       DEF FinishBuild, RuntimeInv, ConfigRead, OneBuilder, BuildsCounted, Served, Configured
<1>. QED BY <1>1, <1>2 DEF FinishBuild

LEMMA RuntimeKept == ASSUME TypeOK, RuntimeInv, Next PROVE RuntimeInv'
<1>. USE Kinds
<1>1. ASSUME NEW s \in Sessions, OpenChat(s) PROVE RuntimeInv'
  BY <1>1, RuntimeUntouched DEF OpenChat
<1>2. ASSUME NEW s \in Sessions, ChatStarted(s) \/ ChatFailed(s) PROVE RuntimeInv'
  BY <1>2, RuntimeUntouched DEF ChatStarted, ChatFailed, Configured
<1>3. ASSUME NEW m \in Messages, Send(m) PROVE RuntimeInv'
  <2>0. seen \in [builds : Nat, changes : 0..MaxChanges, late : SUBSET Messages,
                  earlier : [Messages -> SUBSET Messages]]
    BY DEF TypeOK
  <2>1. Arrives(m).builds = seen.builds BY <2>0 DEF Arrives
  <2>2. seen'.builds = seen.builds BY <1>3, <2>1, SendCases
  <2>. QED BY <1>3, <2>2, SendCases, RuntimeUntouched DEF Configured
<1>4. ASSUME NEW m \in Messages, Begin(m) PROVE RuntimeInv'
  BY <1>4, RuntimeUntouched DEF Begin
<1>5. ASSUME NEW m \in Messages, NEW how \in Ended, Reply(m, how),
             UNCHANGED <<wants, runtime, builder, seen>>
      PROVE  RuntimeInv'
  BY <1>5, RuntimeUntouched DEF Reply, Ended, Configured
<1>6. ASSUME NEW m \in Messages, GraphReturns(m) PROVE RuntimeInv'
  <2>1. CASE phase' = [phase EXCEPT ![m] = "clarifying"]
    BY <1>6, <2>1, RuntimeUntouched DEF GraphReturns
  <2>. QED BY <1>5, <1>6, <2>1 DEF GraphReturns, Ended
<1>7. ASSUME NEW m \in Messages, Clarify(m) PROVE RuntimeInv'
  <2>1. CASE phase' = [phase EXCEPT ![m] = "resuming"]
    BY <1>7, <2>1, RuntimeUntouched DEF Clarify
  <2>. QED BY <1>5, <1>7, <2>1 DEF Clarify, Ended
<1>8. ASSUME NEW m \in Messages, RequestFailed(m) PROVE RuntimeInv'
  BY <1>5, <1>8 DEF RequestFailed, Ended
<1>9. CASE EnvChange
  BY <1>9 DEF EnvChange, TypeOK, RuntimeInv, ConfigRead, OneBuilder, BuildsCounted, Served
<1>. QED BY <1>1, <1>2, <1>3, <1>4, <1>6, <1>7, <1>8, <1>9, EnterRuntimeKeeps,
            FinishBuildKeeps
     DEF Next, ChatStep, MessageStep

-----------------------------------------------------------------------------
(* The locks.                                                                *)

\* Nobody is queued before being sent or after the reply.
LEMMA Places ==
  ASSUME TypeOK, NEW c \in Coroutines, NEW i, NEW m, At(c, i, m)
  PROVE  m \in Messages /\ i \in Nat \ {0} /\ i <= Len(queue[c]) /\ queue[c] # <<>>
<1>1. queue[c] \in Seq(Messages) BY DEF TypeOK
<1>2. Len(queue[c]) \in Nat BY <1>1, LenProperties
<1>. QED BY <1>1, <1>2, EmptySeq, ElementOfSeq DEF At

\* No message arrives.
SameOrder == seen'.late = seen.late /\ seen'.earlier = seen.earlier

\* A chat goes on: nothing that its messages wait for changes, for none is late yet.
LEMMA ChatGoes ==
  ASSUME TypeOK, QueueInv, NEW s \in Sessions, NEW p, phase' = [phase EXCEPT ![s] = p],
         phase[s] \notin Ended, UNCHANGED queue, SameOrder,
         lock' = lock \/ lock' = [lock EXCEPT ![s] = s]
  PROVE  QueueInv'
<1>. USE Kinds DEF SameOrder
<1>0. /\ \A m \in Messages : phase'[m] = phase[m]
      /\ \A d \in Sessions : d # s => phase'[d] = phase[d] /\ lock'[d] = lock[d]
      /\ \A c, i, m : At(c, i, m)' <=> At(c, i, m)
  BY DEF TypeOK, At
<1>1. \A n \in seen.late : n \in Messages /\ SessionOf[n] \in Sessions /\ SessionOf[n] # s
  BY DEF QueueInv, LateWait, TypeOK
<1>2. QueuedWait' BY <1>0 DEF QueueInv, QueuedWait
<1>3. OnePlace' BY <1>0 DEF QueueInv, OnePlace
<1>4. RunningOwns' BY <1>0 DEF QueueInv, RunningOwns, Running
<1>5. LateWait' BY <1>0, <1>1 DEF QueueInv, LateWait, Replied
<1>6. InOrder' BY <1>0, <1>1 DEF QueueInv, InOrder, Replied
<1>. QED BY <1>2, <1>3, <1>4, <1>5, <1>6 DEF QueueInv

\* The owner of a lock goes on inside it.
LEMMA OwnerGoes ==
  ASSUME TypeOK, QueueInv, NEW m \in Messages, NEW p, phase' = [phase EXCEPT ![m] = p],
         p \notin {"new"} \cup Ended, \E c \in Coroutines : At(c, 1, m),
         UNCHANGED <<lock, queue>>, SameOrder
  PROVE  QueueInv'
<1>. USE Kinds DEF SameOrder
<1>0. /\ \A n \in Messages : phase'[n] = IF n = m THEN p ELSE phase[n]
      /\ \A d \in Sessions : phase'[d] = phase[d]
      /\ \A c, i, n : At(c, i, n)' <=> At(c, i, n)
  BY DEF TypeOK, At
<1>1. phase[m] \notin {"new"} \cup Ended BY DEF QueueInv, QueuedWait
<1>2. \A n \in Messages : Replied(n)' <=> Replied(n) BY <1>0, <1>1 DEF Replied
<1>3. QueuedWait' BY <1>0 DEF QueueInv, QueuedWait
<1>4. OnePlace' BY <1>0 DEF QueueInv, OnePlace
<1>5. RunningOwns' BY <1>0 DEF QueueInv, RunningOwns, Running
<1>6. LateWait'
  <2>1. \A n \in seen.late : n \in Messages /\ SessionOf[n] \in Sessions BY DEF TypeOK
  <2>. QED BY <1>0, <1>2, <2>1 DEF QueueInv, LateWait
<1>7. InOrder'
  <2>1. \A n \in Messages : seen.earlier[n] \subseteq Messages BY DEF TypeOK
  <2>. QED BY <1>0, <1>2, <2>1 DEF QueueInv, InOrder
<1>. QED BY <1>3, <1>4, <1>5, <1>6, <1>7 DEF QueueInv

\* Leaving a lock, everybody behind moves up by one.
LEMMA MovesUp ==
  ASSUME TypeOK, NEW m \in Messages, queue' = Unlocked(m), NEW c \in Coroutines,
         NEW i \in Nat \ {0}, NEW n
  PROVE  At(c, i, n)' <=> IF At(c, 1, m) THEN At(c, i + 1, n) ELSE At(c, i, n)
<1>1. queue[c] \in Seq(Messages) /\ Len(queue[c]) \in Nat BY LenProperties DEF TypeOK
<1>2. queue'[c] = IF queue[c] # <<>> /\ Head(queue[c]) = m THEN Tail(queue[c]) ELSE queue[c]
  BY DEF Unlocked
<1>3. queue[c] # <<>> /\ Head(queue[c]) = m <=> At(c, 1, m)
  BY <1>1, EmptySeq DEF At
<1>4. CASE At(c, 1, m)
  <2>1. queue[c] # <<>> /\ queue'[c] = Tail(queue[c]) BY <1>2, <1>3, <1>4
  <2>2. /\ Len(queue'[c]) = Len(queue[c]) - 1
        /\ \A k \in 1..Len(queue'[c]) : queue'[c][k] = queue[c][k + 1]
    BY <1>1, <2>1, HeadTailProperties
  <2>. QED BY <1>1, <1>4, <2>2 DEF At
<1>5. CASE ~At(c, 1, m)
  <2>1. queue'[c] = queue[c] BY <1>2, <1>3, <1>5
  <2>. QED BY <1>5, <2>1 DEF At
<1>. QED BY <1>4, <1>5

LEMMA ReplyKeeps ==
  ASSUME TypeOK, QueueInv, NEW m \in Messages, NEW how \in Ended, Reply(m, how), Running(m),
         UNCHANGED <<lock, seen>>
  PROVE  QueueInv'
<1>. USE Kinds
<1>0. /\ \A n \in Messages : phase'[n] = IF n = m THEN how ELSE phase[n]
      /\ \A d \in Sessions : phase'[d] = phase[d]
      /\ queue' = Unlocked(m)
  BY DEF Reply, TypeOK
<1>1. PICK own \in Coroutines : At(own, 1, m) BY DEF QueueInv, RunningOwns
<1>2. \A c \in Coroutines, i \in Nat : At(c, i, m) => c = own /\ i = 1
  BY <1>1 DEF QueueInv, OnePlace
<1>3. \A n \in Messages : Replied(n)' <=> n = m \/ Replied(n) BY <1>0 DEF Replied
<1>4. \A c \in Coroutines, i \in Nat : \A n :
        At(c, i, n)' => /\ i # 0 /\ n \in Messages /\ n # m
                        /\ IF c = own THEN At(c, i + 1, n) ELSE At(c, i, n)
  <2>. SUFFICES ASSUME NEW c \in Coroutines, NEW i \in Nat, NEW n, At(c, i, n)'
                PROVE  /\ i # 0 /\ n \in Messages /\ n # m
                       /\ IF c = own THEN At(c, i + 1, n) ELSE At(c, i, n)
    OBVIOUS
  <2>1. i # 0 BY DEF At
  <2>2. IF c = own THEN At(c, i + 1, n) ELSE At(c, i, n)
    BY <1>0, <1>1, <1>2, <2>1, MovesUp
  <2>3. n \in Messages BY <2>2, Places
  <2>. QED BY <1>2, <2>1, <2>2, <2>3
<1>5. \A c \in Coroutines, i \in Nat, n \in Messages :
        At(c, i, n) /\ n # m => \/ c = own /\ i > 1 /\ At(c, i - 1, n)'
                                \/ c # own /\ At(c, i, n)'
  <2>. SUFFICES ASSUME NEW c \in Coroutines, NEW i \in Nat, NEW n \in Messages,
                       At(c, i, n), n # m
                PROVE  \/ c = own /\ i > 1 /\ At(c, i - 1, n)'
                       \/ c # own /\ At(c, i, n)'
    OBVIOUS
  <2>1. i # 0 BY Places
  <2>2. CASE c = own
    <3>1. i # 1 BY <1>1, <2>2 DEF At
    <3>2. i - 1 \in Nat \ {0} /\ (i - 1) + 1 = i BY <2>1, <3>1
    <3>. QED BY <1>0, <1>1, <2>2, <3>1, <3>2, <2>1, MovesUp
  <2>3. CASE c # own
    <3>1. ~At(c, 1, m) BY <1>2, <2>3
    <3>. QED BY <1>0, <2>1, <2>3, <3>1, MovesUp
  <2>. QED BY <2>2, <2>3
<1>6. QueuedWait'
  <2>. SUFFICES ASSUME NEW c \in Coroutines, NEW i \in Nat, NEW n \in Messages, At(c, i, n)'
                PROVE  phase'[n] \notin {"new"} \cup Ended
    BY DEF QueuedWait
  <2>1. n # m /\ \E k \in Nat : At(c, k, n) BY <1>4
  <2>. QED BY <1>0, <2>1 DEF QueueInv, QueuedWait
<1>7. OnePlace'
  <2>. SUFFICES ASSUME NEW c \in Coroutines, NEW d \in Coroutines, NEW i \in Nat,
                       NEW j \in Nat, NEW n \in Messages, At(c, i, n)', At(d, j, n)'
                PROVE  c = d /\ i = j
    BY DEF OnePlace
  <2>1. IF c = own THEN At(c, i + 1, n) ELSE At(c, i, n) BY <1>4
  <2>2. IF d = own THEN At(d, j + 1, n) ELSE At(d, j, n) BY <1>4
  <2>. QED BY <2>1, <2>2 DEF QueueInv, OnePlace
<1>8. RunningOwns'
  <2>. SUFFICES ASSUME NEW n \in Messages, Running(n)'
                PROVE  \E c \in Coroutines : At(c, 1, n)'
    BY DEF RunningOwns
  <2>1. n # m /\ Running(n) BY <1>0 DEF Running
  <2>2. PICK c \in Coroutines : At(c, 1, n) BY <2>1 DEF QueueInv, RunningOwns
  <2>. QED BY <1>5, <2>1, <2>2
<1>9. LateWait'
  <2>. SUFFICES ASSUME NEW n \in seen.late
                PROVE  /\ phase'[SessionOf[n]] \in Ended /\ lock[SessionOf[n]] \in Coroutines
                       /\ Replied(n)' \/ \E i \in Nat : At(lock[SessionOf[n]], i, n)'
    BY DEF LateWait
  <2>0. n \in Messages /\ SessionOf[n] \in Sessions BY DEF TypeOK
  <2>1. /\ phase[SessionOf[n]] \in Ended /\ lock[SessionOf[n]] \in Coroutines
        /\ Replied(n) \/ \E i \in Nat : At(lock[SessionOf[n]], i, n)
    BY DEF QueueInv, LateWait
  <2>2. CASE Replied(n) \/ n = m BY <1>0, <1>3, <2>0, <2>1, <2>2
  <2>3. CASE ~Replied(n) /\ n # m
    <3>1. PICK i \in Nat : At(lock[SessionOf[n]], i, n) BY <2>1, <2>3
    <3>2. i > 1 => i - 1 \in Nat OBVIOUS
    <3>3. \E k \in Nat : At(lock[SessionOf[n]], k, n)' BY <1>5, <2>0, <2>1, <2>3, <3>1, <3>2
    <3>. QED BY <1>0, <2>0, <2>1, <3>3
  <2>. QED BY <2>2, <2>3
<1>10. InOrder'
  <2>. SUFFICES ASSUME NEW n \in Messages, NEW e \in seen.earlier[n]
                PROVE  /\ n \in seen.late /\ e \in seen.late /\ SessionOf[e] = SessionOf[n]
                       /\ \/ Replied(e)'
                          \/ \E i, j \in Nat : /\ i < j /\ At(lock[SessionOf[n]], i, e)'
                                               /\ At(lock[SessionOf[n]], j, n)'
    BY DEF InOrder
  <2>0. e \in Messages BY DEF TypeOK
  <2>1. /\ n \in seen.late /\ e \in seen.late /\ SessionOf[e] = SessionOf[n]
        /\ \/ Replied(e)
           \/ \E i, j \in Nat : /\ i < j /\ At(lock[SessionOf[n]], i, e)
                                /\ At(lock[SessionOf[n]], j, n)
    BY DEF QueueInv, InOrder
  <2>2. PICK q \in Coroutines : q = lock[SessionOf[n]] BY <2>1 DEF QueueInv, LateWait
  <2>3. CASE Replied(e) \/ e = m BY <1>3, <2>0, <2>1, <2>3
  <2>4. CASE ~Replied(e) /\ e # m
    <3>1. PICK i \in Nat, j \in Nat : i < j /\ At(q, i, e) /\ At(q, j, n) BY <2>1, <2>2, <2>4
    <3>2. i # 0 BY <2>2, <3>1, Places
    <3>3. n # m
      <4>1. SUFFICES ASSUME n = m PROVE FALSE OBVIOUS
      <4>2. j = 1 BY <1>2, <2>2, <3>1, <4>1
      <4>. QED BY <3>1, <3>2, <4>2
    <3>4. \E k, l \in Nat : k < l /\ At(q, k, e)' /\ At(q, l, n)'
      <4>1. CASE q = own
        <5>1. /\ i - 1 \in Nat /\ j - 1 \in Nat /\ i - 1 < j - 1 BY <3>1, <3>2
        <5>2. At(q, i - 1, e)' /\ At(q, j - 1, n)' BY <1>5, <2>0, <2>2, <2>4, <3>1, <3>3, <4>1
        <5>. QED BY <5>1, <5>2
      <4>2. CASE q # own BY <1>5, <2>0, <2>2, <2>4, <3>1, <3>3, <4>2
      <4>. QED BY <4>1, <4>2
    <3>. QED BY <2>1, <2>2, <3>4
  <2>. QED BY <2>3, <2>4
<1>. QED BY <1>6, <1>7, <1>8, <1>9, <1>10 DEF QueueInv

\* A greeting is answered at once and queues nowhere.
LEMMA DismissedKeeps ==
  ASSUME TypeOK, QueueInv, NEW m \in Messages, phase[m] = "new",
         phase' = [phase EXCEPT ![m] = "dismissed"], UNCHANGED <<lock, queue, seen>>
  PROVE  QueueInv'
<1>. USE Kinds
<1>0. /\ \A n \in Messages : phase'[n] = IF n = m THEN "dismissed" ELSE phase[n]
      /\ \A d \in Sessions : phase'[d] = phase[d]
      /\ \A c, i, n : At(c, i, n)' <=> At(c, i, n)
  BY DEF TypeOK, At
<1>1. \A c \in Coroutines, i \in Nat : ~At(c, i, m) BY DEF QueueInv, QueuedWait
<1>2. \A n \in Messages : Replied(n) => Replied(n)' BY <1>0 DEF Replied, Ended
<1>3. QueuedWait' BY <1>0, <1>1 DEF QueueInv, QueuedWait
<1>4. OnePlace' BY <1>0 DEF QueueInv, OnePlace
<1>5. RunningOwns' BY <1>0 DEF QueueInv, RunningOwns, Running, Ended
<1>6. LateWait'
  <2>1. \A n \in seen.late : n \in Messages /\ SessionOf[n] \in Sessions BY DEF TypeOK
  <2>. QED BY <1>0, <1>2, <2>1 DEF QueueInv, LateWait
<1>7. InOrder'
  <2>1. \A n \in Messages : seen.earlier[n] \subseteq Messages BY DEF TypeOK
  <2>. QED BY <1>0, <1>2, <2>1 DEF QueueInv, InOrder
<1>. QED BY <1>3, <1>4, <1>5, <1>6, <1>7 DEF QueueInv

\* A message joins the end of the queue of the lock of its chat.
LEMMA QueuedKeeps ==
  ASSUME TypeOK, QueueInv, NEW m \in Messages, NEW q \in Coroutines, phase[m] = "new",
         q = LockFor(SessionOf[m], m),
         phase' = [phase EXCEPT ![m] = "queued"],
         lock' = [lock EXCEPT ![SessionOf[m]] = q],
         queue' = [queue EXCEPT ![q] = Append(queue[q], m)],
         seen' = IF phase[SessionOf[m]] \in Ended THEN Arrives(m) ELSE seen
  PROVE  QueueInv'
<1>. USE Kinds
<1>0. /\ \A n \in Messages : phase'[n] = IF n = m THEN "queued" ELSE phase[n]
      /\ \A d \in Sessions : phase'[d] = phase[d]
      /\ \A d \in Sessions : lock'[d] = IF d = SessionOf[m] THEN q ELSE lock[d]
      /\ "queued" \notin {"new"} \cup Ended
  BY DEF TypeOK, Ended
<1>1. \A c \in Coroutines, i \in Nat : ~At(c, i, m) BY DEF QueueInv, QueuedWait
<1>2. PICK end \in Nat : end = Len(queue[q]) + 1
  BY LenProperties DEF TypeOK
<1>a. \A c \in Coroutines, i \in Nat : \A n :
        At(c, i, n)' <=> At(c, i, n) \/ (c = q /\ n = m /\ i = end)
  <2>. SUFFICES ASSUME NEW c \in Coroutines, NEW i \in Nat, NEW n
                PROVE  At(c, i, n)' <=> At(c, i, n) \/ (c = q /\ n = m /\ i = end)
    OBVIOUS
  <2>1. queue[q] \in Seq(Messages) /\ Len(queue[q]) \in Nat BY LenProperties DEF TypeOK
  <2>2. CASE c = q
    <3>1. queue'[c] = Append(queue[q], m) BY <2>2 DEF TypeOK
    <3>2. /\ Len(queue'[c]) = end
          /\ \A k \in 1..Len(queue[q]) : queue'[c][k] = queue[q][k]
          /\ queue'[c][end] = m
      BY <1>2, <2>1, <3>1, AppendProperties
    <3>. QED BY <1>2, <2>1, <2>2, <3>2 DEF At
  <2>3. CASE c # q BY <2>3 DEF At, TypeOK
  <2>. QED BY <2>2, <2>3
<1>3. \A i \in Nat : \A n : At(q, i, n) => i < end
  <2>1. Len(queue[q]) \in Nat BY LenProperties DEF TypeOK
  <2>. QED BY <1>2, <2>1 DEF At
<1>4. m \notin seen.late
  <2>1. ~Replied(m) BY DEF Replied, Ended
  <2>. QED BY <1>1, <2>1 DEF QueueInv, LateWait
<1>5. \A n \in seen.late : /\ n \in Messages /\ n # m
                           /\ lock'[SessionOf[n]] = lock[SessionOf[n]]
                           /\ SessionOf[n] = SessionOf[m] => lock[SessionOf[n]] = q
  BY <1>0, <1>4 DEF QueueInv, LateWait, LockFor, TypeOK
<1>6. \A n \in Messages : n # m => (Replied(n)' <=> Replied(n)) BY <1>0 DEF Replied
<1>7. \/ /\ phase[SessionOf[m]] \in Ended /\ seen'.late = seen.late \cup {m}
         /\ \A n \in Messages :
              seen'.earlier[n] = IF n = m THEN {e \in seen.late : SessionOf[e] = SessionOf[m]}
                                          ELSE seen.earlier[n]
      \/ seen' = seen
  <2>1. seen \in [builds : Nat, changes : 0..MaxChanges, late : SUBSET Messages,
                  earlier : [Messages -> SUBSET Messages]]
    BY DEF TypeOK
  <2>2. /\ Arrives(m).late = seen.late \cup {m}
        /\ Arrives(m).earlier =
             [seen.earlier EXCEPT ![m] = {e \in seen.late : SessionOf[e] = SessionOf[m]}]
    BY <2>1 DEF Arrives
  <2>3. seen.earlier \in [Messages -> SUBSET Messages] BY <2>1
  <2>. QED BY <2>2, <2>3
<1>8. QueuedWait' BY <1>0, <1>a DEF QueueInv, QueuedWait
<1>9. OnePlace' BY <1>1, <1>a DEF QueueInv, OnePlace
<1>10. RunningOwns'
  <2>1. 1 \in Nat OBVIOUS
  <2>. QED BY <1>0, <1>a, <2>1 DEF QueueInv, RunningOwns, Running
<1>11. LateWait'
  <2>. SUFFICES ASSUME NEW n \in seen'.late
                PROVE  /\ phase'[SessionOf[n]] \in Ended /\ lock'[SessionOf[n]] \in Coroutines
                       /\ Replied(n)' \/ \E i \in Nat : At(lock[SessionOf[n]], i, n)'
    BY DEF LateWait
  <2>1. CASE n \in seen.late
    <3>1. /\ phase[SessionOf[n]] \in Ended /\ lock[SessionOf[n]] \in Coroutines
          /\ Replied(n) \/ \E i \in Nat : At(lock[SessionOf[n]], i, n)
      BY <2>1 DEF QueueInv, LateWait
    <3>2. PICK l \in Coroutines : l = lock[SessionOf[n]] BY <3>1
    <3>3. n \in Messages /\ n # m /\ lock'[SessionOf[n]] = l BY <1>5, <2>1, <3>2
    <3>4. Replied(n)' \/ \E i \in Nat : At(l, i, n)' BY <1>a, <1>6, <3>1, <3>2, <3>3
    <3>. QED BY <1>0, <3>1, <3>3, <3>4
  <2>2. CASE n \notin seen.late
    <3>1. n = m /\ phase[SessionOf[m]] \in Ended BY <1>7, <2>2
    <3>2. At(q, end, m)' BY <1>a
    <3>. QED BY <1>0, <3>1, <3>2
  <2>. QED BY <2>1, <2>2
<1>12. InOrder'
  <2>. SUFFICES ASSUME NEW n \in Messages, NEW e \in seen'.earlier[n]
                PROVE  /\ n \in seen'.late /\ e \in seen'.late /\ SessionOf[e] = SessionOf[n]
                       /\ \/ Replied(e)'
                          \/ \E i, j \in Nat : /\ i < j /\ At(lock[SessionOf[n]], i, e)'
                                               /\ At(lock[SessionOf[n]], j, n)'
    BY DEF InOrder
  <2>1. CASE e \in seen.earlier[n]
    <3>1. /\ n \in seen.late /\ e \in seen.late /\ SessionOf[e] = SessionOf[n]
          /\ \/ Replied(e)
             \/ \E i, j \in Nat : /\ i < j /\ At(lock[SessionOf[n]], i, e)
                                  /\ At(lock[SessionOf[n]], j, n)
      BY <2>1 DEF QueueInv, InOrder
    <3>2. PICK l \in Coroutines : l = lock[SessionOf[n]] BY <3>1 DEF QueueInv, LateWait
    <3>3. e \in Messages /\ e # m /\ lock'[SessionOf[n]] = l BY <1>5, <3>1, <3>2
    <3>4. Replied(e)' \/ \E i, j \in Nat : i < j /\ At(l, i, e)' /\ At(l, j, n)'
      BY <1>a, <1>6, <3>1, <3>2, <3>3
    <3>5. n \in seen'.late /\ e \in seen'.late BY <1>7, <3>1
    <3>. QED BY <3>1, <3>3, <3>4, <3>5
  <2>2. CASE e \notin seen.earlier[n]
    <3>1. /\ n = m /\ e \in seen.late /\ SessionOf[e] = SessionOf[m]
          /\ seen'.late = seen.late \cup {m}
      BY <1>7, <2>2
    <3>2. /\ e \in Messages /\ e # m /\ lock[SessionOf[e]] = q
          /\ lock'[SessionOf[m]] = q
      BY <1>0, <1>5, <3>1
    <3>3. Replied(e) \/ \E i \in Nat : At(q, i, e) BY <3>1, <3>2 DEF QueueInv, LateWait
    <3>4. Replied(e)' \/ \E i, j \in Nat : i < j /\ At(q, i, e)' /\ At(q, j, m)'
      BY <1>a, <1>3, <1>6, <3>2, <3>3
    <3>. QED BY <3>1, <3>2, <3>4
  <2>. QED BY <2>1, <2>2
<1>. QED BY <1>8, <1>9, <1>10, <1>11, <1>12 DEF QueueInv

\* Whoever runs goes on as the owner of its lock.
LEMMA RunningGoes ==
  ASSUME TypeOK, QueueInv, NEW m \in Messages, NEW p, phase' = [phase EXCEPT ![m] = p],
         p \notin {"new"} \cup Ended, Running(m), UNCHANGED <<lock, queue>>, SameOrder
  PROVE  QueueInv'
BY OwnerGoes DEF QueueInv, RunningOwns

LEMMA QueueUntouched ==
  ASSUME QueueInv, UNCHANGED <<phase, lock, queue>>, seen'.late = seen.late,
         seen'.earlier = seen.earlier
  PROVE  QueueInv'
BY DEF QueueInv, QueuedWait, OnePlace, RunningOwns, LateWait, InOrder, At, Running, Replied

LEMMA BuildingKeepsOrder ==
  ASSUME TypeOK, NEW c \in Coroutines, FinishBuild(c)
  PROVE  SameOrder
<1>1. seen \in [builds : Nat, changes : 0..MaxChanges, late : SUBSET Messages,
                earlier : [Messages -> SUBSET Messages]]
  BY DEF TypeOK
<1>. QED BY <1>1 DEF FinishBuild, SameOrder

LEMMA QueueKept == ASSUME TypeOK, QueueInv, Next PROVE QueueInv'
<1>. USE Kinds
<1>1. ASSUME NEW s \in Sessions, OpenChat(s) PROVE QueueInv'
  BY <1>1, ChatGoes DEF OpenChat, SameOrder, Ended
<1>2. ASSUME NEW s \in Sessions, ChatStep(s) PROVE QueueInv'
  <2>1. CASE EnterRuntime(s)
    <3>1. PICK p : phase' = [phase EXCEPT ![s] = p] BY <2>1 DEF EnterRuntime
    <3>. QED BY <2>1, <3>1, ChatGoes DEF EnterRuntime, SameOrder, Ended
  <2>2. CASE FinishBuild(s)
    <3>1. PICK p : phase' = [phase EXCEPT ![s] = p] BY <2>2 DEF FinishBuild
    <3>2. SameOrder BY <2>2, BuildingKeepsOrder
    <3>. QED BY <2>2, <3>1, <3>2, ChatGoes DEF FinishBuild, Ended
  <2>3. CASE ChatStarted(s) BY <2>3, ChatGoes DEF ChatStarted, SameOrder, Ended
  <2>4. CASE ChatFailed(s) BY <2>4, ChatGoes DEF ChatFailed, SameOrder, Ended
  <2>. QED BY <1>2, <2>1, <2>2, <2>3, <2>4 DEF ChatStep
<1>3. ASSUME NEW m \in Messages, Send(m) PROVE QueueInv'
  <2>1. PICK q \in Coroutines : q = LockFor(SessionOf[m], m) BY DEF LockFor, TypeOK
  <2>2. CASE phase' = [phase EXCEPT ![m] = "dismissed"] /\ UNCHANGED <<lock, queue, seen>>
    BY <1>3, <2>2, SendCases, DismissedKeeps
  <2>3. CASE /\ phase' = [phase EXCEPT ![m] = "queued"]
             /\ lock' = [lock EXCEPT ![SessionOf[m]] = q]
             /\ queue' = [queue EXCEPT ![q] = Append(queue[q], m)]
             /\ seen' = IF phase[SessionOf[m]] \in Ended THEN Arrives(m) ELSE seen
    <3>1. phase[m] = "new" BY <1>3, SendCases
    <3>. QED BY <2>1, <2>3, <3>1, QueuedKeeps
  <2>. QED BY <1>3, <2>1, <2>2, <2>3, SendCases
<1>4. ASSUME NEW m \in Messages, Begin(m) PROVE QueueInv'
  <2>1. PICK c \in Coroutines : queue[c] # <<>> /\ Head(queue[c]) = m BY <1>4 DEF Begin
  <2>2. queue[c] \in Seq(Messages) BY DEF TypeOK
  <2>3. At(c, 1, m) BY <2>1, <2>2, EmptySeq DEF At
  <2>. QED BY <1>4, <2>3, OwnerGoes DEF Begin, SameOrder, Ended
<1>5. ASSUME NEW m \in Messages, EnterRuntime(m) \/ FinishBuild(m) PROVE QueueInv'
  <2>1. PICK p : phase' = [phase EXCEPT ![m] = p] /\ p \in {"building", "ready", "broken"}
    BY <1>5 DEF EnterRuntime, FinishBuild
  <2>2. Running(m) BY <1>5 DEF EnterRuntime, FinishBuild, Running, Ended
  <2>3. SameOrder BY <1>5, BuildingKeepsOrder DEF EnterRuntime, SameOrder
  <2>. QED BY <1>5, <2>1, <2>2, <2>3, RunningGoes DEF EnterRuntime, FinishBuild, Ended
<1>6. ASSUME NEW m \in Messages, GraphReturns(m) PROVE QueueInv'
  <2>1. Running(m) BY <1>6 DEF GraphReturns, Running, Ended
  <2>2. CASE phase' = [phase EXCEPT ![m] = "clarifying"] /\ UNCHANGED queue
    BY <1>6, <2>1, <2>2, RunningGoes DEF GraphReturns, SameOrder, Ended
  <2>3. CASE Reply(m, "answered") \/ Reply(m, "failed")
    BY <1>6, <2>1, <2>3, ReplyKeeps DEF GraphReturns, Ended
  <2>. QED BY <1>6, <2>2, <2>3 DEF GraphReturns
<1>7. ASSUME NEW m \in Messages, Clarify(m) PROVE QueueInv'
  <2>1. Running(m) BY <1>7 DEF Clarify, Running, Ended
  <2>. QED BY <1>7, <2>1, RunningGoes, ReplyKeeps DEF Clarify, SameOrder, Ended
<1>8. ASSUME NEW m \in Messages, RequestFailed(m) PROVE QueueInv'
  <2>1. Running(m) BY <1>8 DEF RequestFailed, Running, Ended
  <2>. QED BY <1>8, <2>1, ReplyKeeps DEF RequestFailed, Ended
<1>9. CASE EnvChange BY <1>9, QueueUntouched DEF EnvChange, TypeOK
<1>. QED BY <1>1, <1>2, <1>3, <1>4, <1>5, <1>6, <1>7, <1>8, <1>9 DEF Next, MessageStep

-----------------------------------------------------------------------------
(* Theorems.                                                                 *)

LEMMA InvStep == Inv /\ [Next]_vars => Inv'
<1>1. Inv /\ Next => Inv' BY TypesKept, RuntimeKept, QueueKept DEF Inv
<1>2. Inv /\ UNCHANGED vars => Inv'
  BY DEF Inv, vars, TypeOK, RuntimeInv, ConfigRead, OneBuilder, BuildsCounted, Served,
         QueueInv, QueuedWait, OnePlace, RunningOwns, LateWait, InOrder, At, Running, Replied
<1>. QED BY <1>1, <1>2

\* Locks, queues and the runtime are well typed.
THEOREM SessionTypes == Spec => []TypeOK
<1>1. Inv => TypeOK BY DEF Inv
<1>. QED BY InvInit, InvStep, <1>1, PTL DEF Spec

\* The messages of a started chat run one at a time, in the order they were sent.
THEOREM InTurn == Spec => []FirstComeFirstServed
<1>1. Inv => FirstComeFirstServed
  <2>. SUFFICES ASSUME Inv, NEW n \in Messages, Running(n) \/ Replied(n),
                       NEW m \in seen.earlier[n], ~Replied(m)
                PROVE  FALSE
    BY DEF FirstComeFirstServed
  <2>1. lock[SessionOf[n]] \in Coroutines
    BY DEF Inv, QueueInv, InOrder, LateWait
  <2>2. PICK i \in Nat, j \in Nat : /\ i < j /\ At(lock[SessionOf[n]], i, m)
                                    /\ At(lock[SessionOf[n]], j, n)
    BY DEF Inv, QueueInv, InOrder
  <2>3. i # 0 /\ ~Replied(n) BY <2>1, <2>2 DEF At, Inv, QueueInv, QueuedWait, Replied
  <2>4. PICK c \in Coroutines : At(c, 1, n)
    BY <2>3 DEF Inv, QueueInv, RunningOwns
  <2>5. j = 1 BY <2>1, <2>2, <2>4 DEF Inv, QueueInv, OnePlace
  <2>. QED BY <2>2, <2>3, <2>5
<1>. QED BY InvInit, InvStep, <1>1, PTL DEF Spec

\* The runtime is built at most once.
THEOREM BuiltOnceOnly == Spec => []BuiltOnce
<1>1. Inv => BuiltOnce BY DEF Inv, RuntimeInv, BuildsCounted, BuiltOnce
<1>. QED BY InvInit, InvStep, <1>1, PTL DEF Spec

\* No request runs on a runtime of another configuration.
THEOREM RuntimeAlwaysFits == Spec => []RuntimeFits
<1>1. Inv => RuntimeFits BY Kinds DEF Inv, RuntimeInv, Served, RuntimeFits
<1>. QED BY InvInit, InvStep, <1>1, PTL DEF Spec

=============================================================================
