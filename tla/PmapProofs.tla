----------------------------- MODULE PmapProofs -----------------------------
(***************************************************************************)
(* Proofs about Pmap for every communicator, input, batch size, build and  *)
(* pattern of faults.                                                      *)
(***************************************************************************)
EXTENDS Pmap, SequenceTheorems, FiniteSetTheorems, WellFoundedInduction, TLAPS

-----------------------------------------------------------------------------
(* The channels.                                                           *)

\* Frames are messages.
LEMMA FrameType ==
  /\ NoBatch \in Batch
  /\ NotFetched \in Message
  /\ \A k \in {"READY", "STOP", "DRAIN"} : Msg(k) \in Message
  /\ \A b \in Batch : Task(b) \in Message
  /\ \A b \in Batch, s \in {"ok", "error"} : Result(b, s) \in Message
  <1>1. NoBatch \in Batch
    BY DEF NoBatch, Batch
  <1> QED BY <1>1 DEF NotFetched, Msg, Task, Result, Message

\* Coordinator::make_batch takes items of the input.
LEMMA MakeBatchType ==
  ASSUME nextId \in Nat PROVE MakeBatch \in Batch
  BY DEF MakeBatch, Batch, BatchItems, Item

\* Only the root sends on down, and only in answer to a READY; the message at
\* the front of up is taken.
ServedEffect(w) ==
  /\ up[w] # << >>
  /\ up' = Receive(up, w)
  /\ \/ down' = down
     \/ Head(up[w]).kind = "READY" /\ \E m \in Message : down' = Send(down, w, m)
  /\ nextId' \in Nat
  /\ UNCHANGED <<workerPc, fetched, job>>

LEMMA ServedEffects ==
  ASSUME ChannelType, NEW w \in Remote, ServeHeader(w) PROVE ServedEffect(w)
  <1>1. up[w] # << >> /\ up' = Receive(up, w) /\ UNCHANGED <<workerPc, fetched, job>>
    BY DEF ServeHeader, jobVars
  <1>2. CASE ServeReady(w)
    <2>1. Head(up[w]).kind = "READY"
      BY <1>2 DEF ServeReady
    <2>2. Msg("STOP") \in Message /\ Task(MakeBatch) \in Message
      BY FrameType, MakeBatchType DEF ChannelType
    <2>3. down' = Send(down, w, Msg("STOP")) \/ down' = Send(down, w, Task(MakeBatch))
      BY <1>2 DEF ServeReady
    <2>4. nextId' = nextId \/ nextId' = nextId + 1
      BY <1>2, Zenon DEF ServeReady, TakeBatch
    <2>5. nextId' \in Nat
      BY <2>4 DEF ChannelType
    <2> QED BY <1>1, <2>1, <2>2, <2>3, <2>5 DEF ServedEffect
  <1>3. CASE ServeUndecodable(w) \/ ServeValues(w) \/ ServeError(w) \/ ServeDrain(w)
    <2>1. down' = down /\ nextId' = nextId
      BY <1>3 DEF ServeUndecodable, ServeValues, ServeError, ServeDrain
    <2> QED BY <1>1, <2>1 DEF ServedEffect, ChannelType
  <1> QED BY <1>2, <1>3 DEF ServeHeader

\* The steps of the root that touch no channel.
RootQuiet ==
  /\ UNCHANGED <<up, down, fetched, workerPc>>
  /\ nextId' \in Nat
  /\ job' \in [Rank -> Batch]

LEMMA StartRootQuiet ==
  ASSUME ChannelType, StartRootBatch PROVE nextId' \in Nat /\ job' \in [Rank -> Batch]
  <1>1. nextId' = nextId + 1 /\ job' = [job EXCEPT ![Root] = MakeBatch]
    BY Zenon DEF StartRootBatch, TakeBatch
  <1>2. nextId \in Nat /\ job \in [Rank -> Batch] /\ MakeBatch \in Batch
    BY MakeBatchType DEF ChannelType
  <1>3. nextId' \in Nat
    BY <1>1, <1>2
  <1> QED BY <1>1, <1>2, <1>3

LEMMA StopRootQuiet ==
  ASSUME ChannelType, StopRootLane PROVE nextId' \in Nat /\ job' \in [Rank -> Batch]
  BY DEF ChannelType, StopRootLane

LEMMA FinishRootQuiet ==
  ASSUME ChannelType, NEW b, FinishRootBatch(b) PROVE job' \in [Rank -> Batch]
  BY FrameType DEF ChannelType, FinishRootBatch

LEMMA RootEffects ==
  ASSUME ChannelType, RootStep
  PROVE  RootQuiet \/ \E w \in Remote : ServedEffect(w)
  <1>1. CASE RootSettles
    BY <1>1 DEF RootSettles, RootQuiet, ChannelType, coordinatorVars, jobVars
  <1>2. CASE RootTakes
    <2>1. nextId' \in Nat /\ job' \in [Rank -> Batch]
      BY <1>2, StartRootQuiet, StopRootQuiet DEF RootTakes, ChannelType
    <2> QED BY <1>2, <2>1 DEF RootTakes, RootQuiet
  <1>3. CASE RootExecutes
    BY <1>3, FinishRootQuiet DEF RootExecutes, RootQuiet, ChannelType
  <1>4. CASE HybridSpawns
    BY <1>4, StartRootQuiet, StopRootQuiet DEF HybridSpawns, RootQuiet
  <1>5. CASE HybridLocal
    BY <1>5, FinishRootQuiet DEF HybridLocal, RootQuiet, ChannelType
  <1>6. CASE RootDies
    BY <1>6 DEF RootDies, Abort, RootQuiet, ChannelType, coordinatorVars, jobVars
  <1>7. ASSUME NEW w \in Remote, RootServes(w) \/ RootReceives(w) \/ HybridRemote(w)
        PROVE  ServedEffect(w)
    BY <1>7, ServedEffects DEF RootServes, RootReceives, HybridRemote
  <1>8. ASSUME NEW w \in Remote, RootRefuses(w) PROVE RootQuiet
    BY <1>8 DEF RootRefuses, Abort, RootQuiet, ChannelType, coordinatorVars, jobVars
  <1> QED BY <1>1, <1>2, <1>3, <1>4, <1>5, <1>6, <1>7, <1>8 DEF RootStep

\* What a worker does to its channels: it asks, which it then waits for; it
\* receives what it asked for; or it answers while it is asking for nothing.
Asking == {"wait", "fetch"}
Asks(w) ==
  /\ workerPc[w] \notin Asking
  /\ up' = Send(up, w, Msg("READY"))
  /\ down' = down
  /\ workerPc'[w] \in Asking
Gets(w) ==
  /\ workerPc[w] \in Asking
  /\ down[w] # << >>
  /\ down' = Receive(down, w)
  /\ up' = up \/ \E m \in Message : m.kind = "RESULT" /\ up' = Send(up, w, m)
Tells(w) ==
  /\ workerPc[w] \notin Asking
  /\ down' = down
  /\ up' = up \/ \E m \in Message : m.kind \in {"RESULT", "DRAIN"} /\ up' = Send(up, w, m)
Rests ==
  UNCHANGED <<up, down, workerPc>>

WorkerEffect(w) ==
  /\ nextId' = nextId
  /\ job' \in [Rank -> Batch]
  /\ fetched' \in [Remote -> Message]
  /\ workerPc' \in [Remote -> WorkerPc]
  /\ \A v \in Remote : v # w => workerPc'[v] = workerPc[v]
  /\ Asks(w) \/ Gets(w) \/ Tells(w) \/ Rests

LEMMA AnswersEffect ==
  ASSUME NEW w \in Remote, NEW b \in Batch, Answers(w, b)
  PROVE  \E m \in Message : m.kind = "RESULT" /\ up' = Send(up, w, m)
  <1>1. up' = Send(up, w, Result(b, "ok")) \/ up' = Send(up, w, Result(b, "error"))
    BY DEF Answers
  <1>2. Result(b, "ok") \in Message /\ Result(b, "error") \in Message
    BY FrameType
  <1>3. Result(b, "ok").kind = "RESULT" /\ Result(b, "error").kind = "RESULT"
    BY DEF Result
  <1> QED BY <1>1, <1>2, <1>3

LEMMA UndecodableEffect ==
  ASSUME NEW w \in Remote, NEW b \in Batch, AnswersUndecodable(w, b)
  PROVE  \E m \in Message : m.kind = "RESULT" /\ up' = Send(up, w, m)
  <1>1. up' = Send(up, w, Result(b, "error"))
    BY DEF AnswersUndecodable
  <1>2. Result(b, "error") \in Message /\ Result(b, "error").kind = "RESULT"
    BY FrameType DEF Result
  <1> QED BY <1>1, <1>2

\* A message that has arrived is a message, and so is its batch.
LEMMA HeadType ==
  ASSUME NEW s \in Seq(Message), s # << >>
  PROVE  Head(s) \in Message /\ Head(s).batch \in Batch
  <1>1. Head(s) \in Message
    BY HeadTailProperties
  <1> QED BY <1>1 DEF Message

LEMMA WorkerEffects ==
  ASSUME ChannelType, NEW w \in Remote, WorkerStep(w) PROVE WorkerEffect(w)
  <1> USE DEF Asking
  <1>t. w \in Rank /\ job[w] \in Batch /\ fetched[w] \in Message /\ down[w] \in Seq(Message)
    BY DEF ChannelType, Remote
  <1>1. CASE SendsReady(w)
    <2>1. Asks(w)
      BY <1>1 DEF SendsReady, Asks, ChannelType
    <2>2. nextId' = nextId /\ UNCHANGED <<job, fetched>>
      BY <1>1 DEF SendsReady, coordinatorVars, jobVars
    <2>3. \E pc \in WorkerPc : workerPc' = [workerPc EXCEPT ![w] = pc]
      BY <1>1, Zenon DEF SendsReady, WorkerPc
    <2> QED BY <2>1, <2>2, <2>3 DEF WorkerEffect, ChannelType
  <1>2. CASE WorkerReceives(w)
    <2>1. Head(down[w]).batch \in Batch
      BY <1>2, <1>t, HeadType DEF WorkerReceives
    <2>2. up' = up \/ \E m \in Message : m.kind = "RESULT" /\ up' = Send(up, w, m)
      BY <1>2, <2>1, UndecodableEffect DEF WorkerReceives
    <2>3. Gets(w)
      BY <1>2, <2>2 DEF WorkerReceives, Gets
    <2>4. \E pc \in WorkerPc : workerPc' = [workerPc EXCEPT ![w] = pc]
      BY <1>2, Zenon DEF WorkerReceives, WorkerPc
    <2>5. job' \in [Rank -> Batch]
      BY <1>2, <2>1 DEF WorkerReceives, ChannelType
    <2>6. nextId' = nextId /\ fetched' = fetched
      BY <1>2 DEF WorkerReceives, coordinatorVars
    <2> QED BY <2>3, <2>4, <2>5, <2>6 DEF WorkerEffect, ChannelType
  <1>3. CASE WorkerRuns(w)
    <2>1. \E m \in Message : m.kind = "RESULT" /\ up' = Send(up, w, m)
      BY <1>3, <1>t, AnswersEffect DEF WorkerRuns
    <2>2. Tells(w)
      BY <1>3, <2>1 DEF WorkerRuns, Tells
    <2>3. nextId' = nextId /\ fetched' = fetched /\ job' \in [Rank -> Batch]
      BY <1>3, FrameType DEF WorkerRuns, coordinatorVars, ChannelType
    <2>4. workerPc' = [workerPc EXCEPT ![w] = "ready"]
      BY <1>3 DEF WorkerRuns
    <2> QED BY <2>2, <2>3, <2>4 DEF WorkerEffect, ChannelType, WorkerPc
  <1>4. CASE WorkerFetches(w)
    <2>1. Head(down[w]) \in Message
      BY <1>4, <1>t, HeadType DEF WorkerFetches
    <2>2. Gets(w)
      BY <1>4 DEF WorkerFetches, Gets
    <2>3. nextId' = nextId /\ job' = job /\ fetched' \in [Remote -> Message]
      BY <1>4, <2>1 DEF WorkerFetches, coordinatorVars, jobVars, ChannelType
    <2>4. workerPc' = [workerPc EXCEPT ![w] = "join"]
      BY <1>4 DEF WorkerFetches
    <2> QED BY <2>2, <2>3, <2>4 DEF WorkerEffect, ChannelType, WorkerPc
  <1>5. CASE WorkerJoins(w)
    <2>1. \E m \in Message : m.kind = "RESULT" /\ up' = Send(up, w, m)
      BY <1>5, <1>t, AnswersEffect DEF WorkerJoins
    <2>2. Tells(w)
      BY <1>5, <2>1 DEF WorkerJoins, Tells
    <2>3. fetched[w].batch \in Batch
      BY <1>t DEF Message
    <2>4. \E b \in Batch : job' = [job EXCEPT ![w] = b]
      BY <1>5, <2>3, FrameType, Zenon DEF WorkerJoins
    <2>5. \E m \in Message : fetched' = [fetched EXCEPT ![w] = m]
      BY <1>5, <1>t, FrameType, Zenon DEF WorkerJoins
    <2>6. \E pc \in WorkerPc : workerPc' = [workerPc EXCEPT ![w] = pc]
      BY <1>5, Zenon DEF WorkerJoins, WorkerPc
    <2>7. nextId' = nextId
      BY <1>5 DEF WorkerJoins, coordinatorVars
    <2> QED BY <2>2, <2>4, <2>5, <2>6, <2>7 DEF WorkerEffect, ChannelType
  <1>6. CASE WorkerFlushes(w)
    <2>1. fetched[w].batch \in Batch
      BY <1>t DEF Message
    <2>2. \E m \in Message : m.kind = "RESULT" /\ up' = Send(up, w, m)
      BY <1>6, <2>1, UndecodableEffect DEF WorkerFlushes
    <2>3. Tells(w)
      BY <1>6, <2>2 DEF WorkerFlushes, Tells
    <2>4. nextId' = nextId /\ job' = job /\ fetched' \in [Remote -> Message]
      BY <1>6, FrameType DEF WorkerFlushes, coordinatorVars, jobVars, ChannelType
    <2>5. workerPc' = [workerPc EXCEPT ![w] = "ready"]
      BY <1>6 DEF WorkerFlushes
    <2> QED BY <2>3, <2>4, <2>5 DEF WorkerEffect, ChannelType, WorkerPc
  <1>7. CASE WorkerDrains(w)
    <2>1. Msg("DRAIN") \in Message /\ Msg("DRAIN").kind = "DRAIN"
      BY FrameType DEF Msg
    <2>2. Tells(w)
      BY <1>7, <2>1 DEF WorkerDrains, Tells
    <2>3. nextId' = nextId /\ UNCHANGED <<job, fetched>>
      BY <1>7 DEF WorkerDrains, coordinatorVars, jobVars
    <2>4. workerPc' = [workerPc EXCEPT ![w] = "done"]
      BY <1>7 DEF WorkerDrains
    <2> QED BY <2>2, <2>3, <2>4 DEF WorkerEffect, ChannelType, WorkerPc
  <1>8. CASE WorkerDies(w)
    <2>1. UNCHANGED <<nextId, job, fetched, workerPc, up, down>>
      BY <1>8 DEF WorkerDies, Abort, coordinatorVars, jobVars
    <2> QED BY <2>1 DEF WorkerEffect, Rests, ChannelType
  <1> QED BY <1>1, <1>2, <1>3, <1>4, <1>5, <1>6, <1>7, <1>8 DEF WorkerStep

-----------------------------------------------------------------------------
(* The protocol of one READY and one answer.                               *)

\* A READY is the last message of a worker that waits with nothing on its way
\* to it; a message on its way to a worker is the only one between the two.
OneRequest(w) ==
  /\ down[w] # << >> => Len(down[w]) = 1 /\ up[w] = << >> /\ workerPc[w] \in Asking
  /\ \A i \in 1..Len(up[w]) :
       up[w][i].kind = "READY" =>
         i = Len(up[w]) /\ workerPc[w] \in Asking /\ down[w] = << >>

RequestInv == ChannelType /\ \A w \in Remote : OneRequest(w)

\* Taking the only message leaves nothing.
LEMMA TailOfOne ==
  ASSUME NEW s \in Seq(Message), Len(s) = 1 PROVE Tail(s) = << >>
  <1>1. Tail(s) \in Seq(Message) /\ Len(Tail(s)) = 0
    <2>1. s # << >>
      BY EmptySeq
    <2> QED BY <2>1, HeadTailProperties
  <1>2. Tail(s) # << >> => Len(Tail(s)) \in Nat \ {0}
    BY <1>1, EmptySeq
  <1> QED BY <1>1, <1>2

LEMMA ServeKeeps ==
  ASSUME RequestInv, NEW w \in Remote, ServedEffect(w) PROVE RequestInv'
  <1>t. up[w] \in Seq(Message) /\ down[w] \in Seq(Message)
    BY DEF RequestInv, ChannelType
  <1>1. Tail(up[w]) \in Seq(Message) /\ Len(Tail(up[w])) = Len(up[w]) - 1
        /\ \A i \in 1..Len(Tail(up[w])) : Tail(up[w])[i] = up[w][i + 1]
    BY <1>t DEF ServedEffect
  <1>2. down[w] = << >>
    BY DEF RequestInv, OneRequest, ServedEffect
  <1>3. ChannelType'
    <2>1. up' \in [Remote -> Seq(Message)]
      BY <1>1 DEF RequestInv, ChannelType, ServedEffect, Receive
    <2>2. ASSUME NEW m \in Message, down' = Send(down, w, m)
          PROVE  down' \in [Remote -> Seq(Message)]
      <3>1. Append(down[w], m) \in Seq(Message)
        BY <1>t
      <3> QED BY <2>2, <3>1 DEF RequestInv, ChannelType, Send
    <2>3. down' \in [Remote -> Seq(Message)]
      BY <2>2 DEF RequestInv, ChannelType, ServedEffect
    <2> QED BY <2>1, <2>3 DEF RequestInv, ChannelType, ServedEffect
  <1>4. up'[w] = Tail(up[w]) /\ \A v \in Remote : v # w => up'[v] = up[v] /\ down'[v] = down[v]
    BY DEF RequestInv, ChannelType, ServedEffect, Receive, Send
  <1>5. ASSUME NEW v \in Remote, v # w PROVE OneRequest(v)'
    BY <1>4, <1>5 DEF RequestInv, OneRequest, ServedEffect
  <1>6. CASE down' = down
    <2>1. OneRequest(w)'
      BY <1>1, <1>2, <1>4, <1>6, <1>t DEF RequestInv, OneRequest, ServedEffect
    <2> QED BY <1>3, <1>5, <2>1 DEF RequestInv
  <1>7. CASE Head(up[w]).kind = "READY" /\ \E m \in Message : down' = Send(down, w, m)
    <2>1. up[w][1].kind = "READY" /\ 1 \in 1..Len(up[w])
      BY <1>7, <1>t DEF ServedEffect
    <2>2. Len(up[w]) = 1 /\ workerPc[w] \in Asking
      BY <2>1 DEF RequestInv, OneRequest
    <2>3. up'[w] = << >>
      BY <1>4, <1>t, <2>2, TailOfOne
    <2>4. Len(down'[w]) = 1
      BY <1>7, <1>2 DEF RequestInv, ChannelType, Send
    <2>5. OneRequest(w)'
      BY <2>2, <2>3, <2>4 DEF OneRequest, ServedEffect
    <2> QED BY <1>3, <1>5, <2>5 DEF RequestInv
  <1> QED BY <1>6, <1>7 DEF ServedEffect

LEMMA WorkerKeeps ==
  ASSUME RequestInv, NEW w \in Remote, WorkerEffect(w) PROVE RequestInv'
  <1>t. up[w] \in Seq(Message) /\ down[w] \in Seq(Message)
    BY DEF RequestInv, ChannelType
  <1>r. Msg("READY") \in Message /\ Msg("READY").kind = "READY"
    BY FrameType DEF Msg
  <1>o. OneRequest(w)
    BY DEF RequestInv
  <1>1. CASE Asks(w)
    <2>1. down[w] = << >> /\ \A i \in 1..Len(up[w]) : up[w][i].kind # "READY"
      BY <1>1, <1>o DEF Asks, OneRequest
    <2>2. ChannelType'
      BY <1>1, <1>r DEF RequestInv, ChannelType, WorkerEffect, Asks, Send
    <2>3. up'[w] = Append(up[w], Msg("READY")) /\ \A v \in Remote : v # w => up'[v] = up[v]
      BY <1>1 DEF RequestInv, ChannelType, Asks, Send
    <2>4. OneRequest(w)'
      BY <1>1, <1>t, <2>1, <2>3 DEF Asks, OneRequest
    <2>5. ASSUME NEW v \in Remote, v # w PROVE OneRequest(v)'
      BY <1>1, <2>3, <2>5 DEF RequestInv, OneRequest, WorkerEffect, Asks
    <2> QED BY <2>2, <2>4, <2>5 DEF RequestInv
  <1>2. CASE Gets(w)
    <2>1. Len(down[w]) = 1 /\ up[w] = << >>
      BY <1>2, <1>o DEF Gets, OneRequest
    <2>2. Tail(down[w]) = << >>
      BY <1>t, <2>1, TailOfOne
    <2>3. down' = [down EXCEPT ![w] = << >>]
      BY <1>2, <2>2 DEF Gets, Receive
    <2>4. CASE up' = up
      <3>1. ChannelType'
        BY <2>3, <2>4 DEF RequestInv, ChannelType, WorkerEffect
      <3>2. OneRequest(w)'
        BY <2>1, <2>3, <2>4 DEF OneRequest, RequestInv, ChannelType
      <3>3. ASSUME NEW v \in Remote, v # w PROVE OneRequest(v)'
        BY <2>3, <2>4, <3>3 DEF RequestInv, ChannelType, OneRequest, WorkerEffect
      <3> QED BY <3>1, <3>2, <3>3 DEF RequestInv
    <2>5. CASE \E m \in Message : m.kind = "RESULT" /\ up' = Send(up, w, m)
      <3>1. PICK m \in Message : m.kind = "RESULT" /\ up' = Send(up, w, m)
        BY <2>5
      <3>2. ChannelType'
        BY <2>3, <3>1 DEF RequestInv, ChannelType, WorkerEffect, Send
      <3>3. up'[w] = <<m>> /\ \A v \in Remote : v # w => up'[v] = up[v]
        BY <3>1, <2>1 DEF RequestInv, ChannelType, Send
      <3>4. OneRequest(w)'
        BY <2>3, <3>1, <3>3 DEF OneRequest, RequestInv, ChannelType
      <3>5. ASSUME NEW v \in Remote, v # w PROVE OneRequest(v)'
        BY <2>3, <3>3, <3>5 DEF RequestInv, ChannelType, OneRequest, WorkerEffect
      <3> QED BY <3>2, <3>4, <3>5 DEF RequestInv
    <2> QED BY <1>2, <2>4, <2>5 DEF Gets
  <1>3. CASE Tells(w)
    <2>1. down[w] = << >> /\ \A i \in 1..Len(up[w]) : up[w][i].kind # "READY"
      BY <1>3, <1>o DEF Tells, OneRequest
    <2>2. CASE up' = up
      <3>1. ChannelType'
        BY <1>3, <2>2 DEF RequestInv, ChannelType, WorkerEffect, Tells
      <3>2. OneRequest(w)'
        BY <1>3, <2>1, <2>2 DEF OneRequest, Tells
      <3>3. ASSUME NEW v \in Remote, v # w PROVE OneRequest(v)'
        BY <1>3, <2>2, <3>3 DEF RequestInv, OneRequest, WorkerEffect, Tells
      <3> QED BY <3>1, <3>2, <3>3 DEF RequestInv
    <2>3. CASE \E m \in Message : m.kind \in {"RESULT", "DRAIN"} /\ up' = Send(up, w, m)
      <3>1. PICK m \in Message : m.kind \in {"RESULT", "DRAIN"} /\ up' = Send(up, w, m)
        BY <2>3
      <3>2. ChannelType'
        BY <1>3, <3>1 DEF RequestInv, ChannelType, WorkerEffect, Tells, Send
      <3>3. up'[w] = Append(up[w], m) /\ \A v \in Remote : v # w => up'[v] = up[v]
        BY <3>1 DEF RequestInv, ChannelType, Send
      <3>4. m.kind # "READY"
        BY <3>1
      <3>5. OneRequest(w)'
        BY <1>3, <1>t, <2>1, <3>3, <3>4 DEF OneRequest, Tells
      <3>6. ASSUME NEW v \in Remote, v # w PROVE OneRequest(v)'
        BY <1>3, <3>3, <3>6 DEF RequestInv, OneRequest, WorkerEffect, Tells
      <3> QED BY <3>2, <3>5, <3>6 DEF RequestInv
    <2> QED BY <1>3, <2>2, <2>3 DEF Tells
  <1>4. CASE Rests
    BY <1>4 DEF RequestInv, ChannelType, OneRequest, WorkerEffect, Rests
  <1> QED BY <1>1, <1>2, <1>3, <1>4 DEF WorkerEffect

LEMMA RequestStep ==
  ASSUME RequestInv, [Next]_vars PROVE RequestInv'
  <1>1. CASE RootStep
    <2>1. ASSUME RootQuiet PROVE RequestInv'
      BY <2>1 DEF RequestInv, ChannelType, OneRequest, RootQuiet
    <2> QED BY <1>1, <2>1, RootEffects, ServeKeeps DEF RequestInv
  <1>2. ASSUME NEW w \in Remote, WorkerStep(w) PROVE RequestInv'
    BY <1>2, WorkerEffects, WorkerKeeps DEF RequestInv
  <1>3. ASSUME NEW r \in Rank, PoolRuns(r) PROVE RequestInv'
    <2>1. UNCHANGED <<nextId, job, fetched, workerPc, up, down>>
      BY <1>3 DEF PoolRuns, coordinatorVars
    <2> QED BY <2>1 DEF RequestInv, ChannelType, OneRequest
  <1>4. CASE Converge
    <2>1. UNCHANGED <<nextId, job, fetched, workerPc, up, down>>
      BY <1>4 DEF Converge, coordinatorVars, jobVars
    <2> QED BY <2>1 DEF RequestInv, ChannelType, OneRequest
  <1>5. CASE UNCHANGED vars
    <2>1. UNCHANGED <<nextId, job, fetched, workerPc, up, down>>
      BY <1>5 DEF vars, coordinatorVars, jobVars
    <2> QED BY <2>1 DEF RequestInv, ChannelType, OneRequest
  <1> QED BY <1>1, <1>2, <1>3, <1>4, <1>5 DEF Next

LEMMA RequestInit ==
  ASSUME Init PROVE RequestInv
  <1>1. ChannelType
    BY FrameType DEF Init, ChannelType, WorkerPc
  <1>2. \A w \in Remote : up[w] = << >> /\ down[w] = << >>
    BY DEF Init
  <1> QED BY <1>1, <1>2 DEF RequestInv, OneRequest

\* For every communicator, input, batch size, build and pattern of faults, the
\* root of pmap sends only to a worker that is blocked in its receive and has
\* sent nothing it has not served, and never a second message before the first
\* is taken: no two ranks ever block in sends to each other.
THEOREM NoCrossedSends == Spec => []RootSendsToReceiver
  <1>1. RequestInv => RootSendsToReceiver
    BY DEF RequestInv, OneRequest, RootSendsToReceiver, Asking
  <1> QED BY <1>1, RequestInit, RequestStep, PTL DEF Spec
-----------------------------------------------------------------------------
(* What is in flight for a worker, and what its lane says of it.           *)

\* The batches of a lane, oldest first.
Slot(r, i) == IF i = 1 THEN lane[r].cur ELSE lane[r].pre

\* w has sent k results that the root has not served, and then t.
Sent(w, k, t) ==
  /\ Len(up[w]) = k + (IF t = "none" THEN 0 ELSE 1)
  /\ \A i \in 1..k : up[w][i].kind = "RESULT" /\ up[w][i].batch = Slot(w, i)
  /\ t # "none" => up[w][k + 1] = Msg(t)

\* The lane holds n batches, and more may be assigned to it.
Live(w, n) ==
  /\ n = 0 => lane[w] = IdleLane
  /\ n > 0 => /\ lane[w].st = "Running" /\ ~lane[w].stopping
              /\ lane[w].cur # NoBatch
              /\ n = 1 => lane[w].pre = NoBatch
              /\ n > 1 => Prefetch /\ lane[w].pre # NoBatch
\* The lane holds n batches and will stop after them.
Ending(w, n) ==
  /\ n = 0 => lane[w] = Stopped
  /\ n > 0 => /\ lane[w].st = "Running" /\ lane[w].stopping
              /\ lane[w].cur # NoBatch /\ lane[w].pre = NoBatch

\* The worker runs nothing, or the batch of slot i.
NoJob(w) == job[w] = NoBatch /\ ~jobDone[w]
Runs(w, i) == job[w] = Slot(w, i) /\ job[w] # NoBatch

\* What was asked for is on its way: the batch of slot i, or the order to stop.
Comes(w, i) ==
  /\ Len(down[w]) = 1
  /\ down[w][1].kind = "TASK" /\ down[w][1].batch = Slot(w, i) /\ Live(w, i)
StopComes(w, n) ==
  /\ Len(down[w]) = 1
  /\ down[w][1].kind = "STOP" /\ Ending(w, n)

\* The phases of a worker, with k results and the message t still to be served.
WithoutJob(w, k, t) ==
  /\ NoJob(w)
  /\ fetched[w] = NotFetched
  /\ \/ workerPc[w] = "ready" /\ t = "none" /\ down[w] = << >> /\ Live(w, k)
     \/ workerPc[w] = "wait" /\ t = "READY" /\ down[w] = << >> /\ Live(w, k)
     \/ workerPc[w] = "wait" /\ t = "none" /\ k = 0 /\ (Comes(w, 1) \/ StopComes(w, 0))
     \/ workerPc[w] = "drain" /\ t = "none" /\ k < 2 /\ down[w] = << >> /\ Ending(w, k)
     \/ workerPc[w] = "done" /\ t = "DRAIN" /\ k < 2 /\ down[w] = << >> /\ Ending(w, k)
     \/ workerPc[w] = "done" /\ t = "none" /\ k = 0 /\ down[w] = << >> /\ lane[w] = Drained
WithJob(w, k, t) ==
  /\ fetched[w] = NotFetched
  /\ k < 2
  /\ Runs(w, k + 1)
  /\ \/ /\ workerPc[w] = "run" /\ ~Prefetch /\ ~jobDone[w]
        /\ t = "none" /\ k = 0 /\ down[w] = << >> /\ Live(w, 1)
     \/ /\ workerPc[w] = "prefetch" /\ Prefetch
        /\ t = "none" /\ down[w] = << >> /\ Live(w, k + 1)
     \/ /\ workerPc[w] = "fetch" /\ Prefetch
        /\ t = "READY" /\ down[w] = << >> /\ Live(w, k + 1)
     \/ /\ workerPc[w] = "fetch" /\ Prefetch
        /\ t = "none" /\ k = 0 /\ (Comes(w, 2) \/ StopComes(w, 1))
WithFetched(w, k, t) ==
  /\ Prefetch
  /\ t = "none"
  /\ down[w] = << >>
  /\ \/ /\ workerPc[w] = "join" /\ k = 0 /\ Runs(w, 1)
        /\ \/ fetched[w].kind = "TASK" /\ fetched[w].batch = Slot(w, 2) /\ Live(w, 2)
           \/ fetched[w].kind = "STOP" /\ Ending(w, 1)
     \/ /\ workerPc[w] = "flush" /\ k < 2 /\ NoJob(w)
        /\ fetched[w].kind = "TASK" /\ fetched[w].batch = Slot(w, k + 1) /\ Live(w, k + 1)

Phase(w, k, t) == WithoutJob(w, k, t) \/ WithJob(w, k, t) \/ WithFetched(w, k, t)

WorkerLane(w) ==
  \E k \in 0..2, t \in {"none", "READY", "DRAIN"} : Sent(w, k, t) /\ Phase(w, k, t)

\* The root runs the batch of its lane, and is done when every lane is.
RootLane ==
  /\ \/ lane[Root] \in {IdleLane, Stopped} /\ NoJob(Root)
     \/ job[Root] # NoBatch /\ lane[Root] = Running(job[Root])
  /\ rootPc = "executing" => job[Root] # NoBatch /\ ~jobDone[Root]
  /\ Hybrid => rootPc \in {"loop", "done"}
  /\ rootPc = "done" => Finished(lane, next)
LaneRec == [st : {"Idle", "Running", "Stopped", "Drained"}, cur : Batch, pre : Batch,
            stopping : BOOLEAN]
LaneTypes ==
  /\ lane \in [Rank -> LaneRec]
  /\ jobDone \in [Rank -> BOOLEAN]

LaneInv == RequestInv /\ LaneTypes /\ RootLane /\ \A w \in Remote : WorkerLane(w)

\* The fields of the lanes that the Coordinator builds.
LEMMA LaneBuilds ==
  ASSUME NEW b \in Batch
  PROVE  /\ IdleLane \in LaneRec /\ Running(b) \in LaneRec /\ Stopped \in LaneRec /\ Drained \in LaneRec
         /\ IdleLane.st = "Idle" /\ Running(b).st = "Running" /\ Stopped.st = "Stopped"
         /\ Drained.st = "Drained"
         /\ IdleLane.cur = NoBatch /\ Running(b).cur = b /\ Stopped.cur = NoBatch
         /\ Drained.cur = NoBatch
         /\ IdleLane.pre = NoBatch /\ Running(b).pre = NoBatch /\ Stopped.pre = NoBatch
         /\ Drained.pre = NoBatch
         /\ ~IdleLane.stopping /\ ~Running(b).stopping /\ ~Stopped.stopping /\ ~Drained.stopping
  <1>1. NoBatch \in Batch
    BY FrameType
  <1>2. IdleLane \in LaneRec
    BY <1>1 DEF IdleLane, LaneRec
  <1>3. Running(b) \in LaneRec
    BY <1>2 DEF Running, LaneRec
  <1>4. Stopped \in LaneRec /\ Drained \in LaneRec
    BY <1>2 DEF Stopped, Drained, LaneRec
  <1> QED BY <1>2, <1>3, <1>4 DEF IdleLane, Running, Stopped, Drained

LEMMA LaneStops ==
  ASSUME NEW l \in LaneRec
  PROVE  /\ LaneStopped(l) \in LaneRec
         /\ l.st = "Running" =>
              /\ LaneStopped(l).st = "Running" /\ LaneStopped(l).stopping
              /\ LaneStopped(l).cur = l.cur /\ LaneStopped(l).pre = l.pre
         /\ l.st # "Running" => LaneStopped(l) = Stopped
  BY LaneBuilds, FrameType DEF LaneStopped, LaneRec

LEMMA LaneAssigns ==
  ASSUME NEW l \in LaneRec, NEW b \in Batch
  PROVE  /\ LaneAssigned(l, b) \in LaneRec
         /\ l.st = "Running" =>
              /\ LaneAssigned(l, b).st = "Running" /\ LaneAssigned(l, b).stopping = l.stopping
              /\ LaneAssigned(l, b).cur = l.cur /\ LaneAssigned(l, b).pre = b
         /\ l.st # "Running" => LaneAssigned(l, b) = Running(b)
  BY LaneBuilds, FrameType DEF LaneAssigned, LaneRec

LEMMA LaneAdvances ==
  ASSUME NEW l \in LaneRec
  PROVE  /\ Advanced(l) \in LaneRec
         /\ l.pre # NoBatch => Advanced(l) = Running(l.pre)
         /\ l.pre = NoBatch /\ l.stopping => Advanced(l) = Stopped
         /\ l.pre = NoBatch /\ ~l.stopping => Advanced(l) = IdleLane
  <1>1. l.pre \in Batch
    BY DEF LaneRec
  <1> QED BY <1>1, LaneBuilds, FrameType DEF Advanced

\* Another worker's step.
Same(v) ==
  /\ up'[v] = up[v] /\ down'[v] = down[v] /\ lane'[v] = lane[v]
  /\ job'[v] = job[v] /\ jobDone'[v] = jobDone[v]
  /\ fetched'[v] = fetched[v] /\ workerPc'[v] = workerPc[v]

LEMMA SameLane ==
  ASSUME NEW v \in Remote, WorkerLane(v), Same(v) PROVE WorkerLane(v)'
  <1> USE DEF Same, Slot
  <1>1. PICK k \in 0..2, t \in {"none", "READY", "DRAIN"} : Sent(v, k, t) /\ Phase(v, k, t)
    BY DEF WorkerLane
  <1>2. Sent(v, k, t)'
    BY <1>1 DEF Sent
  <1>3. \A n \in 0..3 : (Live(v, n) => Live(v, n)') /\ (Ending(v, n) => Ending(v, n)')
    BY DEF Live, Ending
  <1>4. \A n \in 0..2 : (Comes(v, n) => Comes(v, n)') /\ (StopComes(v, n) => StopComes(v, n)')
    BY <1>3 DEF Comes, StopComes
  <1>5. (NoJob(v) => NoJob(v)') /\ \A i \in 1..3 : Runs(v, i) => Runs(v, i)'
    BY DEF NoJob, Runs
  <1>6. WithoutJob(v, k, t) => WithoutJob(v, k, t)'
    BY <1>3, <1>4, <1>5 DEF WithoutJob
  <1>7. WithJob(v, k, t) => WithJob(v, k, t)'
    BY <1>3, <1>4, <1>5 DEF WithJob
  <1>8. WithFetched(v, k, t) => WithFetched(v, k, t)'
    BY <1>3, <1>4, <1>5 DEF WithFetched
  <1> QED BY <1>1, <1>2, <1>6, <1>7, <1>8 DEF WorkerLane, Phase

\* A lane that advances: the second slot becomes the first.
LEMMA AdvanceSlots ==
  ASSUME NEW w \in Remote, lane[w] \in LaneRec, lane'[w] = Advanced(lane[w])
  PROVE  /\ Slot(w, 1)' = Slot(w, 2) /\ Slot(w, 2)' = NoBatch
         /\ \A n \in 1..2 : Live(w, n) => Live(w, n - 1)'
         /\ Ending(w, 1) => Ending(w, 0)'
  <1>1. lane[w].pre \in Batch
    BY DEF LaneRec
  <1>2. Slot(w, 1)' = Slot(w, 2) /\ Slot(w, 2)' = NoBatch
    BY <1>1, LaneAdvances, LaneBuilds DEF Slot
  <1>3. Live(w, 1) => Live(w, 0)'
    BY <1>1, LaneAdvances, LaneBuilds DEF Live
  <1>4. Live(w, 2) => Live(w, 1)'
    BY <1>1, LaneAdvances, LaneBuilds DEF Live
  <1>5. Ending(w, 1) => Ending(w, 0)'
    BY <1>1, LaneAdvances, LaneBuilds DEF Ending
  <1> QED BY <1>2, <1>3, <1>4, <1>5

\* What w has sent and the phase it is in are the witnesses of its lane.
LEMMA LaneIs ==
  ASSUME NEW w \in Remote, NEW k \in 0..2, NEW t \in {"none", "READY", "DRAIN"},
         Sent(w, k, t)', Phase(w, k, t)'
  PROVE  WorkerLane(w)'
  BY DEF WorkerLane

LEMMA NothingSent ==
  ASSUME NEW w \in Remote, up'[w] = << >> PROVE Sent(w, 0, "none")'
  <1>1. Len(up'[w]) = 0 + (IF "none" = "none" THEN 0 ELSE 1)
    OBVIOUS
  <1>2. \A i \in 1..0 : up'[w][i].kind = "RESULT" /\ up'[w][i].batch = Slot(w, i)'
    OBVIOUS
  <1> QED BY <1>1, <1>2 DEF Sent

Stays(w) ==
  /\ job'[w] = job[w] /\ jobDone'[w] = jobDone[w]
  /\ fetched'[w] = fetched[w] /\ workerPc'[w] = workerPc[w]

\* The oldest message of a worker: a result of the lane's current batch, or
\* the request or farewell of a worker that has no result under way.
LEMMA HeadKind ==
  ASSUME NEW w \in Remote, NEW k \in 0..2, NEW t \in {"none", "READY", "DRAIN"},
         up[w] \in Seq(Message), up[w] # << >>, Sent(w, k, t)
  PROVE  /\ Len(up[w]) \in Nat \ {0} /\ Head(up[w]) = up[w][1]
         /\ k > 0 => Head(up[w]).kind = "RESULT" /\ Head(up[w]).batch = Slot(w, 1)
         /\ k = 0 => t # "none" /\ Head(up[w]) = Msg(t) /\ Head(up[w]).kind = t
  <1>1. Len(up[w]) \in Nat \ {0} /\ Head(up[w]) = up[w][1]
    BY EmptySeq
  <1>2. k > 0 => 1 \in 1..k
    OBVIOUS
  <1>3. Msg(t).kind = t
    BY DEF Msg
  <1> QED BY <1>1, <1>2, <1>3 DEF Sent

LEMMA ServedResult ==
  ASSUME NEW w \in Remote, up[w] \in Seq(Message), lane[w] \in LaneRec, WorkerLane(w),
         up[w] # << >>, Head(up[w]).kind = "RESULT", up'[w] = Tail(up[w]),
         lane'[w] = Advanced(lane[w]), down'[w] = down[w], Stays(w)
  PROVE  WorkerLane(w)'
  <1>1. PICK k \in 0..2, t \in {"none", "READY", "DRAIN"} : Sent(w, k, t) /\ Phase(w, k, t)
    BY DEF WorkerLane
  <1>2. k \in 1..2
    BY <1>1, HeadKind
  <1>3. /\ Slot(w, 1)' = Slot(w, 2) /\ Slot(w, 2)' = NoBatch
        /\ \A n \in 1..2 : Live(w, n) => Live(w, n - 1)'
        /\ Ending(w, 1) => Ending(w, 0)'
    BY AdvanceSlots
  <1>4. /\ Len(up'[w]) = Len(up[w]) - 1
        /\ \A i \in 1..(Len(up[w]) - 1) : up'[w][i] = up[w][i + 1]
    BY HeadTailProperties
  <1>5. Sent(w, k - 1, t)'
    <2>1. Len(up'[w]) = (k - 1) + (IF t = "none" THEN 0 ELSE 1)
      BY <1>1, <1>4 DEF Sent
    <2>2. ASSUME NEW i \in 1..(k - 1)
          PROVE  up'[w][i].kind = "RESULT" /\ up'[w][i].batch = Slot(w, i)'
      <3>1. i = 1 /\ k = 2 /\ 2 \in 1..k /\ i \in 1..(Len(up[w]) - 1)
        BY <1>1, <1>2 DEF Sent
      <3>2. up'[w][1] = up[w][2]
        BY <3>1, <1>4
      <3>3. up[w][2].kind = "RESULT" /\ up[w][2].batch = Slot(w, 2)
        BY <3>1, <1>1 DEF Sent
      <3> QED BY <3>1, <3>2, <3>3, <1>3
    <2>3. t # "none" => up'[w][(k - 1) + 1] = Msg(t)
      BY <1>1, <1>2, <1>4 DEF Sent
    <2> QED BY <2>1, <2>2, <2>3 DEF Sent
  <1>6. WithoutJob(w, k, t) => WithoutJob(w, k - 1, t)'
    BY <1>2, <1>3 DEF WithoutJob, NoJob, Stays
  <1>7. WithJob(w, k, t) => WithJob(w, k - 1, t)'
    <2>1. ASSUME Runs(w, k + 1), k < 2 PROVE Runs(w, k)'
      BY <2>1, <1>2, <1>3 DEF Runs, Stays
    <2> QED BY <1>2, <1>3, <2>1 DEF WithJob, Stays
  <1>8. WithFetched(w, k, t) => WithFetched(w, k - 1, t)'
    BY <1>2, <1>3 DEF WithFetched, NoJob, Stays
  <1>9. Phase(w, k - 1, t)'
    BY <1>1, <1>6, <1>7, <1>8 DEF Phase
  <1> QED BY <1>2, <1>5, <1>9 DEF WorkerLane

\* A READY that is served with a batch or with STOP.
LEMMA ServedReady ==
  ASSUME NEW w \in Remote, up[w] \in Seq(Message), lane[w] \in LaneRec, WorkerLane(w),
         up[w] # << >>, Head(up[w]).kind = "READY", up'[w] = Tail(up[w]), Stays(w),
         \/ /\ lane'[w] = LaneStopped(lane[w]) /\ down'[w] = Append(down[w], Msg("STOP"))
         \/ \E b \in Batch : /\ b # NoBatch
                             /\ lane'[w] = LaneAssigned(lane[w], b)
                             /\ down'[w] = Append(down[w], Task(b)),
         AcceptsReady(lane[w])
  PROVE  WorkerLane(w)' /\ down[w] = << >> /\ up'[w] = << >>
  <1>1. PICK k \in 0..2, t \in {"none", "READY", "DRAIN"} : Sent(w, k, t) /\ Phase(w, k, t)
    BY DEF WorkerLane
  <1>2. k = 0 /\ t = "READY"
    BY <1>1, HeadKind
  <1>3. Len(up[w]) = 1
    BY <1>1, <1>2 DEF Sent
  <1>4. up'[w] = << >>
    BY <1>3, TailOfOne
  <1>5. Sent(w, 0, "none")' /\ 0 \in 0..2
    BY <1>4, NothingSent
  <1>6. down[w] = << >> /\ fetched[w] = NotFetched
        /\ \/ workerPc[w] = "wait" /\ NoJob(w) /\ Live(w, 0)
           \/ workerPc[w] = "fetch" /\ Prefetch /\ Runs(w, 1) /\ Live(w, 1)
    BY <1>1, <1>2 DEF Phase, WithoutJob, WithJob, WithFetched
  <1>7. CASE lane'[w] = LaneStopped(lane[w]) /\ down'[w] = Append(down[w], Msg("STOP"))
    <2>1. Len(down'[w]) = 1 /\ down'[w][1] = Msg("STOP")
      BY <1>6, <1>7
    <2>2. down'[w][1].kind = "STOP"
      BY <2>1 DEF Msg
    <2>3. CASE workerPc[w] = "wait" /\ NoJob(w) /\ Live(w, 0)
      <3>1. Ending(w, 0)'
        BY <2>3, <1>7, LaneStops, LaneBuilds, FrameType DEF Live, Ending
      <3>2. WithoutJob(w, 0, "none")'
        BY <1>6, <2>1, <2>2, <2>3, <3>1 DEF WithoutJob, StopComes, Stays, NoJob
      <3> QED BY <1>5, <3>2, <1>4, <1>6, LaneIs DEF Phase
    <2>4. CASE workerPc[w] = "fetch" /\ Prefetch /\ Runs(w, 1) /\ Live(w, 1)
      <3>1. Ending(w, 1)' /\ Runs(w, 1)'
        BY <2>4, <1>7, LaneStops DEF Live, Ending, Runs, Slot, Stays
      <3>2. WithJob(w, 0, "none")'
        BY <1>6, <2>1, <2>2, <2>4, <3>1 DEF WithJob, StopComes, Stays
      <3> QED BY <1>5, <3>2, <1>4, <1>6, LaneIs DEF Phase
    <2> QED BY <1>6, <2>3, <2>4
  <1>8. ASSUME NEW b \in Batch, b # NoBatch, lane'[w] = LaneAssigned(lane[w], b),
               down'[w] = Append(down[w], Task(b))
        PROVE  WorkerLane(w)'
    <2>1. Len(down'[w]) = 1 /\ down'[w][1] = Task(b)
      BY <1>6, <1>8
    <2>2. down'[w][1].kind = "TASK" /\ down'[w][1].batch = b
      BY <2>1 DEF Task
    <2>3. CASE workerPc[w] = "wait" /\ NoJob(w) /\ Live(w, 0)
      <3>1. lane'[w] = Running(b)
        BY <2>3, <1>8, LaneAssigns, LaneBuilds, FrameType DEF Live
      <3>x. /\ lane'[w].st = "Running" /\ ~lane'[w].stopping /\ lane'[w].cur = b
            /\ lane'[w].pre = NoBatch
        BY <3>1, <1>8, LaneBuilds
      <3>2. Live(w, 1)' /\ Slot(w, 1)' = b
        BY <3>x, <1>8 DEF Live, Slot
      <3>3. WithoutJob(w, 0, "none")'
        BY <1>6, <2>1, <2>2, <2>3, <3>2 DEF WithoutJob, Comes, Stays, NoJob
      <3> QED BY <1>5, <3>3, LaneIs DEF Phase
    <2>4. CASE workerPc[w] = "fetch" /\ Prefetch /\ Runs(w, 1) /\ Live(w, 1)
      <3>1. Live(w, 2)' /\ Runs(w, 1)' /\ Slot(w, 2)' = b
        BY <2>4, <1>8, LaneAssigns DEF Live, Runs, Slot, Stays
      <3>2. WithJob(w, 0, "none")'
        BY <1>6, <2>1, <2>2, <2>4, <3>1 DEF WithJob, Comes, Stays
      <3> QED BY <1>5, <3>2, LaneIs DEF Phase
    <2> QED BY <1>6, <2>3, <2>4
  <1> QED BY <1>4, <1>6, <1>7, <1>8

\* A DRAIN that is served.
LEMMA ServedDrain ==
  ASSUME NEW w \in Remote, up[w] \in Seq(Message), lane[w] \in LaneRec, WorkerLane(w),
         up[w] # << >>, Head(up[w]).kind = "DRAIN", up'[w] = Tail(up[w]), Stays(w),
         lane'[w] = Drained, down'[w] = down[w]
  PROVE  WorkerLane(w)'
  <1>1. PICK k \in 0..2, t \in {"none", "READY", "DRAIN"} : Sent(w, k, t) /\ Phase(w, k, t)
    BY DEF WorkerLane
  <1>2. k = 0 /\ t = "DRAIN"
    BY <1>1, HeadKind
  <1>3. Len(up[w]) = 1
    BY <1>1, <1>2 DEF Sent
  <1>4. up'[w] = << >>
    BY <1>3, TailOfOne
  <1>5. Sent(w, 0, "none")' /\ 0 \in 0..2
    BY <1>4, NothingSent
  <1>6. NoJob(w) /\ fetched[w] = NotFetched /\ workerPc[w] = "done" /\ down[w] = << >>
    BY <1>1, <1>2 DEF Phase, WithoutJob, WithJob, WithFetched
  <1>7. WithoutJob(w, 0, "none")'
    BY <1>6 DEF WithoutJob, NoJob, Stays
  <1> QED BY <1>5, <1>7, LaneIs DEF Phase

\* Sending and receiving touch one channel.
LEMMA ChannelSend ==
  ASSUME NEW chan, chan \in [Remote -> Seq(Message)], NEW w \in Remote, NEW m
  PROVE  /\ Send(chan, w, m)[w] = Append(chan[w], m)
         /\ Receive(chan, w)[w] = Tail(chan[w])
         /\ \A v \in Remote : v # w => Send(chan, w, m)[v] = chan[v] /\ Receive(chan, w)[v] = chan[v]
  BY DEF Send, Receive

\* What one more message does to what w has sent.
LEMMA SendsMore ==
  ASSUME NEW w \in Remote, up[w] \in Seq(Message), NEW k \in 0..2, Sent(w, k, "none"),
         lane'[w] = lane[w], NEW m \in Message, up'[w] = Append(up[w], m)
  PROVE  /\ \A t \in {"READY", "DRAIN"} : m = Msg(t) => Sent(w, k, t)'
         /\ m.kind = "RESULT" /\ m.batch = Slot(w, k + 1) => Sent(w, k + 1, "none")'
  <1>1. Len(up[w]) = k
    BY DEF Sent
  <1>2. Len(up'[w]) = k + 1 /\ up'[w][k + 1] = m /\ \A i \in 1..k : up'[w][i] = up[w][i]
    BY <1>1
  <1>3. \A i \in 1..3 : Slot(w, i)' = Slot(w, i)
    BY DEF Slot
  <1>4. \A i \in 1..k : up'[w][i].kind = "RESULT" /\ up'[w][i].batch = Slot(w, i)'
    BY <1>2, <1>3 DEF Sent
  <1>5. ASSUME NEW t \in {"READY", "DRAIN"}, m = Msg(t) PROVE Sent(w, k, t)'
    BY <1>2, <1>4, <1>5 DEF Sent
  <1>6. ASSUME m.kind = "RESULT", m.batch = Slot(w, k + 1) PROVE Sent(w, k + 1, "none")'
    <2>1. up'[w][k + 1].kind = "RESULT" /\ up'[w][k + 1].batch = Slot(w, k + 1)'
      BY <1>2, <1>3, <1>6
    <2>2. \A i \in 1..(k + 1) : i \in 1..k \/ i = k + 1
      OBVIOUS
    <2>3. \A i \in 1..(k + 1) : up'[w][i].kind = "RESULT" /\ up'[w][i].batch = Slot(w, i)'
      BY <1>4, <2>1, <2>2
    <2> QED BY <1>2, <2>3 DEF Sent
  <1> QED BY <1>5, <1>6

\* The lane of w is as it was.
LaneStays(w) == lane'[w] = lane[w]
LEMMA LaneKept ==
  ASSUME NEW w \in Remote, LaneStays(w)
  PROVE  /\ \A i \in 1..3 : Slot(w, i)' = Slot(w, i)
         /\ \A n \in 0..3 : (Live(w, n) => Live(w, n)') /\ (Ending(w, n) => Ending(w, n)')
  BY DEF LaneStays, Slot, Live, Ending

LEMMA SentKept ==
  ASSUME NEW w \in Remote, LaneStays(w), up'[w] = up[w],
         NEW k \in 0..2, NEW t \in {"none", "READY", "DRAIN"}, Sent(w, k, t)
  PROVE  Sent(w, k, t)'
  <1>1. \A i \in 1..3 : Slot(w, i)' = Slot(w, i)
    BY LaneKept
  <1> QED BY <1>1 DEF Sent

\* The types of what a worker's step looks at.
HereTypes(w) ==
  /\ up[w] \in Seq(Message) /\ down[w] \in Seq(Message)
  /\ lane[w] \in LaneRec /\ job[w] \in Batch /\ fetched[w] \in Message

LEMMA ReadyLane ==
  ASSUME NEW w \in Remote, HereTypes(w), WorkerLane(w), LaneStays(w),
         workerPc[w] \in {"ready", "prefetch"},
         workerPc'[w] = IF workerPc[w] = "ready" THEN "wait" ELSE "fetch",
         up'[w] = Append(up[w], Msg("READY")), down'[w] = down[w],
         job'[w] = job[w], jobDone'[w] = jobDone[w], fetched'[w] = fetched[w]
  PROVE  WorkerLane(w)'
  <1>1. PICK k \in 0..2, t \in {"none", "READY", "DRAIN"} : Sent(w, k, t) /\ Phase(w, k, t)
    BY DEF WorkerLane
  <1>2. Msg("READY") \in Message /\ Msg("READY").kind = "READY"
    BY FrameType DEF Msg
  <1>3. t = "none"
    BY <1>1 DEF Phase, WithoutJob, WithJob, WithFetched
  <1>4. Sent(w, k, "READY")'
    BY <1>1, <1>2, <1>3, SendsMore DEF LaneStays, HereTypes
  <1>5. CASE workerPc[w] = "ready"
    <2>1. WithoutJob(w, k, "none")
      BY <1>1, <1>3, <1>5 DEF Phase, WithJob, WithFetched
    <2>2. WithoutJob(w, k, "READY")'
      BY <1>5, <2>1, LaneKept DEF WithoutJob, NoJob
    <2> QED BY <1>4, <2>2, LaneIs DEF Phase
  <1>6. CASE workerPc[w] = "prefetch"
    <2>1. WithJob(w, k, "none")
      BY <1>1, <1>3, <1>6 DEF Phase, WithoutJob, WithFetched
    <2>2. WithJob(w, k, "READY")'
      BY <1>6, <2>1, LaneKept DEF WithJob, Runs
    <2> QED BY <1>4, <2>2, LaneIs DEF Phase
  <1> QED BY <1>5, <1>6

\* The answer to a READY that no job ran beside.
LEMMA AnswerComes ==
  ASSUME NEW w \in Remote, HereTypes(w), WorkerLane(w), workerPc[w] = "wait", down[w] # << >>
  PROVE  /\ Sent(w, 0, "none") /\ NoJob(w) /\ fetched[w] = NotFetched
         /\ Tail(down[w]) = << >>
         /\ \/ /\ Head(down[w]).kind = "TASK" /\ Head(down[w]).batch = Slot(w, 1) /\ Live(w, 1)
            \/ Head(down[w]).kind = "STOP" /\ Ending(w, 0)
  <1>1. PICK k \in 0..2, t \in {"none", "READY", "DRAIN"} : Sent(w, k, t) /\ Phase(w, k, t)
    BY DEF WorkerLane
  <1>2. WithoutJob(w, k, t)
    BY <1>1 DEF Phase, WithJob, WithFetched
  <1>3. k = 0 /\ t = "none" /\ (Comes(w, 1) \/ StopComes(w, 0))
    BY <1>2 DEF WithoutJob
  <1>4. Len(down[w]) = 1 /\ Head(down[w]) = down[w][1]
    BY <1>3 DEF Comes, StopComes, HereTypes
  <1>5. Tail(down[w]) = << >>
    BY <1>4, TailOfOne DEF HereTypes
  <1> QED BY <1>1, <1>2, <1>3, <1>4, <1>5 DEF Comes, StopComes, WithoutJob

LEMMA ReceiveLane ==
  ASSUME NEW w \in Remote, HereTypes(w), WorkerLane(w), LaneStays(w),
         workerPc[w] = "wait", down[w] # << >>, down'[w] = Tail(down[w]),
         jobDone'[w] = jobDone[w], fetched'[w] = fetched[w],
         \/ /\ Head(down[w]).kind = "TASK" /\ job'[w] = Head(down[w]).batch
            /\ workerPc'[w] = IF Prefetch THEN "prefetch" ELSE "run"
            /\ up'[w] = up[w]
         \/ /\ Head(down[w]).kind = "TASK" /\ job'[w] = job[w]
            /\ workerPc'[w] = "ready"
            /\ up'[w] = Append(up[w], Result(Head(down[w]).batch, "error"))
         \/ /\ Head(down[w]).kind = "STOP" /\ job'[w] = job[w]
            /\ workerPc'[w] = "drain"
            /\ up'[w] = up[w]
  PROVE  WorkerLane(w)'
  <1>1. /\ Sent(w, 0, "none") /\ NoJob(w) /\ fetched[w] = NotFetched
        /\ Tail(down[w]) = << >>
        /\ \/ /\ Head(down[w]).kind = "TASK" /\ Head(down[w]).batch = Slot(w, 1) /\ Live(w, 1)
           \/ Head(down[w]).kind = "STOP" /\ Ending(w, 0)
    BY AnswerComes
  <1>k. /\ \A i \in 1..3 : Slot(w, i)' = Slot(w, i)
        /\ \A n \in 0..3 : (Live(w, n) => Live(w, n)') /\ (Ending(w, n) => Ending(w, n)')
    BY LaneKept
  <1>2. CASE /\ Head(down[w]).kind = "TASK" /\ job'[w] = Head(down[w]).batch
             /\ workerPc'[w] = IF Prefetch THEN "prefetch" ELSE "run"
             /\ up'[w] = up[w]
    <2>1. Sent(w, 0, "none")'
      BY <1>1, <1>2, SentKept
    <2>2. Live(w, 1)' /\ job'[w] = Slot(w, 1)' /\ job'[w] # NoBatch
      BY <1>1, <1>2, <1>k DEF Live, Slot
    <2>3. WithJob(w, 0, "none")'
      BY <1>1, <1>2, <2>2 DEF WithJob, Runs, NoJob
    <2> QED BY <2>1, <2>3, LaneIs DEF Phase
  <1>3. CASE /\ Head(down[w]).kind = "TASK" /\ job'[w] = job[w]
             /\ workerPc'[w] = "ready"
             /\ up'[w] = Append(up[w], Result(Head(down[w]).batch, "error"))
    <2>1. Head(down[w]).batch \in Batch
      BY HeadType DEF HereTypes
    <2>2. /\ Result(Head(down[w]).batch, "error") \in Message
          /\ Result(Head(down[w]).batch, "error").kind = "RESULT"
          /\ Result(Head(down[w]).batch, "error").batch = Head(down[w]).batch
      BY <2>1, FrameType DEF Result
    <2>3. Sent(w, 1, "none")'
      BY <1>1, <1>3, <2>2, SendsMore DEF LaneStays, HereTypes
    <2>4. WithoutJob(w, 1, "none")'
      BY <1>1, <1>3, <1>k DEF WithoutJob, NoJob
    <2> QED BY <2>3, <2>4, LaneIs DEF Phase
  <1>4. CASE /\ Head(down[w]).kind = "STOP" /\ job'[w] = job[w]
             /\ workerPc'[w] = "drain"
             /\ up'[w] = up[w]
    <2>1. Sent(w, 0, "none")'
      BY <1>1, <1>4, SentKept
    <2>2. WithoutJob(w, 0, "none")'
      BY <1>1, <1>4, <1>k DEF WithoutJob, NoJob
    <2> QED BY <2>1, <2>2, LaneIs DEF Phase
  <1> QED BY <1>2, <1>3, <1>4

\* A result of batch b.
ResultOf(m, b) == m \in Message /\ m.kind = "RESULT" /\ m.batch = b

LEMMA RunLane ==
  ASSUME NEW w \in Remote, HereTypes(w), WorkerLane(w), LaneStays(w),
         workerPc[w] = "run", NEW m, ResultOf(m, job[w]), up'[w] = Append(up[w], m),
         down'[w] = down[w], fetched'[w] = fetched[w], jobDone'[w] = jobDone[w],
         job'[w] = NoBatch, workerPc'[w] = "ready"
  PROVE  WorkerLane(w)'
  <1>1. PICK k \in 0..2, t \in {"none", "READY", "DRAIN"} : Sent(w, k, t) /\ Phase(w, k, t)
    BY DEF WorkerLane
  <1>2. k = 0 /\ t = "none" /\ Runs(w, 1) /\ WithJob(w, 0, "none")
    BY <1>1 DEF Phase, WithoutJob, WithJob, WithFetched
  <1>3. Sent(w, 1, "none")'
    BY <1>1, <1>2, SendsMore DEF Runs, LaneStays, HereTypes, ResultOf
  <1>4. Live(w, 1)'
    BY <1>2, LaneKept DEF WithJob
  <1>5. WithoutJob(w, 1, "none")'
    BY <1>2, <1>4 DEF WithJob, WithoutJob, NoJob
  <1> QED BY <1>3, <1>5, LaneIs DEF Phase

LEMMA FetchLane ==
  ASSUME NEW w \in Remote, HereTypes(w), WorkerLane(w), LaneStays(w),
         workerPc[w] = "fetch", down[w] # << >>, down'[w] = Tail(down[w]),
         fetched'[w] = Head(down[w]), workerPc'[w] = "join",
         up'[w] = up[w], job'[w] = job[w], jobDone'[w] = jobDone[w]
  PROVE  WorkerLane(w)'
  <1>1. PICK k \in 0..2, t \in {"none", "READY", "DRAIN"} : Sent(w, k, t) /\ Phase(w, k, t)
    BY DEF WorkerLane
  <1>2. WithJob(w, k, t)
    BY <1>1 DEF Phase, WithoutJob, WithFetched
  <1>3. k = 0 /\ t = "none" /\ Prefetch /\ Runs(w, 1) /\ (Comes(w, 2) \/ StopComes(w, 1))
    BY <1>2 DEF WithJob
  <1>4. Len(down[w]) = 1 /\ Head(down[w]) = down[w][1]
    BY <1>3 DEF Comes, StopComes, HereTypes
  <1>5. Tail(down[w]) = << >>
    BY <1>4, TailOfOne DEF HereTypes
  <1>6. Sent(w, 0, "none")'
    BY <1>1, <1>3, SentKept
  <1>k. /\ \A i \in 1..3 : Slot(w, i)' = Slot(w, i)
        /\ \A n \in 0..3 : (Live(w, n) => Live(w, n)') /\ (Ending(w, n) => Ending(w, n)')
    BY LaneKept
  <1>7. WithFetched(w, 0, "none")'
    BY <1>3, <1>4, <1>5, <1>k DEF WithFetched, Comes, StopComes, Runs
  <1> QED BY <1>6, <1>7, LaneIs DEF Phase

LEMMA JoinLane ==
  ASSUME NEW w \in Remote, HereTypes(w), WorkerLane(w), LaneStays(w),
         workerPc[w] = "join", NEW m, ResultOf(m, job[w]), up'[w] = Append(up[w], m),
         down'[w] = down[w], ~jobDone'[w],
         \/ /\ fetched[w].kind = "TASK" /\ job'[w] = fetched[w].batch
            /\ fetched'[w] = NotFetched /\ workerPc'[w] = "prefetch"
         \/ /\ fetched[w].kind = "STOP" /\ job'[w] = NoBatch
            /\ fetched'[w] = NotFetched /\ workerPc'[w] = "drain"
         \/ /\ fetched[w].kind = "TASK" /\ job'[w] = NoBatch
            /\ fetched'[w] = fetched[w] /\ workerPc'[w] = "flush"
  PROVE  WorkerLane(w)'
  <1>1. PICK k \in 0..2, t \in {"none", "READY", "DRAIN"} : Sent(w, k, t) /\ Phase(w, k, t)
    BY DEF WorkerLane
  <1>2. k = 0 /\ t = "none" /\ Runs(w, 1) /\ WithFetched(w, 0, "none")
    BY <1>1 DEF Phase, WithoutJob, WithJob, WithFetched
  <1>3. Sent(w, 1, "none")'
    BY <1>1, <1>2, SendsMore DEF Runs, LaneStays, HereTypes, ResultOf
  <1>k. /\ \A i \in 1..3 : Slot(w, i)' = Slot(w, i)
        /\ \A n \in 0..3 : (Live(w, n) => Live(w, n)') /\ (Ending(w, n) => Ending(w, n)')
    BY LaneKept
  <1>4. CASE /\ fetched[w].kind = "TASK" /\ job'[w] = fetched[w].batch
             /\ fetched'[w] = NotFetched /\ workerPc'[w] = "prefetch"
    <2>1. Live(w, 2) /\ job'[w] = Slot(w, 2) /\ Slot(w, 2) # NoBatch /\ Prefetch
      BY <1>2, <1>4 DEF WithFetched, Live, Slot
    <2>2. WithJob(w, 1, "none")'
      BY <1>2, <1>4, <1>k, <2>1 DEF WithFetched, WithJob, Runs
    <2> QED BY <1>3, <2>2, LaneIs DEF Phase
  <1>5. CASE /\ fetched[w].kind = "STOP" /\ job'[w] = NoBatch
             /\ fetched'[w] = NotFetched /\ workerPc'[w] = "drain"
    <2>1. WithoutJob(w, 1, "none")'
      BY <1>2, <1>5, <1>k DEF WithFetched, WithoutJob, NoJob
    <2> QED BY <1>3, <2>1, LaneIs DEF Phase
  <1>6. CASE /\ fetched[w].kind = "TASK" /\ job'[w] = NoBatch
             /\ fetched'[w] = fetched[w] /\ workerPc'[w] = "flush"
    <2>1. WithFetched(w, 1, "none")'
      BY <1>2, <1>6, <1>k DEF WithFetched, NoJob
    <2> QED BY <1>3, <2>1, LaneIs DEF Phase
  <1> QED BY <1>4, <1>5, <1>6

LEMMA FlushLane ==
  ASSUME NEW w \in Remote, HereTypes(w), WorkerLane(w), LaneStays(w),
         workerPc[w] = "flush", NEW m, ResultOf(m, fetched[w].batch), up'[w] = Append(up[w], m),
         down'[w] = down[w], job'[w] = job[w], jobDone'[w] = jobDone[w],
         fetched'[w] = NotFetched, workerPc'[w] = "ready"
  PROVE  WorkerLane(w)'
  <1>1. PICK k \in 0..2, t \in {"none", "READY", "DRAIN"} : Sent(w, k, t) /\ Phase(w, k, t)
    BY DEF WorkerLane
  <1>2. k < 2 /\ t = "none" /\ WithFetched(w, k, "none")
    BY <1>1 DEF Phase, WithoutJob, WithJob, WithFetched
  <1>3. fetched[w].batch = Slot(w, k + 1) /\ Live(w, k + 1) /\ NoJob(w) /\ down[w] = << >>
    BY <1>2 DEF WithFetched
  <1>4. Sent(w, k + 1, "none")' /\ k + 1 \in 0..2
    BY <1>1, <1>2, <1>3, SendsMore DEF LaneStays, HereTypes, ResultOf
  <1>5. Live(w, k + 1)'
    BY <1>3, <1>4, LaneKept
  <1>6. WithoutJob(w, k + 1, "none")'
    BY <1>3, <1>5 DEF WithoutJob, NoJob
  <1> QED BY <1>4, <1>6, LaneIs DEF Phase

LEMMA DrainLane ==
  ASSUME NEW w \in Remote, HereTypes(w), WorkerLane(w), LaneStays(w),
         workerPc[w] = "drain", up'[w] = Append(up[w], Msg("DRAIN")), down'[w] = down[w],
         job'[w] = job[w], jobDone'[w] = jobDone[w], fetched'[w] = fetched[w],
         workerPc'[w] = "done"
  PROVE  WorkerLane(w)'
  <1>1. PICK k \in 0..2, t \in {"none", "READY", "DRAIN"} : Sent(w, k, t) /\ Phase(w, k, t)
    BY DEF WorkerLane
  <1>2. Msg("DRAIN") \in Message /\ Msg("DRAIN").kind = "DRAIN"
    BY FrameType DEF Msg
  <1>3. t = "none" /\ WithoutJob(w, k, "none")
    BY <1>1 DEF Phase, WithoutJob, WithJob, WithFetched
  <1>4. Sent(w, k, "DRAIN")'
    BY <1>1, <1>2, <1>3, SendsMore DEF LaneStays, HereTypes
  <1>5. WithoutJob(w, k, "DRAIN")'
    BY <1>3, LaneKept DEF WithoutJob, NoJob
  <1> QED BY <1>4, <1>5, LaneIs DEF Phase

LEMMA PoolLane ==
  ASSUME NEW w \in Remote, WorkerLane(w), LaneStays(w), Prefetch, job[w] # NoBatch,
         up'[w] = up[w], down'[w] = down[w], job'[w] = job[w], fetched'[w] = fetched[w],
         workerPc'[w] = workerPc[w]
  PROVE  WorkerLane(w)'
  <1>1. PICK k \in 0..2, t \in {"none", "READY", "DRAIN"} : Sent(w, k, t) /\ Phase(w, k, t)
    BY DEF WorkerLane
  <1>2. Sent(w, k, t)'
    BY <1>1, SentKept
  <1>k. /\ \A i \in 1..3 : Slot(w, i)' = Slot(w, i)
        /\ \A n \in 0..3 : (Live(w, n) => Live(w, n)') /\ (Ending(w, n) => Ending(w, n)')
    BY LaneKept
  <1>3. ~WithoutJob(w, k, t)
    BY DEF WithoutJob, NoJob
  <1>4. WithJob(w, k, t) => WithJob(w, k, t)'
    BY <1>k DEF WithJob, Runs, Comes, StopComes
  <1>5. WithFetched(w, k, t) => WithFetched(w, k, t)'
    BY <1>k DEF WithFetched, Runs, NoJob
  <1> QED BY <1>1, <1>2, <1>3, <1>4, <1>5, LaneIs DEF Phase

\* A step of worker w leaves the root and the other workers alone.
OnlyAt(w) ==
  /\ lane' = lane /\ next' = next /\ rootPc' = rootPc
  /\ jobDone' \in [Rank -> BOOLEAN]
  /\ job'[Root] = job[Root] /\ jobDone'[Root] = jobDone[Root]
  /\ \A v \in Remote : v # w => Same(v)

LEMMA LaneInvTypes ==
  ASSUME LaneInv, NEW w \in Remote
  PROVE  /\ HereTypes(w) /\ w \in Rank /\ w # Root
         /\ up \in [Remote -> Seq(Message)] /\ down \in [Remote -> Seq(Message)]
         /\ fetched \in [Remote -> Message] /\ workerPc \in [Remote -> WorkerPc]
         /\ job \in [Rank -> Batch] /\ jobDone \in [Rank -> BOOLEAN] /\ lane \in [Rank -> LaneRec]
  BY DEF LaneInv, RequestInv, ChannelType, LaneTypes, HereTypes, Remote

LEMMA RootInRank == Root \in Rank /\ Root \notin Remote
  BY PmapAssumption DEF Rank, Remote

\* One entry of each of the functions that a worker's step may change.
LEMMA WorkerEntries ==
  ASSUME NEW w \in Remote, LaneInv, NEW j, NEW jd \in BOOLEAN, NEW f, NEW pc, lane' = lane,
         next' = next, rootPc' = rootPc,
         job' = job \/ job' = [job EXCEPT ![w] = j],
         jobDone' = jobDone \/ jobDone' = [jobDone EXCEPT ![w] = jd],
         fetched' = fetched \/ fetched' = [fetched EXCEPT ![w] = f],
         workerPc' = [workerPc EXCEPT ![w] = pc],
         up' = up \/ \E m : up' = Send(up, w, m),
         down' = down \/ down' = Receive(down, w)
  PROVE  OnlyAt(w) /\ LaneStays(w) /\ workerPc'[w] = pc
  <1>t. /\ HereTypes(w) /\ w \in Rank /\ w # Root
        /\ up \in [Remote -> Seq(Message)] /\ down \in [Remote -> Seq(Message)]
        /\ fetched \in [Remote -> Message] /\ workerPc \in [Remote -> WorkerPc]
        /\ job \in [Rank -> Batch] /\ jobDone \in [Rank -> BOOLEAN] /\ lane \in [Rank -> LaneRec]
    BY LaneInvTypes
  <1>1. \A v \in Remote : v \in Rank
    BY DEF Remote
  <1>2. job'[Root] = job[Root] /\ \A v \in Remote : v # w => job'[v] = job[v]
    BY <1>t, <1>1, RootInRank
  <1>3. /\ jobDone'[Root] = jobDone[Root] /\ jobDone' \in [Rank -> BOOLEAN]
        /\ \A v \in Remote : v # w => jobDone'[v] = jobDone[v]
    BY <1>t, <1>1, RootInRank
  <1>4. \A v \in Remote : v # w => fetched'[v] = fetched[v] /\ workerPc'[v] = workerPc[v]
    BY <1>t
  <1>5. \A v \in Remote : v # w => up'[v] = up[v] /\ down'[v] = down[v]
    BY <1>t DEF Send, Receive
  <1> QED BY <1>t, <1>2, <1>3, <1>4, <1>5 DEF OnlyAt, LaneStays, Same

LEMMA WorkerLaneStep ==
  ASSUME LaneInv, NEW w \in Remote, WorkerStep(w)
  PROVE  OnlyAt(w) /\ WorkerLane(w)'
  <1>t. /\ HereTypes(w) /\ w \in Rank /\ w # Root
        /\ up \in [Remote -> Seq(Message)] /\ down \in [Remote -> Seq(Message)]
        /\ fetched \in [Remote -> Message] /\ workerPc \in [Remote -> WorkerPc]
        /\ job \in [Rank -> Batch] /\ jobDone \in [Rank -> BOOLEAN] /\ lane \in [Rank -> LaneRec]
    BY LaneInvTypes
  <1>w. WorkerLane(w)
    BY DEF LaneInv
  <1>f. PICK no : no = FALSE
    OBVIOUS
  <1>1. CASE SendsReady(w)
    <2>1. /\ workerPc[w] \in {"ready", "prefetch"}
          /\ up' = Send(up, w, Msg("READY"))
          /\ workerPc' = [workerPc EXCEPT ![w] = IF @ = "ready" THEN "wait" ELSE "fetch"]
          /\ lane' = lane /\ next' = next /\ rootPc' = rootPc /\ down' = down
          /\ job' = job /\ jobDone' = jobDone /\ fetched' = fetched
      BY <1>1 DEF SendsReady, coordinatorVars, jobVars
    <2>2. OnlyAt(w) /\ LaneStays(w)
          /\ workerPc'[w] = IF workerPc[w] = "ready" THEN "wait" ELSE "fetch"
      BY <2>1, WorkerEntries
    <2>3. up'[w] = Append(up[w], Msg("READY"))
      BY <2>1, <1>t DEF Send
    <2>4. WorkerLane(w)'
      BY <1>t, <1>w, <2>1, <2>2, <2>3, ReadyLane
    <2> QED BY <2>2, <2>4
  <1>2. CASE WorkerReceives(w)
    <2> DEFINE m == Head(down[w])
    <2>1. /\ workerPc[w] = "wait" /\ down[w] # << >> /\ down' = Receive(down, w)
          /\ lane' = lane /\ next' = next /\ rootPc' = rootPc
          /\ jobDone' = jobDone /\ fetched' = fetched
      BY <1>2 DEF WorkerReceives, coordinatorVars
    <2>2. \/ /\ m.kind = "TASK" /\ job' = [job EXCEPT ![w] = m.batch] /\ up' = up
             /\ workerPc' = [workerPc EXCEPT ![w] = IF Prefetch THEN "prefetch" ELSE "run"]
          \/ /\ m.kind = "TASK" /\ job' = job /\ up' = Send(up, w, Result(m.batch, "error"))
             /\ workerPc' = [workerPc EXCEPT ![w] = "ready"]
          \/ /\ m.kind = "STOP" /\ job' = job /\ up' = up
             /\ workerPc' = [workerPc EXCEPT ![w] = "drain"]
      BY <1>2 DEF WorkerReceives, AnswersUndecodable
    <2>3. down'[w] = Tail(down[w])
      BY <2>1, <1>t, ChannelSend
    <2>4. CASE /\ m.kind = "TASK" /\ job' = [job EXCEPT ![w] = m.batch] /\ up' = up
               /\ workerPc' = [workerPc EXCEPT ![w] = IF Prefetch THEN "prefetch" ELSE "run"]
      <3>1. OnlyAt(w) /\ LaneStays(w) /\ workerPc'[w] = IF Prefetch THEN "prefetch" ELSE "run"
        BY <2>1, <2>4, WorkerEntries
      <3>2. job'[w] = m.batch
        BY <2>4, <1>t
      <3>3. WorkerLane(w)'
        BY <1>t, <1>w, <2>1, <2>3, <2>4, <3>1, <3>2, ReceiveLane
      <3> QED BY <3>1, <3>3
    <2>5. CASE /\ m.kind = "TASK" /\ job' = job /\ up' = Send(up, w, Result(m.batch, "error"))
               /\ workerPc' = [workerPc EXCEPT ![w] = "ready"]
      <3>1. OnlyAt(w) /\ LaneStays(w) /\ workerPc'[w] = "ready"
        BY <2>1, <2>5, WorkerEntries
      <3>2. up'[w] = Append(up[w], Result(m.batch, "error"))
        BY <2>5, <1>t, ChannelSend
      <3>3. WorkerLane(w)'
        BY <1>t, <1>w, <2>1, <2>3, <2>5, <3>1, <3>2, ReceiveLane
      <3> QED BY <3>1, <3>3
    <2>6. CASE /\ m.kind = "STOP" /\ job' = job /\ up' = up
               /\ workerPc' = [workerPc EXCEPT ![w] = "drain"]
      <3>1. OnlyAt(w) /\ LaneStays(w) /\ workerPc'[w] = "drain"
        BY <2>1, <2>6, WorkerEntries
      <3>2. WorkerLane(w)'
        BY <1>t, <1>w, <2>1, <2>3, <2>6, <3>1, ReceiveLane
      <3> QED BY <3>1, <3>2
    <2> QED BY <2>2, <2>4, <2>5, <2>6
  <1>a. ASSUME NEW b \in Batch, Answers(w, b)
        PROVE  \E m : ResultOf(m, b) /\ up' = Send(up, w, m)
    <2>1. up' = Send(up, w, Result(b, "ok")) \/ up' = Send(up, w, Result(b, "error"))
      BY <1>a DEF Answers
    <2>2. ResultOf(Result(b, "ok"), b) /\ ResultOf(Result(b, "error"), b)
      BY FrameType DEF ResultOf, Result
    <2> QED BY <2>1, <2>2
  <1>3. CASE WorkerRuns(w)
    <2>1. /\ workerPc[w] = "run" /\ Answers(w, job[w])
          /\ job' = [job EXCEPT ![w] = NoBatch]
          /\ workerPc' = [workerPc EXCEPT ![w] = "ready"]
          /\ lane' = lane /\ next' = next /\ rootPc' = rootPc /\ down' = down
          /\ jobDone' = jobDone /\ fetched' = fetched
      BY <1>3 DEF WorkerRuns, coordinatorVars
    <2>2. PICK m : ResultOf(m, job[w]) /\ up' = Send(up, w, m)
      BY <1>a, <1>t, <2>1 DEF HereTypes
    <2>3. OnlyAt(w) /\ LaneStays(w) /\ workerPc'[w] = "ready"
      BY <2>1, <2>2, WorkerEntries
    <2>4. up'[w] = Append(up[w], m) /\ job'[w] = NoBatch
      BY <2>1, <2>2, <1>t, ChannelSend
    <2>5. WorkerLane(w)'
      BY <1>t, <1>w, <2>1, <2>2, <2>3, <2>4, RunLane
    <2> QED BY <2>3, <2>5
  <1>4. CASE WorkerFetches(w)
    <2>1. /\ workerPc[w] = "fetch" /\ down[w] # << >> /\ down' = Receive(down, w)
          /\ fetched' = [fetched EXCEPT ![w] = Head(down[w])]
          /\ workerPc' = [workerPc EXCEPT ![w] = "join"]
          /\ lane' = lane /\ next' = next /\ rootPc' = rootPc /\ up' = up
          /\ job' = job /\ jobDone' = jobDone
      BY <1>4 DEF WorkerFetches, coordinatorVars, jobVars
    <2>2. OnlyAt(w) /\ LaneStays(w) /\ workerPc'[w] = "join"
      BY <2>1, WorkerEntries
    <2>3. down'[w] = Tail(down[w]) /\ fetched'[w] = Head(down[w])
      BY <2>1, <1>t, ChannelSend
    <2>4. WorkerLane(w)'
      BY <1>t, <1>w, <2>1, <2>2, <2>3, FetchLane
    <2> QED BY <2>2, <2>4
  <1>5. CASE WorkerJoins(w)
    <2> DEFINE f == fetched[w]
               work == f.kind = "TASK" /\ ~Some(f.batch, "task undecodable")
               j == IF work THEN f.batch ELSE NoBatch
               g == IF f.kind = "TASK" /\ ~work THEN f ELSE NotFetched
               pc == IF work THEN "prefetch" ELSE IF f.kind = "STOP" THEN "drain" ELSE "flush"
    <2>1. /\ workerPc[w] = "join" /\ Answers(w, job[w])
          /\ jobDone' = [jobDone EXCEPT ![w] = FALSE]
          /\ job' = [job EXCEPT ![w] = j]
          /\ fetched' = [fetched EXCEPT ![w] = g]
          /\ workerPc' = [workerPc EXCEPT ![w] = pc]
          /\ lane' = lane /\ next' = next /\ rootPc' = rootPc /\ down' = down
      BY <1>5 DEF WorkerJoins, coordinatorVars
    <2>2. PICK m : ResultOf(m, job[w]) /\ up' = Send(up, w, m)
      BY <1>a, <1>t, <2>1 DEF HereTypes
    <2> HIDE DEF j, g, pc
    <2>3. jobDone' = [jobDone EXCEPT ![w] = no] /\ no \in BOOLEAN
      BY <2>1, <1>f
    <2>4. OnlyAt(w) /\ LaneStays(w) /\ workerPc'[w] = pc
      BY <2>1, <2>2, <2>3, WorkerEntries
    <2>5. up'[w] = Append(up[w], m) /\ job'[w] = j /\ fetched'[w] = g /\ ~jobDone'[w]
      BY <2>1, <2>2, <1>t, ChannelSend
    <2>6. f.kind \in {"TASK", "STOP"}
      BY <1>w, <2>1 DEF WorkerLane, Phase, WithoutJob, WithJob, WithFetched
    <2>7. \/ f.kind = "TASK" /\ j = f.batch /\ g = NotFetched /\ pc = "prefetch"
          \/ f.kind = "STOP" /\ j = NoBatch /\ g = NotFetched /\ pc = "drain"
          \/ f.kind = "TASK" /\ j = NoBatch /\ g = f /\ pc = "flush"
      BY <2>6 DEF j, g, pc
    <2>8. WorkerLane(w)'
      BY <1>t, <1>w, <2>1, <2>2, <2>4, <2>5, <2>7, JoinLane
    <2> QED BY <2>4, <2>8
  <1>6. CASE WorkerFlushes(w)
    <2>1. /\ workerPc[w] = "flush" /\ up' = Send(up, w, Result(fetched[w].batch, "error"))
          /\ fetched' = [fetched EXCEPT ![w] = NotFetched]
          /\ workerPc' = [workerPc EXCEPT ![w] = "ready"]
          /\ lane' = lane /\ next' = next /\ rootPc' = rootPc /\ down' = down
          /\ job' = job /\ jobDone' = jobDone
      BY <1>6 DEF WorkerFlushes, AnswersUndecodable, coordinatorVars, jobVars
    <2>2. fetched[w].batch \in Batch
      BY <1>t DEF HereTypes, Message
    <2>3. ResultOf(Result(fetched[w].batch, "error"), fetched[w].batch)
      BY <2>2, FrameType DEF ResultOf, Result
    <2>4. OnlyAt(w) /\ LaneStays(w) /\ workerPc'[w] = "ready"
      BY <2>1, WorkerEntries
    <2>5. up'[w] = Append(up[w], Result(fetched[w].batch, "error")) /\ fetched'[w] = NotFetched
      BY <2>1, <1>t, ChannelSend
    <2>6. WorkerLane(w)'
      BY <1>t, <1>w, <2>1, <2>3, <2>4, <2>5, FlushLane
    <2> QED BY <2>4, <2>6
  <1>7. CASE WorkerDrains(w)
    <2>1. /\ workerPc[w] = "drain" /\ up' = Send(up, w, Msg("DRAIN"))
          /\ workerPc' = [workerPc EXCEPT ![w] = "done"]
          /\ lane' = lane /\ next' = next /\ rootPc' = rootPc /\ down' = down
          /\ job' = job /\ jobDone' = jobDone /\ fetched' = fetched
      BY <1>7 DEF WorkerDrains, coordinatorVars, jobVars
    <2>2. OnlyAt(w) /\ LaneStays(w) /\ workerPc'[w] = "done"
      BY <2>1, WorkerEntries
    <2>3. up'[w] = Append(up[w], Msg("DRAIN"))
      BY <2>1, <1>t DEF Send
    <2>4. WorkerLane(w)'
      BY <1>t, <1>w, <2>1, <2>2, <2>3, DrainLane
    <2> QED BY <2>2, <2>4
  <1>8. CASE WorkerDies(w)
    <2>1. /\ lane' = lane /\ next' = next /\ rootPc' = rootPc /\ down' = down /\ up' = up
          /\ job' = job /\ jobDone' = jobDone /\ fetched' = fetched /\ workerPc' = workerPc
      BY <1>8 DEF WorkerDies, Abort, coordinatorVars, jobVars
    <2>2. OnlyAt(w) /\ Same(w)
      BY <2>1, <1>t DEF OnlyAt, Same
    <2> QED BY <1>w, <2>2, SameLane
  <1> QED BY <1>1, <1>2, <1>3, <1>4, <1>5, <1>6, <1>7, <1>8 DEF WorkerStep

\* make_batch never makes the absent batch.
LEMMA MakeBatchReal ==
  ASSUME nextId \in Nat PROVE MakeBatch \in Batch /\ MakeBatch # NoBatch
  <1>1. MakeBatch.id = nextId /\ NoBatch.id = -1
    BY DEF MakeBatch, NoBatch
  <1> QED BY <1>1, MakeBatchType

\* What a served header does to the lanes: that of its sender alone changes.
Serves(w) ==
  /\ WorkerLane(w)'
  /\ lane' \in [Rank -> LaneRec] /\ jobDone' = jobDone /\ job' = job
  /\ \A r \in Rank : r # w => lane'[r] = lane[r]
  /\ \A v \in Remote : v # w => Same(v)

LEMMA ServeLane ==
  ASSUME LaneInv, NEW w \in Remote, ServeHeader(w) PROVE Serves(w)
  <1>t. /\ HereTypes(w) /\ w \in Rank /\ w # Root
        /\ up \in [Remote -> Seq(Message)] /\ down \in [Remote -> Seq(Message)]
        /\ fetched \in [Remote -> Message] /\ workerPc \in [Remote -> WorkerPc]
        /\ job \in [Rank -> Batch] /\ jobDone \in [Rank -> BOOLEAN] /\ lane \in [Rank -> LaneRec]
    BY LaneInvTypes
  <1>w. WorkerLane(w) /\ nextId \in Nat
    BY DEF LaneInv, RequestInv, ChannelType
  <1>1. /\ up[w] # << >> /\ up' = Receive(up, w)
        /\ fetched' = fetched /\ workerPc' = workerPc /\ job' = job /\ jobDone' = jobDone
    BY DEF ServeHeader, jobVars
  <1>2. up'[w] = Tail(up[w]) /\ \A v \in Remote : v # w => up'[v] = up[v]
    BY <1>1, <1>t DEF Receive
  <1>3. Stays(w)
    BY <1>1 DEF Stays
  <1>d. ASSUME NEW l \in LaneRec, lane' = [lane EXCEPT ![w] = l], WorkerLane(w)',
               \A v \in Remote : v # w => down'[v] = down[v]
        PROVE  Serves(w)
    <2>1. lane' \in [Rank -> LaneRec] /\ \A r \in Rank : r # w => lane'[r] = lane[r]
      BY <1>d, <1>t
    <2>2. \A v \in Remote : v # w => Same(v)
      BY <1>1, <1>2, <1>d, <2>1 DEF Same, Remote
    <2> QED BY <1>1, <1>d, <2>1, <2>2 DEF Serves
  <1>4. CASE ServeReady(w)
    <2>1. Head(up[w]).kind = "READY" /\ AcceptsReady(lane[w])
      BY <1>4 DEF ServeReady
    <2>2. CASE /\ lane' = [lane EXCEPT ![w] = LaneStopped(@)]
               /\ down' = Send(down, w, Msg("STOP"))
      <3>1. lane'[w] = LaneStopped(lane[w]) /\ LaneStopped(lane[w]) \in LaneRec
        BY <2>2, <1>t, LaneStops DEF HereTypes
      <3>2. down'[w] = Append(down[w], Msg("STOP")) /\ \A v \in Remote : v # w => down'[v] = down[v]
        BY <2>2, <1>t DEF Send
      <3>3. WorkerLane(w)'
        BY <1>t, <1>w, <1>1, <1>2, <1>3, <2>1, <3>1, <3>2, ServedReady DEF HereTypes
      <3> QED BY <1>d, <2>2, <3>1, <3>2, <3>3
    <2>3. CASE /\ lane' = [lane EXCEPT ![w] = LaneAssigned(@, MakeBatch)]
               /\ down' = Send(down, w, Task(MakeBatch))
      <3>0. MakeBatch \in Batch /\ MakeBatch # NoBatch
        BY <1>w, MakeBatchReal
      <3>1. lane'[w] = LaneAssigned(lane[w], MakeBatch) /\ LaneAssigned(lane[w], MakeBatch) \in LaneRec
        BY <2>3, <1>t, <3>0, LaneAssigns DEF HereTypes
      <3>2. /\ down'[w] = Append(down[w], Task(MakeBatch))
            /\ \A v \in Remote : v # w => down'[v] = down[v]
        BY <2>3, <1>t DEF Send
      <3>3. WorkerLane(w)'
        BY <1>t, <1>w, <1>1, <1>2, <1>3, <2>1, <3>0, <3>1, <3>2, ServedReady DEF HereTypes
      <3> QED BY <1>d, <2>3, <3>1, <3>2, <3>3
    <2> QED BY <1>4, <2>2, <2>3 DEF ServeReady
  <1>5. ASSUME ServeUndecodable(w) \/ ServeValues(w) \/ ServeError(w),
               Head(up[w]).kind = "RESULT"
        PROVE  Serves(w)
    <2>1. lane' = [lane EXCEPT ![w] = Advanced(@)] /\ down' = down
      BY <1>5 DEF ServeUndecodable, ServeValues, ServeError
    <2>2. lane'[w] = Advanced(lane[w]) /\ Advanced(lane[w]) \in LaneRec
      BY <2>1, <1>t, LaneAdvances DEF HereTypes
    <2>3. WorkerLane(w)'
      BY <1>t, <1>w, <1>1, <1>2, <1>3, <1>5, <2>1, <2>2, ServedResult DEF HereTypes
    <2> QED BY <1>d, <2>1, <2>2, <2>3
  <1>6. CASE ServeDrain(w)
    <2>1. Head(up[w]).kind = "DRAIN" /\ lane' = [lane EXCEPT ![w] = Drained] /\ down' = down
      BY <1>6 DEF ServeDrain
    <2>2. lane'[w] = Drained /\ Drained \in LaneRec
      BY <2>1, <1>t, LaneBuilds, FrameType
    <2>3. WorkerLane(w)'
      BY <1>t, <1>w, <1>1, <1>2, <1>3, <2>1, <2>2, ServedDrain DEF HereTypes
    <2> QED BY <1>d, <2>1, <2>2, <2>3
  <1>7. ASSUME ServeUndecodable(w) \/ ServeValues(w) \/ ServeError(w)
        PROVE  Head(up[w]).kind = "RESULT"
    <2>1. Head(up[w]).status # "none"
      BY <1>7 DEF ServeUndecodable, ServeValues, ServeError
    <2>2. \A t : Msg(t).status = "none"
      BY DEF Msg
    <2> QED BY <1>t, <1>w, <1>1, <2>1, <2>2, HeadKind DEF WorkerLane, HereTypes
  <1> QED BY <1>4, <1>5, <1>6, <1>7 DEF ServeHeader

\* A step of the root that serves no header: the workers and their lanes stay.
RootAlone ==
  /\ lane' \in [Rank -> LaneRec] /\ jobDone' \in [Rank -> BOOLEAN]
  /\ \A w \in Remote : Same(w)
  /\ RootLane'

\* The lane and the job of the root after next_root_batch.
LEMMA StartedLane ==
  ASSUME LaneInv, StartRootBatch
  PROVE  /\ lane' \in [Rank -> LaneRec]
         /\ lane'[Root] = Running(MakeBatch) /\ job'[Root] = MakeBatch /\ MakeBatch # NoBatch
         /\ \A w \in Remote : lane'[w] = lane[w] /\ job'[w] = job[w]
  <1>1. nextId \in Nat /\ lane \in [Rank -> LaneRec] /\ job \in [Rank -> Batch]
    BY DEF LaneInv, RequestInv, ChannelType, LaneTypes
  <1>2. MakeBatch \in Batch /\ MakeBatch # NoBatch /\ Running(MakeBatch) \in LaneRec
    BY <1>1, MakeBatchReal, LaneBuilds
  <1>3. lane' = [lane EXCEPT ![Root] = Running(MakeBatch)] /\ job' = [job EXCEPT ![Root] = MakeBatch]
    BY DEF StartRootBatch
  <1>4. \A w \in Remote : w \in Rank /\ w # Root
    BY DEF Remote
  <1> QED BY <1>1, <1>2, <1>3, <1>4, RootInRank

LEMMA StoppedLane ==
  ASSUME LaneInv, StopRootLane
  PROVE  /\ lane' \in [Rank -> LaneRec] /\ lane'[Root] = Stopped /\ job' = job
         /\ \A w \in Remote : lane'[w] = lane[w]
  <1>1. lane \in [Rank -> LaneRec] /\ Stopped \in LaneRec
    BY LaneBuilds, FrameType DEF LaneInv, LaneTypes
  <1>2. lane' = [lane EXCEPT ![Root] = Stopped] /\ job' = job
    BY DEF StopRootLane
  <1>3. \A w \in Remote : w \in Rank /\ w # Root
    BY DEF Remote
  <1> QED BY <1>1, <1>2, <1>3, RootInRank

LEMMA FinishedLane ==
  ASSUME LaneInv, NEW b, FinishRootBatch(b)
  PROVE  /\ lane' \in [Rank -> LaneRec] /\ lane'[Root] = IdleLane /\ job'[Root] = NoBatch
         /\ \A w \in Remote : lane'[w] = lane[w] /\ job'[w] = job[w]
  <1>1. lane \in [Rank -> LaneRec] /\ IdleLane \in LaneRec /\ job \in [Rank -> Batch]
    BY LaneBuilds, FrameType DEF LaneInv, LaneTypes, RequestInv, ChannelType
  <1>2. lane' = [lane EXCEPT ![Root] = IdleLane] /\ job' = [job EXCEPT ![Root] = NoBatch]
    BY DEF FinishRootBatch
  <1>3. \A w \in Remote : w \in Rank /\ w # Root
    BY DEF Remote
  <1> QED BY <1>1, <1>2, <1>3, RootInRank

\* Nothing runs at a root whose lane is not running.
LEMMA RootLaneJob ==
  ASSUME LaneInv
  PROVE  /\ lane[Root].st # "Running" => NoJob(Root)
         /\ lane[Root].st = "Idle" => lane[Root] = IdleLane
         /\ lane[Root].st = "Stopped" => lane[Root] = Stopped
         /\ lane[Root].st = "Running" => job[Root] # NoBatch /\ lane[Root] = Running(job[Root])
         /\ job[Root] \in Batch
  <1>1. job[Root] \in Batch
    BY RootInRank DEF LaneInv, RequestInv, ChannelType
  <1> QED BY <1>1, LaneBuilds DEF LaneInv, RootLane

LEMMA RootStepLane ==
  ASSUME LaneInv,
         RootSettles \/ RootTakes \/ RootExecutes \/ HybridSpawns \/ HybridLocal \/ RootDies
           \/ \E w \in Remote : RootRefuses(w)
  PROVE  RootAlone
  <1>t. /\ lane \in [Rank -> LaneRec] /\ jobDone \in [Rank -> BOOLEAN] /\ job \in [Rank -> Batch]
        /\ RootLane
    BY DEF LaneInv, LaneTypes, RequestInv, ChannelType
  <1>r. \A w \in Remote : w \in Rank /\ w # Root
    BY DEF Remote
  <1>1. CASE RootSettles
    <2>1. /\ UNCHANGED <<lane, next, up, down, job, jobDone, fetched, workerPc>>
          /\ rootPc = "served"
          /\ rootPc' = IF Finished(lane, next) THEN "done" ELSE "probe"
      BY <1>1 DEF RootSettles, coordinatorVars, jobVars
    <2>2. RootLane'
      BY <1>t, <2>1 DEF RootLane, NoJob, Finished
    <2> QED BY <1>t, <2>1, <2>2 DEF RootAlone, Same
  <1>2. CASE RootTakes
    <2>1. UNCHANGED <<up, down, jobDone, fetched, workerPc>> /\ rootPc = "probe" /\ ~Hybrid
      BY <1>2, <1>t DEF RootTakes, RootLane
    <2>2. CASE lane[Root].st = "Idle" /\ StartRootBatch /\ rootPc' = "executing"
      <3>1. /\ lane' \in [Rank -> LaneRec]
            /\ lane'[Root] = Running(MakeBatch) /\ job'[Root] = MakeBatch /\ MakeBatch # NoBatch
            /\ \A w \in Remote : lane'[w] = lane[w] /\ job'[w] = job[w]
        BY <2>2, StartedLane
      <3>2. NoJob(Root)
        BY <2>2, RootLaneJob
      <3>3. RootLane'
        BY <2>1, <2>2, <3>1, <3>2 DEF RootLane, NoJob
      <3> QED BY <1>t, <2>1, <3>1, <3>3 DEF RootAlone, Same
    <2>3. CASE lane[Root].st = "Idle" /\ StopRootLane /\ rootPc' = AfterStop
      <3>1. /\ lane' \in [Rank -> LaneRec] /\ lane'[Root] = Stopped /\ job' = job
            /\ \A w \in Remote : lane'[w] = lane[w]
        BY <2>3, StoppedLane
      <3>2. NoJob(Root)
        BY <2>3, RootLaneJob
      <3>3. RootLane'
        BY <2>1, <2>3, <3>1, <3>2 DEF RootLane, NoJob, AfterStop
      <3> QED BY <1>t, <2>1, <3>1, <3>3 DEF RootAlone, Same
    <2>4. CASE /\ lane[Root].st = "Stopped" /\ UNCHANGED <<next, nextId, lane, job>>
               /\ rootPc' = AfterStop
      <3>1. lane[Root] = Stopped /\ NoJob(Root)
        BY <2>4, RootLaneJob
      <3>2. RootLane'
        BY <2>1, <2>4, <3>1 DEF RootLane, NoJob, AfterStop
      <3> QED BY <1>t, <2>1, <2>4, <3>2 DEF RootAlone, Same
    <2> QED BY <1>2, <2>2, <2>3, <2>4 DEF RootTakes
  <1>3. CASE RootExecutes
    <2>1. /\ UNCHANGED <<up, down, jobDone, fetched, workerPc>> /\ rootPc = "executing"
          /\ rootPc' \in {"probe", "blocked"} /\ ~Hybrid /\ ~jobDone[Root]
          /\ FinishRootBatch(job[Root])
      BY <1>3, <1>t DEF RootExecutes, RootLane
    <2>2. /\ lane' \in [Rank -> LaneRec] /\ lane'[Root] = IdleLane /\ job'[Root] = NoBatch
          /\ \A w \in Remote : lane'[w] = lane[w] /\ job'[w] = job[w]
      BY <2>1, FinishedLane
    <2>3. RootLane'
      BY <2>1, <2>2 DEF RootLane, NoJob
    <2> QED BY <1>t, <2>1, <2>2, <2>3 DEF RootAlone, Same
  <1>4. CASE HybridSpawns
    <2>1. /\ UNCHANGED <<up, down, jobDone, fetched, workerPc>> /\ rootPc = "loop"
          /\ rootPc' = Loop("loop") /\ lane[Root].st = "Idle"
      BY <1>4 DEF HybridSpawns
    <2>2. NoJob(Root)
      BY <2>1, RootLaneJob
    <2>3. rootPc' \in {"loop", "done"} /\ (rootPc' = "done" => Finished(lane', next'))
      BY <2>1 DEF Loop
    <2>4. CASE StartRootBatch
      <3>1. /\ lane' \in [Rank -> LaneRec]
            /\ lane'[Root] = Running(MakeBatch) /\ job'[Root] = MakeBatch /\ MakeBatch # NoBatch
            /\ \A w \in Remote : lane'[w] = lane[w] /\ job'[w] = job[w]
        BY <2>4, StartedLane
      <3>2. RootLane'
        BY <2>1, <2>2, <2>3, <3>1 DEF RootLane, NoJob
      <3> QED BY <1>t, <2>1, <3>1, <3>2 DEF RootAlone, Same
    <2>5. CASE StopRootLane
      <3>1. /\ lane' \in [Rank -> LaneRec] /\ lane'[Root] = Stopped /\ job' = job
            /\ \A w \in Remote : lane'[w] = lane[w]
        BY <2>5, StoppedLane
      <3>2. RootLane'
        BY <2>1, <2>2, <2>3, <3>1 DEF RootLane, NoJob
      <3> QED BY <1>t, <2>1, <3>1, <3>2 DEF RootAlone, Same
    <2> QED BY <1>4, <2>4, <2>5 DEF HybridSpawns
  <1>5. CASE HybridLocal
    <2>1. /\ UNCHANGED <<up, down, rootPc, fetched, workerPc>> /\ rootPc = "loop"
          /\ jobDone' = [jobDone EXCEPT ![Root] = FALSE]
          /\ FinishRootBatch(job[Root])
      BY <1>5 DEF HybridLocal
    <2>2. /\ lane' \in [Rank -> LaneRec] /\ lane'[Root] = IdleLane /\ job'[Root] = NoBatch
          /\ \A w \in Remote : lane'[w] = lane[w] /\ job'[w] = job[w]
      BY <2>1, FinishedLane
    <2>3. /\ jobDone' \in [Rank -> BOOLEAN] /\ ~jobDone'[Root]
          /\ \A w \in Remote : jobDone'[w] = jobDone[w]
      BY <1>t, <1>r, <2>1, RootInRank
    <2>4. RootLane'
      BY <2>1, <2>2, <2>3 DEF RootLane, NoJob
    <2> QED BY <1>t, <2>1, <2>2, <2>3, <2>4 DEF RootAlone, Same
  <1>6. CASE RootDies \/ \E w \in Remote : RootRefuses(w)
    <2>1. UNCHANGED <<lane, next, rootPc, up, down, job, jobDone, fetched, workerPc>>
      BY <1>6 DEF RootDies, RootRefuses, Abort, coordinatorVars, jobVars
    <2>2. RootLane'
      BY <1>t, <2>1 DEF RootLane, NoJob, Finished
    <2> QED BY <1>t, <2>1, <2>2 DEF RootAlone, Same
  <1> QED BY <1>1, <1>2, <1>3, <1>4, <1>5, <1>6

\* The root loops on after a header.
LEMMA ServeRootLane ==
  ASSUME LaneInv, NEW w \in Remote, Serves(w),
         rootPc # "executing" /\ rootPc # "done",
         rootPc' \in {"served", "probe", "loop", "done"},
         Hybrid => rootPc' \in {"loop", "done"},
         rootPc' = "done" => Finished(lane', next')
  PROVE  LaneTypes' /\ RootLane' /\ \A v \in Remote : WorkerLane(v)'
  <1>1. \A v \in Remote : v # w => WorkerLane(v)'
    BY SameLane DEF LaneInv, Serves
  <1>2. lane'[Root] = lane[Root] /\ job' = job /\ jobDone' = jobDone
    BY RootInRank DEF Serves
  <1>3. RootLane'
    BY <1>2 DEF LaneInv, RootLane, NoJob
  <1> QED BY <1>1, <1>3 DEF Serves, LaneTypes, LaneInv

LEMMA LaneStep ==
  ASSUME LaneInv, [Next]_vars PROVE LaneInv'
  <1>q. RequestInv'
    BY RequestStep DEF LaneInv
  <1>1. ASSUME RootSettles \/ RootTakes \/ RootExecutes \/ HybridSpawns \/ HybridLocal \/ RootDies
                 \/ \E w \in Remote : RootRefuses(w)
        PROVE  LaneInv'
    <2>1. RootAlone
      BY <1>1, RootStepLane
    <2>2. \A w \in Remote : WorkerLane(w)'
      BY <2>1, SameLane DEF RootAlone, LaneInv
    <2> QED BY <1>q, <2>1, <2>2 DEF RootAlone, LaneInv, LaneTypes
  <1>2. ASSUME NEW w \in Remote, RootServes(w) \/ RootReceives(w) \/ HybridRemote(w)
        PROVE  LaneInv'
    <2>1. ServeHeader(w)
      BY <1>2 DEF RootServes, RootReceives, HybridRemote
    <2>2. Serves(w)
      BY <2>1, ServeLane
    <2>3. /\ rootPc \in {"probe", "served", "blocked", "loop"}
          /\ rootPc' \in {"served", "probe", "loop", "done"}
          /\ rootPc = "loop" => rootPc' \in {"loop", "done"}
          /\ rootPc' = "done" => Finished(lane', next')
      BY <1>2 DEF RootServes, RootReceives, HybridRemote, Loop
    <2>4. Hybrid => rootPc' \in {"loop", "done"}
      BY <2>3 DEF LaneInv, RootLane
    <2>5. rootPc # "executing" /\ rootPc # "done"
      BY <2>3
    <2> QED BY <1>q, <2>2, <2>3, <2>4, <2>5, ServeRootLane DEF LaneInv
  <1>3. ASSUME NEW w \in Remote, WorkerStep(w) PROVE LaneInv'
    <2>1. OnlyAt(w) /\ WorkerLane(w)'
      BY <1>3, WorkerLaneStep
    <2>2. \A v \in Remote : v # w => WorkerLane(v)'
      BY <2>1, SameLane DEF OnlyAt, LaneInv
    <2>3. RootLane' /\ LaneTypes'
      BY <2>1 DEF OnlyAt, LaneInv, RootLane, LaneTypes, NoJob, Finished
    <2> QED BY <1>q, <2>1, <2>2, <2>3 DEF LaneInv
  <1>4. ASSUME NEW r \in Rank, PoolRuns(r) PROVE LaneInv'
    <2>1. /\ UNCHANGED <<lane, next, rootPc, up, down, job, fetched, workerPc>>
          /\ jobDone' = [jobDone EXCEPT ![r] = TRUE] /\ job[r] # NoBatch /\ Hybrid
          /\ r \in Remote => Prefetch
      BY <1>4 DEF PoolRuns, coordinatorVars
    <2>2. jobDone' \in [Rank -> BOOLEAN] /\ \A s \in Rank : s # r => jobDone'[s] = jobDone[s]
      BY <2>1 DEF LaneInv, LaneTypes
    <2>3. ASSUME NEW w \in Remote PROVE WorkerLane(w)'
      <3>1. CASE w = r
        BY <2>1, <3>1, PoolLane DEF LaneInv, LaneStays
      <3>2. CASE w # r
        BY <2>1, <2>2, <3>2, SameLane DEF LaneInv, Same, Remote
      <3> QED BY <3>1, <3>2
    <2>4. RootLane'
      <3>1. rootPc \in {"loop", "done"} /\ RootLane
        BY <2>1 DEF LaneInv, RootLane
      <3>2. lane[Root] \in {IdleLane, Stopped} /\ NoJob(Root) => r # Root
        BY <2>1 DEF NoJob
      <3>3. r # Root => jobDone'[Root] = jobDone[Root]
        BY <2>2, RootInRank
      <3> QED BY <2>1, <3>1, <3>2, <3>3 DEF RootLane, NoJob, Finished
    <2> QED BY <1>q, <2>1, <2>2, <2>3, <2>4 DEF LaneInv, LaneTypes
  <1>5. CASE Converge \/ UNCHANGED vars
    <2>1. UNCHANGED <<lane, next, rootPc, up, down, job, jobDone, fetched, workerPc>>
      BY <1>5 DEF Converge, vars, coordinatorVars, jobVars
    <2>2. \A w \in Remote : Same(w)
      BY <2>1 DEF Same
    <2>3. \A w \in Remote : WorkerLane(w)'
      BY <2>2, SameLane DEF LaneInv
    <2>4. RootLane' /\ LaneTypes'
      BY <2>1 DEF LaneInv, RootLane, LaneTypes, NoJob, Finished
    <2> QED BY <1>q, <2>3, <2>4 DEF LaneInv
  <1> QED BY <1>1, <1>2, <1>3, <1>4, <1>5 DEF Next, RootStep

LEMMA LaneInit ==
  ASSUME Init PROVE LaneInv
  <1>1. RequestInv
    BY RequestInit
  <1>2. LaneTypes
    BY LaneBuilds, FrameType DEF Init, LaneTypes
  <1>3. RootLane
    BY RootInRank DEF Init, RootLane, NoJob
  <1>4. ASSUME NEW w \in Remote PROVE WorkerLane(w)
    <2>1. /\ up[w] = << >> /\ down[w] = << >> /\ fetched[w] = NotFetched /\ workerPc[w] = "ready"
          /\ w \in Rank /\ job[w] = NoBatch /\ ~jobDone[w] /\ lane[w] = IdleLane
      BY DEF Init, Remote
    <2>2. Len(up[w]) = 0
      BY <2>1
    <2>3. Sent(w, 0, "none") /\ 0 \in 0..2
      BY <2>2 DEF Sent
    <2>4. WithoutJob(w, 0, "none")
      BY <2>1 DEF WithoutJob, NoJob, Live
    <2> QED BY <2>3, <2>4 DEF WorkerLane, Phase
  <1> QED BY <1>1, <1>2, <1>3, <1>4 DEF LaneInv

\* The batches of a worker's results are the first slots of its lane.
LEMMA ResultsSent ==
  ASSUME NEW w \in Remote, up[w] \in Seq(Message),
         NEW k \in 0..2, NEW t \in {"none", "READY", "DRAIN"}, Sent(w, k, t)
  PROVE  Len(Results(w)) = k /\ \A i \in 1..k : Results(w)[i] = up[w][i]
  <1>1. CASE t = "none"
    <2>1. Len(up[w]) = k
      BY <1>1 DEF Sent
    <2>2. up[w] # << >> => k \in 1..k
      BY <2>1, EmptySeq
    <2>3. up[w] # << >> => up[w][Len(up[w])].kind = "RESULT"
      BY <2>1, <2>2 DEF Sent
    <2>4. Results(w) = up[w]
      BY <2>3 DEF Results
    <2> QED BY <2>1, <2>4
  <1>2. CASE t # "none"
    <2>1. Len(up[w]) = k + 1 /\ up[w][k + 1] = Msg(t)
      BY <1>2 DEF Sent
    <2>2. Msg(t).kind # "RESULT"
      BY DEF Msg
    <2>3. up[w] # << >>
      BY <2>1
    <2>4. Results(w) = SubSeq(up[w], 1, (k + 1) - 1)
      BY <2>1, <2>2, <2>3 DEF Results
    <2>5. Results(w) = SubSeq(up[w], 1, k)
      BY <2>4
    <2> QED BY <2>1, <2>5
  <1> QED BY <1>1, <1>2

\* Sequences of at most two batches.
LEMMA ShortSeq ==
  ASSUME NEW s \in Seq(Batch), NEW a \in Batch, NEW b \in Batch
  PROVE  /\ Len(s) = 0 => s = << >>
         /\ Len(s) = 1 /\ s[1] = a => s = <<a>>
         /\ Len(s) = 2 /\ s[1] = a /\ s[2] = b => s = <<a, b>>
  <1>1. Len(s) = 0 => s = << >>
    BY EmptySeq
  <1>2. ASSUME Len(s) = 1, s[1] = a PROVE s = <<a>>
    <2>1. <<a>> \in Seq(Batch) /\ Len(<<a>>) = 1 /\ <<a>>[1] = a
      OBVIOUS
    <2>2. \A i \in 1..Len(s) : s[i] = <<a>>[i]
      BY <1>2, <2>1
    <2> QED BY <1>2, <2>1, <2>2, SeqEqual, Zenon
  <1>3. ASSUME Len(s) = 2, s[1] = a, s[2] = b PROVE s = <<a, b>>
    <2>1. <<a, b>> \in Seq(Batch) /\ Len(<<a, b>>) = 2 /\ <<a, b>>[1] = a /\ <<a, b>>[2] = b
      OBVIOUS
    <2>2. \A i \in 1..Len(s) : s[i] = <<a, b>>[i]
      BY <1>3, <2>1
    <2> QED BY <1>3, <2>1, <2>2, SeqEqual, Zenon
  <1> QED BY <1>1, <1>2, <1>3

\* Joining at most two batches.
LEMMA Joined ==
  ASSUME NEW a \in Batch, NEW b \in Batch
  PROVE  /\ << >> \o << >> = << >>
         /\ << >> \o <<a>> = <<a>> /\ <<a>> \o << >> = <<a>>
         /\ <<a>> \o <<b>> = <<a, b>>
         /\ <<a, b>> \o << >> = <<a, b>>
         /\ Len(<< >>) = 0 /\ Len(<<a>>) = 1 /\ Len(<<a, b>>) = 2
  <1>1. << >> \in Seq(Batch) /\ <<a>> \in Seq(Batch) /\ <<b>> \in Seq(Batch) /\ <<a, b>> \in Seq(Batch)
    OBVIOUS
  <1>2. << >> \o << >> = << >> /\ << >> \o <<a>> = <<a>>
    BY <1>1, ConcatEmptySeq, Zenon
  <1>3. <<a>> \o << >> = <<a>> /\ <<a, b>> \o << >> = <<a, b>>
    BY <1>1, ConcatEmptySeq, Zenon
  <1>4. /\ <<a>> \o <<b>> \in Seq(Batch) /\ Len(<<a>> \o <<b>>) = 2
        /\ (<<a>> \o <<b>>)[1] = a /\ (<<a>> \o <<b>>)[2] = b
    BY <1>1
  <1>5. <<a>> \o <<b>> = <<a, b>>
    BY <1>4, ShortSeq
  <1>6. Len(<< >>) = 0 /\ Len(<<a>>) = 1 /\ Len(<<a, b>>) = 2
    OBVIOUS
  <1> QED BY <1>2, <1>3, <1>5, <1>6

LEMMA ResultBatches ==
  ASSUME NEW w \in Remote, up[w] \in Seq(Message), lane[w] \in LaneRec,
         NEW k \in 0..2, NEW t \in {"none", "READY", "DRAIN"}, Sent(w, k, t)
  PROVE  /\ k = 0 => [i \in 1..Len(Results(w)) |-> Results(w)[i].batch] = << >>
         /\ k = 1 => [i \in 1..Len(Results(w)) |-> Results(w)[i].batch] = <<Slot(w, 1)>>
         /\ k = 2 => [i \in 1..Len(Results(w)) |-> Results(w)[i].batch] = <<Slot(w, 1), Slot(w, 2)>>
  <1>1. Len(Results(w)) = k /\ \A i \in 1..k : Results(w)[i].batch = Slot(w, i)
    BY ResultsSent DEF Sent
  <1>s. Slot(w, 1) \in Batch /\ Slot(w, 2) \in Batch /\ \A i \in 1..k : Slot(w, i) \in Batch
    BY DEF Slot, LaneRec
  <1> DEFINE bs == [i \in 1..Len(Results(w)) |-> Results(w)[i].batch]
  <1>2. bs = [i \in 1..k |-> Slot(w, i)]
    BY <1>1
  <1> HIDE DEF bs
  <1>3. bs \in Seq(Batch) /\ Len(bs) = k /\ \A i \in 1..k : bs[i] = Slot(w, i)
    BY <1>2, <1>s
  <1>4. /\ k = 0 => bs = << >>
        /\ k = 1 => bs = <<Slot(w, 1)>>
        /\ k = 2 => bs = <<Slot(w, 1), Slot(w, 2)>>
    BY <1>3, <1>s, ShortSeq
  <1> QED BY <1>4 DEF bs

\* A lane's assigned batches, by how many there are.
LEMMA AssignedLane ==
  ASSUME NEW w \in Remote, lane[w] \in LaneRec
  PROVE  /\ Live(w, 0) \/ Ending(w, 0) \/ lane[w] = Drained => Assigned(lane[w]) = << >>
         /\ Live(w, 1) \/ Ending(w, 1) => Assigned(lane[w]) = <<Slot(w, 1)>>
         /\ Live(w, 2) => Assigned(lane[w]) = <<Slot(w, 1), Slot(w, 2)>>
  <1>0. lane[w].cur \in Batch /\ lane[w].pre \in Batch
    BY DEF LaneRec
  <1>1. Assigned(lane[w]) = One(lane[w].cur) \o One(lane[w].pre)
    BY DEF Assigned
  <1>2. Live(w, 0) \/ Ending(w, 0) \/ lane[w] = Drained =>
          lane[w].cur = NoBatch /\ lane[w].pre = NoBatch
    BY LaneBuilds, FrameType DEF Live, Ending
  <1>3. Live(w, 1) \/ Ending(w, 1) => lane[w].cur # NoBatch /\ lane[w].pre = NoBatch
    BY DEF Live, Ending
  <1>4. Live(w, 2) => lane[w].cur # NoBatch /\ lane[w].pre # NoBatch
    BY DEF Live
  <1>5. \A b \in Batch : (b = NoBatch => One(b) = << >>) /\ (b # NoBatch => One(b) = <<b>>)
    BY DEF One
  <1>6. Slot(w, 1) = lane[w].cur /\ Slot(w, 2) = lane[w].pre
    BY DEF Slot
  <1> QED BY <1>0, <1>1, <1>2, <1>3, <1>4, <1>5, <1>6, Joined

LEMMA HeadOfOne ==
  ASSUME NEW s \in Seq(Message), Len(s) = 1 PROVE s # << >> /\ Head(s) = s[1]
  <1>1. s # << >>
    OBVIOUS
  <1> QED BY <1>1, HeadTailProperties

LEMMA LanesMatch ==
  ASSUME LaneInv PROVE LaneMatchesWorker
  <1> SUFFICES ASSUME NEW w \in Remote
               PROVE  /\ \A i \in 1..Len(Results(w)) : Results(w)[i].kind = "RESULT"
                      /\ Assigned(lane[w]) = InFlight(w)
                      /\ Len(InFlight(w)) <= IF Prefetch THEN 2 ELSE 1
    BY DEF LaneMatchesWorker
  <1>t. HereTypes(w)
    BY LaneInvTypes
  <1>1. PICK k \in 0..2, t \in {"none", "READY", "DRAIN"} : Sent(w, k, t) /\ Phase(w, k, t)
    BY DEF WorkerLane, LaneInv
  <1>2. \A i \in 1..Len(Results(w)) : Results(w)[i].kind = "RESULT"
    BY <1>1, <1>t, ResultsSent DEF Sent, HereTypes
  <1>d. Len(down[w]) = 1 => down[w] # << >> /\ Head(down[w]) = down[w][1]
    <2>1. down[w] \in Seq(Message)
      BY <1>t DEF HereTypes
    <2> QED BY <2>1, HeadOfOne
  <1> DEFINE A == [i \in 1..Len(Results(w)) |-> Results(w)[i].batch]
             J == One(job[w])
             F == One(TaskIn(fetched[w]))
             D == One(IF down[w] = << >> THEN NoBatch ELSE TaskIn(Head(down[w])))
             a == Slot(w, 1)
             b == Slot(w, 2)
  <1>3. InFlight(w) = ((A \o J) \o F) \o D
    BY DEF InFlight
  <1>4. /\ k = 0 => A = << >>
        /\ k = 1 => A = <<a>>
        /\ k = 2 => A = <<a, b>>
    BY <1>1, <1>t, ResultBatches DEF HereTypes
  <1>5. a \in Batch /\ b \in Batch
    BY <1>t DEF HereTypes, Slot, LaneRec
  <1>n. One(NoBatch) = << >> /\ \A x \in Batch : x # NoBatch => One(x) = <<x>>
    BY DEF One
  <1>f. TaskIn(NotFetched) = NoBatch
    BY DEF TaskIn, NotFetched, Msg
  <1>L. /\ Live(w, 1) => a # NoBatch
        /\ Live(w, 2) => a # NoBatch /\ b # NoBatch /\ Prefetch
        /\ Ending(w, 1) => a # NoBatch
    BY DEF Live, Ending, Slot
  <1>x. a = Slot(w, 1) /\ b = Slot(w, 2)
    OBVIOUS
  <1>y. /\ J = One(job[w]) /\ F = One(TaskIn(fetched[w]))
        /\ down[w] = << >> => D = One(NoBatch)
        /\ down[w] # << >> => D = One(TaskIn(Head(down[w])))
    OBVIOUS
  <1>z. /\ Live(w, 0) \/ Ending(w, 0) \/ lane[w] = Drained => Assigned(lane[w]) = << >>
        /\ Live(w, 1) \/ Ending(w, 1) => Assigned(lane[w]) = <<a>>
        /\ Live(w, 2) => Assigned(lane[w]) = <<a, b>>
    BY <1>t, AssignedLane DEF HereTypes
  <1> HIDE DEF A, J, F, D, a, b
  <1>6. CASE WithoutJob(w, k, t)
    <2>1. J = << >> /\ F = << >>
      BY <1>6, <1>n, <1>y, <1>x, <1>f DEF WithoutJob, NoJob
    <2>2. CASE down[w] = << >>
      <3>1. D = << >>
        BY <2>2, <1>n, <1>y, <1>x
      <3>2. Live(w, k) \/ (k < 2 /\ Ending(w, k)) \/ (k = 0 /\ lane[w] = Drained)
        BY <1>6, <2>2 DEF WithoutJob, Comes, StopComes
      <3>3. InFlight(w) = A
        BY <1>3, <1>4, <1>5, <2>1, <3>1, Joined
      <3>4. Assigned(lane[w]) = A
        BY <1>4, <1>t, <3>2, <1>z
      <3>5. Len(A) <= IF Prefetch THEN 2 ELSE 1
        BY <1>4, <1>5, <1>L, <3>2, Joined
      <3> QED BY <1>2, <3>3, <3>4, <3>5
    <2>3. CASE down[w] # << >>
      <3>1. k = 0 /\ A = << >> /\ (Comes(w, 1) \/ StopComes(w, 0))
        BY <1>4, <1>6, <2>3 DEF WithoutJob
      <3>2. CASE Comes(w, 1)
        <4>1. D = <<a>>
          BY <1>d, <1>n, <1>y, <1>x, <1>5, <1>L, <2>3, <3>2 DEF Comes, TaskIn
        <4>2. InFlight(w) = <<a>>
          BY <1>3, <1>5, <2>1, <3>1, <4>1, Joined
        <4>3. Assigned(lane[w]) = <<a>>
          BY <1>t, <3>2, <1>z DEF Comes
        <4>4. Len(<<a>>) <= IF Prefetch THEN 2 ELSE 1
          BY <1>5, Joined
        <4> QED BY <1>2, <4>2, <4>3, <4>4
      <3>3. CASE StopComes(w, 0)
        <4>1. D = << >>
          BY <1>d, <1>n, <1>y, <1>x, <2>3, <3>3 DEF StopComes, TaskIn
        <4>2. InFlight(w) = << >>
          BY <1>3, <1>5, <2>1, <3>1, <4>1, Joined
        <4>3. Assigned(lane[w]) = << >>
          BY <1>t, <3>3, <1>z DEF StopComes
        <4>4. Len(<< >>) <= IF Prefetch THEN 2 ELSE 1
          OBVIOUS
        <4> QED BY <1>2, <4>2, <4>3, <4>4
      <3> QED BY <3>1, <3>2, <3>3
    <2> QED BY <2>2, <2>3
  <1>7. CASE WithJob(w, k, t)
    <2>1. /\ F = << >> /\ k \in {0, 1} /\ job[w] # NoBatch
          /\ k = 0 => job[w] = a
          /\ k = 1 => job[w] = b
      BY <1>7, <1>n, <1>y, <1>x, <1>f DEF WithJob, Runs
    <2>2. J = <<job[w]>>
      BY <1>n, <1>y, <1>x, <2>1, <1>t DEF HereTypes
    <2>3. (k = 0 => A \o J = <<a>>) /\ (k = 1 => A \o J = <<a, b>>)
      BY <1>4, <1>5, <2>1, <2>2, Joined
    <2>4. CASE down[w] = << >>
      <3>1. D = << >>
        BY <2>4, <1>n, <1>y, <1>x
      <3>2. Live(w, k + 1)
        BY <1>7, <2>4 DEF WithJob, Comes, StopComes
      <3>3. InFlight(w) = A \o J
        BY <1>3, <1>5, <2>1, <2>3, <3>1, Joined
      <3>4. Assigned(lane[w]) = A \o J
        <4>1. k = 0 => Live(w, 1)
          BY <3>2
        <4>2. k = 1 => Live(w, 2)
          BY <3>2
        <4> QED BY <2>1, <2>3, <4>1, <4>2, <1>z
      <3>5. Len(A \o J) <= IF Prefetch THEN 2 ELSE 1
        BY <1>5, <1>L, <2>1, <2>3, <3>2, Joined
      <3> QED BY <1>2, <3>3, <3>4, <3>5
    <2>5. CASE down[w] # << >>
      <3>1. k = 0 /\ Prefetch /\ (Comes(w, 2) \/ StopComes(w, 1))
        BY <1>7, <2>5 DEF WithJob
      <3>2. CASE Comes(w, 2)
        <4>1. D = <<b>>
          BY <1>d, <1>n, <1>y, <1>x, <1>5, <1>L, <2>5, <3>2 DEF Comes, TaskIn
        <4>2. InFlight(w) = <<a, b>>
          BY <1>3, <1>5, <2>1, <2>3, <3>1, <4>1, Joined
        <4>3. Assigned(lane[w]) = <<a, b>>
          BY <1>t, <3>2, <1>z DEF Comes
        <4>4. Len(<<a, b>>) <= IF Prefetch THEN 2 ELSE 1
          BY <1>5, <3>1, Joined
        <4> QED BY <1>2, <4>2, <4>3, <4>4
      <3>3. CASE StopComes(w, 1)
        <4>1. D = << >>
          BY <1>d, <1>n, <1>y, <1>x, <2>5, <3>3 DEF StopComes, TaskIn
        <4>2. InFlight(w) = <<a>>
          BY <1>3, <1>5, <2>1, <2>3, <3>1, <4>1, Joined
        <4>3. Assigned(lane[w]) = <<a>>
          BY <1>t, <3>3, <1>z DEF StopComes
        <4>4. Len(<<a>>) <= IF Prefetch THEN 2 ELSE 1
          BY <1>5, Joined
        <4> QED BY <1>2, <4>2, <4>3, <4>4
      <3> QED BY <3>1, <3>2, <3>3
    <2> QED BY <2>4, <2>5
  <1>8. CASE WithFetched(w, k, t)
    <2>1. D = << >> /\ Prefetch
      BY <1>8, <1>n, <1>y, <1>x DEF WithFetched
    <2>2. CASE workerPc[w] = "join"
      <3>1. k = 0 /\ job[w] = a /\ job[w] # NoBatch
        BY <1>8, <2>2, <1>x DEF WithFetched, Runs
      <3>2. A \o J = <<a>>
        BY <1>4, <1>5, <1>n, <1>y, <1>x, <3>1, Joined
      <3>3. CASE fetched[w].kind = "TASK" /\ fetched[w].batch = b /\ Live(w, 2)
        <4>1. F = <<b>>
          BY <1>n, <1>y, <1>x, <1>5, <1>L, <3>3 DEF TaskIn
        <4>2. InFlight(w) = <<a, b>>
          BY <1>3, <1>5, <2>1, <3>2, <4>1, Joined
        <4>3. Assigned(lane[w]) = <<a, b>>
          BY <1>t, <3>3, <1>z
        <4>4. Len(<<a, b>>) <= IF Prefetch THEN 2 ELSE 1
          BY <1>5, <2>1, Joined
        <4> QED BY <1>2, <4>2, <4>3, <4>4
      <3>4. CASE fetched[w].kind = "STOP" /\ Ending(w, 1)
        <4>1. F = << >>
          BY <1>n, <1>y, <1>x, <3>4 DEF TaskIn
        <4>2. InFlight(w) = <<a>>
          BY <1>3, <1>5, <2>1, <3>2, <4>1, Joined
        <4>3. Assigned(lane[w]) = <<a>>
          BY <1>t, <3>4, <1>z
        <4>4. Len(<<a>>) <= IF Prefetch THEN 2 ELSE 1
          BY <1>5, Joined
        <4> QED BY <1>2, <4>2, <4>3, <4>4
      <3> QED BY <1>8, <1>x, <2>2, <3>3, <3>4 DEF WithFetched
    <2>3. CASE workerPc[w] = "flush"
      <3>1. /\ k \in {0, 1} /\ J = << >> /\ fetched[w].kind = "TASK"
            /\ fetched[w].batch = Slot(w, k + 1) /\ Live(w, k + 1)
        BY <1>8, <2>3, <1>n, <1>y, <1>x DEF WithFetched, NoJob
      <3>2. CASE k = 0
        <4>1. F = <<a>>
          BY <1>n, <1>y, <1>x, <1>5, <1>L, <3>1, <3>2 DEF TaskIn
        <4>2. InFlight(w) = <<a>>
          BY <1>3, <1>4, <1>5, <2>1, <3>1, <3>2, <4>1, Joined
        <4>3. Assigned(lane[w]) = <<a>>
          BY <1>t, <3>1, <3>2, <1>z
        <4>4. Len(<<a>>) <= IF Prefetch THEN 2 ELSE 1
          BY <1>5, Joined
        <4> QED BY <1>2, <4>2, <4>3, <4>4
      <3>3. CASE k = 1
        <4>1. F = <<b>> /\ Live(w, 2)
          BY <1>n, <1>y, <1>x, <1>5, <1>L, <3>1, <3>3 DEF TaskIn
        <4>2. InFlight(w) = <<a, b>>
          BY <1>3, <1>4, <1>5, <2>1, <3>1, <3>3, <4>1, Joined
        <4>3. Assigned(lane[w]) = <<a, b>>
          BY <1>t, <4>1, <1>z
        <4>4. Len(<<a, b>>) <= IF Prefetch THEN 2 ELSE 1
          BY <1>5, <2>1, Joined
        <4> QED BY <1>2, <4>2, <4>3, <4>4
      <3> QED BY <3>1, <3>2, <3>3
    <2> QED BY <1>8, <2>2, <2>3 DEF WithFetched
  <1> QED BY <1>1, <1>6, <1>7, <1>8 DEF Phase

\* For every communicator, input, batch size, build and pattern of faults, the
\* lane that the coordinator keeps of a worker names exactly the batches that
\* are in flight for that worker, in the order in which their results will
\* arrive, at most one and with prefetch at most two: every result is credited
\* to the batch that it answers.
THEOREM LanesNameFlights == Spec => []LaneMatchesWorker
  BY LaneInit, LaneStep, LanesMatch, PTL DEF Spec

-----------------------------------------------------------------------------
(* Where the items are.                                                    *)

Pair == {1, 2}

\* No item is in two slots, or in a slot and in the output; none of them is
\* still pending; and without a failure no item is anywhere else.
ItemTypes ==
  /\ next \in 0..N /\ filled \subseteq Item /\ failed \in BOOLEAN
  /\ runs \in [Item -> Nat] /\ fate \in [Item -> Fate]
ItemsApart ==
  \A r, s \in Rank, i, j \in Pair :
    <<r, i>> # <<s, j>> => Slot(r, i).items \cap Slot(s, j).items = {}
ItemsOut ==
  \A r \in Rank, i \in Pair :
    /\ Slot(r, i).items \subseteq Item
    /\ Slot(r, i).items \cap filled = {}
    /\ \A x \in Slot(r, i).items : x < next
FilledOut == \A x \in filled : x < next
ItemsKept ==
  ~failed =>
    \A x \in Item :
      x < next => x \in filled \/ \E r \in Rank, i \in Pair : x \in Slot(r, i).items

SlotInv == ItemTypes /\ ItemsApart /\ ItemsOut /\ FilledOut /\ ItemsKept

\* What a step does to the slots: nothing, fill one, or free the oldest of a
\* lane.
SlotsStay ==
  /\ \A r \in Rank, i \in Pair : Slot(r, i)' = Slot(r, i)
  /\ next' = next /\ filled' = filled /\ failed' = failed
SlotTaken(r, i) ==
  /\ Slot(r, i) = NoBatch /\ Slot(r, i)' = MakeBatch
  /\ \A s \in Rank, j \in Pair : <<s, j>> # <<r, i>> => Slot(s, j)' = Slot(s, j)
  /\ ~Exhausted /\ TakeBatch /\ filled' = filled /\ failed' = failed
SlotFreed(r) ==
  /\ Slot(r, 1)' = Slot(r, 2) /\ Slot(r, 2)' = NoBatch
  /\ \A s \in Rank, j \in Pair : s # r => Slot(s, j)' = Slot(s, j)
  /\ \/ filled' = FilledOf(Slot(r, 1)) /\ next' = next /\ failed' = failed
     \/ filled' = filled /\ AfterFailure

\* Coordinator::make_batch takes the next items, up to the end of the input.
LEMMA BatchRange ==
  ASSUME next \in 0..N
  PROVE  /\ next + Cardinality(BatchItems) \in 0..N
         /\ \A x \in Item : x \in BatchItems <=> next <= x /\ x < next + Cardinality(BatchItems)
         /\ BatchItems \subseteq Item
         /\ Cardinality(BatchItems) \in Nat
  <1>n. N \in Nat /\ BatchSize \in Nat \ {0}
    BY PmapAssumption
  <1>1. PICK e : e = IF next + BatchSize <= N THEN next + BatchSize ELSE N
    OBVIOUS
  <1>2. e \in Nat /\ next <= e /\ e <= N
    BY <1>1, <1>n
  <1>3. BatchItems = next..(e - 1)
    BY <1>1, <1>2, <1>n DEF BatchItems, Item
  <1>4. Cardinality(next..(e - 1)) = IF next > e - 1 THEN 0 ELSE (e - 1) - next + 1
    BY <1>2, FS_Interval
  <1>5. Cardinality(BatchItems) = e - next
    BY <1>2, <1>3, <1>4, <1>n
  <1> QED BY <1>2, <1>3, <1>5, <1>n DEF Item

LEMMA SlotsStaySafe ==
  ASSUME SlotInv, SlotsStay, runs' \in [Item -> Nat], fate' = fate PROVE SlotInv'
  BY DEF SlotInv, SlotsStay, ItemTypes, ItemsApart, ItemsOut, FilledOut, ItemsKept

LEMMA NoItems == NoBatch.items = {} /\ MakeBatch.items = BatchItems
  BY DEF NoBatch, MakeBatch

LEMMA SlotTakenSafe ==
  ASSUME SlotInv, NEW r \in Rank, NEW i \in Pair, SlotTaken(r, i),
         runs' \in [Item -> Nat], fate' = fate
  PROVE  SlotInv'
  <1> DEFINE c == Cardinality(BatchItems)
  <1>1. /\ next + c \in 0..N /\ c \in Nat /\ BatchItems \subseteq Item
        /\ \A x \in Item : x \in BatchItems <=> next <= x /\ x < next + c
    BY BatchRange DEF SlotInv, ItemTypes
  <1>0. next \in 0..N /\ N \in Nat
    BY PmapAssumption DEF SlotInv, ItemTypes
  <1>1a. next' = next + c
    BY DEF SlotTaken, TakeBatch
  <1>2. next' = next + c /\ next \in Nat /\ N \in Nat
    BY <1>0, <1>1a
  <1> HIDE DEF c
  <1>3. Slot(r, i)'.items = BatchItems /\ Slot(r, i).items = {}
    BY NoItems DEF SlotTaken
  <1>4. \A s \in Rank, j \in Pair : <<s, j>> # <<r, i>> => Slot(s, j)' = Slot(s, j)
    BY DEF SlotTaken
  <1>5. ItemTypes'
    BY <1>1, <1>2 DEF SlotInv, ItemTypes, SlotTaken
  <1>6. \A s \in Rank, j \in Pair : \A x \in Slot(s, j).items : x < next
    BY DEF SlotInv, ItemsOut
  <1>7. \A x \in BatchItems : next <= x /\ x < next' /\ x \in Nat
    BY <1>1, <1>2 DEF Item
  <1>8. \A s \in Rank, j \in Pair : Slot(s, j).items \cap BatchItems = {}
    <2> SUFFICES ASSUME NEW s \in Rank, NEW j \in Pair, NEW x \in Slot(s, j).items, x \in BatchItems
                 PROVE  FALSE
      OBVIOUS
    <2>1. x < next /\ next <= x /\ x \in Nat
      BY <1>6, <1>7
    <2> QED BY <2>1, <1>2
  <1>9. ItemsApart'
    <2> SUFFICES ASSUME NEW s1 \in Rank, NEW s2 \in Rank, NEW j1 \in Pair, NEW j2 \in Pair,
                        <<s1, j1>> # <<s2, j2>>
                 PROVE  Slot(s1, j1)'.items \cap Slot(s2, j2)'.items = {}
      BY DEF ItemsApart
    <2>1. CASE <<s1, j1>> = <<r, i>>
      <3>1. Slot(s1, j1)'.items = BatchItems /\ Slot(s2, j2)' = Slot(s2, j2)
        BY <2>1, <1>3, <1>4
      <3> QED BY <3>1, <1>8
    <2>2. CASE <<s2, j2>> = <<r, i>>
      <3>1. Slot(s2, j2)'.items = BatchItems /\ Slot(s1, j1)' = Slot(s1, j1)
        BY <2>2, <1>3, <1>4
      <3> QED BY <3>1, <1>8
    <2>3. CASE <<s1, j1>> # <<r, i>> /\ <<s2, j2>> # <<r, i>>
      <3>1. Slot(s1, j1)' = Slot(s1, j1) /\ Slot(s2, j2)' = Slot(s2, j2)
        BY <2>3, <1>4
      <3> QED BY <3>1 DEF SlotInv, ItemsApart
    <2> QED BY <2>1, <2>2, <2>3
  <1>10. ItemsOut'
    <2> SUFFICES ASSUME NEW s \in Rank, NEW j \in Pair
                 PROVE  /\ Slot(s, j)'.items \subseteq Item
                        /\ Slot(s, j)'.items \cap filled' = {}
                        /\ \A x \in Slot(s, j)'.items : x < next'
      BY DEF ItemsOut
    <2>1. filled' = filled /\ \A x \in filled : x < next /\ x \in Nat
      BY DEF SlotTaken, SlotInv, FilledOut, ItemTypes, Item
    <2>2. CASE <<s, j>> = <<r, i>>
      <3>1. Slot(s, j)'.items = BatchItems
        BY <2>2, <1>3
      <3>2. ASSUME NEW x \in BatchItems, x \in filled PROVE FALSE
        <4>1. next <= x /\ x < next /\ x \in Nat
          BY <1>7, <2>1, <3>2
        <4> QED BY <4>1, <1>2
      <3> QED BY <2>1, <3>1, <3>2, <1>1, <1>7
    <2>3. CASE <<s, j>> # <<r, i>>
      <3>1. Slot(s, j)' = Slot(s, j)
        BY <2>3, <1>4
      <3>2. /\ Slot(s, j).items \subseteq Item /\ Slot(s, j).items \cap filled = {}
            /\ \A x \in Slot(s, j).items : x < next
        BY DEF SlotInv, ItemsOut
      <3>3. \A x \in Item : x < next => x < next'
        BY <1>1, <1>2 DEF Item
      <3> QED BY <2>1, <3>1, <3>2, <3>3
    <2> QED BY <2>2, <2>3
  <1>11. FilledOut'
    BY <1>1, <1>2 DEF SlotInv, FilledOut, SlotTaken, ItemTypes, Item
  <1>12. ItemsKept'
    <2> SUFFICES ASSUME ~failed', NEW x \in Item, x < next'
                 PROVE  x \in filled' \/ \E s \in Rank, j \in Pair : x \in Slot(s, j)'.items
      BY DEF ItemsKept
    <2>1. ~failed /\ filled' = filled
      BY DEF SlotTaken
    <2>2. CASE x < next
      <3>1. x \in filled \/ \E s \in Rank, j \in Pair : x \in Slot(s, j).items
        BY <2>1, <2>2 DEF SlotInv, ItemsKept
      <3>2. CASE x \in filled
        BY <3>2, <2>1
      <3>3. ASSUME NEW s \in Rank, NEW j \in Pair, x \in Slot(s, j).items
            PROVE  x \in Slot(s, j)'.items
        <4>1. <<s, j>> # <<r, i>>
          BY <3>3, <1>3
        <4> QED BY <4>1, <3>3, <1>4
      <3> QED BY <3>1, <3>2, <3>3
    <2>3. CASE ~(x < next)
      <3>1. x \in Nat
        BY DEF Item
      <3>2. x \in BatchItems
        BY <2>3, <3>1, <1>1, <1>2
      <3> QED BY <3>2, <1>3
    <2> QED BY <2>2, <2>3
  <1> QED BY <1>5, <1>9, <1>10, <1>11, <1>12 DEF SlotInv

LEMMA SlotFreedSafe ==
  ASSUME SlotInv, NEW r \in Rank, SlotFreed(r), runs' \in [Item -> Nat], fate' = fate
  PROVE  SlotInv'
  <1>1. /\ Slot(r, 1)' = Slot(r, 2) /\ Slot(r, 2)' = NoBatch
        /\ \A s \in Rank, j \in Pair : s # r => Slot(s, j)' = Slot(s, j)
    BY DEF SlotFreed
  <1>p. 1 \in Pair /\ 2 \in Pair /\ \A j \in Pair : j = 1 \/ j = 2
    BY DEF Pair
  <1>m. next \in 0..N /\ N \in Nat /\ failed \in BOOLEAN /\ (next' = next \/ next' = N)
        /\ (failed' = failed \/ failed' = TRUE)
    BY PmapAssumption DEF SlotInv, ItemTypes, SlotFreed, AfterFailure
  <1>n. next \in Nat /\ N \in Nat /\ next <= N /\ next' \in 0..N /\ next <= next'
    BY <1>m
  <1>b. failed' \in BOOLEAN
    BY <1>m, Zenon
  <1>i. Slot(r, 1).items \subseteq Item
    BY <1>p DEF SlotInv, ItemsOut
  <1>2. ASSUME NEW s \in Rank, NEW j \in Pair
        PROVE  \/ Slot(s, j)' = NoBatch
               \/ \E i \in Pair : Slot(s, j)' = Slot(s, i) /\ <<s, i>> # <<r, 1>> /\ (s # r => i = j)
    BY <1>1, <1>p
  <1>3. filled \subseteq filled' /\ filled' \subseteq filled \cup Slot(r, 1).items
    BY DEF SlotFreed, FilledOf
  <1>4. ItemTypes'
    BY <1>n, <1>b, <1>3, <1>i DEF SlotInv, ItemTypes
  <1>5. ItemsApart'
    <2> SUFFICES ASSUME NEW s1 \in Rank, NEW s2 \in Rank, NEW j1 \in Pair, NEW j2 \in Pair,
                        <<s1, j1>> # <<s2, j2>>
                 PROVE  Slot(s1, j1)'.items \cap Slot(s2, j2)'.items = {}
      BY DEF ItemsApart
    <2>1. CASE Slot(s1, j1)' = NoBatch \/ Slot(s2, j2)' = NoBatch
      BY <2>1, NoItems
    <2>2. CASE Slot(s1, j1)' # NoBatch /\ Slot(s2, j2)' # NoBatch
      <3>1. PICK i1 \in Pair : Slot(s1, j1)' = Slot(s1, i1) /\ (s1 # r => i1 = j1)
                                 /\ (s1 = r => i1 = 2 /\ j1 = 1)
        BY <2>2, <1>1, <1>p
      <3>2. PICK i2 \in Pair : Slot(s2, j2)' = Slot(s2, i2) /\ (s2 # r => i2 = j2)
                                 /\ (s2 = r => i2 = 2 /\ j2 = 1)
        BY <2>2, <1>1, <1>p
      <3>3. <<s1, i1>> # <<s2, i2>>
        BY <3>1, <3>2
      <3>4. Slot(s1, i1).items \cap Slot(s2, i2).items = {}
        BY <3>3 DEF SlotInv, ItemsApart
      <3> QED BY <3>1, <3>2, <3>4
    <2> QED BY <2>1, <2>2
  <1>6. ItemsOut'
    <2> SUFFICES ASSUME NEW s \in Rank, NEW j \in Pair
                 PROVE  /\ Slot(s, j)'.items \subseteq Item
                        /\ Slot(s, j)'.items \cap filled' = {}
                        /\ \A x \in Slot(s, j)'.items : x < next'
      BY DEF ItemsOut
    <2>1. CASE Slot(s, j)' = NoBatch
      BY <2>1, NoItems
    <2>2. CASE Slot(s, j)' # NoBatch
      <3>1. PICK i \in Pair : Slot(s, j)' = Slot(s, i) /\ <<s, i>> # <<r, 1>>
        BY <2>2, <1>2
      <3>2. Slot(s, i).items \cap Slot(r, 1).items = {}
        BY <3>1, <1>p DEF SlotInv, ItemsApart
      <3>3. /\ Slot(s, i).items \subseteq Item /\ Slot(s, i).items \cap filled = {}
            /\ \A x \in Slot(s, i).items : x < next
        BY DEF SlotInv, ItemsOut
      <3>4. next' = next \/ next' = N
        BY DEF SlotFreed, AfterFailure
      <3>5. Slot(s, i).items \cap filled' = {}
        BY <1>3, <3>2, <3>3
      <3>6. next' = N => \A x \in Slot(s, i).items : x < N
        BY <3>3, <1>n DEF Item
      <3> QED BY <3>1, <3>3, <3>4, <3>5, <3>6
    <2> QED BY <2>1, <2>2
  <1>7. FilledOut'
    <2> SUFFICES ASSUME NEW x \in filled' PROVE x < next'
      BY DEF FilledOut
    <2>1. x \in filled \/ x \in Slot(r, 1).items
      BY <1>3
    <2>2. x < next /\ x \in Item
      BY <2>1, <1>p, <1>i DEF SlotInv, FilledOut, ItemsOut, ItemTypes
    <2>3. x \in Nat
      BY <2>2 DEF Item
    <2> QED BY <2>2, <2>3, <1>n
  <1>8. ItemsKept'
    <2> SUFFICES ASSUME ~failed', NEW x \in Item, x < next'
                 PROVE  x \in filled' \/ \E s \in Rank, j \in Pair : x \in Slot(s, j)'.items
      BY DEF ItemsKept
    <2>1. /\ failed' = failed /\ next' = next /\ ~failed
          /\ filled' = filled \cup Slot(r, 1).items
      BY DEF SlotFreed, AfterFailure, FilledOf
    <2>2. x \in filled \/ \E s \in Rank, j \in Pair : x \in Slot(s, j).items
      BY <2>1 DEF SlotInv, ItemsKept
    <2>3. ASSUME NEW s \in Rank, NEW j \in Pair, x \in Slot(s, j).items
          PROVE  x \in filled' \/ \E i \in Pair : x \in Slot(s, i)'.items
      BY <2>1, <2>3, <1>1, <1>p
    <2> QED BY <2>1, <2>2, <2>3
  <1> QED BY <1>4, <1>5, <1>6, <1>7, <1>8 DEF SlotInv

\* What the coordinator's operations do to the slots.
LEMMA LaneSlots ==
  ASSUME lane' = lane PROVE \A r \in Rank, i \in Pair : Slot(r, i)' = Slot(r, i)
  BY DEF Slot

LEMMA StartSlots ==
  ASSUME LaneInv, lane[Root].st = "Idle", StartRootBatch, filled' = filled, failed' = failed
  PROVE  SlotTaken(Root, 1)
  <1>1. /\ lane'[Root] = Running(MakeBatch) /\ \A w \in Remote : lane'[w] = lane[w]
    BY StartedLane
  <1>2. MakeBatch \in Batch
    BY MakeBatchReal DEF LaneInv, RequestInv, ChannelType
  <1>3. lane[Root] = IdleLane
    BY RootLaneJob
  <1>4. Slot(Root, 1) = NoBatch /\ Slot(Root, 2) = NoBatch
    BY <1>3, LaneBuilds, FrameType DEF Slot
  <1>5. Slot(Root, 1)' = MakeBatch /\ Slot(Root, 2)' = NoBatch
    BY <1>1, <1>2, LaneBuilds DEF Slot
  <1>6. \A s \in Rank : s # Root => lane'[s] = lane[s]
    BY <1>1 DEF Remote
  <1>7. \A s \in Rank, j \in Pair : s # Root => Slot(s, j)' = Slot(s, j)
    BY <1>6 DEF Slot
  <1>8. \A s \in Rank, j \in Pair : <<s, j>> # <<Root, 1>> => Slot(s, j)' = Slot(s, j)
    BY <1>4, <1>5, <1>7 DEF Pair
  <1> QED BY <1>4, <1>5, <1>8 DEF SlotTaken, StartRootBatch

LEMMA StopSlots ==
  ASSUME LaneInv, lane[Root].st = "Idle", StopRootLane, filled' = filled, failed' = failed
  PROVE  SlotsStay
  <1>1. lane'[Root] = Stopped /\ \A w \in Remote : lane'[w] = lane[w]
    BY StoppedLane
  <1>3. lane[Root] = IdleLane
    BY RootLaneJob
  <1>4. Slot(Root, 1) = NoBatch /\ Slot(Root, 2) = NoBatch
    BY <1>3, LaneBuilds, FrameType DEF Slot
  <1>5. Slot(Root, 1)' = NoBatch /\ Slot(Root, 2)' = NoBatch
    BY <1>1, LaneBuilds, FrameType DEF Slot
  <1>6. \A s \in Rank : s # Root => lane'[s] = lane[s]
    BY <1>1 DEF Remote
  <1>7. \A s \in Rank, j \in Pair : s # Root => Slot(s, j)' = Slot(s, j)
    BY <1>6 DEF Slot
  <1>8. \A s \in Rank, j \in Pair : Slot(s, j)' = Slot(s, j)
    BY <1>4, <1>5, <1>7 DEF Pair
  <1> QED BY <1>8 DEF SlotsStay, StopRootLane

LEMMA FinishSlots ==
  ASSUME LaneInv, FinishRootBatch(job[Root])
  PROVE  SlotFreed(Root) /\ job[Root] = Slot(Root, 1) /\ job[Root] # NoBatch
  <1>1. lane'[Root] = IdleLane /\ \A w \in Remote : lane'[w] = lane[w]
    BY FinishedLane
  <1>2. lane[Root] = Running(job[Root]) /\ job[Root] \in Batch /\ job[Root] # NoBatch
    BY RootLaneJob DEF FinishRootBatch, RootAccepts
  <1>4. Slot(Root, 1) = job[Root] /\ Slot(Root, 2) = NoBatch
    BY <1>2, LaneBuilds DEF Slot
  <1>5. Slot(Root, 1)' = NoBatch /\ Slot(Root, 2)' = NoBatch
    BY <1>1, LaneBuilds, FrameType DEF Slot
  <1>6. \A s \in Rank : s # Root => lane'[s] = lane[s]
    BY <1>1 DEF Remote
  <1>7. \A s \in Rank, j \in Pair : s # Root => Slot(s, j)' = Slot(s, j)
    BY <1>6 DEF Slot
  <1>8. \/ filled' = FilledOf(Slot(Root, 1)) /\ next' = next /\ failed' = failed
        \/ filled' = filled /\ AfterFailure
    BY <1>4 DEF FinishRootBatch
  <1> QED BY <1>2, <1>4, <1>5, <1>7, <1>8 DEF SlotFreed

\* A lane that can take a request has room in the slot that the request fills.
LEMMA ReadySlots ==
  ASSUME LaneInv, NEW w \in Remote, ServeHeader(w), ServeReady(w)
  PROVE  SlotsStay \/ \E i \in Pair : SlotTaken(w, i)
  <1>t. HereTypes(w) /\ w \in Rank /\ lane \in [Rank -> LaneRec] /\ lane[w] \in LaneRec
    BY LaneInvTypes DEF HereTypes
  <1>1. \A s \in Rank, j \in Pair : s # w => Slot(s, j)' = Slot(s, j)
    <2>1. \A s \in Rank : s # w => lane'[s] = lane[s]
      BY ServeLane DEF Serves
    <2> QED BY <2>1 DEF Slot
  <1>2. lane[w].st = "Idle" => lane[w].cur = NoBatch /\ lane[w].pre = NoBatch
    <2>1. WorkerLane(w)
      BY DEF LaneInv
    <2>2. lane[w].st = "Idle" => lane[w] = IdleLane
      BY <2>1, LaneBuilds, FrameType
         DEF WorkerLane, Phase, WithoutJob, WithJob, WithFetched, Comes, StopComes, Live, Ending
    <2> QED BY <2>2, LaneBuilds, FrameType
  <1>3. lane[w].st = "Idle" \/ (lane[w].st = "Running" /\ lane[w].pre = NoBatch)
    BY DEF ServeReady, AcceptsReady
  <1>4. CASE /\ lane' = [lane EXCEPT ![w] = LaneStopped(@)] /\ UNCHANGED <<next, nextId>>
    <2>1. lane'[w] = LaneStopped(lane[w])
      BY <1>4, <1>t
    <2>2. lane'[w].cur = lane[w].cur /\ lane'[w].pre = lane[w].pre
      BY <2>1, <1>t, <1>2, <1>3, LaneStops, LaneBuilds, FrameType
    <2>3. \A s \in Rank, j \in Pair : Slot(s, j)' = Slot(s, j)
      BY <2>2, <1>1 DEF Slot
    <2> QED BY <2>3, <1>4 DEF SlotsStay, ServeReady
  <1>5. CASE /\ ~Exhausted /\ TakeBatch
             /\ lane' = [lane EXCEPT ![w] = LaneAssigned(@, MakeBatch)]
    <2>0. MakeBatch \in Batch
      BY MakeBatchReal DEF LaneInv, RequestInv, ChannelType
    <2>1. lane'[w] = LaneAssigned(lane[w], MakeBatch)
      BY <1>5, <1>t
    <2>2. CASE lane[w].st = "Idle"
      <3>1. lane'[w].cur = MakeBatch /\ lane'[w].pre = NoBatch
        BY <2>0, <2>1, <2>2, <1>t, LaneAssigns, LaneBuilds
      <3>2. Slot(w, 1) = NoBatch /\ Slot(w, 1)' = MakeBatch /\ Slot(w, 2)' = Slot(w, 2)
        BY <3>1, <1>2, <2>2 DEF Slot
      <3>3. \A s \in Rank, j \in Pair : <<s, j>> # <<w, 1>> => Slot(s, j)' = Slot(s, j)
        BY <3>2, <1>1 DEF Pair
      <3>4. SlotTaken(w, 1) /\ 1 \in Pair
        BY <3>2, <3>3, <1>5 DEF SlotTaken, ServeReady, Pair
      <3> QED BY <3>4
    <2>3. CASE lane[w].st = "Running"
      <3>1. lane'[w].cur = lane[w].cur /\ lane'[w].pre = MakeBatch /\ lane[w].pre = NoBatch
        BY <2>0, <2>1, <2>3, <1>t, <1>3, LaneAssigns
      <3>2. Slot(w, 2) = NoBatch /\ Slot(w, 2)' = MakeBatch /\ Slot(w, 1)' = Slot(w, 1)
        BY <3>1 DEF Slot
      <3>3. \A s \in Rank, j \in Pair : <<s, j>> # <<w, 2>> => Slot(s, j)' = Slot(s, j)
        BY <3>2, <1>1 DEF Pair
      <3>4. SlotTaken(w, 2) /\ 2 \in Pair
        BY <3>2, <3>3, <1>5 DEF SlotTaken, ServeReady, Pair
      <3> QED BY <3>4
    <2> QED BY <1>3, <2>2, <2>3
  <1> QED BY <1>4, <1>5 DEF ServeReady

\* A result names the oldest batch of its lane, which it frees.
LEMMA ResultSlots ==
  ASSUME LaneInv, NEW w \in Remote, ServeHeader(w),
         ServeUndecodable(w) \/ ServeValues(w) \/ ServeError(w)
  PROVE  /\ Head(up[w]) = up[w][1] /\ 1 \in 1..Len(up[w])
         /\ Head(up[w]).kind = "RESULT" /\ Head(up[w]).batch = Slot(w, 1)
         /\ SlotFreed(w)
  <1>t. HereTypes(w) /\ w \in Rank /\ lane \in [Rank -> LaneRec] /\ lane[w] \in LaneRec
    BY LaneInvTypes DEF HereTypes
  <1>0. up[w] # << >> /\ up[w] \in Seq(Message)
    BY <1>t DEF ServeHeader, HereTypes
  <1>1. Head(up[w]).status # "none"
    BY DEF ServeUndecodable, ServeValues, ServeError
  <1>2. \A t : Msg(t).status = "none"
    BY DEF Msg
  <1>3. PICK k \in 0..2, t \in {"none", "READY", "DRAIN"} : Sent(w, k, t) /\ Phase(w, k, t)
    BY DEF WorkerLane, LaneInv
  <1>4. /\ Head(up[w]) = up[w][1] /\ 1 \in 1..Len(up[w])
        /\ Head(up[w]).kind = "RESULT" /\ Head(up[w]).batch = Slot(w, 1)
    BY <1>0, <1>1, <1>2, <1>3, HeadKind
  <1>5. lane' = [lane EXCEPT ![w] = Advanced(@)]
    BY DEF ServeUndecodable, ServeValues, ServeError
  <1>6. lane'[w] = Advanced(lane[w]) /\ \A s \in Rank : s # w => lane'[s] = lane[s]
    BY <1>5, <1>t
  <1>7. Slot(w, 1)' = Slot(w, 2) /\ Slot(w, 2)' = NoBatch
    BY <1>6, <1>t, AdvanceSlots
  <1>8. \A s \in Rank, j \in Pair : s # w => Slot(s, j)' = Slot(s, j)
    BY <1>6 DEF Slot
  <1>9. \/ filled' = FilledOf(Slot(w, 1)) /\ next' = next /\ failed' = failed
        \/ filled' = filled /\ AfterFailure
    BY <1>4 DEF ServeUndecodable, ServeValues, ServeError
  <1> QED BY <1>4, <1>7, <1>8, <1>9 DEF SlotFreed

LEMMA DrainSlots ==
  ASSUME LaneInv, NEW w \in Remote, ServeHeader(w), ServeDrain(w) PROVE SlotsStay
  <1>t. w \in Rank /\ lane \in [Rank -> LaneRec]
    BY LaneInvTypes
  <1>1. lane' = [lane EXCEPT ![w] = Drained] /\ lane[w].st = "Stopped"
    BY DEF ServeDrain
  <1>2. lane'[w] = Drained /\ \A s \in Rank : s # w => lane'[s] = lane[s]
    BY <1>1, <1>t
  <1>3. lane[w] = Stopped
    <2>1. WorkerLane(w)
      BY DEF LaneInv
    <2> QED BY <1>1, <2>1, LaneBuilds, FrameType
         DEF WorkerLane, Phase, WithoutJob, WithJob, WithFetched, Comes, StopComes, Live, Ending
  <1>4. lane'[w].cur = lane[w].cur /\ lane'[w].pre = lane[w].pre
    BY <1>2, <1>3, LaneBuilds, FrameType
  <1>5. \A s \in Rank, j \in Pair : Slot(s, j)' = Slot(s, j)
    BY <1>2, <1>4 DEF Slot
  <1> QED BY <1>5 DEF SlotsStay, ServeDrain

-----------------------------------------------------------------------------
(* What a batch of callbacks comes to.                                     *)

\* A set of item indices has a least one.
LEMMA LeastItem ==
  ASSUME NEW S, S \subseteq Nat, S # {}
  PROVE  MinOf(S) \in S /\ \A y \in S : MinOf(S) <= y
  <1>1. PICK x \in S : \A y \in S : ~(<<y, x>> \in OpToRel(<, Nat))
    BY NatLessThanWellFounded, WFMin, Zenon
  <1>2. \A y \in S : y < x => <<y, x>> \in OpToRel(<, Nat)
    BY Zenon DEF OpToRel
  <1>3. \A y \in S : ~(y < x)
    BY <1>1, <1>2, Zenon
  <1>4. \A y \in S : x <= y
    BY <1>3
  <1>5. \E z \in S : \A y \in S : z <= y
    BY <1>4
  <1> QED BY <1>5, Zenon DEF MinOf

\* Not yet called, called on every item, and without a failing item.
Fresh(b) == \A x \in b.items : runs[x] = 0
Ran(b) == \A x \in b.items : runs[x] = 1
Fine(b) == \A x \in b.items : fate[x] \notin {"error", "panic"}

LEMMA Outcomes ==
  ASSUME NEW b \in Batch
  PROVE  /\ Evaluated(b) \subseteq b.items
         /\ Fine(b) => Evaluated(b) = b.items
         /\ BatchOutcome(b) = "ok" => Fine(b)
         /\ BatchOutcome(b) = "panic" => \E x \in b.items : fate[x] = "panic"
         /\ BatchOutcome(b) = "error" => \E x \in b.items : fate[x] = "error"
         /\ BatchOutcome(b) \in {"ok", "error", "panic"}
         /\ ~Fine(b) /\ (\A x \in b.items : fate[x] # "panic") => BatchOutcome(b) = "error"
  <1>b. b.items \subseteq Item /\ b.items \subseteq Nat
    BY DEF Batch, Item
  <1>1. Evaluated(b) \subseteq b.items
    BY DEF Evaluated
  <1>2. Fine(b) => Stopping(b) = {}
    BY DEF Fine, Stopping
  <1>3. Fine(b) => Evaluated(b) = b.items
    BY <1>2 DEF Evaluated
  <1>4. ASSUME ~Fine(b)
        PROVE  \E x \in Evaluated(b) : fate[x] \in {"error", "panic"}
    <2>1. Stopping(b) # {} /\ Stopping(b) \subseteq Nat
      BY <1>4, <1>b DEF Fine, Stopping
    <2>2. MinOf(Stopping(b)) \in Stopping(b)
      BY <2>1, LeastItem
    <2>3. MinOf(Stopping(b)) \in b.items /\ fate[MinOf(Stopping(b))] \in {"error", "panic"}
      BY <2>2 DEF Stopping
    <2>4. MinOf(Stopping(b)) <= MinOf(Stopping(b))
      BY <2>1, <2>2
    <2>5. MinOf(Stopping(b)) \in Evaluated(b)
      BY <2>1, <2>3, <2>4 DEF Evaluated
    <2> QED BY <2>3, <2>5
  <1>5. BatchOutcome(b) = "panic" \/ BatchOutcome(b) = "error" \/ BatchOutcome(b) = "ok"
    BY DEF BatchOutcome
  <1>6. BatchOutcome(b) = "panic" => \E x \in Evaluated(b) : fate[x] = "panic"
    BY DEF BatchOutcome
  <1>7. BatchOutcome(b) = "error" => \E x \in Evaluated(b) : fate[x] = "error"
    BY DEF BatchOutcome
  <1>8. BatchOutcome(b) = "ok" => \A x \in Evaluated(b) : fate[x] \notin {"error", "panic"}
    BY DEF BatchOutcome
  <1> QED BY <1>1, <1>3, <1>4, <1>5, <1>6, <1>7, <1>8

-----------------------------------------------------------------------------
(* How often the items are mapped.                                         *)

\* A batch other than the job that w holds, in a slot of its own.
Beside(w, b) ==
  \E i, j \in Pair : i # j /\ b = Slot(w, j) /\ (job[w] = Slot(w, i) \/ job[w] = NoBatch)

LEMMA JobSlot ==
  ASSUME LaneInv, NEW r \in Rank
  PROVE  job[r] = NoBatch \/ \E i \in Pair : job[r] = Slot(r, i)
  <1>1. CASE r = Root
    <2>1. job[Root] # NoBatch => lane[Root] = Running(job[Root]) /\ job[Root] \in Batch
      BY RootInRank DEF LaneInv, RootLane, NoJob, RequestInv, ChannelType
    <2>2. job[Root] # NoBatch => job[Root] = Slot(Root, 1)
      BY <2>1, LaneBuilds DEF Slot
    <2> QED BY <1>1, <2>2 DEF Pair
  <1>2. CASE r # Root
    <2>1. WorkerLane(r)
      BY <1>2 DEF LaneInv, Remote
    <2>2. PICK k \in 0..2, t \in {"none", "READY", "DRAIN"} : Sent(r, k, t) /\ Phase(r, k, t)
      BY <2>1 DEF WorkerLane
    <2>3. job[r] # NoBatch => Runs(r, 1) \/ Runs(r, 2)
      BY <2>2 DEF Phase, WithoutJob, WithJob, WithFetched, NoJob
    <2> QED BY <2>3 DEF Runs, Pair
  <1> QED BY <1>1, <1>2

LEMMA BatchPlaces ==
  ASSUME LaneInv, NEW w \in Remote
  PROVE  /\ fetched[w].kind = "TASK" => Beside(w, fetched[w].batch)
         /\ \A i \in 1..Len(down[w]) : down[w][i].kind = "TASK" => Beside(w, down[w][i].batch)
         /\ \A i \in 1..Len(up[w]) : up[w][i].kind = "RESULT" => Beside(w, up[w][i].batch)
  <1>1. PICK k \in 0..2, t \in {"none", "READY", "DRAIN"} : Sent(w, k, t) /\ Phase(w, k, t)
    BY DEF WorkerLane, LaneInv
  <1>p. Pair = {1, 2}
    BY DEF Pair
  <1>2. job[w] = NoBatch \/ (k < 2 /\ job[w] = Slot(w, k + 1))
    BY <1>1 DEF Phase, WithoutJob, WithJob, WithFetched, NoJob, Runs
  <1>3. ASSUME NEW i \in 1..Len(up[w]), up[w][i].kind = "RESULT" PROVE Beside(w, up[w][i].batch)
    <2>1. \A s : Msg(s).kind = s
      BY DEF Msg
    <2>2. i \in 1..k /\ up[w][i].batch = Slot(w, i)
      BY <1>1, <1>3, <2>1 DEF Sent
    <2>3. i \in Pair
      BY <2>2, <1>p
    <2>4. CASE job[w] = NoBatch
      BY <2>2, <2>3, <2>4, <1>p DEF Beside
    <2>5. CASE k < 2 /\ job[w] = Slot(w, k + 1)
      <3>1. i = 1 /\ k = 1
        BY <2>2, <2>5
      <3> QED BY <2>2, <2>5, <3>1, <1>p DEF Beside
    <2> QED BY <1>2, <2>4, <2>5
  <1>4. ASSUME fetched[w].kind = "TASK" PROVE Beside(w, fetched[w].batch)
    <2>1. NotFetched.kind # "TASK"
      BY DEF NotFetched, Msg
    <2>2. WithFetched(w, k, t)
      BY <1>1, <1>4, <2>1 DEF Phase, WithoutJob, WithJob
    <2>3. \/ job[w] = Slot(w, 1) /\ fetched[w].batch = Slot(w, 2)
          \/ job[w] = NoBatch /\ k < 2 /\ fetched[w].batch = Slot(w, k + 1)
      BY <1>4, <2>2 DEF WithFetched, Runs, NoJob
    <2> QED BY <2>3, <1>p DEF Beside
  <1>5. ASSUME NEW i \in 1..Len(down[w]), down[w][i].kind = "TASK" PROVE Beside(w, down[w][i].batch)
    <2>1. down[w] # << >>
      BY <1>5
    <2>2. \/ Comes(w, 1) /\ job[w] = NoBatch
          \/ Comes(w, 2) /\ job[w] = Slot(w, 1)
          \/ StopComes(w, 0) \/ StopComes(w, 1)
      BY <1>1, <2>1 DEF Phase, WithoutJob, WithJob, WithFetched, NoJob, Runs
    <2>3. i = 1
      BY <2>2, <1>5 DEF Comes, StopComes
    <2> QED BY <2>2, <2>3, <1>5, <1>p DEF Comes, StopComes, Beside
  <1> QED BY <1>3, <1>4, <1>5

\* Batches in different slots have different items.
LEMMA BesideApart ==
  ASSUME LaneInv, SlotInv, NEW w \in Remote, NEW b, Beside(w, b), NEW r \in Rank
  PROVE  b.items \cap job[r].items = {}
  <1>w. w \in Rank
    BY DEF Remote
  <1>1. PICK i \in Pair, j \in Pair :
          i # j /\ b = Slot(w, j) /\ (job[w] = Slot(w, i) \/ job[w] = NoBatch)
    BY DEF Beside
  <1>2. CASE job[r] = NoBatch
    BY <1>2, NoItems
  <1>3. CASE r = w /\ job[w] = Slot(w, i)
    BY <1>1, <1>3, <1>w DEF SlotInv, ItemsApart
  <1>4. CASE r # w /\ job[r] # NoBatch
    <2>1. PICK n \in Pair : job[r] = Slot(r, n)
      BY <1>4, JobSlot
    <2> QED BY <1>1, <1>4, <1>w, <2>1 DEF SlotInv, ItemsApart
  <1> QED BY <1>1, <1>2, <1>3, <1>4

LEMMA JobsApart ==
  ASSUME LaneInv, SlotInv, NEW r \in Rank, NEW s \in Rank, r # s
  PROVE  job[r].items \cap job[s].items = {}
  <1>1. CASE job[r] = NoBatch \/ job[s] = NoBatch
    BY <1>1, NoItems
  <1>2. CASE job[r] # NoBatch /\ job[s] # NoBatch
    <2>1. PICK n \in Pair : job[r] = Slot(r, n)
      BY <1>2, JobSlot
    <2>2. PICK m \in Pair : job[s] = Slot(s, m)
      BY <1>2, JobSlot
    <2> QED BY <2>1, <2>2 DEF SlotInv, ItemsApart
  <1> QED BY <1>1, <1>2

LEMMA JobOut ==
  ASSUME LaneInv, SlotInv, NEW r \in Rank
  PROVE  job[r].items \subseteq Item /\ job[r].items \cap filled = {} /\ \A x \in job[r].items : x < next
  <1>1. CASE job[r] = NoBatch
    BY <1>1, NoItems
  <1>2. CASE job[r] # NoBatch
    <2>1. PICK n \in Pair : job[r] = Slot(r, n)
      BY <1>2, JobSlot
    <2> QED BY <2>1 DEF SlotInv, ItemsOut
  <1> QED BY <1>1, <1>2

In(m, s) == \E j \in 1..Len(s) : m = s[j]

LEMMA SentIn ==
  ASSUME NEW s \in Seq(Message), NEW n \in Message, NEW m, In(m, Append(s, n))
  PROVE  m = n \/ In(m, s)
  <1>1. PICK j \in 1..Len(Append(s, n)) : m = Append(s, n)[j]
    BY DEF In
  <1>2. Len(Append(s, n)) = Len(s) + 1 /\ Append(s, n)[Len(s) + 1] = n
        /\ \A i \in 1..Len(s) : Append(s, n)[i] = s[i]
    OBVIOUS
  <1>3. j = Len(s) + 1 \/ j \in 1..Len(s)
    BY <1>2
  <1> QED BY <1>1, <1>2, <1>3 DEF In

LEMMA TakenIn ==
  ASSUME NEW s \in Seq(Message), s # << >>
  PROVE  In(Head(s), s) /\ \A m : In(m, Tail(s)) => In(m, s)
  <1>1. Len(s) \in Nat \ {0} /\ Head(s) = s[1]
    BY EmptySeq
  <1>2. In(Head(s), s)
    BY <1>1 DEF In
  <1>3. Len(Tail(s)) = Len(s) - 1 /\ \A i \in 1..(Len(s) - 1) : Tail(s)[i] = s[i + 1]
    BY HeadTailProperties
  <1>4. ASSUME NEW m, In(m, Tail(s)) PROVE In(m, s)
    <2>1. PICK j \in 1..Len(Tail(s)) : m = Tail(s)[j]
      BY <1>4 DEF In
    <2>2. j \in 1..(Len(s) - 1) /\ j + 1 \in 1..Len(s)
      BY <1>1, <1>3
    <2> QED BY <2>1, <2>2, <1>3 DEF In
  <1> QED BY <1>2, <1>4

RunsOnce ==
  \A x \in Item : runs[x] <= 1 /\ (x >= next => runs[x] = 0) /\ (x \in filled => runs[x] = 1)
JobRuns(r) ==
  (~jobDone[r] => Fresh(job[r])) /\ (jobDone[r] /\ Fine(job[r]) => Ran(job[r]))
TaskRuns(w) ==
  \A m : m = fetched[w] \/ In(m, down[w]) => (m.kind = "TASK" => Fresh(m.batch))
ResultRuns(w) ==
  \A m : In(m, up[w]) => (m.kind = "RESULT" /\ m.status = "ok" => Fine(m.batch) /\ Ran(m.batch))

\* An item is mapped at most once, and not while it is pending or its batch is
\* on its way; a result of values stands for items that are mapped.
RunInv ==
  /\ RunsOnce
  /\ \A r \in Rank : JobRuns(r)
  /\ \A w \in Remote : TaskRuns(w) /\ ResultRuns(w)

\* What the callbacks of a step do to the batches of others.
RunsKept(b) == \A x \in b.items : runs'[x] = runs[x]
FreshNext(b) == \A x \in b.items : runs'[x] = 0
RanNext(b) == \A x \in b.items : runs'[x] = 1
OthersKept ==
  /\ runs' \in [Item -> Nat] /\ fate' = fate
  /\ \A x \in Item : runs'[x] <= 1 /\ (x >= next => runs'[x] = 0) /\ (x \in filled => runs'[x] = 1)
  /\ \A w \in Remote : \A m :
       /\ (m = fetched[w] \/ In(m, down[w])) /\ m.kind = "TASK" => RunsKept(m.batch)
       /\ In(m, up[w]) /\ m.kind = "RESULT" => RunsKept(m.batch)

LEMMA QuietRuns ==
  ASSUME SlotInv, RunInv, runs' = runs, fate' = fate PROVE OthersKept
  BY DEF OthersKept, RunsKept, RunInv, RunsOnce, SlotInv, ItemTypes

LEMMA CallRuns ==
  ASSUME LaneInv, SlotInv, RunInv, NEW r \in Rank, ~jobDone[r], runs' = Called(job[r]), fate' = fate
  PROVE  /\ OthersKept
         /\ \A s \in Rank : s # r => RunsKept(job[s])
         /\ Fine(job[r]) => RanNext(job[r])
  <1> DEFINE b == job[r]
  <1>b. b \in Batch /\ b.items \subseteq Item /\ b.items \cap filled = {} /\ \A x \in b.items : x < next
    BY JobOut DEF LaneInv, RequestInv, ChannelType
  <1>0. Evaluated(b) \subseteq b.items /\ (Fine(b) => Evaluated(b) = b.items)
    BY <1>b, Outcomes
  <1>1. \A x \in b.items : runs[x] = 0
    BY DEF RunInv, JobRuns, Fresh
  <1>s. next \in 0..N /\ N \in Nat /\ runs \in [Item -> Nat]
    BY PmapAssumption DEF SlotInv, ItemTypes
  <1>t. runs \in [Item -> Nat] /\ next \in Nat
    BY <1>s
  <1>2. runs' = [x \in Item |-> IF x \in Evaluated(b) THEN runs[x] + 1 ELSE runs[x]]
    BY DEF Called
  <1> HIDE DEF b
  <1>3. runs' \in [Item -> Nat]
    BY <1>2, <1>t
  <1>4. \A x \in Item : x \notin b.items => runs'[x] = runs[x]
    BY <1>0, <1>2
  <1>5. \A x \in b.items : runs'[x] \in {0, 1} /\ x \in Item
    BY <1>1, <1>2, <1>b
  <1>6. Fine(b) => RanNext(b)
    BY <1>0, <1>1, <1>2, <1>b DEF RanNext
  <1>7. ASSUME NEW c, c.items \cap b.items = {}, c.items \subseteq Item PROVE RunsKept(c)
    BY <1>4, <1>7 DEF RunsKept
  <1>8. \A s \in Rank : s # r => RunsKept(job[s])
    BY <1>7, JobsApart, JobOut DEF b
  <1>9. ASSUME NEW w \in Remote, NEW m, Beside(w, m.batch) PROVE RunsKept(m.batch)
    <2>1. m.batch.items \cap b.items = {}
      BY <1>9, BesideApart DEF b
    <2>2. PICK j \in Pair : m.batch = Slot(w, j)
      BY <1>9 DEF Beside
    <2>3. m.batch.items \subseteq Item
      BY <2>2 DEF SlotInv, ItemsOut, Remote
    <2> QED BY <1>7, <2>1, <2>3
  <1>10. ASSUME NEW w \in Remote, NEW m
         PROVE  /\ (m = fetched[w] \/ In(m, down[w])) /\ m.kind = "TASK" => RunsKept(m.batch)
                /\ In(m, up[w]) /\ m.kind = "RESULT" => RunsKept(m.batch)
    BY <1>9, BatchPlaces DEF In
  <1>11. ASSUME NEW x \in Item
         PROVE  runs'[x] <= 1 /\ (x >= next => runs'[x] = 0) /\ (x \in filled => runs'[x] = 1)
    <2>0. x \in Nat
      BY DEF Item
    <2>1. CASE x \in b.items
      <3>1. x < next /\ x \notin filled
        BY <2>1, <1>b
      <3> QED BY <2>0, <2>1, <3>1, <1>5, <1>t
    <2>2. CASE x \notin b.items
      BY <2>2, <1>4 DEF RunInv, RunsOnce
    <2> QED BY <2>1, <2>2
  <1> QED BY <1>3, <1>6, <1>8, <1>10, <1>11 DEF OthersKept, b

\* Putting the parts together again after a step.
NewTasks(w) ==
  \A m : m = fetched'[w] \/ In(m, down'[w]) =>
           m = fetched[w] \/ In(m, down[w]) \/ (m.kind = "TASK" => FreshNext(m.batch))
NewResults(w) ==
  \A m : In(m, up'[w]) =>
           \/ In(m, up[w])
           \/ m.kind = "RESULT" /\ m.status = "ok" => Fine(m.batch) /\ RanNext(m.batch)

LEMMA RunsTogether ==
  ASSUME SlotInv, RunInv, OthersKept, next \in Nat, next' \in Nat, next <= next',
         \A x \in filled' : x \in filled \/ runs'[x] = 1,
         \A r \in Rank : JobRuns(r)',
         \A w \in Remote : NewTasks(w) /\ NewResults(w)
  PROVE  RunInv'
  <1>1. RunsOnce'
    <2> SUFFICES ASSUME NEW x \in Item
                 PROVE  runs'[x] <= 1 /\ (x >= next' => runs'[x] = 0) /\ (x \in filled' => runs'[x] = 1)
      BY DEF RunsOnce
    <2>1. runs'[x] <= 1 /\ (x >= next => runs'[x] = 0) /\ (x \in filled => runs'[x] = 1)
      BY DEF OthersKept
    <2>2. x >= next' => x >= next
      BY DEF Item
    <2> QED BY <2>1, <2>2
  <1>2. ASSUME NEW w \in Remote PROVE TaskRuns(w)'
    <2> SUFFICES ASSUME NEW m, m = fetched'[w] \/ In(m, down'[w]), m.kind = "TASK"
                 PROVE  \A x \in m.batch.items : runs'[x] = 0
      BY DEF TaskRuns, Fresh, In
    <2>1. CASE m = fetched[w] \/ In(m, down[w])
      <3>1. Fresh(m.batch) /\ RunsKept(m.batch)
        BY <2>1 DEF RunInv, TaskRuns, OthersKept
      <3> QED BY <3>1 DEF Fresh, RunsKept
    <2>2. CASE m.kind = "TASK" => FreshNext(m.batch)
      BY <2>2 DEF FreshNext
    <2> QED BY <2>1, <2>2 DEF NewTasks
  <1>3. ASSUME NEW w \in Remote PROVE ResultRuns(w)'
    <2> SUFFICES ASSUME NEW m, In(m, up'[w]), m.kind = "RESULT", m.status = "ok"
                 PROVE  /\ \A x \in m.batch.items : fate'[x] \notin {"error", "panic"}
                        /\ \A x \in m.batch.items : runs'[x] = 1
      BY DEF ResultRuns, Fine, Ran, In
    <2>1. fate' = fate
      BY DEF OthersKept
    <2>2. CASE In(m, up[w])
      <3>1. Fine(m.batch) /\ Ran(m.batch) /\ RunsKept(m.batch)
        BY <2>2 DEF RunInv, ResultRuns, OthersKept
      <3> QED BY <2>1, <3>1 DEF Fine, Ran, RunsKept
    <2>3. CASE m.kind = "RESULT" /\ m.status = "ok" => Fine(m.batch) /\ RanNext(m.batch)
      BY <2>1, <2>3 DEF Fine, RanNext
    <2> QED BY <2>2, <2>3 DEF NewResults
  <1> QED BY <1>1, <1>2, <1>3 DEF RunInv

\* A job that stays, one that is gone, and one that has just been taken.
LEMMA JobRunsKept ==
  ASSUME NEW r \in Rank, fate' = fate, JobRuns(r),
         job'[r] = job[r], jobDone'[r] = jobDone[r], RunsKept(job[r])
  PROVE  JobRuns(r)'
  BY DEF JobRuns, Fresh, Ran, Fine, RunsKept
LEMMA JobRunsGone ==
  ASSUME NEW r \in Rank, ~jobDone'[r], FreshNext(job'[r]) PROVE JobRuns(r)'
  BY DEF JobRuns, Fresh, FreshNext
LEMMA NoBatchFresh == FreshNext(NoBatch)
  BY NoItems DEF FreshNext

ItemInv == SlotInv /\ RunInv

\* Of a worker that another rank's step leaves alone.
LEMMA SameRuns ==
  ASSUME NEW v \in Remote, Same(v), fate' = fate, JobRuns(v), RunsKept(job[v])
  PROVE  JobRuns(v)' /\ NewTasks(v) /\ NewResults(v)
  <1>1. v \in Rank
    BY DEF Remote
  <1>2. JobRuns(v)'
    BY <1>1, JobRunsKept DEF Same
  <1> QED BY <1>2 DEF Same, NewTasks, NewResults

LEMMA NextTypes ==
  ASSUME SlotInv PROVE next \in Nat /\ N \in Nat /\ next <= N
  <1>1. next \in 0..N /\ N \in Nat
    BY PmapAssumption DEF SlotInv, ItemTypes
  <1> QED BY <1>1

\* A step of the root that serves no header keeps RunInv.
LEMMA RootItems ==
  ASSUME SlotInv, RunInv, SlotInv', OthersKept, next <= next',
         \A x \in filled' : x \in filled \/ runs'[x] = 1,
         \A w \in Remote : Same(w) /\ RunsKept(job[w]),
         JobRuns(Root)'
  PROVE  RunInv'
  <1>1. fate' = fate
    BY DEF OthersKept
  <1>2. \A w \in Remote : JobRuns(w)
    BY DEF RunInv, Remote
  <1>3. \A w \in Remote : JobRuns(w)' /\ NewTasks(w) /\ NewResults(w)
    BY <1>1, <1>2, SameRuns
  <1>4. \A r \in Rank : JobRuns(r)'
    BY <1>3 DEF Remote
  <1>5. next \in Nat /\ next' \in 0..N /\ N \in Nat
    BY NextTypes DEF SlotInv, ItemTypes
  <1>6. next' \in Nat
    BY <1>5
  <1> QED BY <1>3, <1>4, <1>5, <1>6, RunsTogether

\* So does a step of a worker, which leaves the slots alone.
LEMMA WorkerItems ==
  ASSUME ItemInv, NEW w \in Remote, OnlyAt(w), filled' = filled, failed' = failed,
         OthersKept, \A s \in Rank : s # w => RunsKept(job[s]),
         JobRuns(w)', NewTasks(w), NewResults(w)
  PROVE  ItemInv'
  <1>1. fate' = fate /\ runs' \in [Item -> Nat]
    BY DEF OthersKept
  <1>2. SlotsStay
    BY LaneSlots DEF OnlyAt, SlotsStay
  <1>3. SlotInv'
    BY <1>1, <1>2, SlotsStaySafe DEF ItemInv
  <1>4. \A s \in Rank : JobRuns(s)
    BY DEF ItemInv, RunInv
  <1>5. \A v \in Remote : v # w => JobRuns(v)' /\ NewTasks(v) /\ NewResults(v)
    BY <1>1, <1>4, SameRuns DEF OnlyAt, Remote
  <1>6. JobRuns(Root)'
    <2>1. Root \in Rank /\ Root # w
      BY RootInRank
    <2> QED BY <1>1, <1>4, <2>1, JobRunsKept DEF OnlyAt
  <1>7. \A r \in Rank : JobRuns(r)'
    BY <1>5, <1>6 DEF Remote
  <1>8. next \in Nat /\ next' = next
    BY NextTypes DEF ItemInv, OnlyAt
  <1>9. next <= next' /\ next' \in Nat
    BY <1>8
  <1>10. RunInv'
    BY <1>5, <1>7, <1>8, <1>9, RunsTogether DEF ItemInv
  <1> QED BY <1>3, <1>10 DEF ItemInv

\* The next batch is one that nobody has mapped.
LEMMA NextFresh ==
  ASSUME ItemInv, runs' = runs PROVE FreshNext(MakeBatch)
  <1>1. \A x \in BatchItems : x \in Item /\ x >= next
    BY NextTypes DEF BatchItems, ItemInv, Item
  <1> QED BY <1>1, NoItems DEF FreshNext, ItemInv, RunInv, RunsOnce

\* The jobs of the others when nothing is called.
LEMMA QuietJobs ==
  ASSUME runs' = runs PROVE \A s \in Rank : RunsKept(job[s])
  BY DEF RunsKept

LEMMA StartItems ==
  ASSUME LaneInv, ItemInv, RootAlone, lane[Root].st = "Idle", StartRootBatch,
         filled' = filled, failed' = failed, runs' = runs, fate' = fate, jobDone' = jobDone
  PROVE  ItemInv'
  <1>1. SlotTaken(Root, 1) /\ 1 \in Pair /\ Root \in Rank
    BY StartSlots, RootInRank DEF Pair
  <1>2. runs' \in [Item -> Nat]
    BY DEF ItemInv, SlotInv, ItemTypes
  <1>3. SlotInv'
    BY <1>1, <1>2, SlotTakenSafe DEF ItemInv
  <1>4. next \in Nat /\ Cardinality(BatchItems) \in Nat /\ next' = next + Cardinality(BatchItems)
    BY BatchRange, NextTypes DEF ItemInv, SlotInv, ItemTypes, SlotTaken, TakeBatch, StartRootBatch
  <1>5. next <= next'
    BY <1>4
  <1>6. job'[Root] = MakeBatch /\ ~jobDone'[Root]
    BY StartedLane, RootLaneJob DEF NoJob
  <1>7. JobRuns(Root)'
    BY <1>1, <1>6, NextFresh, JobRunsGone
  <1>8. \A w \in Remote : Same(w) /\ RunsKept(job[w])
    BY QuietJobs DEF RootAlone, Remote
  <1>9. RunInv'
    BY <1>3, <1>5, <1>7, <1>8, QuietRuns, RootItems DEF ItemInv
  <1> QED BY <1>3, <1>9 DEF ItemInv

\* A step that leaves the slots, the root's job and the calls alone.
LEMMA RestItems ==
  ASSUME ItemInv, SlotsStay, \A w \in Remote : Same(w),
         job'[Root] = job[Root], jobDone'[Root] = jobDone[Root], runs' = runs, fate' = fate
  PROVE  ItemInv'
  <1>1. SlotInv'
    BY SlotsStaySafe DEF ItemInv, SlotInv, ItemTypes
  <1>2. next \in Nat /\ next' = next /\ filled' = filled
    BY NextTypes DEF ItemInv, SlotsStay
  <1>3. next <= next'
    BY <1>2
  <1>4. JobRuns(Root)'
    BY QuietJobs, RootInRank, JobRunsKept DEF ItemInv, RunInv
  <1>5. RunInv'
    BY <1>1, <1>2, <1>3, <1>4, QuietJobs, QuietRuns, RootItems DEF ItemInv, Remote
  <1> QED BY <1>1, <1>5 DEF ItemInv

\* The root's batch ends: what it filled has been mapped.
LEMMA FinishItems ==
  ASSUME LaneInv, ItemInv, RootAlone, FinishRootBatch(job[Root]), ~jobDone'[Root],
         OthersKept, \A w \in Remote : RunsKept(job[w]),
         Fine(job[Root]) => RanNext(job[Root])
  PROVE  ItemInv'
  <1> DEFINE b == job[Root]
  <1>1. SlotFreed(Root) /\ b = Slot(Root, 1) /\ Root \in Rank
    BY FinishSlots, RootInRank
  <1>2. fate' = fate /\ runs' \in [Item -> Nat]
    BY DEF OthersKept
  <1>3. SlotInv'
    BY <1>1, <1>2, SlotFreedSafe DEF ItemInv
  <1>b. b \in Batch
    BY RootLaneJob
  <1>4. \A x \in filled' : x \in filled \/ runs'[x] = 1
    <2>1. CASE BatchOutcome(b) = "ok" /\ filled' = FilledOf(b)
      <3>1. RanNext(b)
        BY <2>1, <1>b, Outcomes
      <3> QED BY <2>1, <3>1 DEF RanNext, FilledOf
    <2>2. CASE filled' = filled
      BY <2>2
    <2> QED BY <2>1, <2>2 DEF FinishRootBatch
  <1>5. next \in Nat /\ N \in Nat /\ next <= N /\ (next' = next \/ next' = N)
    BY NextTypes DEF ItemInv, FinishRootBatch, AfterFailure
  <1>6. next <= next'
    BY <1>5
  <1>7. job'[Root] = NoBatch
    BY FinishedLane
  <1>8. JobRuns(Root)'
    BY <1>1, <1>7, NoBatchFresh, JobRunsGone
  <1>9. RunInv'
    BY <1>3, <1>4, <1>6, <1>8, RootItems DEF ItemInv, RootAlone
  <1> QED BY <1>3, <1>9 DEF ItemInv

LEMMA RootStepItems ==
  ASSUME LaneInv, ItemInv,
         RootSettles \/ RootTakes \/ RootExecutes \/ HybridSpawns \/ HybridLocal \/ RootDies
           \/ \E w \in Remote : RootRefuses(w)
  PROVE  ItemInv'
  <1>a. RootAlone
    BY RootStepLane
  <1>s. \A w \in Remote : Same(w)
    BY <1>a DEF RootAlone
  <1>r. Root \in Rank
    BY RootInRank
  <1>1. CASE RootSettles \/ RootDies \/ \E w \in Remote : RootRefuses(w)
    <2>1. UNCHANGED <<lane, next, filled, failed, job, jobDone, runs, fate>>
      BY <1>1 DEF RootSettles, RootDies, RootRefuses, Abort, coordinatorVars, jobVars
    <2>2. SlotsStay
      BY <2>1, LaneSlots DEF SlotsStay
    <2> QED BY <1>s, <2>1, <2>2, RestItems
  <1>2. CASE RootTakes \/ HybridSpawns
    <2>1. filled' = filled /\ failed' = failed /\ runs' = runs /\ fate' = fate /\ jobDone' = jobDone
      BY <1>2 DEF RootTakes, HybridSpawns
    <2>2. CASE lane[Root].st = "Idle" /\ StartRootBatch
      BY <1>a, <2>1, <2>2, StartItems
    <2>3. CASE lane[Root].st = "Idle" /\ StopRootLane
      <3>1. SlotsStay /\ job' = job
        BY <2>1, <2>3, StopSlots DEF StopRootLane
      <3> QED BY <1>s, <2>1, <3>1, RestItems
    <2>4. CASE lane' = lane /\ next' = next /\ job' = job
      <3>1. SlotsStay
        BY <2>1, <2>4, LaneSlots DEF SlotsStay
      <3> QED BY <1>s, <2>1, <2>4, <3>1, RestItems
    <2> QED BY <1>2, <2>2, <2>3, <2>4 DEF RootTakes, HybridSpawns
  <1>3. CASE RootExecutes
    <2>1. /\ FinishRootBatch(job[Root]) /\ runs' = Called(job[Root]) /\ fate' = fate
          /\ jobDone' = jobDone /\ rootPc = "executing"
      BY <1>3 DEF RootExecutes
    <2>2. ~jobDone[Root]
      BY <2>1 DEF LaneInv, RootLane
    <2>3. /\ OthersKept /\ \A s \in Rank : s # Root => RunsKept(job[s])
          /\ Fine(job[Root]) => RanNext(job[Root])
      BY <1>r, <2>1, <2>2, CallRuns DEF ItemInv
    <2>4. \A w \in Remote : RunsKept(job[w])
      BY <2>3 DEF Remote
    <2> QED BY <1>a, <2>1, <2>2, <2>3, <2>4, FinishItems
  <1>4. CASE HybridLocal
    <2>1. /\ FinishRootBatch(job[Root]) /\ runs' = runs /\ fate' = fate
          /\ jobDone' = [jobDone EXCEPT ![Root] = FALSE] /\ jobDone[Root]
      BY <1>4 DEF HybridLocal
    <2>2. ~jobDone'[Root]
      BY <1>r, <2>1 DEF LaneInv, LaneTypes
    <2>3. OthersKept /\ \A w \in Remote : RunsKept(job[w])
      BY <2>1, QuietRuns, QuietJobs DEF ItemInv, Remote
    <2>4. Fine(job[Root]) => RanNext(job[Root])
      BY <1>r, <2>1 DEF ItemInv, RunInv, JobRuns, Ran, RanNext
    <2> QED BY <1>a, <2>1, <2>2, <2>3, <2>4, FinishItems
  <1> QED BY <1>1, <1>2, <1>3, <1>4

\* A header served: what fills the output has been mapped, what is handed out
\* has not.
LEMMA ServeItems ==
  ASSUME LaneInv, ItemInv, NEW w \in Remote, ServeHeader(w) PROVE ItemInv'
  <1>t. HereTypes(w) /\ w \in Rank
    BY LaneInvTypes
  <1>v. Serves(w)
    BY ServeLane
  <1>1. /\ runs' = runs /\ fate' = fate /\ fetched' = fetched /\ job' = job /\ jobDone' = jobDone
        /\ up[w] # << >> /\ up' = Receive(up, w)
    BY DEF ServeHeader, jobVars
  <1>u. up'[w] = Tail(up[w])
    BY <1>1, LaneInvTypes DEF Receive
  <1>2. OthersKept /\ \A s \in Rank : RunsKept(job[s])
    BY <1>1, QuietRuns, QuietJobs DEF ItemInv
  <1>3. \A s \in Rank : JobRuns(s)'
    BY <1>1, <1>2, JobRunsKept DEF ItemInv, RunInv
  <1>4. NewResults(w)
    BY <1>u, <1>1, <1>t, TakenIn DEF NewResults, HereTypes
  <1>5. \A v \in Remote : v # w => NewTasks(v) /\ NewResults(v)
    BY <1>v DEF Serves, Same, NewTasks, NewResults
  <1>6. SlotInv'
    <2>1. runs' \in [Item -> Nat]
      BY <1>1 DEF ItemInv, SlotInv, ItemTypes
    <2>2. SlotsStay \/ SlotFreed(w) \/ \E i \in Pair : SlotTaken(w, i)
      BY ReadySlots, ResultSlots, DrainSlots DEF ServeHeader
    <2> QED BY <1>1, <1>t, <2>1, <2>2, SlotsStaySafe, SlotFreedSafe, SlotTakenSafe DEF ItemInv
  <1>7. \A x \in filled' : x \in filled \/ runs'[x] = 1
    <2>1. CASE ServeValues(w)
      <3>1. Head(up[w]).kind = "RESULT" /\ Head(up[w]).status = "ok"
        BY <2>1, ResultSlots DEF ServeValues
      <3>2. In(Head(up[w]), up[w])
        BY <1>t, <1>1, TakenIn DEF HereTypes
      <3>3. Ran(Head(up[w]).batch)
        BY <3>1, <3>2 DEF ItemInv, RunInv, ResultRuns
      <3>4. filled' = FilledOf(Head(up[w]).batch)
        BY <2>1 DEF ServeValues
      <3> QED BY <1>1, <3>3, <3>4 DEF Ran, FilledOf
    <2>2. CASE ~ServeValues(w)
      <3>1. filled' = filled
        BY <2>2 DEF ServeHeader, ServeReady, ServeUndecodable, ServeError, ServeDrain
      <3> QED BY <3>1
    <2> QED BY <2>1, <2>2
  <1>8. NewTasks(w) /\ next <= next'
    <2>0. next \in Nat /\ N \in Nat /\ next <= N
      BY NextTypes DEF ItemInv
    <2>d. down \in [Remote -> Seq(Message)] /\ down[w] \in Seq(Message)
      BY LaneInvTypes, <1>t DEF HereTypes
    <2>1. CASE ServeReady(w) /\ Exhausted
      <3>1. down' = Send(down, w, Msg("STOP")) /\ next' = next
        BY <2>1 DEF ServeReady
      <3>2. down'[w] = Append(down[w], Msg("STOP"))
        BY <2>d, <3>1 DEF Send
      <3>3. Msg("STOP") \in Message /\ Msg("STOP").kind # "TASK"
        BY FrameType DEF Msg
      <3>4. NewTasks(w)
        BY <1>1, <2>d, <3>2, <3>3, SentIn DEF NewTasks
      <3> QED BY <2>0, <3>1, <3>4
    <2>2. CASE ServeReady(w) /\ ~Exhausted
      <3>1. down' = Send(down, w, Task(MakeBatch)) /\ next' = next + Cardinality(BatchItems)
        BY <2>2 DEF ServeReady, TakeBatch
      <3>2. down'[w] = Append(down[w], Task(MakeBatch))
        BY <2>d, <3>1 DEF Send
      <3>b. MakeBatch \in Batch
        BY MakeBatchReal DEF LaneInv, RequestInv, ChannelType
      <3>3. Task(MakeBatch) \in Message /\ Task(MakeBatch).batch = MakeBatch
        BY <3>b, FrameType DEF Task
      <3>4. FreshNext(MakeBatch)
        BY <1>1, NextFresh
      <3>5. NewTasks(w)
        BY <1>1, <2>d, <3>2, <3>3, <3>4, SentIn DEF NewTasks
      <3>6. Cardinality(BatchItems) \in Nat
        BY BatchRange DEF ItemInv, SlotInv, ItemTypes
      <3>7. next <= next'
        BY <2>0, <3>1, <3>6
      <3> QED BY <3>5, <3>7
    <2>3. CASE ~ServeReady(w)
      <3>1. down' = down /\ (next' = next \/ next' = N)
        BY <2>3 DEF ServeHeader, ServeValues, ServeUndecodable, ServeError, ServeDrain, AfterFailure
      <3>2. NewTasks(w)
        BY <1>1, <3>1 DEF NewTasks
      <3>3. next <= next'
        BY <2>0, <3>1
      <3> QED BY <3>2, <3>3
    <2> QED BY <2>1, <2>2, <2>3
  <1>9. next \in Nat /\ next' \in 0..N /\ N \in Nat
    BY <1>6, NextTypes DEF ItemInv, SlotInv, ItemTypes
  <1>10. next' \in Nat
    BY <1>9
  <1>11. \A v \in Remote : NewTasks(v) /\ NewResults(v)
    BY <1>4, <1>5, <1>8
  <1>12. RunInv'
    BY <1>2, <1>3, <1>7, <1>8, <1>9, <1>10, <1>11, RunsTogether DEF ItemInv
  <1> QED BY <1>6, <1>12 DEF ItemInv

\* What a worker receives moves on; what it sends is a result that it has.
LEMMA TasksMove ==
  ASSUME NEW w \in Remote, HereTypes(w),
         \/ /\ down'[w] = down[w]
            /\ fetched'[w] = fetched[w] \/ fetched'[w] = NotFetched
         \/ /\ down[w] # << >> /\ down'[w] = Tail(down[w])
            /\ fetched'[w] = fetched[w] \/ fetched'[w] = Head(down[w])
  PROVE  NewTasks(w)
  <1>1. NotFetched.kind # "TASK"
    BY DEF NotFetched, Msg
  <1>2. CASE down'[w] = down[w] /\ (fetched'[w] = fetched[w] \/ fetched'[w] = NotFetched)
    BY <1>1, <1>2 DEF NewTasks
  <1>3. CASE /\ down[w] # << >> /\ down'[w] = Tail(down[w])
             /\ fetched'[w] = fetched[w] \/ fetched'[w] = Head(down[w])
    <2>1. In(Head(down[w]), down[w]) /\ \A m : In(m, Tail(down[w])) => In(m, down[w])
      BY <1>3, TakenIn DEF HereTypes
    <2> QED BY <1>3, <2>1 DEF NewTasks
  <1> QED BY <1>2, <1>3

LEMMA ResultMoves ==
  ASSUME NEW w \in Remote, HereTypes(w), NEW m \in Message, up'[w] = Append(up[w], m),
         m.kind = "RESULT" /\ m.status = "ok" => Fine(m.batch) /\ RanNext(m.batch)
  PROVE  NewResults(w)
  <1>1. up[w] \in Seq(Message)
    BY DEF HereTypes
  <1> QED BY <1>1, SentIn DEF NewResults

\* send_worker_outcome sends values only for a batch without a failing item.
LEMMA AnswerMoves ==
  ASSUME LaneInv, NEW w \in Remote, Answers(w, job[w]), Fine(job[w]) => RanNext(job[w])
  PROVE  NewResults(w)
  <1> DEFINE b == job[w]
  <1>t. HereTypes(w) /\ b \in Batch /\ up \in [Remote -> Seq(Message)]
    BY LaneInvTypes DEF HereTypes
  <1>f. /\ Result(b, "ok") \in Message /\ Result(b, "error") \in Message
        /\ Result(b, "ok").batch = b /\ Result(b, "error").status = "error"
    BY <1>t, FrameType DEF Result
  <1>1. CASE BatchOutcome(b) = "ok" /\ up' = Send(up, w, Result(b, "ok"))
    <2>1. Fine(b) /\ RanNext(b)
      BY <1>1, <1>t, Outcomes
    <2>2. up'[w] = Append(up[w], Result(b, "ok"))
      BY <1>1, <1>t DEF Send
    <2> QED BY <1>t, <1>f, <2>1, <2>2, ResultMoves
  <1>2. CASE up' = Send(up, w, Result(b, "error"))
    <2>2. up'[w] = Append(up[w], Result(b, "error"))
      BY <1>2, <1>t DEF Send
    <2> QED BY <1>t, <1>f, <2>2, ResultMoves
  <1> QED BY <1>1, <1>2 DEF Answers

LEMMA WorkerStepItems ==
  ASSUME LaneInv, ItemInv, NEW w \in Remote, WorkerStep(w) PROVE ItemInv'
  <1>t. /\ HereTypes(w) /\ w \in Rank /\ w # Root
        /\ up \in [Remote -> Seq(Message)] /\ down \in [Remote -> Seq(Message)]
        /\ fetched \in [Remote -> Message] /\ workerPc \in [Remote -> WorkerPc]
        /\ job \in [Rank -> Batch] /\ jobDone \in [Rank -> BOOLEAN] /\ lane \in [Rank -> LaneRec]
    BY LaneInvTypes
  <1>w. WorkerLane(w) /\ JobRuns(w) /\ TaskRuns(w)
    BY <1>t DEF LaneInv, ItemInv, RunInv
  <1>o. OnlyAt(w)
    BY WorkerLaneStep
  <1>c. filled' = filled /\ failed' = failed /\ fate' = fate
    BY DEF WorkerStep, SendsReady, WorkerReceives, WorkerRuns, WorkerFetches, WorkerJoins,
           WorkerFlushes, WorkerDrains, WorkerDies, Abort, coordinatorVars
  <1>q. ASSUME runs' = runs
        PROVE  OthersKept /\ \A s \in Rank : RunsKept(job[s])
    BY <1>c, <1>q, QuietRuns, QuietJobs DEF ItemInv
  <1>m. /\ Msg("READY") \in Message /\ Msg("READY").kind # "RESULT"
        /\ Msg("DRAIN") \in Message /\ Msg("DRAIN").kind # "RESULT"
    BY FrameType DEF Msg
  <1>1. ASSUME NEW t \in {"READY", "DRAIN"}, up' = Send(up, w, Msg(t)),
               runs' = runs, job' = job, jobDone' = jobDone, fetched' = fetched, down' = down
        PROVE  ItemInv'
    <2>1. up'[w] = Append(up[w], Msg(t))
      BY <1>1, <1>t DEF Send
    <2>2. NewResults(w)
      BY <1>1, <1>t, <1>m, <2>1, ResultMoves
    <2>3. NewTasks(w)
      BY <1>1, <1>t, TasksMove
    <2>4. JobRuns(w)'
      BY <1>1, <1>c, <1>q, <1>t, <1>w, JobRunsKept
    <2> QED BY <1>1, <1>c, <1>o, <1>q, <2>2, <2>3, <2>4, WorkerItems
  <1>2. CASE SendsReady(w) \/ WorkerDrains(w)
    BY <1>1, <1>2 DEF SendsReady, WorkerDrains, jobVars
  <1>3. CASE WorkerReceives(w)
    <2> DEFINE m == Head(down[w])
    <2>1. /\ workerPc[w] = "wait" /\ down[w] # << >> /\ down' = Receive(down, w)
          /\ runs' = runs /\ jobDone' = jobDone /\ fetched' = fetched
      BY <1>3 DEF WorkerReceives
    <2>2. \/ m.kind = "TASK" /\ job' = [job EXCEPT ![w] = m.batch] /\ up' = up
          \/ m.kind = "TASK" /\ job' = job /\ up' = Send(up, w, Result(m.batch, "error"))
          \/ job' = job /\ up' = up
      BY <1>3 DEF WorkerReceives, AnswersUndecodable
    <2>3. down'[w] = Tail(down[w])
      BY <2>1, <1>t DEF Receive
    <2>4. NewTasks(w)
      BY <1>t, <2>1, <2>3, TasksMove
    <2>5. ~jobDone[w]
      BY <1>t, <1>w, <2>1, AnswerComes DEF NoJob
    <2>6. In(m, down[w])
      BY <1>t, <2>1, TakenIn DEF HereTypes
    <2>7. m.kind = "TASK" => FreshNext(m.batch)
      BY <1>w, <2>1, <2>6 DEF TaskRuns, Fresh, FreshNext
    <2>8. job'[w] = job[w] \/ (m.kind = "TASK" /\ job'[w] = m.batch)
      BY <2>2, <1>t
    <2>9. JobRuns(w)'
      <3>1. CASE job'[w] = job[w]
        BY <3>1, <1>c, <1>q, <1>t, <1>w, <2>1, JobRunsKept
      <3>2. CASE m.kind = "TASK" /\ job'[w] = m.batch
        BY <3>2, <1>t, <2>1, <2>5, <2>7, JobRunsGone
      <3> QED BY <2>8, <3>1, <3>2
    <2>10. NewResults(w)
      <3>1. CASE up' = up
        BY <3>1 DEF NewResults
      <3>2. CASE m.kind = "TASK" /\ up' = Send(up, w, Result(m.batch, "error"))
        <4>1. m.batch \in Batch
          BY <1>t, <2>1, HeadType DEF HereTypes
        <4>2. Result(m.batch, "error") \in Message /\ Result(m.batch, "error").status # "ok"
          BY <4>1, FrameType DEF Result
        <4>3. up'[w] = Append(up[w], Result(m.batch, "error"))
          BY <1>t, <3>2, ChannelSend
        <4> QED BY <1>t, <4>2, <4>3, ResultMoves
      <3> QED BY <2>2, <3>1, <3>2
    <2> QED BY <1>c, <1>o, <1>q, <2>1, <2>4, <2>9, <2>10, WorkerItems
  <1>4. CASE WorkerRuns(w)
    <2>1. /\ workerPc[w] = "run" /\ Answers(w, job[w]) /\ runs' = Called(job[w])
          /\ job' = [job EXCEPT ![w] = NoBatch]
          /\ down' = down /\ jobDone' = jobDone /\ fetched' = fetched
      BY <1>4 DEF WorkerRuns
    <2>2. ~jobDone[w]
      BY <1>w, <2>1 DEF WorkerLane, Phase, WithoutJob, WithJob, WithFetched
    <2>3. /\ OthersKept /\ \A s \in Rank : s # w => RunsKept(job[s])
          /\ Fine(job[w]) => RanNext(job[w])
      BY <1>c, <1>t, <2>1, <2>2, CallRuns DEF ItemInv
    <2>4. NewTasks(w)
      BY <1>t, <2>1, TasksMove
    <2>5. NewResults(w)
      BY <2>1, <2>3, AnswerMoves
    <2>6. job'[w] = NoBatch
      BY <1>t, <2>1
    <2>7. JobRuns(w)'
      BY <1>t, <2>1, <2>2, <2>6, NoBatchFresh, JobRunsGone
    <2> QED BY <1>c, <1>o, <2>3, <2>4, <2>5, <2>7, WorkerItems
  <1>5. CASE WorkerFetches(w)
    <2>1. /\ down[w] # << >> /\ down' = Receive(down, w)
          /\ fetched' = [fetched EXCEPT ![w] = Head(down[w])]
          /\ up' = up /\ runs' = runs /\ job' = job /\ jobDone' = jobDone
      BY <1>5 DEF WorkerFetches, jobVars
    <2>2. down'[w] = Tail(down[w]) /\ fetched'[w] = Head(down[w])
      BY <1>t, <2>1, ChannelSend
    <2>3. NewTasks(w)
      BY <1>t, <2>1, <2>2, TasksMove
    <2>4. NewResults(w)
      BY <2>1 DEF NewResults
    <2>5. JobRuns(w)'
      BY <1>c, <1>q, <1>t, <1>w, <2>1, JobRunsKept
    <2> QED BY <1>c, <1>o, <1>q, <2>1, <2>3, <2>4, <2>5, WorkerItems
  <1>6. CASE WorkerJoins(w)
    <2> DEFINE f == fetched[w]
               work == f.kind = "TASK" /\ ~Some(f.batch, "task undecodable")
    <2>1. /\ jobDone[w] /\ Answers(w, job[w]) /\ runs' = runs /\ down' = down
          /\ jobDone' = [jobDone EXCEPT ![w] = FALSE]
          /\ job' = [job EXCEPT ![w] = IF work THEN f.batch ELSE NoBatch]
          /\ fetched' = [fetched EXCEPT ![w] = IF f.kind = "TASK" /\ ~work THEN f ELSE NotFetched]
      BY <1>6 DEF WorkerJoins
    <2>2. /\ ~jobDone'[w] /\ (fetched'[w] = f \/ fetched'[w] = NotFetched)
          /\ (job'[w] = NoBatch \/ (f.kind = "TASK" /\ job'[w] = f.batch))
      BY <1>t, <2>1
    <2>3. NewTasks(w)
      BY <1>t, <2>1, <2>2, TasksMove
    <2>4. Fine(job[w]) => RanNext(job[w])
      BY <1>w, <2>1 DEF JobRuns, Ran, RanNext
    <2>5. NewResults(w)
      BY <2>1, <2>4, AnswerMoves
    <2>6. f.kind = "TASK" => FreshNext(f.batch)
      BY <1>w, <2>1 DEF TaskRuns, Fresh, FreshNext
    <2>7. FreshNext(job'[w])
      BY <2>2, <2>6, NoBatchFresh
    <2>8. JobRuns(w)'
      BY <1>t, <2>2, <2>7, JobRunsGone
    <2> QED BY <1>c, <1>o, <1>q, <2>1, <2>3, <2>5, <2>8, WorkerItems
  <1>7. CASE WorkerFlushes(w)
    <2>1. /\ up' = Send(up, w, Result(fetched[w].batch, "error"))
          /\ fetched' = [fetched EXCEPT ![w] = NotFetched]
          /\ down' = down /\ runs' = runs /\ job' = job /\ jobDone' = jobDone
      BY <1>7 DEF WorkerFlushes, AnswersUndecodable, jobVars
    <2>2. fetched[w].batch \in Batch
      BY <1>t DEF HereTypes, Message
    <2>3. /\ Result(fetched[w].batch, "error") \in Message
          /\ Result(fetched[w].batch, "error").status # "ok"
      BY <2>2, FrameType DEF Result
    <2>4. up'[w] = Append(up[w], Result(fetched[w].batch, "error")) /\ fetched'[w] = NotFetched
      BY <1>t, <2>1 DEF Send
    <2>5. NewResults(w)
      BY <1>t, <2>3, <2>4, ResultMoves
    <2>6. NewTasks(w)
      BY <1>t, <2>1, <2>4, TasksMove
    <2>7. JobRuns(w)'
      BY <1>c, <1>q, <1>t, <1>w, <2>1, JobRunsKept
    <2> QED BY <1>c, <1>o, <1>q, <2>1, <2>5, <2>6, <2>7, WorkerItems
  <1>8. CASE WorkerDies(w)
    <2>1. up' = up /\ down' = down /\ fetched' = fetched /\ runs' = runs /\ job' = job /\ jobDone' = jobDone
      BY <1>8 DEF WorkerDies, Abort, jobVars
    <2>2. NewResults(w) /\ NewTasks(w)
      BY <2>1 DEF NewResults, NewTasks
    <2>3. JobRuns(w)'
      BY <1>c, <1>q, <1>t, <1>w, <2>1, JobRunsKept
    <2> QED BY <1>c, <1>o, <1>q, <2>1, <2>2, <2>3, WorkerItems
  <1> QED BY <1>2, <1>3, <1>4, <1>5, <1>6, <1>7, <1>8 DEF WorkerStep

LEMMA ItemStep ==
  ASSUME LaneInv, ItemInv, [Next]_vars PROVE ItemInv'
  <1>1. ASSUME RootSettles \/ RootTakes \/ RootExecutes \/ HybridSpawns \/ HybridLocal \/ RootDies
                 \/ \E w \in Remote : RootRefuses(w)
        PROVE  ItemInv'
    BY <1>1, RootStepItems
  <1>2. ASSUME NEW w \in Remote, RootServes(w) \/ RootReceives(w) \/ HybridRemote(w)
        PROVE  ItemInv'
    BY <1>2, ServeItems DEF RootServes, RootReceives, HybridRemote
  <1>3. ASSUME NEW w \in Remote, WorkerStep(w) PROVE ItemInv'
    BY <1>3, WorkerStepItems
  <1>4. ASSUME NEW r \in Rank, PoolRuns(r) PROVE ItemInv'
    <2>1. /\ lane' = lane /\ next' = next /\ filled' = filled /\ failed' = failed /\ fate' = fate
          /\ up' = up /\ down' = down /\ fetched' = fetched /\ job' = job
          /\ ~jobDone[r] /\ runs' = Called(job[r]) /\ jobDone' = [jobDone EXCEPT ![r] = TRUE]
      BY <1>4 DEF PoolRuns, coordinatorVars
    <2>2. /\ OthersKept /\ \A s \in Rank : s # r => RunsKept(job[s])
          /\ Fine(job[r]) => RanNext(job[r])
      BY <2>1, CallRuns DEF ItemInv
    <2>3. jobDone'[r] /\ \A s \in Rank : s # r => jobDone'[s] = jobDone[s]
      BY <2>1 DEF LaneInv, LaneTypes
    <2>4. JobRuns(r)'
      BY <2>1, <2>2, <2>3 DEF JobRuns, Fine, Ran, RanNext
    <2>5. \A s \in Rank : s # r => JobRuns(s)'
      BY <2>1, <2>2, <2>3, JobRunsKept DEF ItemInv, RunInv
    <2>6. \A w \in Remote : NewTasks(w) /\ NewResults(w)
      BY <2>1 DEF NewTasks, NewResults
    <2>7. SlotInv'
      <3>1. SlotsStay
        BY <2>1, LaneSlots DEF SlotsStay
      <3> QED BY <2>1, <2>2, <3>1, SlotsStaySafe DEF ItemInv, OthersKept
    <2>8. next \in Nat /\ next' = next
      BY <2>1, NextTypes DEF ItemInv
    <2>9. next <= next' /\ next' \in Nat
      BY <2>8
    <2>10. RunInv'
      BY <2>1, <2>2, <2>4, <2>5, <2>6, <2>8, <2>9, RunsTogether DEF ItemInv
    <2> QED BY <2>7, <2>10 DEF ItemInv
  <1>5. CASE Converge \/ UNCHANGED vars
    <2>1. /\ lane' = lane /\ next' = next /\ filled' = filled /\ failed' = failed /\ fate' = fate
          /\ up' = up /\ down' = down /\ fetched' = fetched /\ job' = job /\ workerPc' = workerPc
          /\ jobDone' = jobDone /\ runs' = runs
      BY <1>5 DEF Converge, vars, coordinatorVars, jobVars
    <2>2. SlotsStay /\ \A w \in Remote : Same(w)
      BY <2>1, LaneSlots DEF SlotsStay, Same
    <2> QED BY <2>1, <2>2, RestItems
  <1> QED BY <1>1, <1>2, <1>3, <1>4, <1>5 DEF Next, RootStep

LEMMA ItemInit ==
  ASSUME Init PROVE ItemInv
  <1>1. \A r \in Rank, i \in Pair : Slot(r, i) = NoBatch
    BY LaneBuilds, FrameType DEF Init, Slot
  <1>2. next = 0 /\ N \in Nat /\ filled = {} /\ failed = FALSE /\ fate \in [Item -> Fate]
    BY PmapAssumption DEF Init
  <1>3. SlotInv
    <2>0. next \in 0..N /\ runs \in [Item -> Nat]
      BY <1>2 DEF Init
    <2>1. ItemTypes
      BY <1>2, <2>0 DEF ItemTypes
    <2>2. ItemsApart /\ ItemsOut /\ FilledOut
      BY <1>1, <1>2, NoItems DEF ItemsApart, ItemsOut, FilledOut
    <2>3. ItemsKept
      BY <1>2 DEF ItemsKept, Item
    <2> QED BY <2>1, <2>2, <2>3 DEF SlotInv
  <1>4. \A x \in Item : runs[x] = 0
    BY DEF Init
  <1>5. RunsOnce
    BY <1>2, <1>4 DEF RunsOnce
  <1>6. \A r \in Rank : JobRuns(r)
    BY NoItems DEF Init, JobRuns, Fresh
  <1>7. ASSUME NEW w \in Remote PROVE TaskRuns(w) /\ ResultRuns(w)
    <2>1. up[w] = << >> /\ down[w] = << >> /\ fetched[w] = NotFetched
      BY DEF Init
    <2>2. \A m : ~In(m, up[w]) /\ ~In(m, down[w])
      BY <2>1 DEF In
    <2>3. NotFetched.kind # "TASK"
      BY DEF NotFetched, Msg
    <2> QED BY <2>1, <2>2, <2>3 DEF TaskRuns, ResultRuns
  <1> QED BY <1>3, <1>5, <1>6, <1>7 DEF ItemInv, RunInv

-----------------------------------------------------------------------------
(* The keys of errors.                                                     *)

LEMMA SizeType == Size \in Nat \ {0} /\ N \in Nat
  BY PmapAssumption

LEMMA DivMod ==
  ASSUME NEW q \in Nat, NEW s \in Nat \ {0}, NEW r \in 0..(s - 1)
  PROVE  (q * s + r) % s = r /\ (q * s + r) \div s = q
  OBVIOUS

LEMMA RowsApart ==
  ASSUME NEW a \in Nat, NEW b \in Nat, NEW s \in Nat, a < b PROVE a * s + s <= b * s
  OBVIOUS

\* ErrorKey::new orders keys by item, then class, then rank, and each part can
\* be read back.
LEMMA KeyParts ==
  ASSUME NEW t \in Nat, NEW c \in {WireProtocol, Callback}, NEW r \in Rank
  PROVE  /\ ErrorKey(t, c, r) \in Nat
         /\ ErrorKey(t, c, r) % Size = r
         /\ TaskOf(ErrorKey(t, c, r)) = t /\ ClassOf(ErrorKey(t, c, r)) = c
  <1>1. Size \in Nat \ {0} /\ c \in 0..1 /\ r \in 0..(Size - 1)
    BY SizeType DEF WireProtocol, Callback, Rank
  <1>2. PICK q \in Nat : q = t * 3 + c
    BY <1>1
  <1>3. ErrorKey(t, c, r) = q * Size + r
    BY <1>2 DEF ErrorKey
  <1>p. q * Size \in Nat
    BY <1>1, <1>2
  <1>4. (q * Size + r) % Size = r /\ (q * Size + r) \div Size = q
    BY <1>1, <1>2, DivMod
  <1>5. q % 3 = c
    BY <1>1, <1>2
  <1>6. PICK S \in Nat \ {0} : S = 3 * Size
    BY <1>1
  <1>7. PICK d \in Nat : d = c * Size + r /\ d <= S - 1
    <2>1. c = 0 \/ c = 1
      BY <1>1
    <2> QED BY <1>1, <1>6, <2>1
  <1>8. q * Size + r = t * S + d
    BY <1>1, <1>2, <1>6, <1>7
  <1>9. (t * S + d) \div S = t
    BY <1>6, <1>7, DivMod
  <1> QED BY <1>1, <1>3, <1>4, <1>5, <1>6, <1>8, <1>9, <1>p DEF TaskOf, ClassOf

LEMMA KeyOrder ==
  ASSUME NEW a \in Nat, NEW b \in Nat, a < b,
         NEW c \in {WireProtocol, Callback}, NEW d \in {WireProtocol, Callback},
         NEW r \in Rank, NEW s \in Rank
  PROVE  ErrorKey(a, c, r) < ErrorKey(b, d, s)
  <1>1. Size \in Nat \ {0} /\ c \in 0..1 /\ d \in 0..1 /\ r \in 0..(Size - 1) /\ s \in 0..(Size - 1)
    BY SizeType DEF WireProtocol, Callback, Rank
  <1>2. PICK p \in Nat, q \in Nat : p = a * 3 + c /\ q = b * 3 + d
    BY <1>1
  <1>3. p < q
    BY <1>1, <1>2
  <1>4. p * Size + Size <= q * Size
    BY <1>1, <1>3, RowsApart
  <1>5. ErrorKey(a, c, r) = p * Size + r /\ ErrorKey(b, d, s) = q * Size + s
    BY <1>2 DEF ErrorKey
  <1>6. p * Size \in Nat /\ q * Size \in Nat
    BY <1>1
  <1> QED BY <1>1, <1>4, <1>5, <1>6

LEMMA KeyBelow ==
  ASSUME NEW t \in 0..N, NEW c \in {WireProtocol, Callback}, NEW r \in Rank
  PROVE  ErrorKey(t, c, r) < NoErrorKey /\ NoErrorKey \in Nat
  <1>1. N \in Nat /\ 0 \in Rank /\ 0 = WireProtocol
    BY SizeType DEF Rank, WireProtocol
  <1>2. t < N + 1 /\ N + 1 \in Nat /\ t \in Nat
    BY <1>1
  <1>3. ErrorKey(t, c, r) < ErrorKey(N + 1, WireProtocol, 0)
    BY <1>1, <1>2, KeyOrder
  <1>4. ErrorKey(N + 1, WireProtocol, 0) \in Nat
    BY <1>1, <1>2, KeyParts
  <1> QED BY <1>1, <1>3, <1>4 DEF NoErrorKey

-----------------------------------------------------------------------------
(* What the ranks note of errors.                                          *)

Class == {WireProtocol, Callback}
Key(r, t, c) == localKey[r] = ErrorKey(t, c, r)

\* A rank's key is its own, and goes with the kind it will report.
Owned(r) ==
  /\ localError[r] \in {"none", "User", "Wire"}
  /\ localKey[r] = NoErrorKey <=> localError[r] = "none"
  /\ localKey[r] # NoErrorKey => \E t \in 0..N, c \in Class : Key(r, t, c)
\* A failed run, and a result that reports an error, have somebody's key.
FailureNoted == failed => \E r \in Rank : localKey[r] # NoErrorKey
ResultsNoted(w) ==
  \A m : In(m, up[w]) /\ m.kind = "RESULT" =>
    /\ m.status \in {"ok", "error"}
    /\ m.status = "error" => localKey[w] # NoErrorKey
\* A prefetched batch is set aside only because it did not decode.
Flushing(w) == workerPc[w] = "flush" => Some(fetched[w].batch, "task undecodable")
NoteTypes == localKey \in [Rank -> Nat] /\ localError \in [Rank -> {"none", "User", "Wire"}]
NoteInv ==
  /\ NoteTypes /\ FailureNoted
  /\ \A r \in Rank : Owned(r)
  /\ \A w \in Remote : ResultsNoted(w) /\ Flushing(w)

\* When only callbacks fail: a key blames a failing item that was handed out,
\* and the first failing item of the input is pending, in a slot, or blamed.
CallbackFates == \A x \in Item : fate[x] \in {"ok", "error"}
Bad(x) == x \in Item /\ fate[x] = "error"
First(x) == Bad(x) /\ \A y \in Item : Bad(y) => x <= y
Blamed(r) ==
  localKey[r] # NoErrorKey =>
    /\ localError[r] = "User"
    /\ \E t \in Item : Bad(t) /\ t < next /\ Key(r, t, Callback)
ResultBlamed(w) ==
  \A m : In(m, up[w]) /\ m.kind = "RESULT" =>
    \A x \in Item : First(x) /\ x \in m.batch.items => Key(w, x, Callback)
FirstFound ==
  \A x \in Item : First(x) =>
    \/ ~failed /\ x >= next
    \/ \E r \in Rank, i \in Pair : x \in Slot(r, i).items
    \/ \E r \in Rank : Key(r, x, Callback)
BlameInv ==
  CallbackFates =>
    /\ FirstFound
    /\ \A r \in Rank : Blamed(r)
    /\ \A w \in Remote : ResultBlamed(w)

\* How a rank notes an error with this key.
Notes(r, key, kind) ==
  /\ localKey'[r] = Lowered(localKey[r], key)
  /\ localError'[r] = kind \/ (localError'[r] = localError[r] /\ ~(key < localKey[r]))
  /\ \A s \in Rank : s # r => localKey'[s] = localKey[s] /\ localError'[s] = localError[s]

LEMMA NoteEffect ==
  ASSUME NoteTypes, NEW r \in Rank, NEW key \in Nat, NEW kind \in {"User", "Wire"},
         Overwrite(r, key, kind) \/ KeepLowest(r, key, kind)
  PROVE  NoteTypes' /\ Notes(r, key, kind)
  <1>1. localKey' = [localKey EXCEPT ![r] = Lowered(@, key)]
    BY DEF Overwrite, KeepLowest
  <1>2. Lowered(localKey[r], key) \in Nat
    BY DEF NoteTypes, Lowered
  <1>3. localKey' \in [Rank -> Nat] /\ localKey'[r] = Lowered(localKey[r], key)
        /\ \A s \in Rank : s # r => localKey'[s] = localKey[s]
    BY <1>1, <1>2 DEF NoteTypes
  <1>4. PICK e \in {"none", "User", "Wire"} :
          /\ localError' = [localError EXCEPT ![r] = e]
          /\ e = kind \/ (e = localError[r] /\ ~(key < localKey[r]))
    BY DEF Overwrite, KeepLowest, NoteTypes
  <1> QED BY <1>3, <1>4 DEF NoteTypes, Notes

\* The keys of a run without errors of another kind.
NoteStep ==
  \/ localKey' = localKey /\ localError' = localError
  \/ \E r \in Rank, t \in 0..N, c \in Class, kind \in {"User", "Wire"} :
       /\ Notes(r, ErrorKey(t, c, r), kind)
       /\ CallbackFates => kind = "User" /\ c = Callback /\ Bad(t) /\ t < next

LEMMA NotedOwned ==
  ASSUME NoteInv, NoteStep, NoteTypes'
  PROVE  /\ \A r \in Rank : Owned(r)'
         /\ \A r \in Rank : localKey[r] # NoErrorKey => localKey'[r] # NoErrorKey
  <1>1. CASE localKey' = localKey /\ localError' = localError
    BY <1>1 DEF NoteInv, Owned, Key
  <1>2. ASSUME NEW r \in Rank, NEW t \in 0..N, NEW c \in Class, NEW kind \in {"User", "Wire"},
               Notes(r, ErrorKey(t, c, r), kind)
        PROVE  /\ \A s \in Rank : Owned(s)'
               /\ \A s \in Rank : localKey[s] # NoErrorKey => localKey'[s] # NoErrorKey
    <2>1. \A s \in Rank : s # r => localKey'[s] = localKey[s] /\ localError'[s] = localError[s]
      BY <1>2 DEF Notes
    <2>2. \A s \in Rank : s # r => Owned(s)'
      BY <2>1 DEF NoteInv, Owned, Key
    <2>3. ErrorKey(t, c, r) < NoErrorKey /\ NoErrorKey \in Nat
      BY KeyBelow DEF Class
    <2>n. localKey[r] \in Nat /\ Owned(r)
      BY DEF NoteInv, NoteTypes
    <2>k. PICK key \in Nat : key = ErrorKey(t, c, r)
      <3>1. t \in Nat
        BY SizeType
      <3> QED BY <3>1, KeyParts DEF Class
    <2>4. CASE key < localKey[r]
      <3>1. localKey'[r] = key /\ localError'[r] = kind
        BY <1>2, <2>k, <2>4 DEF Notes, Lowered
      <3>2. localKey'[r] # NoErrorKey /\ Key(r, t, c)'
        BY <2>3, <2>k, <3>1 DEF Key
      <3>3. Owned(r)'
        BY <3>1, <3>2 DEF Owned
      <3> QED BY <2>1, <2>2, <3>2, <3>3
    <2>5. CASE ~(key < localKey[r])
      <3>1. localKey'[r] = localKey[r] /\ (localError'[r] = kind \/ localError'[r] = localError[r])
        BY <1>2, <2>k, <2>5 DEF Notes, Lowered
      <3>2. localKey[r] # NoErrorKey
        BY <2>3, <2>5, <2>k
      <3>3. localError'[r] \in {"User", "Wire"}
        BY <2>n, <3>1, <3>2 DEF Owned
      <3>4. Owned(r)'
        BY <2>n, <3>1, <3>2, <3>3 DEF Owned, Key
      <3> QED BY <2>1, <2>2, <3>1, <3>2, <3>4
    <2> QED BY <2>4, <2>5
  <1> QED BY <1>1, <1>2 DEF NoteStep

\* No key of a failing item rises over that of the first one.
LEMMA NotedBlamed ==
  ASSUME NoteInv, BlameInv, NoteStep, NoteTypes', fate' = fate, CallbackFates,
         next \in Nat, next' \in Nat, next <= next'
  PROVE  /\ \A r \in Rank : Blamed(r)'
         /\ \A r \in Rank : \A x \in Item : First(x) /\ Key(r, x, Callback) => Key(r, x, Callback)'
  <1>n. \A t \in Item : t \in Nat /\ (t < next => t < next')
    BY DEF Item
  <1>b. \A r \in Rank : Blamed(r)
    BY DEF BlameInv
  <1>s. ASSUME NEW s \in Rank, localKey'[s] = localKey[s], localError'[s] = localError[s]
        PROVE  Blamed(s)' /\ \A x \in Item : Key(s, x, Callback) => Key(s, x, Callback)'
    BY <1>b, <1>n, <1>s DEF Blamed, Bad, Key
  <1>1. CASE localKey' = localKey /\ localError' = localError
    BY <1>1, <1>s
  <1>2. ASSUME NEW r \in Rank, NEW t \in 0..N, Bad(t), t < next, Notes(r, ErrorKey(t, Callback, r), "User")
        PROVE  /\ \A s \in Rank : Blamed(s)'
               /\ \A s \in Rank : \A x \in Item : First(x) /\ Key(s, x, Callback) => Key(s, x, Callback)'
    <2>1. \A s \in Rank : s # r => Blamed(s)' /\ \A x \in Item : Key(s, x, Callback) => Key(s, x, Callback)'
      BY <1>2, <1>s DEF Notes
    <2>i. t \in Item /\ t \in Nat /\ Callback \in Class /\ localKey[r] \in Nat
      BY <1>2, <1>n DEF Bad, Class, NoteInv, NoteTypes
    <2>k. PICK key \in Nat : key = ErrorKey(t, Callback, r)
      BY <2>i, KeyParts DEF Class
    <2>e. key < NoErrorKey /\ NoErrorKey \in Nat
      BY <2>i, <2>k, KeyBelow DEF Class
    <2>2. Blamed(r)'
      <3>1. CASE key < localKey[r]
        <4>1. localKey'[r] = key /\ localError'[r] = "User"
          BY <1>2, <2>k, <3>1 DEF Notes, Lowered
        <4>2. Key(r, t, Callback)' /\ Bad(t)' /\ t < next'
          BY <1>2, <1>n, <2>i, <2>k, <4>1 DEF Key, Bad
        <4> QED BY <2>i, <4>1, <4>2 DEF Blamed
      <3>2. CASE ~(key < localKey[r])
        <4>1. localKey'[r] = localKey[r] /\ (localError'[r] = "User" \/ localError'[r] = localError[r])
          BY <1>2, <2>k, <3>2 DEF Notes, Lowered
        <4>2. localKey[r] # NoErrorKey
          BY <2>e, <3>2
        <4>3. localError[r] = "User"
          BY <1>b, <4>2 DEF Blamed
        <4> QED BY <1>s, <4>1, <4>3
      <3> QED BY <3>1, <3>2
    <2>3. ASSUME NEW x \in Item, First(x), Key(r, x, Callback) PROVE Key(r, x, Callback)'
      <3>1. x <= t /\ x \in Nat
        BY <1>2, <1>n, <2>3, <2>i DEF First
      <3>2. x = t \/ x < t
        BY <2>i, <3>1
      <3>3. x < t => ErrorKey(x, Callback, r) < ErrorKey(t, Callback, r)
        BY <2>i, <3>1, KeyOrder DEF Class
      <3>4. localKey[r] = key \/ localKey[r] < key
        BY <2>3, <2>k, <3>2, <3>3 DEF Key
      <3>5. ~(key < localKey[r])
        BY <2>i, <2>k, <3>4
      <3>6. localKey'[r] = localKey[r]
        BY <1>2, <2>k, <3>5 DEF Notes, Lowered
      <3> QED BY <2>3, <3>6 DEF Key
    <2> QED BY <2>1, <2>2, <2>3
  <1> QED BY <1>1, <1>2 DEF NoteStep

\* A rank that notes the first failing item has its key from then on.
LEMMA FirstKey ==
  ASSUME NoteInv, BlameInv, CallbackFates, NEW r \in Rank, NEW x \in Item, First(x),
         Notes(r, ErrorKey(x, Callback, r), "User")
  PROVE  Key(r, x, Callback)'
  <1>1. x \in Nat /\ Callback \in Class /\ localKey[r] \in Nat
    BY DEF Item, Class, NoteInv, NoteTypes
  <1>2. PICK key \in Nat : key = ErrorKey(x, Callback, r)
    BY <1>1, KeyParts DEF Class
  <1>3. x \in 0..N
    BY SizeType DEF Item
  <1>4. key < NoErrorKey /\ NoErrorKey \in Nat
    BY <1>1, <1>2, <1>3, KeyBelow DEF Class
  <1>5. key <= localKey[r]
    <2>1. CASE localKey[r] = NoErrorKey
      BY <1>4, <2>1
    <2>2. CASE localKey[r] # NoErrorKey
      <3>1. PICK t \in Item : Bad(t) /\ Key(r, t, Callback)
        BY <2>2 DEF BlameInv, Blamed
      <3>2. x <= t /\ t \in Nat
        BY <3>1 DEF First, Item
      <3>3. x = t \/ x < t
        BY <1>1, <3>2
      <3>4. x < t => ErrorKey(x, Callback, r) < ErrorKey(t, Callback, r)
        BY <1>1, <3>2, KeyOrder DEF Class
      <3>5. key = localKey[r] \/ key < localKey[r]
        BY <1>2, <3>1, <3>3, <3>4 DEF Key
      <3> QED BY <1>1, <3>5
    <2> QED BY <2>1, <2>2
  <1>6. localKey'[r] = key
    BY <1>1, <1>2, <1>5 DEF Notes, Lowered
  <1> QED BY <1>2, <1>6 DEF Key

\* Where the first failing item is after a step.
Credited(r) ==
  /\ \A x \in Item : First(x) /\ x \in Slot(r, 1).items => Key(r, x, Callback)'
  /\ AfterFailure => failed \/ \E t \in Item : Bad(t) /\ t < next
SlotMove ==
  \/ SlotsStay
  \/ \E r \in Rank, i \in Pair : SlotTaken(r, i)
  \/ \E r \in Rank : SlotFreed(r) /\ Credited(r)

LEMMA FoundKept ==
  ASSUME SlotInv, FirstFound, SlotMove, fate' = fate,
         \A r \in Rank : \A x \in Item : First(x) /\ Key(r, x, Callback) => Key(r, x, Callback)'
  PROVE  FirstFound'
  <1>f. \A x \in Item : First(x)' => First(x)
    BY DEF First, Bad
  <1> SUFFICES ASSUME NEW x \in Item, First(x)
               PROVE  \/ ~failed' /\ x >= next'
                      \/ \E r \in Rank, i \in Pair : x \in Slot(r, i)'.items
                      \/ \E r \in Rank : Key(r, x, Callback)'
    BY <1>f DEF FirstFound
  <1>n. next \in Nat /\ N \in Nat /\ x \in Nat
    BY NextTypes DEF Item
  <1>1. \/ ~failed /\ x >= next
        \/ \E r \in Rank, i \in Pair : x \in Slot(r, i).items
        \/ \E r \in Rank : Key(r, x, Callback)'
    BY DEF FirstFound
  <1>2. CASE SlotsStay
    BY <1>1, <1>2 DEF SlotsStay
  <1>3. ASSUME NEW r \in Rank, NEW i \in Pair, SlotTaken(r, i)
        PROVE  \/ ~failed' /\ x >= next'
               \/ \E s \in Rank, j \in Pair : x \in Slot(s, j)'.items
               \/ \E s \in Rank : Key(s, x, Callback)'
    <2>1. ASSUME NEW s \in Rank, NEW j \in Pair, x \in Slot(s, j).items PROVE x \in Slot(s, j)'.items
      <3>1. <<s, j>> # <<r, i>>
        BY <1>3, <2>1, NoItems DEF SlotTaken
      <3> QED BY <1>3, <2>1, <3>1 DEF SlotTaken
    <2>2. ASSUME ~failed, x >= next PROVE (~failed' /\ x >= next') \/ x \in Slot(r, i)'.items
      <3>0. next \in 0..N
        BY DEF SlotInv, ItemTypes
      <3>1. /\ next' = next + Cardinality(BatchItems) /\ failed' = failed /\ Slot(r, i)'.items = BatchItems
        BY <1>3, NoItems DEF SlotTaken, TakeBatch
      <3>2. /\ x \in BatchItems <=> next <= x /\ x < next + Cardinality(BatchItems)
            /\ Cardinality(BatchItems) \in Nat
        BY <3>0, BatchRange
      <3> QED BY <1>n, <2>2, <3>1, <3>2
    <2> QED BY <1>1, <2>1, <2>2
  <1>4. ASSUME NEW r \in Rank, SlotFreed(r), Credited(r)
        PROVE  \/ ~failed' /\ x >= next'
               \/ \E s \in Rank, j \in Pair : x \in Slot(s, j)'.items
               \/ \E s \in Rank : Key(s, x, Callback)'
    <2>1. ASSUME NEW s \in Rank, NEW j \in Pair, x \in Slot(s, j).items
          PROVE  x \in Slot(s, 1)'.items \/ x \in Slot(s, j)'.items \/ Key(s, x, Callback)'
      BY <1>4, <2>1 DEF SlotFreed, Credited, Pair
    <2>2. ASSUME ~failed, x >= next PROVE ~failed' /\ x >= next'
      <3>1. CASE AfterFailure
        <4>1. PICK t \in Item : Bad(t) /\ t < next
          BY <1>4, <2>2, <3>1 DEF Credited
        <4>2. x <= t /\ t \in Nat
          BY <4>1 DEF First, Item
        <4> QED BY <1>n, <2>2, <4>1, <4>2
      <3>2. CASE next' = next /\ failed' = failed
        BY <2>2, <3>2
      <3> QED BY <1>4, <3>1, <3>2 DEF SlotFreed
    <2>p. 1 \in Pair
      BY DEF Pair
    <2> QED BY <1>1, <2>1, <2>2, <2>p
  <1> QED BY <1>2, <1>3, <1>4 DEF SlotMove

\* Putting the parts together again after a step.
NewNotes(w) ==
  \A m : In(m, up'[w]) /\ m.kind = "RESULT" =>
    \/ In(m, up[w])
    \/ /\ m.status \in {"ok", "error"}
       /\ m.status = "error" => localKey'[w] # NoErrorKey
       /\ CallbackFates => \A x \in Item : First(x) /\ x \in m.batch.items => Key(w, x, Callback)'

ErrorInv == NoteInv /\ BlameInv

LEMMA NotesTogether ==
  ASSUME ErrorInv, SlotInv, NoteStep, NoteTypes', fate' = fate,
         next \in Nat, next' \in Nat, next <= next',
         failed' => failed \/ \E r \in Rank : localKey'[r] # NoErrorKey,
         CallbackFates => SlotMove,
         \A w \in Remote : NewNotes(w) /\ Flushing(w)'
  PROVE  ErrorInv'
  <1>1. /\ \A r \in Rank : Owned(r)'
        /\ \A r \in Rank : localKey[r] # NoErrorKey => localKey'[r] # NoErrorKey
    BY NotedOwned DEF ErrorInv
  <1>2. FailureNoted'
    BY <1>1 DEF ErrorInv, NoteInv, FailureNoted
  <1>3. ASSUME NEW w \in Remote PROVE ResultsNoted(w)'
    <2> SUFFICES ASSUME NEW m, In(m, up'[w]), m.kind = "RESULT"
                 PROVE  m.status \in {"ok", "error"} /\ (m.status = "error" => localKey'[w] # NoErrorKey)
      BY DEF ResultsNoted, In
    <2>1. CASE In(m, up[w])
      <3>1. m.status \in {"ok", "error"} /\ (m.status = "error" => localKey[w] # NoErrorKey)
        BY <2>1 DEF ErrorInv, NoteInv, ResultsNoted
      <3> QED BY <1>1, <3>1 DEF Remote
    <2> QED BY <2>1 DEF NewNotes
  <1>4. NoteInv'
    BY <1>1, <1>2, <1>3 DEF NoteInv
  <1>5. ASSUME CallbackFates'
        PROVE  FirstFound' /\ (\A r \in Rank : Blamed(r)') /\ \A w \in Remote : ResultBlamed(w)'
    <2>1. CallbackFates
      BY <1>5 DEF CallbackFates
    <2>2. /\ \A r \in Rank : Blamed(r)'
          /\ \A r \in Rank : \A x \in Item : First(x) /\ Key(r, x, Callback) => Key(r, x, Callback)'
      BY <2>1, NotedBlamed DEF ErrorInv
    <2>3. FirstFound'
      BY <2>1, <2>2, FoundKept DEF ErrorInv, BlameInv
    <2>4. ASSUME NEW w \in Remote PROVE ResultBlamed(w)'
      <3>f. \A x \in Item : First(x)' => First(x)
        BY DEF First, Bad
      <3> SUFFICES ASSUME NEW m, In(m, up'[w]), m.kind = "RESULT",
                          NEW x \in Item, First(x), x \in m.batch.items
                   PROVE  Key(w, x, Callback)'
        BY <3>f DEF ResultBlamed, In
      <3>1. CASE In(m, up[w])
        <4>1. Key(w, x, Callback)
          BY <2>1, <3>1 DEF ErrorInv, BlameInv, ResultBlamed
        <4> QED BY <2>2, <4>1 DEF Remote
      <3> QED BY <2>1, <3>1 DEF NewNotes
    <2> QED BY <2>2, <2>3, <2>4
  <1> QED BY <1>4, <1>5 DEF ErrorInv, BlameInv

\* A failure reports the first failing item of its batch.
LEMMA FailedFirst ==
  ASSUME NEW b \in Batch, BatchOutcome(b) = "error"
  PROVE  /\ FailedIndex(b) \in b.items /\ Bad(FailedIndex(b))
         /\ \A x \in b.items : First(x) => FailedIndex(b) = x
  <1> DEFINE S == {i \in b.items : fate[i] = "error"}
  <1>1. b.items \subseteq Item /\ Item \subseteq Nat
    BY DEF Batch, Item
  <1>2. S # {} /\ S \subseteq Nat
    BY <1>1, Outcomes
  <1>3. MinOf(S) \in S /\ \A y \in S : MinOf(S) <= y
    BY <1>2, LeastItem
  <1>4. FailedIndex(b) = MinOf(S)
    BY DEF FailedIndex
  <1>5. FailedIndex(b) \in b.items /\ Bad(FailedIndex(b))
    BY <1>1, <1>3, <1>4 DEF Bad
  <1>6. ASSUME NEW x \in b.items, First(x) PROVE FailedIndex(b) = x
    <2>1. x \in S
      BY <1>6 DEF First, Bad
    <2>2. MinOf(S) <= x /\ MinOf(S) \in Nat /\ x \in Nat
      BY <1>2, <1>3, <2>1
    <2>3. x <= MinOf(S)
      BY <1>1, <1>4, <1>5, <1>6 DEF First
    <2> QED BY <1>4, <2>2, <2>3
  <1> QED BY <1>5, <1>6

LEMMA FineNotFirst ==
  ASSUME NEW b, Fine(b) PROVE \A x \in b.items : ~First(x)
  BY DEF Fine, First, Bad

\* What a rank notes of a failed job, and of a batch that did not decode.
LEMMA JobNoted ==
  ASSUME LaneInv, SlotInv, NoteInv, NEW r \in Rank, BatchOutcome(job[r]) = "error",
         NEW key, key = ErrorKey(FailedIndex(job[r]), Callback, r),
         Overwrite(r, key, "User") \/ KeepLowest(r, key, "User")
  PROVE  /\ NoteStep /\ NoteTypes' /\ Notes(r, key, "User")
         /\ FailedIndex(job[r]) \in Item /\ Bad(FailedIndex(job[r])) /\ FailedIndex(job[r]) < next
  <1> DEFINE t == FailedIndex(job[r])
  <1>1. job[r] \in Batch
    BY DEF LaneInv, RequestInv, ChannelType
  <1>2. t \in job[r].items /\ Bad(t)
    BY <1>1, FailedFirst
  <1>3. t \in Item /\ t < next
    BY <1>2, JobOut
  <1> HIDE DEF t
  <1>4. t \in Nat /\ t \in 0..N /\ Callback \in Class
    BY <1>3, SizeType DEF Item, Class
  <1>5. key = ErrorKey(t, Callback, r) /\ key \in Nat
    BY <1>4, KeyParts DEF Class, t
  <1>6. NoteTypes' /\ Notes(r, key, "User")
    BY <1>5, NoteEffect DEF NoteInv
  <1>7. NoteStep
    BY <1>2, <1>3, <1>4, <1>5, <1>6 DEF NoteStep
  <1> QED BY <1>2, <1>3, <1>6, <1>7 DEF t

LEMMA WireNoted ==
  ASSUME NoteInv, NEW r \in Rank, NEW t \in 0..N, ~CallbackFates,
         NEW key, key = ErrorKey(t, WireProtocol, r),
         Overwrite(r, key, "Wire") \/ KeepLowest(r, key, "Wire")
  PROVE  NoteStep /\ NoteTypes' /\ localKey'[r] # NoErrorKey
  <1>1. t \in Nat /\ WireProtocol \in Class
    BY SizeType DEF Class
  <1>2. key \in Nat /\ key < NoErrorKey /\ NoErrorKey \in Nat
    BY <1>1, KeyParts, KeyBelow DEF Class
  <1>3. NoteTypes' /\ Notes(r, key, "Wire")
    BY <1>2, NoteEffect DEF NoteInv
  <1>4. NoteStep
    BY <1>1, <1>3 DEF NoteStep
  <1>5. localKey[r] \in Nat /\ localKey'[r] = IF key < localKey[r] THEN key ELSE localKey[r]
    BY <1>3 DEF Notes, Lowered, NoteInv, NoteTypes
  <1>6. localKey'[r] # NoErrorKey
    BY <1>2, <1>5
  <1> QED BY <1>3, <1>4, <1>6

LEMMA NotedKey ==
  ASSUME NoteInv, NEW r \in Rank, NEW t \in Item, NEW kind, Notes(r, ErrorKey(t, Callback, r), kind)
  PROVE  localKey'[r] # NoErrorKey
  <1>1. t \in Nat /\ t \in 0..N
    BY SizeType DEF Item
  <1>2. PICK key \in Nat : key = ErrorKey(t, Callback, r)
    BY <1>1, KeyParts
  <1>3. key < NoErrorKey /\ NoErrorKey \in Nat
    BY <1>1, <1>2, KeyBelow
  <1>4. localKey[r] \in Nat /\ localKey'[r] = IF key < localKey[r] THEN key ELSE localKey[r]
    BY <1>2 DEF Notes, Lowered, NoteInv, NoteTypes
  <1> QED BY <1>3, <1>4

\* The workers' results and fetched batches are as they were.
LEMMA SameNotes ==
  ASSUME NEW v \in Remote, Same(v), fate' = fate, NoteInv PROVE NewNotes(v) /\ Flushing(v)'
  <1>1. Flushing(v)
    BY DEF NoteInv
  <1> QED BY <1>1 DEF Same, NewNotes, Flushing, Some

\* A step that notes nothing.
LEMMA QuietNotes ==
  ASSUME ErrorInv, localKey' = localKey, localError' = localError PROVE NoteStep /\ NoteTypes'
  BY DEF NoteStep, NoteTypes, ErrorInv, NoteInv

LEMMA FinishErrors ==
  ASSUME LaneInv, ItemInv, ErrorInv, RootAlone, FinishRootBatch(job[Root]), fate' = fate PROVE ErrorInv'
  <1> DEFINE b == job[Root]
  <1>s. \A w \in Remote : NewNotes(w) /\ Flushing(w)'
    BY SameNotes DEF RootAlone, ErrorInv
  <1>r. Root \in Rank /\ b \in Batch
    BY RootInRank, RootLaneJob
  <1>n. next \in Nat /\ N \in Nat /\ next <= N /\ (next' = next \/ next' = N)
    BY NextTypes DEF ItemInv, FinishRootBatch, AfterFailure
  <1>m. next' \in Nat /\ next <= next'
    BY <1>n
  <1>f. SlotFreed(Root) /\ b = Slot(Root, 1)
    BY FinishSlots
  <1>1. CASE BatchOutcome(b) = "ok" /\ failed' = failed /\ localKey' = localKey /\ localError' = localError
    <2>1. \A x \in b.items : ~First(x)
      BY <1>1, <1>r, Outcomes, FineNotFirst
    <2>2. Credited(Root)
      BY <1>1, <1>f, <2>1 DEF Credited, AfterFailure
    <2>3. SlotMove
      BY <1>f, <1>r, <2>2 DEF SlotMove
    <2> QED BY <1>1, <1>m, <1>n, <1>s, <2>3, QuietNotes, NotesTogether DEF ItemInv
  <1>2. CASE /\ BatchOutcome(b) = "error"
             /\ Overwrite(Root, ErrorKey(FailedIndex(b), Callback, Root), "User")
    <2> DEFINE t == FailedIndex(b)
    <2>1. /\ NoteStep /\ NoteTypes' /\ Notes(Root, ErrorKey(t, Callback, Root), "User")
          /\ t \in Item /\ Bad(t) /\ t < next
      BY <1>2, <1>r, JobNoted DEF ItemInv, ErrorInv
    <2>2. \A x \in b.items : First(x) => t = x
      BY <1>2, <1>r, FailedFirst
    <2>3. localKey'[Root] # NoErrorKey
      BY <1>r, <2>1, NotedKey DEF ErrorInv
    <2>4. ASSUME CallbackFates PROVE SlotMove
      <3>1. ASSUME NEW x \in Item, First(x), x \in Slot(Root, 1).items PROVE Key(Root, x, Callback)'
        BY <1>f, <1>r, <2>1, <2>2, <2>4, <3>1, FirstKey DEF ErrorInv
      <3>2. Credited(Root)
        BY <2>1, <3>1 DEF Credited
      <3> QED BY <1>f, <1>r, <3>2 DEF SlotMove
    <2> QED BY <1>m, <1>n, <1>r, <1>s, <2>1, <2>3, <2>4, NotesTogether DEF ItemInv
  <1> QED BY <1>1, <1>2 DEF FinishRootBatch, errorVars

\* Without a note and without a failure, the first failing item stays put.
LEMMA RestErrors ==
  ASSUME ItemInv, ErrorInv, SlotsStay \/ \E r \in Rank, i \in Pair : SlotTaken(r, i),
         localKey' = localKey, localError' = localError, failed' = failed, fate' = fate,
         \A w \in Remote : NewNotes(w) /\ Flushing(w)'
  PROVE  ErrorInv'
  <1>0. next \in Nat /\ N \in Nat /\ next \in 0..N
    BY NextTypes DEF ItemInv, SlotInv, ItemTypes
  <1>1. next' = next \/ next' = next + Cardinality(BatchItems)
    BY DEF SlotsStay, SlotTaken, TakeBatch
  <1>2. Cardinality(BatchItems) \in Nat
    BY <1>0, BatchRange
  <1>3. next' \in Nat /\ next <= next'
    BY <1>0, <1>1, <1>2
  <1>4. SlotMove
    BY DEF SlotMove
  <1> QED BY <1>0, <1>3, <1>4, QuietNotes, NotesTogether DEF ItemInv

LEMMA RootStepErrors ==
  ASSUME LaneInv, ItemInv, ErrorInv,
         RootSettles \/ RootTakes \/ RootExecutes \/ HybridSpawns \/ HybridLocal \/ RootDies
           \/ \E w \in Remote : RootRefuses(w)
  PROVE  ErrorInv'
  <1>a. RootAlone
    BY RootStepLane
  <1>r. Root \in Rank /\ 1 \in Pair
    BY RootInRank DEF Pair
  <1>f. fate' = fate
    BY DEF RootSettles, RootTakes, RootExecutes, HybridSpawns, HybridLocal, RootDies, RootRefuses, Abort
  <1>s. \A w \in Remote : NewNotes(w) /\ Flushing(w)'
    BY <1>a, <1>f, SameNotes DEF RootAlone, ErrorInv
  <1>1. CASE RootSettles \/ RootDies \/ \E w \in Remote : RootRefuses(w)
    <2>1. UNCHANGED <<lane, next, filled, failed, localKey, localError>>
      BY <1>1 DEF RootSettles, RootDies, RootRefuses, Abort, coordinatorVars, errorVars
    <2>2. SlotsStay
      BY <2>1, LaneSlots DEF SlotsStay
    <2> QED BY <1>f, <1>s, <2>1, <2>2, RestErrors
  <1>2. CASE RootTakes \/ HybridSpawns
    <2>1. filled' = filled /\ failed' = failed /\ localKey' = localKey /\ localError' = localError
      BY <1>2 DEF RootTakes, HybridSpawns, errorVars
    <2>2. CASE lane[Root].st = "Idle" /\ StartRootBatch
      BY <1>f, <1>r, <1>s, <2>1, <2>2, StartSlots, RestErrors
    <2>3. CASE lane[Root].st = "Idle" /\ StopRootLane
      BY <1>f, <1>s, <2>1, <2>3, StopSlots, RestErrors
    <2>4. CASE lane' = lane /\ next' = next /\ job' = job
      <3>1. SlotsStay
        BY <2>1, <2>4, LaneSlots DEF SlotsStay
      <3> QED BY <1>f, <1>s, <2>1, <3>1, RestErrors
    <2> QED BY <1>2, <2>2, <2>3, <2>4 DEF RootTakes, HybridSpawns
  <1>3. CASE RootExecutes \/ HybridLocal
    <2>1. FinishRootBatch(job[Root])
      BY <1>3 DEF RootExecutes, HybridLocal
    <2> QED BY <1>a, <1>f, <2>1, FinishErrors
  <1> QED BY <1>1, <1>2, <1>3

LEMMA ServeErrors ==
  ASSUME LaneInv, ItemInv, ErrorInv, NEW w \in Remote, ServeHeader(w) PROVE ErrorInv'
  <1>t. HereTypes(w) /\ w \in Rank /\ Root \in Rank
    BY LaneInvTypes, RootInRank
  <1>1. /\ fate' = fate /\ fetched' = fetched /\ workerPc' = workerPc
        /\ up[w] # << >> /\ up' = Receive(up, w)
    BY DEF ServeHeader
  <1>u. up'[w] = Tail(up[w])
    BY <1>1, LaneInvTypes DEF Receive
  <1>2. NewNotes(w) /\ Flushing(w)'
    <2>1. \A m : In(m, Tail(up[w])) => In(m, up[w])
      BY <1>1, <1>t, TakenIn DEF HereTypes
    <2>2. NewNotes(w)
      BY <1>u, <2>1 DEF NewNotes
    <2>3. Flushing(w)
      BY DEF ErrorInv, NoteInv
    <2> QED BY <1>1, <2>2, <2>3 DEF Flushing, Some
  <1>3. \A v \in Remote : NewNotes(v) /\ Flushing(v)'
    BY <1>1, <1>2, ServeLane, SameNotes DEF Serves, ErrorInv
  <1>4. CASE ServeReady(w) \/ ServeDrain(w)
    <2>1. localKey' = localKey /\ localError' = localError /\ failed' = failed
      BY <1>4 DEF ServeReady, ServeDrain, errorVars
    <2>2. SlotsStay \/ \E i \in Pair : SlotTaken(w, i)
      BY <1>4, ReadySlots, DrainSlots
    <2> QED BY <1>1, <1>3, <1>t, <2>1, <2>2, RestErrors
  <1>5. CASE ServeUndecodable(w) \/ ServeValues(w) \/ ServeError(w)
    <2> DEFINE m == Head(up[w])
    <2>1. m.kind = "RESULT" /\ m.batch = Slot(w, 1) /\ SlotFreed(w)
      BY <1>5, ResultSlots
    <2>2. In(m, up[w])
      BY <1>1, <1>t, TakenIn DEF HereTypes
    <2>n. next \in Nat /\ N \in Nat /\ next <= N /\ (next' = next \/ next' = N)
      BY <1>5, NextTypes DEF ItemInv, ServeUndecodable, ServeValues, ServeError, AfterFailure
    <2>m. next' \in Nat /\ next <= next'
      BY <2>n
    <2>3. CASE ServeUndecodable(w)
      <3>1. Overwrite(Root, ErrorKey(N, WireProtocol, Root), "Wire") /\ Some(m.batch, "result undecodable")
        BY <2>3 DEF ServeUndecodable
      <3>2. ~CallbackFates
        <4>1. m.batch.items \subseteq Item
          BY <1>t, <2>1 DEF ItemInv, SlotInv, ItemsOut, Pair
        <4> QED BY <3>1, <4>1 DEF Some, CallbackFates
      <3>3. N \in 0..N
        BY <2>n
      <3>4. NoteStep /\ NoteTypes' /\ localKey'[Root] # NoErrorKey
        BY <1>t, <3>1, <3>2, <3>3, WireNoted DEF ErrorInv
      <3> QED BY <1>1, <1>3, <1>t, <2>n, <2>m, <3>2, <3>4, NotesTogether DEF ItemInv
    <2>4. CASE ServeValues(w) \/ ServeError(w)
      <3>1. localKey' = localKey /\ localError' = localError
        BY <2>4 DEF ServeValues, ServeError, errorVars
      <3>2. failed' => failed \/ localKey[w] # NoErrorKey
        <4>1. CASE ServeValues(w)
          BY <4>1 DEF ServeValues
        <4>2. CASE ServeError(w)
          <5>1. m.status = "error"
            BY <4>2 DEF ServeError
          <5> QED BY <2>1, <2>2, <5>1 DEF ErrorInv, NoteInv, ResultsNoted
        <4> QED BY <2>4, <4>1, <4>2
      <3>3. ASSUME CallbackFates PROVE SlotMove
        <4>1. ASSUME NEW x \in Item, First(x), x \in Slot(w, 1).items PROVE Key(w, x, Callback)'
          <5>1. Key(w, x, Callback)
            BY <2>1, <2>2, <3>3, <4>1 DEF ErrorInv, BlameInv, ResultBlamed
          <5> QED BY <3>1, <5>1 DEF Key
        <4>2. AfterFailure => failed \/ \E t \in Item : Bad(t) /\ t < next
          <5>1. AfterFailure => failed \/ localKey[w] # NoErrorKey
            BY <3>2 DEF AfterFailure
          <5>2. localKey[w] # NoErrorKey => \E t \in Item : Bad(t) /\ t < next
            BY <1>t, <3>3 DEF ErrorInv, BlameInv, Blamed
          <5> QED BY <5>1, <5>2
        <4>3. Credited(w)
          BY <4>1, <4>2 DEF Credited
        <4> QED BY <1>t, <2>1, <4>3 DEF SlotMove
      <3> QED BY <1>1, <1>3, <1>t, <2>n, <2>m, <3>1, <3>2, <3>3, QuietNotes, NotesTogether DEF ItemInv
    <2> QED BY <1>5, <2>3, <2>4
  <1> QED BY <1>4, <1>5 DEF ServeHeader

LEMMA BatchBound ==
  ASSUME NEW b \in Batch PROVE Cardinality(b.items) \in 0..N
  <1>1. b.items \subseteq 0..(N - 1) /\ N \in Nat
    BY SizeType DEF Batch, Item
  <1>2. IsFiniteSet(0..(N - 1)) /\ Cardinality(0..(N - 1)) = IF 0 > N - 1 THEN 0 ELSE (N - 1) - 0 + 1
    BY <1>1, FS_Interval
  <1>3. Cardinality(0..(N - 1)) = N
    BY <1>1, <1>2
  <1>4. IsFiniteSet(b.items) /\ Cardinality(b.items) <= Cardinality(0..(N - 1))
    BY <1>1, <1>2, FS_Subset
  <1>5. Cardinality(b.items) \in Nat
    BY <1>4, FS_CardinalityType
  <1> QED BY <1>1, <1>3, <1>4, <1>5

LEMMA NewNote ==
  ASSUME NEW w \in Remote, HereTypes(w), NEW m \in Message, up'[w] = Append(up[w], m),
         m.kind = "RESULT" =>
           /\ m.status \in {"ok", "error"}
           /\ m.status = "error" => localKey'[w] # NoErrorKey
           /\ CallbackFates => \A x \in Item : First(x) /\ x \in m.batch.items => Key(w, x, Callback)'
  PROVE  NewNotes(w)
  <1>1. up[w] \in Seq(Message)
    BY DEF HereTypes
  <1> QED BY <1>1, SentIn DEF NewNotes

LEMMA AnswerNoted ==
  ASSUME LaneInv, ItemInv, ErrorInv, NEW w \in Remote, Answers(w, job[w])
  PROVE  NoteStep /\ NoteTypes' /\ NewNotes(w)
  <1> DEFINE b == job[w]
  <1>t. HereTypes(w) /\ b \in Batch /\ up \in [Remote -> Seq(Message)] /\ w \in Rank
    BY LaneInvTypes DEF HereTypes
  <1>f. /\ Result(b, "ok") \in Message /\ Result(b, "error") \in Message
        /\ Result(b, "ok").batch = b /\ Result(b, "error").batch = b
        /\ Result(b, "ok").status = "ok" /\ Result(b, "error").status = "error"
    BY <1>t, FrameType DEF Result
  <1>1. CASE /\ BatchOutcome(b) = "ok" /\ up' = Send(up, w, Result(b, "ok"))
             /\ localKey' = localKey /\ localError' = localError
    <2>1. \A x \in b.items : ~First(x)
      BY <1>1, <1>t, Outcomes, FineNotFirst
    <2>2. up'[w] = Append(up[w], Result(b, "ok"))
      BY <1>1, <1>t DEF Send
    <2>3. NewNotes(w)
      BY <1>f, <1>t, <2>1, <2>2, NewNote
    <2> QED BY <1>1, <2>3, QuietNotes
  <1>2. CASE /\ BatchOutcome(b) = "error" /\ up' = Send(up, w, Result(b, "error"))
             /\ NoteError(w, ErrorKey(FailedIndex(b), Callback, w), "User")
    <2> DEFINE t == FailedIndex(b)
    <2>1. /\ NoteStep /\ NoteTypes' /\ Notes(w, ErrorKey(t, Callback, w), "User")
          /\ t \in Item /\ Bad(t)
      BY <1>2, <1>t, JobNoted DEF NoteError, ItemInv, ErrorInv
    <2>2. \A x \in b.items : First(x) => t = x
      BY <1>2, <1>t, FailedFirst
    <2>3. localKey'[w] # NoErrorKey
      BY <1>t, <2>1, NotedKey DEF ErrorInv
    <2>4. CallbackFates => \A x \in Item : First(x) /\ x \in b.items => Key(w, x, Callback)'
      BY <1>t, <2>1, <2>2, FirstKey DEF ErrorInv
    <2>5. up'[w] = Append(up[w], Result(b, "error"))
      BY <1>2, <1>t DEF Send
    <2>6. NewNotes(w)
      BY <1>f, <1>t, <2>3, <2>4, <2>5, NewNote
    <2> QED BY <2>1, <2>6
  <1> QED BY <1>1, <1>2 DEF Answers, errorVars

LEMMA UndecodableNoted ==
  ASSUME LaneInv, ErrorInv, NEW w \in Remote, NEW b \in Batch, Some(b, "task undecodable"),
         AnswersUndecodable(w, b)
  PROVE  NoteStep /\ NoteTypes' /\ NewNotes(w)
  <1>t. HereTypes(w) /\ up \in [Remote -> Seq(Message)] /\ w \in Rank
    BY LaneInvTypes
  <1>1. ~CallbackFates
    BY DEF Some, CallbackFates, Batch
  <1>2. NoteStep /\ NoteTypes' /\ localKey'[w] # NoErrorKey
    BY <1>1, <1>t, BatchBound, WireNoted DEF AnswersUndecodable, NoteError, ErrorInv
  <1>3. Result(b, "error") \in Message /\ Result(b, "error").status = "error"
    BY FrameType DEF Result
  <1>4. up'[w] = Append(up[w], Result(b, "error"))
    BY <1>t DEF AnswersUndecodable, Send
  <1>5. NewNotes(w)
    BY <1>1, <1>2, <1>3, <1>4, <1>t, NewNote
  <1> QED BY <1>2, <1>5

LEMMA WorkerNotes ==
  ASSUME ItemInv, ErrorInv, NEW w \in Remote, OnlyAt(w), filled' = filled, failed' = failed, fate' = fate,
         NoteStep, NoteTypes', NewNotes(w), Flushing(w)'
  PROVE  ErrorInv'
  <1>1. SlotsStay
    BY LaneSlots DEF OnlyAt, SlotsStay
  <1>2. SlotMove
    BY <1>1 DEF SlotMove
  <1>3. \A v \in Remote : NewNotes(v) /\ Flushing(v)'
    BY SameNotes DEF OnlyAt, ErrorInv
  <1>4. next \in Nat /\ next' = next
    BY NextTypes DEF ItemInv, OnlyAt
  <1>5. next <= next' /\ next' \in Nat
    BY <1>4
  <1> QED BY <1>2, <1>3, <1>4, <1>5, NotesTogether DEF ItemInv

LEMMA WorkerStepErrors ==
  ASSUME LaneInv, ItemInv, ErrorInv, NEW w \in Remote, WorkerStep(w) PROVE ErrorInv'
  <1>t. /\ HereTypes(w) /\ w \in Rank
        /\ up \in [Remote -> Seq(Message)] /\ down \in [Remote -> Seq(Message)]
        /\ fetched \in [Remote -> Message] /\ workerPc \in [Remote -> WorkerPc]
    BY LaneInvTypes
  <1>w. WorkerLane(w) /\ Flushing(w)
    BY DEF LaneInv, ErrorInv, NoteInv
  <1>o. OnlyAt(w)
    BY WorkerLaneStep
  <1>c. filled' = filled /\ failed' = failed /\ fate' = fate
    BY DEF WorkerStep, SendsReady, WorkerReceives, WorkerRuns, WorkerFetches, WorkerJoins,
           WorkerFlushes, WorkerDrains, WorkerDies, Abort, coordinatorVars
  <1>m. /\ Msg("READY") \in Message /\ Msg("READY").kind # "RESULT"
        /\ Msg("DRAIN") \in Message /\ Msg("DRAIN").kind # "RESULT"
    BY FrameType DEF Msg
  <1>1. CASE SendsReady(w) \/ WorkerDrains(w)
    <2>1. PICK s \in {"READY", "DRAIN"} : up' = Send(up, w, Msg(s))
      BY <1>1 DEF SendsReady, WorkerDrains
    <2>2. localKey' = localKey /\ localError' = localError
      BY <1>1 DEF SendsReady, WorkerDrains, errorVars
    <2>3. workerPc'[w] # "flush"
      BY <1>1, <1>t DEF SendsReady, WorkerDrains
    <2>4. up'[w] = Append(up[w], Msg(s))
      BY <1>t, <2>1 DEF Send
    <2>5. NewNotes(w) /\ Flushing(w)'
      BY <1>m, <1>t, <2>3, <2>4, NewNote DEF Flushing
    <2> QED BY <1>c, <1>o, <2>2, <2>5, QuietNotes, WorkerNotes
  <1>2. CASE WorkerReceives(w)
    <2> DEFINE m == Head(down[w])
    <2>1. workerPc'[w] # "flush" /\ down[w] # << >>
      BY <1>2, <1>t DEF WorkerReceives
    <2>2. Flushing(w)'
      BY <2>1 DEF Flushing
    <2>3. CASE up' = up /\ localKey' = localKey /\ localError' = localError
      <3>1. NewNotes(w)
        BY <2>3 DEF NewNotes
      <3> QED BY <1>c, <1>o, <2>2, <2>3, <3>1, QuietNotes, WorkerNotes
    <2>4. CASE Some(m.batch, "task undecodable") /\ AnswersUndecodable(w, m.batch)
      <3>1. m.batch \in Batch
        BY <1>t, <2>1, HeadType DEF HereTypes
      <3>2. NoteStep /\ NoteTypes' /\ NewNotes(w)
        BY <2>4, <3>1, UndecodableNoted
      <3> QED BY <1>c, <1>o, <2>2, <3>2, WorkerNotes
    <2> QED BY <1>2, <2>3, <2>4 DEF WorkerReceives, errorVars
  <1>3. CASE WorkerRuns(w)
    <2>1. Answers(w, job[w]) /\ workerPc'[w] # "flush"
      BY <1>3, <1>t DEF WorkerRuns
    <2>2. NoteStep /\ NoteTypes' /\ NewNotes(w)
      BY <2>1, AnswerNoted
    <2>3. Flushing(w)'
      BY <2>1 DEF Flushing
    <2> QED BY <1>c, <1>o, <2>2, <2>3, WorkerNotes
  <1>4. CASE WorkerFetches(w) \/ WorkerDies(w)
    <2>1. up' = up /\ localKey' = localKey /\ localError' = localError
      BY <1>4 DEF WorkerFetches, WorkerDies, Abort, errorVars
    <2>2. workerPc'[w] = "join" \/ (workerPc' = workerPc /\ fetched' = fetched)
      BY <1>4, <1>t DEF WorkerFetches, WorkerDies, Abort
    <2>3. Flushing(w)'
      BY <1>c, <1>w, <2>2 DEF Flushing, Some
    <2>4. NewNotes(w)
      BY <2>1 DEF NewNotes
    <2> QED BY <1>c, <1>o, <2>1, <2>3, <2>4, QuietNotes, WorkerNotes
  <1>5. CASE WorkerJoins(w)
    <2> DEFINE f == fetched[w]
               work == f.kind = "TASK" /\ ~Some(f.batch, "task undecodable")
    <2>1. /\ Answers(w, job[w]) /\ workerPc[w] = "join"
          /\ fetched' = [fetched EXCEPT ![w] = IF f.kind = "TASK" /\ ~work THEN f ELSE NotFetched]
          /\ workerPc' = [workerPc EXCEPT ![w] =
                            IF work THEN "prefetch" ELSE IF f.kind = "STOP" THEN "drain" ELSE "flush"]
      BY <1>5 DEF WorkerJoins
    <2>2. f.kind \in {"TASK", "STOP"}
      BY <1>w, <2>1 DEF WorkerLane, Phase, WithoutJob, WithJob, WithFetched
    <2>3. workerPc'[w] = "flush" => Some(f.batch, "task undecodable") /\ fetched'[w] = f
      BY <1>t, <2>1, <2>2
    <2>4. Flushing(w)'
      BY <1>c, <2>3 DEF Flushing, Some
    <2>5. NoteStep /\ NoteTypes' /\ NewNotes(w)
      BY <2>1, AnswerNoted
    <2> QED BY <1>c, <1>o, <2>4, <2>5, WorkerNotes
  <1>6. CASE WorkerFlushes(w)
    <2>1. workerPc[w] = "flush" /\ workerPc'[w] = "ready" /\ AnswersUndecodable(w, fetched[w].batch)
      BY <1>6, <1>t DEF WorkerFlushes
    <2>2. fetched[w].batch \in Batch
      BY <1>t DEF HereTypes, Message
    <2>3. NoteStep /\ NoteTypes' /\ NewNotes(w)
      BY <1>w, <2>1, <2>2, UndecodableNoted DEF Flushing
    <2>4. Flushing(w)'
      BY <2>1 DEF Flushing
    <2> QED BY <1>c, <1>o, <2>3, <2>4, WorkerNotes
  <1> QED BY <1>1, <1>2, <1>3, <1>4, <1>5, <1>6 DEF WorkerStep

LEMMA ErrorStep ==
  ASSUME LaneInv, ItemInv, ErrorInv, [Next]_vars PROVE ErrorInv'
  <1>1. ASSUME RootSettles \/ RootTakes \/ RootExecutes \/ HybridSpawns \/ HybridLocal \/ RootDies
                 \/ \E w \in Remote : RootRefuses(w)
        PROVE  ErrorInv'
    BY <1>1, RootStepErrors
  <1>2. ASSUME NEW w \in Remote, RootServes(w) \/ RootReceives(w) \/ HybridRemote(w)
        PROVE  ErrorInv'
    BY <1>2, ServeErrors DEF RootServes, RootReceives, HybridRemote
  <1>3. ASSUME NEW w \in Remote, WorkerStep(w) PROVE ErrorInv'
    BY <1>3, WorkerStepErrors
  <1>4. CASE (\E r \in Rank : PoolRuns(r)) \/ Converge \/ UNCHANGED vars
    <2>1. /\ lane' = lane /\ next' = next /\ filled' = filled /\ failed' = failed /\ fate' = fate
          /\ up' = up /\ fetched' = fetched /\ workerPc' = workerPc
          /\ localKey' = localKey /\ localError' = localError
      BY <1>4 DEF PoolRuns, Converge, vars, coordinatorVars, errorVars
    <2>2. SlotsStay
      BY <2>1, LaneSlots DEF SlotsStay
    <2>3. \A w \in Remote : Flushing(w)
      BY DEF ErrorInv, NoteInv
    <2>4. \A w \in Remote : NewNotes(w) /\ Flushing(w)'
      BY <2>1, <2>3 DEF NewNotes, Flushing, Some
    <2> QED BY <2>1, <2>2, <2>4, RestErrors
  <1> QED BY <1>1, <1>2, <1>3, <1>4 DEF Next, RootStep

LEMMA ErrorInit ==
  ASSUME Init PROVE ErrorInv
  <1>1. /\ localKey = [r \in Rank |-> NoErrorKey] /\ localError = [r \in Rank |-> "none"]
        /\ failed = FALSE /\ next = 0 /\ workerPc = [w \in Remote |-> "ready"]
        /\ up = [w \in Remote |-> << >>]
    BY DEF Init
  <1>2. NoErrorKey \in Nat
    <2>1. N \in Nat /\ N + 1 \in Nat /\ 0 \in Rank
      BY SizeType DEF Rank
    <2> QED BY <2>1, KeyParts DEF NoErrorKey, WireProtocol
  <1>3. NoteTypes /\ FailureNoted /\ \A r \in Rank : Owned(r)
    BY <1>1, <1>2 DEF NoteTypes, FailureNoted, Owned
  <1>4. \A w \in Remote : \A m : ~In(m, up[w])
    BY <1>1 DEF In
  <1>5. NoteInv
    BY <1>1, <1>3, <1>4 DEF NoteInv, ResultsNoted, Flushing
  <1>6. FirstFound
    BY <1>1 DEF FirstFound, Item
  <1>7. BlameInv
    BY <1>1, <1>4, <1>6 DEF BlameInv, Blamed, ResultBlamed
  <1> QED BY <1>5, <1>7 DEF ErrorInv

-----------------------------------------------------------------------------
(* The end of a call.                                                      *)

CallInv == LaneInv /\ ItemInv /\ ErrorInv

LEMMA CallStep ==
  ASSUME CallInv, [Next]_vars PROVE CallInv'
  BY LaneStep, ItemStep, ErrorStep DEF CallInv

LEMMA CallInit ==
  ASSUME Init PROVE CallInv
  BY LaneInit, ItemInit, ErrorInit DEF CallInv

\* When the root loop is left no batch is in flight, and every item has come
\* back unless the run has failed.
LEMMA RootDone ==
  ASSUME LaneInv, SlotInv, rootPc = "done"
  PROVE  /\ \A r \in Rank, i \in Pair : Slot(r, i) = NoBatch
         /\ next = N /\ NoJob(Root) /\ (~failed => filled = Item)
  <1>1. Finished(lane, next)
    BY DEF LaneInv, RootLane
  <1>2. lane[Root] = Stopped /\ NoJob(Root)
    BY <1>1, RootLaneJob DEF Finished
  <1>3. ASSUME NEW w \in Remote PROVE lane[w] = Drained
    <2>1. WorkerLane(w) /\ lane[w].st = "Drained"
      BY <1>1 DEF LaneInv, Finished
    <2> QED BY <2>1, LaneBuilds, FrameType
         DEF WorkerLane, Phase, WithoutJob, WithJob, WithFetched, Comes, StopComes, Live, Ending
  <1>4. \A r \in Rank : lane[r].cur = NoBatch /\ lane[r].pre = NoBatch
    BY <1>2, <1>3, LaneBuilds, FrameType DEF Remote
  <1>5. \A r \in Rank, i \in Pair : Slot(r, i) = NoBatch
    BY <1>4 DEF Slot
  <1>6. next = N
    BY <1>1 DEF Finished
  <1>7. \A x \in Item : x < next
    BY <1>6, SizeType DEF Item
  <1>8. ~failed => filled = Item
    BY <1>5, <1>7, NoItems DEF SlotInv, ItemsKept, ItemTypes
  <1> QED BY <1>2, <1>5, <1>6, <1>8

\* A converged call takes no further step.
LEMMA Frozen ==
  ASSUME LaneInv, SlotInv, AllDone, outcome.kind # "none", [Next]_vars PROVE UNCHANGED vars
  <1>1. rootPc = "done" /\ \A w \in Remote : workerPc[w] = "done"
    BY DEF AllDone
  <1>2. ~RootStep
    BY <1>1 DEF RootStep, RootSettles, RootTakes, RootExecutes, HybridSpawns, HybridLocal, RootDies,
                RootServes, RootReceives, HybridRemote, RootRefuses
  <1>3. \A w \in Remote : ~WorkerStep(w)
    BY <1>1 DEF WorkerStep, SendsReady, WorkerReceives, WorkerRuns, WorkerFetches, WorkerJoins,
                WorkerFlushes, WorkerDrains, WorkerDies
  <1>4. \A r \in Rank : job[r] = NoBatch
    <2>1. job[Root] = NoBatch
      BY <1>1, RootDone DEF NoJob
    <2>2. ASSUME NEW w \in Remote PROVE job[w] = NoBatch
      <3>1. WorkerLane(w)
        BY DEF LaneInv
      <3> QED BY <1>1, <3>1 DEF WorkerLane, Phase, WithoutJob, WithJob, WithFetched, NoJob
    <2> QED BY <2>1, <2>2 DEF Remote
  <1>5. \A r \in Rank : ~PoolRuns(r)
    BY <1>4 DEF PoolRuns
  <1>6. ~Converge
    BY DEF Converge
  <1> QED BY <1>2, <1>3, <1>5, <1>6 DEF Next

\* The reduction selects the least of the ranks' keys, which its owner has.
LEMMA Reduction ==
  ASSUME NoteInv
  PROVE  /\ \A r \in Rank : Selected <= localKey[r]
         /\ Selected \in Nat /\ NoErrorKey \in Nat
         /\ Selected = NoErrorKey => \A r \in Rank : localKey[r] = NoErrorKey
         /\ Selected # NoErrorKey =>
              Selected % Size \in Rank /\ localKey[Selected % Size] = Selected
  <1> DEFINE S == {localKey[r] : r \in Rank}
  <1>0. Root \in Rank /\ localKey \in [Rank -> Nat]
    BY RootInRank DEF NoteInv, NoteTypes
  <1>1. S # {} /\ S \subseteq Nat
    BY <1>0
  <1>2. MinOf(S) \in S /\ \A y \in S : MinOf(S) <= y
    BY <1>1, LeastItem
  <1>3. Selected = MinOf(S)
    BY DEF Selected
  <1>4. Selected \in Nat /\ \A r \in Rank : Selected <= localKey[r]
    BY <1>1, <1>2, <1>3
  <1>5. PICK r \in Rank : Selected = localKey[r]
    BY <1>2, <1>3
  <1>6. NoErrorKey \in Nat
    <2>1. N \in Nat /\ N + 1 \in Nat /\ 0 \in Rank
      BY SizeType DEF Rank
    <2> QED BY <2>1, KeyParts DEF NoErrorKey, WireProtocol
  <1>7. ASSUME NEW s \in Rank PROVE localKey[s] = NoErrorKey \/ localKey[s] < NoErrorKey
    <2>1. Owned(s)
      BY DEF NoteInv
    <2>2. localKey[s] # NoErrorKey => \E t \in 0..N, c \in Class : localKey[s] = ErrorKey(t, c, s)
      BY <2>1 DEF Owned, Key
    <2> QED BY <2>2, KeyBelow DEF Class
  <1>8. Selected = NoErrorKey => \A s \in Rank : localKey[s] = NoErrorKey
    BY <1>0, <1>4, <1>6, <1>7
  <1>9. ASSUME Selected # NoErrorKey PROVE Selected % Size = r
    <2>1. PICK t \in 0..N, c \in Class : localKey[r] = ErrorKey(t, c, r)
      BY <1>5, <1>9 DEF NoteInv, Owned, Key
    <2>2. t \in Nat
      BY SizeType
    <2> QED BY <1>5, <2>1, <2>2, KeyParts DEF Class
  <1> QED BY <1>4, <1>5, <1>6, <1>8, <1>9

\* convergence finds every slot filled and the winner's key at its owner.
LEMMA Converges ==
  ASSUME CallInv, AllDone
  PROVE  /\ ConvergenceCode = 0
         /\ Selected = NoErrorKey =>
              ~failed /\ filled = Item /\ \A r \in Rank : localError[r] = "none"
         /\ Selected # NoErrorKey => localError[Selected % Size] \in {"User", "Wire"}
  <1>1. ~failed => filled = Item
    BY RootDone DEF CallInv, ItemInv, AllDone
  <1>2. NoteInv
    BY DEF CallInv, ErrorInv
  <1>3. Selected # NoErrorKey => Selected % Size \in Rank /\ localKey[Selected % Size] = Selected
    BY <1>2, Reduction
  <1>4. ConvergenceCode = 0
    BY <1>1, <1>3 DEF ConvergenceCode
  <1>5. ASSUME Selected = NoErrorKey
        PROVE  ~failed /\ \A r \in Rank : localError[r] = "none"
    <2>1. \A r \in Rank : localKey[r] = NoErrorKey
      BY <1>2, <1>5, Reduction
    <2> QED BY <1>2, <2>1 DEF NoteInv, FailureNoted, Owned
  <1>6. ASSUME Selected # NoErrorKey PROVE localError[Selected % Size] \in {"User", "Wire"}
    BY <1>2, <1>3, <1>6 DEF NoteInv, Owned
  <1> QED BY <1>1, <1>4, <1>5, <1>6

\* When only callbacks fail, the key selected is that of the first failing item.
LEMMA SelectsFirst ==
  ASSUME CallInv, AllDone, CallbackFates, NEW bad, bad = {i \in Item : fate[i] = "error"}
  PROVE  /\ bad = {} => Selected = NoErrorKey
         /\ bad # {} => /\ Selected # NoErrorKey /\ localError[Selected % Size] = "User"
                        /\ TaskOf(Selected) = MinOf(bad) /\ ClassOf(Selected) = Callback
  <1>1. NoteInv /\ FirstFound /\ \A r \in Rank : Blamed(r)
    BY DEF CallInv, ErrorInv, BlameInv
  <1>2. /\ \A r \in Rank : Selected <= localKey[r]
        /\ Selected \in Nat /\ NoErrorKey \in Nat
        /\ Selected # NoErrorKey => Selected % Size \in Rank /\ localKey[Selected % Size] = Selected
    BY <1>1, Reduction
  <1>3. ASSUME Selected # NoErrorKey
        PROVE  /\ localError[Selected % Size] = "User"
               /\ \E t \in Item : Bad(t) /\ Selected = ErrorKey(t, Callback, Selected % Size)
    BY <1>1, <1>2, <1>3 DEF Blamed, Key
  <1>4. bad = {} => Selected = NoErrorKey
    BY <1>3 DEF Bad
  <1>5. ASSUME bad # {}
        PROVE  /\ Selected # NoErrorKey /\ TaskOf(Selected) = MinOf(bad) /\ ClassOf(Selected) = Callback
    <2> DEFINE x == MinOf(bad)
    <2>1. bad \subseteq Nat
      BY DEF Item
    <2>2. x \in bad /\ \A y \in bad : x <= y
      BY <1>5, <2>1, LeastItem
    <2> HIDE DEF x
    <2>3. First(x) /\ x \in Item /\ x \in Nat
      BY <2>1, <2>2 DEF First, Bad
    <2>4. /\ next = N /\ \A r \in Rank, i \in Pair : Slot(r, i) = NoBatch
      BY RootDone DEF CallInv, ItemInv, AllDone
    <2>5. ~(x >= next)
      BY <2>3, <2>4, SizeType DEF Item
    <2>6. PICK r \in Rank : localKey[r] = ErrorKey(x, Callback, r)
      BY <1>1, <2>3, <2>4, <2>5, NoItems DEF FirstFound, Key
    <2>7. x \in 0..N /\ Callback \in Class
      BY <2>3, SizeType DEF Item, Class
    <2>8. localKey[r] < NoErrorKey /\ localKey[r] \in Nat
      BY <1>1, <2>6, <2>7, KeyBelow DEF Class, NoteInv, NoteTypes
    <2>9. Selected # NoErrorKey
      BY <1>2, <2>8
    <2>10. PICK t \in Item : Bad(t) /\ Selected = ErrorKey(t, Callback, Selected % Size)
      BY <1>3, <2>9
    <2>11. x <= t /\ t \in Nat /\ Selected % Size \in Rank
      BY <1>2, <2>3, <2>9, <2>10 DEF First, Item
    <2>12. x < t => ErrorKey(x, Callback, r) < ErrorKey(t, Callback, Selected % Size)
      BY <2>3, <2>7, <2>11, KeyOrder DEF Class
    <2>13. x = t
      <3>1. ~(x < t)
        BY <1>2, <2>6, <2>8, <2>10, <2>12
      <3> QED BY <2>3, <2>11, <3>1
    <2>14. TaskOf(Selected) = t /\ ClassOf(Selected) = Callback
      BY <2>7, <2>10, <2>11, KeyParts DEF Class
    <2> QED BY <2>9, <2>13, <2>14 DEF x
  <1> QED BY <1>3, <1>4, <1>5

\* What is returned.
EndInv ==
  /\ outcome.kind # "none" => AllDone
  /\ outcome.kind = "ok" => filled = Item
  /\ NoErrorIsLost
  /\ LowestFailureWins

LEMMA EndStep ==
  ASSUME CallInv, EndInv, [Next]_vars PROVE EndInv'
  <1>1. CASE outcome.kind # "none"
    <2>1. UNCHANGED vars
      BY <1>1, Frozen DEF EndInv, CallInv, ItemInv
    <2>2. /\ outcome' = outcome /\ rootPc' = rootPc /\ workerPc' = workerPc /\ filled' = filled
          /\ failed' = failed /\ fate' = fate /\ localError' = localError
      BY <2>1 DEF vars, coordinatorVars, endVars, errorVars
    <2> QED BY <2>2 DEF EndInv, AllDone, NoErrorIsLost, LowestFailureWins
  <1>2. CASE outcome.kind = "none" /\ outcome' = outcome
    <2>1. outcome'.kind = "none"
      BY <1>2
    <2> QED BY <2>1 DEF EndInv, NoErrorIsLost, LowestFailureWins
  <1>3. CASE outcome.kind = "none" /\ Converge
    <2>1. AllDone /\ rootPc' = rootPc /\ workerPc' = workerPc /\ filled' = filled
          /\ failed' = failed /\ fate' = fate /\ localError' = localError
      BY <1>3 DEF Converge, coordinatorVars, errorVars
    <2>2. /\ ConvergenceCode = 0
          /\ Selected = NoErrorKey =>
               ~failed /\ filled = Item /\ \A r \in Rank : localError[r] = "none"
          /\ Selected # NoErrorKey => localError[Selected % Size] \in {"User", "Wire"}
      BY <2>1, Converges
    <2>3. /\ outcome'.kind = IF Selected = NoErrorKey THEN "ok" ELSE localError[Selected % Size]
          /\ outcome'.key = Selected
      BY <1>3, <2>2 DEF Converge
    <2>4. outcome'.kind = "ok" => Selected = NoErrorKey
      BY <2>2, <2>3
    <2>5. AllDone'
      BY <2>1 DEF AllDone
    <2>6. NoErrorIsLost'
      BY <2>1, <2>2, <2>4 DEF NoErrorIsLost
    <2>7. LowestFailureWins'
      <3> DEFINE bad == {i \in Item : fate[i] = "error"}
      <3> SUFFICES ASSUME CallbackFates
                   PROVE  IF bad = {} THEN outcome'.kind = "ok"
                          ELSE /\ outcome'.kind = "User"
                               /\ TaskOf(outcome'.key) = MinOf(bad)
                               /\ ClassOf(outcome'.key) = Callback
        BY <2>1 DEF LowestFailureWins, CallbackFates, TaskOf, ClassOf
      <3> QED BY <2>1, <2>3, SelectsFirst
    <2> QED BY <2>1, <2>2, <2>4, <2>5, <2>6, <2>7 DEF EndInv
  <1>4. Converge \/ outcome' = outcome
    BY DEF Next, RootStep, RootSettles, RootTakes, RootExecutes, HybridSpawns, HybridLocal, RootDies,
           RootServes, RootReceives, HybridRemote, RootRefuses, ServeHeader, Abort,
           WorkerStep, SendsReady, WorkerReceives, WorkerRuns, WorkerFetches, WorkerJoins,
           WorkerFlushes, WorkerDrains, WorkerDies, PoolRuns, vars, endVars
  <1> QED BY <1>1, <1>2, <1>3, <1>4

LEMMA EndInit ==
  ASSUME Init PROVE EndInv
  <1>1. outcome.kind = "none"
    BY DEF Init
  <1> QED BY <1>1 DEF EndInv, NoErrorIsLost, LowestFailureWins

\* However batches are spread over ranks, prefetched and interleaved, no
\* callback is called twice on an item, and a call that returns values has
\* called it once on each and filled every output slot.
THEOREM ItemsMappedOnce == Spec => []EachItemOnce
  <1>1. CallInv /\ EndInv => EachItemOnce
    BY DEF CallInv, ItemInv, RunInv, RunsOnce, EndInv, EachItemOnce
  <1> QED BY <1>1, CallInit, CallStep, EndInit, EndStep, PTL DEF Spec

\* A call that any rank noted an error in returns an error: the keys survive
\* until the reduction, whatever the coordinator did with the failed batch.
THEOREM ErrorsReachTheCaller == Spec => []NoErrorIsLost
  <1>1. EndInv => NoErrorIsLost
    BY DEF EndInv
  <1> QED BY <1>1, CallInit, CallStep, EndInit, EndStep, PTL DEF Spec

\* When only callbacks fail, every rank returns the failure of the first
\* failing item of the input, for every size, batch size and schedule.
THEOREM FirstFailureReturned == Spec => []LowestFailureWins
  <1>1. EndInv => LowestFailureWins
    BY DEF EndInv
  <1> QED BY <1>1, CallInit, CallStep, EndInit, EndStep, PTL DEF Spec

\* process_remote_header refuses nothing that the protocol sends it.
LEMMA Refusals ==
  ASSUME LaneInv, SlotInv, NEW w \in Remote, up[w] # << >>, Refused(w)
  PROVE  Some(MakeBatch, "task unencodable")
  <1> DEFINE m == Head(up[w])
  <1>t. /\ HereTypes(w) /\ w \in Rank /\ up[w] \in Seq(Message)
    BY LaneInvTypes DEF HereTypes
  <1>1. PICK k \in 0..2, t \in {"none", "READY", "DRAIN"} : Sent(w, k, t) /\ Phase(w, k, t)
    BY DEF WorkerLane, LaneInv
  <1>2. m = up[w][1] /\ Len(up[w]) \in Nat \ {0}
    BY <1>t, EmptySeq
  <1>k. \A s : Msg(s).kind = s
    BY DEF Msg
  <1>p. 1 \in Pair
    BY DEF Pair
  <1>3. CASE k = 0
    <2>1. t # "none" /\ m = Msg(t)
      BY <1>1, <1>2, <1>3 DEF Sent
    <2>2. CASE t = "READY"
      <3>1. m.kind = "READY"
        BY <1>k, <2>1, <2>2
      <3>2. Live(w, 0) \/ (Prefetch /\ Live(w, 1))
        BY <1>1, <1>3, <2>2 DEF Phase, WithoutJob, WithJob, WithFetched
      <3>3. AcceptsReady(lane[w])
        BY <3>2, LaneBuilds, FrameType DEF Live, AcceptsReady
      <3> QED BY <3>1, <3>3 DEF Refused
    <2>3. CASE t = "DRAIN"
      <3>1. m.kind = "DRAIN"
        BY <1>k, <2>1, <2>3
      <3>2. Ending(w, 0)
        BY <1>1, <1>3, <2>3 DEF Phase, WithoutJob, WithJob, WithFetched
      <3>3. lane[w].st = "Stopped"
        BY <3>2, LaneBuilds, FrameType DEF Ending
      <3> QED BY <3>1, <3>3 DEF Refused
    <2> QED BY <2>1, <2>2, <2>3
  <1>4. CASE k > 0
    <2>1. m.kind = "RESULT" /\ m.batch = Slot(w, 1)
      BY <1>1, <1>2, <1>4 DEF Sent
    <2>2. (\E n \in 1..3 : Live(w, n)) \/ (\E n \in 1..3 : Ending(w, n))
      BY <1>1, <1>4 DEF Phase, WithoutJob, WithJob, WithFetched
    <2>3. CanAdvance(lane[w])
      BY <2>2 DEF Live, Ending, CanAdvance
    <2>4. Slot(w, 1) = lane[w].cur /\ Slot(w, 1).items \cap filled = {}
      BY <1>p, <1>t DEF SlotInv, ItemsOut, Slot
    <2>5. Valid(lane[w], m.batch) /\ lane[w].cur.id = m.batch.id
      BY <2>1, <2>4 DEF Valid
    <2> QED BY <2>1, <2>3, <2>5 DEF Refused
  <1>5. k = 0 \/ k > 0
    OBVIOUS
  <1> QED BY <1>3, <1>4, <1>5

\* The root's lane accepts the outcome of the root's job.
LEMMA RootTakesBack ==
  ASSUME LaneInv, SlotInv, job[Root] # NoBatch PROVE RootAccepts(job[Root])
  <1>1. lane[Root] = Running(job[Root]) /\ job[Root] \in Batch /\ Root \in Rank
    BY RootInRank, RootLaneJob DEF LaneInv, RootLane, NoJob
  <1>2. lane[Root].st = "Running" /\ lane[Root].cur = job[Root]
    BY <1>1, LaneBuilds
  <1>3. job[Root].items \cap filled = {}
    BY <1>1, JobOut
  <1> QED BY <1>2, <1>3 DEF RootAccepts, Valid

Unrecoverable == \E i \in Item : fate[i] \in {"panic", "task unencodable", "result unencodable"}

LEMMA AbortStep ==
  ASSUME CallInv, AbortsOnlyUnrecoverable, [Next]_vars PROVE AbortsOnlyUnrecoverable'
  <1>f. fate' = fate
    BY DEF Next, RootStep, RootSettles, RootTakes, RootExecutes, HybridSpawns, HybridLocal, RootDies,
           RootServes, RootReceives, HybridRemote, RootRefuses, ServeHeader, Abort,
           WorkerStep, SendsReady, WorkerReceives, WorkerRuns, WorkerFetches, WorkerJoins,
           WorkerFlushes, WorkerDrains, WorkerDies, PoolRuns, Converge, vars
  <1>i. LaneInv /\ SlotInv /\ ItemInv
    BY DEF CallInv, ItemInv
  <1>b. ASSUME NEW r \in Rank, BatchOutcome(job[r]) = "panic" \/ Some(job[r], "result unencodable")
        PROVE  Unrecoverable
    <2>1. job[r] \in Batch /\ job[r].items \subseteq Item
      BY <1>i, JobOut DEF LaneInv, RequestInv, ChannelType
    <2>2. \E x \in job[r].items : fate[x] \in {"panic", "result unencodable"}
      BY <1>b, <2>1, Outcomes DEF Some
    <2> QED BY <2>1, <2>2 DEF Unrecoverable
  <1>1. ASSUME NEW w \in Remote, RootRefuses(w) PROVE Unrecoverable
    <2>1. Some(MakeBatch, "task unencodable")
      BY <1>1, <1>i, Refusals DEF RootRefuses
    <2>2. BatchItems \subseteq Item
      BY DEF BatchItems
    <2> QED BY <2>1, <2>2, NoItems DEF Some, Unrecoverable
  <1>2. ASSUME RootDies PROVE Unrecoverable
    <2>1. job[Root] # NoBatch
      BY <1>2, <1>i DEF RootDies, LaneInv, RootLane, NoJob
    <2>2. BatchOutcome(job[Root]) = "panic"
      BY <1>2, <1>i, <2>1, RootTakesBack DEF RootDies
    <2> QED BY <1>b, <2>2, RootInRank
  <1>3. ASSUME NEW w \in Remote, WorkerDies(w) PROVE Unrecoverable
    BY <1>3, <1>b DEF WorkerDies, Remote
  <1>4. ASSUME Converge PROVE aborted' = 0
    BY <1>4, Converges DEF Converge
  <1>5. \/ Converge \/ RootDies \/ (\E w \in Remote : RootRefuses(w) \/ WorkerDies(w))
        \/ aborted' = aborted
    BY DEF Next, RootStep, RootSettles, RootTakes, RootExecutes, HybridSpawns, HybridLocal,
           RootServes, RootReceives, HybridRemote, ServeHeader,
           WorkerStep, SendsReady, WorkerReceives, WorkerRuns, WorkerFetches, WorkerJoins,
           WorkerFlushes, WorkerDrains, PoolRuns, vars, endVars
  <1>6. aborted' # 0 => Unrecoverable
    BY <1>1, <1>2, <1>3, <1>4, <1>5 DEF AbortsOnlyUnrecoverable, Unrecoverable
  <1> QED BY <1>f, <1>6 DEF AbortsOnlyUnrecoverable, Unrecoverable

\* The protocol never fails by itself: no schedule makes process_remote_header
\* refuse a message, the root's lane refuse its batch, or convergence miss a
\* result or the owner of the selected key.  The job aborts only on a callback
\* panic or a payload that cannot be encoded.
THEOREM ProtocolNeverAborts == Spec => []AbortsOnlyUnrecoverable
  <1>1. Init => AbortsOnlyUnrecoverable
    BY DEF Init, AbortsOnlyUnrecoverable
  <1> QED BY <1>1, CallInit, CallStep, AbortStep, PTL DEF Spec
\* What the other invariants do not say of the types.
LoopTypes ==
  /\ rootPc \in {"probe", "served", "executing", "blocked", "loop", "done"}
  /\ prefer \in BOOLEAN
  /\ aborted \in {0, 70, 71, 72, 73, 75}
  /\ outcome \in [kind : {"none", "ok", "User", "Wire"}, key : Nat]

LEMMA LoopStep ==
  ASSUME CallInv, LoopTypes, [Next]_vars PROVE LoopTypes'
  <1>1. rootPc' \in {"probe", "served", "executing", "blocked", "loop", "done"}
    BY DEF Next, RootStep, RootSettles, RootTakes, RootExecutes, HybridSpawns, HybridLocal, RootDies,
           RootServes, RootReceives, HybridRemote, RootRefuses, Abort, Loop, AfterStop,
           WorkerStep, SendsReady, WorkerReceives, WorkerRuns, WorkerFetches, WorkerJoins,
           WorkerFlushes, WorkerDrains, WorkerDies, PoolRuns, Converge, vars, LoopTypes
  <1>2. prefer' = prefer \/ prefer' = TRUE \/ prefer' = FALSE
    BY DEF Next, RootStep, RootSettles, RootTakes, RootExecutes, HybridSpawns, HybridLocal, RootDies,
           RootServes, RootReceives, HybridRemote, RootRefuses, Abort,
           WorkerStep, SendsReady, WorkerReceives, WorkerRuns, WorkerFetches, WorkerJoins,
           WorkerFlushes, WorkerDrains, WorkerDies, PoolRuns, Converge, vars
  <1>3. prefer' \in BOOLEAN
    BY <1>2, Zenon DEF LoopTypes
  <1>4. CASE Converge
    <2>1. AllDone
      BY <1>4 DEF Converge
    <2>2. /\ ConvergenceCode = 0
          /\ Selected # NoErrorKey => localError[Selected % Size] \in {"User", "Wire"}
      BY <2>1, Converges
    <2>3. Selected \in Nat
      BY Reduction DEF CallInv, ErrorInv
    <2>4. aborted' = 0
      BY <1>4, <2>2 DEF Converge
    <2>5. outcome' = [kind |-> IF Selected = NoErrorKey THEN "ok" ELSE localError[Selected % Size],
                      key |-> Selected]
      BY <1>4, <2>2 DEF Converge
    <2>6. outcome' \in [kind : {"none", "ok", "User", "Wire"}, key : Nat]
      BY <2>2, <2>3, <2>5
    <2> QED BY <1>1, <1>3, <2>4, <2>6 DEF LoopTypes
  <1>5. CASE ~Converge
    <2>1. outcome' = outcome /\ (aborted' = aborted \/ aborted' \in {70, 71, 72, 75})
      BY <1>5 DEF Next, RootStep, RootSettles, RootTakes, RootExecutes, HybridSpawns, HybridLocal,
             RootDies, RootServes, RootReceives, HybridRemote, RootRefuses, ServeHeader, Abort,
             WorkerStep, SendsReady, WorkerReceives, WorkerRuns, WorkerFetches, WorkerJoins,
             WorkerFlushes, WorkerDrains, WorkerDies, PoolRuns, vars, endVars
    <2> QED BY <1>1, <1>3, <2>1 DEF LoopTypes
  <1> QED BY <1>4, <1>5

\* Queue, lanes, channels, keys and loops stay in their domains; in particular
\* the Coordinator never hands out an item beyond the end of the input.
THEOREM CallTypeCorrect == Spec => []TypeOK
  <1>1. Init => LoopTypes
    <2>1. Init => NoErrorKey \in Nat
      BY ErrorInit, Reduction DEF ErrorInv
    <2> QED BY <2>1 DEF Init, LoopTypes
  <1>2. CallInv /\ LoopTypes => TypeOK
    <2> SUFFICES ASSUME CallInv, LoopTypes PROVE TypeOK
      OBVIOUS
    <2>1. CoordinatorType
      BY DEF CallInv, LaneInv, LaneTypes, LaneRec, ItemInv, SlotInv, ItemTypes, CoordinatorType
    <2>2. ChannelType
      BY DEF CallInv, LaneInv, RequestInv
    <2>3. LoopType
      BY DEF CallInv, LaneInv, LaneTypes, ItemInv, SlotInv, ItemTypes, LoopTypes, LoopType
    <2>4. ErrorType
      BY DEF CallInv, ErrorInv, NoteInv, NoteTypes, ItemInv, SlotInv, ItemTypes, LoopTypes, ErrorType
    <2> QED BY <2>1, <2>2, <2>3, <2>4 DEF TypeOK
  <1> QED BY <1>1, <1>2, CallInit, CallStep, LoopStep, PTL DEF Spec
=============================================================================
