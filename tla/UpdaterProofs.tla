--------------------------- MODULE UpdaterProofs ---------------------------
(* Proofs about Updater for any number of threads and any length of the queue. *)
EXTENDS Updater, SequenceTheorems, TLAPS

-----------------------------------------------------------------------------
(* The threads and the flag. *)

\* run holds the mutex of the updater from its first step to its last.
OneHolder == \A t, u \in Threads : th[t].pc \in Holding /\ th[u].pc \in Holding => t = u

ThreadType ==
    /\ running \in BOOLEAN /\ failed \in BOOLEAN
    /\ th \in [Threads -> [pc : Holding \cup {"off", "wait"}, mask : Masks]]
    /\ wallet \in Masks \cup {Closed} /\ masks \in Masks
    /\ fresh \in BOOLEAN
    /\ query \in {"none", "refresh", "cached"}

ThreadInv == ThreadType /\ OneHolder /\ FlagMeansAlive

\* The step of a thread, by the fields it changes.
Moves(t, p) ==
    /\ th' \in [Threads -> [pc : Holding \cup {"off", "wait"}, mask : Masks]]
    /\ th'[t].pc = p
    /\ \A u \in Threads : u # t => th'[u] = th[u]

LEMMA ThreadMoves ==
  ASSUME ThreadType, NEW t \in Threads
  PROVE  /\ \A p \in Holding \cup {"off", "wait"} : th' = [th EXCEPT ![t].pc = p] => Moves(t, p)
         /\ th' = [th EXCEPT ![t] = Off] => Moves(t, "off")
         /\ \A m \in Masks : th' = [th EXCEPT ![t] = [pc |-> "wait", mask |-> m]] => Moves(t, "wait")
  BY UpdaterAssumption DEF ThreadType, Moves, Off, Masks

LEMMA ThreadStep ==
  ASSUME ThreadInv, [Next]_vars
  PROVE  /\ ThreadInv'
         /\ \A t \in Threads : th[t].pc \in Loop /\ ~running => ~running'
  <1> USE DEF ThreadInv
  <1> DEFINE Kept == \A t \in Threads : th[t].pc \in Loop /\ ~running => ~running'
  <1>1. ASSUME NEW t \in Threads, NEW m \in Masks, StartUpdater(t, m) PROVE ThreadInv' /\ Kept
    <2>1. Moves(t, "wait") /\ th[t].pc = "off"
      BY <1>1, ThreadMoves DEF StartUpdater
    <2> QED
      BY <1>1, <2>1 DEF StartUpdater, Moves, ThreadType, OneHolder, FlagMeansAlive, Loop, Holding
  <1>2. ASSUME NEW t \in Threads, LockUpdater(t) PROVE ThreadInv' /\ Kept
    <2>1. Moves(t, "begin") /\ th[t].pc = "wait"
      BY <1>2, ThreadMoves DEF LockUpdater, Holding
    <2> QED
      BY <1>2, <2>1 DEF LockUpdater, Moves, ThreadType, OneHolder, FlagMeansAlive, Loop, Holding
  <1>3. ASSUME NEW t \in Threads, Run(t) PROVE ThreadInv' /\ Kept
    <2>1. Moves(t, "update") /\ th[t].pc = "begin"
      BY <1>3, ThreadMoves DEF Run, Holding, Loop
    <2> QED
      BY ZenonT(30), <1>3, <2>1 DEF Run, Moves, ThreadType, OneHolder, FlagMeansAlive, Loop, Holding
  <1>4. ASSUME NEW t \in Threads, UpdatePass(t) PROVE ThreadInv' /\ Kept
    <2>1. CASE th' = [th EXCEPT ![t].pc = "check"] /\ fresh' \in {fresh, TRUE} /\ UNCHANGED failed
      <3>1. Moves(t, "check") /\ th[t].pc = "update"
        BY <1>4, <2>1, ThreadMoves DEF UpdatePass, Holding, Loop
      <3> QED
        BY ZenonT(30), <1>4, <2>1, <3>1 DEF UpdatePass, Moves, ThreadType, OneHolder, FlagMeansAlive, Loop, Holding
    <2>2. CASE th' = [th EXCEPT ![t] = Off] /\ failed' = running /\ UNCHANGED fresh
      <3>1. Moves(t, "off") /\ th[t].pc = "update"
        BY <1>4, <2>2, ThreadMoves DEF UpdatePass
      <3> QED
        BY <1>4, <2>2, <3>1 DEF UpdatePass, Moves, ThreadType, OneHolder, FlagMeansAlive, Loop, Holding
    <2> QED
      BY <1>4, <2>1, <2>2 DEF UpdatePass
  <1>5. ASSUME NEW t \in Threads, CheckRunning(t) PROVE ThreadInv' /\ Kept
    <2>1. th[t].pc = "check" /\ IF running THEN Moves(t, "sleep") ELSE Moves(t, "off")
      BY <1>5, ThreadMoves DEF CheckRunning, ThreadType, Holding, Loop
    <2> QED
      BY <1>5, <2>1 DEF CheckRunning, Moves, ThreadType, OneHolder, FlagMeansAlive, Loop, Holding
  <1>6. ASSUME NEW t \in Threads, WakeUp(t) PROVE ThreadInv' /\ Kept
    <2>1. Moves(t, "update") /\ th[t].pc = "sleep"
      BY <1>6, ThreadMoves DEF WakeUp, Holding, Loop
    <2> QED
      BY <1>6, <2>1 DEF WakeUp, Moves, ThreadType, OneHolder, FlagMeansAlive, Loop, Holding
  <1>7. CASE StopUpdater
    BY <1>7 DEF StopUpdater, ThreadType, OneHolder, FlagMeansAlive
  <1>8. CASE OpenWallet
    BY <1>8, UpdaterAssumption DEF OpenWallet, threadVars, ThreadType, OneHolder, FlagMeansAlive, Masks
  <1>9. CASE UNCHANGED <<threadVars, masks>> /\ ThreadType'
    BY <1>9 DEF threadVars, OneHolder, FlagMeansAlive
  <1>10. CASE \/ CloseWallet \/ NewBlock \/ QueryBegin \/ QueryEnd
    BY <1>9, <1>10 DEF CloseWallet, NewBlock, QueryBegin, QueryEnd, threadVars, ThreadType
  <1>11. CASE LogMessage \/ (\E count \in 1 .. QueueLen : GetUpdaterMessages(count)) \/ UNCHANGED vars
    BY <1>9, <1>11 DEF LogMessage, GetUpdaterMessages, vars, threadVars, ThreadType
  <1> QED
    BY <1>1, <1>2, <1>3, <1>4, <1>5, <1>6, <1>7, <1>8, <1>10, <1>11 DEF Next, Step

LEMMA ThreadAlways == Spec => []ThreadInv
  <1>1. Init => ThreadInv
    <2> SUFFICES ASSUME Init PROVE ThreadInv
      OBVIOUS
    <2>1. ThreadType
      <3>1. Off \in [pc : Holding \cup {"off", "wait"}, mask : Masks]
        BY UpdaterAssumption DEF Off, Masks
      <3>2. 0 \in Masks
        BY UpdaterAssumption DEF Masks
      <3> QED
        BY <3>1, <3>2 DEF Init, ThreadType
    <2>2. \A t \in Threads : th[t].pc = "off"
      BY DEF Init, Off
    <2> QED
      BY <2>1, <2>2 DEF Init, ThreadInv, OneHolder, FlagMeansAlive, Holding, Loop
  <1> QED
    BY <1>1, ThreadStep, PTL DEF Spec

\* A raised updater_running means that a thread is at work or that its last run failed.
THEOREM FlagIsHonest == Spec => []FlagMeansAlive
  BY ThreadAlways, PTL DEF ThreadInv

\* At most one thread is between locking the updater and leaving run, however many were
\* started; so no run raises the flag while another thread is in its loop, and a stop_updater
\* that met that thread stays in force until the thread has seen it.
THEOREM StopStays ==
  Spec => /\ []OneHolder
          /\ [][\A t \in Threads : th[t].pc \in Loop /\ ~running => ~running']_vars
  <1>1. ThreadInv /\ [Next]_vars =>
          [\A t \in Threads : th[t].pc \in Loop /\ ~running => ~running']_vars
    BY ThreadStep
  <1>2. ThreadInv => OneHolder
    BY DEF ThreadInv
  <1> QED
    BY <1>1, <1>2, ThreadAlways, PTL DEF Spec

-----------------------------------------------------------------------------
(* The status messages. *)

Messages == 1 .. MaxMessages

\* The channel, the queue and the history of a client are parts of one run of messages:
\* the queue is written backwards, and every message of a part is newer than those of the
\* parts before it.  (CompleteHistory says less: a new message must be the newest.)
Ordered ==
    /\ \A i, j \in 1 .. Len(history) : i < j => history[i] < history[j]
    /\ \A i, j \in 1 .. Len(queue) : i < j => queue[j] < queue[i]
    /\ \A i, j \in 1 .. Len(chan) : i < j => chan[i] < chan[j]
    /\ \A i \in 1 .. Len(history), j \in 1 .. Len(queue) : history[i] < queue[j]
    /\ \A i \in 1 .. Len(history), j \in 1 .. Len(chan) : history[i] < chan[j]
    /\ \A i \in 1 .. Len(queue), j \in 1 .. Len(chan) : queue[i] < chan[j]
Known ==
    /\ \A i \in 1 .. Len(history) : history[i] <= sent
    /\ \A i \in 1 .. Len(queue) : queue[i] <= sent
    /\ \A i \in 1 .. Len(chan) : chan[i] <= sent
MessageType ==
    /\ chan \in Seq(Messages) /\ queue \in Seq(Messages) /\ history \in Seq(Messages)
    /\ Len(queue) <= QueueLen
    /\ sent \in 0 .. MaxMessages /\ dropped \in Nat
Counted == Len(history) + Len(queue) + Len(chan) + dropped = sent

MessageInv == MessageType /\ Counted /\ Ordered /\ Known

LEMMA ReportInv ==
  ASSUME MessageInv, Report, UNCHANGED <<queue, history, dropped>>
  PROVE  MessageInv'
  <1> USE UpdaterAssumption DEF MessageInv, MessageType
  <1>1. CASE sent < MaxMessages
    <2>1. sent' = sent + 1 /\ chan' = Append(chan, sent + 1)
      BY <1>1 DEF Report
    <2>2. sent + 1 \in Messages
      BY <1>1 DEF Messages
    <2>3. /\ chan' \in Seq(Messages) /\ Len(chan') = Len(chan) + 1
          /\ \A i \in 1 .. Len(chan) : chan'[i] = chan[i]
          /\ chan'[Len(chan) + 1] = sent + 1
      BY <2>1, <2>2
    <2>4. MessageType' /\ Counted'
      BY <1>1, <2>1, <2>3 DEF Counted
    <2>5. \A i \in 1 .. Len(chan') : i \in 1 .. Len(chan) \/ i = Len(chan) + 1
      BY <2>3
    <2>6. /\ \A i \in 1 .. Len(chan) : chan[i] \in Messages
          /\ \A i \in 1 .. Len(queue) : queue[i] \in Messages
          /\ \A i \in 1 .. Len(history) : history[i] \in Messages
      OBVIOUS
    <2>7. Known'
      BY SMTT(30), <2>1, <2>3, <2>5, <2>6 DEF Known, Messages
    <2>8. Ordered'
      BY SMTT(30), <2>1, <2>3, <2>5, <2>6 DEF Ordered, Known, Messages
    <2> QED
      BY <2>4, <2>7, <2>8
  <1>2. CASE ~(sent < MaxMessages)
    <2>1. UNCHANGED <<sent, chan>>
      BY <1>2 DEF Report
    <2> QED
      BY <2>1 DEF Counted, Ordered, Known
  <1> QED
    BY <1>1, <1>2

LEMMA LogInv ==
  ASSUME MessageInv, LogMessage
  PROVE  MessageInv'
  <1> USE UpdaterAssumption DEF MessageInv, MessageType
  <1> DEFINE q == <<Head(chan)>> \o queue
             n == IF Len(q) > QueueLen THEN QueueLen ELSE Len(q)
  <1>1. /\ queue' = SubSeq(q, 1, n) /\ dropped' = dropped + Len(q) - Len(queue')
        /\ chan' = Tail(chan) /\ chan # <<>> /\ UNCHANGED <<sent, history>>
    BY DEF LogMessage
  <1>2. Len(chan) \in Nat \ {0} /\ chan[1] \in Messages /\ Head(chan) = chan[1]
    BY <1>1
  <1>3. /\ q \in Seq(Messages) /\ Len(q) = Len(queue) + 1 /\ q[1] = chan[1]
        /\ \A i \in 2 .. Len(q) : q[i] = queue[i - 1]
    BY <1>2
  <1> HIDE DEF q
  <1>4. n \in 1 .. Len(q)
    BY <1>3
  <1> HIDE DEF n
  <1>5. /\ queue' \in Seq(Messages) /\ Len(queue') = n
        /\ \A i \in 1 .. n : queue'[i] = q[i]
    BY <1>1, <1>3, <1>4
  <1>6. /\ chan' \in Seq(Messages) /\ Len(chan') = Len(chan) - 1
        /\ \A i \in 1 .. Len(chan') : chan'[i] = chan[i + 1]
    BY <1>1, <1>2
  <1>7. MessageType'
    BY <1>1, <1>3, <1>4, <1>5, <1>6 DEF n
  <1>8. Counted'
    BY SMTT(30), <1>1, <1>3, <1>5, <1>6 DEF Counted
  <1>9. /\ \A i \in 1 .. Len(chan) : chan[i] \in Messages
        /\ \A i \in 1 .. Len(queue) : queue[i] \in Messages
        /\ \A i \in 1 .. Len(history) : history[i] \in Messages
    OBVIOUS
  <1>10. queue'[1] = chan[1] /\ \A i \in 2 .. Len(queue') : i - 1 \in 1 .. Len(queue) /\ queue'[i] = queue[i - 1]
    BY <1>3, <1>4, <1>5
  <1>11. \A i \in 1 .. Len(chan') : i + 1 \in 2 .. Len(chan) /\ chan'[i] = chan[i + 1]
    BY <1>2, <1>6
  <1>12. Known'
    <2>1. ASSUME NEW i \in 1 .. Len(queue') PROVE queue'[i] <= sent
      <3>1. CASE i = 1
        BY <1>2, <1>10, <3>1 DEF Known
      <3>2. CASE i # 1
        <4>1. i \in 2 .. Len(queue')
          BY <3>2, <1>5, <1>4
        <4>2. i - 1 \in 1 .. Len(queue) /\ queue'[i] = queue[i - 1]
          BY <1>10, <4>1
        <4> QED
          BY <4>2 DEF Known
      <3> QED
        BY <3>1, <3>2
    <2>2. ASSUME NEW i \in 1 .. Len(chan') PROVE chan'[i] <= sent
      <3>1. i + 1 \in 1 .. Len(chan) /\ chan'[i] = chan[i + 1]
        BY <1>2, <1>11
      <3> QED
        BY <3>1 DEF Known
    <2> QED
      BY <1>1, <2>1, <2>2 DEF Known
  <1>13. Ordered'
    <2>1. \A i, j \in 1 .. Len(queue') : i < j => queue'[j] < queue'[i]
      <3> SUFFICES ASSUME NEW i \in 1 .. Len(queue'), NEW j \in 1 .. Len(queue'), i < j
                   PROVE  queue'[j] < queue'[i]
        OBVIOUS
      <3>1. j \in 2 .. Len(queue')
        OBVIOUS
      <3>2. CASE i = 1
        BY <1>2, <1>10, <3>1, <3>2 DEF Ordered
      <3>3. CASE i # 1
        <4>1. i \in 2 .. Len(queue')
          BY <3>3
        <4>2. /\ i - 1 \in 1 .. Len(queue) /\ queue'[i] = queue[i - 1]
              /\ j - 1 \in 1 .. Len(queue) /\ queue'[j] = queue[j - 1] /\ i - 1 < j - 1
          BY <1>10, <3>1, <4>1
        <4> QED
          BY <4>2 DEF Ordered
      <3> QED
        BY <3>2, <3>3
    <2>2. \A i, j \in 1 .. Len(chan') : i < j => chan'[i] < chan'[j]
      BY <1>11 DEF Ordered
    <2>3. \A i \in 1 .. Len(history), j \in 1 .. Len(queue') : history[i] < queue'[j]
      BY <1>2, <1>10 DEF Ordered
    <2>4. \A i \in 1 .. Len(history), j \in 1 .. Len(chan') : history[i] < chan'[j]
      BY <1>11 DEF Ordered
    <2>5. ASSUME NEW i \in 1 .. Len(queue'), NEW j \in 1 .. Len(chan') PROVE queue'[i] < chan'[j]
      <3>0. j + 1 \in 2 .. Len(chan) /\ chan'[j] = chan[j + 1]
        BY <1>11
      <3>1. CASE i = 1
        <4>1. 1 \in 1 .. Len(chan) /\ j + 1 \in 1 .. Len(chan) /\ 1 < j + 1
          BY <3>0, <1>2
        <4> QED
          BY <1>10, <3>0, <3>1, <4>1 DEF Ordered
      <3>2. CASE i # 1
        <4>1. i \in 2 .. Len(queue') /\ j + 1 \in 1 .. Len(chan)
          BY <3>0, <3>2, <1>4, <1>5, <1>2
        <4>2. i - 1 \in 1 .. Len(queue) /\ queue'[i] = queue[i - 1]
          BY <1>10, <4>1
        <4> QED
          BY <3>0, <4>1, <4>2 DEF Ordered
      <3> QED
        BY <3>1, <3>2
    <2> QED
      BY <1>1, <2>1, <2>2, <2>3, <2>4, <2>5 DEF Ordered
  <1> QED
    BY <1>7, <1>8, <1>12, <1>13

LEMMA ReversedSeq ==
  ASSUME NEW S, NEW s \in Seq(S)
  PROVE  /\ Reversed(s) \in Seq(S) /\ Len(Reversed(s)) = Len(s)
         /\ \A i \in 1 .. Len(s) : Reversed(s)[i] = s[Len(s) + 1 - i]
  <1>1. \A i \in 1 .. Len(s) : Len(s) + 1 - i \in 1 .. Len(s) /\ s[Len(s) + 1 - i] \in S
    OBVIOUS
  <1> QED
    BY <1>1 DEF Reversed

\* The elements of two sequences put together.
LEMMA Joined ==
  ASSUME NEW S, NEW s \in Seq(S), NEW t \in Seq(S)
  PROVE  /\ s \o t \in Seq(S) /\ Len(s \o t) = Len(s) + Len(t)
         /\ \A i \in 1 .. Len(s) : (s \o t)[i] = s[i]
         /\ \A i \in (Len(s) + 1) .. (Len(s) + Len(t)) : (s \o t)[i] = t[i - Len(s)]
  <1>1. /\ s \o t \in Seq(S) /\ Len(s \o t) = Len(s) + Len(t)
        /\ \A i \in 1 .. Len(s) + Len(t) : (s \o t)[i] = IF i <= Len(s) THEN s[i] ELSE t[i - Len(s)]
    BY ConcatProperties, Zenon
  <1>2. Len(s) \in Nat /\ Len(t) \in Nat
    OBVIOUS
  <1>3. /\ \A i \in 1 .. Len(s) : i \in 1 .. Len(s) + Len(t) /\ i <= Len(s)
        /\ \A i \in (Len(s) + 1) .. (Len(s) + Len(t)) : i \in 1 .. Len(s) + Len(t) /\ ~(i <= Len(s))
    BY <1>2
  <1> QED
    BY <1>1, <1>3, Zenon

LEMMA GetInv ==
  ASSUME MessageInv, NEW count \in 1 .. QueueLen, GetUpdaterMessages(count)
  PROVE  MessageInv'
  <1> USE UpdaterAssumption DEF MessageInv, MessageType
  <1> DEFINE index == IF count < Len(queue) THEN Len(queue) - count ELSE 0
             part == SubSeq(queue, index + 1, Len(queue))
             r == Reversed(part)
             k == Len(queue) - index
  <1>1. /\ history' = history \o r /\ queue' = SubSeq(queue, 1, index) /\ queue # <<>>
        /\ UNCHANGED <<chan, sent, dropped>>
    BY DEF GetUpdaterMessages
  <1>2. index \in 0 .. Len(queue) /\ k \in 0 .. Len(queue)
    OBVIOUS
  <1> HIDE DEF index
  <1>3. /\ part \in Seq(Messages) /\ Len(part) = k
        /\ \A i \in 1 .. k : part[i] = queue[index + i]
    BY <1>2
  <1> HIDE DEF part
  <1>4. /\ r \in Seq(Messages) /\ Len(r) = k
        /\ \A i \in 1 .. k : r[i] = part[k + 1 - i]
    BY SMTT(30), <1>3, ReversedSeq
  <1>5. \A i \in 1 .. k : Len(queue) + 1 - i \in (index + 1) .. Len(queue) /\ r[i] = queue[Len(queue) + 1 - i]
    <2> SUFFICES ASSUME NEW i \in 1 .. k
                 PROVE  Len(queue) + 1 - i \in (index + 1) .. Len(queue) /\ r[i] = queue[Len(queue) + 1 - i]
      OBVIOUS
    <2>1. k + 1 - i \in 1 .. k /\ index + (k + 1 - i) = Len(queue) + 1 - i
      BY <1>2
    <2>2. r[i] = part[k + 1 - i] /\ part[k + 1 - i] = queue[index + (k + 1 - i)]
      BY <1>3, <1>4, <2>1
    <2> QED
      BY SMTT(30), <1>2, <2>1, <2>2
  <1> HIDE DEF r
  <1>6. /\ history' \in Seq(Messages) /\ Len(history') = Len(history) + k
        /\ \A i \in 1 .. Len(history) : history'[i] = history[i]
        /\ \A i \in (Len(history) + 1) .. (Len(history) + k) : history'[i] = r[i - Len(history)]
    BY <1>1, <1>4, Joined
  <1>7. /\ queue' \in Seq(Messages) /\ Len(queue') = index
        /\ \A i \in 1 .. index : i \in 1 .. Len(queue) /\ queue'[i] = queue[i]
    BY <1>1, <1>2
  <1>8. MessageType' /\ Counted'
    <2>1. Len(history) \in Nat /\ Len(queue) \in Nat /\ Len(chan) \in Nat
      OBVIOUS
    <2>2. Len(queue') <= QueueLen
      BY <1>2, <1>7, <2>1
    <2>3. Len(history') + Len(queue') = Len(history) + Len(queue)
      BY <1>2, <1>6, <1>7, <2>1
    <2>4. Counted'
      BY <1>1, <1>6, <1>7, <2>1, <2>3 DEF Counted
    <2> QED
      BY <1>1, <1>6, <1>7, <2>2, <2>4
  \* What is new in the history comes from the end of the queue.
  <1> DEFINE at(i) == Len(queue) + 1 - (i - Len(history))
  <1>9. \A i \in 1 .. Len(history') : i > Len(history) =>
          /\ at(i) \in Int /\ at(i) \in 1 .. Len(queue) /\ index < at(i)
          /\ history'[i] = queue[at(i)]
    <2> SUFFICES ASSUME NEW i \in 1 .. Len(history'), i > Len(history)
                 PROVE  /\ at(i) \in Int /\ at(i) \in 1 .. Len(queue) /\ index < at(i)
                        /\ history'[i] = queue[at(i)]
      OBVIOUS
    <2>1. i - Len(history) \in 1 .. k /\ i \in (Len(history) + 1) .. (Len(history) + k)
      BY <1>2, <1>6
    <2>2. at(i) \in (index + 1) .. Len(queue) /\ r[i - Len(history)] = queue[at(i)]
      BY <1>5, <2>1
    <2>3. history'[i] = r[i - Len(history)]
      BY <1>6, <2>1
    <2> HIDE DEF at
    <2> QED
      BY <1>2, <2>2, <2>3
  <1>9a. \A i, j \in 1 .. Len(history') : i < j => at(j) < at(i)
    BY <1>6
  <1>9b. \A i \in 1 .. Len(history') : i <= Len(history) =>
          i \in 1 .. Len(history) /\ history'[i] = history[i]
    BY <1>6
  <1>9c. \A i \in 1 .. Len(history') : i <= Len(history) \/ i > Len(history)
    BY <1>6
  <1> HIDE DEF at
  <1>10. Known'
    <2>1. ASSUME NEW i \in 1 .. Len(history') PROVE history'[i] <= sent
      <3>1. CASE i <= Len(history)
        BY <1>9b, <3>1 DEF Known
      <3>2. CASE i > Len(history)
        BY <1>9, <3>2 DEF Known
      <3> QED
        BY <1>9c, <3>1, <3>2
    <2> QED
      BY <1>1, <1>7, <2>1 DEF Known
  <1>11. \A i, j \in 1 .. Len(history') : i < j => history'[i] < history'[j]
    <2> SUFFICES ASSUME NEW i \in 1 .. Len(history'), NEW j \in 1 .. Len(history'), i < j
                 PROVE  history'[i] < history'[j]
      OBVIOUS
    <2>1. CASE j <= Len(history)
      <3>1. i <= Len(history)
        BY <1>6, <2>1
      <3> QED
        BY <1>9b, <2>1, <3>1 DEF Ordered
    <2>2. CASE i <= Len(history) /\ j > Len(history)
      BY <1>9, <1>9b, <2>2 DEF Ordered
    <2>3. CASE i > Len(history)
      <3>1. j > Len(history)
        BY <1>6, <2>3
      <3> QED
        BY <1>9, <1>9a, <2>3, <3>1 DEF Ordered
    <2> QED
      BY <1>9c, <2>1, <2>2, <2>3
  <1>12. \A i \in 1 .. Len(history'), j \in 1 .. Len(queue') : history'[i] < queue'[j]
    <2> SUFFICES ASSUME NEW i \in 1 .. Len(history'), NEW j \in 1 .. Len(queue')
                 PROVE  history'[i] < queue'[j]
      OBVIOUS
    <2>1. j \in 1 .. index /\ j \in 1 .. Len(queue) /\ queue'[j] = queue[j]
      BY <1>7
    <2>2. CASE i <= Len(history)
      BY <1>9b, <2>1, <2>2 DEF Ordered
    <2>3. CASE i > Len(history)
      <3>1. j < at(i)
        BY <1>2, <1>9, <2>1, <2>3
      <3> QED
        BY <1>9, <2>1, <2>3, <3>1 DEF Ordered
    <2> QED
      BY <1>9c, <2>2, <2>3
  <1>13. \A i \in 1 .. Len(history'), j \in 1 .. Len(chan) : history'[i] < chan[j]
    <2> SUFFICES ASSUME NEW i \in 1 .. Len(history'), NEW j \in 1 .. Len(chan)
                 PROVE  history'[i] < chan[j]
      OBVIOUS
    <2>1. CASE i <= Len(history)
      BY <1>9b, <2>1 DEF Ordered
    <2>2. CASE i > Len(history)
      BY <1>9, <2>2 DEF Ordered
    <2> QED
      BY <1>9c, <2>1, <2>2
  <1>14. Ordered'
    <2>1. \A i, j \in 1 .. Len(queue') : i < j => queue'[j] < queue'[i]
      BY <1>7 DEF Ordered
    <2>2. \A i \in 1 .. Len(queue'), j \in 1 .. Len(chan) : queue'[i] < chan[j]
      BY <1>7 DEF Ordered
    <2> QED
      BY <1>1, <1>11, <1>12, <1>13, <2>1, <2>2 DEF Ordered
  <1> QED
    BY <1>8, <1>10, <1>14

LEMMA MessageStep ==
  ASSUME MessageInv, [Next]_vars
  PROVE  MessageInv'
  <1>1. CASE UNCHANGED messageVars
    BY <1>1 DEF messageVars, MessageInv, MessageType, Counted, Ordered, Known
  <1>2. ASSUME NEW t \in Threads, UpdatePass(t) PROVE MessageInv'
    BY <1>1, <1>2, ReportInv DEF UpdatePass, messageVars
  <1>3. ASSUME QueryEnd PROVE MessageInv'
    BY <1>1, <1>3, ReportInv DEF QueryEnd, messageVars
  <1>4. ASSUME NEW t \in Threads, Step(t) PROVE MessageInv'
    BY <1>1, <1>2, <1>4 DEF Step, LockUpdater, Run, CheckRunning, WakeUp
  <1>5. CASE \/ (\E t \in Threads, m \in Masks : StartUpdater(t, m))
             \/ StopUpdater \/ OpenWallet \/ CloseWallet \/ NewBlock \/ QueryBegin \/ UNCHANGED vars
    BY <1>1, <1>5 DEF StartUpdater, StopUpdater, OpenWallet, CloseWallet, NewBlock, QueryBegin, vars
  <1> QED
    BY <1>3, <1>4, <1>5, LogInv, GetInv DEF Next

LEMMA MessageAlways == Spec => []MessageInv
  <1>1. Init => MessageInv
    BY UpdaterAssumption DEF Init, MessageInv, MessageType, Counted, Ordered, Known
  <1> QED
    BY <1>1, MessageStep, PTL DEF Spec

\* The ordered parts make one ordered sequence.
LEMMA HistoryFromParts ==
  ASSUME MessageInv
  PROVE  CompleteHistory
  <1> USE DEF MessageInv, MessageType
  <1> DEFINE h == Len(history)
             k == Len(queue)
             r == Reversed(queue)
             hr == history \o r
             all == hr \o chan
  <1>1. /\ r \in Seq(Messages) /\ Len(r) = k
        /\ \A i \in 1 .. k : r[i] = queue[k + 1 - i]
    BY ReversedSeq
  <1> HIDE DEF r
  <1>2. /\ hr \in Seq(Messages) /\ Len(hr) = h + k
        /\ \A i \in 1 .. h : hr[i] = history[i]
        /\ \A i \in (h + 1) .. (h + k) : hr[i] = r[i - h]
    <2>1. Len(history \o r) = Len(history) + Len(r)
      BY <1>1, Joined
    <2> QED
      BY <1>1, <2>1, Joined
  <1> HIDE DEF hr
  <1>3. /\ Len(all) = h + k + Len(chan)
        /\ \A i \in 1 .. (h + k) : all[i] = hr[i]
        /\ \A i \in (h + k + 1) .. (h + k + Len(chan)) : all[i] = chan[i - (h + k)]
    <2>1. /\ Len(hr \o chan) = Len(hr) + Len(chan)
          /\ \A i \in 1 .. Len(hr) : (hr \o chan)[i] = hr[i]
          /\ \A i \in (Len(hr) + 1) .. (Len(hr) + Len(chan)) : (hr \o chan)[i] = chan[i - Len(hr)]
      <3>1. hr \in Seq(Messages) /\ chan \in Seq(Messages)
        BY <1>2
      <3> QED
        BY <3>1, Joined, Zenon
    <2> QED
      BY <1>2, <2>1
  <1> HIDE DEF all
  <1>4. h \in Nat /\ k \in Nat /\ Len(chan) \in Nat
    OBVIOUS
  <1>5. ASSUME NEW i \in 1 .. h PROVE all[i] = history[i]
    BY <1>2, <1>3, <1>4
  <1>6. ASSUME NEW i \in (h + 1) .. (h + k)
        PROVE  k + 1 - (i - h) \in 1 .. k /\ all[i] = queue[k + 1 - (i - h)]
    <2>1. i - h \in 1 .. k /\ i \in 1 .. (h + k)
      BY <1>4
    <2>2. k + 1 - (i - h) \in 1 .. k
      BY <1>4, <2>1
    <2>3. all[i] = hr[i] /\ hr[i] = r[i - h] /\ r[i - h] = queue[k + 1 - (i - h)]
      BY <1>1, <1>2, <1>3, <2>1
    <2> QED
      BY <2>2, <2>3
  <1>7. ASSUME NEW i \in (h + k + 1) .. (h + k + Len(chan))
        PROVE  i - (h + k) \in 1 .. Len(chan) /\ all[i] = chan[i - (h + k)]
    BY <1>3, <1>4
  <1>8. \A i, j \in 1 .. Len(all) : i < j => all[i] < all[j]
    <2> SUFFICES ASSUME NEW i \in 1 .. Len(all), NEW j \in 1 .. Len(all), i < j
                 PROVE  all[i] < all[j]
      OBVIOUS
    <2> HIDE DEF h, k
    <2>1. i \in 1 .. h \/ i \in (h + 1) .. (h + k) \/ i \in (h + k + 1) .. (h + k + Len(chan))
      BY <1>3, <1>4
    <2>2. j \in 1 .. h \/ j \in (h + 1) .. (h + k) \/ j \in (h + k + 1) .. (h + k + Len(chan))
      BY <1>3, <1>4
    <2>3. CASE i \in 1 .. h /\ j \in 1 .. h
      BY <1>5, <2>3 DEF Ordered, h
    <2>4. CASE i \in 1 .. h /\ j \in (h + 1) .. (h + k)
      BY <1>5, <1>6, <2>4 DEF Ordered, h, k
    <2>5. CASE i \in 1 .. h /\ j \in (h + k + 1) .. (h + k + Len(chan))
      BY <1>5, <1>7, <2>5 DEF Ordered, h
    <2>6. CASE i \in (h + 1) .. (h + k) /\ j \in (h + 1) .. (h + k)
      <3>1. k + 1 - (j - h) < k + 1 - (i - h)
        BY <1>4, <2>6
      <3> QED
        BY <1>6, <2>6, <3>1 DEF Ordered, k
    <2>7. CASE i \in (h + 1) .. (h + k) /\ j \in (h + k + 1) .. (h + k + Len(chan))
      BY <1>6, <1>7, <2>7 DEF Ordered, k
    <2>8. CASE i \in (h + k + 1) .. (h + k + Len(chan)) /\ j \in (h + k + 1) .. (h + k + Len(chan))
      <3>1. i - (h + k) < j - (h + k)
        BY <1>4, <2>8
      <3> QED
        BY <1>7, <2>8, <3>1 DEF Ordered
    <2> QED
      BY <1>4, <2>1, <2>2, <2>3, <2>4, <2>5, <2>6, <2>7, <2>8
  <1> QED
    BY <1>3, <1>8 DEF CompleteHistory, Counted, all, hr, r

\* What a client puts together from get_updater_messages, with what is queued and under way,
\* is every message but the ones the full queue dropped, in order, for any MESSAGE_QUEUE_MAX_LEN.
THEOREM HistoryIsComplete == Spec => []CompleteHistory
  BY MessageAlways, HistoryFromParts, PTL

\* The updater keeps its types; in particular the queue never outgrows MESSAGE_QUEUE_MAX_LEN.
THEOREM UpdaterTypes == Spec => []TypeOK
  <1>1. ThreadInv /\ MessageInv => TypeOK
    <2> SUFFICES ASSUME ThreadInv, MessageInv PROVE TypeOK
      OBVIOUS
    <2>1. Len(history) \in Nat /\ Len(queue) \in Nat /\ Len(chan) \in Nat
      BY DEF MessageInv, MessageType
    <2>2. dropped \in 0 .. MaxMessages
      BY <2>1, UpdaterAssumption DEF MessageInv, MessageType, Counted
    <2> QED
      BY <2>2 DEF ThreadInv, ThreadType, MessageInv, MessageType, Messages, TypeOK
  <1> QED
    BY <1>1, ThreadAlways, MessageAlways, PTL

=============================================================================
