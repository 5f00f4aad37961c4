---------------------- MODULE PartitionTaskQueueProofs ----------------------
(***************************************************************************)
(* Theorems about PartitionTaskQueue for any set of partitions, any set of *)
(* commands and any number of them in flight.  The three facts of an       *)
(* invariance proof are stated for IInv, which says how the deques, the    *)
(* workers and the statuses of the tasks fit together.                     *)
(***************************************************************************)
EXTENDS PartitionTaskQueue, SequenceTheorems, TLAPS

\* The commands that occupy a deque are the queued ones of its partition,
\* oldest first, and each of them is in it.
QueueInv ==
    /\ \A p \in Partitions : \A i \in 1..Len(queues[p]) :
          /\ status[queues[p][i]] = "queued"
          /\ PartitionOf[queues[p][i]] = p
    /\ \A p \in Partitions : \A i, j \in 1..Len(queues[p]) :
          i < j => rank[queues[p][i]] < rank[queues[p][j]]
    /\ \A t \in Tasks : status[t] = "queued" =>
          \E i \in 1..Len(queues[PartitionOf[t]]) : queues[PartitionOf[t]][i] = t

\* A partition has a worker as long as its deque holds something, and the
\* task it runs is the one its worker awaits.
WorkerInv ==
    /\ \A p \in Partitions : workers[p] = "none" => queues[p] = <<>>
    /\ \A p \in Partitions : workers[p] = "scheduled" => queues[p] # <<>>
    /\ \A p \in Partitions : workers[p] = "draining" =>
          /\ current[p] \in Tasks
          /\ PartitionOf[current[p]] = p
          /\ status[current[p]] = "running"
    /\ \A t \in Tasks : status[t] = "running" =>
          /\ workers[PartitionOf[t]] = "draining"
          /\ current[PartitionOf[t]] = t

\* Ranks order the submitted commands.
RankInv ==
    /\ \A t \in Tasks : rank[t] <= accepted
    /\ \A t \in Tasks : rank[t] = 0 <=> status[t] = "absent"
    /\ \A t, u \in Tasks : rank[t] = rank[u] /\ rank[t] # 0 => t = u

\* A request that waits has submitted its command to a partition that still
\* has a worker.
CallerInv ==
    /\ \A t \in Tasks : callers[t] # "none" => status[t] # "absent"
    /\ \A t \in Tasks : callers[t] = "waiting" => workers[PartitionOf[t]] # "none"

IInv == /\ TypeOK
        /\ QueueInv
        /\ WorkerInv
        /\ RankInv
        /\ CallerInv
        /\ Fifo
        /\ CallerFindsResult

USE TaskAssumption

-----------------------------------------------------------------------------
\* A function stays in its set when one of its values is replaced.
LEMMA ExceptType ==
    ASSUME NEW S, NEW T, NEW f \in [S -> T], NEW x \in S, NEW v \in T
    PROVE  [f EXCEPT ![x] = v] \in [S -> T]
OBVIOUS

\* Nothing has been submitted and there is no worker in the initial state.
LEMMA InitIInv == Init => IInv
BY DEF Init, IInv, TypeOK, QueueInv, WorkerInv, RankInv, CallerInv, Fifo, CallerFindsResult,
       Statuses, WorkerStates, CallerStates, Finished

\* Joining the deque keeps the invariant: the new command is the youngest.
LEMMA EnqueueIInv ==
    ASSUME IInv, NEW t \in Tasks, Enqueue(t),
           callers' = callers \/ callers' = [callers EXCEPT ![t] = "waiting"]
    PROVE  IInv'
<1> DEFINE p == PartitionOf[t]
           q == queues[p]
<1>1. TypeOK /\ QueueInv /\ WorkerInv /\ RankInv /\ CallerInv /\ Fifo /\ CallerFindsResult
  BY DEF IInv
<1>2. p \in Partitions /\ q \in Seq(Tasks) /\ status[t] = "absent" /\ rank[t] = 0
  BY <1>1 DEF TypeOK, Enqueue, RankInv
<1>3. /\ queues' = [queues EXCEPT ![p] = Append(q, t)]
      /\ status' = [status EXCEPT ![t] = "queued"]
      /\ rank' = [rank EXCEPT ![t] = accepted + 1]
      /\ accepted' = accepted + 1
      /\ workers' = [workers EXCEPT ![p] = IF workers[p] = "none" THEN "scheduled" ELSE workers[p]]
      /\ attempts' = attempts /\ current' = current
  BY DEF Enqueue, Join, NewWorker
<1>4. TypeOK'
  <2>1. Append(q, t) \in Seq(Tasks)
    BY <1>2
  <2>2. queues' \in [Partitions -> Seq(Tasks)]
    <3>1. queues \in [Partitions -> Seq(Tasks)] /\ p \in Partitions
      BY <1>1, <1>2 DEF TypeOK
    <3>2. [queues EXCEPT ![p] = Append(q, t)] \in [Partitions -> Seq(Tasks)]
      BY <2>1, <3>1, ExceptType, Zenon
    <3>3. QED
      BY <3>2, <1>3, Zenon
  <2>3. rank' \in [Tasks -> Nat] /\ accepted' \in Nat
    BY <1>1, <1>3 DEF TypeOK
  <2>4. status' \in [Tasks -> Statuses]
    BY <1>1, <1>3 DEF TypeOK, Statuses
  <2>5. workers' \in [Partitions -> WorkerStates] /\ callers' \in [Tasks -> CallerStates]
    <3>1. workers' \in [Partitions -> WorkerStates]
      <4>1. (IF workers[p] = "none" THEN "scheduled" ELSE workers[p]) \in WorkerStates
        BY <1>1, <1>2 DEF TypeOK, WorkerStates
      <4>2. QED
        BY <4>1, <1>1, <1>2, <1>3, ExceptType DEF TypeOK
    <3>2. "waiting" \in CallerStates
      BY DEF CallerStates
    <3>3. callers' \in [Tasks -> CallerStates]
      <4>1. callers \in [Tasks -> CallerStates]
        BY <1>1 DEF TypeOK
      <4>2. [callers EXCEPT ![t] = "waiting"] \in [Tasks -> CallerStates]
        BY <3>2, <4>1, ExceptType, Zenon
      <4>3. QED
        BY <4>1, <4>2, Zenon
    <3>4. QED
      BY <3>1, <3>3
  <2>6. QED
    BY <2>2, <2>3, <2>4, <2>5, <1>1, <1>3 DEF TypeOK
<1>5. /\ Len(Append(q, t)) = Len(q) + 1
      /\ \A i \in 1..Len(q) : Append(q, t)[i] = q[i]
      /\ Append(q, t)[Len(q) + 1] = t
  BY <1>2
<1>6. /\ \A r \in Partitions \ {p} : queues'[r] = queues[r]
      /\ queues'[p] = Append(q, t)
      /\ \A u \in Tasks \ {t} : status'[u] = status[u] /\ rank'[u] = rank[u]
      /\ status'[t] = "queued" /\ rank'[t] = accepted + 1
      /\ \A r \in Partitions : \A i \in 1..Len(queues[r]) :
            queues[r][i] \in Tasks \ {t}
  BY <1>1, <1>2, <1>3 DEF TypeOK, QueueInv
<1>12. QueueInv'
  <2>1. \A r \in Partitions : \A i \in 1..Len(queues'[r]) :
           /\ status'[queues'[r][i]] = "queued"
           /\ PartitionOf[queues'[r][i]] = r
    <3> TAKE r \in Partitions
    <3>1. CASE r # p
      BY <3>1, <1>1, <1>6 DEF QueueInv
    <3>2. CASE r = p
      BY <3>2, <1>1, <1>2, <1>5, <1>6 DEF QueueInv
    <3>3. QED
      BY <3>1, <3>2
  <2>2. \A r \in Partitions : \A i, j \in 1..Len(queues'[r]) :
           i < j => rank'[queues'[r][i]] < rank'[queues'[r][j]]
    <3> SUFFICES ASSUME NEW r \in Partitions, NEW i \in 1..Len(queues'[r]),
                        NEW j \in 1..Len(queues'[r]), i < j
                 PROVE  rank'[queues'[r][i]] < rank'[queues'[r][j]]
      OBVIOUS
    <3>1. CASE r # p
      BY <3>1, <1>1, <1>6 DEF QueueInv
    <3>2. CASE r = p /\ j <= Len(q)
      BY <3>2, <1>1, <1>2, <1>5, <1>6 DEF QueueInv
    <3>3. CASE r = p /\ j = Len(q) + 1
      <4>1. i \in 1..Len(q) /\ queues'[r][i] = q[i] /\ queues'[r][j] = t
        BY <3>3, <1>2, <1>5, <1>6
      <4>2. rank[q[i]] \in Nat /\ accepted \in Nat /\ rank[q[i]] <= accepted
        BY <4>1, <1>1, <1>2, <1>6 DEF TypeOK, RankInv
      <4>3. rank'[q[i]] = rank[q[i]] /\ rank'[t] = accepted + 1
        BY <4>1, <1>2, <1>6
      <4>4. QED
        BY <4>1, <4>2, <4>3
    <3>4. j \in 1..(Len(q) + 1) \/ r # p
      BY <1>5, <1>6
    <3>5. QED
      BY <3>1, <3>2, <3>3, <3>4, <1>2
  <2>3. \A u \in Tasks : status'[u] = "queued" =>
           \E i \in 1..Len(queues'[PartitionOf[u]]) : queues'[PartitionOf[u]][i] = u
    <3> SUFFICES ASSUME NEW u \in Tasks, status'[u] = "queued"
                 PROVE  \E i \in 1..Len(queues'[PartitionOf[u]]) :
                           queues'[PartitionOf[u]][i] = u
      OBVIOUS
    <3>1. CASE u = t
      BY <3>1, <1>2, <1>5, <1>6
    <3>2. CASE u # t
      <4>1. PICK i \in 1..Len(queues[PartitionOf[u]]) : queues[PartitionOf[u]][i] = u
        BY <3>2, <1>1, <1>6 DEF QueueInv
      <4>2. CASE PartitionOf[u] # p
        BY <4>1, <4>2, <1>6
      <4>3. CASE PartitionOf[u] = p
        <5>1. i \in 1..Len(q) /\ q[i] = u
          BY <4>1, <4>3
        <5>2. i \in 1..Len(queues'[p]) /\ queues'[p][i] = u
          BY <5>1, <1>2, <1>5, <1>6
        <5>3. QED
          BY <5>2, <4>3
      <4>4. QED
        BY <4>2, <4>3
    <3>3. QED
      BY <3>1, <3>2
  <2>4. QED
    BY <2>1, <2>2, <2>3 DEF QueueInv
<1>7. WorkerInv'
  <2>1. \A r \in Partitions : workers'[r] = "none" => queues'[r] = <<>>
    BY <1>1, <1>3, <1>6 DEF TypeOK, WorkerInv
  <2>2. \A r \in Partitions : workers'[r] = "scheduled" => queues'[r] # <<>>
    BY <1>1, <1>2, <1>3, <1>5, <1>6 DEF TypeOK, WorkerInv
  <2>3. \A r \in Partitions : workers'[r] = "draining" => workers[r] = "draining"
    BY <1>1, <1>3 DEF TypeOK
  <2>4. \A r \in Partitions : workers[r] = "draining" => workers'[r] = "draining"
    BY <1>1, <1>3 DEF TypeOK
  <2>5. QED
    BY <2>1, <2>2, <2>3, <2>4, <1>1, <1>2, <1>3, <1>6 DEF WorkerInv
<1>8. RankInv'
  BY <1>1, <1>2, <1>3 DEF TypeOK, RankInv
<1>9. CallerInv'
  BY <1>1, <1>2, <1>3 DEF TypeOK, CallerInv, WorkerStates
<1>10. Fifo'
  BY <1>1, <1>2, <1>3 DEF TypeOK, Fifo, RankInv, Statuses, Finished
<1>11. CallerFindsResult'
  BY <1>1, <1>2, <1>3 DEF TypeOK, CallerFindsResult, Statuses, Finished
<1>13. QED
  BY <1>4, <1>12, <1>7, <1>8, <1>9, <1>10, <1>11 DEF IInv

-----------------------------------------------------------------------------
\* What holds at the head of the loop of the worker of p, st being the
\* statuses once the task it awaited, if any, has finished: nothing runs in p.
AtLoopHead(p, st) ==
    /\ workers[p] # "none"
    /\ st \in [Tasks -> Statuses]
    /\ \A t \in Tasks : /\ st[t] = "queued" <=> status[t] = "queued"
                        /\ st[t] = "absent" <=> status[t] = "absent"
                        /\ status[t] \in Finished => st[t] = status[t]
                        /\ PartitionOf[t] = p => st[t] # "running"
                        /\ PartitionOf[t] # p => st[t] = status[t]

\* The worker takes the head of the deque, the oldest queued command of p.
LEMMA TakeIInv ==
    ASSUME IInv, NEW p \in Partitions, NEW st, AtLoopHead(p, st), queues[p] # <<>>,
           UNCHANGED <<rank, accepted, callers>>,
           current' = [current EXCEPT ![p] = Head(queues[p])],
           queues' = [queues EXCEPT ![p] = Tail(queues[p])],
           status' = [st EXCEPT ![Head(queues[p])] = "running"],
           attempts' = [attempts EXCEPT ![Head(queues[p])] = attempts[Head(queues[p])] + 1],
           workers' = [workers EXCEPT ![p] = "draining"]
    PROVE  IInv'
<1> DEFINE q == queues[p]
           h == Head(q)
<1>1. TypeOK /\ QueueInv /\ WorkerInv /\ RankInv /\ CallerInv /\ Fifo /\ CallerFindsResult
  BY DEF IInv
<1>2. q \in Seq(Tasks) /\ q # <<>>
  BY <1>1 DEF TypeOK
<1>3. /\ Len(q) \in Nat /\ Len(q) > 0
      /\ h = q[1] /\ h \in Tasks
      /\ Tail(q) \in Seq(Tasks)
      /\ Len(Tail(q)) = Len(q) - 1
      /\ \A i \in 1..(Len(q) - 1) : Tail(q)[i] = q[i + 1]
  BY <1>2
<1>4. /\ status[h] = "queued" /\ PartitionOf[h] = p
      /\ \A i \in 2..Len(q) : q[i] \in Tasks /\ rank[h] < rank[q[i]]
  <2>1. 1 \in 1..Len(q)
    BY <1>3
  <2>2. status[q[1]] = "queued" /\ PartitionOf[q[1]] = p
    BY <2>1, <1>1 DEF QueueInv
  <2>3. \A i \in 2..Len(q) : rank[q[1]] < rank[q[i]]
    BY <2>1, <1>1 DEF QueueInv
  <2>4. \A i \in 2..Len(q) : q[i] \in Tasks
    BY <1>2
  <2>5. QED
    BY <2>2, <2>3, <2>4, <1>3
<1>5. /\ \A r \in Partitions \ {p} : /\ queues'[r] = queues[r]
                                    /\ workers'[r] = workers[r]
                                    /\ current'[r] = current[r]
      /\ queues'[p] = Tail(q) /\ workers'[p] = "draining" /\ current'[p] = h
      /\ \A u \in Tasks \ {h} : status'[u] = st[u]
      /\ status'[h] = "running"
      /\ rank' = rank /\ accepted' = accepted /\ callers' = callers
  BY <1>1, <1>3 DEF TypeOK, AtLoopHead
<1>6. TypeOK'
  <2>1. queues' \in [Partitions -> Seq(Tasks)]
    <3>1. queues \in [Partitions -> Seq(Tasks)] /\ Tail(q) \in Seq(Tasks)
      BY <1>1, <1>3 DEF TypeOK
    <3>2. QED
      BY <3>1, ExceptType, Zenon
  <2>2. current' \in [Partitions -> Tasks \cup {NoTask}]
    <3>1. current \in [Partitions -> Tasks \cup {NoTask}] /\ h \in Tasks \cup {NoTask}
      BY <1>1, <1>3 DEF TypeOK
    <3>2. QED
      BY <3>1, ExceptType, Zenon
  <2>3. status' \in [Tasks -> Statuses]
    <3>1. st \in [Tasks -> Statuses] /\ "running" \in Statuses
      BY DEF AtLoopHead, Statuses
    <3>2. QED
      BY <3>1, <1>3, ExceptType, Zenon
  <2>4. workers' \in [Partitions -> WorkerStates]
    <3>1. workers \in [Partitions -> WorkerStates] /\ "draining" \in WorkerStates
      BY <1>1 DEF TypeOK, WorkerStates
    <3>2. QED
      BY <3>1, ExceptType, Zenon
  <2>5. attempts' \in [Tasks -> Nat]
    BY <1>1, <1>3 DEF TypeOK
  <2>6. QED
    BY <2>1, <2>2, <2>3, <2>4, <2>5, <1>1, <1>5 DEF TypeOK
<1>7. QueueInv'
  <2>1. \A r \in Partitions : \A i \in 1..Len(queues'[r]) :
           /\ status'[queues'[r][i]] = "queued"
           /\ PartitionOf[queues'[r][i]] = r
    <3> SUFFICES ASSUME NEW r \in Partitions, NEW i \in 1..Len(queues'[r])
                 PROVE  /\ status'[queues'[r][i]] = "queued"
                        /\ PartitionOf[queues'[r][i]] = r
      OBVIOUS
    <3>1. CASE r # p
      <4>1. queues[r][i] \in Tasks /\ status[queues[r][i]] = "queued" /\ PartitionOf[queues[r][i]] = r
        <5>1. queues'[r] = queues[r] /\ queues[r] \in Seq(Tasks) /\ i \in 1..Len(queues[r])
          BY <3>1, <1>1, <1>5 DEF TypeOK
        <5>2. queues[r][i] \in Tasks
          BY <5>1
        <5>3. QED
          BY <5>1, <5>2, <1>1 DEF QueueInv
      <4>2. queues[r][i] # h
        BY <4>1, <3>1, <1>4
      <4>3. QED
        BY <4>1, <4>2, <3>1, <1>5 DEF AtLoopHead
    <3>2. CASE r = p
      <4>1. i + 1 \in 2..Len(q) /\ i + 1 \in 1..Len(q) /\ queues'[r][i] = q[i + 1]
        <5>1. queues'[r] = Tail(q)
          BY <3>2, <1>5
        <5>2. i \in 1..(Len(q) - 1)
          BY <5>1, <1>3
        <5>3. Tail(q)[i] = q[i + 1]
          BY <5>2, <1>3, Zenon
        <5>4. i + 1 \in 2..Len(q) /\ i + 1 \in 1..Len(q)
          BY <5>2, <1>2, LenProperties
        <5>5. QED
          BY <5>1, <5>3, <5>4
      <4>2. /\ q[i + 1] \in Tasks /\ rank[h] < rank[q[i + 1]]
            /\ status[q[i + 1]] = "queued" /\ PartitionOf[q[i + 1]] = p
        BY <4>1, <1>1, <1>4 DEF QueueInv
      <4>3. q[i + 1] # h
        BY <4>2, <1>1, <1>3 DEF TypeOK
      <4>4. QED
        BY <4>1, <4>2, <4>3, <3>2, <1>5 DEF AtLoopHead
    <3>3. QED
      BY <3>1, <3>2
  <2>2. \A r \in Partitions : \A i, j \in 1..Len(queues'[r]) :
           i < j => rank'[queues'[r][i]] < rank'[queues'[r][j]]
    <3> SUFFICES ASSUME NEW r \in Partitions, NEW i \in 1..Len(queues'[r]),
                        NEW j \in 1..Len(queues'[r]), i < j
                 PROVE  rank[queues'[r][i]] < rank[queues'[r][j]]
      BY <1>5
    <3>1. CASE r # p
      BY <3>1, <1>1, <1>5 DEF QueueInv
    <3>2. CASE r = p
      <4>1. /\ i + 1 \in 1..Len(q) /\ j + 1 \in 1..Len(q) /\ i + 1 < j + 1
            /\ queues'[r][i] = q[i + 1] /\ queues'[r][j] = q[j + 1]
        <5>1. queues'[r] = Tail(q)
          BY <3>2, <1>5
        <5>2. i \in 1..(Len(q) - 1) /\ j \in 1..(Len(q) - 1)
          BY <5>1, <1>3
        <5>3. Tail(q)[i] = q[i + 1] /\ Tail(q)[j] = q[j + 1]
          BY <5>2, <1>3, Zenon
        <5>4. i + 1 \in 1..Len(q) /\ j + 1 \in 1..Len(q) /\ i + 1 < j + 1
          BY <5>2, <1>2, LenProperties
        <5>5. QED
          BY <5>1, <5>3, <5>4
      <4>2. QED
        BY <4>1, <1>1 DEF QueueInv
    <3>3. QED
      BY <3>1, <3>2
  <2>3. \A u \in Tasks : status'[u] = "queued" =>
           \E i \in 1..Len(queues'[PartitionOf[u]]) : queues'[PartitionOf[u]][i] = u
    <3> SUFFICES ASSUME NEW u \in Tasks, status'[u] = "queued"
                 PROVE  \E i \in 1..Len(queues'[PartitionOf[u]]) :
                           queues'[PartitionOf[u]][i] = u
      OBVIOUS
    <3>1. u # h /\ status[u] = "queued" /\ PartitionOf[u] \in Partitions
      BY <1>5 DEF AtLoopHead
    <3>2. PICK i \in 1..Len(queues[PartitionOf[u]]) : queues[PartitionOf[u]][i] = u
      BY <3>1, <1>1 DEF QueueInv
    <3>3. CASE PartitionOf[u] # p
      BY <3>1, <3>2, <3>3, <1>5
    <3>4. CASE PartitionOf[u] = p
      <4>1. i \in 1..Len(q) /\ q[i] = u
        BY <3>2, <3>4
      <4>2. i # 1
        BY <4>1, <3>1, <1>3
      <4>3. i - 1 \in 1..(Len(q) - 1) /\ (i - 1) + 1 = i
        BY <4>1, <4>2, <1>3
      <4>4. i - 1 \in 1..Len(queues'[p]) /\ queues'[p][i - 1] = u
        BY <4>1, <4>3, <1>3, <1>5
      <4>5. QED
        BY <4>4, <3>4
    <3>5. QED
      BY <3>3, <3>4
  <2>4. QED
    BY <2>1, <2>2, <2>3 DEF QueueInv
<1>8. WorkerInv'
  <2>1. \A r \in Partitions : workers'[r] = "none" => queues'[r] = <<>>
    BY <1>1, <1>5 DEF WorkerInv
  <2>2. \A r \in Partitions : workers'[r] = "scheduled" => queues'[r] # <<>>
    BY <1>1, <1>5 DEF WorkerInv
  <2>3. ASSUME NEW r \in Partitions, workers'[r] = "draining"
        PROVE  /\ current'[r] \in Tasks
               /\ PartitionOf[current'[r]] = r
               /\ status'[current'[r]] = "running"
    <3>1. CASE r = p
      BY <3>1, <1>3, <1>4, <1>5
    <3>2. CASE r # p
      BY <3>2, <2>3, <1>1, <1>4, <1>5 DEF WorkerInv, AtLoopHead
    <3>3. QED
      BY <3>1, <3>2
  <2>4. ASSUME NEW u \in Tasks, status'[u] = "running"
        PROVE  workers'[PartitionOf[u]] = "draining" /\ current'[PartitionOf[u]] = u
    <3>1. CASE u = h
      BY <3>1, <1>4, <1>5
    <3>2. CASE u # h
      <4>1. PartitionOf[u] # p /\ status[u] = "running" /\ PartitionOf[u] \in Partitions
        BY <3>2, <2>4, <1>5 DEF AtLoopHead
      <4>2. QED
        BY <4>1, <1>1, <1>5 DEF WorkerInv
    <3>3. QED
      BY <3>1, <3>2
  <2>5. QED
    BY <2>1, <2>2, <2>3, <2>4 DEF WorkerInv
<1>9. RankInv'
  BY <1>1, <1>3, <1>4, <1>5 DEF RankInv, AtLoopHead
<1>10. CallerInv'
  <2>1. \A u \in Tasks : status[u] # "absent" => status'[u] # "absent"
    BY <1>4, <1>5 DEF AtLoopHead
  <2>2. QED
    BY <2>1, <1>1, <1>5 DEF CallerInv
<1>11. Fifo'
  <2> SUFFICES ASSUME NEW t \in Tasks, NEW u \in Tasks, PartitionOf[t] = PartitionOf[u],
                      0 < rank[t], rank[t] < rank[u], status'[u] # "queued"
               PROVE  status'[t] \in Finished
    BY <1>5 DEF Fifo
  <2>1. CASE PartitionOf[u] # p
    <3>1. u # h /\ t # h
      BY <2>1, <1>4
    <3>2. status'[u] = status[u] /\ status'[t] = status[t]
      BY <2>1, <3>1, <1>5 DEF AtLoopHead
    <3>3. QED
      BY <3>2, <1>1 DEF Fifo
  <2>2. CASE PartitionOf[u] = p /\ u # h
    <3>1. status[u] # "queued"
      BY <2>2, <1>5 DEF AtLoopHead
    <3>2. status[t] \in Finished
      BY <3>1, <1>1 DEF Fifo
    <3>3. t # h
      BY <3>2, <1>4 DEF Finished
    <3>4. QED
      BY <3>2, <3>3, <1>5 DEF AtLoopHead
  <2>3. CASE u = h
    <3>1. t # h
      BY <2>3, <1>1, <1>3 DEF TypeOK
    <3>2. status[t] # "queued"
      <4>1. SUFFICES ASSUME status[t] = "queued" PROVE FALSE
        OBVIOUS
      <4>2. PICK i \in 1..Len(q) : q[i] = t
        BY <4>1, <2>3, <1>1, <1>4 DEF QueueInv
      <4>3. i \in 2..Len(q)
        BY <4>2, <3>1, <1>3
      <4>4. rank[h] < rank[t]
        BY <4>2, <4>3, <1>4
      <4>5. QED
        BY <4>4, <2>3, <1>1, <1>3 DEF TypeOK
    <3>3. status[t] # "absent"
      BY <1>1 DEF RankInv, TypeOK
    <3>4. st[t] # "queued" /\ st[t] # "absent" /\ st[t] # "running" /\ st[t] \in Statuses
      BY <3>2, <3>3, <2>3, <1>4 DEF AtLoopHead
    <3>5. QED
      BY <3>1, <3>4, <1>5 DEF Statuses
  <2>4. QED
    BY <2>1, <2>2, <2>3
<1>12. CallerFindsResult'
  <2>1. \A u \in Tasks : status[u] \in Finished => status'[u] = status[u]
    BY <1>4, <1>5 DEF AtLoopHead, Finished
  <2>2. QED
    BY <2>1, <1>1, <1>5 DEF CallerFindsResult
<1>13. QED
  BY <1>6, <1>7, <1>8, <1>9, <1>10, <1>11, <1>12 DEF IInv

\* The worker leaves an empty deque: everything submitted to p has finished.
LEMMA ExitIInv ==
    ASSUME IInv, NEW p \in Partitions, NEW st, AtLoopHead(p, st), queues[p] = <<>>,
           UNCHANGED <<rank, accepted, queues, attempts>>,
           current' = [current EXCEPT ![p] = NoTask],
           status' = st,
           workers' = [workers EXCEPT ![p] = "none"],
           callers' = [t \in Tasks |-> IF Awaits(t, p) THEN "released" ELSE callers[t]]
    PROVE  IInv'
<1>1. TypeOK /\ QueueInv /\ WorkerInv /\ RankInv /\ CallerInv /\ Fifo /\ CallerFindsResult
  BY DEF IInv
<1>2. /\ \A r \in Partitions \ {p} : workers'[r] = workers[r] /\ current'[r] = current[r]
      /\ workers'[p] = "none" /\ current'[p] = NoTask
      /\ rank' = rank /\ accepted' = accepted /\ queues' = queues
  BY <1>1 DEF TypeOK
<1>3. \A t \in Tasks : PartitionOf[t] = p /\ status[t] # "absent" => st[t] \in Finished
  <2> SUFFICES ASSUME NEW t \in Tasks, PartitionOf[t] = p, status[t] # "absent"
               PROVE  st[t] \in Finished
    OBVIOUS
  <2>1. status[t] # "queued"
    <3>1. ~ \E i \in 1..Len(queues[p]) : TRUE
      <4>1. Len(queues[p]) = 0
        OBVIOUS
      <4>2. QED
        BY <4>1
    <3>2. QED
      BY <3>1, <1>1 DEF QueueInv
  <2>2. st[t] \in Statuses /\ st[t] # "queued" /\ st[t] # "absent" /\ st[t] # "running"
    BY <2>1 DEF AtLoopHead
  <2>3. QED
    BY <2>2 DEF Statuses
<1>4. TypeOK'
  <2>1. current' \in [Partitions -> Tasks \cup {NoTask}]
    BY <1>1 DEF TypeOK
  <2>2. workers' \in [Partitions -> WorkerStates]
    <3>1. workers \in [Partitions -> WorkerStates] /\ "none" \in WorkerStates
      BY <1>1 DEF TypeOK, WorkerStates
    <3>2. QED
      BY <3>1, ExceptType, Zenon
  <2>3. callers' \in [Tasks -> CallerStates]
    BY <1>1 DEF TypeOK, CallerStates
  <2>4. QED
    BY <2>1, <2>2, <2>3, <1>1, <1>2 DEF TypeOK, AtLoopHead
<1>5. QueueInv'
  <2>1. \A r \in Partitions : \A i \in 1..Len(queues[r]) : queues[r][i] \in Tasks
    BY <1>1 DEF TypeOK
  <2>2. \A t \in Tasks : status[t] = "queued" <=> status'[t] = "queued"
    BY DEF AtLoopHead
  <2>3. QED
    BY <2>1, <2>2, <1>1, <1>2 DEF QueueInv
<1>6. WorkerInv'
  <2>1. \A r \in Partitions : workers'[r] = "none" => queues'[r] = <<>>
    BY <1>1, <1>2 DEF WorkerInv
  <2>2. \A r \in Partitions : workers'[r] = "scheduled" => queues'[r] # <<>>
    BY <1>1, <1>2 DEF WorkerInv
  <2>3. \A r \in Partitions : workers'[r] = "draining" =>
           /\ current'[r] \in Tasks
           /\ PartitionOf[current'[r]] = r
           /\ status'[current'[r]] = "running"
    BY <1>1, <1>2 DEF WorkerInv, AtLoopHead
  <2>4. \A u \in Tasks : status'[u] = "running" =>
           workers'[PartitionOf[u]] = "draining" /\ current'[PartitionOf[u]] = u
    BY <1>1, <1>2 DEF WorkerInv, AtLoopHead
  <2>5. QED
    BY <2>1, <2>2, <2>3, <2>4 DEF WorkerInv
<1>7. RankInv'
  BY <1>1, <1>2 DEF RankInv, AtLoopHead
<1>8. \A t \in Tasks : callers'[t] = IF Awaits(t, p) THEN "released" ELSE callers[t]
  OBVIOUS
<1>9. CallerInv'
  BY <1>1, <1>2, <1>8 DEF CallerInv, AtLoopHead, Awaits
<1>10. Fifo'
  <2> SUFFICES ASSUME NEW t \in Tasks, NEW u \in Tasks, PartitionOf[t] = PartitionOf[u],
                      0 < rank[t], rank[t] < rank[u], st[u] # "queued"
               PROVE  st[t] \in Finished
    BY <1>2 DEF Fifo
  <2>1. status[t] \in Finished
    BY <1>1 DEF Fifo, AtLoopHead
  <2>2. QED
    BY <2>1 DEF AtLoopHead
<1>11. CallerFindsResult'
  <2> SUFFICES ASSUME NEW t \in Tasks,
                      callers'[t] \in {"released", "returned", "raised", "missing"}
               PROVE  st[t] \in Finished /\ callers'[t] # "missing"
    BY DEF CallerFindsResult
  <2>1. CASE Awaits(t, p)
    BY <2>1, <1>1, <1>3, <1>8 DEF CallerInv, Awaits
  <2>2. CASE ~ Awaits(t, p)
    BY <2>2, <1>1, <1>8 DEF CallerFindsResult, AtLoopHead
  <2>3. QED
    BY <2>1, <2>2
<1>12. QED
  BY <1>4, <1>5, <1>6, <1>7, <1>9, <1>10, <1>11 DEF IInv

\* One turn of the worker's loop, whichever way it goes.
LEMMA TakeOrExitIInv ==
    ASSUME IInv, NEW p \in Partitions, NEW st, AtLoopHead(p, st), TakeOrExit(p, st),
           UNCHANGED <<rank, accepted>>
    PROVE  IInv'
<1>1. CASE queues[p] # <<>>
  BY <1>1, TakeIInv, Zenon DEF TakeOrExit
<1>2. CASE queues[p] = <<>>
  BY <1>2, ExitIInv, Zenon DEF TakeOrExit
<1>3. QED
  BY <1>1, <1>2

\* A worker that starts finds nothing running in its partition, and neither
\* does one whose handler has just ended.
LEMMA StartAtLoopHead ==
    ASSUME IInv, NEW p \in Partitions, workers[p] = "scheduled"
    PROVE  AtLoopHead(p, status)
BY DEF IInv, TypeOK, WorkerInv, AtLoopHead

\* A worker whose handler has finished is at the head of its loop again.
LEMMA HandlerEndsAtLoopHead ==
    ASSUME IInv, NEW p \in Partitions, NEW o \in Finished, workers[p] = "draining"
    PROVE  AtLoopHead(p, [status EXCEPT ![current[p]] = o])
<1> DEFINE c == current[p]
           st == [status EXCEPT ![c] = o]
<1>1. TypeOK /\ WorkerInv
  BY DEF IInv
<1>2. c \in Tasks /\ PartitionOf[c] = p /\ status[c] = "running"
  BY <1>1 DEF WorkerInv
<1>3. st \in [Tasks -> Statuses]
  <2>1. status \in [Tasks -> Statuses] /\ o \in Statuses
    BY <1>1 DEF TypeOK, Statuses
  <2>2. QED
    BY <2>1, <1>2, ExceptType, Zenon
<1>4. st[c] = o /\ \A t \in Tasks \ {c} : st[t] = status[t]
  BY <1>1, <1>2 DEF TypeOK
<1>5. o # "queued" /\ o # "absent" /\ o # "running"
  BY DEF Finished
<1>6. \A t \in Tasks : PartitionOf[t] = p => st[t] # "running"
  BY <1>1, <1>2, <1>4, <1>5 DEF WorkerInv
<1>7. status[c] \notin Finished
  BY <1>2 DEF Finished
<1>8. QED
  BY <1>2, <1>3, <1>4, <1>5, <1>6, <1>7 DEF AtLoopHead

\* A caller that resumes finds its own command finished.
LEMMA CallerResumesIInv ==
    ASSUME IInv, NEW t \in Tasks, CallerResumes(t)
    PROVE  IInv'
<1>1. TypeOK /\ QueueInv /\ WorkerInv /\ RankInv /\ CallerInv /\ Fifo /\ CallerFindsResult
  BY DEF IInv
<1>2. /\ callers' = [callers EXCEPT ![t] = Answer(t)]
      /\ callers[t] = "released"
      /\ UNCHANGED <<rank, accepted, status, attempts, queues, workers, current>>
  BY DEF CallerResumes
<1>3. status[t] \in Finished
  BY <1>1, <1>2 DEF CallerFindsResult
<1>4. Answer(t) \in {"raised", "returned"}
  BY <1>3 DEF Answer, Finished
<1>5. callers' \in [Tasks -> CallerStates]
  <2>1. callers \in [Tasks -> CallerStates] /\ Answer(t) \in CallerStates
    BY <1>1, <1>4 DEF TypeOK, CallerStates
  <2>2. QED
    BY <2>1, <1>2, ExceptType, Zenon
<1>6. callers'[t] = Answer(t) /\ \A u \in Tasks \ {t} : callers'[u] = callers[u]
  BY <1>1, <1>2 DEF TypeOK
<1>7. TypeOK' /\ QueueInv' /\ WorkerInv' /\ RankInv' /\ Fifo'
  BY <1>1, <1>2, <1>5 DEF TypeOK, QueueInv, WorkerInv, RankInv, Fifo
<1>8. CallerInv'
  BY <1>1, <1>2, <1>3, <1>4, <1>6 DEF CallerInv, Finished
<1>9. CallerFindsResult'
  BY <1>1, <1>2, <1>3, <1>4, <1>6 DEF CallerFindsResult
<1>10. QED
  BY <1>7, <1>8, <1>9 DEF IInv

\* Every step keeps the invariant.
LEMMA NextIInv == IInv /\ [Next]_vars => IInv'
<1> SUFFICES ASSUME IInv, [Next]_vars PROVE IInv'
  OBVIOUS
<1>1. ASSUME NEW t \in Tasks, Submit(t) PROVE IInv'
  BY <1>1, EnqueueIInv DEF Submit
<1>2. ASSUME NEW t \in Tasks, SubmitAndWait(t) PROVE IInv'
  <2>1. PartitionOf[t] \in Partitions /\ workers \in [Partitions -> WorkerStates]
    BY DEF IInv, TypeOK
  <2>2. workers'[PartitionOf[t]] # "none"
    BY <1>2, <2>1 DEF SubmitAndWait, Enqueue, NewWorker
  <2>3. callers' = [callers EXCEPT ![t] = "waiting"]
    BY <1>2, <2>2 DEF SubmitAndWait, WaitIdle
  <2>4. QED
    BY <1>2, <2>3, EnqueueIInv DEF SubmitAndWait
<1>3. ASSUME NEW t \in Tasks, CallerResumes(t) PROVE IInv'
  BY <1>3, CallerResumesIInv
<1>4. ASSUME NEW p \in Partitions, Start(p) PROVE IInv'
  BY <1>4, StartAtLoopHead, TakeOrExitIInv DEF Start
<1>5. ASSUME NEW p \in Partitions, NEW o \in Finished, HandlerEnds(p, o) PROVE IInv'
  BY <1>5, HandlerEndsAtLoopHead, TakeOrExitIInv DEF HandlerEnds
<1>6. CASE UNCHANGED vars
  BY <1>6 DEF vars, IInv, TypeOK, QueueInv, WorkerInv, RankInv, CallerInv, Fifo, CallerFindsResult
<1>7. QED
  BY <1>1, <1>2, <1>3, <1>4, <1>5, <1>6 DEF Next

\* The inductive invariant holds in every reachable state.
THEOREM Invariance == Safety => []IInv
BY InitIInv, NextIInv, PTL DEF Safety

\* The task states, the deques, the workers and the requests keep their types.
THEOREM TypeCorrect == Safety => []TypeOK
<1>1. IInv => TypeOK
  BY DEF IInv
<1>2. QED
  BY <1>1, Invariance, PTL

\* The commands of a partition run one at a time, oldest first.
THEOREM FifoAlways == Safety => []Fifo
<1>1. IInv => Fifo
  BY DEF IInv
<1>2. QED
  BY <1>1, Invariance, PTL

\* A queued command is always in its deque, and its partition has a worker.
THEOREM NoTaskStrandedAlways == Safety => []NoTaskStranded
<1>1. IInv => NoTaskStranded
  <2> SUFFICES ASSUME IInv, NEW t \in Tasks, status[t] = "queued"
               PROVE  /\ workers[PartitionOf[t]] # "none"
                      /\ \E i \in 1..Len(queues[PartitionOf[t]]) : queues[PartitionOf[t]][i] = t
    BY DEF NoTaskStranded
  <2>1. PICK i \in 1..Len(queues[PartitionOf[t]]) : queues[PartitionOf[t]][i] = t
    BY DEF IInv, QueueInv
  <2>2. queues[PartitionOf[t]] # <<>>
    <3>1. SUFFICES ASSUME queues[PartitionOf[t]] = <<>> PROVE FALSE
      OBVIOUS
    <3>2. Len(queues[PartitionOf[t]]) = 0
      BY <3>1
    <3>3. QED
      BY <2>1, <3>2
  <2>3. workers[PartitionOf[t]] # "none"
    BY <2>2 DEF IInv, WorkerInv
  <2>4. QED
    BY <2>1, <2>3
<1>2. QED
  BY <1>1, Invariance, PTL

\* A request that continues after wait_idle finds its command finished.
THEOREM CallerFindsResultAlways == Safety => []CallerFindsResult
<1>1. IInv => CallerFindsResult
  BY DEF IInv
<1>2. QED
  BY <1>1, Invariance, PTL

-----------------------------------------------------------------------------
(* The queue implements SerialTasks: each step maps to the acceptance or    *)
(* the execution of one command, or to no step at all.  Besides IInv this   *)
(* needs that no handler runs twice for the same command.                   *)

\* A command has not been attempted before a worker takes it, and once after.
AttemptInv ==
    \A t \in Tasks : attempts[t] = IF status[t] \in {"absent", "queued"} THEN 0 ELSE 1

RInv == IInv /\ AttemptInv

\* An attempted command maps to its status without further ado.
Simple(st) == [t \in Tasks |-> CASE st[t] = "absent" -> "none"
                                 [] st[t] \in Finished -> st[t]
                                 [] OTHER -> "pending"]

-----------------------------------------------------------------------------
\* What a worker does at the head of its loop keeps the attempts right.
LEMMA TakeOrExitAttempts ==
    ASSUME IInv, AttemptInv, NEW p \in Partitions, NEW st, AtLoopHead(p, st),
           TakeOrExit(p, st),
           \A t \in Tasks : st[t] \in {"absent", "queued"} <=> status[t] \in {"absent", "queued"}
    PROVE  AttemptInv'
<1>1. TypeOK /\ QueueInv
  BY DEF IInv
<1>2. st \in [Tasks -> Statuses] /\ attempts \in [Tasks -> Nat]
  BY <1>1 DEF TypeOK, AtLoopHead
<1>3. CASE queues[p] # <<>>
  <2> DEFINE h == Head(queues[p])
  <2>1. queues[p] \in Seq(Tasks) /\ 1 \in 1..Len(queues[p]) /\ h = queues[p][1]
    BY <1>1, <1>3 DEF TypeOK
  <2>2. h \in Tasks /\ status[h] = "queued"
    BY <2>1, <1>1 DEF QueueInv
  <2>3. /\ status' = [st EXCEPT ![h] = "running"]
        /\ attempts' = [attempts EXCEPT ![h] = @ + 1]
    BY <1>3 DEF TakeOrExit
  <2> HIDE DEF h
  <2>4. attempts'[h] = 1 /\ status'[h] = "running"
    BY <1>2, <2>2, <2>3 DEF AttemptInv
  <2>5. \A t \in Tasks \ {h} : attempts'[t] = attempts[t] /\ status'[t] = st[t]
    BY <1>2, <2>2, <2>3
  <2>6. QED
    BY <2>2, <2>4, <2>5 DEF AttemptInv
<1>4. CASE queues[p] = <<>>
  <2>1. status' = st /\ attempts' = attempts
    BY <1>4 DEF TakeOrExit
  <2>2. QED
    BY <2>1 DEF AttemptInv
<1>5. QED
  BY <1>3, <1>4

\* No step attempts a command a second time.
LEMMA NextAttempts == RInv /\ [Next]_vars => AttemptInv'
<1> SUFFICES ASSUME IInv, AttemptInv, [Next]_vars PROVE AttemptInv'
  BY DEF RInv
<1>0. TypeOK /\ WorkerInv
  BY DEF IInv
<1>1. ASSUME NEW t \in Tasks, Enqueue(t) PROVE AttemptInv'
  <2>1. status \in [Tasks -> Statuses] /\ status[t] = "absent"
    BY <1>0, <1>1 DEF TypeOK, Enqueue
  <2>2. status' = [status EXCEPT ![t] = "queued"] /\ attempts' = attempts
    BY <1>1 DEF Enqueue
  <2>3. QED
    BY <2>1, <2>2 DEF AttemptInv
<1>2. ASSUME NEW t \in Tasks, CallerResumes(t) PROVE AttemptInv'
  BY <1>2 DEF CallerResumes, AttemptInv
<1>3. ASSUME NEW p \in Partitions, Start(p) PROVE AttemptInv'
  BY <1>3, StartAtLoopHead, TakeOrExitAttempts DEF Start
<1>4. ASSUME NEW p \in Partitions, NEW o \in Finished, HandlerEnds(p, o) PROVE AttemptInv'
  <2> DEFINE st == [status EXCEPT ![current[p]] = o]
  <2>1. workers[p] = "draining" /\ TakeOrExit(p, st)
    BY <1>4 DEF HandlerEnds
  <2>2. AtLoopHead(p, st)
    BY <2>1, HandlerEndsAtLoopHead
  <2>3. current[p] \in Tasks /\ status[current[p]] = "running"
    BY <1>0, <2>1 DEF WorkerInv
  <2>4. \A t \in Tasks : st[t] \in {"absent", "queued"} <=> status[t] \in {"absent", "queued"}
    BY <1>0, <2>3 DEF TypeOK, Finished
  <2> HIDE DEF st
  <2>5. QED
    BY <2>1, <2>2, <2>4, TakeOrExitAttempts
<1>5. CASE UNCHANGED vars
  BY <1>5 DEF vars, AttemptInv
<1>6. QED
  BY <1>1, <1>2, <1>3, <1>4, <1>5 DEF Next, Submit, SubmitAndWait

\* The strengthened invariant.
LEMMA RefinementInvariance == Safety => []RInv
<1>1. Init => RInv
  BY InitIInv DEF RInv, Init, AttemptInv
<1>2. RInv /\ [Next]_vars => RInv'
  BY NextIInv, NextAttempts DEF RInv
<1>3. QED
  BY <1>1, <1>2, PTL DEF Safety

-----------------------------------------------------------------------------
\* No reachable command is a repeated one.
LEMMA OutcomeIsSimple == RInv => Outcome = Simple(status)
<1> SUFFICES ASSUME RInv PROVE Outcome = Simple(status)
  OBVIOUS
<1>1. \A t \in Tasks : attempts[t] \in {0, 1}
  BY DEF RInv, AttemptInv
<1>2. \A t \in Tasks : Outcome[t] = Simple(status)[t]
  BY <1>1 DEF Outcome, Simple, Finished
<1>3. QED
  BY <1>2 DEF Outcome, Simple

\* A command that starts to run is still pending.
LEMMA TakeOrExitOutcome ==
    ASSUME IInv, NEW p \in Partitions, NEW st, AtLoopHead(p, st), TakeOrExit(p, st),
           \A t \in Tasks : status[t] = "queued" => st[t] = "queued"
    PROVE  Simple(status') = Simple(st)
<1>1. TypeOK /\ QueueInv
  BY DEF IInv
<1>2. st \in [Tasks -> Statuses]
  BY DEF AtLoopHead
<1>3. CASE queues[p] # <<>>
  <2> DEFINE h == Head(queues[p])
  <2>1. queues[p] \in Seq(Tasks) /\ 1 \in 1..Len(queues[p]) /\ h = queues[p][1]
    BY <1>1, <1>3 DEF TypeOK
  <2>2. h \in Tasks /\ st[h] = "queued"
    BY <2>1, <1>1 DEF QueueInv
  <2>3. status' = [st EXCEPT ![h] = "running"]
    BY <1>3 DEF TakeOrExit
  <2> HIDE DEF h
  <2>4. status'[h] = "running" /\ \A t \in Tasks \ {h} : status'[t] = st[t]
    BY <1>2, <2>2, <2>3
  <2>5. \A t \in Tasks : Simple(status')[t] = Simple(st)[t]
    BY <2>2, <2>4 DEF Simple, Finished
  <2>6. QED
    BY <2>5 DEF Simple
<1>4. CASE queues[p] = <<>>
  BY <1>4 DEF TakeOrExit
<1>5. QED
  BY <1>3, <1>4

\* enqueue is the acceptance of a command: it is younger than all others.
LEMMA EnqueueAccepts ==
    ASSUME RInv, RInv', NEW t \in Tasks, Enqueue(t)
    PROVE  Abstract!Accept(t)
<1>1. TypeOK /\ RankInv /\ TypeOK'
  BY DEF RInv, IInv
<1>2. /\ status[t] = "absent"
      /\ rank' = [rank EXCEPT ![t] = accepted + 1]
      /\ status' = [status EXCEPT ![t] = "queued"]
  BY DEF Enqueue
<1>3. Outcome = Simple(status) /\ Outcome' = Simple(status')
  BY OutcomeIsSimple DEF RInv, Outcome, Simple, IInv, AttemptInv, Finished
<1>4. Outcome[t] = "none"
  BY <1>2, <1>3 DEF Simple, Finished
<1>5. rank' \in [Tasks -> Nat] /\ \A u \in Tasks : rank[u] < rank'[t]
  BY <1>1, <1>2 DEF TypeOK, RankInv
<1>6. \A u \in Tasks \ {t} : rank'[u] = rank[u]
  BY <1>1, <1>2 DEF TypeOK
<1>7. Outcome' = [Outcome EXCEPT ![t] = "pending"]
  <2>1. status'[t] = "queued" /\ \A u \in Tasks \ {t} : status'[u] = status[u]
    BY <1>1, <1>2 DEF TypeOK
  <2>2. QED
    BY <2>1, <1>3 DEF Simple, Finished
<1>8. QED
  BY <1>4, <1>5, <1>6, <1>7 DEF Abstract!Accept

\* The end of a handler is the execution of the command its worker awaited.
LEMMA HandlerEndsExecutes ==
    ASSUME RInv, RInv', NEW p \in Partitions, NEW o \in Finished, HandlerEnds(p, o)
    PROVE  Abstract!Execute(current[p])
<1> DEFINE c == current[p]
           st == [status EXCEPT ![c] = o]
<1>1. TypeOK /\ WorkerInv /\ RankInv /\ Fifo
  BY DEF RInv, IInv
<1>2. workers[p] = "draining" /\ TakeOrExit(p, st) /\ rank' = rank
  BY DEF HandlerEnds
<1>3. c \in Tasks /\ status[c] = "running" /\ PartitionOf[c] = p
  BY <1>1, <1>2 DEF WorkerInv
<1>4. Outcome = Simple(status) /\ Outcome' = Simple(status')
  BY OutcomeIsSimple DEF RInv, Outcome, Simple, IInv, AttemptInv, Finished
<1>5. Outcome[c] = "pending"
  BY <1>3, <1>4 DEF Simple, Finished
<1>6. \A u \in Tasks : PartitionOf[u] = PartitionOf[c] /\ Outcome[u] = "pending"
                       => rank[c] <= rank[u]
  <2> SUFFICES ASSUME NEW u \in Tasks, PartitionOf[u] = PartitionOf[c], Outcome[u] = "pending",
                      rank[u] < rank[c]
               PROVE  FALSE
    BY <1>1, <1>3 DEF TypeOK
  <2>1. status[u] # "absent" /\ status[u] \notin Finished
    BY <1>4 DEF Simple, Finished
  <2>2. 0 < rank[u]
    BY <1>1, <2>1 DEF RankInv, TypeOK
  <2>3. QED
    BY <1>1, <1>3, <2>1, <2>2 DEF Fifo
<1>7. Outcome' = [Outcome EXCEPT ![c] = o]
  <2>1. Simple(status') = Simple(st)
    <3>1. AtLoopHead(p, st)
      BY <1>2, HandlerEndsAtLoopHead DEF RInv
    <3>2. \A t \in Tasks : status[t] = "queued" => st[t] = "queued"
      BY <1>1, <1>3 DEF TypeOK
    <3> HIDE DEF st
    <3>3. QED
      BY <1>2, <3>1, <3>2, TakeOrExitOutcome DEF RInv
  <2>2. st[c] = o /\ \A t \in Tasks \ {c} : st[t] = status[t]
    BY <1>1, <1>3 DEF TypeOK
  <2>3. QED
    BY <2>1, <2>2, <1>3, <1>4 DEF Simple, Finished
<1>8. QED
  BY <1>2, <1>3, <1>5, <1>6, <1>7 DEF Abstract!Execute, Abstract!Outcomes, Finished

\* A worker that begins to run executes nothing yet.
LEMMA StartStutters ==
    ASSUME RInv, RInv', NEW p \in Partitions, Start(p)
    PROVE  UNCHANGED Abstract!vars
<1>1. workers[p] = "scheduled" /\ TakeOrExit(p, status) /\ rank' = rank
  BY DEF Start
<1>2. AtLoopHead(p, status)
  BY <1>1, StartAtLoopHead DEF RInv
<1>3. Simple(status') = Simple(status)
  BY <1>1, <1>2, TakeOrExitOutcome DEF RInv
<1>4. Outcome = Simple(status) /\ Outcome' = Simple(status')
  BY OutcomeIsSimple DEF RInv, Outcome, Simple, IInv, AttemptInv, Finished
<1>5. QED
  BY <1>1, <1>3, <1>4 DEF Abstract!vars

\* A step of the queue is a step of SerialTasks or invisible there.
LEMMA StepSimulates == RInv /\ RInv' /\ [Next]_vars => [Abstract!Next]_(Abstract!vars)
<1> SUFFICES ASSUME RInv, RInv', [Next]_vars PROVE [Abstract!Next]_(Abstract!vars)
  OBVIOUS
<1>1. ASSUME NEW t \in Tasks, Enqueue(t) PROVE Abstract!Next
  BY <1>1, EnqueueAccepts DEF Abstract!Next
<1>2. ASSUME NEW t \in Tasks, CallerResumes(t) PROVE UNCHANGED Abstract!vars
  BY <1>2 DEF CallerResumes, Abstract!vars, Outcome
<1>3. ASSUME NEW p \in Partitions, Start(p) PROVE UNCHANGED Abstract!vars
  BY <1>3, StartStutters
<1>4. ASSUME NEW p \in Partitions, NEW o \in Finished, HandlerEnds(p, o) PROVE Abstract!Next
  <2>1. Abstract!Execute(current[p])
    BY <1>4, HandlerEndsExecutes
  <2>2. current[p] \in Tasks
    BY <1>4 DEF HandlerEnds, RInv, IInv, WorkerInv
  <2>3. QED
    BY <2>1, <2>2 DEF Abstract!Next
<1>5. CASE UNCHANGED vars
  BY <1>5 DEF vars, Abstract!vars, Outcome
<1>6. QED
  BY <1>1, <1>2, <1>3, <1>4, <1>5 DEF Next, Submit, SubmitAndWait

\* The queue executes each command once, and those of a partition in the
\* order of their submission: it implements SerialTasks.
THEOREM ImplementsSerialTasks == Safety => Abstract!Safety
<1>1. Init => Abstract!Init
  BY DEF Init, Abstract!Init, Outcome, Finished
<1>2. QED
  BY <1>1, RefinementInvariance, StepSimulates, PTL DEF Safety, Abstract!Safety
=============================================================================
