-------------------------- MODULE SessionLockProofs --------------------------
(***************************************************************************)
(* Proofs about SessionLock, for any set of jobs and numbers: mutual       *)
(* exclusion, call order, and that the table of promises implements the    *)
(* serial queue of JobQueue.                                               *)
(***************************************************************************)
EXTENDS SessionLock, TLAPS

Called(j) == status[j] # "new"

\* k was called before j, for the same number.
CalledBefore(k, j) == /\ Called(k)
                      /\ number[k] = number[j]
                      /\ ticket[k] < ticket[j]

\* The calls are numbered: each has its number and a ticket of its own.
TicketsOK ==
  /\ \A j \in Jobs : Called(j) => number[j] \in Numbers /\ ticket[j] \in 1..calls
  /\ \A j, k \in Jobs : Called(j) /\ Called(k) /\ ticket[j] = ticket[k] => j = k

\* The table holds the last job called for a number, or nothing once all the
\* jobs called for it have settled.
TableOK ==
  \A n \in Numbers :
    /\ jobQueue[n] = None =>
         \A k \in Jobs : Called(k) /\ number[k] = n => Settled(k)
    /\ jobQueue[n] # None =>
         /\ Called(jobQueue[n])
         /\ number[jobQueue[n]] = n
         /\ \A k \in Jobs : Called(k) /\ number[k] = n
                              => ticket[k] <= ticket[jobQueue[n]]

\* A job is chained to the job called just before it, or to nothing when all
\* the jobs called before it have settled.
ChainOK ==
  \A j \in Jobs : Called(j) =>
    /\ previous[j] = None => \A k \in Jobs : CalledBefore(k, j) => Settled(k)
    /\ previous[j] # None =>
         /\ CalledBefore(previous[j], j)
         /\ \A k \in Jobs : CalledBefore(k, j) => ticket[k] <= ticket[previous[j]]

\* The inductive invariant of the lock.
LockInv == Types /\ TicketsOK /\ TableOK /\ ChainOK /\ InCallOrder

-----------------------------------------------------------------------------
\* At the start no job was called and the table is empty.
LEMMA InitLockInv == Init => LockInv
  BY NoneAssumption
  DEF Init, LockInv, Types, Statuses, TicketsOK, TableOK, ChainOK, InCallOrder,
      Called, CalledBefore, Settled

\* A call numbers the job and chains it to the table's entry.
LEMMA CallKeepsLockInv ==
  ASSUME LockInv, NEW j \in Jobs, NEW n \in Numbers, QueueJobForNumber(j, n)
  PROVE  LockInv'
<1> USE DEF Called, Settled
<1>1. Types'
  BY DEF LockInv, Types, Statuses, QueueJobForNumber
<1>2. /\ status' = [status EXCEPT ![j] = "queued"]
      /\ number' = [number EXCEPT ![j] = n]
      /\ ticket' = [ticket EXCEPT ![j] = calls + 1]
      /\ calls' = calls + 1
      /\ previous' = [previous EXCEPT ![j] = jobQueue[n]]
      /\ jobQueue' = [jobQueue EXCEPT ![n] = j]
      /\ ~Called(j)
  BY DEF QueueJobForNumber
<1>3. \A k \in Jobs \ {j} :
        /\ status'[k] = status[k]
        /\ number'[k] = number[k]
        /\ ticket'[k] = ticket[k]
        /\ previous'[k] = previous[k]
  BY <1>2 DEF LockInv, Types
<1>4. /\ status'[j] = "queued"
      /\ number'[j] = n
      /\ ticket'[j] = calls + 1
      /\ previous'[j] = jobQueue[n]
      /\ jobQueue'[n] = j
      /\ \A m \in Numbers \ {n} : jobQueue'[m] = jobQueue[m]
  BY <1>2 DEF LockInv, Types
<1>5. calls \in Nat /\ calls' = calls + 1
  BY <1>2 DEF LockInv, Types
<1>6. \A k \in Jobs : Called(k) => number[k] \in Numbers /\ ticket[k] \in 1..calls
  BY DEF LockInv, TicketsOK
<1>7. TicketsOK'
  BY <1>2, <1>3, <1>4, <1>5, <1>6 DEF LockInv, TicketsOK
<1>8. TableOK'
  <2> SUFFICES ASSUME NEW m \in Numbers
               PROVE  /\ jobQueue'[m] = None =>
                          \A k \in Jobs : Called(k)' /\ number'[k] = m => Settled(k)'
                      /\ jobQueue'[m] # None =>
                          /\ Called(jobQueue[m])'
                          /\ number'[jobQueue'[m]] = m
                          /\ \A k \in Jobs : Called(k)' /\ number'[k] = m
                               => ticket'[k] <= ticket'[jobQueue'[m]]
    BY DEF TableOK
  <2>1. CASE m = n
    BY <2>1, <1>2, <1>3, <1>4, <1>5, <1>6, NoneAssumption
  <2>2. CASE m # n
    <3>1. jobQueue'[m] = jobQueue[m] /\ jobQueue[m] \in Jobs \cup {None}
      BY <2>2, <1>4 DEF LockInv, Types
    <3>2. jobQueue[m] # None => jobQueue[m] # j
      BY <1>2 DEF LockInv, TableOK
    <3> QED
      BY <2>2, <3>1, <3>2, <1>2, <1>3, <1>4 DEF LockInv, TableOK
  <2> QED
    BY <2>1, <2>2
<1>9. ChainOK'
  <2> SUFFICES ASSUME NEW i \in Jobs, Called(i)'
               PROVE  /\ previous'[i] = None =>
                          \A k \in Jobs : CalledBefore(k, i)' => Settled(k)'
                      /\ previous'[i] # None =>
                          /\ CalledBefore(previous[i], i)'
                          /\ \A k \in Jobs : CalledBefore(k, i)'
                               => ticket'[k] <= ticket'[previous'[i]]
    BY DEF ChainOK
  <2>1. CASE i = j
    <3>1. \A k \in Jobs : CalledBefore(k, j)' =>
             k # j /\ Called(k) /\ number[k] = n /\ ticket'[k] = ticket[k]
      BY <1>2, <1>3, <1>4, <1>5 DEF CalledBefore
    <3>2. CASE jobQueue[n] = None
      BY <2>1, <3>1, <3>2, <1>3, <1>4 DEF LockInv, TableOK
    <3>3. CASE jobQueue[n] # None
      <4>1. /\ jobQueue[n] \in Jobs \ {j}
            /\ Called(jobQueue[n])
            /\ number[jobQueue[n]] = n
            /\ ticket[jobQueue[n]] \in 1..calls
        BY <3>3, <1>2, <1>6 DEF LockInv, Types, TableOK
      <4>2. CalledBefore(previous[j], j)'
        BY <4>1, <1>3, <1>4, <1>5 DEF CalledBefore
      <4>3. \A k \in Jobs : CalledBefore(k, j)'
                              => ticket'[k] <= ticket'[previous'[j]]
        BY <3>1, <3>3, <4>1, <1>3, <1>4 DEF LockInv, TableOK
      <4> QED
        BY <2>1, <3>3, <4>2, <4>3, <1>4
    <3> QED
      BY <3>2, <3>3
  <2>2. CASE i # j
    <3>1. Called(i) /\ previous'[i] = previous[i] /\ ticket[i] \in 1..calls
      BY <2>2, <1>3, <1>6
    <3>2. \A k \in Jobs : CalledBefore(k, i)' <=> CalledBefore(k, i)
      BY <2>2, <3>1, <1>2, <1>3, <1>4, <1>5 DEF CalledBefore
    <3>3. \A k \in Jobs : CalledBefore(k, i) => k # j
      BY <1>2 DEF CalledBefore
    <3>4. previous[i] \in Jobs \cup {None}
      BY DEF LockInv, Types
    <3>5. previous[i] # None => CalledBefore(previous[i], i) /\ previous[i] \in Jobs \ {j}
      BY <3>1, <3>3, <3>4 DEF LockInv, ChainOK
    <3> QED
      BY <3>1, <3>2, <3>3, <3>5, <1>3 DEF LockInv, ChainOK, CalledBefore
  <2> QED
    BY <2>1, <2>2
<1>10. InCallOrder'
  BY <1>2, <1>3, <1>4, <1>5, <1>6 DEF LockInv, InCallOrder
<1> QED
  BY <1>1, <1>7, <1>8, <1>9, <1>10 DEF LockInv

\* When a job may start, every job called before it has settled.
LEMMA StartIsInTurn ==
  ASSUME LockInv, NEW j \in Jobs, Start(j)
  PROVE  \A k \in Jobs : CalledBefore(k, j) => Settled(k)
<1>1. Called(j) /\ status[j] = "queued"
  BY DEF Start, Called
<1>2. CASE previous[j] = None
  BY <1>1, <1>2 DEF LockInv, ChainOK
<1>3. CASE previous[j] # None
  <2> DEFINE p == previous[j]
  <2>1. p \in Jobs /\ CalledBefore(p, j) /\ Settled(p)
    BY <1>1, <1>3 DEF Start, Passed, Settled, LockInv, ChainOK, Types
  <2>2. \A k \in Jobs : CalledBefore(k, j) => k = p \/ CalledBefore(k, p)
    <3> SUFFICES ASSUME NEW k \in Jobs, CalledBefore(k, j), k # p
                 PROVE  CalledBefore(k, p)
      OBVIOUS
    <3>1. ticket[k] <= ticket[p] /\ number[k] = number[p]
      BY <1>1, <1>3, <2>1 DEF LockInv, ChainOK, CalledBefore
    <3>2. ticket[k] # ticket[p]
      BY <2>1 DEF LockInv, TicketsOK, CalledBefore
    <3> QED
      BY <2>1, <3>1, <3>2 DEF CalledBefore, LockInv, Types
  <2>3. \A k \in Jobs : CalledBefore(k, p) => Settled(k)
    BY <2>1 DEF LockInv, InCallOrder, CalledBefore, Called, Settled
  <2> QED
    BY <2>1, <2>2, <2>3
<1> QED
  BY <1>2, <1>3

\* A job starts, after all those called before it.
LEMMA StartKeepsLockInv ==
  ASSUME LockInv, NEW j \in Jobs, Start(j)
  PROVE  LockInv'
<1>1. /\ UNCHANGED <<number, ticket, calls, previous, jobQueue, cleaned>>
      /\ status' = [status EXCEPT ![j] = "running"]
      /\ status[j] = "queued"
  BY DEF Start
<1>2. Types'
  BY <1>1 DEF LockInv, Types, Statuses
<1>3. \A k \in Jobs : /\ Called(k)' <=> Called(k)
                      /\ Settled(k)' <=> Settled(k)
  BY <1>1 DEF LockInv, Types, Called, Settled
<1>4. TicketsOK'
  BY <1>1, <1>3 DEF LockInv, TicketsOK
<1>5. TableOK'
  BY <1>1, <1>3 DEF LockInv, Types, TableOK
<1>6. ChainOK'
  BY <1>1, <1>3 DEF LockInv, Types, ChainOK, CalledBefore
<1>7. InCallOrder'
  <2> SUFFICES ASSUME NEW i \in Jobs, NEW k \in Jobs,
                      status'[i] \notin {"new", "queued"}, CalledBefore(k, i)'
               PROVE  Settled(k)'
    BY DEF InCallOrder, CalledBefore, Called
  <2>1. CalledBefore(k, i)
    BY <1>1, <1>3 DEF CalledBefore
  <2>2. CASE i = j
    BY <2>1, <2>2, <1>3, StartIsInTurn
  <2>3. CASE i # j
    BY <2>1, <2>3, <1>1, <1>3 DEF LockInv, Types, InCallOrder, CalledBefore, Called
  <2> QED
    BY <2>2, <2>3
<1> QED
  BY <1>2, <1>4, <1>5, <1>6, <1>7 DEF LockInv

\* A job settles, either way.
LEMMA SettleKeepsLockInv ==
  ASSUME LockInv, NEW j \in Jobs, NEW outcome \in {"fulfilled", "rejected"},
         Settle(j, outcome)
  PROVE  LockInv'
<1>1. /\ UNCHANGED <<number, ticket, calls, previous, jobQueue, cleaned>>
      /\ status' = [status EXCEPT ![j] = outcome]
      /\ status[j] = "running"
  BY DEF Settle
<1>2. Types'
  BY <1>1 DEF LockInv, Types, Statuses
<1>3. \A k \in Jobs : /\ Called(k)' <=> Called(k)
                      /\ Settled(k) => Settled(k)'
                      /\ status'[k] \notin {"new", "queued"}
                           <=> status[k] \notin {"new", "queued"}
  BY <1>1 DEF LockInv, Types, Called, Settled
<1>4. TicketsOK'
  BY <1>1, <1>3 DEF LockInv, TicketsOK
<1>5. TableOK'
  BY <1>1, <1>3 DEF LockInv, Types, TableOK
<1>6. ChainOK'
  BY <1>1, <1>3 DEF LockInv, Types, ChainOK, CalledBefore
<1>7. InCallOrder'
  BY <1>1, <1>3 DEF LockInv, InCallOrder, Called
<1> QED
  BY <1>2, <1>4, <1>5, <1>6, <1>7 DEF LockInv

\* The clean-up drops the table's entry only when it is the job's own: every
\* job called for the number has settled by then.
LEMMA CleanUpKeepsLockInv ==
  ASSUME LockInv, NEW j \in Jobs, CleanUp(j)
  PROVE  LockInv'
<1> DEFINE n == number[j]
<1>1. /\ UNCHANGED <<status, number, ticket, calls, previous>>
      /\ jobQueue' = [jobQueue EXCEPT ![n] = IF @ = j THEN None ELSE @]
      /\ cleaned' = [cleaned EXCEPT ![j] = TRUE]
      /\ status[j] = "fulfilled"
  BY DEF CleanUp
<1>2. Types'
  BY <1>1 DEF LockInv, Types
<1>3. /\ TicketsOK'
      /\ ChainOK'
      /\ InCallOrder'
  BY <1>1 DEF LockInv, Types, TicketsOK, ChainOK, InCallOrder, CalledBefore,
              Called, Settled
<1>4. Called(j) /\ n \in Numbers
  BY <1>1 DEF LockInv, TicketsOK, Called
<1>5. TableOK'
  <2>1. CASE jobQueue[n] # j
    <3>1. jobQueue' = jobQueue
      BY <2>1, <1>1, <1>4 DEF LockInv, Types
    <3> QED
      BY <3>1, <1>1 DEF LockInv, TableOK, Called, Settled
  <2>2. CASE jobQueue[n] = j
    <3>1. jobQueue'[n] = None /\ \A m \in Numbers \ {n} : jobQueue'[m] = jobQueue[m]
      BY <2>2, <1>1, <1>4 DEF LockInv, Types
    <3>2. \A k \in Jobs : Called(k) /\ number[k] = n => Settled(k)
      <4> SUFFICES ASSUME NEW k \in Jobs, Called(k), number[k] = n
                   PROVE  Settled(k)
        OBVIOUS
      <4>1. j # None /\ ticket[k] \in Nat /\ ticket[j] \in Nat
        BY NoneAssumption DEF LockInv, Types
      <4>2. ticket[k] <= ticket[j]
        BY <2>2, <1>4, <4>1 DEF LockInv, TableOK
      <4>3. CASE ticket[k] = ticket[j]
        BY <4>3, <1>1, <1>4 DEF LockInv, TicketsOK, Settled
      <4>4. CASE ticket[k] < ticket[j]
        BY <4>4, <1>1 DEF LockInv, InCallOrder, Called
      <4> QED
        BY <4>1, <4>2, <4>3, <4>4
    <3> QED
      BY <3>1, <3>2, <1>1, <1>4 DEF LockInv, Types, TableOK, Called, Settled
  <2> QED
    BY <2>1, <2>2
<1> QED
  BY <1>2, <1>3, <1>5 DEF LockInv

\* Nothing moves in a stuttering step.
LEMMA StutterKeepsLockInv == LockInv /\ UNCHANGED vars => LockInv'
  BY DEF vars, LockInv, Types, TicketsOK, TableOK, ChainOK, InCallOrder,
         Called, CalledBefore, Settled

\* The lock's invariant holds in every reachable state.
THEOREM LockInvariant == Spec => []LockInv
<1>1. LockInv /\ [Next]_vars => LockInv'
  BY CallKeepsLockInv, StartKeepsLockInv, SettleKeepsLockInv,
     CleanUpKeepsLockInv, StutterKeepsLockInv DEF Next
<1> QED
  BY <1>1, InitLockInv, PTL DEF Spec

-----------------------------------------------------------------------------
\* Type correctness of the lock, and a queue of its own for each number.
THEOREM LockTypeOK == Spec => []TypeOK
<1>1. LockInv => TypeOK
  BY DEF LockInv, TypeOK, TableOK, ChainOK, QueuesApart, Called, CalledBefore
<1> QED
  BY <1>1, LockInvariant, PTL

\* A job starts only after all the jobs called before it for the same number
\* have settled.
THEOREM LockInCallOrder == Spec => []InCallOrder
  BY LockInvariant, PTL DEF LockInv

\* Two session operations on one address never overlap.
THEOREM LockMutualExclusion == Spec => []MutualExclusion
<1>1. LockInv => MutualExclusion
  <2> SUFFICES ASSUME LockInv, NEW j \in Jobs, NEW k \in Jobs,
                      status[j] = "running", status[k] = "running",
                      number[j] = number[k]
               PROVE  j = k
    BY DEF MutualExclusion
  <2>1. ~(ticket[k] < ticket[j]) /\ ~(ticket[j] < ticket[k])
    BY DEF LockInv, InCallOrder, Settled
  <2>2. ticket[j] = ticket[k]
    BY <2>1 DEF LockInv, Types
  <2> QED
    BY <2>2 DEF LockInv, TicketsOK, Called
<1> QED
  BY <1>1, LockInvariant, PTL

\* Every step of the lock is a step of the serial queue, or a clean-up that
\* the queue does not see.
THEOREM LockImplementsJobQueue == Spec => ImplementsJobQueue
<1>1. Init => JQ!Init
  BY DEF Init, JQ!Init
<1>2. LockInv /\ [Next]_vars => [JQ!Next]_(JQ!vars)
  <2> SUFFICES ASSUME LockInv, [Next]_vars
               PROVE  [JQ!Next]_(JQ!vars)
    OBVIOUS
  <2>1. ASSUME NEW j \in Jobs, NEW n \in Numbers, QueueJobForNumber(j, n)
        PROVE  JQ!Next
    BY <2>1 DEF QueueJobForNumber, JQ!Next, JQ!Enqueue
  <2>2. ASSUME NEW j \in Jobs, Start(j)
        PROVE  JQ!Next
    <3>1. \A k \in Jobs : JQ!Ahead(k, j) => JQ!Settled(k)
      BY <2>2, StartIsInTurn
      DEF JQ!Ahead, JQ!Settled, CalledBefore, Called, Settled
    <3>2. JQ!Run(j)
      BY <2>2, <3>1 DEF Start, JQ!Run
    <3> QED
      BY <3>2 DEF JQ!Next
  <2>3. ASSUME NEW j \in Jobs, NEW outcome \in {"fulfilled", "rejected"},
               Settle(j, outcome)
        PROVE  JQ!Next
    BY <2>3 DEF Settle, JQ!Next, JQ!Finish
  <2>4. ASSUME NEW j \in Jobs, CleanUp(j)
        PROVE  UNCHANGED JQ!vars
    BY <2>4 DEF CleanUp, JQ!vars
  <2>5. CASE UNCHANGED vars
    BY <2>5 DEF vars, JQ!vars
  <2> QED
    BY <2>1, <2>2, <2>3, <2>4, <2>5 DEF Next
<1> QED
  BY <1>1, <1>2, LockInvariant, PTL DEF Spec, ImplementsJobQueue, JQ!Spec
=============================================================================
