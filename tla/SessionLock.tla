----------------------------- MODULE SessionLock -----------------------------
(***************************************************************************)
(* src/SessionLock.js: a table jobQueue of promises, one per number, and   *)
(* queueJobForNumber, which chains a job behind the promise it finds       *)
(* there.  Every operation of SessionCipher and SessionBuilder that reads  *)
(* or writes a stored session runs as such a job.                          *)
(*                                                                         *)
(* A job stands for its promise runCurrent as well: the promise is pending *)
(* while the job is queued or running and settles with the job.  What a    *)
(* promise does when it settles is the event loop's: its reactions run     *)
(* one by one, in the order they were registered.  The clean-up of line 14 *)
(* is registered in the call that creates the promise, so it runs before   *)
(* the job that a later call chains to the same promise.                   *)
(***************************************************************************)
EXTENDS Naturals

CONSTANTS Jobs,     \* the closures passed as runJob, each passed once
          Numbers,  \* the addresses that name the queues
          None      \* the value undefined

ASSUME NoneAssumption == None \notin Jobs \cup Numbers

VARIABLES status,    \* where each job is in its life
          number,    \* the number a job was queued for
          ticket,    \* history: the position of its call among all calls
          calls,     \* history: the number of calls so far
          previous,  \* the job whose promise is runPrevious, None if resolved
          jobQueue,  \* the table: the job whose promise a number maps to
          cleaned    \* the clean-up of line 14 has run for this job

vars == <<status, number, ticket, calls, previous, jobQueue, cleaned>>

Statuses == {"new", "queued", "running", "fulfilled", "rejected"}

Types == /\ status \in [Jobs -> Statuses]
         /\ number \in [Jobs -> Numbers \cup {None}]
         /\ ticket \in [Jobs -> Nat]
         /\ calls \in Nat
         /\ previous \in [Jobs -> Jobs \cup {None}]
         /\ jobQueue \in [Numbers -> Jobs \cup {None}]
         /\ cleaned \in [Jobs -> BOOLEAN]

\* A number maps to a job of its own, which is chained to one of that number.
QueuesApart ==
  /\ \A n \in Numbers : jobQueue[n] # None => number[jobQueue[n]] = n
  /\ \A j \in Jobs : status[j] # "new" /\ previous[j] # None
                     => number[previous[j]] = number[j]

\* The types of the variables, and what the entries of the table and the
\* chains refer to: no call puts a job in the queue of another number.
TypeOK == Types /\ QueuesApart

Settled(j) == status[j] \in {"fulfilled", "rejected"}

Init == /\ status = [j \in Jobs |-> "new"]
        /\ number = [j \in Jobs |-> None]
        /\ ticket = [j \in Jobs |-> 0]
        /\ calls = 0
        /\ previous = [j \in Jobs |-> None]
        /\ jobQueue = [n \in Numbers |-> None]
        /\ cleaned = [j \in Jobs |-> FALSE]

\* Fault: the table has one entry, whatever the number.
QueueJobForNumberOneEntry(j, n) ==
  /\ status[j] = "new"
  /\ status' = [status EXCEPT ![j] = "queued"]
  /\ number' = [number EXCEPT ![j] = n]
  /\ calls' = calls + 1
  /\ ticket' = [ticket EXCEPT ![j] = calls + 1]
  /\ previous' = [previous EXCEPT ![j] = jobQueue[n]]
  /\ jobQueue' = [m \in Numbers |-> j]
  /\ UNCHANGED cleaned

\* Fault: the new promise is not put in the table when one is there.
QueueJobForNumberFirstStays(j, n) ==
  /\ status[j] = "new"
  /\ status' = [status EXCEPT ![j] = "queued"]
  /\ number' = [number EXCEPT ![j] = n]
  /\ calls' = calls + 1
  /\ ticket' = [ticket EXCEPT ![j] = calls + 1]
  /\ previous' = [previous EXCEPT ![j] = jobQueue[n]]
  /\ jobQueue' = [jobQueue EXCEPT ![n] = IF @ = None THEN j ELSE @]
  /\ UNCHANGED cleaned

\* queueJobForNumber(n, j): chain j to the promise in the table, or to a
\* resolved one, and put j's own promise in its place.
QueueJobForNumber(j, n) ==
  /\ status[j] = "new"
  /\ status' = [status EXCEPT ![j] = "queued"]
  /\ number' = [number EXCEPT ![j] = n]
  /\ calls' = calls + 1
  /\ ticket' = [ticket EXCEPT ![j] = calls + 1]
  /\ previous' = [previous EXCEPT ![j] = jobQueue[n]]
  /\ jobQueue' = [jobQueue EXCEPT ![n] = j]
  /\ UNCHANGED cleaned

\* Fault: runPrevious.then(runJob), without the handler for a rejection.
PassedIfFulfilled(k) == status[k] = "fulfilled" /\ cleaned[k]

\* Fault: a job waits for the one before it to start, not to settle.
PassedOnceStarted(k) == status[k] # "queued"

\* The promise of job k has settled and its earlier reactions have run: the
\* clean-up is a reaction to fulfilment only.
Passed(k) == \/ status[k] = "fulfilled" /\ cleaned[k]
             \/ status[k] = "rejected"

\* runPrevious.then(runJob, runJob): the job starts after the promise before
\* it, whether that promise was fulfilled or rejected.
Start(j) == /\ status[j] = "queued"
            /\ previous[j] # None => Passed(previous[j])
            /\ status' = [status EXCEPT ![j] = "running"]
            /\ UNCHANGED <<number, ticket, calls, previous, jobQueue, cleaned>>

\* The promise that runJob returned settles, and runCurrent with it.
Settle(j, outcome) ==
  /\ status[j] = "running"
  /\ status' = [status EXCEPT ![j] = outcome]
  /\ UNCHANGED <<number, ticket, calls, previous, jobQueue, cleaned>>

\* Fault: the clean-up deletes the entry of the number whoever owns it.
CleanUpAnyEntry(j) ==
  /\ status[j] = "fulfilled"
  /\ ~cleaned[j]
  /\ cleaned' = [cleaned EXCEPT ![j] = TRUE]
  /\ jobQueue' = [jobQueue EXCEPT ![number[j]] = None]
  /\ UNCHANGED <<status, number, ticket, calls, previous>>

\* Fault: the clean-up compares with the promise before its own.
CleanUpNoEntry(j) ==
  /\ status[j] = "fulfilled"
  /\ ~cleaned[j]
  /\ cleaned' = [cleaned EXCEPT ![j] = TRUE]
  /\ jobQueue' = [jobQueue EXCEPT ![number[j]] =
                    IF @ = previous[j] THEN None ELSE @]
  /\ UNCHANGED <<status, number, ticket, calls, previous>>

\* runCurrent.then(function() { if (jobQueue[number] === runCurrent) ... })
CleanUp(j) ==
  /\ status[j] = "fulfilled"
  /\ ~cleaned[j]
  /\ cleaned' = [cleaned EXCEPT ![j] = TRUE]
  /\ jobQueue' = [jobQueue EXCEPT ![number[j]] = IF @ = j THEN None ELSE @]
  /\ UNCHANGED <<status, number, ticket, calls, previous>>

Next == \E j \in Jobs : \/ \E n \in Numbers : QueueJobForNumber(j, n)
                        \/ Start(j)
                        \/ \E outcome \in {"fulfilled", "rejected"} :
                             Settle(j, outcome)
                        \/ CleanUp(j)

Spec == Init /\ [][Next]_vars

\* The event loop runs every reaction that is ready, and the storage calls a
\* job waits for answer in the end.
Fairness == \A j \in Jobs :
              /\ WF_vars(Start(j))
              /\ WF_vars(\E outcome \in {"fulfilled", "rejected"} :
                           Settle(j, outcome))
              /\ WF_vars(CleanUp(j))

FairSpec == Spec /\ Fairness

-----------------------------------------------------------------------------
\* Two jobs queued for one number never run at the same time: the load and
\* the store of one session operation are not interleaved with another's.
MutualExclusion ==
  \A j, k \in Jobs : /\ status[j] = "running"
                     /\ status[k] = "running"
                     /\ number[j] = number[k]
                     => j = k

\* A job starts only after every earlier call for its number has settled,
\* rejected ones and ones whose table entry is long gone included.
InCallOrder ==
  \A j, k \in Jobs : /\ status[j] \notin {"new", "queued"}
                     /\ status[k] # "new"
                     /\ number[k] = number[j]
                     /\ ticket[k] < ticket[j]
                     => Settled(k)

\* No job is starved: a rejected job does not block the queue behind it.
EveryJobSettles == \A j \in Jobs : (status[j] = "queued") ~> Settled(j)

\* The table does not keep the promise of a fulfilled job.
EntryReleased ==
  \A j \in Jobs : (status[j] = "fulfilled")
                     ~> (\A n \in Numbers : jobQueue[n] # j)

\* The lock behaves as the serial job queue.
JQ == INSTANCE JobQueue
ImplementsJobQueue == JQ!Spec
=============================================================================
