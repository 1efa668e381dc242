------------------------------- MODULE JobQueue -------------------------------
(***************************************************************************)
(* What SessionLock promises to its callers: the jobs given to             *)
(* queueJobForNumber for one number run one at a time and in the order of  *)
(* the calls, whatever the outcome of the earlier ones; jobs of different  *)
(* numbers are independent.  There is no promise and no table here.        *)
(***************************************************************************)
EXTENDS Naturals

CONSTANTS Jobs,     \* the closures passed as runJob, each passed once
          Numbers,  \* the addresses ("name.deviceId") that name the queues
          None      \* the value undefined

VARIABLES status,   \* where each job is in its life
          number,   \* the number a job was queued for
          ticket,   \* the position of a job's call among all calls, from 1
          calls     \* the number of calls so far

vars == <<status, number, ticket, calls>>

Settled(j) == status[j] \in {"fulfilled", "rejected"}

\* k was queued before j, for the same number.
Ahead(k, j) == /\ status[k] # "new"
               /\ number[k] = number[j]
               /\ ticket[k] < ticket[j]

Init == /\ status = [j \in Jobs |-> "new"]
        /\ number = [j \in Jobs |-> None]
        /\ ticket = [j \in Jobs |-> 0]
        /\ calls = 0

Enqueue(j, n) == /\ status[j] = "new"
                 /\ calls' = calls + 1
                 /\ status' = [status EXCEPT ![j] = "queued"]
                 /\ number' = [number EXCEPT ![j] = n]
                 /\ ticket' = [ticket EXCEPT ![j] = calls + 1]

\* Fault: a job starts without a look at those before it.
RunAtOnce(j) == /\ status[j] = "queued"
                /\ status' = [status EXCEPT ![j] = "running"]
                /\ UNCHANGED <<number, ticket, calls>>

Run(j) == /\ status[j] = "queued"
          /\ \A k \in Jobs : Ahead(k, j) => Settled(k)
          /\ status' = [status EXCEPT ![j] = "running"]
          /\ UNCHANGED <<number, ticket, calls>>

Finish(j, outcome) == /\ status[j] = "running"
                      /\ status' = [status EXCEPT ![j] = outcome]
                      /\ UNCHANGED <<number, ticket, calls>>

Next == \E j \in Jobs : \/ \E n \in Numbers : Enqueue(j, n)
                        \/ Run(j)
                        \/ \E outcome \in {"fulfilled", "rejected"} :
                             Finish(j, outcome)

Spec == Init /\ [][Next]_vars
=============================================================================
