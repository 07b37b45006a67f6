----------------------------- MODULE ThreadPool -----------------------------
(***************************************************************************)
(* ThreadPool and ThreadsafeQueue (powercores/include/powercores): an      *)
(* owner that starts the pool, submits jobs and barriers, changes the      *)
(* number of threads and stops it, and the worker threads, each with a     *)
(* queue of its own from which it takes several jobs at a time.            *)
(*                                                                         *)
(* An operation of a queue holds its lock, so it is one step. Submitting   *)
(* changes job_queue_pointer without a lock: there is one owner.           *)
(***************************************************************************)
EXTENDS Integers, Sequences, SequencesExt

CONSTANTS
  MaxThreads,   \* thread counts are 1 .. MaxThreads
  Batch,        \* jobs that a thread takes at a time (jobsSize)
  Ranges,       \* sizes of the submitted ranges
  MaxJobs, MaxBarriers, MaxStarts   \* bounds of the model

ASSUME PoolAssumption ==
  /\ MaxThreads \in Nat \ {0} /\ Batch \in Nat \ {0}
  /\ Ranges \subseteq Nat \ {0}
  /\ MaxJobs \in Nat /\ MaxBarriers \in Nat /\ MaxStarts \in Nat

VARIABLES
  thread_count, job_queue_pointer,
  job_queues,             \* the queues; what size() counts is left out
  worker_pc, jobs,        \* where a thread is, and what is left of its batch
  counter, fulfilled,     \* per barrier: arrivals, and whether they may go on
  owner_pc, todo,         \* where the owner is; the enqueues it has to do
  starts,
  phases, finished        \* history: barriers before each job; jobs done

Threads == 0 .. MaxThreads - 1
Pool    == 0 .. thread_count - 1

owned  == <<thread_count, job_queue_pointer, owner_pc, todo, starts, phases>>
vars   == <<owned, job_queues, worker_pc, jobs, counter, fulfilled, finished>>

\* What the queues hold: jobs by number, barriers with the arrivals they wait
\* for, and the job that throws ThreadPoolPoisonException.
Job(j)        == [kind |-> "job", id |-> j, goal |-> 0]
Barrier(b, n) == [kind |-> "barrier", id |-> b, goal |-> n]
Poison        == [kind |-> "poison", id |-> 0, goal |-> 0]

Init ==
  /\ thread_count \in 1 .. MaxThreads /\ job_queue_pointer = 0
  /\ job_queues = [t \in Threads |-> <<>>]
  /\ worker_pc = [t \in Threads |-> "none"] /\ jobs = [t \in Threads |-> <<>>]
  /\ counter = <<>> /\ fulfilled = {}
  /\ owner_pc = "stopped" /\ todo = <<>> /\ starts = 0
  /\ phases = <<>> /\ finished = {}

-----------------------------------------------------------------------------
(* The owner: start, the ways to submit, and stop.                         *)

Start ==
  /\ owner_pc = "stopped" /\ starts < MaxStarts
  /\ owner_pc' = "running" /\ starts' = starts + 1
  /\ worker_pc' = [t \in Threads |-> IF t \in Pool THEN "dequeue" ELSE "none"]
  /\ UNCHANGED <<thread_count, job_queue_pointer, todo, phases, job_queues, jobs,
                 counter, fulfilled, finished>>

\* Each call is the list of the enqueues that it does: to which queue, what,
\* and whether the queue's reader is notified.
Call(enqueues) ==
  /\ owner_pc = "running" /\ todo = <<>>
  /\ todo' = enqueues
  /\ UNCHANGED <<thread_count, owner_pc, starts, job_queues, worker_pc, jobs,
                 fulfilled, finished>>

Enqueue(q, item) == [queue |-> q, items |-> <<item>>, notify |-> TRUE]

\* submitJob once for each of the commands, from the pointer on.
SubmitEach(commands) ==
  [i \in DOMAIN commands |->
     Enqueue((job_queue_pointer + i - 1) % thread_count, commands[i])]

\* n new jobs.
NewJobs(n) == [i \in 1 .. n |-> Job(Len(phases) + i)]
Submitted(n) ==
  /\ Len(phases) + n <= MaxJobs
  /\ phases' = phases \o [i \in 1 .. n |-> Len(counter)]
  /\ UNCHANGED counter

\* Mutant: the pointer is not brought back into range.
Advanced_Unwrapped(n) == job_queue_pointer + n

Advanced(n) == (job_queue_pointer + n) % thread_count

\* submitJob, submitJobWithResult, submitJobRange and map: one at a time.
SubmitJobRange(n) ==
  /\ Submitted(n)
  /\ job_queue_pointer' = Advanced(n)
  /\ Call(SubmitEach(NewJobs(n)))

SubmitJobToAllThreads ==
  /\ Submitted(thread_count)
  /\ Call([i \in 1 .. thread_count |-> Enqueue(i - 1, Job(Len(phases) + i))])
  /\ UNCHANGED job_queue_pointer

\* An equal part for each thread with enqueueRange, which does not notify, and
\* the rest one at a time.
SubmitJobRangeUnordered(n) ==
  LET perThread == n \div thread_count
      rest      == SubSeq(NewJobs(n), perThread * thread_count + 1, n)
      Part(i)   == SubSeq(NewJobs(n), i * perThread + 1, (i + 1) * perThread)
  IN  /\ Submitted(n)
      /\ job_queue_pointer' = Advanced(Len(rest))
      /\ Call([i \in 1 .. thread_count |->
                 [queue  |-> (job_queue_pointer + i - 1) % thread_count,
                  items  |-> Part(i - 1), notify |-> FALSE]]
              \o SubmitEach(rest))

\* Mutant: a barrier opens one arrival too early.
Goal_OneTooFew == thread_count - 1

\* Mutant: a barrier waits for one arrival too many.
Goal_OneTooMany == thread_count + 1

\* The arrivals that open a barrier.
Goal == thread_count

\* The same job once for each thread, with a counter of its own.
SubmitBarrier ==
  /\ Len(counter) < MaxBarriers
  /\ counter' = Append(counter, 0)
  /\ Call(SubmitEach([i \in 1 .. thread_count |-> Barrier(Len(counter) + 1, Goal)]))
  /\ UNCHANGED <<phases, job_queue_pointer>>

\* stop, which setThreadCount and the destructor call as well.
Stop ==
  /\ Call([i \in 1 .. thread_count |-> Enqueue(i - 1, Poison)])
  /\ UNCHANGED <<phases, counter, job_queue_pointer>>

\* What a call to a queue that notifies does to its sleeping reader.
Notified(pc) == IF pc = "asleep" THEN "dequeue" ELSE pc

\* The next enqueue of the call.
DoEnqueue ==
  /\ todo # <<>>
  /\ LET next == Head(todo)
         q    == next.queue
     IN  /\ job_queues' = [job_queues EXCEPT ![q] = @ \o next.items]
         /\ worker_pc' = [worker_pc EXCEPT ![q] = IF next.notify THEN Notified(@) ELSE @]
         /\ owner_pc' = IF next.items = <<Poison>> /\ Len(todo) = 1
                        THEN "join" ELSE owner_pc
  /\ todo' = Tail(todo)
  /\ UNCHANGED <<thread_count, job_queue_pointer, starts, phases, jobs, counter,
                 fulfilled, finished>>

\* Every thread joined, and the queues deleted; setThreadCount goes on with
\* another number of threads.
Join ==
  /\ owner_pc = "join"
  /\ \A t \in Pool : worker_pc[t] = "dead"
  /\ owner_pc' = "stopped"
  /\ thread_count' \in 1 .. MaxThreads
  /\ job_queue_pointer' = 0
  /\ job_queues' = [t \in Threads |-> <<>>]
  /\ jobs' = [t \in Threads |-> <<>>]
  /\ UNCHANGED <<todo, starts, phases, worker_pc, counter, fulfilled, finished>>

Submit ==
  \/ \E n \in Ranges : SubmitJobRange(n) \/ SubmitJobRangeUnordered(n)
  \/ SubmitJobToAllThreads
  \/ SubmitBarrier

OwnerStep == DoEnqueue \/ Join

-----------------------------------------------------------------------------
(* A worker thread.                                                        *)

\* Mutant: the batch is filled from its end.
Taken_Reversed(queue, n) == Reverse(SubSeq(queue, 1, n))

\* The n items that leave the queue first.
Taken(queue, n) == SubSeq(queue, 1, n)

\* dequeueRange: the thread sleeps if the queue is empty.
DequeueRange(t) ==
  /\ worker_pc[t] = "dequeue"
  /\ LET n == IF Len(job_queues[t]) < Batch THEN Len(job_queues[t]) ELSE Batch
     IN  /\ jobs' = [jobs EXCEPT ![t] = Taken(job_queues[t], n)]
         /\ job_queues' = [job_queues EXCEPT ![t] = SubSeq(@, n + 1, Len(@))]
         /\ worker_pc' = [worker_pc EXCEPT ![t] = IF n = 0 THEN "asleep" ELSE "run"]
  /\ UNCHANGED <<owned, counter, fulfilled, finished>>

\* A condition variable may wake without a notification.
Wake(t) ==
  /\ worker_pc[t] = "asleep"
  /\ worker_pc' = [worker_pc EXCEPT ![t] = "dequeue"]
  /\ UNCHANGED <<owned, job_queues, jobs, counter, fulfilled, finished>>

\* The thread is done with the first job of its batch.
NextJob(t) ==
  /\ jobs' = [jobs EXCEPT ![t] = Tail(@)]
  /\ worker_pc' = [worker_pc EXCEPT ![t] = IF Len(jobs[t]) = 1 THEN "dequeue" ELSE "run"]

Begins(t, kind) == worker_pc[t] = "run" /\ Head(jobs[t]).kind = kind

BeginJob(t) ==
  /\ Begins(t, "job")
  /\ worker_pc' = [worker_pc EXCEPT ![t] = "busy"]
  /\ UNCHANGED <<owned, job_queues, jobs, counter, fulfilled, finished>>

FinishJob(t) ==
  /\ worker_pc[t] = "busy"
  /\ finished' = finished \cup {Head(jobs[t]).id}
  /\ NextJob(t)
  /\ UNCHANGED <<owned, job_queues, counter, fulfilled>>

\* fetch_add: the last to arrive goes on to set the promise, the others wait.
ArriveAtBarrier(t) ==
  /\ Begins(t, "barrier")
  /\ LET barrier == Head(jobs[t])
     IN  /\ counter' = [counter EXCEPT ![barrier.id] = @ + 1]
         /\ worker_pc' = [worker_pc EXCEPT ![t] =
                            IF counter[barrier.id] = barrier.goal - 1
                            THEN "fulfil" ELSE "wait"]
  /\ UNCHANGED <<owned, job_queues, jobs, fulfilled, finished>>

Fulfil(t) ==
  /\ worker_pc[t] = "fulfil"
  /\ fulfilled' = fulfilled \cup {Head(jobs[t]).id}
  /\ NextJob(t)
  /\ UNCHANGED <<owned, job_queues, counter, finished>>

WaitAtBarrier(t) ==
  /\ worker_pc[t] = "wait"
  /\ Head(jobs[t]).id \in fulfilled
  /\ NextJob(t)
  /\ UNCHANGED <<owned, job_queues, counter, fulfilled, finished>>

\* The exception ends the loop, and with it what is left of the batch.
Die(t) ==
  /\ Begins(t, "poison")
  /\ worker_pc' = [worker_pc EXCEPT ![t] = "dead"]
  /\ UNCHANGED <<owned, job_queues, jobs, counter, fulfilled, finished>>

Work(t) ==
  \/ DequeueRange(t) \/ BeginJob(t) \/ FinishJob(t)
  \/ ArriveAtBarrier(t) \/ Fulfil(t) \/ WaitAtBarrier(t) \/ Die(t)

Next ==
  \/ Start \/ Submit \/ Stop \/ OwnerStep
  \/ \E t \in Threads : Work(t) \/ Wake(t)

Spec == Init /\ [][Next]_vars

\* Threads are scheduled, a call goes on once it has begun, and jobs end. No
\* call is ever owed, and no wakeup without a notification.
FairSpec == Spec /\ WF_vars(OwnerStep) /\ \A t \in Threads : WF_vars(Work(t))

-----------------------------------------------------------------------------
(* Properties.                                                             *)

TypeOK ==
  /\ thread_count \in 1 .. MaxThreads /\ job_queue_pointer \in Pool
  /\ worker_pc \in [Threads -> {"none", "dequeue", "asleep", "run", "busy", "wait", "fulfil", "dead"}]
  /\ \A t \in Threads : Len(jobs[t]) <= Batch
  /\ \A t \in Threads : worker_pc[t] \in {"run", "busy", "wait", "fulfil"} => jobs[t] # <<>>
  /\ owner_pc \in {"stopped", "running", "join"}
  /\ finished \subseteq DOMAIN phases /\ fulfilled \subseteq DOMAIN counter

\* Every job submitted, whichever way, has run when stop returns: the poison
\* is behind all of them in every queue (stop, dequeueRange).
NothingLeftBehind == TypeOK /\ (owner_pc = "stopped" => finished = DOMAIN phases)

\* "A barrier ensures that all jobs enqueued before the barrier will finish
\* execution before any job after the barrier begins execution", and no job is
\* run twice: the pool is a JobPhases (submitBarrier, workerThreadFunction).
Phases == INSTANCE JobPhases WITH
  phase   <- Len(counter),
  running <- {Head(jobs[t]).id : t \in {u \in Threads : worker_pc[u] = "busy"}}

ImplementsPhases == Phases!Spec

\* stop returns: no barrier keeps a thread from its poison, however the
\* barriers and the jobs are spread over the batches of the threads.
StopReturns == owner_pc = "join" ~> owner_pc = "stopped"

\* "The jobs will run in some unspecified order": violated after
\* submitJobRangeUnordered, which wakes no thread.
JobsRun == \A j \in 1 .. MaxJobs : j \in DOMAIN phases ~> j \in finished

=============================================================================
