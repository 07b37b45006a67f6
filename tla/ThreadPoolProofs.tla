--------------------------- MODULE ThreadPoolProofs ---------------------------
(***************************************************************************)
(* Proofs about ThreadPool, for any numbers of threads, jobs, barriers and *)
(* starts, and any size of a batch.                                        *)
(*                                                                         *)
(* A worker takes items off its queue in batches, so what it has left to   *)
(* do is in two places.  The invariant speaks of the two of them put       *)
(* together, the thread's line, which dequeue_range leaves as it is, which *)
(* NextJob shortens at its head and which only the owner's calls lengthen, *)
(* and of the part of the owner's call that has not been made yet.         *)
(***************************************************************************)
EXTENDS ThreadPool, FiniteSetTheorems, SequenceTheorems, TLAPS

\* What a thread has left to do: the rest of its batch, then its queue.
line == [t \in Threads |-> jobs[t] \o job_queues[t]]

Item  == [kind : {"job", "barrier", "poison"}, id : Nat, goal : Nat]
Entry == [queue : Nat, items : Seq(Item), notify : BOOLEAN]

\* TypeOK, for any number of jobs and barriers.
Typed ==
  /\ thread_count \in 1 .. MaxThreads /\ job_queue_pointer \in Pool
  /\ worker_pc \in [Threads -> {"none", "dequeue", "asleep", "run", "busy", "wait", "fulfil", "dead"}]
  /\ job_queues \in [Threads -> Seq(Item)]
  /\ \A t \in Threads : Len(jobs[t]) <= Batch
  /\ jobs \in [Threads -> Seq(Item)]
  /\ todo \in Seq(Entry) /\ starts \in Nat
  /\ counter \in Seq(Nat) /\ phases \in Seq(Nat)
  /\ \A j \in 1 .. Len(phases) : phases[j] <= Len(counter)
  /\ owner_pc \in {"stopped", "running", "join"}
  /\ finished \subseteq 1 .. Len(phases) /\ fulfilled \subseteq 1 .. Len(counter)

\* The queues to which stop has sent the poison already.
Poisoned(t) ==
  \/ owner_pc = "join"
  \/ todo # <<>> /\ todo[1].items = <<Poison>> /\ t < todo[1].queue

\* What is left of one of the owner's calls: jobs, one barrier for each queue,
\* or the poison for the queues from some thread on.
JobCall ==
  \A k \in 1 .. Len(todo) : \A i \in 1 .. Len(todo[k].items) :
    \E j \in 1 .. Len(phases) : todo[k].items[i] = Job(j) /\ phases[j] = Len(counter)

BarrierCall ==
  /\ Len(counter) > 0
  /\ \A k \in 1 .. Len(todo) : todo[k].items = <<Barrier(Len(counter), thread_count)>>
  /\ \A k, l \in 1 .. Len(todo) : todo[k].queue = todo[l].queue => k = l

StopCall ==
  \A k \in 1 .. Len(todo) :
    todo[k].items = <<Poison>> /\ todo[k].queue = thread_count - Len(todo) + k - 1

OneCall ==
  /\ \A k \in 1 .. Len(todo) : todo[k].queue \in Pool
  /\ JobCall \/ BarrierCall \/ StopCall

\* A thread without a batch is about to get one, and a thread that works is at
\* the head of its batch.  The threads of the pool are the ones that have been
\* started, and they leave the pool with the poison in hand.
LifeOf(t) ==
  /\ worker_pc[t] \in {"none", "dequeue", "asleep"} => jobs[t] = <<>>
  /\ worker_pc[t] \in {"run", "busy", "wait", "fulfil"} => jobs[t] # <<>>
  /\ worker_pc[t] = "busy" => jobs[t][1].kind = "job"
  /\ worker_pc[t] \in {"wait", "fulfil"} => jobs[t][1].kind = "barrier"
  /\ owner_pc = "stopped" => worker_pc[t] \in {"none", "dead"} /\ line[t] = <<>>
  /\ owner_pc # "stopped" => (worker_pc[t] = "none" <=> t \notin Pool)
  /\ owner_pc # "stopped" /\ t \notin Pool => line[t] = <<>>
  /\ owner_pc # "stopped" /\ worker_pc[t] = "dead" => jobs[t] # <<>> /\ jobs[t][1] = Poison

Lifecycle ==
  /\ owner_pc # "running" => todo = <<>>
  /\ \A t \in Threads : LifeOf(t)

IsJob(x)     == \E j \in 1 .. Len(phases) : x = Job(j)
IsBarrier(x) == \E b \in 1 .. Len(counter) : x = Barrier(b, thread_count)

\* The poison is the last item of a line.
Items ==
  \A t \in Threads : \A i \in 1 .. Len(line[t]) :
    \/ IsJob(line[t][i]) \/ IsBarrier(line[t][i])
    \/ line[t][i] = Poison /\ i = Len(line[t]) /\ Poisoned(t)

\* No job is forgotten.
Present ==
  \A j \in 1 .. Len(phases) :
    \/ j \in finished
    \/ \E t \in Threads : \E i \in 1 .. Len(line[t]) : line[t][i] = Job(j)
    \/ \E k \in 1 .. Len(todo) : \E i \in 1 .. Len(todo[k].items) : todo[k].items[i] = Job(j)

\* A job is in one place, and in none once it is finished.
OnceOnLines ==
  \A t, u \in Threads : \A i \in 1 .. Len(line[t]), h \in 1 .. Len(line[u]) :
    line[t][i].kind = "job" /\ line[t][i] = line[u][h] => t = u /\ i = h

OnceInCall ==
  \A k, l \in 1 .. Len(todo) : \A i \in 1 .. Len(todo[k].items), h \in 1 .. Len(todo[l].items) :
    todo[k].items[i].kind = "job" /\ todo[k].items[i] = todo[l].items[h] => k = l /\ i = h

LineOrCall ==
  \A t \in Threads, k \in 1 .. Len(todo) :
    \A i \in 1 .. Len(line[t]), h \in 1 .. Len(todo[k].items) :
      line[t][i].kind = "job" => line[t][i] # todo[k].items[h]

LineNotFinished ==
  \A t \in Threads : \A i \in 1 .. Len(line[t]) :
    line[t][i].kind = "job" => line[t][i].id \notin finished

CallNotFinished ==
  \A k \in 1 .. Len(todo) : \A i \in 1 .. Len(todo[k].items) :
    todo[k].items[i].kind = "job" => todo[k].items[i].id \notin finished

Once == OnceOnLines /\ OnceInCall /\ LineOrCall /\ LineNotFinished /\ CallNotFinished

\* The barriers in front of an item.
Level(x) == IF x.kind = "job" THEN phases[x.id] ELSE x.id

Follows(x, y) == IF y.kind = "barrier" THEN Level(x) < Level(y) ELSE Level(x) <= Level(y)

\* A line is in the order of submission, as far as barriers tell it.
Sorted ==
  /\ \A t \in Threads : \A i, k \in 1 .. Len(line[t]) :
       i < k /\ line[t][k] # Poison => Follows(line[t][i], line[t][k])
  /\ \A k \in 1 .. Len(todo) : \A i \in 1 .. Len(line[todo[k].queue]) :
       todo[k].items = <<Barrier(Len(counter), thread_count)>> =>
         Level(line[todo[k].queue][i]) < Len(counter)

\* The thread has arrived at barrier b and is not past it.
At(t, b) ==
  /\ worker_pc[t] \in {"wait", "fulfil"} /\ line[t] # <<>>
  /\ line[t][1] = Barrier(b, thread_count)

\* The thread has yet to arrive at barrier b.
Ahead(t, b) ==
  \/ \E i \in 1 .. Len(line[t]) :
       line[t][i] = Barrier(b, thread_count) /\ ~(i = 1 /\ worker_pc[t] \in {"wait", "fulfil"})
  \/ \E k \in 1 .. Len(todo) :
       todo[k].queue = t /\ todo[k].items = <<Barrier(b, thread_count)>>

Late(b) == {t \in Pool : Ahead(t, b)}

\* A barrier that is not fulfilled is before every thread or under it; a thread
\* with a job from before the barrier has yet to arrive; the thread that is to
\* fulfil the barrier is the last; and while some are late, the counter and the
\* threads that are late make up the goal.  fetch_add (thread_pool.cpp:62) thus
\* returns goal - 1 to the last of them, and to no other.
Barriers ==
  /\ \A b \in 1 .. Len(counter), t \in Pool : b \in fulfilled \/ At(t, b) \/ Ahead(t, b)
  /\ \A t \in Threads : \A i \in 1 .. Len(line[t]) : \A b \in 1 .. Len(counter) :
       line[t][i].kind = "job" /\ Level(line[t][i]) < b => Ahead(t, b)
  /\ \A b \in fulfilled : Late(b) = {}
  /\ \A t \in Pool, b \in 1 .. Len(counter) :
       At(t, b) /\ worker_pc[t] = "fulfil" => Late(b) = {}
  /\ \A b \in 1 .. Len(counter) :
       Late(b) # {} => counter[b] + Cardinality(Late(b)) = thread_count

\* A pool that is stopped has nothing left.
Stopped ==
  owner_pc = "stopped" =>
    finished = 1 .. Len(phases) /\ fulfilled = 1 .. Len(counter)

IInv ==
  /\ Typed /\ OneCall /\ Lifecycle /\ Items /\ Present /\ Once /\ Sorted /\ Barriers /\ Stopped

-----------------------------------------------------------------------------
(***************************************************************************)
(* Sequences.                                                              *)
(***************************************************************************)
LEMMA TailOfConcat ==
  ASSUME NEW S, NEW s \in Seq(S), NEW r \in Seq(S), s # <<>>
  PROVE  /\ s \o r \in Seq(S) /\ s \o r # <<>> /\ (s \o r)[1] = s[1]
         /\ Tail(s \o r) = Tail(s) \o r
<1>1. /\ Len(s) \in Nat \ {0} /\ Len(r) \in Nat
      /\ s \o r \in Seq(S) /\ Len(s \o r) = Len(s) + Len(r)
      /\ \A i \in 1 .. Len(s) + Len(r) :
           (s \o r)[i] = IF i <= Len(s) THEN s[i] ELSE r[i - Len(s)]
  BY EmptySeq, LenProperties, ConcatProperties
<1>2. s \o r # <<>> /\ (s \o r)[1] = s[1]
  BY <1>1, EmptySeq
<1>3. /\ Tail(s \o r) \in Seq(S) /\ Len(Tail(s \o r)) = Len(s) + Len(r) - 1
      /\ \A i \in 1 .. Len(s) + Len(r) - 1 : Tail(s \o r)[i] = (s \o r)[i + 1]
  BY <1>1, <1>2, HeadTailProperties
<1>4. /\ Tail(s) \in Seq(S) /\ Len(Tail(s)) = Len(s) - 1
      /\ \A i \in 1 .. Len(s) - 1 : Tail(s)[i] = s[i + 1]
  BY HeadTailProperties
<1>5. /\ Tail(s) \o r \in Seq(S) /\ Len(Tail(s) \o r) = Len(s) - 1 + Len(r)
      /\ \A i \in 1 .. Len(s) - 1 + Len(r) :
           (Tail(s) \o r)[i] = IF i <= Len(s) - 1 THEN Tail(s)[i] ELSE r[i - (Len(s) - 1)]
  BY <1>1, <1>4, ConcatProperties
<1>6. \A i \in 1 .. Len(s) + Len(r) - 1 : Tail(s \o r)[i] = (Tail(s) \o r)[i]
  BY <1>1, <1>3, <1>4, <1>5
<1>7. Tail(s \o r) = Tail(s) \o r
  BY <1>1, <1>3, <1>5, <1>6, SeqEqual
<1> QED
  BY <1>1, <1>2, <1>7

LEMMA FirstPart ==
  ASSUME NEW S, NEW s \in Seq(S), NEW n \in 0 .. Len(s)
  PROVE  /\ SubSeq(s, 1, n) \in Seq(S) /\ Len(SubSeq(s, 1, n)) = n
         /\ SubSeq(s, n + 1, Len(s)) \in Seq(S)
         /\ SubSeq(s, 1, n) \o SubSeq(s, n + 1, Len(s)) = s
<1>1. Len(s) \in Nat /\ \A i \in 1 .. Len(s) : s[i] \in S
  BY LenProperties, ElementOfSeq
<1>2. SubSeq(s, 1, n) \in Seq(S) /\ Len(SubSeq(s, 1, n)) = n
  BY <1>1, SubSeqProperties
<1>3. SubSeq(s, n + 1, Len(s)) \in Seq(S)
  BY <1>1, SubSeqProperties
<1>4. SubSeq(s, 1, n) \o SubSeq(s, n + 1, Len(s)) = SubSeq(s, 1, Len(s))
  <2>1. 1 \in 1 .. Len(s) + 1 /\ n \in 1 - 1 .. Len(s) /\ Len(s) \in n .. Len(s)
    BY <1>1
  <2> QED
    BY <2>1, ConcatAdjacentSubSeq
<1> QED
  BY <1>2, <1>3, <1>4, SubSeqFull

LEMMA LineType ==
  ASSUME Typed
  PROVE  /\ line \in [Threads -> Seq(Item)]
         /\ \A t \in Threads : line[t] = jobs[t] \o job_queues[t]
<1> SUFFICES ASSUME NEW t \in Threads PROVE jobs[t] \o job_queues[t] \in Seq(Item)
  BY DEF line
<1> QED
  BY ConcatProperties DEF Typed

\* The batch is the first part of the line.
LEMMA BatchFirst ==
  ASSUME Typed, NEW t \in Threads, jobs[t] # <<>>
  PROVE  /\ line[t] # <<>> /\ line[t][1] = jobs[t][1] /\ Head(jobs[t]) = jobs[t][1]
         /\ Tail(jobs[t]) \o job_queues[t] = Tail(line[t])
<1>1. jobs[t] \in Seq(Item) /\ job_queues[t] \in Seq(Item)
  BY DEF Typed
<1>2. line[t] = jobs[t] \o job_queues[t]
  BY LineType
<1>3. Head(jobs[t]) = jobs[t][1]
  BY <1>1
<1> QED
  BY <1>1, <1>2, <1>3, TailOfConcat

\* What NextJob does to the line.
LEMMA DropsFirst ==
  ASSUME Typed, NEW t \in Threads, jobs[t] # <<>>, NextJob(t), job_queues' = job_queues
  PROVE  line' = [line EXCEPT ![t] = Tail(@)]
<1>1. jobs' = [jobs EXCEPT ![t] = Tail(@)]
  BY DEF NextJob
<1>2. Tail(jobs[t]) \o job_queues[t] = Tail(line[t])
  BY BatchFirst
<1>3. line' = [u \in Threads |-> jobs'[u] \o job_queues'[u]]
  BY DEF line, Threads
<1> QED
  BY <1>1, <1>2, <1>3 DEF Typed, line

LEMMA LineKept ==
  ASSUME jobs' = jobs, job_queues' = job_queues
  PROVE  line' = line
  BY DEF line, Threads

LEMMA DequeueKeeps ==
  ASSUME Typed, Lifecycle, NEW t \in Threads, DequeueRange(t)
  PROVE  /\ line' = line /\ jobs' \in [Threads -> Seq(Item)]
         /\ job_queues' \in [Threads -> Seq(Item)]
         /\ \A u \in Threads : Len(jobs'[u]) <= Batch
         /\ \A u \in Threads \ {t} : jobs'[u] = jobs[u] /\ worker_pc'[u] = worker_pc[u]
         /\ \/ worker_pc' = [worker_pc EXCEPT ![t] = "asleep"] /\ jobs'[t] = <<>>
            \/ worker_pc' = [worker_pc EXCEPT ![t] = "run"] /\ jobs'[t] # <<>>
<1> DEFINE q == job_queues[t]
           n == IF Len(q) < Batch THEN Len(q) ELSE Batch
<1>1. q \in Seq(Item) /\ Len(q) \in Nat /\ Batch \in Nat \ {0} /\ jobs[t] = <<>>
  BY PoolAssumption, LenProperties DEF Typed, Lifecycle, LifeOf, DequeueRange
<1>2. n \in 0 .. Len(q) /\ n <= Batch
  BY <1>1
<1>3. /\ SubSeq(q, 1, n) \in Seq(Item) /\ Len(SubSeq(q, 1, n)) = n
      /\ SubSeq(q, n + 1, Len(q)) \in Seq(Item)
      /\ SubSeq(q, 1, n) \o SubSeq(q, n + 1, Len(q)) = q
  <2> HIDE DEF n, q
  <2> QED
    BY <1>1, <1>2, FirstPart
<1>4. /\ jobs' = [jobs EXCEPT ![t] = SubSeq(q, 1, n)]
      /\ job_queues' = [job_queues EXCEPT ![t] = SubSeq(q, n + 1, Len(q))]
      /\ worker_pc' = [worker_pc EXCEPT ![t] = IF n = 0 THEN "asleep" ELSE "run"]
  BY DEF DequeueRange, Taken
<1> HIDE DEF n
<1>5. line' = line
  <2>1. line'[t] = SubSeq(q, 1, n) \o SubSeq(q, n + 1, Len(q))
    BY <1>4 DEF line, Threads, Typed
  <2>2. line[t] = <<>> \o q
    BY <1>1 DEF line
  <2>3. line'[t] = line[t]
    BY <1>1, <1>3, <2>1, <2>2, ConcatEmptySeq
  <2>4. \A u \in Threads \ {t} : line'[u] = line[u]
    BY <1>4 DEF line, Threads, Typed
  <2> QED
    BY <2>3, <2>4 DEF line, Threads
<1>6. n = 0 => SubSeq(q, 1, n) = <<>>
  BY <1>3, EmptySeq
<1>7. n # 0 => SubSeq(q, 1, n) # <<>>
  BY <1>3, EmptySeq
<1> QED
  BY <1>1, <1>2, <1>3, <1>4, <1>5, <1>6, <1>7 DEF Typed

-----------------------------------------------------------------------------
(***************************************************************************)
(* The calls.                                                              *)
(***************************************************************************)
LEMMA DivMod ==
  ASSUME NEW n \in Nat \ {0}, NEW x \in Int
  PROVE  x \div n \in Int /\ x % n \in 0 .. n - 1 /\ x % n = x - n * (x \div n)
<1>1. x % n = x - n * (x \div n)
  OBVIOUS
<1> QED
  BY <1>1

LEMMA Wrap == \A n \in Nat \ {0} : \A x \in 0 .. 2 * n - 1 : x % n = IF x < n THEN x ELSE x - n
  OBVIOUS

\* The queues that n calls of submitJob from the pointer on go to.
LEMMA RoundRobin ==
  ASSUME NEW n \in Nat \ {0}, NEW p \in 0 .. n - 1
  PROVE  /\ \A i \in Nat : (p + i) % n \in 0 .. n - 1
         /\ \A i, k \in 1 .. n : (p + i - 1) % n = (p + k - 1) % n => i = k
         /\ \A q \in 0 .. n - 1 : \E i \in 1 .. n : (p + i - 1) % n = q
<1>1. \A i \in 1 .. n : (p + i - 1) % n = IF p + i - 1 < n THEN p + i - 1 ELSE p + i - 1 - n
  <2> TAKE i \in 1 .. n
  <2> DEFINE x == p + i - 1
  <2>1. x \in 0 .. 2 * n - 1
    OBVIOUS
  <2> HIDE DEF x
  <2>2. x % n = IF x < n THEN x ELSE x - n
    BY <2>1, Wrap
  <2> QED
    BY <2>2 DEF x
<1>2. \A i \in Nat : (p + i) % n \in 0 .. n - 1
  OBVIOUS
<1>3. ASSUME NEW q \in 0 .. n - 1
      PROVE  \E i \in 1 .. n : (p + i - 1) % n = q
  <2>1. CASE q >= p
    <3> DEFINE i == q - p + 1
    <3>1. i \in 1 .. n /\ p + i - 1 = q
      BY <2>1
    <3> HIDE DEF i
    <3>2. (p + i - 1) % n = q
      BY <1>1, <3>1
    <3> QED
      BY <3>1, <3>2
  <2>2. CASE q < p
    <3> DEFINE i == q - p + 1 + n
    <3>1. i \in 1 .. n /\ p + i - 1 = q + n
      BY <2>2
    <3> HIDE DEF i
    <3>2. (p + i - 1) % n = q
      BY <1>1, <3>1
    <3> QED
      BY <3>1, <3>2
  <2> QED
    BY <2>1, <2>2
<1> QED
  BY <1>1, <1>2, <1>3

\* An index of the range, by the part and the place in it.
LEMMA PartOf ==
  ASSUME NEW n \in Nat \ {0}, NEW per \in Nat,
         NEW x \in 1 .. n * per
  PROVE  \E k \in 1 .. n, h \in 1 .. per : x = (k - 1) * per + h
<1>1. per # 0
  OBVIOUS
<1> DEFINE d == (x - 1) \div per
           m == (x - 1) % per
<1>2. d \in Int /\ m \in 0 .. per - 1 /\ m = (x - 1) - per * d
  BY <1>1, DivMod
<1> HIDE DEF d, m
<1>3. d >= 0
  <2>1. d < 0 => per * d <= -per
    BY <1>1, <1>2
  <2> QED
    BY <1>2, <2>1
<1>4. d < n
  <2>1. d >= n => per * d >= per * n
    BY <1>1, <1>2
  <2>2. per * n = n * per
    OBVIOUS
  <2> QED
    BY <1>2, <2>1, <2>2
<1>5. d + 1 \in 1 .. n /\ m + 1 \in 1 .. per
  BY <1>2, <1>3, <1>4
<1>6. x = ((d + 1) - 1) * per + (m + 1)
  BY <1>2
<1> QED
  BY <1>5, <1>6

LEMMA OnePart ==
  ASSUME NEW per \in Nat, NEW k \in Nat, NEW l \in Nat,
         NEW h \in 1 .. per, NEW i \in 1 .. per,
         k * per + h = l * per + i
  PROVE  k = l /\ h = i
<1>1. ~(k < l)
  <2>1. k < l => (k + 1) * per <= l * per
    OBVIOUS
  <2> QED
    BY <2>1
<1>2. ~(l < k)
  <2>1. l < k => (l + 1) * per <= k * per
    OBVIOUS
  <2> QED
    BY <2>1
<1> QED
  BY <1>1, <1>2

LEMMA FunctionIsSeq ==
  ASSUME NEW S, NEW n \in Nat, NEW f \in [1 .. n -> S]
  PROVE  f \in Seq(S) /\ Len(f) = n
<1>1. f \in Seq(S)
  OBVIOUS
<1>2. DOMAIN f = 1 .. Len(f) /\ DOMAIN f = 1 .. n /\ Len(f) \in Nat
  BY <1>1, LenProperties
<1> QED
  BY <1>1, <1>2

LEMMA Single ==
  ASSUME NEW S, NEW x \in S
  PROVE  <<x>> \in Seq(S) /\ Len(<<x>>) = 1 /\ <<x>>[1] = x
  OBVIOUS

LEMMA EnqueueFields ==
  \A q, x : Enqueue(q, x).queue = q /\ Enqueue(q, x).items = <<x>>
  BY DEF Enqueue

LEMMA EachIsEnqueued ==
  ASSUME Typed, NEW commands \in Seq(Item)
  PROVE  LET calls == SubmitEach(commands)
         IN  /\ calls \in Seq(Entry) /\ Len(calls) = Len(commands)
             /\ \A i \in 1 .. Len(commands) :
                  /\ calls[i].queue = (job_queue_pointer + i - 1) % thread_count
                  /\ calls[i].queue \in Pool /\ calls[i].items = <<commands[i]>>
<1> DEFINE n == Len(commands)
           calls == SubmitEach(commands)
<1>1. n \in Nat /\ DOMAIN commands = 1 .. n /\ \A i \in 1 .. n : commands[i] \in Item
  BY LenProperties, ElementOfSeq
<1>2. ASSUME NEW i \in 1 .. n
      PROVE  (job_queue_pointer + i - 1) % thread_count \in Pool
  <2>1. i - 1 \in Nat /\ thread_count \in Nat \ {0} /\ job_queue_pointer \in 0 .. thread_count - 1
    BY PoolAssumption DEF Typed, Pool
  <2>2. (job_queue_pointer + (i - 1)) % thread_count \in 0 .. thread_count - 1
    BY <2>1, RoundRobin
  <2>3. job_queue_pointer + (i - 1) = job_queue_pointer + i - 1
    BY <2>1
  <2> QED
    BY <2>2, <2>3 DEF Pool
<1>3. Pool \subseteq Nat
  BY PoolAssumption DEF Pool, Typed
<1>4. calls = [i \in 1 .. n |-> Enqueue((job_queue_pointer + i - 1) % thread_count, commands[i])]
  BY <1>1 DEF SubmitEach
<1>5. \A i \in 1 .. n : calls[i] = Enqueue((job_queue_pointer + i - 1) % thread_count, commands[i])
  BY <1>4
<1>6. \A i \in 1 .. n :
        Enqueue((job_queue_pointer + i - 1) % thread_count, commands[i]) \in Entry
  <2> TAKE i \in 1 .. n
  <2>1. <<commands[i]>> \in Seq(Item)
    BY <1>1, Single
  <2> QED
    BY <1>2, <1>3, <2>1 DEF Enqueue, Entry
<1>7. calls \in [1 .. n -> Entry]
  BY <1>4, <1>6
<1>8. calls \in Seq(Entry) /\ Len(calls) = n
  <2> HIDE DEF n, calls
  <2> QED
    BY <1>1, <1>7, FunctionIsSeq
<1>9. \A i \in 1 .. n :
        /\ calls[i].queue = (job_queue_pointer + i - 1) % thread_count
        /\ calls[i].queue \in Pool /\ calls[i].items = <<commands[i]>>
  <2> HIDE DEF calls, n
  <2> TAKE i \in 1 .. n
  <2>1. calls[i] = Enqueue((job_queue_pointer + i - 1) % thread_count, commands[i])
    BY <1>5
  <2> QED
    BY <1>2, <2>1, EnqueueFields
<1> QED
  BY <1>8, <1>9

LEMMA JobIsItem == \A j \in Nat : Job(j) \in Item /\ Job(j).kind = "job" /\ Job(j).id = j
  BY DEF Job, Item

\* The call's list has each of m new jobs, and once.
NewJobsOnce(m) ==
  /\ todo' \in Seq(Entry)
  /\ \A k \in 1 .. Len(todo') : todo'[k].queue \in Pool
  /\ \A k \in 1 .. Len(todo') : \A i \in 1 .. Len(todo'[k].items) :
       \E x \in 1 .. m : todo'[k].items[i] = Job(Len(phases) + x)
  /\ \A x \in 1 .. m : \E k \in 1 .. Len(todo') : \E i \in 1 .. Len(todo'[k].items) :
       todo'[k].items[i] = Job(Len(phases) + x)
  /\ \A k, l \in 1 .. Len(todo') :
       \A i \in 1 .. Len(todo'[k].items), h \in 1 .. Len(todo'[l].items) :
         todo'[k].items[i] = todo'[l].items[h] => k = l /\ i = h

LEMMA NewJobsType ==
  ASSUME Typed, NEW m \in Nat
  PROVE  /\ NewJobs(m) \in Seq(Item) /\ Len(NewJobs(m)) = m
         /\ \A i \in 1 .. m : NewJobs(m)[i] = Job(Len(phases) + i)
<1>1. Len(phases) \in Nat
  BY LenProperties DEF Typed
<1>2. NewJobs(m) \in [1 .. m -> Item]
  BY <1>1, JobIsItem DEF NewJobs
<1>3. \A i \in 1 .. m : NewJobs(m)[i] = Job(Len(phases) + i)
  BY DEF NewJobs
<1> QED
  BY <1>2, <1>3, FunctionIsSeq

\* A call that enqueues each job on its own.
LEMMA OneByOne ==
  ASSUME Typed, NEW m \in Nat, todo' \in Seq(Entry), Len(todo') = m,
         \A i \in 1 .. m : todo'[i].queue \in Pool /\ todo'[i].items = <<Job(Len(phases) + i)>>
  PROVE  NewJobsOnce(m)
<1>1. Len(phases) \in Nat
  BY LenProperties DEF Typed
<1>2. \A i \in 1 .. m : Len(todo'[i].items) = 1 /\ todo'[i].items[1] = Job(Len(phases) + i)
  <2> TAKE i \in 1 .. m
  <2>1. Job(Len(phases) + i) \in Item
    BY <1>1, JobIsItem
  <2> QED
    BY <2>1, Single
<1>3. \A i, k \in 1 .. m : Job(Len(phases) + i) = Job(Len(phases) + k) => i = k
  BY <1>1, JobIsItem
<1>4. \A k \in 1 .. m : \A i \in 1 .. Len(todo'[k].items) :
        i = 1 /\ todo'[k].items[i] = Job(Len(phases) + k)
  <2> TAKE k \in 1 .. m
  <2>1. Len(todo'[k].items) = 1 /\ todo'[k].items[1] = Job(Len(phases) + k)
    BY <1>2
  <2> QED
    BY <2>1
<1>5. \A k \in 1 .. m : 1 \in 1 .. Len(todo'[k].items)
  BY <1>2
<1>6. \A k, l \in 1 .. m :
       \A i \in 1 .. Len(todo'[k].items), h \in 1 .. Len(todo'[l].items) :
         todo'[k].items[i] = todo'[l].items[h] => k = l /\ i = h
  <2> TAKE k, l \in 1 .. m
  <2> TAKE i \in 1 .. Len(todo'[k].items), h \in 1 .. Len(todo'[l].items)
  <2>1. /\ i = 1 /\ todo'[k].items[i] = Job(Len(phases) + k)
        /\ h = 1 /\ todo'[l].items[h] = Job(Len(phases) + l)
    BY <1>4
  <2> QED
    BY <1>3, <2>1
<1>7. \A k \in 1 .. Len(todo') : todo'[k].queue \in Pool
  OBVIOUS
<1>8. \A k \in 1 .. Len(todo') : \A i \in 1 .. Len(todo'[k].items) :
        \E x \in 1 .. m : todo'[k].items[i] = Job(Len(phases) + x)
  BY <1>4
<1>9. \A x \in 1 .. m : \E k \in 1 .. Len(todo') : \E i \in 1 .. Len(todo'[k].items) :
        todo'[k].items[i] = Job(Len(phases) + x)
  <2> TAKE x \in 1 .. m
  <2> WITNESS x \in 1 .. Len(todo')
  <2> WITNESS 1 \in 1 .. Len(todo'[x].items)
  <2> QED
    BY <1>2
<1> QED
  BY <1>6, <1>7, <1>8, <1>9 DEF NewJobsOnce

LEMMA RangeOnce ==
  ASSUME Typed, NEW n \in Ranges, SubmitJobRange(n)
  PROVE  NewJobsOnce(n)
<1>1. n \in Nat /\ todo' = SubmitEach(NewJobs(n))
  BY PoolAssumption DEF SubmitJobRange, Call
<1> QED
  BY <1>1, NewJobsType, EachIsEnqueued, OneByOne

LEMMA AllThreadsOnce ==
  ASSUME Typed, SubmitJobToAllThreads
  PROVE  NewJobsOnce(thread_count)
<1>1. thread_count \in Nat \ {0} /\ Len(phases) \in Nat
  BY PoolAssumption, LenProperties DEF Typed
<1>2. todo' = [i \in 1 .. thread_count |-> Enqueue(i - 1, Job(Len(phases) + i))]
  BY DEF SubmitJobToAllThreads, Call
<1>3. \A i \in 1 .. thread_count : Enqueue(i - 1, Job(Len(phases) + i)) \in Entry
  <2> TAKE i \in 1 .. thread_count
  <2>1. <<Job(Len(phases) + i)>> \in Seq(Item)
    BY <1>1, JobIsItem, Single
  <2> QED
    BY <1>1, <2>1 DEF Enqueue, Entry
<1>4. todo' \in Seq(Entry) /\ Len(todo') = thread_count
  BY <1>1, <1>2, <1>3, FunctionIsSeq
<1>5. \A i \in 1 .. thread_count :
        todo'[i].queue \in Pool /\ todo'[i].items = <<Job(Len(phases) + i)>>
  BY <1>1, <1>2 DEF Enqueue, Pool
<1> QED
  BY <1>1, <1>4, <1>5, OneByOne

\* SubmitJobRangeUnordered: a part for each thread, and the rest.
LEMMA UnorderedOnce ==
  ASSUME Typed, NEW n \in Ranges, SubmitJobRangeUnordered(n)
  PROVE  NewJobsOnce(n)
<1> DEFINE c    == thread_count
           per  == n \div c
           most == c * per
           rest == SubSeq(NewJobs(n), per * c + 1, n)
           Part(i) == SubSeq(NewJobs(n), i * per + 1, (i + 1) * per)
           parts == [i \in 1 .. c |-> [queue  |-> (job_queue_pointer + i - 1) % c,
                                       items  |-> Part(i - 1), notify |-> FALSE]]
           N(x) == Job(Len(phases) + x)
<1>1. c \in Nat \ {0} /\ n \in Nat /\ Len(phases) \in Nat /\ job_queue_pointer \in 0 .. c - 1
  BY PoolAssumption, LenProperties DEF Typed, Pool
<1>2. per \in Nat /\ most \in Nat /\ most <= n /\ per * c = most
  <2> HIDE DEF c, most
  <2>1. per \in Int /\ n % c \in 0 .. c - 1 /\ n % c = n - c * per
    <3>1. c \in Nat \ {0} /\ n \in Int
      BY <1>1
    <3> QED
      BY ONLY <3>1, DivMod
  <2> HIDE DEF per
  <2>2. per >= 0
    <3>1. per < 0 => c * per <= -c
      BY <1>1, <2>1
    <3> QED
      BY <1>1, <2>1, <3>1
  <2> QED
    BY <1>1, <2>1, <2>2 DEF most
<1>3. todo' = parts \o SubmitEach(rest)
  BY DEF SubmitJobRangeUnordered, Call
<1>4. NewJobs(n) \in Seq(Item) /\ Len(NewJobs(n)) = n /\ \A i \in 1 .. n : NewJobs(n)[i] = N(i)
  BY <1>1, NewJobsType
<1>5. \A i \in 1 .. n : NewJobs(n)[i] \in Item
  BY <1>4, ElementOfSeq
<1> HIDE DEF per, c
<1>6. ASSUME NEW k \in 1 .. c
      PROVE  /\ Part(k - 1) \in Seq(Item) /\ Len(Part(k - 1)) = per
             /\ \A h \in 1 .. per :
                  /\ (k - 1) * per + h \in 1 .. most
                  /\ Part(k - 1)[h] = N((k - 1) * per + h)
  <2>1. k * per <= c * per /\ (k - 1) * per \in Nat /\ k * per = (k - 1) * per + per
    BY <1>1, <1>2
  <2> DEFINE a == (k - 1) * per
             b == k * per
  <2>2. a \in Nat /\ b \in Nat /\ b = a + per /\ b <= most
    BY <1>2, <2>1
  <2>3. Part(k - 1) = SubSeq(NewJobs(n), a + 1, b)
    <3>1. (k - 1) + 1 = k
      BY <1>1
    <3> QED
      BY <3>1
  <2> HIDE DEF a, b
  <2>4. \A i \in a + 1 .. b : i \in 1 .. most /\ i \in 1 .. n
    BY <1>1, <1>2, <2>2
  <2>5. /\ SubSeq(NewJobs(n), a + 1, b) \in Seq(Item)
        /\ Len(SubSeq(NewJobs(n), a + 1, b)) = IF a + 1 <= b THEN b - (a + 1) + 1 ELSE 0
        /\ \A i \in 1 .. b - (a + 1) + 1 : SubSeq(NewJobs(n), a + 1, b)[i] = NewJobs(n)[(a + 1) + i - 1]
    <3>1. \A i \in a + 1 .. b : NewJobs(n)[i] \in Item
      BY <1>5, <2>4
    <3>2. a + 1 \in Int /\ b \in Int
      BY <2>2
    <3> HIDE DEF rest
    <3> QED
      BY <3>1, <3>2, SubSeqProperties
  <2>6. \A h \in 1 .. per : (a + 1) + h - 1 = a + h /\ a + h \in 1 .. most /\ a + h \in 1 .. n
    BY <1>1, <1>2, <2>2
  <2>7. \A h \in 1 .. per : Part(k - 1)[h] = N(a + h)
    <3> HIDE DEF Part, N
    <3> TAKE h \in 1 .. per
    <3>1. h \in 1 .. b - (a + 1) + 1
      BY <1>2, <2>2
    <3>2. Part(k - 1)[h] = NewJobs(n)[(a + 1) + h - 1]
      BY <2>3, <2>5, <3>1
    <3>3. Part(k - 1)[h] = NewJobs(n)[a + h] /\ a + h \in 1 .. n
      BY <2>6, <3>2
    <3> QED
      BY <1>4, <3>3
  <2>8. Len(Part(k - 1)) = per
    BY <1>2, <2>2, <2>3, <2>5
  <2> QED
    BY <2>3, <2>5, <2>6, <2>7, <2>8 DEF a
<1>7. /\ rest \in Seq(Item) /\ Len(rest) = n - most
      /\ \A i \in 1 .. n - most : rest[i] = N(most + i)
  <2>1. \A i \in most + 1 .. n : i \in 1 .. n
    BY <1>1, <1>2
  <2>2. /\ SubSeq(NewJobs(n), most + 1, n) \in Seq(Item)
        /\ Len(SubSeq(NewJobs(n), most + 1, n)) = IF most + 1 <= n THEN n - (most + 1) + 1 ELSE 0
        /\ \A i \in 1 .. n - (most + 1) + 1 : SubSeq(NewJobs(n), most + 1, n)[i] = NewJobs(n)[(most + 1) + i - 1]
    <3>1. \A i \in most + 1 .. n : NewJobs(n)[i] \in Item
      BY <1>5, <2>1
    <3>2. most + 1 \in Int /\ n \in Int
      BY <1>1, <1>2
    <3> HIDE DEF most
    <3> QED
      BY <3>1, <3>2, SubSeqProperties
  <2>3. rest = SubSeq(NewJobs(n), most + 1, n)
    BY <1>2
  <2> HIDE DEF rest, most
  <2>4. \A i \in 1 .. n - most : (most + 1) + i - 1 = most + i /\ most + i \in 1 .. n
    BY <1>1, <1>2
  <2> QED
    BY <1>1, <1>2, <1>4, <2>2, <2>3, <2>4
<1> HIDE DEF rest, most
<1>8. /\ SubmitEach(rest) \in Seq(Entry) /\ Len(SubmitEach(rest)) = n - most
      /\ \A i \in 1 .. n - most :
           SubmitEach(rest)[i].queue \in Pool /\ SubmitEach(rest)[i].items = <<N(most + i)>>
  BY <1>7, EachIsEnqueued
<1>9. parts \in Seq(Entry) /\ Len(parts) = c
  <2>1. ASSUME NEW i \in 1 .. c
        PROVE  [queue  |-> (job_queue_pointer + i - 1) % c,
                items  |-> Part(i - 1), notify |-> FALSE] \in Entry
    <3>1. job_queue_pointer + i - 1 \in Nat
      BY <1>1
    <3>2. (job_queue_pointer + i - 1) % c \in Nat
      BY <1>1, <3>1
    <3>3. Part(i - 1) \in Seq(Item)
      BY <1>6
    <3> HIDE DEF Part
    <3> QED
      BY <3>2, <3>3 DEF Entry
  <2>2. parts \in [1 .. c -> Entry]
    BY <2>1
  <2> HIDE DEF parts
  <2> QED
    BY <1>1, <2>2, FunctionIsSeq
<1>10. ASSUME NEW k \in 1 .. c
       PROVE  /\ parts[k].queue \in Pool /\ parts[k].items = Part(k - 1)
  <2>1. (job_queue_pointer + (k - 1)) % c \in 0 .. c - 1
    <3>1. k - 1 \in Nat
      BY <1>1
    <3> QED
      BY <1>1, <3>1, RoundRobin
  <2>2. job_queue_pointer + (k - 1) = job_queue_pointer + k - 1
    BY <1>1
  <2>3. (job_queue_pointer + k - 1) % c \in Pool
    BY <2>1, <2>2 DEF Pool, c
  <2> HIDE DEF Part
  <2> QED
    BY <2>3
<1> HIDE DEF parts, Part
<1>11. /\ todo' \in Seq(Entry) /\ Len(todo') = c + (n - most)
       /\ \A k \in 1 .. c + (n - most) :
            todo'[k] = IF k <= c THEN parts[k] ELSE SubmitEach(rest)[k - c]
  <2> DEFINE others == SubmitEach(rest)
  <2>1. others \in Seq(Entry) /\ Len(others) = n - most
    BY <1>8
  <2>2. todo' = parts \o others
    BY <1>3
  <2> HIDE DEF others
  <2>3. /\ parts \o others \in Seq(Entry) /\ Len(parts \o others) = Len(parts) + Len(others)
        /\ \A k \in 1 .. Len(parts) + Len(others) :
             (parts \o others)[k] = IF k <= Len(parts) THEN parts[k] ELSE others[k - Len(parts)]
    BY <1>9, <2>1, ConcatProperties
  <2> QED
    BY <1>9, <2>1, <2>2, <2>3 DEF others
\* Where the jobs are.
<1>12. \A k \in 1 .. c :
         /\ todo'[k].queue \in Pool /\ Len(todo'[k].items) = per
         /\ \A h \in 1 .. per :
              /\ (k - 1) * per + h \in 1 .. most
              /\ todo'[k].items[h] = N((k - 1) * per + h)
  <2> TAKE k \in 1 .. c
  <2>1. k \in 1 .. c + (n - most) /\ k <= c
    BY <1>1, <1>2
  <2>2. todo'[k] = parts[k]
    BY <1>11, <2>1
  <2> QED
    BY <1>6, <1>10, <2>2
<1>13. \A k \in c + 1 .. c + (n - most) :
         /\ todo'[k].queue \in Pool /\ Len(todo'[k].items) = 1
         /\ most + (k - c) \in most + 1 .. n
         /\ todo'[k].items[1] = N(most + (k - c))
  <2> TAKE k \in c + 1 .. c + (n - most)
  <2>1. k \in 1 .. c + (n - most) /\ ~(k <= c) /\ k - c \in 1 .. n - most
    BY <1>1, <1>2
  <2>2. todo'[k] = SubmitEach(rest)[k - c]
    BY <1>11, <2>1
  <2>3. most + (k - c) \in most + 1 .. n
    BY <1>1, <1>2, <2>1
  <2>4. N(most + (k - c)) \in Item
    BY <1>1, <1>2, <2>3, JobIsItem
  <2>5. todo'[k].items = <<N(most + (k - c))>> /\ todo'[k].queue \in Pool
    BY <1>8, <2>1, <2>2
  <2> QED
    BY <2>3, <2>4, <2>5, Single
<1>14. \A k \in 1 .. Len(todo') : k \in 1 .. c \/ k \in c + 1 .. c + (n - most)
  BY <1>1, <1>2, <1>11
<1>15. \A k \in 1 .. Len(todo') : todo'[k].queue \in Pool
  BY <1>12, <1>13, <1>14
<1> DEFINE index(k, h) == IF k <= c THEN (k - 1) * per + h ELSE most + (k - c)
<1>16. \A k \in 1 .. Len(todo') : \A h \in 1 .. Len(todo'[k].items) :
         index(k, h) \in 1 .. n /\ todo'[k].items[h] = N(index(k, h))
  <2> TAKE k \in 1 .. Len(todo')
  <2> TAKE h \in 1 .. Len(todo'[k].items)
  <2>1. CASE k \in 1 .. c
    BY <1>1, <1>2, <1>12, <2>1
  <2>2. CASE k \in c + 1 .. c + (n - most)
    <3>1. Len(todo'[k].items) = 1 /\ most + (k - c) \in most + 1 .. n /\ todo'[k].items[1] = N(most + (k - c))
      BY <1>13, <2>2
    <3>2. h = 1
      BY <3>1
    <3>3. ~(k <= c)
      BY <1>1, <2>2
    <3> QED
      BY <1>1, <1>2, <3>1, <3>2, <3>3
  <2> QED
    BY <1>14, <2>1, <2>2
<1>17. ASSUME NEW x \in 1 .. n
       PROVE  \E k \in 1 .. Len(todo') : \E h \in 1 .. Len(todo'[k].items) : todo'[k].items[h] = N(x)
  <2>1. CASE x <= most
    <3>1. x \in 1 .. c * per
      BY <1>1, <1>2, <2>1
    <3>2. PICK k \in 1 .. c, h \in 1 .. per : x = (k - 1) * per + h
      BY <1>1, <1>2, <3>1, PartOf
    <3>0. n - most \in Nat /\ Len(todo'[k].items) = per
      BY <1>1, <1>2, <1>12
    <3>3. k \in 1 .. Len(todo') /\ h \in 1 .. Len(todo'[k].items)
      BY <1>1, <1>11, <3>0, <3>2
    <3>4. todo'[k].items[h] = N(x)
      BY <1>12, <3>2
    <3> QED
      BY <3>3, <3>4
  <2>2. CASE x > most
    <3> DEFINE k == c + (x - most)
    <3>1. k \in c + 1 .. c + (n - most) /\ most + (k - c) = x /\ k \in 1 .. Len(todo')
      BY <1>1, <1>2, <1>11, <2>2
    <3> HIDE DEF k
    <3> QED
      BY <1>13, <3>1
  <2> QED
    BY <1>1, <1>2, <2>1, <2>2
<1>18. ASSUME NEW k \in 1 .. Len(todo'), NEW l \in 1 .. Len(todo'),
              NEW i \in 1 .. Len(todo'[k].items), NEW h \in 1 .. Len(todo'[l].items),
              todo'[k].items[i] = todo'[l].items[h]
       PROVE  k = l /\ i = h
  <2>1. /\ index(k, i) \in 1 .. n /\ index(l, h) \in 1 .. n
        /\ N(index(k, i)) = N(index(l, h))
    BY <1>16, <1>18
  <2>2. index(k, i) = index(l, h)
    <3> HIDE DEF index
    <3>1. Len(phases) + index(k, i) = Len(phases) + index(l, h)
      BY <1>1, <2>1, JobIsItem
    <3> QED
      BY <1>1, <2>1, <3>1
  <2>3. CASE k \in 1 .. c /\ l \in 1 .. c
    <3>0. Len(todo'[k].items) = per /\ Len(todo'[l].items) = per
      BY <1>12, <2>3
    <3>1. i \in 1 .. per /\ h \in 1 .. per /\ k - 1 \in Nat /\ l - 1 \in Nat
      BY <1>1, <2>3, <3>0
    <3>2. (k - 1) * per + i = (l - 1) * per + h
      BY <1>1, <2>2, <2>3
    <3>3. k - 1 = l - 1 /\ i = h
      BY <1>2, <3>1, <3>2, OnePart
    <3> QED
      BY <1>1, <2>3, <3>3
  <2>4. CASE k \in 1 .. c /\ l \in c + 1 .. c + (n - most)
    <3>1. index(k, i) \in 1 .. most
      BY <1>1, <1>12, <2>4
    <3>2. index(l, h) \in most + 1 .. n
      BY <1>1, <1>13, <2>4
    <3> HIDE DEF index
    <3> QED
      BY <1>2, <2>2, <3>1, <3>2
  <2>5. CASE l \in 1 .. c /\ k \in c + 1 .. c + (n - most)
    <3>1. index(l, h) \in 1 .. most
      BY <1>1, <1>12, <2>5
    <3>2. index(k, i) \in most + 1 .. n
      BY <1>1, <1>13, <2>5
    <3> HIDE DEF index
    <3> QED
      BY <1>2, <2>2, <3>1, <3>2
  <2>6. CASE k \in c + 1 .. c + (n - most) /\ l \in c + 1 .. c + (n - most)
    <3>1. most + (k - c) = most + (l - c)
      BY <1>1, <2>2, <2>6
    <3>2. k = l
      BY <1>1, <1>2, <2>6, <3>1
    <3>0. Len(todo'[k].items) = 1 /\ Len(todo'[l].items) = 1
      BY <1>13, <2>6
    <3>3. i = 1 /\ h = 1
      BY <3>0
    <3> QED
      BY <3>2, <3>3
  <2> QED
    BY <1>14, <2>3, <2>4, <2>5, <2>6
<1>19. \A k \in 1 .. Len(todo') : \A i \in 1 .. Len(todo'[k].items) :
         \E x \in 1 .. n : todo'[k].items[i] = N(x)
  BY <1>16
<1> QED
  BY <1>11, <1>15, <1>17, <1>18, <1>19 DEF NewJobsOnce

-----------------------------------------------------------------------------
(***************************************************************************)
(* What the owner's steps do to the list of its call and to the lines.     *)
(***************************************************************************)
LEMMA Counts ==
  ASSUME Typed
  PROVE  /\ thread_count \in Nat \ {0} /\ Pool \subseteq Threads /\ Threads \subseteq Nat
         /\ Len(todo) \in Nat /\ Len(phases) \in Nat /\ Len(counter) \in Nat
         /\ \A k \in 1 .. Len(todo) :
              /\ todo[k] \in Entry /\ todo[k].queue \in Nat
              /\ todo[k].items \in Seq(Item) /\ Len(todo[k].items) \in Nat
         /\ \A j \in 1 .. Len(phases) : phases[j] \in Nat
         /\ \A b \in 1 .. Len(counter) : counter[b] \in Nat
         /\ \A t \in Threads : line[t] \in Seq(Item) /\ Len(line[t]) \in Nat
         /\ \A t \in Threads : \A i \in 1 .. Len(line[t]) : line[t][i] \in Item
<1>1. MaxThreads \in Nat \ {0} /\ thread_count \in 1 .. MaxThreads
  BY PoolAssumption DEF Typed
<1>2. thread_count \in Nat \ {0} /\ Pool \subseteq Threads /\ Threads \subseteq Nat
  BY <1>1 DEF Pool, Threads
<1>3. Len(todo) \in Nat /\ Len(phases) \in Nat /\ Len(counter) \in Nat
  BY LenProperties DEF Typed
<1>4. \A k \in 1 .. Len(todo) : todo[k] \in Entry
  BY ElementOfSeq DEF Typed
<1>5. \A j \in 1 .. Len(phases) : phases[j] \in Nat
  BY ElementOfSeq DEF Typed
<1>6. \A b \in 1 .. Len(counter) : counter[b] \in Nat
  BY ElementOfSeq DEF Typed
<1>7. \A t \in Threads : line[t] \in Seq(Item)
  BY LineType
<1>8. \A k \in 1 .. Len(todo) : todo[k].queue \in Nat /\ todo[k].items \in Seq(Item)
  BY <1>4 DEF Entry
<1>9. \A k \in 1 .. Len(todo) : Len(todo[k].items) \in Nat
  BY <1>8, LenProperties
<1>10. \A t \in Threads : Len(line[t]) \in Nat /\ \A i \in 1 .. Len(line[t]) : line[t][i] \in Item
  BY <1>7, LenProperties, ElementOfSeq
<1> QED
  BY <1>2, <1>3, <1>4, <1>5, <1>6, <1>7, <1>8, <1>9, <1>10

\* The kinds of items.
LEMMA Kinds ==
  /\ \A j : Job(j).kind = "job" /\ Job(j).id = j
  /\ \A b, n : Barrier(b, n).kind = "barrier" /\ Barrier(b, n).id = b /\ Barrier(b, n).goal = n
  /\ Poison.kind = "poison" /\ Poison \in Item
  /\ \A b, n \in Nat : Barrier(b, n) \in Item
  /\ \A j \in Nat : Job(j) \in Item
  BY DEF Job, Barrier, Poison, Item

\* The calls that submit m jobs.
Submits(m) ==
  /\ owner_pc = "running" /\ todo = <<>>
  /\ NewJobsOnce(m)
  /\ phases' = phases \o [i \in 1 .. m |-> Len(counter)]
  /\ job_queue_pointer' \in Pool
  /\ UNCHANGED <<thread_count, owner_pc, starts, job_queues, worker_pc, jobs,
                 counter, fulfilled, finished>>

LEMMA SubmitsJobs ==
  ASSUME Typed,
         \/ \E n \in Ranges : SubmitJobRange(n) \/ SubmitJobRangeUnordered(n)
         \/ SubmitJobToAllThreads
  PROVE  \E m \in Nat \ {0} : Submits(m)
<1>1. \A n \in Nat : Advanced(n) \in Pool
  <2> TAKE n \in Nat
  <2>1. thread_count \in Nat \ {0} /\ job_queue_pointer + n \in Int
    BY Counts DEF Typed, Pool
  <2> QED
    BY <2>1, DivMod DEF Advanced, Pool
<1>2. ASSUME NEW n \in Ranges, SubmitJobRange(n)
      PROVE  n \in Nat \ {0} /\ Submits(n)
  BY <1>1, <1>2, RangeOnce, PoolAssumption DEF SubmitJobRange, Submitted, Call, Submits
<1>3. ASSUME NEW n \in Ranges, SubmitJobRangeUnordered(n)
      PROVE  n \in Nat \ {0} /\ Submits(n)
  <2> DEFINE rest == SubSeq(NewJobs(n), (n \div thread_count) * thread_count + 1, n)
  <2>1. n \in Nat \ {0} /\ NewJobsOnce(n)
    BY <1>3, UnorderedOnce, PoolAssumption
  <2>2. job_queue_pointer' = Advanced(Len(rest)) /\ Len(rest) \in Nat
    <3> DEFINE a == (n \div thread_count) * thread_count + 1
    <3>1. thread_count \in Nat \ {0} /\ n \in Int
      BY <2>1, Counts
    <3>2. n \div thread_count \in Int /\ n % thread_count \in 0 .. thread_count - 1
          /\ n % thread_count = n - thread_count * (n \div thread_count)
      BY ONLY <3>1, DivMod
    <3>3. a \in Int /\ a >= 1
      <4> DEFINE d == n \div thread_count
      <4>1. d \in Int /\ thread_count * d > n - thread_count
        BY <3>1, <3>2
      <4> HIDE DEF d
      <4>2. d < 0 => thread_count * d <= -thread_count
        BY <3>1, <4>1
      <4>3. d >= 0
        BY <2>1, <3>1, <4>1, <4>2
      <4>4. d * thread_count + 1 \in Int /\ d * thread_count + 1 >= 1
        BY <3>1, <4>1, <4>3
      <4> QED
        BY <4>4 DEF d
    <3> HIDE DEF a
    <3>4. NewJobs(n) \in Seq(Item) /\ Len(NewJobs(n)) = n
      BY <2>1, NewJobsType
    <3>5. \A i \in a .. n : NewJobs(n)[i] \in Item
      BY <3>3, <3>4, ElementOfSeq
    <3>6. SubSeq(NewJobs(n), a, n) \in Seq(Item)
      BY <3>1, <3>3, <3>5, SubSeqProperties
    <3>7. rest = SubSeq(NewJobs(n), a, n)
      BY DEF a
    <3> HIDE DEF rest
    <3>8. Len(rest) \in Nat
      BY <3>6, <3>7, LenProperties
    <3> QED
      BY <1>3, <3>8 DEF SubmitJobRangeUnordered, rest
  <2>3. /\ owner_pc = "running" /\ todo = <<>>
        /\ phases' = phases \o [i \in 1 .. n |-> Len(counter)]
        /\ UNCHANGED <<thread_count, owner_pc, starts, job_queues, worker_pc, jobs,
                       counter, fulfilled, finished>>
    BY <1>3 DEF SubmitJobRangeUnordered, Submitted, Call
  <2>4. job_queue_pointer' \in Pool
    BY <1>1, <2>2
  <2> QED
    BY <2>1, <2>3, <2>4 DEF Submits
<1>4. ASSUME SubmitJobToAllThreads
      PROVE  thread_count \in Nat \ {0} /\ Submits(thread_count)
  <2>1. job_queue_pointer \in Pool /\ thread_count \in Nat \ {0}
    BY Counts DEF Typed
  <2> QED
    BY <1>4, <2>1, AllThreadsOnce DEF SubmitJobToAllThreads, Submitted, Call, Submits
<1> QED
  BY <1>2, <1>3, <1>4

LEMMA NewPhases ==
  ASSUME Typed, NEW m \in Nat \ {0}, Submits(m)
  PROVE  /\ phases' \in Seq(Nat) /\ Len(phases') = Len(phases) + m
         /\ \A j \in 1 .. Len(phases) : phases'[j] = phases[j]
         /\ \A x \in 1 .. m : phases'[Len(phases) + x] = Len(counter)
         /\ line' = line
<1> DEFINE new == [i \in 1 .. m |-> Len(counter)]
<1>1. new \in Seq(Nat) /\ Len(new) = m
  <2>1. new \in [1 .. m -> Nat] /\ m \in Nat
    BY Counts
  <2> HIDE DEF new
  <2> QED
    BY <2>1, FunctionIsSeq
<1>2. \A x \in 1 .. m : new[x] = Len(counter)
  OBVIOUS
<1>3. phases' = phases \o new /\ phases \in Seq(Nat) /\ Len(phases) \in Nat
  BY Counts DEF Submits, Typed
<1> HIDE DEF new
<1>4. /\ phases' \in Seq(Nat) /\ Len(phases') = Len(phases) + m
      /\ \A j \in 1 .. Len(phases) + m :
           phases'[j] = IF j <= Len(phases) THEN phases[j] ELSE new[j - Len(phases)]
  BY <1>1, <1>3, ConcatProperties
<1>5. \A x \in 1 .. m : phases'[Len(phases) + x] = Len(counter)
  <2> TAKE x \in 1 .. m
  <2>1. /\ Len(phases) + x \in 1 .. Len(phases) + m /\ ~(Len(phases) + x <= Len(phases))
        /\ Len(phases) + x - Len(phases) = x
    BY <1>3
  <2>2. phases'[Len(phases) + x] = new[Len(phases) + x - Len(phases)]
    BY <1>4, <2>1
  <2>3. phases'[Len(phases) + x] = new[x]
    BY <2>1, <2>2
  <2> QED
    BY <1>2, <2>3
<1>6. line' = line
  BY LineKept DEF Submits
<1> QED
  BY <1>3, <1>4, <1>5, <1>6

LEMMA NewBarrier ==
  ASSUME Typed, SubmitBarrier
  PROVE  LET b == Len(counter) + 1
         IN  /\ owner_pc = "running" /\ todo = <<>> /\ line' = line
             /\ counter' \in Seq(Nat) /\ Len(counter') = b /\ counter'[b] = 0
             /\ \A c \in 1 .. Len(counter) : counter'[c] = counter[c]
             /\ todo' \in Seq(Entry)
             /\ \A k \in 1 .. Len(todo') :
                  todo'[k].queue \in Pool /\ todo'[k].items = <<Barrier(b, thread_count)>>
             /\ \A k, l \in 1 .. Len(todo') : todo'[k].queue = todo'[l].queue => k = l
             /\ \A t \in Pool : \E k \in 1 .. Len(todo') : todo'[k].queue = t
             /\ UNCHANGED <<thread_count, job_queue_pointer, owner_pc, starts, phases,
                            job_queues, worker_pc, jobs, fulfilled, finished>>
<1> DEFINE b == Len(counter) + 1
           commands == [i \in 1 .. thread_count |-> Barrier(b, thread_count)]
<1>1. thread_count \in Nat \ {0} /\ b \in Nat /\ job_queue_pointer \in 0 .. thread_count - 1
  BY Counts DEF Typed, Pool
<1>2. commands \in Seq(Item) /\ Len(commands) = thread_count
  <2>1. commands \in [1 .. thread_count -> Item]
    BY <1>1, Kinds
  <2> HIDE DEF commands
  <2> QED
    BY <1>1, <2>1, FunctionIsSeq
<1>3. \A i \in 1 .. thread_count : commands[i] = Barrier(b, thread_count)
  OBVIOUS
<1>4. todo' = SubmitEach(commands)
  BY DEF SubmitBarrier, Call, Goal
<1>5. /\ counter' \in Seq(Nat) /\ Len(counter') = b /\ counter'[b] = 0
      /\ \A c \in 1 .. Len(counter) : counter'[c] = counter[c]
  <2>1. counter' = Append(counter, 0) /\ counter \in Seq(Nat) /\ 0 \in Nat
    BY DEF SubmitBarrier, Typed
  <2> QED
    BY <2>1, AppendProperties
<1> HIDE DEF commands, b
<1>6. /\ todo' \in Seq(Entry) /\ Len(todo') = thread_count
      /\ \A k \in 1 .. thread_count :
           /\ todo'[k].queue = (job_queue_pointer + k - 1) % thread_count
           /\ todo'[k].queue \in Pool /\ todo'[k].items = <<Barrier(b, thread_count)>>
  BY <1>2, <1>3, <1>4, EachIsEnqueued
<1>7. /\ \A i, k \in 1 .. thread_count :
           (job_queue_pointer + i - 1) % thread_count = (job_queue_pointer + k - 1) % thread_count
             => i = k
      /\ \A q \in 0 .. thread_count - 1 : \E i \in 1 .. thread_count :
           (job_queue_pointer + i - 1) % thread_count = q
  BY <1>1, RoundRobin
<1>8. \A t \in Pool : \E k \in 1 .. Len(todo') : todo'[k].queue = t
  BY <1>6, <1>7 DEF Pool
<1>9. \A k, l \in 1 .. Len(todo') : todo'[k].queue = todo'[l].queue => k = l
  BY <1>6, <1>7
<1>10. line' = line
  BY LineKept DEF SubmitBarrier, Call
<1> QED
  BY <1>5, <1>6, <1>8, <1>9, <1>10 DEF SubmitBarrier, Call, b

LEMMA NewPoison ==
  ASSUME Typed, Stop
  PROVE  /\ owner_pc = "running" /\ todo = <<>> /\ line' = line
         /\ todo' \in Seq(Entry) /\ Len(todo') = thread_count
         /\ \A k \in 1 .. Len(todo') : todo'[k].items = <<Poison>> /\ todo'[k].queue = k - 1
         /\ UNCHANGED <<thread_count, job_queue_pointer, owner_pc, starts, phases, counter,
                        job_queues, worker_pc, jobs, fulfilled, finished>>
<1>1. thread_count \in Nat \ {0}
  BY Counts
<1>2. todo' = [i \in 1 .. thread_count |-> Enqueue(i - 1, Poison)]
  BY DEF Stop, Call
<1>3. \A i \in 1 .. thread_count : Enqueue(i - 1, Poison) \in Entry
  <2> TAKE i \in 1 .. thread_count
  <2>1. <<Poison>> \in Seq(Item)
    BY Kinds, Single
  <2> QED
    BY <1>1, <2>1 DEF Enqueue, Entry
<1>4. todo' \in Seq(Entry) /\ Len(todo') = thread_count
  BY <1>1, <1>2, <1>3, FunctionIsSeq
<1>5. \A k \in 1 .. Len(todo') : todo'[k].items = <<Poison>> /\ todo'[k].queue = k - 1
  BY <1>2, <1>4, EnqueueFields
<1>6. line' = line
  BY LineKept DEF Stop, Call
<1> QED
  BY <1>4, <1>5, <1>6 DEF Stop, Call

LEMMA InThree ==
  ASSUME NEW r \in Seq(Item), NEW s \in Seq(Item), NEW u \in Seq(Item)
  PROVE  (r \o s) \o u = r \o (s \o u)
  BY ConcatAssociative

LEMMA EnqueuesFirst ==
  ASSUME Typed, OneCall, DoEnqueue
  PROVE  LET q   == todo[1].queue
             new == todo[1].items
         IN  /\ 1 \in 1 .. Len(todo) /\ q \in Pool /\ new \in Seq(Item)
             /\ line' = [line EXCEPT ![q] = @ \o new]
             /\ Len(line'[q]) = Len(line[q]) + Len(new)
             /\ \A i \in 1 .. Len(line[q]) + Len(new) :
                  line'[q][i] = IF i <= Len(line[q]) THEN line[q][i] ELSE new[i - Len(line[q])]
             /\ todo' \in Seq(Entry) /\ Len(todo') = Len(todo) - 1
             /\ \A k \in 1 .. Len(todo') : k + 1 \in 1 .. Len(todo) /\ todo'[k] = todo[k + 1]
             /\ owner_pc' = IF new = <<Poison>> /\ Len(todo) = 1 THEN "join" ELSE owner_pc
             /\ \A t \in Threads :
                  \/ worker_pc'[t] = worker_pc[t]
                  \/ worker_pc[t] = "asleep" /\ worker_pc'[t] = "dequeue"
             /\ UNCHANGED <<thread_count, job_queue_pointer, starts, phases, jobs, counter,
                            fulfilled, finished>>
             /\ job_queues' = [job_queues EXCEPT ![q] = @ \o new]
             /\ job_queues'[q] \in Seq(Item)
             /\ DOMAIN worker_pc' = Threads
<1> DEFINE q == todo[1].queue
           new == todo[1].items
<1>1. todo # <<>> /\ todo \in Seq(Entry) /\ Head(todo) = todo[1]
  BY DEF DoEnqueue, Typed
<1>2. 1 \in 1 .. Len(todo)
  BY <1>1, EmptySeq
<1>3. q \in Pool /\ new \in Seq(Item) /\ q \in Threads
  BY <1>2, Counts DEF OneCall
<1>4. todo' \in Seq(Entry) /\ Len(todo') = Len(todo) - 1
      /\ \A k \in 1 .. Len(todo') : todo'[k] = todo[k + 1]
  BY <1>1, HeadTailProperties DEF DoEnqueue
<1>5. \A k \in 1 .. Len(todo') : k + 1 \in 1 .. Len(todo)
  BY <1>4, Counts
<1>6. /\ job_queues' = [job_queues EXCEPT ![q] = @ \o new]
      /\ owner_pc' = IF new = <<Poison>> /\ Len(todo) = 1 THEN "join" ELSE owner_pc
      /\ worker_pc' = [worker_pc EXCEPT ![q] = IF todo[1].notify THEN Notified(@) ELSE @]
      /\ UNCHANGED <<thread_count, job_queue_pointer, starts, phases, jobs, counter,
                     fulfilled, finished>>
  BY <1>1 DEF DoEnqueue
<1>7. /\ \A t \in Threads :
           \/ worker_pc'[t] = worker_pc[t]
           \/ worker_pc[t] = "asleep" /\ worker_pc'[t] = "dequeue"
      /\ DOMAIN worker_pc' = Threads
  BY <1>3, <1>6 DEF Notified, Typed
<1> HIDE DEF q, new
<1>8. line' = [line EXCEPT ![q] = @ \o new]
  <2>1. jobs[q] \in Seq(Item) /\ job_queues[q] \in Seq(Item) /\ line[q] = jobs[q] \o job_queues[q]
    BY <1>3, LineType DEF Typed
  <2>2. line'[q] = jobs[q] \o (job_queues[q] \o new)
    BY <1>3, <1>6 DEF line, Threads, Typed
  <2>3. (jobs[q] \o job_queues[q]) \o new = jobs[q] \o (job_queues[q] \o new)
    BY <1>3, <2>1, InThree
  <2>4. \A t \in Threads \ {q} : line'[t] = line[t]
    BY <1>3, <1>6 DEF line, Threads, Typed
  <2> QED
    BY <1>3, <2>1, <2>2, <2>3, <2>4 DEF line, Threads
<1>9. /\ Len(line'[q]) = Len(line[q]) + Len(new)
      /\ \A i \in 1 .. Len(line[q]) + Len(new) :
           line'[q][i] = IF i <= Len(line[q]) THEN line[q][i] ELSE new[i - Len(line[q])]
  <2>1. line[q] \in Seq(Item) /\ line'[q] = line[q] \o new
    BY <1>3, <1>8, LineType
  <2> QED
    BY <1>3, <2>1, ConcatProperties
<1>10. job_queues'[q] \in Seq(Item)
  BY <1>3, <1>6, ConcatProperties DEF Typed
<1> QED
  BY <1>2, <1>3, <1>4, <1>5, <1>6, <1>7, <1>8, <1>9, <1>10 DEF q, new

\* A step that moves no item, and ends no call, job or barrier.
LEMMA NothingMoves ==
  ASSUME UNCHANGED <<line, todo, phases, finished, thread_count, owner_pc>>,
         Len(counter') = Len(counter)
  PROVE  /\ OneCall => OneCall'
         /\ Items => Items'
         /\ Present => Present'
         /\ Once => Once'
         /\ Sorted => Sorted'
<1>1. OneCall => OneCall'
  <2>1. JobCall => JobCall'
    BY DEF JobCall, Job
  <2>2. BarrierCall => BarrierCall'
    BY DEF BarrierCall
  <2>3. StopCall => StopCall'
    BY DEF StopCall, Poison
  <2> QED
    BY <2>1, <2>2, <2>3 DEF OneCall, Pool
<1>2. Items => Items'
  BY DEF Items, IsJob, IsBarrier, Poisoned, Threads
<1>3. Present => Present'
  BY DEF Present, Threads
<1>4. Once => Once'
  BY DEF Once, OnceOnLines, OnceInCall, LineOrCall,
          LineNotFinished, CallNotFinished, Threads
<1>5. Sorted => Sorted'
  BY DEF Sorted, Follows, Level, Threads
<1> QED
  BY <1>1, <1>2, <1>3, <1>4, <1>5

LEMMA BarriersKept ==
  ASSUME UNCHANGED <<line, todo, phases, counter, fulfilled, thread_count>>,
         Pool \subseteq Threads, Barriers,
         \A t \in Threads : worker_pc'[t] # worker_pc[t] =>
           {worker_pc[t], worker_pc'[t]} \cap {"wait", "fulfil"} = {}
  PROVE  Barriers'
<1>1. \A b : \A t \in Threads : At(t, b)' <=> At(t, b)
  BY DEF At
<1>2. \A b : \A t \in Threads : Ahead(t, b)' <=> Ahead(t, b)
  BY DEF Ahead
<1>3. \A t \in Threads : worker_pc'[t] = "fulfil" <=> worker_pc[t] = "fulfil"
  OBVIOUS
<1>4. Pool' = Pool /\ Threads' = Threads
  BY DEF Pool, Threads
<1>5. \A b : Late(b)' = Late(b)
  BY <1>2, <1>4 DEF Late
<1>6. \A t, i : Level(line[t][i])' = Level(line[t][i])
  BY DEF Level
<1> QED
  BY <1>1, <1>2, <1>3, <1>4, <1>5, <1>6 DEF Barriers

LEMMA LifeKept ==
  ASSUME NEW u \in Threads, LifeOf(u), line'[u] = line[u], jobs'[u] = jobs[u],
         worker_pc'[u] = worker_pc[u], UNCHANGED <<thread_count, owner_pc>>
  PROVE  LifeOf(u)'
  BY DEF LifeOf, Pool, Poison

LEMMA DequeueStep ==
  ASSUME IInv, NEW t \in Threads, DequeueRange(t)
  PROVE  IInv'
<1>1. /\ line' = line /\ jobs' \in [Threads -> Seq(Item)] /\ job_queues' \in [Threads -> Seq(Item)]
      /\ \A u \in Threads : Len(jobs'[u]) <= Batch
      /\ \A u \in Threads \ {t} : jobs'[u] = jobs[u] /\ worker_pc'[u] = worker_pc[u]
      /\ \/ worker_pc' = [worker_pc EXCEPT ![t] = "asleep"] /\ jobs'[t] = <<>>
         \/ worker_pc' = [worker_pc EXCEPT ![t] = "run"] /\ jobs'[t] # <<>>
  BY DequeueKeeps DEF IInv
<1>2. worker_pc[t] = "dequeue" /\ UNCHANGED <<owned, counter, fulfilled, finished>>
  BY DEF DequeueRange
<1>3. Typed'
  <2>1. worker_pc' \in [Threads -> {"none", "dequeue", "asleep", "run", "busy", "wait", "fulfil", "dead"}]
    BY <1>1 DEF IInv, Typed
  <2> QED
    BY <1>1, <1>2, <2>1 DEF IInv, Typed, Pool, Threads, owned, Item, Entry
<1>4. Lifecycle'
  <2>1. \A u \in Threads \ {t} : LifeOf(u)'
    BY <1>1, <1>2, LifeKept DEF IInv, Lifecycle, owned
  <2>2. owner_pc # "stopped" /\ t \in Pool
    BY <1>2 DEF IInv, Lifecycle, LifeOf
  <2>3. \/ worker_pc'[t] = "asleep" /\ jobs'[t] = <<>>
        \/ worker_pc'[t] = "run" /\ jobs'[t] # <<>>
    BY <1>1 DEF IInv, Typed
  <2>4. owner_pc' = owner_pc /\ Pool' = Pool
    BY <1>2 DEF owned, Pool
  <2>5. LifeOf(t)'
    BY <2>2, <2>3, <2>4 DEF LifeOf
  <2> QED
    BY <1>2, <2>1, <2>5 DEF IInv, Lifecycle, Threads, owned
<1>5. OneCall' /\ Items' /\ Present' /\ Once' /\ Sorted'
  <2>1. /\ UNCHANGED <<line, todo, phases, finished, thread_count, owner_pc>>
        /\ Len(counter') = Len(counter)
    BY <1>1, <1>2 DEF owned
  <2> QED
    BY <2>1, NothingMoves DEF IInv
<1>6. Barriers'
  <2>1. \A u \in Threads : worker_pc'[u] # worker_pc[u] =>
          {worker_pc[u], worker_pc'[u]} \cap {"wait", "fulfil"} = {}
    BY <1>1, <1>2 DEF IInv, Typed
  <2> QED
    BY <1>1, <1>2, <2>1, Counts, BarriersKept DEF IInv, owned
<1>7. Stopped'
  BY <1>2 DEF IInv, Stopped, owned
<1> QED
  BY <1>3, <1>4, <1>5, <1>6, <1>7 DEF IInv

\* Wake, BeginJob, Die: the thread goes on, and leaves everything as it is.
LEMMA QuietStep ==
  ASSUME IInv, NEW t \in Threads, Wake(t) \/ BeginJob(t) \/ Die(t)
  PROVE  IInv'
<1>1. UNCHANGED <<owned, job_queues, jobs, counter, fulfilled, finished>>
  BY DEF Wake, BeginJob, Die
<1>2. line' = line
  BY <1>1, LineKept
<1>3. \/ /\ worker_pc[t] = "asleep" /\ worker_pc' = [worker_pc EXCEPT ![t] = "dequeue"]
      \/ /\ worker_pc[t] = "run" /\ worker_pc' = [worker_pc EXCEPT ![t] = "busy"]
         /\ Head(jobs[t]).kind = "job"
      \/ /\ worker_pc[t] = "run" /\ worker_pc' = [worker_pc EXCEPT ![t] = "dead"]
         /\ Head(jobs[t]).kind = "poison"
  BY DEF Wake, BeginJob, Die, Begins
<1>4. Typed'
  BY <1>1, <1>3 DEF IInv, Typed, Pool, Threads, owned
<1>5. Lifecycle'
  <2>1. worker_pc[t] = "run" =>
          /\ jobs[t] # <<>> /\ Head(jobs[t]) = jobs[t][1] /\ jobs[t][1] = line[t][1]
          /\ 1 \in 1 .. Len(line[t])
    <3> SUFFICES ASSUME worker_pc[t] = "run"
                 PROVE  /\ jobs[t] # <<>> /\ Head(jobs[t]) = jobs[t][1]
                        /\ jobs[t][1] = line[t][1] /\ 1 \in 1 .. Len(line[t])
      OBVIOUS
    <3>1. jobs[t] # <<>>
      BY DEF IInv, Lifecycle, LifeOf
    <3>2. line[t] # <<>> /\ line[t][1] = jobs[t][1] /\ Head(jobs[t]) = jobs[t][1]
      BY <3>1, BatchFirst DEF IInv
    <3>3. line[t] \in Seq(Item)
      BY Counts DEF IInv, Typed
    <3> QED
      BY <3>1, <3>2, <3>3, EmptySeq
  <2>2. worker_pc[t] = "run" /\ Head(jobs[t]).kind = "poison" => jobs[t][1] = Poison
    <3>1. worker_pc[t] = "run" => \/ IsJob(line[t][1]) \/ IsBarrier(line[t][1])
                                  \/ line[t][1] = Poison
      BY <2>1 DEF IInv, Items
    <3>2. \A x : IsJob(x) \/ IsBarrier(x) => x.kind # "poison"
      BY Kinds DEF IsJob, IsBarrier
    <3> QED
      BY <2>1, <3>1, <3>2
  <2>3. \A u \in Threads \ {t} : LifeOf(u)'
    BY <1>1, <1>2, <1>3, LifeKept DEF IInv, Lifecycle, owned, Typed
  <2>4. LifeOf(t) /\ owner_pc # "stopped" /\ t \in Pool
    BY <1>3 DEF IInv, Lifecycle, LifeOf
  <2>5. \/ worker_pc[t] = "asleep" /\ worker_pc'[t] = "dequeue"
        \/ worker_pc[t] = "run" /\ worker_pc'[t] = "busy" /\ jobs[t][1].kind = "job"
        \/ worker_pc[t] = "run" /\ worker_pc'[t] = "dead" /\ jobs[t][1] = Poison
    BY <1>3, <2>1, <2>2 DEF IInv, Typed
  <2>6. owner_pc' = owner_pc /\ Pool' = Pool /\ jobs' = jobs
    BY <1>1 DEF owned, Pool
  <2>7. LifeOf(t)'
    BY <2>4, <2>5, <2>6 DEF LifeOf, Poison
  <2> QED
    BY <1>1, <2>3, <2>7 DEF IInv, Lifecycle, Threads, owned
<1>6. OneCall' /\ Items' /\ Present' /\ Once' /\ Sorted'
  <2>1. /\ UNCHANGED <<line, todo, phases, finished, thread_count, owner_pc>>
        /\ Len(counter') = Len(counter)
    BY <1>1, <1>2 DEF owned
  <2> QED
    BY <2>1, NothingMoves DEF IInv
<1>7. Barriers'
  <2>1. \A u \in Threads : worker_pc'[u] # worker_pc[u] =>
          {worker_pc[u], worker_pc'[u]} \cap {"wait", "fulfil"} = {}
    BY <1>3 DEF IInv, Typed
  <2> QED
    BY <1>1, <1>2, <2>1, Counts, BarriersKept DEF IInv, owned
<1>8. Stopped'
  BY <1>1 DEF IInv, Stopped, owned
<1> QED
  BY <1>4, <1>5, <1>6, <1>7, <1>8 DEF IInv

\* Nothing is left to do: the pool is stopped, or starts.
LEMMA NothingToDo ==
  ASSUME \A t \in Threads : line'[t] = <<>>, todo' = <<>>, Pool' \subseteq Threads,
         finished' = 1 .. Len(phases'), fulfilled' = 1 .. Len(counter')
  PROVE  OneCall' /\ Items' /\ Present' /\ Once' /\ Sorted' /\ Barriers' /\ Stopped'
<1>1. /\ Len(todo') = 0
      /\ \A k \in 1 .. Len(todo') : FALSE
      /\ \A t \in Threads : Len(line'[t]) = 0 /\ \A i \in 1 .. Len(line'[t]) : FALSE
  OBVIOUS
<1>2. OneCall'
  BY <1>1 DEF OneCall, JobCall
<1>3. Items' /\ Present' /\ Once' /\ Sorted'
  BY <1>1 DEF Items, Present, Once, OnceOnLines, OnceInCall, LineOrCall,
          LineNotFinished, CallNotFinished, Sorted, Threads
<1>4. \A b : \A t \in Threads : ~Ahead(t, b)'
  BY <1>1 DEF Ahead
<1>5. \A b : Late(b)' = {}
  BY <1>4 DEF Late
<1>6. Barriers'
  BY <1>1, <1>4, <1>5 DEF Barriers, Threads
<1>7. Stopped'
  BY DEF Stopped
<1> QED
  BY <1>2, <1>3, <1>6, <1>7

LEMMA Initially ==
  ASSUME Init
  PROVE  IInv
<1>1. MaxThreads \in Nat \ {0}
  BY PoolAssumption
<1>2. /\ Len(todo) = 0 /\ Len(phases) = 0 /\ Len(counter) = 0
      /\ \A k \in 1 .. Len(todo) : FALSE
      /\ \A t \in Threads : jobs[t] = <<>> /\ job_queues[t] = <<>>
  BY DEF Init
<1>3. Typed
  <2>1. <<>> \in Seq(Item) /\ <<>> \in Seq(Entry) /\ <<>> \in Seq(Nat) /\ Len(<<>>) = 0
    OBVIOUS
  <2>2. 0 \in Pool /\ Batch \in Nat
    BY <1>1, PoolAssumption DEF Init, Pool
  <2> QED
    BY <1>2, <2>1, <2>2 DEF Init, Typed
<1>4. \A t \in Threads : line[t] = <<>> /\ \A i \in 1 .. Len(line[t]) : FALSE
  <2>1. <<>> \o <<>> = <<>> /\ Len(<<>>) = 0
    OBVIOUS
  <2> QED
    BY <1>2, <2>1 DEF line
<1>5. OneCall
  BY <1>2 DEF OneCall, JobCall
<1>6. Lifecycle
  BY <1>2, <1>4 DEF Init, Lifecycle, LifeOf
<1>7. Items /\ Present /\ Once /\ Sorted
  BY <1>2, <1>4 DEF Items, Present, Once, OnceOnLines, OnceInCall, LineOrCall,
          LineNotFinished, CallNotFinished, Sorted
<1>8. Barriers
  <2>1. fulfilled = {} /\ \A b \in 1 .. Len(counter) : FALSE
    BY <1>2 DEF Init
  <2> QED
    BY <1>4, <2>1 DEF Barriers
<1>9. Stopped
  BY <1>2 DEF Init, Stopped
<1> QED
  BY <1>3, <1>5, <1>6, <1>7, <1>8, <1>9 DEF IInv

LEMMA StartStep ==
  ASSUME IInv, Start
  PROVE  IInv'
<1>1. /\ owner_pc = "stopped" /\ owner_pc' = "running" /\ starts' = starts + 1
      /\ worker_pc' = [t \in Threads |-> IF t \in Pool THEN "dequeue" ELSE "none"]
      /\ UNCHANGED <<thread_count, job_queue_pointer, todo, phases, job_queues, jobs,
                     counter, fulfilled, finished>>
  BY DEF Start
<1>2. /\ todo = <<>> /\ \A t \in Threads : line[t] = <<>>
      /\ finished = 1 .. Len(phases) /\ fulfilled = 1 .. Len(counter)
  BY <1>1 DEF IInv, Lifecycle, LifeOf, Stopped
<1>3. line' = line /\ Pool' = Pool /\ Pool \subseteq Threads
  BY <1>1, LineKept, Counts DEF Pool, IInv
<1>4. \A t \in Threads : jobs[t] = <<>>
  <2> TAKE t \in Threads
  <2>1. jobs[t] \o job_queues[t] = <<>> /\ jobs[t] \in Seq(Item) /\ job_queues[t] \in Seq(Item)
    BY <1>2, LineType DEF IInv, Typed
  <2> QED
    BY <2>1, TailOfConcat
<1>5. Typed'
  BY <1>1 DEF IInv, Typed, Pool, Threads, Item, Entry
<1>6. Lifecycle'
  <2>1. ASSUME NEW t \in Threads PROVE LifeOf(t)'
    BY <1>1, <1>2, <1>3, <1>4 DEF LifeOf
  <2> QED
    BY <1>1, <2>1 DEF Lifecycle, Threads
<1>7. OneCall' /\ Items' /\ Present' /\ Once' /\ Sorted' /\ Barriers' /\ Stopped'
  BY <1>1, <1>2, <1>3, NothingToDo
<1> QED
  BY <1>5, <1>6, <1>7 DEF IInv

\* When the threads are dead, only the poison is left of their lines.
LEMMA Joined ==
  ASSUME IInv, Join
  PROVE  /\ todo = <<>> /\ finished = 1 .. Len(phases) /\ fulfilled = 1 .. Len(counter)
         /\ \A t \in Threads : worker_pc[t] \in {"dead", "none"}
<1>1. owner_pc = "join" /\ todo = <<>> /\ Len(todo) = 0
  BY DEF Join, IInv, Lifecycle
<1>2. ASSUME NEW t \in Pool
      PROVE  worker_pc[t] = "dead" /\ Len(line[t]) = 1 /\ line[t][1] = Poison
  <2>1. t \in Threads /\ worker_pc[t] = "dead"
    BY Counts DEF IInv, Join
  <2>2. jobs[t] # <<>> /\ jobs[t][1] = Poison
    BY <1>1, <2>1 DEF IInv, Lifecycle, LifeOf
  <2>3. line[t] # <<>> /\ line[t][1] = Poison /\ line[t] \in Seq(Item) /\ Len(line[t]) \in Nat
    BY <2>1, <2>2, BatchFirst, Counts DEF IInv
  <2>4. 1 \in 1 .. Len(line[t])
    BY <2>3, EmptySeq
  <2>5. 1 = Len(line[t])
    <3>1. \A x : IsJob(x) \/ IsBarrier(x) => x # Poison
      BY Kinds DEF IsJob, IsBarrier
    <3> QED
      BY <2>1, <2>3, <2>4, <3>1 DEF IInv, Items
  <2> QED
    BY <2>1, <2>3, <2>5
<1>3. ASSUME NEW t \in Threads \ Pool
      PROVE  worker_pc[t] = "none" /\ Len(line[t]) = 0
  BY <1>1 DEF IInv, Lifecycle, LifeOf
<1>4. \A t \in Threads : \A i \in 1 .. Len(line[t]) : line[t][i] = Poison
  BY <1>2, <1>3
<1>5. finished = 1 .. Len(phases)
  <2>1. \A j : Job(j) # Poison
    BY Kinds
  <2>2. \A j \in 1 .. Len(phases) : j \in finished
    BY <1>1, <1>4, <2>1 DEF IInv, Present
  <2> QED
    BY <2>2 DEF IInv, Typed
<1>6. fulfilled = 1 .. Len(counter)
  <2>1. 0 \in Pool /\ 0 \in Threads /\ worker_pc[0] = "dead"
    BY <1>2, Counts DEF Pool, IInv
  <2>2. ASSUME NEW b \in 1 .. Len(counter)
        PROVE  ~At(0, b) /\ ~Ahead(0, b)
    <3>1. \A i \in 1 .. Len(line[0]) : line[0][i] # Barrier(b, thread_count)
      BY <1>4, <2>1, Kinds
    <3> QED
      BY <1>1, <2>1, <3>1 DEF At, Ahead
  <2>3. \A b \in 1 .. Len(counter) : b \in fulfilled
    BY <2>1, <2>2 DEF IInv, Barriers
  <2> QED
    BY <2>3 DEF IInv, Typed
<1> QED
  BY <1>1, <1>2, <1>3, <1>5, <1>6

LEMMA JoinStep ==
  ASSUME IInv, Join
  PROVE  IInv'
<1>1. /\ todo = <<>> /\ finished = 1 .. Len(phases) /\ fulfilled = 1 .. Len(counter)
      /\ \A t \in Threads : worker_pc[t] \in {"dead", "none"}
  BY Joined
<1>2. /\ owner_pc' = "stopped" /\ thread_count' \in 1 .. MaxThreads /\ job_queue_pointer' = 0
      /\ job_queues' = [t \in Threads |-> <<>>] /\ jobs' = [t \in Threads |-> <<>>]
      /\ UNCHANGED <<todo, starts, phases, worker_pc, counter, fulfilled, finished>>
  BY DEF Join
<1>3. <<>> \in Seq(Item) /\ Len(<<>>) = 0 /\ <<>> \o <<>> = <<>>
  OBVIOUS
<1>4. \A t \in Threads : line'[t] = <<>>
  BY <1>2, <1>3 DEF line, Threads
<1>5. 0 \in Pool' /\ Pool' \subseteq Threads
  <2>1. MaxThreads \in Nat /\ thread_count' \in 1 .. MaxThreads
    BY <1>2, PoolAssumption
  <2>2. \A x \in 1 .. MaxThreads : 0 \in 0 .. x - 1 /\ 0 .. x - 1 \subseteq 0 .. MaxThreads - 1
    BY <2>1
  <2>3. Pool' = 0 .. thread_count' - 1
    BY DEF Pool
  <2> QED
    BY <2>1, <2>2, <2>3 DEF Threads
<1>6. Typed'
  <2>1. Batch \in Nat
    BY PoolAssumption
  <2> QED
    BY <1>2, <1>3, <1>5, <2>1 DEF IInv, Typed, Threads, Item, Entry
<1>7. Lifecycle'
  <2>1. ASSUME NEW t \in Threads PROVE LifeOf(t)'
    BY <1>1, <1>2, <1>4 DEF LifeOf
  <2> QED
    BY <1>1, <1>2, <2>1 DEF Lifecycle, Threads
<1>8. OneCall' /\ Items' /\ Present' /\ Once' /\ Sorted' /\ Barriers' /\ Stopped'
  BY <1>1, <1>2, <1>4, <1>5, NothingToDo
<1> QED
  BY <1>6, <1>7, <1>8 DEF IInv

\* Between the calls of a running pool no queue has the poison.
LEMMA NoPoison ==
  ASSUME IInv, owner_pc = "running", todo = <<>>
  PROVE  /\ Len(todo) = 0
         /\ \A t \in Threads : \A i \in 1 .. Len(line[t]) : IsJob(line[t][i]) \/ IsBarrier(line[t][i])
         /\ \A x : IsJob(x) => /\ x.kind = "job" /\ x.id \in 1 .. Len(phases) /\ x = Job(x.id)
                               /\ Level(x) = phases[x.id]
         /\ \A x : IsBarrier(x) => /\ x.kind = "barrier" /\ x.id \in 1 .. Len(counter)
                                   /\ x = Barrier(x.id, thread_count) /\ Level(x) = x.id
<1>1. Len(todo) = 0 /\ \A t : ~Poisoned(t)
  BY DEF Poisoned
<1>2. \A x : IsJob(x) => /\ x.kind = "job" /\ x.id \in 1 .. Len(phases) /\ x = Job(x.id)
                         /\ Level(x) = phases[x.id]
  BY Kinds DEF IsJob, Level
<1>3. \A x : IsBarrier(x) => /\ x.kind = "barrier" /\ x.id \in 1 .. Len(counter)
                             /\ x = Barrier(x.id, thread_count) /\ Level(x) = x.id
  BY Kinds DEF IsBarrier, Level
<1> QED
  BY <1>1, <1>2, <1>3 DEF IInv, Items

\* A call is begun while the pool runs: the threads have not moved.
LEMMA CallBegins ==
  ASSUME IInv, owner_pc = "running", line' = line,
         UNCHANGED <<thread_count, owner_pc, worker_pc, jobs>>
  PROVE  Lifecycle' /\ Stopped'
<1>1. \A t \in Threads : LifeOf(t)'
  BY LifeKept DEF IInv, Lifecycle
<1> QED
  BY <1>1 DEF Lifecycle, Stopped, Threads

LEMMA SubmitStep ==
  ASSUME IInv, NEW m \in Nat \ {0}, Submits(m)
  PROVE  IInv'
<1> DEFINE N == Len(phases)
<1>1. /\ owner_pc = "running" /\ todo = <<>> /\ line' = line /\ N \in Nat
      /\ job_queue_pointer' \in Pool
      /\ UNCHANGED <<thread_count, owner_pc, starts, job_queues, worker_pc, jobs,
                     counter, fulfilled, finished>>
  BY NewPhases, Counts DEF Submits, IInv
<1>2. /\ todo' \in Seq(Entry)
      /\ \A k \in 1 .. Len(todo') : todo'[k].queue \in Pool
      /\ \A k, l \in 1 .. Len(todo') :
           \A i \in 1 .. Len(todo'[k].items), h \in 1 .. Len(todo'[l].items) :
             todo'[k].items[i] = todo'[l].items[h] => k = l /\ i = h
  BY DEF Submits, NewJobsOnce
<1>2a. \A k \in 1 .. Len(todo') : \A i \in 1 .. Len(todo'[k].items) :
         \E x \in 1 .. m : todo'[k].items[i] = Job(N + x)
  BY DEF Submits, NewJobsOnce
<1>2b. \A x \in 1 .. m : \E k \in 1 .. Len(todo') : \E i \in 1 .. Len(todo'[k].items) :
         todo'[k].items[i] = Job(N + x)
  BY DEF Submits, NewJobsOnce
<1>3. /\ phases' \in Seq(Nat) /\ Len(phases') = N + m
      /\ \A j \in 1 .. N : phases'[j] = phases[j]
      /\ \A x \in 1 .. m : phases'[N + x] = Len(counter)
  BY NewPhases DEF IInv
<1>4. /\ Len(todo) = 0
      /\ \A t \in Threads : \A i \in 1 .. Len(line[t]) : IsJob(line[t][i]) \/ IsBarrier(line[t][i])
      /\ \A x : IsJob(x) => /\ x.kind = "job" /\ x.id \in 1 .. N /\ x = Job(x.id)
                            /\ Level(x) = phases[x.id]
      /\ \A x : IsBarrier(x) => /\ x.kind = "barrier" /\ x.id \in 1 .. Len(counter)
                                /\ x = Barrier(x.id, thread_count) /\ Level(x) = x.id
  BY <1>1, NoPoison
<1> HIDE DEF N
<1>5. \A j \in 1 .. N : j \in 1 .. N + m
  BY <1>1
<1>6. \A x \in 1 .. m : N + x \in 1 .. N + m /\ N + x \notin 1 .. N
  BY <1>1
<1>7. \A j \in 1 .. N + m : j \in 1 .. N \/ \E x \in 1 .. m : j = N + x
  <2> TAKE j \in 1 .. N + m
  <2>1. j \notin 1 .. N => j - N \in 1 .. m /\ j = N + (j - N)
    BY <1>1
  <2> QED
    BY <2>1
<1>8. Typed'
  <2>1. \A j \in 1 .. N + m : phases'[j] <= Len(counter)
    <3>1. Len(counter) \in Nat
      BY Counts DEF IInv, Typed
    <3>2. \A j \in 1 .. N : phases[j] <= Len(counter)
      BY DEF IInv, Typed, N
    <3> TAKE j \in 1 .. N + m
    <3>3. CASE j \in 1 .. N
      BY <1>3, <3>2, <3>3
    <3>4. CASE \E x \in 1 .. m : j = N + x
      <4>1. phases'[j] = Len(counter)
        BY <1>3, <3>4
      <4> QED
        BY <3>1, <4>1
    <3> QED
      BY <1>7, <3>3, <3>4
  <2>2. finished \subseteq 1 .. N + m
    BY <1>5 DEF IInv, Typed, N
  <2> QED
    BY <1>1, <1>2, <1>3, <2>1, <2>2 DEF IInv, Typed, Pool, Threads, Item, Entry
<1>9. OneCall'
  <2>1. JobCall'
    <3>1. \A k \in 1 .. Len(todo') : \A i \in 1 .. Len(todo'[k].items) :
            \E j \in 1 .. Len(phases') : todo'[k].items[i] = Job(j) /\ phases'[j] = Len(counter)
      <4> TAKE k \in 1 .. Len(todo')
      <4> TAKE i \in 1 .. Len(todo'[k].items)
      <4>1. PICK x \in 1 .. m : todo'[k].items[i] = Job(N + x)
        BY <1>2a
      <4>2. N + x \in 1 .. Len(phases') /\ phases'[N + x] = Len(counter)
        BY <1>3, <1>6
      <4> QED
        BY <4>1, <4>2
    <3> QED
      BY <1>1, <3>1 DEF JobCall, Job
  <2> QED
    BY <1>1, <1>2, <2>1 DEF OneCall, Pool
<1>10. Lifecycle' /\ Stopped'
  BY <1>1, CallBegins
<1>11. \A t \in Threads : \A i \in 1 .. Len(line[t]) : IsJob(line[t][i])' \/ IsBarrier(line[t][i])'
  <2>1. \A x : IsJob(x) => \E j \in 1 .. Len(phases') : x = Job(j)
    BY <1>3, <1>5 DEF IsJob, N
  <2>2. \A t \in Threads : \A i \in 1 .. Len(line[t]) : IsJob(line[t][i]) => IsJob(line[t][i])'
    BY <1>1, <2>1 DEF IsJob, Job
  <2>3. \A t \in Threads : \A i \in 1 .. Len(line[t]) : IsBarrier(line[t][i]) => IsBarrier(line[t][i])'
    BY <1>1 DEF IsBarrier, Barrier
  <2> QED
    BY <1>4, <2>2, <2>3
<1>12. Items'
  BY <1>1, <1>11 DEF Items, Threads
<1>13. Present'
  <2> SUFFICES ASSUME NEW j \in 1 .. N + m
               PROVE  \/ j \in finished
                      \/ \E t \in Threads : \E i \in 1 .. Len(line[t]) : line[t][i] = Job(j)
                      \/ \E k \in 1 .. Len(todo') : \E i \in 1 .. Len(todo'[k].items) :
                           todo'[k].items[i] = Job(j)
    BY <1>1, <1>3 DEF Present, Threads, Job
  <2>1. CASE j \in 1 .. N
    BY <1>4, <2>1 DEF IInv, Present, N
  <2>2. CASE \E x \in 1 .. m : j = N + x
    BY <1>2b, <2>2
  <2> QED
    BY <1>7, <2>1, <2>2
<1>14. Once'
  <2>1. \A t \in Threads, k \in 1 .. Len(todo') :
          \A i \in 1 .. Len(line[t]), h \in 1 .. Len(todo'[k].items) :
            line[t][i].kind = "job" => line[t][i] # todo'[k].items[h]
    <3> TAKE t \in Threads, k \in 1 .. Len(todo')
    <3> TAKE i \in 1 .. Len(line[t]), h \in 1 .. Len(todo'[k].items)
    <3>1. PICK x \in 1 .. m : todo'[k].items[h] = Job(N + x)
      BY <1>2a
    <3>2. line[t][i].kind = "job" => line[t][i].id \in 1 .. N
      BY <1>4
    <3>3. Job(N + x).id \notin 1 .. N
      BY <1>6, Kinds
    <3> QED
      BY <3>1, <3>2, <3>3
  <2>2. \A k \in 1 .. Len(todo') : \A i \in 1 .. Len(todo'[k].items) :
          todo'[k].items[i].id \notin finished
    <3> TAKE k \in 1 .. Len(todo')
    <3> TAKE i \in 1 .. Len(todo'[k].items)
    <3>1. PICK x \in 1 .. m : todo'[k].items[i] = Job(N + x)
      BY <1>2a
    <3>2. Job(N + x).id \notin 1 .. N
      BY <1>6, Kinds
    <3> QED
      BY <3>1, <3>2 DEF IInv, Typed, N
  <2> QED
    BY <1>1, <1>2, <2>1, <2>2 DEF IInv, Once, OnceOnLines, OnceInCall, LineOrCall,
          LineNotFinished, CallNotFinished, Threads
<1>15. \A t \in Threads : \A i \in 1 .. Len(line[t]) : Level(line[t][i])' = Level(line[t][i])
  BY <1>1, <1>3, <1>4 DEF Level
<1>16. \A k \in 1 .. Len(todo') : \A b \in Nat : todo'[k].items # <<Barrier(b, thread_count)>>
  <2> TAKE k \in 1 .. Len(todo')
  <2> TAKE b \in Nat
  <2> SUFFICES ASSUME todo'[k].items = <<Barrier(b, thread_count)>> PROVE FALSE
    OBVIOUS
  <2>1. Barrier(b, thread_count) \in Item
    BY Kinds, Counts DEF IInv
  <2>2. 1 \in 1 .. Len(todo'[k].items) /\ todo'[k].items[1] = Barrier(b, thread_count)
    BY <2>1, Single
  <2> QED
    <3>1. PICK x \in 1 .. m : todo'[k].items[1] = Job(N + x)
      BY <1>2a, <2>2
    <3>2. Job(N + x).kind = "job" /\ Barrier(b, thread_count).kind = "barrier"
      BY Kinds
    <3> QED
      BY <2>2, <3>1, <3>2
<1>17. Sorted'
  <2>1. \A t \in Threads : \A i, k \in 1 .. Len(line[t]) :
          i < k /\ line[t][k] # Poison => Follows(line[t][i], line[t][k])'
    BY <1>1, <1>15 DEF IInv, Sorted, Follows
  <2>2. \A k \in 1 .. Len(todo') : todo'[k].items # <<Barrier(Len(counter), thread_count)>>
    BY <1>16, Counts DEF IInv
  <2> QED
    BY <1>1, <2>1, <2>2 DEF Sorted, Threads, Poison, Barrier
<1>18. Barriers'
  <2>1. \A t \in Threads, b \in 1 .. Len(counter) : At(t, b)' <=> At(t, b)
    BY <1>1 DEF At, Barrier
  <2>2. \A t \in Threads, b \in 1 .. Len(counter) : Ahead(t, b)' <=> Ahead(t, b)
    BY <1>1, <1>4, <1>16, Counts DEF IInv, Ahead, Barrier
  <2>3. Pool \subseteq Threads /\ Pool' = Pool /\ Threads' = Threads
    BY <1>1, Counts DEF IInv, Pool, Threads
  <2>4. \A b \in 1 .. Len(counter) : Late(b)' = Late(b)
    BY <2>2, <2>3 DEF Late
  <2>5. fulfilled \subseteq 1 .. Len(counter)
    BY DEF IInv, Typed
  <2> QED
    BY <1>1, <1>15, <2>1, <2>2, <2>3, <2>4, <2>5 DEF IInv, Barriers
<1> QED
  BY <1>8, <1>9, <1>10, <1>12, <1>13, <1>14, <1>17, <1>18 DEF IInv

LEMMA BarrierStep ==
  ASSUME IInv, SubmitBarrier
  PROVE  IInv'
<1>0. PICK b \in Nat : b = Len(counter) + 1
  BY Counts DEF IInv
<1>1. /\ owner_pc = "running" /\ todo = <<>> /\ line' = line
      /\ counter' \in Seq(Nat) /\ Len(counter') = b /\ counter'[b] = 0
      /\ \A c \in 1 .. Len(counter) : counter'[c] = counter[c]
      /\ UNCHANGED <<thread_count, job_queue_pointer, owner_pc, starts, phases,
                     job_queues, worker_pc, jobs, fulfilled, finished>>
  BY <1>0, NewBarrier DEF IInv
<1>2. /\ todo' \in Seq(Entry)
      /\ \A k \in 1 .. Len(todo') :
           todo'[k].queue \in Pool /\ todo'[k].items = <<Barrier(b, thread_count)>>
      /\ \A k, l \in 1 .. Len(todo') : todo'[k].queue = todo'[l].queue => k = l
      /\ \A t \in Pool : \E k \in 1 .. Len(todo') : todo'[k].queue = t
  BY <1>0, NewBarrier DEF IInv
<1>3. /\ Len(todo) = 0
      /\ \A t \in Threads : \A i \in 1 .. Len(line[t]) : IsJob(line[t][i]) \/ IsBarrier(line[t][i])
      /\ \A x : IsJob(x) => /\ x.kind = "job" /\ x.id \in 1 .. Len(phases) /\ x = Job(x.id)
                            /\ Level(x) = phases[x.id]
      /\ \A x : IsBarrier(x) => /\ x.kind = "barrier" /\ x.id \in 1 .. Len(counter)
                                /\ x = Barrier(x.id, thread_count) /\ Level(x) = x.id
  BY <1>1, NoPoison
<1>4. /\ Len(counter) \in Nat /\ b \in Nat \ {0} /\ thread_count \in Nat \ {0}
      /\ Pool \subseteq Threads /\ Pool' = Pool /\ Threads' = Threads
      /\ \A j \in 1 .. Len(phases) : phases[j] \in Nat /\ phases[j] <= Len(counter)
      /\ \A c \in 1 .. Len(counter) : c \in 1 .. b /\ c < b
      /\ \A c \in 1 .. b : c \in 1 .. Len(counter) \/ c = b
  <2>1. Len(counter) \in Nat /\ b = Len(counter) + 1 /\ thread_count \in Nat \ {0}
    BY <1>0, <1>1, Counts DEF IInv, Typed
  <2>2. Pool \subseteq Threads /\ Pool' = Pool /\ Threads' = Threads
    BY <1>1, Counts DEF IInv, Pool, Threads
  <2>3. \A j \in 1 .. Len(phases) : phases[j] \in Nat /\ phases[j] <= Len(counter)
    BY Counts DEF IInv, Typed
  <2> QED
    BY <2>1, <2>2, <2>3
<1>5. \A c \in Nat : \A i \in 1 .. Len(<<Barrier(c, thread_count)>>) :
        <<Barrier(c, thread_count)>>[i] = Barrier(c, thread_count)
  <2> TAKE c \in Nat
  <2>1. Barrier(c, thread_count) \in Item
    BY <1>4, Kinds
  <2> QED
    BY <2>1, Single
<1>6. \A k \in 1 .. Len(todo') : \A i \in 1 .. Len(todo'[k].items) :
        todo'[k].items[i] = Barrier(b, thread_count) /\ todo'[k].items[i].kind = "barrier"
  BY <1>2, <1>4, <1>5, Kinds
<1>7. \A c \in Nat : <<Barrier(c, thread_count)>> = <<Barrier(b, thread_count)>> => c = b
  <2> TAKE c \in Nat
  <2>1. Barrier(c, thread_count).id = c /\ Barrier(b, thread_count).id = b
    BY Kinds
  <2> QED
    BY <2>1
<1>8. Typed'
  <2>1. \A j \in 1 .. Len(phases) : phases[j] <= b
    <3> TAKE j \in 1 .. Len(phases)
    <3> QED
      BY <1>0, <1>4
  <2>2. fulfilled \subseteq 1 .. b
    BY <1>4 DEF IInv, Typed
  <2> QED
    BY <1>1, <1>2, <2>1, <2>2 DEF IInv, Typed, Pool, Threads, Item, Entry
<1>9. OneCall'
  <2>1. BarrierCall'
    BY <1>1, <1>2, <1>4 DEF BarrierCall, Barrier
  <2> QED
    BY <1>2, <1>4, <2>1 DEF OneCall
<1>10. Lifecycle' /\ Stopped'
  BY <1>1, CallBegins
<1>11. Items'
  <2>1. \A t \in Threads : \A i \in 1 .. Len(line[t]) : IsJob(line[t][i]) => IsJob(line[t][i])'
    BY <1>1 DEF IsJob, Job
  <2>2. \A t \in Threads : \A i \in 1 .. Len(line[t]) : IsBarrier(line[t][i]) => IsBarrier(line[t][i])'
    BY <1>1, <1>4 DEF IsBarrier, Barrier
  <2> QED
    BY <1>1, <1>3, <1>4, <2>1, <2>2 DEF Items
<1>12. Present'
  BY <1>1, <1>3 DEF IInv, Present, Threads, Job
<1>13. Once'
  <2>1. \A t \in Threads, k \in 1 .. Len(todo') :
          \A i \in 1 .. Len(line[t]), h \in 1 .. Len(todo'[k].items) :
            line[t][i].kind = "job" => line[t][i] # todo'[k].items[h]
    BY <1>6
  <2> QED
    BY <1>1, <1>6, <2>1 DEF IInv, Once, OnceOnLines, OnceInCall, LineOrCall,
          LineNotFinished, CallNotFinished, Threads
<1>14. \A t \in Threads : \A i \in 1 .. Len(line[t]) :
         Level(line[t][i])' = Level(line[t][i]) /\ Level(line[t][i]) < b
  <2> TAKE t \in Threads
  <2> TAKE i \in 1 .. Len(line[t])
  <2>1. Level(line[t][i])' = Level(line[t][i])
    BY <1>1 DEF Level
  <2>2. CASE IsJob(line[t][i])
    <3>1. line[t][i].id \in 1 .. Len(phases) /\ Level(line[t][i]) = phases[line[t][i].id]
      BY <1>3, <2>2
    <3>2. phases[line[t][i].id] \in Nat /\ phases[line[t][i].id] <= Len(counter)
      BY <1>4, <3>1
    <3> QED
      BY <1>0, <1>4, <2>1, <3>1, <3>2
  <2>3. CASE IsBarrier(line[t][i])
    BY <1>3, <1>4, <2>1, <2>3
  <2> QED
    BY <1>3, <2>2, <2>3
<1>15. Sorted'
  <2>1. \A t \in Threads : \A i, k \in 1 .. Len(line[t]) :
          i < k /\ line[t][k] # Poison => Follows(line[t][i], line[t][k])'
    BY <1>1, <1>14 DEF IInv, Sorted, Follows
  <2>2. \A k \in 1 .. Len(todo') : \A i \in 1 .. Len(line[todo'[k].queue]) :
          Level(line[todo[k].queue][i])' < b
    <3> TAKE k \in 1 .. Len(todo')
    <3>1. todo'[k].queue \in Threads
      BY <1>2, <1>4
    <3> TAKE i \in 1 .. Len(line[todo'[k].queue])
    <3> QED
      BY <1>14, <3>1 DEF Level
  <2> QED
    BY <1>1, <2>1, <2>2 DEF Sorted, Threads, Poison, Barrier
<1>16. \A t \in Threads, c \in 1 .. Len(counter) :
         /\ At(t, c)' <=> At(t, c)
         /\ Ahead(t, c)' <=> Ahead(t, c)
  <2> TAKE t \in Threads, c \in 1 .. Len(counter)
  <2>1. At(t, c)' <=> At(t, c)
    BY <1>1 DEF At, Barrier
  <2>2. \A k \in 1 .. Len(todo') : todo'[k].items # <<Barrier(c, thread_count)>>
    BY <1>2, <1>4, <1>7
  <2> QED
    BY <1>1, <1>3, <2>1, <2>2 DEF Ahead, Barrier
<1>17. \A t \in Pool : Ahead(t, b)'
  BY <1>1, <1>2 DEF Ahead, Barrier
<1>18. \A t \in Threads : ~At(t, b)'
  <2> TAKE t \in Threads
  <2>1. line[t] # <<>> => 1 \in 1 .. Len(line[t])
    BY Counts, EmptySeq DEF IInv
  <2>2. 1 \in 1 .. Len(line[t]) => line[t][1] # Barrier(b, thread_count)
    <3>1. Barrier(b, thread_count).kind = "barrier" /\ Barrier(b, thread_count).id = b
      BY Kinds
    <3> QED
      BY <1>3, <1>4, <3>1
  <2> QED
    BY <1>1, <2>1, <2>2 DEF At, Barrier
<1>19. \A c \in 1 .. Len(counter) : Late(c)' = Late(c)
  BY <1>4, <1>16 DEF Late
<1>20. Late(b)' = Pool /\ Cardinality(Pool) = thread_count
  <2>1. Late(b)' = Pool
    BY <1>4, <1>17 DEF Late
  <2>2. Cardinality(0 .. thread_count - 1) = thread_count
    BY <1>4, FS_Interval
  <2> QED
    BY <2>1, <2>2 DEF Pool
<1>21. Barriers'
  <2>1. ASSUME NEW c \in 1 .. b, NEW t \in Pool
        PROVE  c \in fulfilled' \/ At(t, c)' \/ Ahead(t, c)'
    BY <1>1, <1>4, <1>16, <1>17 DEF IInv, Barriers
  <2>2. ASSUME NEW t \in Threads, NEW i \in 1 .. Len(line[t]), NEW c \in 1 .. b,
               line[t][i].kind = "job", Level(line[t][i])' < c
        PROVE  Ahead(t, c)'
    <3>1. CASE c \in 1 .. Len(counter)
      <4>1. Ahead(t, c)
        BY <1>14, <2>2, <3>1 DEF IInv, Barriers
      <4> QED
        BY <1>16, <3>1, <4>1
    <3>2. CASE c = b
      <4>1. line[t] # <<>>
        BY <2>2
      <4>2. t \in Pool
        BY <1>1, <4>1 DEF IInv, Lifecycle, LifeOf
      <4> QED
        BY <1>17, <3>2, <4>2
    <3> QED
      BY <1>4, <3>1, <3>2
  <2>3. \A c \in fulfilled : Late(c)' = {}
    BY <1>19 DEF IInv, Barriers, Typed
  <2>4. ASSUME NEW c \in 1 .. b, NEW t \in Pool, At(t, c)', worker_pc[t] = "fulfil"
        PROVE  Late(c)' = {}
    <3>1. c \in 1 .. Len(counter)
      BY <1>4, <1>18, <2>4
    <3>2. At(t, c)
      BY <1>4, <1>16, <2>4, <3>1
    <3> QED
      BY <1>19, <2>4, <3>1, <3>2 DEF IInv, Barriers
  <2>5. ASSUME NEW c \in 1 .. b, Late(c)' # {}
        PROVE  counter'[c] + Cardinality(Late(c)') = thread_count
    <3>1. CASE c \in 1 .. Len(counter)
      BY <1>1, <1>19, <2>5, <3>1 DEF IInv, Barriers
    <3>2. CASE c = b
      BY <1>1, <1>4, <1>20, <3>2
    <3> QED
      BY <1>4, <3>1, <3>2
  <2> QED
    BY <1>1, <1>4, <2>1, <2>2, <2>3, <2>4, <2>5 DEF Barriers
<1> QED
  BY <1>8, <1>9, <1>10, <1>11, <1>12, <1>13, <1>15, <1>21 DEF IInv

LEMMA StopStep ==
  ASSUME IInv, Stop
  PROVE  IInv'
<1>1. /\ owner_pc = "running" /\ todo = <<>> /\ line' = line
      /\ UNCHANGED <<thread_count, job_queue_pointer, owner_pc, starts, phases, counter,
                     job_queues, worker_pc, jobs, fulfilled, finished>>
  BY NewPoison DEF IInv
<1>2. /\ todo' \in Seq(Entry) /\ Len(todo') = thread_count
      /\ \A k \in 1 .. Len(todo') : todo'[k].items = <<Poison>> /\ todo'[k].queue = k - 1
  BY NewPoison DEF IInv
<1>3. /\ Len(todo) = 0
      /\ \A t \in Threads : \A i \in 1 .. Len(line[t]) : IsJob(line[t][i]) \/ IsBarrier(line[t][i])
  BY <1>1, NoPoison
<1>4. /\ thread_count \in Nat \ {0} /\ Len(counter) \in Nat
      /\ Pool \subseteq Threads /\ Pool' = Pool /\ Threads' = Threads
  BY <1>1, Counts DEF IInv, Pool, Threads
<1>5. \A k \in 1 .. Len(todo') : \A i \in 1 .. Len(todo'[k].items) :
        todo'[k].items[i] = Poison /\ todo'[k].items[i].kind = "poison"
  BY <1>2, Single, Kinds
<1>6. \A c \in Nat : <<Poison>> # <<Barrier(c, thread_count)>>
  <2> TAKE c \in Nat
  <2>1. Poison.kind = "poison" /\ Barrier(c, thread_count).kind = "barrier"
    BY Kinds
  <2> QED
    BY <2>1
<1>7. Typed'
  BY <1>1, <1>2 DEF IInv, Typed, Pool, Threads, Item, Entry
<1>8. OneCall'
  <2>1. \A k \in 1 .. Len(todo') :
          k - 1 \in Pool /\ k - 1 = thread_count - Len(todo') + k - 1
    BY <1>2, <1>4 DEF Pool
  <2> QED
    BY <1>1, <1>2, <1>4, <2>1 DEF OneCall, StopCall, Poison
<1>9. Lifecycle' /\ Stopped'
  BY <1>1, CallBegins
<1>10. Items'
  <2>1. \A t \in Threads : \A i \in 1 .. Len(line[t]) : IsJob(line[t][i]) => IsJob(line[t][i])'
    BY <1>1 DEF IsJob, Job
  <2>2. \A t \in Threads : \A i \in 1 .. Len(line[t]) : IsBarrier(line[t][i]) => IsBarrier(line[t][i])'
    BY <1>1 DEF IsBarrier, Barrier
  <2> QED
    BY <1>1, <1>3, <1>4, <2>1, <2>2 DEF Items
<1>11. Present'
  BY <1>1, <1>3 DEF IInv, Present, Threads, Job
<1>12. Once'
  <2>1. \A t \in Threads, k \in 1 .. Len(todo') :
          \A i \in 1 .. Len(line[t]), h \in 1 .. Len(todo'[k].items) :
            line[t][i].kind = "job" => line[t][i] # todo'[k].items[h]
    BY <1>5
  <2> QED
    BY <1>1, <1>5, <2>1 DEF IInv, Once, OnceOnLines, OnceInCall, LineOrCall,
          LineNotFinished, CallNotFinished, Threads
<1>13. Sorted'
  <2>1. \A t \in Threads : \A i, k \in 1 .. Len(line[t]) :
          i < k /\ line[t][k] # Poison => Follows(line[t][i], line[t][k])'
    BY <1>1 DEF IInv, Sorted, Follows, Level
  <2> QED
    BY <1>1, <1>2, <1>4, <1>6, <2>1 DEF Sorted, Threads, Poison, Barrier
<1>14. Barriers'
  <2>1. \A t \in Threads, c \in 1 .. Len(counter) :
          /\ At(t, c)' <=> At(t, c)
          /\ Ahead(t, c)' <=> Ahead(t, c)
    <3> TAKE t \in Threads, c \in 1 .. Len(counter)
    <3>1. At(t, c)' <=> At(t, c)
      BY <1>1 DEF At, Barrier
    <3>2. \A k \in 1 .. Len(todo') : todo'[k].items # <<Barrier(c, thread_count)>>
      BY <1>2, <1>4, <1>6
    <3> QED
      BY <1>1, <1>3, <3>1, <3>2 DEF Ahead, Barrier
  <2>2. \A c \in 1 .. Len(counter) : Late(c)' = Late(c)
    BY <1>4, <2>1 DEF Late
  <2>3. \A t \in Threads : \A i \in 1 .. Len(line[t]) : Level(line[t][i])' = Level(line[t][i])
    BY <1>1 DEF Level
  <2>4. fulfilled \subseteq 1 .. Len(counter)
    BY DEF IInv, Typed
  <2> QED
    BY <1>1, <1>4, <2>1, <2>2, <2>3, <2>4 DEF IInv, Barriers
<1> QED
  BY <1>7, <1>8, <1>9, <1>10, <1>11, <1>12, <1>13, <1>14 DEF IInv

\* A barrier that the call still has to enqueue is the last one submitted.
LEMMA TheCallsBarrier ==
  ASSUME IInv, NEW b \in Nat, NEW k \in 1 .. Len(todo),
         todo[k].items = <<Barrier(b, thread_count)>>
  PROVE  BarrierCall /\ b = Len(counter)
<1>1. thread_count \in Nat /\ Len(counter) \in Nat
  BY Counts DEF IInv
<1>2. /\ Barrier(b, thread_count).id = b /\ Barrier(b, thread_count).kind = "barrier"
      /\ Barrier(Len(counter), thread_count).id = Len(counter) /\ Poison.kind = "poison"
      /\ Barrier(b, thread_count) \in Item /\ Barrier(Len(counter), thread_count) \in Item
  BY <1>1, Kinds
<1>3. 1 \in 1 .. Len(todo[k].items) /\ todo[k].items[1] = Barrier(b, thread_count)
  BY <1>2, Single
<1>4. ~JobCall
  <2>1. JobCall => \E j \in 1 .. Len(phases) : todo[k].items[1] = Job(j)
    BY <1>3 DEF JobCall
  <2>2. \A j : Job(j).kind = "job"
    BY Kinds
  <2> QED
    BY <1>2, <1>3, <2>1, <2>2
<1>5. ~StopCall
  <2>1. StopCall => todo[k].items[1] = Poison
    BY Single, Kinds DEF StopCall
  <2> QED
    BY <1>2, <1>3, <2>1
<1>6. BarrierCall
  BY <1>4, <1>5 DEF IInv, OneCall
<1>7. b = Len(counter)
  <2>1. todo[k].items = <<Barrier(Len(counter), thread_count)>>
    BY <1>6 DEF BarrierCall
  <2>2. todo[k].items[1] = Barrier(Len(counter), thread_count)
    BY <1>2, <2>1, Single
  <2> QED
    BY <1>2, <1>3, <2>2
<1> QED
  BY <1>6, <1>7

\* What the next enqueue of the call can be.
LEMMA WhatIsEnqueued ==
  ASSUME IInv, NEW new \in Seq(Item), 1 \in 1 .. Len(todo), new = todo[1].items
  PROVE  \/ /\ JobCall
            /\ \A i \in 1 .. Len(new) : /\ IsJob(new[i]) /\ new[i].kind = "job"
                                        /\ Level(new[i]) = Len(counter)
         \/ /\ BarrierCall /\ Len(counter) \in Nat \ {0}
            /\ Len(new) = 1 /\ new[1] = Barrier(Len(counter), thread_count)
            /\ IsBarrier(new[1]) /\ new[1].kind = "barrier" /\ Level(new[1]) = Len(counter)
         \/ /\ StopCall /\ new = <<Poison>> /\ Len(new) = 1 /\ new[1] = Poison
<1>1. /\ Len(counter) \in Nat /\ thread_count \in Nat
      /\ Barrier(Len(counter), thread_count) \in Item
  BY Counts, Kinds DEF IInv
<1>2. CASE JobCall
  <2>1. \A i \in 1 .. Len(new) : \E j \in 1 .. Len(phases) : new[i] = Job(j) /\ phases[j] = Len(counter)
    BY <1>2 DEF JobCall
  <2>2. \A j : Job(j).kind = "job" /\ Job(j).id = j
    BY Kinds
  <2> QED
    BY <1>2, <2>1, <2>2 DEF IsJob, Level
<1>3. CASE BarrierCall
  <2>1. Len(counter) > 0 /\ new = <<Barrier(Len(counter), thread_count)>>
    BY <1>3 DEF BarrierCall
  <2>2. Len(new) = 1 /\ new[1] = Barrier(Len(counter), thread_count)
    BY <1>1, <2>1, Single
  <2>3. new[1].kind = "barrier" /\ new[1].id = Len(counter)
    BY <2>2, Kinds
  <2>4. IsBarrier(new[1])
    BY <1>1, <2>1, <2>2 DEF IsBarrier
  <2> QED
    BY <1>1, <1>3, <2>1, <2>2, <2>3, <2>4 DEF Level
<1>4. CASE StopCall
  <2>1. new = <<Poison>>
    BY <1>4 DEF StopCall
  <2> QED
    BY <1>4, <2>1, Single, Kinds
<1> QED
  BY <1>2, <1>3, <1>4 DEF IInv, OneCall

LEMMA EnqueueStep ==
  ASSUME IInv, DoEnqueue
  PROVE  IInv'
<1>0. PICK q \in Pool, new \in Seq(Item) :
        q = todo[1].queue /\ new = todo[1].items
  BY EnqueuesFirst DEF IInv
<1>1. /\ 1 \in 1 .. Len(todo)
      /\ line' = [line EXCEPT ![q] = @ \o new]
      /\ Len(line'[q]) = Len(line[q]) + Len(new)
      /\ \A i \in 1 .. Len(line[q]) + Len(new) :
           line'[q][i] = IF i <= Len(line[q]) THEN line[q][i] ELSE new[i - Len(line[q])]
      /\ todo' \in Seq(Entry) /\ Len(todo') = Len(todo) - 1
      /\ \A k \in 1 .. Len(todo') : k + 1 \in 1 .. Len(todo) /\ todo'[k] = todo[k + 1]
  BY <1>0, EnqueuesFirst DEF IInv
<1>2. /\ owner_pc' = IF new = <<Poison>> /\ Len(todo) = 1 THEN "join" ELSE owner_pc
      /\ \A t \in Threads :
           \/ worker_pc'[t] = worker_pc[t]
           \/ worker_pc[t] = "asleep" /\ worker_pc'[t] = "dequeue"
      /\ UNCHANGED <<thread_count, job_queue_pointer, starts, phases, jobs, counter,
                     fulfilled, finished>>
      /\ job_queues' = [job_queues EXCEPT ![q] = @ \o new]
      /\ job_queues'[q] \in Seq(Item)
  BY <1>0, EnqueuesFirst DEF IInv
<1>3. /\ thread_count \in Nat \ {0} /\ q \in Threads
      /\ Pool \subseteq Threads /\ Pool' = Pool /\ Threads' = Threads /\ Threads \subseteq Nat
      /\ Len(new) \in Nat /\ Len(line[q]) \in Nat /\ Len(todo) \in Nat /\ Len(counter) \in Nat
  <2>1. Len(new) \in Nat
    BY LenProperties
  <2> QED
    BY <1>2, <2>1, Counts DEF IInv, Pool, Threads
<1>4. owner_pc = "running" /\ owner_pc' \in {"running", "join"}
  <2>1. todo # <<>>
    BY <1>1
  <2> QED
    BY <1>2, <2>1 DEF IInv, Lifecycle, Typed
<1>5. \/ /\ JobCall
         /\ \A i \in 1 .. Len(new) : /\ IsJob(new[i]) /\ new[i].kind = "job"
                                     /\ Level(new[i]) = Len(counter)
      \/ /\ BarrierCall /\ Len(counter) \in Nat \ {0}
         /\ Len(new) = 1 /\ new[1] = Barrier(Len(counter), thread_count)
         /\ IsBarrier(new[1]) /\ new[1].kind = "barrier" /\ Level(new[1]) = Len(counter)
      \/ /\ StopCall /\ new = <<Poison>> /\ Len(new) = 1 /\ new[1] = Poison
  BY <1>0, <1>1, WhatIsEnqueued
\* The lines before and after.
<1>6. \A t \in Threads : t # q => line'[t] = line[t]
  BY <1>1, <1>3, LineType DEF IInv
<1>7. \A t \in Threads : \A i \in 1 .. Len(line[t]) :
        i \in 1 .. Len(line'[t]) /\ line'[t][i] = line[t][i]
  BY <1>1, <1>3, <1>6
<1>8. \A i \in 1 .. Len(new) :
        Len(line[q]) + i \in 1 .. Len(line'[q]) /\ line'[q][Len(line[q]) + i] = new[i]
  <2> TAKE i \in 1 .. Len(new)
  <2>1. /\ Len(line[q]) + i \in 1 .. Len(line[q]) + Len(new)
        /\ ~(Len(line[q]) + i <= Len(line[q])) /\ Len(line[q]) + i - Len(line[q]) = i
    BY <1>3
  <2>2. line'[q][Len(line[q]) + i] = new[Len(line[q]) + i - Len(line[q])]
    BY <1>1, <2>1
  <2> QED
    BY <1>1, <2>1, <2>2
<1>9. \A t \in Threads : \A i \in 1 .. Len(line'[t]) :
        \/ i \in 1 .. Len(line[t]) /\ line'[t][i] = line[t][i]
        \/ /\ t = q /\ i > Len(line[q]) /\ i - Len(line[q]) \in 1 .. Len(new)
           /\ line'[t][i] = new[i - Len(line[q])]
  <2> TAKE t \in Threads
  <2> TAKE i \in 1 .. Len(line'[t])
  <2>1. CASE t # q
    BY <1>6, <2>1
  <2>2. CASE t = q
    <3>1. i \in 1 .. Len(line[q]) + Len(new)
      BY <1>1, <2>2
    <3>2. CASE i <= Len(line[q])
      BY <1>1, <1>3, <2>2, <3>1, <3>2
    <3>3. CASE ~(i <= Len(line[q]))
      <4>1. i > Len(line[q]) /\ i - Len(line[q]) \in 1 .. Len(new)
        BY <1>3, <3>1, <3>3
      <4>2. line'[q][i] = new[i - Len(line[q])]
        BY <1>1, <3>1, <3>3
      <4> QED
        BY <2>2, <4>1, <4>2
    <3> QED
      BY <3>2, <3>3
  <2> QED
    BY <2>1, <2>2
<1>10. \A k \in 1 .. Len(todo) : k = 1 \/ (k - 1 \in 1 .. Len(todo') /\ todo'[k - 1] = todo[k])
  <2> TAKE k \in 1 .. Len(todo)
  <2>1. k # 1 => k - 1 \in 1 .. Len(todo') /\ (k - 1) + 1 = k
    BY <1>1, <1>3
  <2> QED
    BY <1>1, <2>1
<1>11. Typed'
  <2>1. worker_pc' \in [Threads -> {"none", "dequeue", "asleep", "run", "busy", "wait", "fulfil", "dead"}]
    BY <1>0, <1>2, EnqueuesFirst DEF IInv, Typed, DoEnqueue, Notified
  <2>2. job_queues' \in [Threads -> Seq(Item)]
    BY <1>2, <1>3 DEF IInv, Typed
  <2> QED
    BY <1>1, <1>2, <1>3, <1>4, <2>1, <2>2 DEF IInv, Typed, Item, Entry
<1>12. OneCall'
  <2>1. \A k \in 1 .. Len(todo') : todo'[k].queue \in Pool
    <3> TAKE k \in 1 .. Len(todo')
    <3>1. k + 1 \in 1 .. Len(todo) /\ todo'[k] = todo[k + 1]
      BY <1>1
    <3> QED
      BY <3>1 DEF IInv, OneCall
  <2>2. ASSUME JobCall PROVE JobCall'
    <3> SUFFICES ASSUME NEW k \in 1 .. Len(todo'), NEW i \in 1 .. Len(todo'[k].items)
                 PROVE  \E j \in 1 .. Len(phases) : todo'[k].items[i] = Job(j) /\ phases[j] = Len(counter)
      BY <1>2 DEF JobCall, Job
    <3>1. k + 1 \in 1 .. Len(todo) /\ todo'[k] = todo[k + 1]
      BY <1>1
    <3> QED
      BY <2>2, <3>1 DEF JobCall
  <2>3. ASSUME BarrierCall PROVE BarrierCall'
    <3>1. Len(counter) > 0
      BY <2>3 DEF BarrierCall
    <3>2. ASSUME NEW k \in 1 .. Len(todo')
          PROVE  todo'[k].items = <<Barrier(Len(counter), thread_count)>>
      <4>1. k + 1 \in 1 .. Len(todo) /\ todo'[k] = todo[k + 1]
        BY <1>1
      <4> QED
        BY <2>3, <4>1 DEF BarrierCall
    <3>3. ASSUME NEW k \in 1 .. Len(todo'), NEW l \in 1 .. Len(todo'),
                 todo'[k].queue = todo'[l].queue
          PROVE  k = l
      <4>1. /\ k + 1 \in 1 .. Len(todo) /\ todo'[k] = todo[k + 1]
            /\ l + 1 \in 1 .. Len(todo) /\ todo'[l] = todo[l + 1]
        BY <1>1
      <4>2. k + 1 = l + 1
        BY <2>3, <3>3, <4>1 DEF BarrierCall
      <4>3. k \in Int /\ l \in Int
        OBVIOUS
      <4> QED
        BY <4>2, <4>3
    <3> QED
      BY <1>2, <3>1, <3>2, <3>3 DEF BarrierCall, Barrier
  <2>4. ASSUME StopCall PROVE StopCall'
    <3> SUFFICES ASSUME NEW k \in 1 .. Len(todo')
                 PROVE  /\ todo'[k].items = <<Poison>>
                        /\ todo'[k].queue = thread_count - Len(todo') + k - 1
      BY <1>2 DEF StopCall, Poison
    <3>1. k + 1 \in 1 .. Len(todo) /\ todo'[k] = todo[k + 1]
      BY <1>1
    <3>2. todo[k + 1].items = <<Poison>> /\ todo[k + 1].queue = thread_count - Len(todo) + (k + 1) - 1
      BY <2>4, <3>1 DEF StopCall
    <3>3. thread_count - Len(todo) + (k + 1) - 1 = thread_count - Len(todo') + k - 1
      BY <1>1, <1>3
    <3> QED
      BY <3>1, <3>2, <3>3
  <2> QED
    BY <1>3, <2>1, <2>2, <2>3, <2>4 DEF IInv, OneCall
<1>13. Lifecycle'
  <2>1. owner_pc' # "running" => todo' = <<>>
    <3>1. owner_pc' # "running" => Len(todo') = 0
      BY <1>1, <1>2, <1>4
    <3> QED
      BY <1>1, <3>1, EmptySeq
  <2>2. ASSUME NEW t \in Threads
        PROVE  LifeOf(t)'
    <3>1. LifeOf(t)
      BY DEF IInv, Lifecycle
    <3>2. t \notin Pool => line'[t] = line[t]
      BY <1>6
    <3>3. jobs'[t] = jobs[t]
      BY <1>2
    <3>4. \/ worker_pc'[t] = worker_pc[t]
          \/ worker_pc[t] = "asleep" /\ worker_pc'[t] = "dequeue"
      BY <1>2
    <3> QED
      BY <1>3, <1>4, <3>1, <3>2, <3>3, <3>4 DEF LifeOf, Poison
  <2> QED
    BY <1>3, <2>1, <2>2 DEF Lifecycle
<1>14. Items'
  <2>1. \A x : (IsJob(x) => \E j \in 1 .. Len(phases') : x = Job(j))
    BY <1>2 DEF IsJob
  <2>2. \A x : (IsBarrier(x) => \E b \in 1 .. Len(counter') : x = Barrier(b, thread_count'))
    BY <1>2 DEF IsBarrier
  <2>3. \A t \in Threads : Poisoned(t) => StopCall /\ t < q
    <3> SUFFICES ASSUME NEW t \in Threads, Poisoned(t) PROVE StopCall /\ t < q
      OBVIOUS
    <3>1. todo[1].items = <<Poison>> /\ t < todo[1].queue
      BY <1>4 DEF Poisoned
    <3>2. new[1] = Poison /\ 1 \in 1 .. Len(new)
      BY <1>0, <3>1, Single, Kinds
    <3>3. new[1].kind = "poison"
      BY <3>2, Kinds
    <3> QED
      BY <1>0, <1>5, <3>1, <3>2, <3>3
  <2>4. \A t \in Threads : StopCall /\ t <= q => Poisoned(t)'
    <3> SUFFICES ASSUME NEW t \in Threads, StopCall, t <= q PROVE Poisoned(t)'
      OBVIOUS
    <3>1. CASE Len(todo) = 1
      BY <1>0, <1>1, <1>2, <3>1 DEF Poisoned, StopCall
    <3>2. CASE Len(todo) # 1
      <4>1. 1 \in 1 .. Len(todo') /\ todo'[1] = todo[2] /\ 2 \in 1 .. Len(todo)
        BY <1>1, <1>3, <3>2
      <4>2. todo'[1].items = <<Poison>> /\ todo'[1].queue = q + 1
        BY <1>0, <1>1, <1>3, <4>1 DEF StopCall
      <4>3. todo' # <<>>
        BY <4>1
      <4> QED
        BY <1>3, <4>2, <4>3 DEF Poisoned, Poison
    <3> QED
      BY <3>1, <3>2
  <2> SUFFICES ASSUME NEW t \in Threads, NEW i \in 1 .. Len(line'[t])
               PROVE  \/ IsJob(line'[t][i]) \/ IsBarrier(line'[t][i])
                      \/ line'[t][i] = Poison /\ i = Len(line'[t]) /\ Poisoned(t)'
    BY <1>2, <1>3 DEF Items, IsJob, IsBarrier, Poison
  <2>5. CASE i \in 1 .. Len(line[t]) /\ line'[t][i] = line[t][i]
    <3>1. \/ IsJob(line[t][i]) \/ IsBarrier(line[t][i])
          \/ line[t][i] = Poison /\ i = Len(line[t]) /\ Poisoned(t)
      BY <2>5 DEF IInv, Items
    <3>2. Poisoned(t) => t # q /\ Poisoned(t)'
      BY <1>3, <2>3, <2>4
    <3> QED
      BY <1>6, <2>5, <3>1, <3>2
  <2>6. CASE t = q /\ i > Len(line[q]) /\ i - Len(line[q]) \in 1 .. Len(new)
             /\ line'[t][i] = new[i - Len(line[q])]
    <3>1. CASE Len(new) = 1 /\ new[1] = Poison /\ StopCall
      BY <1>1, <1>3, <2>4, <2>6, <3>1
    <3>2. CASE \A h \in 1 .. Len(new) : IsJob(new[h]) \/ IsBarrier(new[h])
      BY <2>6, <3>2
    <3> QED
      BY <1>5, <3>1, <3>2
  <2> QED
    BY <1>9, <2>5, <2>6
<1>15. Present'
  <2> SUFFICES ASSUME NEW j \in 1 .. Len(phases), j \notin finished
               PROVE  \/ \E t \in Threads : \E i \in 1 .. Len(line'[t]) : line'[t][i] = Job(j)
                      \/ \E k \in 1 .. Len(todo') : \E i \in 1 .. Len(todo'[k].items) :
                           todo'[k].items[i] = Job(j)
    BY <1>2, <1>3 DEF Present, Job
  <2>1. CASE \E t \in Threads : \E i \in 1 .. Len(line[t]) : line[t][i] = Job(j)
    BY <1>7, <2>1
  <2>2. CASE \E k \in 1 .. Len(todo) : \E i \in 1 .. Len(todo[k].items) : todo[k].items[i] = Job(j)
    <3>1. PICK k \in 1 .. Len(todo) : \E i \in 1 .. Len(todo[k].items) : todo[k].items[i] = Job(j)
      BY <2>2
    <3>2. CASE k = 1
      <4>1. PICK i \in 1 .. Len(new) : new[i] = Job(j)
        BY <1>0, <3>1, <3>2
      <4> QED
        BY <1>3, <1>8, <4>1
    <3>3. CASE k - 1 \in 1 .. Len(todo') /\ todo'[k - 1] = todo[k]
      BY <3>1, <3>3
    <3> QED
      BY <1>10, <3>2, <3>3
  <2> QED
    BY <2>1, <2>2 DEF IInv, Present
\* An item is on the line already, or the first of the call is.
<1>16. /\ \A t \in Threads : \A i \in 1 .. Len(line[t]), h \in 1 .. Len(new) :
            line[t][i].kind = "job" => line[t][i] # new[h]
       /\ \A i, h \in 1 .. Len(new) : new[i].kind = "job" /\ new[i] = new[h] => i = h
       /\ \A i \in 1 .. Len(new) : new[i].kind = "job" => new[i].id \notin finished
  <2>1. LineOrCall /\ OnceInCall /\ CallNotFinished
    BY DEF IInv, Once
  <2>2. \A t \in Threads : \A i \in 1 .. Len(line[t]), h \in 1 .. Len(new) :
          line[t][i].kind = "job" => line[t][i] # new[h]
    BY <1>0, <1>1, <2>1 DEF LineOrCall
  <2>3. \A i, h \in 1 .. Len(new) : new[i].kind = "job" /\ new[i] = new[h] => i = h
    BY <1>0, <1>1, <2>1 DEF OnceInCall
  <2>4. \A i \in 1 .. Len(new) : new[i].kind = "job" => new[i].id \notin finished
    BY <1>0, <1>1, <2>1 DEF CallNotFinished
  <2> QED
    BY <2>2, <2>3, <2>4
<1>17. \A k \in 1 .. Len(todo') : \A i \in 1 .. Len(new), h \in 1 .. Len(todo'[k].items) :
         new[i].kind = "job" => new[i] # todo'[k].items[h]
  <2> TAKE k \in 1 .. Len(todo')
  <2> TAKE i \in 1 .. Len(new), h \in 1 .. Len(todo'[k].items)
  <2>1. k + 1 \in 1 .. Len(todo) /\ todo'[k] = todo[k + 1] /\ k + 1 # 1
    BY <1>1
  <2>2. i \in 1 .. Len(todo[1].items) /\ h \in 1 .. Len(todo[k + 1].items)
    BY <1>0, <2>1
  <2>3. OnceInCall
    BY DEF IInv, Once
  <2>4. todo[1].items[i].kind = "job" => todo[1].items[i] # todo[k + 1].items[h]
    BY <1>1, <2>1, <2>2, <2>3 DEF OnceInCall
  <2> QED
    BY <1>0, <2>1, <2>4
<1>18. OnceOnLines'
  <2> SUFFICES ASSUME NEW t \in Threads, NEW u \in Threads,
                      NEW i \in 1 .. Len(line'[t]), NEW h \in 1 .. Len(line'[u]),
                      line'[t][i].kind = "job", line'[t][i] = line'[u][h]
               PROVE  t = u /\ i = h
    BY <1>3 DEF OnceOnLines
  <2>1. CASE i \in 1 .. Len(line[t]) /\ line'[t][i] = line[t][i]
    <3>1. CASE h \in 1 .. Len(line[u]) /\ line'[u][h] = line[u][h]
      <4>1. OnceOnLines /\ line[t][i].kind = "job" /\ line[t][i] = line[u][h]
        BY <2>1, <3>1 DEF IInv, Once
      <4> QED
        BY <2>1, <3>1, <4>1 DEF OnceOnLines
    <3>2. CASE h - Len(line[q]) \in 1 .. Len(new) /\ line'[u][h] = new[h - Len(line[q])]
      BY <1>16, <2>1, <3>2
    <3> QED
      BY <1>9, <3>1, <3>2
  <2>2. CASE t = q /\ i - Len(line[q]) \in 1 .. Len(new) /\ line'[t][i] = new[i - Len(line[q])]
    <3>1. CASE h \in 1 .. Len(line[u]) /\ line'[u][h] = line[u][h]
      <4>1. line[u][h].kind = "job" /\ line[u][h] = new[i - Len(line[q])]
        BY <2>2, <3>1
      <4> QED
        BY <1>16, <2>2, <3>1, <4>1
    <3>2. CASE u = q /\ h - Len(line[q]) \in 1 .. Len(new) /\ line'[u][h] = new[h - Len(line[q])]
      <4>1. i - Len(line[q]) = h - Len(line[q])
        BY <1>16, <2>2, <3>2
      <4>2. i \in Int /\ h \in Int
        OBVIOUS
      <4> QED
        BY <1>3, <2>2, <3>2, <4>1, <4>2
    <3> QED
      BY <1>9, <3>1, <3>2
  <2> QED
    BY <1>9, <2>1, <2>2
<1>19. OnceInCall' /\ CallNotFinished'
  <2>1. OnceInCall /\ CallNotFinished
    BY DEF IInv, Once
  <2>2. ASSUME NEW k \in 1 .. Len(todo'), NEW l \in 1 .. Len(todo'),
               NEW i \in 1 .. Len(todo'[k].items), NEW h \in 1 .. Len(todo'[l].items),
               todo'[k].items[i].kind = "job", todo'[k].items[i] = todo'[l].items[h]
        PROVE  k = l /\ i = h
    <3>1. /\ k + 1 \in 1 .. Len(todo) /\ todo'[k] = todo[k + 1]
          /\ l + 1 \in 1 .. Len(todo) /\ todo'[l] = todo[l + 1]
      BY <1>1
    <3>2. i \in 1 .. Len(todo[k + 1].items) /\ h \in 1 .. Len(todo[l + 1].items)
      BY <3>1
    <3>3. todo[k + 1].items[i].kind = "job" /\ todo[k + 1].items[i] = todo[l + 1].items[h]
      BY <2>2, <3>1
    <3>4. k + 1 = l + 1 /\ i = h
      BY <2>1, <3>1, <3>2, <3>3 DEF OnceInCall
    <3>5. k \in Int /\ l \in Int
      OBVIOUS
    <3> QED
      BY <3>4, <3>5
  <2>3. ASSUME NEW k \in 1 .. Len(todo'), NEW i \in 1 .. Len(todo'[k].items),
               todo'[k].items[i].kind = "job"
        PROVE  todo'[k].items[i].id \notin finished
    <3>1. k + 1 \in 1 .. Len(todo) /\ todo'[k] = todo[k + 1]
      BY <1>1
    <3>2. i \in 1 .. Len(todo[k + 1].items) /\ todo[k + 1].items[i].kind = "job"
      BY <2>3, <3>1
    <3> QED
      BY <2>1, <3>1, <3>2 DEF CallNotFinished
  <2> QED
    BY <1>2, <2>2, <2>3 DEF OnceInCall, CallNotFinished
<1>20. LineOrCall'
  <2> SUFFICES ASSUME NEW t \in Threads, NEW k \in 1 .. Len(todo'),
                      NEW i \in 1 .. Len(line'[t]), NEW h \in 1 .. Len(todo'[k].items),
                      line'[t][i].kind = "job"
               PROVE  line'[t][i] # todo'[k].items[h]
    BY <1>3 DEF LineOrCall
  <2>1. CASE i \in 1 .. Len(line[t]) /\ line'[t][i] = line[t][i]
    <3>1. k + 1 \in 1 .. Len(todo) /\ todo'[k] = todo[k + 1]
      BY <1>1
    <3>2. h \in 1 .. Len(todo[k + 1].items) /\ LineOrCall
      BY <3>1 DEF IInv, Once
    <3>3. line[t][i] # todo[k + 1].items[h]
      BY <2>1, <3>1, <3>2 DEF LineOrCall
    <3> QED
      BY <2>1, <3>1, <3>3
  <2>2. CASE i - Len(line[q]) \in 1 .. Len(new) /\ line'[t][i] = new[i - Len(line[q])]
    BY <1>17, <2>2
  <2> QED
    BY <1>9, <2>1, <2>2
<1>21. LineNotFinished'
  <2> SUFFICES ASSUME NEW t \in Threads, NEW i \in 1 .. Len(line'[t]), line'[t][i].kind = "job"
               PROVE  line'[t][i].id \notin finished
    BY <1>2, <1>3 DEF LineNotFinished
  <2>1. CASE i \in 1 .. Len(line[t]) /\ line'[t][i] = line[t][i]
    BY <2>1 DEF IInv, Once, LineNotFinished
  <2>2. CASE i - Len(line[q]) \in 1 .. Len(new) /\ line'[t][i] = new[i - Len(line[q])]
    BY <1>16, <2>2
  <2> QED
    BY <1>9, <2>1, <2>2
<1>22. Once'
  BY <1>18, <1>19, <1>20, <1>21 DEF Once
\* No poison is on the line yet, and nothing comes after what the call enqueues.
<1>23. \A i \in 1 .. Len(line[q]) : Level(line[q][i]) \in Nat /\ Level(line[q][i]) <= Len(counter)
  <2> TAKE i \in 1 .. Len(line[q])
  <2>1. IsJob(line[q][i]) \/ IsBarrier(line[q][i])
    <3>1. \/ IsJob(line[q][i]) \/ IsBarrier(line[q][i])
          \/ line[q][i] = Poison /\ i = Len(line[q]) /\ Poisoned(q)
      BY <1>3 DEF IInv, Items
    <3>2. ~Poisoned(q)
      BY <1>0, <1>3, <1>4 DEF Poisoned
    <3> QED
      BY <3>1, <3>2
  <2>2. CASE IsJob(line[q][i])
    <3>1. PICK j \in 1 .. Len(phases) : line[q][i] = Job(j)
      BY <2>2 DEF IsJob
    <3>2. Level(line[q][i]) = phases[j]
      BY <3>1, Kinds DEF Level
    <3>3. phases[j] \in Nat /\ phases[j] <= Len(counter)
      BY Counts DEF IInv, Typed
    <3> QED
      BY <3>2, <3>3
  <2>3. CASE IsBarrier(line[q][i])
    <3>1. PICK b \in 1 .. Len(counter) : line[q][i] = Barrier(b, thread_count)
      BY <2>3 DEF IsBarrier
    <3>2. Level(line[q][i]) = b
      BY <3>1, Kinds DEF Level
    <3> QED
      BY <1>3, <3>2
  <2> QED
    BY <2>1, <2>2, <2>3
<1>25. Sorted'
  <2>1. ASSUME NEW t \in Threads, NEW i \in 1 .. Len(line'[t]), NEW k \in 1 .. Len(line'[t]),
               i < k, line'[t][k] # Poison
        PROVE  Follows(line'[t][i], line'[t][k])
    <3>1. CASE k \in 1 .. Len(line[t]) /\ line'[t][k] = line[t][k]
      <4>1. i \in 1 .. Len(line[t])
        BY <2>1, <3>1
      <4>2. line'[t][i] = line[t][i]
        BY <1>7, <4>1
      <4> QED
        BY <2>1, <3>1, <4>1, <4>2 DEF IInv, Sorted
    <3>2. CASE t = q /\ k > Len(line[q]) /\ k - Len(line[q]) \in 1 .. Len(new)
               /\ line'[t][k] = new[k - Len(line[q])]
      <4> DEFINE y == new[k - Len(line[q])]
      <4>1. CASE \A h \in 1 .. Len(new) : new[h].kind = "job" /\ Level(new[h]) = Len(counter)
        <5>1. Level(line'[t][i]) <= Len(counter)
          <6>1. CASE i \in 1 .. Len(line[t]) /\ line'[t][i] = line[t][i]
            BY <1>23, <3>2, <6>1
          <6>2. CASE i - Len(line[q]) \in 1 .. Len(new) /\ line'[t][i] = new[i - Len(line[q])]
            BY <1>3, <4>1, <6>2
          <6> QED
            BY <1>9, <6>1, <6>2
        <5>2. y.kind = "job" /\ Level(y) = Len(counter)
          BY <3>2, <4>1
        <5> QED
          BY <3>2, <5>1, <5>2 DEF Follows
      <4>2. CASE /\ BarrierCall /\ Len(new) = 1 /\ new[1] = Barrier(Len(counter), thread_count)
                 /\ new[1].kind = "barrier" /\ Level(new[1]) = Len(counter)
        <5>1. i \in 1 .. Len(line[q]) /\ line'[t][i] = line[q][i] /\ y = new[1]
          <6>1. k - Len(line[q]) = 1 /\ k \in Int /\ i \in Int
            BY <3>2, <4>2
          <6>2. i \in 1 .. Len(line[q])
            BY <1>3, <2>1, <6>1
          <6> QED
            BY <1>3, <1>7, <3>2, <6>1, <6>2
        <5>2. Level(line[q][i]) < Len(counter)
          <6>1. todo[1].items = <<Barrier(Len(counter), thread_count)>>
            BY <1>1, <4>2 DEF BarrierCall
          <6> QED
            BY <1>0, <1>1, <5>1, <6>1 DEF IInv, Sorted
        <5> QED
          BY <3>2, <4>2, <5>1, <5>2 DEF Follows
      <4>3. CASE Len(new) = 1 /\ new[1] = Poison
        BY <2>1, <3>2, <4>3
      <4> QED
        BY <1>5, <4>1, <4>2, <4>3
    <3> QED
      BY <1>9, <3>1, <3>2
  <2>2. ASSUME NEW k \in 1 .. Len(todo'), NEW i \in 1 .. Len(line'[todo'[k].queue]),
               todo'[k].items = <<Barrier(Len(counter), thread_count)>>
        PROVE  Level(line'[todo'[k].queue][i]) < Len(counter)
    <3>1. k + 1 \in 1 .. Len(todo) /\ todo'[k] = todo[k + 1] /\ k + 1 # 1
      BY <1>1
    <3>2. BarrierCall
      BY <1>3, <2>2, <3>1, TheCallsBarrier
    <3>3. todo[k + 1].queue # q
      BY <1>0, <1>1, <3>1, <3>2 DEF BarrierCall
    <3>4. todo[k + 1].queue \in Threads
      BY <1>3, <3>1 DEF IInv, OneCall
    <3>5. line'[todo'[k].queue] = line[todo[k + 1].queue]
      BY <1>6, <3>1, <3>3, <3>4
    <3>6. i \in 1 .. Len(line[todo[k + 1].queue])
      BY <3>5
    <3>7. todo[k + 1].items = <<Barrier(Len(counter), thread_count)>>
      BY <2>2, <3>1
    <3>8. Level(line[todo[k + 1].queue][i]) < Len(counter)
      BY <3>1, <3>6, <3>7 DEF IInv, Sorted
    <3> QED
      BY <3>5, <3>8
  <2> QED
    BY <1>2, <1>3, <2>1, <2>2 DEF Sorted, Follows, Level, Poison, Barrier
\* A thread at a barrier has something on its line.
<1>26. \A t \in Threads : worker_pc[t] \in {"wait", "fulfil"} =>
         line[t] # <<>> /\ 1 \in 1 .. Len(line[t])
  <2> TAKE t \in Threads
  <2> HAVE worker_pc[t] \in {"wait", "fulfil"}
  <2>1. jobs[t] # <<>>
    BY DEF IInv, Lifecycle, LifeOf
  <2>2. line[t] # <<>> /\ line[t] \in Seq(Item)
    BY <2>1, BatchFirst, Counts DEF IInv
  <2> QED
    BY <2>2, EmptySeq
<1>27. \A t \in Threads : /\ worker_pc'[t] \in {"wait", "fulfil"} <=> worker_pc[t] \in {"wait", "fulfil"}
                          /\ worker_pc'[t] = "fulfil" <=> worker_pc[t] = "fulfil"
  BY <1>2
<1>28. \A t \in Threads, b \in 1 .. Len(counter) : At(t, b)' <=> At(t, b)
  <2> TAKE t \in Threads, b \in 1 .. Len(counter)
  <2>1. worker_pc[t] \in {"wait", "fulfil"} =>
          line'[t] # <<>> /\ line'[t][1] = line[t][1] /\ line[t] # <<>>
    BY <1>7, <1>26
  <2> QED
    BY <1>2, <1>27, <2>1 DEF At, Barrier
<1>29. \A t \in Threads, b \in 1 .. Len(counter) : Ahead(t, b)' <=> Ahead(t, b)
  <2> TAKE t \in Threads, b \in 1 .. Len(counter)
  <2> DEFINE B == Barrier(b, thread_count)
  <2>0. B \in Item /\ B.kind = "barrier" /\ B.id = b
    BY <1>3, Kinds
  <2>1. Ahead(t, b)' <=>
          \/ \E i \in 1 .. Len(line'[t]) :
               line'[t][i] = B /\ ~(i = 1 /\ worker_pc'[t] \in {"wait", "fulfil"})
          \/ \E k \in 1 .. Len(todo') : todo'[k].queue = t /\ todo'[k].items = <<B>>
    BY <1>2 DEF Ahead, Barrier
  <2> HIDE DEF B
  <2>2. ASSUME NEW i \in 1 .. Len(line[t]), line[t][i] = B,
               ~(i = 1 /\ worker_pc[t] \in {"wait", "fulfil"})
        PROVE  Ahead(t, b)'
    BY <1>7, <1>27, <2>1, <2>2
  <2>3. ASSUME NEW k \in 1 .. Len(todo), todo[k].queue = t, todo[k].items = <<B>>
        PROVE  Ahead(t, b)'
    <3>1. CASE k = 1
      <4>1. t = q /\ new = <<B>>
        BY <1>0, <2>3, <3>1
      <4>2. 1 \in 1 .. Len(new) /\ new[1] = B
        BY <2>0, <4>1, Single
      <4>3. /\ Len(line[q]) + 1 \in 1 .. Len(line'[q])
            /\ line'[q][Len(line[q]) + 1] = B
        BY <1>8, <4>2
      <4>4. ~(Len(line[q]) + 1 = 1 /\ worker_pc'[t] \in {"wait", "fulfil"})
        BY <1>3, <1>26, <1>27, <4>1
      <4> QED
        BY <2>1, <4>1, <4>3, <4>4
    <3>2. CASE k - 1 \in 1 .. Len(todo') /\ todo'[k - 1] = todo[k]
      BY <2>1, <2>3, <3>2
    <3> QED
      BY <1>10, <3>1, <3>2
  <2>4. ASSUME NEW i \in 1 .. Len(line'[t]), line'[t][i] = B,
               ~(i = 1 /\ worker_pc'[t] \in {"wait", "fulfil"})
        PROVE  Ahead(t, b)
    <3>1. CASE i \in 1 .. Len(line[t]) /\ line'[t][i] = line[t][i]
      BY <1>27, <2>4, <3>1 DEF Ahead, B
    <3>2. CASE t = q /\ i - Len(line[q]) \in 1 .. Len(new) /\ line'[t][i] = new[i - Len(line[q])]
      <4> DEFINE h == i - Len(line[q])
      <4>1. h \in 1 .. Len(new) /\ new[h] = B
        BY <2>4, <3>2
      <4> HIDE DEF h
      <4>2. /\ BarrierCall /\ Len(new) = 1 /\ new[1] = Barrier(Len(counter), thread_count)
        <5>1. new[h].kind = "barrier" /\ Poison.kind = "poison"
          BY <2>0, <4>1, Kinds
        <5>2. Len(new) = 1 => h = 1
          BY <4>1
        <5> QED
          BY <1>5, <4>1, <5>1, <5>2
      <4>3. new[1] = B
        BY <4>1, <4>2
      <4>4. b = Len(counter)
        <5>1. Barrier(Len(counter), thread_count).id = Len(counter)
          BY Kinds
        <5> QED
          BY <2>0, <4>2, <4>3, <5>1
      <4>5. todo[1].queue = t /\ todo[1].items = <<B>>
        BY <1>0, <1>1, <3>2, <4>2, <4>4 DEF BarrierCall, B
      <4> QED
        BY <1>1, <4>5 DEF Ahead, B
    <3> QED
      BY <1>9, <3>1, <3>2
  <2>5. ASSUME NEW k \in 1 .. Len(todo'), todo'[k].queue = t, todo'[k].items = <<B>>
        PROVE  Ahead(t, b)
    <3>1. k + 1 \in 1 .. Len(todo) /\ todo'[k] = todo[k + 1]
      BY <1>1
    <3>2. todo[k + 1].queue = t /\ todo[k + 1].items = <<B>>
      BY <2>5, <3>1
    <3> QED
      BY <3>1, <3>2 DEF Ahead, B
  <2>6. Ahead(t, b) => Ahead(t, b)'
    BY <2>2, <2>3 DEF Ahead, B
  <2>7. Ahead(t, b)' => Ahead(t, b)
    BY <2>1, <2>4, <2>5
  <2> QED
    BY <2>6, <2>7
<1>30. \A b \in 1 .. Len(counter) : Late(b)' = Late(b)
  BY <1>3, <1>29 DEF Late
<1>31. ASSUME NEW t \in Threads, NEW i \in 1 .. Len(line'[t]), NEW b \in 1 .. Len(counter),
              line'[t][i].kind = "job", Level(line'[t][i]) < b
       PROVE  Ahead(t, b)
  <2>1. CASE i \in 1 .. Len(line[t]) /\ line'[t][i] = line[t][i]
    BY <1>31, <2>1 DEF IInv, Barriers
  <2>2. CASE i - Len(line[q]) \in 1 .. Len(new) /\ line'[t][i] = new[i - Len(line[q])]
    <3> DEFINE y == new[i - Len(line[q])]
    <3>1. \/ y.kind = "job" /\ Level(y) = Len(counter)
          \/ y.kind = "barrier" \/ y = Poison
      <4>1. i - Len(line[q]) \in 1 .. Len(new)
        BY <2>2
      <4>2. Len(new) = 1 => i - Len(line[q]) = 1
        BY <4>1
      <4> QED
        BY <1>5, <4>1, <4>2
    <3>2. y.kind = "job" /\ Level(y) < b
      BY <1>31, <2>2
    <3>3. Level(y) = Len(counter)
      BY <3>1, <3>2, Kinds
    <3>4. FALSE
      BY <1>3, <3>2, <3>3
    <3> QED
      BY <3>4
  <2> QED
    BY <1>9, <2>1, <2>2
<1>32. Barriers'
  <2>1. \A b \in 1 .. Len(counter), t \in Pool : b \in fulfilled' \/ At(t, b)' \/ Ahead(t, b)'
    BY <1>2, <1>3, <1>28, <1>29 DEF IInv, Barriers
  <2>2. \A t \in Threads : \A i \in 1 .. Len(line'[t]) : \A b \in 1 .. Len(counter) :
          line'[t][i].kind = "job" /\ Level(line[t][i])' < b => Ahead(t, b)'
    <3> SUFFICES ASSUME NEW t \in Threads, NEW i \in 1 .. Len(line'[t]), NEW b \in 1 .. Len(counter),
                        line'[t][i].kind = "job", Level(line[t][i])' < b
                 PROVE  Ahead(t, b)'
      OBVIOUS
    <3>1. Level(line[t][i])' = Level(line'[t][i])
      BY <1>2 DEF Level
    <3> QED
      BY <1>29, <1>31, <3>1
  <2>3. \A b \in fulfilled : Late(b)' = {}
    BY <1>30 DEF IInv, Barriers, Typed
  <2>4. \A t \in Pool, b \in 1 .. Len(counter) :
          At(t, b)' /\ worker_pc'[t] = "fulfil" => Late(b)' = {}
    BY <1>3, <1>27, <1>28, <1>30 DEF IInv, Barriers
  <2>5. \A b \in 1 .. Len(counter) :
          Late(b)' # {} => counter[b] + Cardinality(Late(b)') = thread_count
    BY <1>30 DEF IInv, Barriers
  <2> QED
    BY <1>2, <1>3, <2>1, <2>2, <2>3, <2>4, <2>5 DEF Barriers
<1>33. Stopped'
  BY <1>4 DEF Stopped
<1> QED
  BY <1>11, <1>12, <1>13, <1>14, <1>15, <1>22, <1>25, <1>32, <1>33 DEF IInv

\* What a thread is about to do, or does: its first item.
LEMMA FirstItem ==
  ASSUME IInv, NEW t \in Threads, worker_pc[t] \in {"run", "busy", "wait", "fulfil"}
  PROVE  /\ jobs[t] # <<>> /\ Head(jobs[t]) = line[t][1] /\ line[t] # <<>>
         /\ 1 \in 1 .. Len(line[t])
         /\ t \in Pool /\ owner_pc # "stopped"
         /\ worker_pc[t] = "busy" => line[t][1].kind = "job"
         /\ worker_pc[t] \in {"wait", "fulfil"} => line[t][1].kind = "barrier"
         /\ line[t][1].kind = "job" => IsJob(line[t][1])
         /\ line[t][1].kind = "barrier" => IsBarrier(line[t][1])
<1>1. /\ jobs[t] # <<>> /\ t \in Pool /\ owner_pc # "stopped"
      /\ worker_pc[t] = "busy" => jobs[t][1].kind = "job"
      /\ worker_pc[t] \in {"wait", "fulfil"} => jobs[t][1].kind = "barrier"
  BY DEF IInv, Lifecycle, LifeOf
<1>2. line[t] # <<>> /\ line[t][1] = jobs[t][1] /\ Head(jobs[t]) = jobs[t][1]
  BY <1>1, BatchFirst DEF IInv
<1>3. 1 \in 1 .. Len(line[t])
  BY <1>2, Counts, EmptySeq DEF IInv
<1>4. /\ line[t][1].kind = "job" => IsJob(line[t][1])
      /\ line[t][1].kind = "barrier" => IsBarrier(line[t][1])
  <2>1. IsJob(line[t][1]) \/ IsBarrier(line[t][1]) \/ line[t][1] = Poison
    BY <1>3 DEF IInv, Items
  <2>2. IsJob(line[t][1]) => line[t][1].kind = "job"
    BY Kinds DEF IsJob
  <2>3. IsBarrier(line[t][1]) => line[t][1].kind = "barrier"
    BY Kinds DEF IsBarrier
  <2>4. Poison.kind = "poison"
    BY Kinds
  <2> QED
    BY <2>1, <2>2, <2>3, <2>4
<1> QED
  BY <1>1, <1>2, <1>3, <1>4

\* The barriers are in order on a line, and the call's is the last of them.
LEMMA NoSecondBarrier ==
  ASSUME IInv, NEW t \in Pool, NEW b \in 1 .. Len(counter), 1 \in 1 .. Len(line[t]),
         line[t][1] = Barrier(b, thread_count)
  PROVE  /\ \A i \in 1 .. Len(line[t]) : line[t][i] = Barrier(b, thread_count) => i = 1
         /\ \A k \in 1 .. Len(todo) :
              todo[k].queue = t => todo[k].items # <<Barrier(b, thread_count)>>
         /\ \A i \in 1 .. Len(line[t]) : line[t][i].kind = "job" => Level(line[t][i]) >= b
<1>1. /\ t \in Threads /\ b \in Nat /\ thread_count \in Nat /\ Len(counter) \in Nat
      /\ Len(line[t]) \in Nat
  BY Counts DEF IInv
<1>2. /\ line[t][1].kind = "barrier" /\ line[t][1].id = b /\ Level(line[t][1]) = b
      /\ Barrier(b, thread_count).id = b
      /\ Barrier(b, thread_count).kind = "barrier" /\ Level(Barrier(b, thread_count)) = b
  BY Kinds DEF Level
<1>3. Poison.kind = "poison"
  BY Kinds
<1>4. ASSUME NEW i \in 1 .. Len(line[t]), line[t][i] = Barrier(b, thread_count)
      PROVE  i = 1
  <2>1. 1 < i => Follows(line[t][1], line[t][i])
    BY <1>1, <1>2, <1>3, <1>4 DEF IInv, Sorted
  <2>2. ~(1 < i)
    BY <1>1, <1>2, <1>4, <2>1 DEF Follows
  <2> QED
    BY <1>1, <2>2
<1>5. ASSUME NEW k \in 1 .. Len(todo), todo[k].queue = t,
             todo[k].items = <<Barrier(b, thread_count)>>
      PROVE  FALSE
  <2>1. b = Len(counter)
    BY <1>1, <1>5, TheCallsBarrier
  <2>2. Level(line[t][1]) < Len(counter)
    BY <1>5, <2>1 DEF IInv, Sorted
  <2> QED
    BY <1>1, <1>2, <2>1, <2>2
<1>6. ASSUME NEW i \in 1 .. Len(line[t]), line[t][i].kind = "job"
      PROVE  Level(line[t][i]) >= b
  <2>1. i # 1 /\ i \in Int /\ line[t][i] # Poison
    BY <1>2, <1>3, <1>6
  <2>2. 1 < i
    BY <2>1
  <2>3. Follows(line[t][1], line[t][i])
    BY <1>1, <2>1, <2>2 DEF IInv, Sorted
  <2>4. Level(line[t][i]) \in Int
    <3>1. IsJob(line[t][i]) \/ IsBarrier(line[t][i]) \/ line[t][i] = Poison
      BY <1>1, <1>6 DEF IInv, Items
    <3>2. ~IsBarrier(line[t][i])
      BY <1>6, Kinds DEF IsBarrier
    <3>3. line[t][i].id \in 1 .. Len(phases)
      BY <2>1, <3>1, <3>2, Kinds DEF IsJob
    <3> QED
      BY <1>6, <3>3, Counts DEF IInv, Level
  <2> QED
    BY <1>1, <1>2, <1>6, <2>3, <2>4 DEF Follows
<1> QED
  BY <1>4, <1>5, <1>6

LEMMA ArriveStep ==
  ASSUME IInv, NEW t \in Threads, ArriveAtBarrier(t)
  PROVE  IInv'
<1>1. /\ jobs[t] # <<>> /\ Head(jobs[t]) = line[t][1] /\ line[t] # <<>>
      /\ 1 \in 1 .. Len(line[t]) /\ t \in Pool /\ owner_pc # "stopped"
      /\ worker_pc[t] = "run" /\ IsBarrier(line[t][1])
  BY FirstItem DEF ArriveAtBarrier, Begins
<1>2. PICK b \in 1 .. Len(counter) : line[t][1] = Barrier(b, thread_count)
  BY <1>1 DEF IsBarrier
<1>3. line[t][1].id = b /\ line[t][1].goal = thread_count /\ line[t][1].kind = "barrier"
  BY <1>2, Kinds
<1>4. /\ counter' = [counter EXCEPT ![b] = counter[b] + 1]
      /\ worker_pc' = [worker_pc EXCEPT ![t] = IF counter[b] = thread_count - 1
                                               THEN "fulfil" ELSE "wait"]
      /\ UNCHANGED <<owned, job_queues, jobs, fulfilled, finished>>
  BY <1>1, <1>3 DEF ArriveAtBarrier
<1>5. UNCHANGED <<thread_count, job_queue_pointer, owner_pc, todo, starts, phases>>
  BY <1>4 DEF owned
<1>6. /\ thread_count \in Nat \ {0} /\ counter[b] \in Nat /\ counter \in Seq(Nat)
      /\ Pool \subseteq Threads /\ Pool' = Pool /\ Threads' = Threads
      /\ b \in Nat /\ Len(counter) \in Nat
  BY <1>5, Counts DEF IInv, Typed, Pool, Threads
<1>7. /\ counter' \in Seq(Nat) /\ Len(counter') = Len(counter) /\ counter'[b] = counter[b] + 1
      /\ \A c \in 1 .. Len(counter) : c # b => counter'[c] = counter[c]
  <2>1. counter[b] + 1 \in Nat
    BY <1>6
  <2> QED
    BY <1>4, <1>6, <2>1, ExceptSeq
<1>8. line' = line
  BY <1>4, LineKept
<1>9. /\ worker_pc'[t] \in {"wait", "fulfil"}
      /\ worker_pc'[t] = "fulfil" => counter[b] = thread_count - 1
      /\ \A u \in Threads : u # t => worker_pc'[u] = worker_pc[u]
      /\ worker_pc' \in [Threads -> {"none", "dequeue", "asleep", "run", "busy", "wait", "fulfil", "dead"}]
  BY <1>4 DEF IInv, Typed
<1>10. Typed'
  BY <1>4, <1>5, <1>6, <1>7, <1>9 DEF IInv, Typed, Item, Entry
<1>11. OneCall' /\ Items' /\ Present' /\ Once' /\ Sorted'
  <2>1. /\ UNCHANGED <<line, todo, phases, finished, thread_count, owner_pc>>
        /\ Len(counter') = Len(counter)
    BY <1>4, <1>5, <1>7, <1>8
  <2> QED
    BY <2>1, NothingMoves DEF IInv
<1>12. Lifecycle'
  <2>1. \A u \in Threads : u # t => LifeOf(u)'
    BY <1>4, <1>5, <1>8, <1>9, LifeKept DEF IInv, Lifecycle
  <2>2. LifeOf(t)'
    <3>1. jobs'[t] # <<>> /\ jobs'[t][1].kind = "barrier"
      <4>1. jobs[t][1] = line[t][1]
        BY <1>1, BatchFirst DEF IInv
      <4> QED
        BY <1>1, <1>3, <1>4, <4>1
    <3> QED
      BY <1>1, <1>5, <1>6, <1>9, <3>1 DEF LifeOf
  <2> QED
    BY <1>5, <1>6, <2>1, <2>2 DEF IInv, Lifecycle
\* The thread is not late any more; nothing else changes.
<1>13. ASSUME NEW u \in Threads, NEW c \in 1 .. Len(counter), u # t
       PROVE  /\ At(u, c)' <=> At(u, c)
              /\ Ahead(u, c)' <=> Ahead(u, c)
  BY <1>5, <1>8, <1>9, <1>13 DEF At, Ahead, Barrier
<1>14. \A c \in 1 .. Len(counter) : c # b => line[t][1] # Barrier(c, thread_count)
  <2> TAKE c \in 1 .. Len(counter)
  <2>1. Barrier(c, thread_count).id = c
    BY Kinds
  <2> QED
    BY <1>3, <2>1
<1>15. ASSUME NEW c \in 1 .. Len(counter), c # b
       PROVE  ~At(t, c) /\ ~At(t, c)' /\ (Ahead(t, c)' <=> Ahead(t, c))
  <2>1. line[t][1] # Barrier(c, thread_count)
    BY <1>14, <1>15
  <2>2. ~At(t, c) /\ ~At(t, c)'
    BY <1>5, <1>8, <2>1 DEF At, Barrier
  <2>3. Ahead(t, c)' <=>
          \/ \E i \in 1 .. Len(line[t]) :
               line[t][i] = Barrier(c, thread_count) /\ ~(i = 1 /\ worker_pc'[t] \in {"wait", "fulfil"})
          \/ \E k \in 1 .. Len(todo) :
               todo[k].queue = t /\ todo[k].items = <<Barrier(c, thread_count)>>
    BY <1>5, <1>8 DEF Ahead, Barrier
  <2> QED
    BY <2>1, <2>2, <2>3 DEF Ahead
<1>16. /\ \A i \in 1 .. Len(line[t]) : line[t][i] = Barrier(b, thread_count) => i = 1
       /\ \A k \in 1 .. Len(todo) : todo[k].queue = t => todo[k].items # <<Barrier(b, thread_count)>>
       /\ \A i \in 1 .. Len(line[t]) : line[t][i].kind = "job" => Level(line[t][i]) >= b
  BY <1>1, <1>2, NoSecondBarrier
<1>17. At(t, b)' /\ ~Ahead(t, b)' /\ Ahead(t, b) /\ ~At(t, b)
  <2>1. At(t, b)'
    BY <1>1, <1>2, <1>5, <1>8, <1>9 DEF At, Barrier
  <2>2. Ahead(t, b)' <=>
          \/ \E i \in 1 .. Len(line[t]) :
               line[t][i] = Barrier(b, thread_count) /\ ~(i = 1 /\ worker_pc'[t] \in {"wait", "fulfil"})
          \/ \E k \in 1 .. Len(todo) :
               todo[k].queue = t /\ todo[k].items = <<Barrier(b, thread_count)>>
    BY <1>5, <1>8 DEF Ahead, Barrier
  <2>3. ~Ahead(t, b)'
    BY <1>9, <1>16, <2>2
  <2> QED
    BY <1>1, <1>2, <2>1, <2>3 DEF Ahead, At
<1>18. \A c \in 1 .. Len(counter) : Late(c)' = IF c = b THEN Late(b) \ {t} ELSE Late(c)
  BY <1>6, <1>13, <1>15, <1>17 DEF Late
<1>19. /\ t \in Late(b) /\ IsFiniteSet(Late(b)) /\ Cardinality(Late(b)) \in Nat
       /\ Cardinality(Late(b) \ {t}) = Cardinality(Late(b)) - 1
       /\ counter[b] + Cardinality(Late(b)) = thread_count
  <2>1. t \in Late(b)
    BY <1>1, <1>17 DEF Late
  <2>2. IsFiniteSet(Pool)
    BY <1>6, FS_Interval DEF Pool
  <2>3. IsFiniteSet(Late(b))
    BY <2>2, FS_Subset DEF Late
  <2>4. counter[b] + Cardinality(Late(b)) = thread_count
    BY <2>1 DEF IInv, Barriers
  <2> QED
    BY <2>1, <2>3, <2>4, FS_CardinalityType, FS_RemoveElement
<1>20. Barriers'
  <2>1. ASSUME NEW c \in 1 .. Len(counter), NEW u \in Pool
        PROVE  c \in fulfilled \/ At(u, c)' \/ Ahead(u, c)'
    <3>1. c \in fulfilled \/ At(u, c) \/ Ahead(u, c)
      BY DEF IInv, Barriers
    <3> QED
      BY <1>6, <1>13, <1>15, <1>17, <3>1
  <2>2. ASSUME NEW u \in Threads, NEW i \in 1 .. Len(line[u]), NEW c \in 1 .. Len(counter),
               line[u][i].kind = "job", Level(line[u][i])' < c
        PROVE  Ahead(u, c)'
    <3>1. Level(line[u][i])' = Level(line[u][i])
      BY <1>5, <1>8 DEF Level
    <3>2. Ahead(u, c)
      BY <2>2, <3>1 DEF IInv, Barriers
    <3>3. ~(u = t /\ c = b)
      <4>1. u = t /\ c = b => Level(line[t][i]) >= b
        BY <1>16, <2>2
      <4>2. u = t /\ c = b => Level(line[t][i]) \in Int
        <5>1. Level(line[u][i]) = phases[line[u][i].id]
          BY <2>2 DEF Level
        <5>2. IsJob(line[u][i]) \/ IsBarrier(line[u][i]) \/ line[u][i] = Poison
          BY DEF IInv, Items
        <5>3. line[u][i].id \in 1 .. Len(phases)
          BY <2>2, <5>2, Kinds DEF IsJob, IsBarrier
        <5> QED
          BY <5>1, <5>3, Counts DEF IInv
      <4> QED
        BY <1>6, <2>2, <3>1, <4>1, <4>2
    <3> QED
      BY <1>13, <1>15, <3>2, <3>3
  <2>3. \A c \in fulfilled : Late(c)' = {}
    <3>1. fulfilled \subseteq 1 .. Len(counter) /\ \A c \in fulfilled : Late(c) = {}
      BY DEF IInv, Typed, Barriers
    <3> QED
      BY <1>18, <3>1
  <2>4. ASSUME NEW u \in Pool, NEW c \in 1 .. Len(counter), At(u, c)', worker_pc'[u] = "fulfil"
        PROVE  Late(c)' = {}
    <3>1. CASE u = t
      <4>1. c = b /\ counter[b] = thread_count - 1
        BY <1>9, <1>15, <2>4, <3>1
      <4>2. Cardinality(Late(b) \ {t}) = 0
        BY <1>6, <1>19, <4>1
      <4>3. IsFiniteSet(Late(b) \ {t})
        BY <1>19, FS_RemoveElement
      <4> QED
        BY <1>18, <4>1, <4>2, <4>3, FS_EmptySet
    <3>2. CASE u # t
      <4>1. u \in Threads /\ At(u, c) /\ worker_pc[u] = "fulfil"
        BY <1>6, <1>9, <1>13, <2>4, <3>2
      <4>2. Late(c) = {}
        BY <4>1 DEF IInv, Barriers
      <4> QED
        BY <1>18, <4>2
    <3> QED
      BY <3>1, <3>2
  <2>5. ASSUME NEW c \in 1 .. Len(counter), Late(c)' # {}
        PROVE  counter'[c] + Cardinality(Late(c)') = thread_count
    <3>1. CASE c = b
      <4>1. Late(c)' = Late(b) \ {t} /\ counter'[c] = counter[b] + 1
        BY <1>7, <1>18, <3>1
      <4>2. Cardinality(Late(c)') = Cardinality(Late(b)) - 1
        BY <1>19, <4>1
      <4> QED
        BY <1>6, <1>19, <4>1, <4>2
    <3>2. CASE c # b
      BY <1>7, <1>18, <2>5, <3>2 DEF IInv, Barriers
    <3> QED
      BY <3>1, <3>2
  <2> QED
    BY <1>4, <1>5, <1>6, <1>7, <1>8, <2>1, <2>2, <2>3, <2>4, <2>5 DEF Barriers
<1>21. Stopped'
  BY <1>1, <1>5 DEF Stopped
<1> QED
  BY <1>10, <1>11, <1>12, <1>20, <1>21 DEF IInv

\* The thread is done with its first item: of the queues and the calls nothing
\* else changes, but what becomes finished or fulfilled.
LEMMA DropStep ==
  ASSUME IInv, NEW t \in Threads, worker_pc[t] \in {"busy", "wait", "fulfil"}, NextJob(t),
         UNCHANGED <<owned, job_queues, counter>>,
         \/ /\ line[t][1].kind = "job" /\ worker_pc[t] = "busy"
            /\ finished' = finished \cup {line[t][1].id} /\ fulfilled' = fulfilled
         \/ /\ line[t][1].kind = "barrier" /\ worker_pc[t] = "fulfil"
            /\ fulfilled' = fulfilled \cup {line[t][1].id} /\ finished' = finished
         \/ /\ line[t][1].kind = "barrier" /\ worker_pc[t] = "wait"
            /\ line[t][1].id \in fulfilled /\ fulfilled' = fulfilled /\ finished' = finished
  PROVE  IInv'
<1>1. /\ jobs[t] # <<>> /\ line[t] # <<>> /\ 1 \in 1 .. Len(line[t])
      /\ t \in Pool /\ owner_pc # "stopped"
      /\ line[t][1].kind = "job" => IsJob(line[t][1])
      /\ line[t][1].kind = "barrier" => IsBarrier(line[t][1])
  BY FirstItem
<1>2. UNCHANGED <<thread_count, job_queue_pointer, owner_pc, todo, starts, phases, job_queues, counter>>
  BY DEF owned
<1>3. /\ thread_count \in Nat \ {0} /\ Pool \subseteq Threads /\ Pool' = Pool /\ Threads' = Threads
      /\ Len(line[t]) \in Nat /\ line[t] \in Seq(Item) /\ Len(counter) \in Nat
  BY <1>2, Counts DEF IInv, Pool, Threads
<1>4. /\ line' = [line EXCEPT ![t] = Tail(@)] /\ line \in [Threads -> Seq(Item)]
      /\ jobs' = [jobs EXCEPT ![t] = Tail(@)]
      /\ worker_pc' = [worker_pc EXCEPT ![t] = IF Len(jobs[t]) = 1 THEN "dequeue" ELSE "run"]
  BY <1>1, <1>2, DropsFirst, LineType DEF IInv, NextJob
<1>5. /\ \A u \in Threads : u # t => line'[u] = line[u] /\ jobs'[u] = jobs[u] /\ worker_pc'[u] = worker_pc[u]
      /\ line'[t] = Tail(line[t]) /\ jobs'[t] = Tail(jobs[t])
      /\ worker_pc'[t] = IF Len(jobs[t]) = 1 THEN "dequeue" ELSE "run"
      /\ worker_pc' \in [Threads -> {"none", "dequeue", "asleep", "run", "busy", "wait", "fulfil", "dead"}]
  BY <1>4 DEF IInv, Typed
<1>6. /\ Len(line'[t]) = Len(line[t]) - 1
      /\ \A i \in 1 .. Len(line'[t]) : i + 1 \in 1 .. Len(line[t]) /\ line'[t][i] = line[t][i + 1]
      /\ \A i \in 1 .. Len(line[t]) : i # 1 => i - 1 \in 1 .. Len(line'[t]) /\ line'[t][i - 1] = line[t][i]
  <2>1. /\ Len(line'[t]) = Len(line[t]) - 1
        /\ \A i \in 1 .. Len(line'[t]) : line'[t][i] = line[t][i + 1]
    BY <1>1, <1>3, <1>5, HeadTailProperties
  <2>2. \A i \in 1 .. Len(line'[t]) : i + 1 \in 1 .. Len(line[t])
    BY <1>3, <2>1
  <2>3. \A i \in 1 .. Len(line[t]) : i # 1 => i - 1 \in 1 .. Len(line'[t]) /\ (i - 1) + 1 = i
    BY <1>3, <2>1
  <2>4. \A i \in 1 .. Len(line[t]) : i # 1 => line'[t][i - 1] = line[t][i]
    <3> TAKE i \in 1 .. Len(line[t])
    <3> HAVE i # 1
    <3>1. line'[t][i - 1] = line[t][(i - 1) + 1]
      BY <2>1, <2>3
    <3> QED
      BY <2>3, <3>1
  <2> QED
    BY <2>1, <2>2, <2>3, <2>4
<1> DEFINE from(u, i) == IF u = t THEN i + 1 ELSE i
<1>7. \A u \in Threads : \A i \in 1 .. Len(line'[u]) :
        /\ from(u, i) \in 1 .. Len(line[u]) /\ line'[u][i] = line[u][from(u, i)]
        /\ ~(u = t /\ from(u, i) = 1)
  <2> TAKE u \in Threads
  <2> TAKE i \in 1 .. Len(line'[u])
  <2>1. CASE u # t
    BY <1>5, <2>1
  <2>2. CASE u = t
    BY <1>6, <2>2
  <2> QED
    BY <2>1, <2>2
<1>8. \A u \in Threads : \A i \in 1 .. Len(line[u]) :
        (u = t /\ i = 1) \/ \E h \in 1 .. Len(line'[u]) : from(u, h) = i /\ line'[u][h] = line[u][i]
  <2> TAKE u \in Threads
  <2> TAKE i \in 1 .. Len(line[u])
  <2>1. CASE u # t
    BY <1>5, <2>1
  <2>2. CASE u = t /\ i # 1
    <3>1. i - 1 \in 1 .. Len(line'[t]) /\ line'[t][i - 1] = line[t][i]
      BY <1>6, <2>2
    <3>2. from(t, i - 1) = i
      OBVIOUS
    <3> QED
      BY <2>2, <3>1, <3>2
  <2> QED
    BY <2>1, <2>2
<1>9. \A u \in Threads : \A i \in 1 .. Len(line'[u]), h \in 1 .. Len(line'[u]) :
        /\ from(u, i) = from(u, h) => i = h
        /\ i < h => from(u, i) < from(u, h)
        /\ i = Len(line'[u]) <=> from(u, i) = Len(line[u])
  <2> TAKE u \in Threads
  <2> TAKE i \in 1 .. Len(line'[u]), h \in 1 .. Len(line'[u])
  <2>1. CASE u # t
    BY <1>5, <2>1
  <2>2. CASE u = t
    BY <1>3, <1>6, <2>2
  <2> QED
    BY <2>1, <2>2
<1> HIDE DEF from
<1>10. finished' \subseteq 1 .. Len(phases) /\ fulfilled' \subseteq 1 .. Len(counter)
  <2>1. line[t][1].kind = "job" => line[t][1].id \in 1 .. Len(phases)
    BY <1>1, Kinds DEF IsJob
  <2>2. line[t][1].kind = "barrier" => line[t][1].id \in 1 .. Len(counter)
    BY <1>1, Kinds DEF IsBarrier
  <2> QED
    BY <2>1, <2>2 DEF IInv, Typed
<1>11. Typed'
  <2>1. /\ jobs' \in [Threads -> Seq(Item)]
        /\ \A u \in Threads : Len(jobs'[u]) <= Batch
    <3>1. /\ jobs[t] \in Seq(Item) /\ Len(jobs[t]) <= Batch /\ Batch \in Nat
          /\ Len(jobs[t]) \in Nat
      BY PoolAssumption, LenProperties DEF IInv, Typed
    <3>2. Tail(jobs[t]) \in Seq(Item) /\ Len(Tail(jobs[t])) = Len(jobs[t]) - 1
      BY <1>1, <3>1, HeadTailProperties
    <3>3. Len(Tail(jobs[t])) <= Batch
      BY <3>1, <3>2
    <3> QED
      BY <1>4, <1>5, <3>2, <3>3 DEF IInv, Typed
  <2> QED
    BY <1>2, <1>3, <1>5, <1>10, <2>1 DEF IInv, Typed, Item, Entry
<1>12. Lifecycle'
  <2>1. ASSUME NEW u \in Threads, u # t
        PROVE  LifeOf(u)'
    BY <1>2, <1>5, <2>1, LifeKept DEF IInv, Lifecycle
  <2>2. \/ worker_pc'[t] = "dequeue" /\ jobs'[t] = <<>>
        \/ worker_pc'[t] = "run" /\ jobs'[t] # <<>>
    <3>1. jobs[t] \in Seq(Item) /\ Len(jobs[t]) \in Nat
      BY LenProperties DEF IInv, Typed
    <3>2. Tail(jobs[t]) \in Seq(Item) /\ Len(Tail(jobs[t])) = Len(jobs[t]) - 1
      BY <1>1, <3>1, HeadTailProperties
    <3>3. Tail(jobs[t]) = <<>> <=> Len(jobs[t]) = 1
      <4>1. Len(Tail(jobs[t])) = 0 <=> Len(jobs[t]) = 1
        BY <3>1, <3>2
      <4>2. Tail(jobs[t]) = <<>> <=> Len(Tail(jobs[t])) = 0
        BY <3>2, EmptySeq
      <4> QED
        BY <4>1, <4>2
    <3> QED
      BY <1>5, <3>3
  <2>3. LifeOf(t)'
    BY <1>1, <1>2, <1>3, <2>2 DEF LifeOf
  <2> QED
    BY <1>2, <1>3, <2>1, <2>3 DEF IInv, Lifecycle
<1>13. OneCall'
  <2>1. JobCall => JobCall'
    BY <1>2 DEF JobCall, Job
  <2>2. BarrierCall => BarrierCall'
    BY <1>2 DEF BarrierCall
  <2>3. StopCall => StopCall'
    BY <1>2 DEF StopCall, Poison
  <2> QED
    BY <1>2, <1>3, <2>1, <2>2, <2>3 DEF IInv, OneCall
<1>14. Items'
  <2> SUFFICES ASSUME NEW u \in Threads, NEW i \in 1 .. Len(line'[u])
               PROVE  \/ IsJob(line'[u][i]) \/ IsBarrier(line'[u][i])
                      \/ line'[u][i] = Poison /\ i = Len(line'[u]) /\ Poisoned(u)
    BY <1>2, <1>3 DEF Items, IsJob, IsBarrier, Poison, Poisoned
  <2>1. from(u, i) \in 1 .. Len(line[u]) /\ line'[u][i] = line[u][from(u, i)]
    BY <1>7
  <2>2. \/ IsJob(line[u][from(u, i)]) \/ IsBarrier(line[u][from(u, i)])
        \/ line[u][from(u, i)] = Poison /\ from(u, i) = Len(line[u]) /\ Poisoned(u)
    BY <2>1 DEF IInv, Items
  <2> QED
    BY <1>9, <2>1, <2>2
<1>15. Present'
  <2> SUFFICES ASSUME NEW j \in 1 .. Len(phases), j \notin finished'
               PROVE  \/ \E u \in Threads : \E i \in 1 .. Len(line'[u]) : line'[u][i] = Job(j)
                      \/ \E k \in 1 .. Len(todo) : \E i \in 1 .. Len(todo[k].items) :
                           todo[k].items[i] = Job(j)
    BY <1>2, <1>3 DEF Present, Job
  <2>1. j \notin finished
    OBVIOUS
  <2>2. CASE \E u \in Threads : \E i \in 1 .. Len(line[u]) : line[u][i] = Job(j)
    <3>1. PICK u \in Threads : \E i \in 1 .. Len(line[u]) : line[u][i] = Job(j)
      BY <2>2
    <3>2. PICK i \in 1 .. Len(line[u]) : line[u][i] = Job(j)
      BY <3>1
    <3>3. ~(u = t /\ i = 1)
      <4>1. Job(j).kind = "job" /\ Job(j).id = j
        BY Kinds
      <4> QED
        BY <3>2, <4>1
    <3>4. PICK h \in 1 .. Len(line'[u]) : line'[u][h] = line[u][i]
      BY <1>8, <3>3
    <3> QED
      BY <3>2, <3>4
  <2> QED
    BY <2>1, <2>2 DEF IInv, Present
<1>16. OnceOnLines'
  <2> SUFFICES ASSUME NEW u \in Threads, NEW v \in Threads,
                      NEW i \in 1 .. Len(line'[u]), NEW h \in 1 .. Len(line'[v]),
                      line'[u][i].kind = "job", line'[u][i] = line'[v][h]
               PROVE  u = v /\ i = h
    BY <1>3 DEF OnceOnLines
  <2>1. /\ from(u, i) \in 1 .. Len(line[u]) /\ line'[u][i] = line[u][from(u, i)]
        /\ from(v, h) \in 1 .. Len(line[v]) /\ line'[v][h] = line[v][from(v, h)]
    BY <1>7
  <2>2. OnceOnLines /\ line[u][from(u, i)].kind = "job" /\ line[u][from(u, i)] = line[v][from(v, h)]
    BY <2>1 DEF IInv, Once
  <2>3. u = v /\ from(u, i) = from(v, h)
    BY <2>1, <2>2 DEF OnceOnLines
  <2> QED
    BY <1>9, <2>3
<1>17. OnceInCall'
  BY <1>2 DEF IInv, Once, OnceInCall
<1>18. LineOrCall'
  <2> SUFFICES ASSUME NEW u \in Threads, NEW k \in 1 .. Len(todo),
                      NEW i \in 1 .. Len(line'[u]), NEW h \in 1 .. Len(todo[k].items),
                      line'[u][i].kind = "job"
               PROVE  line'[u][i] # todo[k].items[h]
    BY <1>2, <1>3 DEF LineOrCall
  <2>1. from(u, i) \in 1 .. Len(line[u]) /\ line'[u][i] = line[u][from(u, i)]
    BY <1>7
  <2>2. LineOrCall /\ line[u][from(u, i)].kind = "job"
    BY <2>1 DEF IInv, Once
  <2> QED
    BY <2>1, <2>2 DEF LineOrCall
\* The job that is finished is nowhere else.
<1>19. \A x : IsJob(x) /\ IsJob(line[t][1]) /\ x.id = line[t][1].id => x = line[t][1]
  <2>1. \A x : IsJob(x) => x = Job(x.id)
    BY Kinds DEF IsJob
  <2> QED
    BY <2>1
<1>20. LineNotFinished'
  <2> SUFFICES ASSUME NEW u \in Threads, NEW i \in 1 .. Len(line'[u]), line'[u][i].kind = "job"
               PROVE  line'[u][i].id \notin finished'
    BY <1>3 DEF LineNotFinished
  <2> DEFINE x == line'[u][i]
  <2>1. /\ from(u, i) \in 1 .. Len(line[u]) /\ x = line[u][from(u, i)]
        /\ ~(u = t /\ from(u, i) = 1)
    BY <1>7
  <2>2. OnceOnLines /\ LineNotFinished
    BY DEF IInv, Once
  <2>3. x.id \notin finished
    BY <2>1, <2>2 DEF LineNotFinished
  <2>4. x # line[t][1]
    BY <1>1, <2>1, <2>2 DEF OnceOnLines
  <2>5. IsJob(x)
    <3>1. IsJob(x) \/ IsBarrier(x) \/ x = Poison
      BY <2>1 DEF IInv, Items
    <3>2. IsBarrier(x) => x.kind = "barrier"
      BY Kinds DEF IsBarrier
    <3>3. x = Poison => x.kind = "poison"
      BY Kinds
    <3> QED
      BY <3>1, <3>2, <3>3
  <2> QED
    BY <1>1, <1>19, <2>3, <2>4, <2>5
<1>21. CallNotFinished'
  <2> SUFFICES ASSUME NEW k \in 1 .. Len(todo), NEW h \in 1 .. Len(todo[k].items),
                      todo[k].items[h].kind = "job"
               PROVE  todo[k].items[h].id \notin finished'
    BY <1>2 DEF CallNotFinished
  <2> DEFINE x == todo[k].items[h]
  <2>1. LineOrCall /\ CallNotFinished
    BY DEF IInv, Once
  <2>2. x.id \notin finished
    BY <2>1 DEF CallNotFinished
  <2>3. line[t][1].kind = "job" => x # line[t][1]
    BY <1>1, <2>1 DEF LineOrCall
  <2>4. IsJob(x)
    <3>1. CASE JobCall
      BY <3>1 DEF JobCall, IsJob
    <3>2. CASE BarrierCall
      <4>1. Barrier(Len(counter), thread_count) \in Item
        BY <1>3, Kinds
      <4>2. todo[k].items = <<Barrier(Len(counter), thread_count)>>
        BY <3>2 DEF BarrierCall
      <4>3. x = Barrier(Len(counter), thread_count)
        BY <4>1, <4>2, Single
      <4> QED
        BY <4>3, Kinds
    <3>3. CASE StopCall
      <4>1. todo[k].items = <<Poison>>
        BY <3>3 DEF StopCall
      <4>2. x = Poison
        BY <4>1, Single, Kinds
      <4> QED
        BY <4>2, Kinds
    <3> QED
      BY <3>1, <3>2, <3>3 DEF IInv, OneCall
  <2> QED
    BY <1>1, <1>19, <2>2, <2>3, <2>4
<1>22. Sorted'
  <2>1. ASSUME NEW u \in Threads, NEW i \in 1 .. Len(line'[u]), NEW k \in 1 .. Len(line'[u]),
               i < k, line'[u][k] # Poison
        PROVE  Follows(line'[u][i], line'[u][k])
    <3>1. /\ from(u, i) \in 1 .. Len(line[u]) /\ line'[u][i] = line[u][from(u, i)]
          /\ from(u, k) \in 1 .. Len(line[u]) /\ line'[u][k] = line[u][from(u, k)]
          /\ from(u, i) < from(u, k)
      BY <1>7, <1>9, <2>1
    <3> QED
      BY <2>1, <3>1 DEF IInv, Sorted
  <2>2. ASSUME NEW k \in 1 .. Len(todo), NEW i \in 1 .. Len(line'[todo[k].queue]),
               todo[k].items = <<Barrier(Len(counter), thread_count)>>
        PROVE  Level(line'[todo[k].queue][i]) < Len(counter)
    <3> DEFINE u == todo[k].queue
    <3>1. u \in Threads
      BY <1>3 DEF IInv, OneCall
    <3>2. from(u, i) \in 1 .. Len(line[u]) /\ line'[u][i] = line[u][from(u, i)]
      BY <1>7, <3>1
    <3> QED
      BY <2>2, <3>2 DEF IInv, Sorted
  <2> QED
    BY <1>2, <1>3, <2>1, <2>2 DEF Sorted, Follows, Level, Poison, Barrier
<1>23. \A u \in Threads, c \in 1 .. Len(counter) : At(u, c)' <=> u # t /\ At(u, c)
  BY <1>2, <1>5 DEF At, Barrier
<1>24. \A u \in Threads, c \in 1 .. Len(counter) : Ahead(u, c)' <=> Ahead(u, c)
  <2> TAKE u \in Threads, c \in 1 .. Len(counter)
  <2>1. CASE u # t
    BY <1>2, <1>5, <2>1 DEF Ahead, Barrier
  <2>2. CASE u = t
    <3> DEFINE B == Barrier(c, thread_count)
    <3>0. B.kind = "barrier"
      BY Kinds
    <3>1. Ahead(t, c)' <=>
            \/ \E i \in 1 .. Len(line'[t]) :
                 line'[t][i] = B /\ ~(i = 1 /\ worker_pc'[t] \in {"wait", "fulfil"})
            \/ \E k \in 1 .. Len(todo) : todo[k].queue = t /\ todo[k].items = <<B>>
      BY <1>2 DEF Ahead, Barrier
    <3>2. Ahead(t, c) <=>
            \/ \E i \in 1 .. Len(line[t]) :
                 line[t][i] = B /\ ~(i = 1 /\ worker_pc[t] \in {"wait", "fulfil"})
            \/ \E k \in 1 .. Len(todo) : todo[k].queue = t /\ todo[k].items = <<B>>
      BY DEF Ahead
    <3>3. worker_pc'[t] \notin {"wait", "fulfil"}
      BY <1>5
    <3> HIDE DEF B
    <3>4. ASSUME NEW i \in 1 .. Len(line[t]), line[t][i] = B,
                 ~(i = 1 /\ worker_pc[t] \in {"wait", "fulfil"})
          PROVE  \E h \in 1 .. Len(line'[t]) : line'[t][h] = B
      <4>1. i # 1
        BY <3>0, <3>4
      <4> QED
        BY <1>6, <3>4, <4>1
    <3>5. ASSUME NEW i \in 1 .. Len(line'[t]), line'[t][i] = B
          PROVE  \E h \in 1 .. Len(line[t]) : line[t][h] = B /\ h # 1
      <4>1. i + 1 \in 1 .. Len(line[t]) /\ line[t][i + 1] = B /\ i + 1 # 1
        BY <1>6, <3>5
      <4> QED
        BY <4>1
    <3> QED
      BY <2>2, <3>1, <3>2, <3>3, <3>4, <3>5
  <2> QED
    BY <2>1, <2>2
<1>25. \A c \in 1 .. Len(counter) : Late(c)' = Late(c)
  BY <1>3, <1>24 DEF Late
<1>26. Barriers'
  <2>1. ASSUME NEW c \in 1 .. Len(counter), NEW u \in Pool
        PROVE  c \in fulfilled' \/ At(u, c)' \/ Ahead(u, c)'
    <3>1. c \in fulfilled \/ At(u, c) \/ Ahead(u, c)
      BY DEF IInv, Barriers
    <3>2. CASE u = t /\ At(t, c)
      <4>1. line[t][1] = Barrier(c, thread_count) /\ worker_pc[t] \in {"wait", "fulfil"}
        BY <3>2 DEF At
      <4>2. line[t][1].id = c /\ line[t][1].kind = "barrier"
        BY <4>1, Kinds
      <4> QED
        BY <4>1, <4>2
    <3>3. CASE u # t /\ At(u, c)
      BY <1>3, <1>23, <3>3
    <3>4. fulfilled \subseteq fulfilled'
      OBVIOUS
    <3> QED
      BY <1>3, <1>24, <3>1, <3>2, <3>3, <3>4
  <2>2. ASSUME NEW u \in Threads, NEW i \in 1 .. Len(line'[u]), NEW c \in 1 .. Len(counter),
               line'[u][i].kind = "job", Level(line'[u][i]) < c
        PROVE  Ahead(u, c)'
    <3>1. from(u, i) \in 1 .. Len(line[u]) /\ line'[u][i] = line[u][from(u, i)]
      BY <1>7
    <3>2. Ahead(u, c)
      BY <2>2, <3>1 DEF IInv, Barriers
    <3> QED
      BY <1>24, <3>2
  <2>3. \A c \in fulfilled' : Late(c)' = {}
    <3>1. \A c \in fulfilled : Late(c) = {}
      BY DEF IInv, Barriers
    <3>2. worker_pc[t] = "fulfil" /\ line[t][1].kind = "barrier" => Late(line[t][1].id) = {}
      <4> HAVE worker_pc[t] = "fulfil" /\ line[t][1].kind = "barrier"
      <4>1. PICK b \in 1 .. Len(counter) : line[t][1] = Barrier(b, thread_count)
        BY <1>1 DEF IsBarrier
      <4>2. At(t, b) /\ line[t][1].id = b
        BY <1>1, <4>1, Kinds DEF At
      <4> QED
        BY <1>1, <4>2 DEF IInv, Barriers
    <3> QED
      BY <1>10, <1>25, <3>1, <3>2
  <2>4. ASSUME NEW u \in Pool, NEW c \in 1 .. Len(counter), At(u, c)', worker_pc'[u] = "fulfil"
        PROVE  Late(c)' = {}
    <3>1. u # t /\ At(u, c) /\ worker_pc[u] = "fulfil"
      BY <1>3, <1>5, <1>23, <2>4
    <3> QED
      BY <1>25, <3>1 DEF IInv, Barriers
  <2>5. \A c \in 1 .. Len(counter) :
          Late(c)' # {} => counter[c] + Cardinality(Late(c)') = thread_count
    BY <1>25 DEF IInv, Barriers
  <2> QED
    BY <1>2, <1>3, <2>1, <2>2, <2>3, <2>4, <2>5 DEF Barriers, Level
<1>27. Stopped'
  BY <1>1, <1>2 DEF Stopped
<1> QED
  BY <1>11, <1>12, <1>13, <1>14, <1>15, <1>16, <1>17, <1>18, <1>20, <1>21, <1>22, <1>26, <1>27
     DEF IInv, Once

-----------------------------------------------------------------------------
(***************************************************************************)
(* The invariant.                                                          *)
(***************************************************************************)
LEMMA WorkStep ==
  ASSUME IInv, NEW t \in Threads, Work(t)
  PROVE  IInv'
<1>1. ASSUME FinishJob(t)
      PROVE  /\ worker_pc[t] = "busy" /\ NextJob(t) /\ line[t][1].kind = "job"
             /\ finished' = finished \cup {line[t][1].id} /\ fulfilled' = fulfilled
             /\ UNCHANGED <<owned, job_queues, counter>>
  BY <1>1, FirstItem DEF FinishJob
<1>2. ASSUME Fulfil(t)
      PROVE  /\ worker_pc[t] = "fulfil" /\ NextJob(t) /\ line[t][1].kind = "barrier"
             /\ fulfilled' = fulfilled \cup {line[t][1].id} /\ finished' = finished
             /\ UNCHANGED <<owned, job_queues, counter>>
  BY <1>2, FirstItem DEF Fulfil
<1>3. ASSUME WaitAtBarrier(t)
      PROVE  /\ worker_pc[t] = "wait" /\ NextJob(t) /\ line[t][1].kind = "barrier"
             /\ line[t][1].id \in fulfilled /\ fulfilled' = fulfilled /\ finished' = finished
             /\ UNCHANGED <<owned, job_queues, counter>>
  BY <1>3, FirstItem DEF WaitAtBarrier
<1>4. CASE FinishJob(t)
  BY <1>1, <1>4, DropStep
<1>5. CASE Fulfil(t)
  BY <1>2, <1>5, DropStep
<1>6. CASE WaitAtBarrier(t)
  BY <1>3, <1>6, DropStep
<1> QED
  BY <1>4, <1>5, <1>6, DequeueStep, QuietStep, ArriveStep DEF Work

LEMMA Inductive == IInv /\ [Next]_vars => IInv'
<1> SUFFICES ASSUME IInv, [Next]_vars PROVE IInv'
  OBVIOUS
<1>1. CASE Start
  BY <1>1, StartStep
<1>2. CASE Submit
  <2>1. CASE SubmitBarrier
    BY <2>1, BarrierStep
  <2>2. CASE \/ \E n \in Ranges : SubmitJobRange(n) \/ SubmitJobRangeUnordered(n)
             \/ SubmitJobToAllThreads
    <3>1. PICK m \in Nat \ {0} : Submits(m)
      BY <2>2, SubmitsJobs DEF IInv
    <3> QED
      BY <3>1, SubmitStep
  <2> QED
    BY <1>2, <2>1, <2>2 DEF Submit
<1>3. CASE Stop
  BY <1>3, StopStep
<1>4. CASE OwnerStep
  BY <1>4, EnqueueStep, JoinStep DEF OwnerStep
<1>5. CASE \E t \in Threads : Work(t) \/ Wake(t)
  BY <1>5, WorkStep, QuietStep
<1>6. CASE UNCHANGED vars
  <2>1. /\ UNCHANGED <<thread_count, job_queue_pointer, owner_pc, todo, starts, phases>>
        /\ UNCHANGED <<job_queues, worker_pc, jobs, counter, fulfilled, finished>>
    BY <1>6 DEF vars, owned
  <2>2. line' = line
    BY <2>1, LineKept
  <2>3. Typed'
    BY <2>1 DEF IInv, Typed, Pool, Threads, Item, Entry
  <2>4. Lifecycle'
    BY <2>1, <2>2, LifeKept DEF IInv, Lifecycle, Threads
  <2>5. OneCall' /\ Items' /\ Present' /\ Once' /\ Sorted'
    <3>1. /\ UNCHANGED <<line, todo, phases, finished, thread_count, owner_pc>>
          /\ Len(counter') = Len(counter)
      BY <2>1, <2>2
    <3> QED
      BY <3>1, NothingMoves DEF IInv
  <2>6. Barriers'
    BY <2>1, <2>2, Counts, BarriersKept DEF IInv
  <2>7. Stopped'
    BY <2>1 DEF IInv, Stopped
  <2> QED
    BY <2>3, <2>4, <2>5, <2>6, <2>7 DEF IInv
<1> QED
  BY <1>1, <1>2, <1>3, <1>4, <1>5, <1>6 DEF Next

\* The pool's inductive invariant: every job is on one line, in the call that
\* is being carried out, or done, and the barriers divide the lines into phases.
THEOREM Invariant == Spec => []IInv
<1>1. Init => IInv
  BY Initially
<1> QED
  BY <1>1, Inductive, PTL DEF Spec

\* When stop has returned, every job submitted has run, whichever way it was
\* submitted and however many barriers and jobs were on the way.
THEOREM NothingIsLeftBehind == Spec => []NothingLeftBehind
<1>1. IInv => NothingLeftBehind
  <2> SUFFICES ASSUME IInv PROVE NothingLeftBehind
    OBVIOUS
  <2>1. DOMAIN phases = 1 .. Len(phases) /\ DOMAIN counter = 1 .. Len(counter)
    BY LenProperties DEF IInv, Typed
  <2>2. TypeOK
    BY <2>1 DEF IInv, Typed, Lifecycle, LifeOf, TypeOK
  <2> QED
    BY <2>1, <2>2 DEF IInv, Stopped, NothingLeftBehind
<1> QED
  BY <1>1, Invariant, PTL

-----------------------------------------------------------------------------
(***************************************************************************)
(* The refinement.                                                         *)
(***************************************************************************)
Running == {Head(jobs[t]).id : t \in {u \in Threads : worker_pc[u] = "busy"}}

LEMMA RunningKept ==
  ASSUME \A u \in Threads : worker_pc'[u] = "busy" <=> worker_pc[u] = "busy",
         \A u \in Threads : worker_pc[u] = "busy" => jobs'[u] = jobs[u]
  PROVE  Running' = Running
  BY DEF Running, Threads

\* A job that runs, or is about to, is not finished, and no other thread has it.
LEMMA OneRuns ==
  ASSUME IInv, NEW t \in Threads, worker_pc[t] \in {"run", "busy"}, Head(jobs[t]).kind = "job"
  PROVE  /\ Head(jobs[t]).id \in 1 .. Len(phases) /\ Head(jobs[t]).id \notin finished
         /\ \A u \in Threads : worker_pc[u] = "busy" /\ Head(jobs[u]).id = Head(jobs[t]).id => u = t
<1>1. /\ Head(jobs[t]) = line[t][1] /\ 1 \in 1 .. Len(line[t]) /\ IsJob(line[t][1])
  BY FirstItem
<1>2. Head(jobs[t]).id \in 1 .. Len(phases)
  BY <1>1, Kinds DEF IsJob
<1>3. Head(jobs[t]).id \notin finished
  BY <1>1 DEF IInv, Once, LineNotFinished
<1>4. ASSUME NEW u \in Threads, worker_pc[u] = "busy", Head(jobs[u]).id = Head(jobs[t]).id
      PROVE  u = t
  <2>1. /\ Head(jobs[u]) = line[u][1] /\ 1 \in 1 .. Len(line[u]) /\ IsJob(line[u][1])
    BY <1>4, FirstItem
  <2>2. line[u][1] = line[t][1]
    <3>1. \A x : IsJob(x) => x = Job(x.id)
      BY Kinds DEF IsJob
    <3> QED
      BY <1>1, <1>4, <2>1, <3>1
  <2>3. OnceOnLines
    BY DEF IInv, Once
  <2> QED
    BY <1>1, <2>1, <2>2, <2>3 DEF OnceOnLines
<1> QED
  BY <1>2, <1>3, <1>4

\* A thread that has a job of a phase in hand is past the barrier before it.
LEMMA BarrierPassed ==
  ASSUME IInv, NEW t \in Threads, worker_pc[t] = "run", Head(jobs[t]).kind = "job",
         NEW b \in 1 .. Len(counter), phases[Head(jobs[t]).id] = b
  PROVE  b \in fulfilled
<1>1. /\ Head(jobs[t]) = line[t][1] /\ 1 \in 1 .. Len(line[t]) /\ t \in Pool
      /\ line[t][1].kind = "job"
  BY FirstItem
<1>2. /\ b \in Nat /\ thread_count \in Nat /\ Len(counter) \in Nat /\ Level(line[t][1]) = b
      /\ Barrier(b, thread_count) \in Item
  BY <1>1, Counts, Kinds DEF IInv, Level
<1>3. /\ Barrier(b, thread_count).kind = "barrier" /\ Barrier(b, thread_count).id = b
      /\ Level(Barrier(b, thread_count)) = b /\ Poison.kind = "poison"
  BY Kinds DEF Level
<1>4. ASSUME NEW i \in 1 .. Len(line[t])
      PROVE  line[t][i] # Barrier(b, thread_count)
  <2> SUFFICES ASSUME line[t][i] = Barrier(b, thread_count) PROVE FALSE
    OBVIOUS
  <2>1. 1 < i /\ line[t][i] # Poison
    BY <1>1, <1>3
  <2>2. Follows(line[t][1], line[t][i])
    BY <1>1, <2>1 DEF IInv, Sorted
  <2> QED
    BY <1>2, <1>3, <2>2 DEF Follows
<1>5. ASSUME NEW k \in 1 .. Len(todo), todo[k].queue = t
      PROVE  todo[k].items # <<Barrier(b, thread_count)>>
  <2> SUFFICES ASSUME todo[k].items = <<Barrier(b, thread_count)>> PROVE FALSE
    OBVIOUS
  <2>1. b = Len(counter)
    BY <1>2, TheCallsBarrier
  <2> QED
    BY <1>1, <1>2, <1>5, <2>1 DEF IInv, Sorted
<1>6. ~Ahead(t, b) /\ ~At(t, b)
  BY <1>4, <1>5 DEF Ahead, At
<1> QED
  BY <1>1, <1>6 DEF IInv, Barriers

LEMMA SubmitRefined ==
  ASSUME IInv, NEW m \in Nat \ {0}, Submits(m)
  PROVE  Phases!Submit
<1>1. /\ phases' \in Seq(Nat) /\ Len(phases') = Len(phases) + m
      /\ \A j \in 1 .. Len(phases) : phases'[j] = phases[j]
      /\ \A x \in 1 .. m : phases'[Len(phases) + x] = Len(counter)
  BY NewPhases DEF IInv
<1>2. phases \in Seq(Nat) /\ Len(phases) \in Nat
  BY Counts DEF IInv, Typed
<1>3. /\ UNCHANGED <<Len(counter), finished>>
      /\ Running' = Running
  BY RunningKept DEF Submits
<1>4. SubSeq(phases, 1, Len(phases)) = SubSeq(phases', 1, Len(phases))
  <2> DEFINE p == SubSeq(phases, 1, Len(phases))
             r == SubSeq(phases', 1, Len(phases))
  <2>1. p \in Seq(Nat) /\ Len(p) = Len(phases) /\ \A i \in 1 .. Len(phases) : p[i] = phases[i]
    BY <1>2, SubSeqFull
  <2>2. Len(phases) \in 0 .. Len(phases')
    BY <1>1, <1>2
  <2>3. r \in Seq(Nat) /\ Len(r) = Len(phases)
    <3>1. r \in Seq(Nat) /\ Len(r) = Len(phases)
      BY <1>1, <2>2, FirstPart
    <3> QED
      BY <3>1
  <2>4. \A i \in 1 .. Len(phases) : r[i] = phases'[i]
    OBVIOUS
  <2> HIDE DEF p, r
  <2>5. \A i \in 1 .. Len(phases) : p[i] = r[i]
    BY <1>1, <2>1, <2>4
  <2>6. p = r
    BY <2>1, <2>3, <2>5, SeqEqual
  <2> QED
    BY <2>6 DEF p, r
<1>5. Phases!IsStrictPrefix(phases, phases')
  <2>1. Len(phases) <= Len(phases') /\ phases # phases'
    BY <1>1, <1>2
  <2> QED
    BY <1>4, <2>1 DEF Phases!IsStrictPrefix, Phases!IsPrefix
<1>6. \A i \in Len(phases) + 1 .. Len(phases') : phases'[i] = Len(counter)
  <2> TAKE i \in Len(phases) + 1 .. Len(phases')
  <2> DEFINE x == i - Len(phases)
  <2>1. x \in 1 .. m /\ i = Len(phases) + x
    BY <1>1, <1>2
  <2> HIDE DEF x
  <2> QED
    BY <1>1, <2>1
<1> QED
  BY <1>3, <1>5, <1>6 DEF Phases!Submit, Running

LEMMA BeginRefined ==
  ASSUME IInv, NEW t \in Threads, BeginJob(t)
  PROVE  \E j \in 1 .. Len(phases) : Phases!Begin(j)
<1>1. /\ worker_pc[t] = "run" /\ Head(jobs[t]).kind = "job"
      /\ worker_pc' = [worker_pc EXCEPT ![t] = "busy"]
      /\ UNCHANGED <<jobs, phases, finished>> /\ Len(counter)' = Len(counter)
  BY DEF BeginJob, Begins, owned
<1>2. PICK j \in 1 .. Len(phases) :
        /\ j = Head(jobs[t]).id /\ j \notin finished
        /\ \A u \in Threads : worker_pc[u] = "busy" /\ Head(jobs[u]).id = j => u = t
  BY <1>1, OneRuns
<1>3. j \notin Running
  BY <1>1, <1>2 DEF Running
<1>4. ASSUME NEW i \in 1 .. Len(phases), phases[i] < phases[j]
      PROVE  i \in finished
  <2> DEFINE b == phases[j]
  <2>1. b \in 1 .. Len(counter) /\ b \in Nat /\ phases[i] \in Nat /\ Len(counter) \in Nat
    <3>1. phases[i] \in Nat /\ b \in Nat /\ Len(counter) \in Nat /\ b <= Len(counter)
      BY Counts DEF IInv, Typed
    <3>2. phases[i] < b
      BY <1>4
    <3> HIDE DEF b
    <3> QED
      BY <3>1, <3>2
  <2>2. b \in fulfilled
    BY <1>1, <1>2, <2>1, BarrierPassed
  <2>3. ASSUME NEW u \in Threads, NEW h \in 1 .. Len(line[u]), line[u][h] = Job(i)
        PROVE  FALSE
    <3>1. line[u][h].kind = "job" /\ Level(line[u][h]) < b
      BY <1>4, <2>3, Kinds DEF Level
    <3>2. Ahead(u, b)
      BY <2>1, <3>1 DEF IInv, Barriers
    <3>3. u \in Pool
      <4>1. owner_pc # "stopped"
        BY <1>1, FirstItem
      <4>2. line[u] # <<>>
        BY <2>3
      <4> QED
        BY <4>1, <4>2 DEF IInv, Lifecycle, LifeOf
    <3>4. u \in Late(b)
      BY <3>2, <3>3 DEF Late
    <3>5. Late(b) = {}
      BY <2>2 DEF IInv, Barriers
    <3> QED
      BY <3>4, <3>5
  <2>4. ASSUME NEW k \in 1 .. Len(todo), NEW h \in 1 .. Len(todo[k].items),
               todo[k].items[h] = Job(i)
        PROVE  FALSE
    <3>1. Job(i).kind = "job" /\ Job(i).id = i
      BY Kinds
    <3>2. CASE JobCall
      <4>1. PICK g \in 1 .. Len(phases) : todo[k].items[h] = Job(g) /\ phases[g] = Len(counter)
        BY <3>2 DEF JobCall
      <4>2. Job(g).id = g
        BY Kinds
      <4>3. phases[i] = Len(counter)
        BY <2>4, <3>1, <4>1, <4>2
      <4> QED
        BY <1>4, <2>1, <4>3
    <3>3. CASE BarrierCall
      <4>1. Barrier(Len(counter), thread_count) \in Item
        BY Counts, Kinds DEF IInv
      <4>2. todo[k].items = <<Barrier(Len(counter), thread_count)>>
        BY <3>3 DEF BarrierCall
      <4>3. Job(i) = Barrier(Len(counter), thread_count)
        BY <2>4, <4>1, <4>2, Single
      <4>4. Barrier(Len(counter), thread_count).kind = "barrier"
        BY Kinds
      <4> QED
        BY <3>1, <4>3, <4>4
    <3>4. CASE StopCall
      <4>1. todo[k].items = <<Poison>>
        BY <3>4 DEF StopCall
      <4>2. Job(i) = Poison
        BY <2>4, <4>1, Single, Kinds
      <4>3. Poison.kind = "poison"
        BY Kinds
      <4> QED
        BY <3>1, <4>2, <4>3
    <3> QED
      BY <3>2, <3>3, <3>4 DEF IInv, OneCall
  <2> QED
    BY <2>3, <2>4 DEF IInv, Present
<1>5. Running' = Running \cup {j}
  <2>1. \A u \in Threads : worker_pc'[u] = "busy" <=> u = t \/ worker_pc[u] = "busy"
    BY <1>1 DEF IInv, Typed
  <2>2. Running' = {Head(jobs[u]).id : u \in {v \in Threads : worker_pc'[v] = "busy"}}
    BY <1>1 DEF Running, Threads
  <2> QED
    BY <1>2, <2>1, <2>2 DEF Running
<1>6. Phases!Begin(j)
  BY <1>1, <1>2, <1>3, <1>4, <1>5 DEF Phases!Begin, Running
<1> QED
  BY <1>2, <1>6

LEMMA FinishRefined ==
  ASSUME IInv, NEW t \in Threads, FinishJob(t)
  PROVE  \E j \in 1 .. Len(phases) : Phases!Finish(j)
<1>1. /\ worker_pc[t] = "busy" /\ finished' = finished \cup {Head(jobs[t]).id}
      /\ \A u \in Threads : u # t => worker_pc'[u] = worker_pc[u] /\ jobs'[u] = jobs[u]
      /\ worker_pc'[t] # "busy"
      /\ UNCHANGED phases /\ Len(counter)' = Len(counter)
  BY DEF FinishJob, NextJob, owned, IInv, Typed
<1>2. Head(jobs[t]).kind = "job"
  BY <1>1, FirstItem
<1>3. PICK j \in 1 .. Len(phases) :
        /\ j = Head(jobs[t]).id
        /\ \A u \in Threads : worker_pc[u] = "busy" /\ Head(jobs[u]).id = j => u = t
  BY <1>1, <1>2, OneRuns
<1>4. j \in Running
  BY <1>1, <1>3 DEF Running
<1>5. Running' = Running \ {j}
  <2>1. Running' = {Head(jobs'[u]).id : u \in {v \in Threads : worker_pc'[v] = "busy"}}
    BY DEF Running, Threads
  <2>2. \A u \in Threads : worker_pc'[u] = "busy" <=> u # t /\ worker_pc[u] = "busy"
    BY <1>1
  <2>3. ASSUME NEW x PROVE x \in Running' <=> x \in Running \ {j}
    <3>1. x \in Running' => \E u \in Threads : u # t /\ worker_pc[u] = "busy" /\ x = Head(jobs[u]).id
      BY <1>1, <2>1, <2>2
    <3>2. x \in Running' => x \in Running \ {j}
      BY <1>3, <3>1 DEF Running
    <3>3. x \in Running \ {j} => \E u \in Threads : u # t /\ worker_pc[u] = "busy" /\ x = Head(jobs[u]).id
      BY <1>3 DEF Running
    <3>4. x \in Running \ {j} => x \in Running'
      BY <1>1, <2>1, <2>2, <3>3
    <3> QED
      BY <3>2, <3>4
  <2> QED
    BY <2>3
<1>6. Phases!Finish(j)
  BY <1>1, <1>3, <1>4, <1>5 DEF Phases!Finish, Running
<1> QED
  BY <1>3, <1>6

LEMMA WorkRefined ==
  ASSUME IInv, NEW t \in Threads, Work(t) \/ Wake(t)
  PROVE  [Phases!Next]_Phases!vars
<1>1. CASE BeginJob(t)
  BY <1>1, BeginRefined DEF Phases!Next
<1>2. CASE FinishJob(t)
  BY <1>2, FinishRefined DEF Phases!Next
<1>3. ASSUME UNCHANGED <<phases, finished>>, Len(counter') = Len(counter),
             \A u \in Threads : u # t => worker_pc'[u] = worker_pc[u] /\ jobs'[u] = jobs[u],
             worker_pc[t] # "busy", worker_pc'[t] # "busy"
      PROVE  [Phases!Next]_Phases!vars
  <2>1. Running' = Running
    BY <1>3, RunningKept
  <2> QED
    BY <1>3, <2>1 DEF Phases!vars, Running
<1>4. CASE DequeueRange(t) \/ Wake(t) \/ Die(t)
  <2>1. /\ UNCHANGED <<phases, finished>> /\ Len(counter') = Len(counter)
        /\ \A u \in Threads : u # t => worker_pc'[u] = worker_pc[u] /\ jobs'[u] = jobs[u]
        /\ worker_pc[t] # "busy" /\ worker_pc'[t] # "busy"
    BY <1>4 DEF DequeueRange, Wake, Die, Begins, owned, IInv, Typed
  <2> QED
    BY <1>3, <2>1
<1>5. CASE Fulfil(t) \/ WaitAtBarrier(t)
  <2>1. /\ UNCHANGED <<phases, finished>> /\ Len(counter') = Len(counter)
        /\ \A u \in Threads : u # t => worker_pc'[u] = worker_pc[u] /\ jobs'[u] = jobs[u]
        /\ worker_pc[t] # "busy" /\ worker_pc'[t] # "busy"
    BY <1>5 DEF Fulfil, WaitAtBarrier, NextJob, owned, IInv, Typed
  <2> QED
    BY <1>3, <2>1
<1>6. CASE ArriveAtBarrier(t)
  <2>1. /\ UNCHANGED <<phases, finished>> /\ Len(counter') = Len(counter)
        /\ \A u \in Threads : u # t => worker_pc'[u] = worker_pc[u] /\ jobs'[u] = jobs[u]
        /\ worker_pc[t] # "busy" /\ worker_pc'[t] # "busy"
    BY <1>6 DEF ArriveAtBarrier, Begins, owned, IInv, Typed
  <2> QED
    BY <1>3, <2>1
<1> QED
  BY <1>1, <1>2, <1>4, <1>5, <1>6 DEF Work

LEMMA OwnerRefined ==
  ASSUME IInv, Start \/ Submit \/ Stop \/ OwnerStep
  PROVE  [Phases!Next]_Phases!vars
<1>1. CASE Start
  <2>1. /\ owner_pc = "stopped"
        /\ worker_pc' = [t \in Threads |-> IF t \in Pool THEN "dequeue" ELSE "none"]
        /\ UNCHANGED <<phases, jobs, counter, finished>>
    BY <1>1 DEF Start
  <2>2. \A u \in Threads : worker_pc[u] # "busy" /\ worker_pc'[u] # "busy"
    BY <2>1 DEF IInv, Lifecycle, LifeOf
  <2>3. Running' = Running
    BY <2>2, RunningKept
  <2> QED
    BY <2>1, <2>3 DEF Phases!vars, Running
<1>2. CASE SubmitBarrier
  <2>1. /\ Len(counter') = Len(counter) + 1
        /\ UNCHANGED <<phases, jobs, worker_pc, finished>>
    BY <1>2, NewBarrier DEF IInv
  <2>2. Running' = Running
    BY <2>1, RunningKept
  <2> QED
    BY <2>1, <2>2 DEF Phases!Next, Phases!Barrier, Running
<1>3. CASE \/ \E n \in Ranges : SubmitJobRange(n) \/ SubmitJobRangeUnordered(n)
           \/ SubmitJobToAllThreads
  <2>1. PICK m \in Nat \ {0} : Submits(m)
    BY <1>3, SubmitsJobs DEF IInv
  <2> QED
    BY <2>1, SubmitRefined DEF Phases!Next
<1>4. CASE Stop
  <2>1. UNCHANGED <<phases, counter, jobs, worker_pc, finished>>
    BY <1>4, NewPoison DEF IInv
  <2>2. Running' = Running
    BY <2>1, RunningKept
  <2> QED
    BY <2>1, <2>2 DEF Phases!vars, Running
<1>5. CASE DoEnqueue
  <2>1. /\ UNCHANGED <<phases, counter, jobs, finished>>
        /\ \A u \in Threads : \/ worker_pc'[u] = worker_pc[u]
                              \/ worker_pc[u] = "asleep" /\ worker_pc'[u] = "dequeue"
    BY <1>5, EnqueuesFirst DEF IInv
  <2>2. Running' = Running
    BY <2>1, RunningKept
  <2> QED
    BY <2>1, <2>2 DEF Phases!vars, Running
<1>6. CASE Join
  <2>1. UNCHANGED <<phases, counter, worker_pc, finished>>
    BY <1>6 DEF Join
  <2>2. \A u \in Threads : worker_pc[u] # "busy"
    BY <1>6, Joined
  <2>3. Running' = Running
    BY <2>1, <2>2, RunningKept
  <2> QED
    BY <2>1, <2>3 DEF Phases!vars, Running
<1> QED
  BY <1>1, <1>2, <1>3, <1>4, <1>5, <1>6 DEF Submit, OwnerStep

\* The pool is a JobPhases: each job runs once, and none begins before every
\* job submitted before the last barrier in front of it has finished.
THEOREM PhasesImplemented == Spec => ImplementsPhases
<1>1. Init => Phases!Init
  <2> SUFFICES ASSUME Init PROVE Phases!Init
    OBVIOUS
  <2>1. phases = <<>> /\ Len(counter) = 0 /\ finished = {}
    BY DEF Init
  <2>2. Running = {}
    BY DEF Init, Running
  <2> QED
    BY <2>1, <2>2 DEF Phases!Init, Running
<1>2. IInv /\ [Next]_vars => [Phases!Next]_Phases!vars
  <2> SUFFICES ASSUME IInv, [Next]_vars PROVE [Phases!Next]_Phases!vars
    OBVIOUS
  <2>1. CASE Start \/ Submit \/ Stop \/ OwnerStep
    BY <2>1, OwnerRefined
  <2>2. CASE \E t \in Threads : Work(t) \/ Wake(t)
    BY <2>2, WorkRefined
  <2>3. CASE UNCHANGED vars
    <3>1. UNCHANGED <<phases, counter, jobs, worker_pc, finished>>
      BY <2>3 DEF vars, owned
    <3>2. Running' = Running
      BY <3>1, RunningKept
    <3> QED
      BY <3>1, <3>2 DEF Phases!vars, Running
  <2> QED
    BY <2>1, <2>2, <2>3 DEF Next
<1> QED
  BY <1>1, <1>2, Invariant, PTL DEF Spec, ImplementsPhases, Phases!Spec

=============================================================================
