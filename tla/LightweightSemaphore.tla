------------------------ MODULE LightweightSemaphore ------------------------
(***************************************************************************)
(* LightweightSemaphore (include/audio_io/private/semaphore.hpp:206-260),  *)
(* on the POSIX Semaphore of the same file (143-186): an atomic count that *)
(* threads spin on for a while, and a kernel semaphore they sleep on when  *)
(* the spinning has not helped.  One action is one atomic operation.       *)
(*                                                                         *)
(* The usual names begin with LS here: OutputWorkerThread, which waits on  *)
(* such a semaphore, and this module are proved about in one module.       *)
(***************************************************************************)
EXTENDS Integers, FiniteSets

CONSTANTS
  Threads,
  SpinLimit,   \* iterations of the spin loop, 10000 in the code
  MaxSignal,   \* bound: the largest count passed to signal
  MaxPermits   \* bound: no signal that would leave more permits than this

ASSUME SemaphoreAssumption ==
  /\ IsFiniteSet(Threads)
  /\ SpinLimit \in Nat /\ MaxSignal \in Nat /\ MaxPermits \in Nat

VARIABLES
  m_count,   \* the atomic count; minus the sleepers not yet released, if negative
  m_sema,    \* value of the kernel semaphore
  pc,        \* where each thread is
  oldCount,  \* what each thread's last load returned
  spin,      \* attempts each thread has left before it gives up spinning
  toRelease  \* kernel posts each signalling thread has left to do

LSvars == <<m_count, m_sema, pc, oldCount, spin, toRelease>>

LSInit ==
  /\ m_count = 0 /\ m_sema = 0
  /\ pc = [t \in Threads |-> "idle"]
  /\ oldCount = [t \in Threads |-> 0]
  /\ spin = [t \in Threads |-> 0]
  /\ toRelease = [t \in Threads |-> 0]

Goto(t, where) == pc' = [pc EXCEPT ![t] = where]

-----------------------------------------------------------------------------
\* wait: one attempt in tryWait, SpinLimit in the loop.
Wait(t) ==
  /\ pc[t] = "idle"
  /\ Goto(t, "load")
  /\ spin' = [spin EXCEPT ![t] = SpinLimit + 1]
  /\ UNCHANGED <<m_count, m_sema, oldCount, toRelease>>

\* The next attempt, or the end of the spinning.
Retry(t) ==
  /\ spin' = [spin EXCEPT ![t] = @ - 1]
  /\ Goto(t, IF spin[t] = 1 THEN "fetch_sub" ELSE "load")

Load(t) ==
  /\ pc[t] = "load"
  /\ oldCount' = [oldCount EXCEPT ![t] = m_count]
  /\ IF m_count > 0 THEN Goto(t, "cas") /\ UNCHANGED spin ELSE Retry(t)
  /\ UNCHANGED <<m_count, m_sema, toRelease>>

\* Mutant: the exchange is made without comparing.
CompareExchange_NoCompare(t) ==
  /\ pc[t] = "cas"
  /\ m_count' = oldCount[t] - 1
  /\ Goto(t, "idle")
  /\ UNCHANGED <<spin, m_sema, oldCount, toRelease>>

CompareExchange(t) ==
  /\ pc[t] = "cas"
  /\ IF m_count = oldCount[t]
       THEN m_count' = m_count - 1 /\ Goto(t, "idle") /\ UNCHANGED spin
       ELSE Retry(t) /\ UNCHANGED m_count
  /\ UNCHANGED <<m_sema, oldCount, toRelease>>

\* Mutant: the thread that brings the count below zero does not sleep.
FetchSub_OneOff(t) ==
  /\ pc[t] = "fetch_sub"
  /\ m_count' = m_count - 1
  /\ Goto(t, IF m_count < 0 THEN "sleep" ELSE "idle")
  /\ UNCHANGED <<m_sema, oldCount, spin, toRelease>>

\* Out of patience: take a permit, or a place in the kernel's queue.
FetchSub(t) ==
  /\ pc[t] = "fetch_sub"
  /\ m_count' = m_count - 1
  /\ Goto(t, IF m_count <= 0 THEN "sleep" ELSE "idle")
  /\ UNCHANGED <<m_sema, oldCount, spin, toRelease>>

\* sem_wait returns; an interrupted one (EINTR) is repeated.
Wake(t) ==
  /\ pc[t] = "sleep"
  /\ m_sema > 0
  /\ m_sema' = m_sema - 1
  /\ Goto(t, "idle")
  /\ UNCHANGED <<m_count, oldCount, spin, toRelease>>

\* Mutant: every signal goes to the kernel as well.
ReleaseCount_All(old, count) == count

\* Mutant: the last sleeper is forgotten.
ReleaseCount_OneShort(old, count) == IF -old <= count THEN -old - 1 ELSE count

ReleaseCount(old, count) == IF -old < count THEN -old ELSE count

Signal(t, count) ==
  LET release == ReleaseCount(m_count, count)
  IN  /\ pc[t] = "idle"
      /\ m_count + count <= MaxPermits
      /\ m_count' = m_count + count
      /\ IF release > 0
           THEN toRelease' = [toRelease EXCEPT ![t] = release] /\ Goto(t, "post")
           ELSE UNCHANGED <<toRelease, pc>>
      /\ UNCHANGED <<m_sema, oldCount, spin>>

\* Semaphore::signal(count) posts one at a time.
Post(t) ==
  /\ pc[t] = "post"
  /\ m_sema' = m_sema + 1
  /\ toRelease' = [toRelease EXCEPT ![t] = @ - 1]
  /\ Goto(t, IF toRelease[t] = 1 THEN "idle" ELSE "post")
  /\ UNCHANGED <<m_count, oldCount, spin>>

\* What a thread does once it has called wait or signal.
Step(t) == Load(t) \/ CompareExchange(t) \/ FetchSub(t) \/ Wake(t) \/ Post(t)

LSNext ==
  \E t \in Threads :
    Wait(t) \/ Step(t) \/ \E count \in 1 .. MaxSignal : Signal(t, count)

\* Every thread inside the semaphore's code is scheduled.
LSSpec     == LSInit /\ [][LSNext]_LSvars
LSFairness == \A t \in Threads : WF_LSvars(Step(t))
LSFairSpec == LSSpec /\ LSFairness

-----------------------------------------------------------------------------
(* Properties.                                                             *)

Sleepers == {t \in Threads : pc[t] = "sleep"}

\* The kernel posts that signalling threads still owe, by thread and number.
PendingPosts == {post \in Threads \X (1 .. MaxSignal) : post[2] <= toRelease[post[1]]}

(***************************************************************************)
(* The values the code's variables take; the count never goes below minus  *)
(* the number of threads that can sleep.                                   *)
(***************************************************************************)
LSTypeOK ==
  /\ m_count \in -Cardinality(Sleepers) .. MaxPermits
  /\ m_sema \in Nat
  /\ pc \in [Threads -> {"idle", "load", "cas", "fetch_sub", "sleep", "post"}]
  /\ oldCount \in [Threads -> Int]
  /\ spin \in [Threads -> 0 .. SpinLimit + 1]
  /\ toRelease \in [Threads -> 0 .. MaxSignal]
  /\ \A t \in Threads : toRelease[t] > 0 <=> pc[t] = "post"

(***************************************************************************)
(* No wakeup is lost and none is sent twice: every sleeper either has a    *)
(* post that is in the kernel or on its way there, or is counted in a      *)
(* negative m_count, where the next signal will see it.                    *)
(***************************************************************************)
WakeupsBalance ==
  /\ LSTypeOK
  /\ Cardinality(Sleepers) = m_sema + Cardinality(PendingPosts)
                               + IF m_count < 0 THEN -m_count ELSE 0

(***************************************************************************)
(* The spinning, the atomic count and the kernel semaphore together are    *)
(* one semaphore: a sleeper still waits, so its decrement of the count is  *)
(* added back.  A permit is never taken twice, and never stays unused      *)
(* while a thread waits, be it spinning, about to sleep or asleep.         *)
(***************************************************************************)
Abstract == INSTANCE Semaphore WITH
  permits <- m_count + Cardinality(Sleepers),
  waiting <- {t \in Threads : pc[t] \in {"load", "cas", "fetch_sub", "sleep"}}

ImplementsSemaphore == Abstract!FairSpec

=============================================================================
