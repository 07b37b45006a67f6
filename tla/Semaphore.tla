----------------------------- MODULE Semaphore -----------------------------
(***************************************************************************)
(* What a counting semaphore promises: a thread that waits goes on once it *)
(* has taken a permit, and each permit is taken once.                      *)
(***************************************************************************)
EXTENDS Integers

CONSTANTS Threads, MaxSignal

VARIABLES permits, waiting

vars == <<permits, waiting>>

Init == permits = 0 /\ waiting = {}

Wait(t) ==
  /\ t \notin waiting
  /\ waiting' = waiting \cup {t}
  /\ UNCHANGED permits

Acquire(t) ==
  /\ t \in waiting
  /\ permits > 0
  /\ permits' = permits - 1
  /\ waiting' = waiting \ {t}

Signal(n) ==
  /\ permits' = permits + n
  /\ UNCHANGED waiting

AnyAcquire == \E t \in Threads : Acquire(t)

Next == AnyAcquire \/ (\E t \in Threads : Wait(t)) \/ (\E n \in 1 .. MaxSignal : Signal(n))

\* A permit does not stay unused while somebody waits for one; which of the
\* waiting threads gets it is left open.
Spec     == Init /\ [][Next]_vars
FairSpec == Spec /\ WF_vars(AnyAcquire)

=============================================================================
