---------------------- MODULE OutputWorkerThreadProofs ----------------------
(***************************************************************************)
(* Proofs about LightweightSemaphore, for any finite set of threads, any   *)
(* number of attempts to spin and any counts passed to signal, and about   *)
(* OutputWorkerThread, which waits on such a semaphore, for every mixahead,*)
(* every buffer size and every bound on the requests.                      *)
(***************************************************************************)
EXTENDS OutputWorkerThread, LightweightSemaphore, SequenceTheorems, FiniteSetTheorems, TLAPS

-----------------------------------------------------------------------------
(* LightweightSemaphore.                                                   *)

(***************************************************************************)
(* A thread only exchanges the count for a smaller one that is not         *)
(* negative, and only spins while it has attempts left.                    *)
(***************************************************************************)
Spinning ==
  \A t \in Threads :
    /\ pc[t] = "cas" => oldCount[t] > 0
    /\ pc[t] \in {"load", "cas"} => spin[t] > 0

LSIInv == WakeupsBalance /\ Spinning   \* with LSTypeOK

\* What a negative m_count says of the sleepers.
Unreleased == IF m_count < 0 THEN -m_count ELSE 0

\* LSTypeOK but for the lower bound of m_count, which follows from the balance.
LSTyped ==
  /\ m_count \in Int /\ m_count <= MaxPermits
  /\ m_sema \in Nat
  /\ pc \in [Threads -> {"idle", "load", "cas", "fetch_sub", "sleep", "post"}]
  /\ oldCount \in [Threads -> Int]
  /\ spin \in [Threads -> 0 .. SpinLimit + 1]
  /\ toRelease \in [Threads -> 0 .. MaxSignal]
  /\ \A t \in Threads : toRelease[t] > 0 <=> pc[t] = "post"

Balanced == Cardinality(Sleepers) = m_sema + Cardinality(PendingPosts) + Unreleased

-----------------------------------------------------------------------------
(***************************************************************************)
(* There are finitely many sleepers and pending posts.                     *)
(***************************************************************************)
LEMMA SleepersFinite == IsFiniteSet(Sleepers) /\ Cardinality(Sleepers) \in Nat
<1>1. Sleepers \in SUBSET Threads
  BY DEF Sleepers
<1> QED
  BY <1>1, SemaphoreAssumption, FS_Subset, FS_CardinalityType

LEMMA PostsFinite == IsFiniteSet(PendingPosts) /\ Cardinality(PendingPosts) \in Nat
<1>1. IsFiniteSet(1 .. MaxSignal)
  BY SemaphoreAssumption, FS_Interval
<1>2. IsFiniteSet(Threads \X (1 .. MaxSignal))
  BY <1>1, SemaphoreAssumption, FS_Product
<1>3. PendingPosts \in SUBSET (Threads \X (1 .. MaxSignal))
  BY DEF PendingPosts
<1> QED
  BY <1>2, <1>3, FS_Subset, FS_CardinalityType

(***************************************************************************)
(* The balance bounds m_count from below: it is the form in which the      *)
(* invariant is proved.                                                    *)
(***************************************************************************)
LEMMA Balance == WakeupsBalance <=> LSTyped /\ Balanced
<1>1. Cardinality(Sleepers) \in Nat /\ Cardinality(PendingPosts) \in Nat
  BY SleepersFinite, PostsFinite
<1>2. ASSUME WakeupsBalance PROVE LSTyped /\ Balanced
  BY <1>1, <1>2, SemaphoreAssumption
  DEF WakeupsBalance, LSTypeOK, LSTyped, Balanced, Unreleased
<1>3. ASSUME LSTyped, Balanced PROVE WakeupsBalance
  <2>1. m_count \in -Cardinality(Sleepers) .. MaxPermits
    BY <1>1, <1>3, SemaphoreAssumption DEF LSTyped, Balanced, Unreleased
  <2> QED
    BY <1>3, <2>1 DEF WakeupsBalance, LSTypeOK, LSTyped, Balanced, Unreleased
<1> QED
  BY <1>2, <1>3

(***************************************************************************)
(* What a thread that moves does to the set of sleepers.                   *)
(***************************************************************************)
LEMMA SleepersMove ==
  ASSUME NEW t \in Threads, NEW where, Goto(t, where), LSTyped
  PROVE  /\ pc[t] # "sleep" /\ where # "sleep" => Sleepers' = Sleepers
         /\ pc[t] # "sleep" /\ where = "sleep" =>
              Cardinality(Sleepers)' = Cardinality(Sleepers) + 1
         /\ pc[t] = "sleep" /\ where # "sleep" =>
              Cardinality(Sleepers)' = Cardinality(Sleepers) - 1
<1>1. \A u \in Threads : pc'[u] = IF u = t THEN where ELSE pc[u]
  BY DEF Goto, LSTyped
<1>2. CASE pc[t] # "sleep" /\ where # "sleep"
  BY <1>1, <1>2 DEF Sleepers
<1>3. CASE pc[t] # "sleep" /\ where = "sleep"
  <2>1. Sleepers' = Sleepers \cup {t} /\ t \notin Sleepers
    BY <1>1, <1>3 DEF Sleepers
  <2> QED
    BY <1>3, <2>1, SleepersFinite, FS_AddElement
<1>4. CASE pc[t] = "sleep" /\ where # "sleep"
  <2>1. Sleepers' = Sleepers \ {t} /\ t \in Sleepers
    BY <1>1, <1>4 DEF Sleepers
  <2> QED
    BY <1>4, <2>1, SleepersFinite, FS_RemoveElement
<1> QED
  BY <1>2, <1>3, <1>4

(***************************************************************************)
(* What signal and Post do to the set of pending posts: one thread that    *)
(* owes none comes to owe n, or one that owes some owes one fewer.         *)
(***************************************************************************)
LEMMA PostsAdded ==
  ASSUME LSTyped, NEW t \in Threads, toRelease[t] = 0, NEW n \in 1 .. MaxSignal,
         toRelease' = [toRelease EXCEPT ![t] = n]
  PROVE  Cardinality(PendingPosts)' = Cardinality(PendingPosts) + n
<1> DEFINE added == {t} \X (1 .. n)
<1>1. \A u \in Threads : toRelease'[u] = IF u = t THEN n ELSE toRelease[u]
  BY DEF LSTyped
<1>2. PendingPosts' = PendingPosts \cup added
  BY <1>1, SemaphoreAssumption DEF PendingPosts, LSTyped
<1>3. PendingPosts \cap added = {}
  BY SemaphoreAssumption DEF PendingPosts
<1>4. IsFiniteSet(added) /\ Cardinality(added) = n
  <2>1. IsFiniteSet(1 .. n) /\ Cardinality(1 .. n) = n
    BY SemaphoreAssumption, FS_Interval
  <2>2. IsFiniteSet({t}) /\ Cardinality({t}) = 1
    BY FS_Singleton
  <2> QED
    BY <2>1, <2>2, FS_Product
<1> HIDE DEF added
<1>5. Cardinality(PendingPosts \cup added)
        = Cardinality(PendingPosts) + n - Cardinality(PendingPosts \cap added)
  BY <1>4, PostsFinite, FS_Union
<1>6. Cardinality(PendingPosts \cap added) = 0
  BY <1>3, FS_EmptySet
<1> QED
  BY <1>2, <1>5, <1>6, PostsFinite

LEMMA PostsTaken ==
  ASSUME LSTyped, NEW t \in Threads, toRelease[t] > 0,
         toRelease' = [toRelease EXCEPT ![t] = @ - 1]
  PROVE  Cardinality(PendingPosts)' = Cardinality(PendingPosts) - 1
<1> DEFINE last == <<t, toRelease[t]>>
<1>1. \A u \in Threads : toRelease'[u] = IF u = t THEN toRelease[u] - 1 ELSE toRelease[u]
  BY DEF LSTyped
<1>2. toRelease[t] \in 1 .. MaxSignal
  BY DEF LSTyped
<1>3. PendingPosts' = PendingPosts \ {last}
  BY <1>1, <1>2, SemaphoreAssumption DEF PendingPosts, LSTyped
<1>4. last \in PendingPosts
  BY <1>2 DEF PendingPosts
<1> QED
  BY <1>3, <1>4, PostsFinite, FS_RemoveElement

-----------------------------------------------------------------------------
LEMMA LSInitInvariant == LSInit => LSIInv
<1> SUFFICES ASSUME LSInit PROVE LSIInv
  OBVIOUS
<1> USE SemaphoreAssumption DEF LSInit
<1>1. Sleepers = {} /\ PendingPosts = {}
  BY DEF Sleepers, PendingPosts
<1>2. Cardinality(Sleepers) = 0 /\ Cardinality(PendingPosts) = 0
  BY <1>1, FS_EmptySet
<1>3. LSTyped /\ Balanced
  BY <1>2 DEF LSTyped, Balanced, Unreleased
<1> QED
  BY <1>3, Balance DEF LSIInv, Spinning

(***************************************************************************)
(* One step of the proof for each action: what it does to the sleepers, to *)
(* the pending posts and to the two counts.                                *)
(***************************************************************************)
LEMMA LSStepInvariant == LSIInv /\ [LSNext]_LSvars => LSIInv'
<1> SUFFICES ASSUME LSTyped, Balanced, Spinning, [LSNext]_LSvars
             PROVE  LSTyped' /\ Balanced' /\ Spinning'
  <2>1. (WakeupsBalance <=> LSTyped /\ Balanced)'
    BY Balance, PTL
  <2> QED
    BY <2>1, Balance DEF LSIInv
<1>a. UNCHANGED toRelease => PendingPosts' = PendingPosts
  BY DEF PendingPosts
<1> USE SemaphoreAssumption DEF LSTyped
<1>1. ASSUME NEW t \in Threads, Wait(t) PROVE LSTyped' /\ Balanced' /\ Spinning'
  <2>1. Sleepers' = Sleepers
    BY <1>1, SleepersMove DEF Wait
  <2> QED
    BY <1>1, <1>a, <2>1 DEF Wait, Goto, Balanced, Unreleased, Spinning
<1>2. ASSUME NEW t \in Threads, Load(t) PROVE LSTyped' /\ Balanced' /\ Spinning'
  <2>1. Sleepers' = Sleepers
    BY <1>2, SleepersMove DEF Load, Retry
  <2> QED
    BY <1>2, <1>a, <2>1 DEF Load, Retry, Goto, Balanced, Unreleased, Spinning
<1>3. ASSUME NEW t \in Threads, CompareExchange(t) PROVE LSTyped' /\ Balanced' /\ Spinning'
  <2>1. Sleepers' = Sleepers
    BY <1>3, SleepersMove DEF CompareExchange, Retry
  <2>2. Unreleased' = Unreleased
    BY <1>3 DEF CompareExchange, Unreleased, Spinning
  <2> QED
    BY <1>3, <1>a, <2>1, <2>2 DEF CompareExchange, Retry, Goto, Balanced, Spinning
<1>4. ASSUME NEW t \in Threads, FetchSub(t) PROVE LSTyped' /\ Balanced' /\ Spinning'
  <2>1. Balanced'
    <3>1. CASE m_count <= 0
      <4>1. Cardinality(Sleepers)' = Cardinality(Sleepers) + 1
        BY <1>4, <3>1, SleepersMove DEF FetchSub
      <4>2. Unreleased' = Unreleased + 1 /\ m_sema' = m_sema
        BY <1>4, <3>1 DEF FetchSub, Unreleased
      <4>3. Cardinality(PendingPosts)' = Cardinality(PendingPosts)
        BY <1>4, <1>a DEF FetchSub
      <4>4. Unreleased \in Int
        BY DEF Unreleased
      <4> QED
        BY <4>1, <4>2, <4>3, <4>4, PostsFinite, SleepersFinite DEF Balanced
    <3>2. CASE m_count > 0
      <4>1. Sleepers' = Sleepers
        BY <1>4, <3>2, SleepersMove DEF FetchSub
      <4>2. Unreleased' = Unreleased
        BY <1>4, <3>2 DEF FetchSub, Unreleased
      <4> QED
        BY <1>4, <1>a, <4>1, <4>2 DEF FetchSub, Balanced
    <3> QED
      BY <3>1, <3>2
  <2> QED
    BY <1>4, <2>1 DEF FetchSub, Goto, Spinning
<1>5. ASSUME NEW t \in Threads, Wake(t) PROVE LSTyped' /\ Balanced' /\ Spinning'
  <2>1. Cardinality(Sleepers)' = Cardinality(Sleepers) - 1
    BY <1>5, SleepersMove DEF Wake
  <2>2. m_sema' = m_sema - 1 /\ Unreleased' = Unreleased /\ Unreleased \in Int
    BY <1>5 DEF Wake, Unreleased
  <2>3. Cardinality(PendingPosts)' = Cardinality(PendingPosts)
    BY <1>5, <1>a DEF Wake
  <2>4. Balanced'
    BY <2>1, <2>2, <2>3, PostsFinite, SleepersFinite DEF Balanced
  <2> QED
    BY <1>5, <2>4 DEF Wake, Goto, Spinning
<1>6. ASSUME NEW t \in Threads, Post(t) PROVE LSTyped' /\ Balanced' /\ Spinning'
  <2>1. Sleepers' = Sleepers
    BY <1>6, SleepersMove DEF Post
  <2>2. toRelease[t] > 0
    BY <1>6 DEF Post
  <2>3. Cardinality(PendingPosts)' = Cardinality(PendingPosts) - 1
    BY <1>6, <2>2, PostsTaken DEF Post
  <2>4. m_sema' = m_sema + 1 /\ Unreleased' = Unreleased /\ Unreleased \in Int
    BY <1>6 DEF Post, Unreleased
  <2>5. Balanced'
    BY <2>1, <2>3, <2>4, PostsFinite, SleepersFinite DEF Balanced
  <2> QED
    BY <1>6, <2>2, <2>5 DEF Post, Goto, Spinning
<1>7. ASSUME NEW t \in Threads, NEW permits \in 1 .. MaxSignal, Signal(t, permits)
      PROVE  LSTyped' /\ Balanced' /\ Spinning'
  <2> DEFINE release == ReleaseCount(m_count, permits)
  <2>1. /\ release \in Int /\ release <= permits /\ m_count' = m_count + permits
        /\ m_sema' = m_sema /\ toRelease[t] = 0
    BY <1>7 DEF Signal, ReleaseCount
  <2>2. Sleepers' = Sleepers
    BY <1>7, SleepersMove DEF Signal, Sleepers
  <2>3. Balanced'
    <3>1. CASE release > 0
      <4>1. Cardinality(PendingPosts)' = Cardinality(PendingPosts) + release
        BY <1>7, <2>1, <3>1, PostsAdded DEF Signal
      <4>2. Unreleased' = Unreleased - release /\ Unreleased \in Int
        BY <2>1, <3>1 DEF Unreleased, ReleaseCount
      <4> HIDE DEF release
      <4> QED
        BY <2>1, <2>2, <4>1, <4>2, PostsFinite, SleepersFinite DEF Balanced
    <3>2. CASE ~(release > 0)
      <4>1. Unreleased' = Unreleased
        BY <2>1, <3>2 DEF Unreleased, ReleaseCount
      <4> QED
        BY <1>7, <1>a, <2>1, <2>2, <3>2, <4>1 DEF Signal, Balanced
    <3> QED
      BY <3>1, <3>2
  <2>4. LSTyped'
    BY <1>7, <2>1 DEF Signal, Goto
  <2> QED
    BY <1>7, <2>3, <2>4 DEF Signal, Goto, Spinning
<1>8. CASE UNCHANGED LSvars
  BY <1>8 DEF LSvars, Balanced, Unreleased, Spinning, Sleepers, PendingPosts
<1> QED
  BY <1>1, <1>2, <1>3, <1>4, <1>5, <1>6, <1>7, <1>8 DEF LSNext, Step

THEOREM LSInvariant == LSSpec => []LSIInv
  BY LSInitInvariant, LSStepInvariant, PTL DEF LSSpec

-----------------------------------------------------------------------------
(***************************************************************************)
(* No wakeup is lost or sent twice.                                        *)
(***************************************************************************)
THEOREM NoWakeupLost == LSSpec => []WakeupsBalance
<1>1. LSIInv => WakeupsBalance
  BY DEF LSIInv
<1> QED
  BY <1>1, LSInvariant, PTL

(***************************************************************************)
(* The spinning, the count and the kernel semaphore together never hand    *)
(* out a permit twice or from nowhere: they are one semaphore (the safety  *)
(* part of ImplementsSemaphore).                                           *)
(***************************************************************************)
\* What the refinement mapping makes of the state.
Permits == m_count + Cardinality(Sleepers)
Waiting == {t \in Threads : pc[t] \in {"load", "cas", "fetch_sub", "sleep"}}

\* A thread takes a permit and leaves, or stays where it counts as waiting.
LEMMA WaitingMoves ==
  ASSUME NEW t \in Threads, NEW where, Goto(t, where), LSTyped
  PROVE  /\ where \in {"idle", "post"} => Waiting' = Waiting \ {t}
         /\ where \in {"load", "cas", "fetch_sub", "sleep"} => Waiting' = Waiting \cup {t}
<1>1. \A u \in Threads : pc'[u] = IF u = t THEN where ELSE pc[u]
  BY DEF Goto, LSTyped
<1> QED
  BY <1>1 DEF Waiting

THEOREM IsSemaphore == LSSpec => Abstract!Spec
<1>1. LSInit => Abstract!Init
  <2> SUFFICES ASSUME LSInit PROVE Abstract!Init
    OBVIOUS
  <2>1. Sleepers = {}
    BY DEF LSInit, Sleepers
  <2>2. Cardinality(Sleepers) = 0
    BY <2>1, FS_EmptySet
  <2> QED
    BY <2>2 DEF LSInit, Abstract!Init
<1>2. LSIInv /\ [LSNext]_LSvars => [Abstract!Next]_(Abstract!vars)
  <2> SUFFICES ASSUME LSTyped, Balanced, Spinning, [LSNext]_LSvars
               PROVE  [Abstract!Next]_(Abstract!vars)
    BY Balance DEF LSIInv
  <2> DEFINE Stutter    == Permits' = Permits /\ Waiting' = Waiting
             Acquire(t) == /\ t \in Waiting /\ Permits > 0
                           /\ Permits' = Permits - 1 /\ Waiting' = Waiting \ {t}
  <2>a. Stutter => UNCHANGED Abstract!vars
    BY DEF Permits, Waiting, Abstract!vars
  <2>b. ASSUME NEW t \in Threads, Acquire(t) PROVE Abstract!Next
    BY <2>b DEF Permits, Waiting, Abstract!Next, Abstract!AnyAcquire, Abstract!Acquire
  <2>c. /\ Cardinality(Sleepers) \in Nat /\ Cardinality(PendingPosts) \in Nat
        /\ m_count \in Int /\ m_sema \in Nat
    BY SleepersFinite, PostsFinite DEF LSTyped
  <2>1. ASSUME NEW t \in Threads, Wait(t) PROVE Abstract!Next
    <3>1. pc[t] = "idle" /\ Goto(t, "load") /\ m_count' = m_count
      BY <2>1 DEF Wait
    <3>2. Sleepers' = Sleepers /\ Waiting' = Waiting \cup {t} /\ t \notin Waiting
      BY <3>1, SleepersMove, WaitingMoves DEF Waiting
    <3> QED
      BY <3>1, <3>2 DEF Waiting, Abstract!Next, Abstract!Wait
  <2>2. ASSUME NEW t \in Threads, NEW where \in {"load", "cas", "fetch_sub"},
               pc[t] \in {"load", "cas"}, Goto(t, where), m_count' = m_count
        PROVE  Stutter
    <3>1. Sleepers' = Sleepers
      BY <2>2, SleepersMove
    <3>2. Waiting' = Waiting
      BY <2>2, WaitingMoves DEF Waiting
    <3> QED
      BY <2>2, <3>1, <3>2 DEF Permits
  <2>3. ASSUME NEW t \in Threads, pc[t] \in {"cas", "fetch_sub"}, Goto(t, "idle"),
               m_count > 0, m_count' = m_count - 1
        PROVE  Acquire(t)
    <3>1. Sleepers' = Sleepers
      BY <2>3, SleepersMove
    <3>2. t \in Waiting /\ Waiting' = Waiting \ {t}
      BY <2>3, WaitingMoves DEF Waiting
    <3> QED
      BY <2>3, <2>c, <3>1, <3>2 DEF Permits
  <2>4. ASSUME NEW t \in Threads, Load(t) PROVE Stutter
    BY <2>2, <2>4 DEF Load, Retry
  <2>5. ASSUME NEW t \in Threads, CompareExchange(t) PROVE Stutter \/ Acquire(t)
    BY <2>2, <2>3, <2>5 DEF CompareExchange, Retry, Spinning
  <2>6. ASSUME NEW t \in Threads, FetchSub(t) PROVE Stutter \/ Acquire(t)
    <3>1. CASE m_count > 0
      <4>1. Goto(t, "idle") /\ m_count' = m_count - 1 /\ pc[t] = "fetch_sub"
        BY <2>6, <2>c, <3>1 DEF FetchSub
      <4> QED
        BY <2>3, <3>1, <4>1
    <3>2. CASE m_count <= 0
      <4>1. Goto(t, "sleep") /\ m_count' = m_count - 1 /\ pc[t] = "fetch_sub"
        BY <2>6, <3>2 DEF FetchSub
      <4>2. Cardinality(Sleepers)' = Cardinality(Sleepers) + 1
        BY <4>1, SleepersMove
      <4>3. Waiting' = Waiting
        BY <4>1, WaitingMoves DEF Waiting
      <4> QED
        BY <2>c, <4>1, <4>2, <4>3 DEF Permits
    <3> QED
      BY <2>c, <3>1, <3>2
  <2>7. ASSUME NEW t \in Threads, Wake(t) PROVE Acquire(t)
    <3>1. pc[t] = "sleep" /\ Goto(t, "idle") /\ m_count' = m_count /\ m_sema > 0
      BY <2>7 DEF Wake
    <3>2. Cardinality(Sleepers)' = Cardinality(Sleepers) - 1
      BY <3>1, SleepersMove
    <3>3. t \in Waiting /\ Waiting' = Waiting \ {t}
      BY <3>1, WaitingMoves DEF Waiting
    <3>4. Permits > 0
      BY <2>c, <3>1 DEF Balanced, Unreleased, Permits
    <3> QED
      BY <2>c, <3>1, <3>2, <3>3, <3>4 DEF Permits
  <2>8. ASSUME NEW t \in Threads, Post(t) PROVE Stutter
    <3>1. PICK where \in {"idle", "post"} : Goto(t, where)
      BY <2>8 DEF Post
    <3>2. Sleepers' = Sleepers /\ Waiting' = Waiting
      BY <2>8, <3>1, SleepersMove, WaitingMoves DEF Post, Waiting
    <3> QED
      BY <2>8, <3>2 DEF Post, Permits
  <2>9. ASSUME NEW t \in Threads, NEW permits \in 1 .. MaxSignal, Signal(t, permits)
        PROVE  Abstract!Next
    <3>1. Sleepers' = Sleepers /\ Waiting' = Waiting
      BY <2>9, SleepersMove, WaitingMoves DEF Signal, Sleepers, Waiting
    <3>2. (m_count + Cardinality(Sleepers))' = (m_count + Cardinality(Sleepers)) + permits
      BY <2>9, <2>c, <3>1 DEF Signal
    <3> QED
      BY <3>1, <3>2 DEF Waiting, Abstract!Next, Abstract!Signal
  <2>10. CASE UNCHANGED LSvars
    BY <2>10 DEF LSvars, Sleepers, Abstract!vars
  <2> QED
    BY <2>a, <2>b, <2>1, <2>4, <2>5, <2>6, <2>7, <2>8, <2>9, <2>10 DEF LSNext, Step
<1> QED
  BY <1>1, <1>2, LSInvariant, PTL DEF LSSpec, Abstract!Spec

-----------------------------------------------------------------------------
(* OutputWorkerThread.                                                     *)

USE ConstantsAssumption DEF Buffers, Stop, NoBuffer, Capacity, InitialPermits,
                            InitialMixSize

(***************************************************************************)
(* Facts about the two ends of a queue.                                    *)
(***************************************************************************)
LEMMA AppendFacts ==
  ASSUME NEW S, NEW q \in Seq(S), NEW e \in S
  PROVE  /\ Append(q, e) \in Seq(S)
         /\ Len(Append(q, e)) = Len(q) + 1
         /\ \A i \in 1 .. Len(q) : Append(q, e)[i] = q[i]
         /\ Append(q, e)[Len(q) + 1] = e
         /\ Append(q, e) # <<>>
  OBVIOUS

LEMMA TailFacts ==
  ASSUME NEW S, NEW q \in Seq(S), q # <<>>
  PROVE  /\ Head(q) \in S /\ Head(q) = q[1]
         /\ Tail(q) \in Seq(S)
         /\ Len(q) >= 1 /\ Len(q) \in Nat
         /\ Len(Tail(q)) = Len(q) - 1
         /\ \A i \in 1 .. Len(q) - 1 : Tail(q)[i] = q[i + 1]
         /\ Len(q) = 1 => Tail(q) = <<>>
<1>1. Tail(q) \in Seq(S) /\ Len(Tail(q)) = Len(q) - 1
  OBVIOUS
<1>2. Tail(q) # <<>> => Len(Tail(q)) \in Nat \ {0}
  BY <1>1, EmptySeq
<1>3. Len(q) = 1 => Tail(q) = <<>>
  BY <1>1, <1>2
<1> QED
  BY <1>3

(***************************************************************************)
(* A copy stays within the buffer and within the request.                  *)
(***************************************************************************)
LEMMA WillWriteRange ==
  ASSUME count \in Nat, NEW start \in 0 .. destination_frames
  PROVE  LET willWrite == WillWrite(destination_frames - start)
         IN  /\ willWrite \in Nat /\ count - willWrite \in Nat
             /\ start + willWrite \in 0 .. destination_frames
  BY DEF WillWrite

-----------------------------------------------------------------------------
(***************************************************************************)
(* Typing.  The type invariant is inductive with the facts that say when   *)
(* the worker and the I/O thread hold a buffer, and where the stop command *)
(* can be.                                                                 *)
(***************************************************************************)
Typed == TypeOK /\ StopIsLast /\ Holding

LEMMA PopFacts ==
  ASSUME TypeOK, StopIsLast, returned_buffers # <<>>
  PROVE  LET q == returned_buffers IN
         /\ Head(q) \in Buffers \cup {Stop} /\ Tail(q) \in Seq(Buffers \cup {Stop})
         /\ Len(q) \in Nat /\ Len(q) >= 1 /\ Len(Tail(q)) = Len(q) - 1
         /\ \A i \in 1 .. Len(q) - 1 : Tail(q)[i] = q[i + 1]
         /\ Len(q) = 1 => Tail(q) = <<>>
         /\ Head(q) = Stop <=> StopQueued /\ Len(q) = 1
<1> DEFINE q == returned_buffers
<1>1. q \in Seq(Buffers \cup {Stop}) /\ q # <<>>
  BY DEF TypeOK
<1>2. /\ Head(q) \in Buffers \cup {Stop} /\ Head(q) = q[1]
      /\ Tail(q) \in Seq(Buffers \cup {Stop})
      /\ Len(q) \in Nat /\ Len(q) >= 1 /\ Len(Tail(q)) = Len(q) - 1
      /\ \A i \in 1 .. Len(q) - 1 : Tail(q)[i] = q[i + 1]
      /\ Len(q) = 1 => Tail(q) = <<>>
  BY <1>1, TailFacts
<1>3. 1 \in 1 .. Len(q)
  BY <1>2
<1>4. q[1] = Stop <=> StopQueued /\ Len(q) = 1
  BY <1>3 DEF StopIsLast, StopQueued
<1> QED
  BY <1>2, <1>4

LEMMA TypedInit == Init => Typed
  BY DEF Init, Typed, TypeOK, StopIsLast, Holding, StopQueued

LEMMA TypedStep == Typed /\ [Next]_vars => Typed'
<1>0. SUFFICES ASSUME TypeOK, StopIsLast, Holding, [Next]_vars PROVE Typed'
  BY DEF Typed
<1> USE DEF queues, shared, contents, workerVars, ioVars, copyVars, callVars, ownerVars
<1>1. CASE WorkerWait
  <2>1. TypeOK'
    BY <1>0, <1>1 DEF WorkerWait, TypeOK, Holding
  <2>2. StopIsLast'
    BY <1>0, <1>1 DEF WorkerWait, StopIsLast, StopQueued, Holding, TypeOK
  <2>3. Holding'
    BY <1>0, <1>1 DEF WorkerWait, Holding, StopQueued, TypeOK
  <2> QED
    BY <2>1, <2>2, <2>3 DEF Typed
<1>2. CASE WorkerPop
  <2> DEFINE q == returned_buffers
  <2>1. /\ Head(q) \in Buffers \cup {Stop} /\ Tail(q) \in Seq(Buffers \cup {Stop})
        /\ Len(q) \in Nat /\ Len(q) >= 1 /\ Len(Tail(q)) = Len(q) - 1
        /\ \A i \in 1 .. Len(q) - 1 : Tail(q)[i] = q[i + 1]
        /\ Len(q) = 1 => Tail(q) = <<>>
        /\ Head(q) = Stop <=> StopQueued /\ Len(q) = 1
    BY <1>0, <1>2, PopFacts DEF WorkerPop
  <2>2. Head(q) # Stop => Head(q) \in Buffers
    BY <2>1
  <2>3. StopQueued /\ Head(q) # Stop => Tail(q) # <<>>
    BY <2>1
  <2>4. TypeOK'
    BY <1>0, <1>2, <2>1 DEF WorkerPop, TypeOK, Holding
  <2>5. StopIsLast'
    <3> SUFFICES ASSUME NEW i \in 1 .. Len(Tail(q))
                 PROVE  Tail(q)[i] = Stop <=> StopQueued' /\ i = Len(Tail(q))
      BY <1>2 DEF WorkerPop, StopIsLast
    <3>1. i + 1 \in 1 .. Len(q) /\ i \in 1 .. Len(q) - 1
      BY <2>1
    <3>2. q[i + 1] = Stop <=> StopQueued /\ i + 1 = Len(q)
      BY <1>0, <3>1 DEF StopIsLast
    <3>3. StopQueued' <=> StopQueued
      BY <1>0, <1>2, <2>1, <3>1 DEF WorkerPop, StopQueued
    <3>4. i = Len(Tail(q)) <=> i + 1 = Len(q)
      BY <2>1
    <3>5. Tail(q)[i] = q[i + 1]
      BY <2>1, <3>1
    <3> QED
      BY <3>2, <3>3, <3>4, <3>5
  <2>6. Holding'
    BY <1>0, <1>2, <2>1, <2>2, <2>3 DEF WorkerPop, Holding, StopQueued, TypeOK
  <2> QED
    BY <2>4, <2>5, <2>6 DEF Typed
<1>3. CASE WorkerMix
  <2>1. TypeOK'
    BY <1>0, <1>3 DEF WorkerMix, TypeOK, Holding
  <2>2. StopIsLast'
    BY <1>0, <1>3 DEF WorkerMix, StopIsLast, StopQueued, Holding, TypeOK
  <2>3. Holding'
    BY <1>0, <1>3 DEF WorkerMix, Holding, StopQueued, TypeOK
  <2> QED
    BY <2>1, <2>2, <2>3 DEF Typed
<1>4. CASE WorkerPush
  <2>1. TypeOK'
    BY <1>0, <1>4, AppendFacts DEF WorkerPush, TypeOK, Holding
  <2>2. StopIsLast'
    BY <1>0, <1>4 DEF WorkerPush, StopIsLast, StopQueued, Holding, TypeOK
  <2>3. Holding'
    BY <1>0, <1>4 DEF WorkerPush, Holding, StopQueued, TypeOK
  <2> QED
    BY <2>1, <2>2, <2>3 DEF Typed
<1>5. CASE WorkerCount
  <2>1. TypeOK'
    BY <1>0, <1>5 DEF WorkerCount, TypeOK, Holding
  <2>2. StopIsLast'
    BY <1>0, <1>5 DEF WorkerCount, StopIsLast, StopQueued, Holding, TypeOK
  <2>3. Holding'
    BY <1>0, <1>5 DEF WorkerCount, Holding, StopQueued, TypeOK
  <2> QED
    BY <2>1, <2>2, <2>3 DEF Typed
<1>6. CASE IoAwaitInitialMix
  <2>1. TypeOK'
    BY <1>0, <1>6 DEF IoAwaitInitialMix, TypeOK, Holding
  <2>2. StopIsLast'
    BY <1>0, <1>6 DEF IoAwaitInitialMix, StopIsLast, StopQueued, Holding, TypeOK
  <2>3. Holding'
    BY <1>0, <1>6 DEF IoAwaitInitialMix, Holding, StopQueued, TypeOK
  <2> QED
    BY <2>1, <2>2, <2>3 DEF Typed
<1>7. ASSUME NEW n \in 0 .. MaxRequest, IoWrite(n) PROVE Typed'
  BY <1>0, <1>7 DEF IoWrite, Produced, Typed, TypeOK, StopIsLast, StopQueued, Holding
<1>8. CASE IoAcquire
  <2>1. TypeOK'
    BY <1>0, <1>8, TailFacts DEF IoAcquire, TypeOK, Holding
  <2>2. StopIsLast'
    BY <1>0, <1>8 DEF IoAcquire, StopIsLast, StopQueued, Holding, TypeOK
  <2>3. Holding'
    BY <1>0, <1>8, TailFacts DEF IoAcquire, Holding, StopQueued, TypeOK
  <2> QED
    BY <2>1, <2>2, <2>3 DEF Typed
<1>9. CASE IoUnderrun
  <2>1. TypeOK'
    BY <1>0, <1>9 DEF IoUnderrun, TypeOK, Holding
  <2>2. StopIsLast'
    BY <1>0, <1>9 DEF IoUnderrun, StopIsLast, StopQueued, Holding, TypeOK
  <2>3. Holding'
    BY <1>0, <1>9 DEF IoUnderrun, Holding, StopQueued, TypeOK
  <2> QED
    BY <2>1, <2>2, <2>3 DEF Typed
<1>10. CASE IoCopy
  <2> DEFINE start     == used[current_buffer]
             willWrite == WillWrite(destination_frames - start)
  <2>1. /\ current_buffer \in Buffers
        /\ start \in 0 .. destination_frames /\ data[current_buffer] \in Nat
    BY <1>0, <1>10 DEF IoCopy, TypeOK
  <2>2. /\ willWrite \in Nat /\ start + willWrite \in 0 .. destination_frames
        /\ count - willWrite \in Nat
    BY <1>0, <2>1, WillWriteRange DEF TypeOK
  <2>3. TypeOK'
    <3> HIDE DEF willWrite
    <3>1. /\ used' = [used EXCEPT ![current_buffer] = start + willWrite]
          /\ output' = [first |-> data[current_buffer] + start, length |-> willWrite]
          /\ delivered' = delivered + willWrite /\ count' = count - willWrite
          /\ writtenThisTime' = willWrite /\ io_pc' \in {"push", "helper", "ready"}
          /\ UNCHANGED <<queues, shared, data, workerVars, current_buffer, callVars,
                         ownerVars>>
      BY <1>10 DEF IoCopy, AfterHelper, willWrite
    <3>2. used' \in [Buffers -> 0 .. destination_frames]
      BY <1>0, <2>2, <3>1 DEF TypeOK
    <3>3. data[current_buffer] + start \in Nat
      BY <2>1
    <3>4. output' \in [first : Nat, length : Nat]
      BY <2>2, <3>1, <3>3
    <3>5. delivered' \in Nat /\ count' \in Nat /\ writtenThisTime' \in Nat
      BY <1>0, <2>2, <3>1 DEF TypeOK
    <3> QED
      BY <1>0, <3>1, <3>2, <3>4, <3>5 DEF TypeOK
  <2>4. StopIsLast' /\ Holding'
    BY <1>0, <1>10, <2>1 DEF IoCopy, AfterHelper, StopIsLast, StopQueued, Holding
  <2> QED
    BY <2>3, <2>4 DEF Typed
<1>11. CASE IoPush
  <2> DEFINE q == Append(returned_buffers, current_buffer)
  <2>1. /\ q \in Seq(Buffers \cup {Stop}) /\ q # <<>>
        /\ Len(q) = Len(returned_buffers) + 1 /\ Len(returned_buffers) \in Nat
        /\ \A i \in 1 .. Len(returned_buffers) : q[i] = returned_buffers[i]
        /\ q[Len(returned_buffers) + 1] = current_buffer
    <3>1. returned_buffers \in Seq(Buffers \cup {Stop}) /\ current_buffer \in Buffers \cup {Stop}
      BY <1>0, <1>11 DEF IoPush, TypeOK, Holding
    <3> QED
      BY <3>1, AppendFacts
  <2>2. TypeOK'
    BY <1>0, <1>11, <2>1 DEF IoPush, TypeOK, Holding
  <2>3. StopIsLast'
    <3>1. ~StopQueued /\ ~StopQueued' /\ current_buffer # Stop
      BY <1>0, <1>11 DEF IoPush, StopQueued, Holding
    <3>2. returned_buffers' = q
      BY <1>11 DEF IoPush
    <3> QED
      BY <1>0, <2>1, <3>1, <3>2 DEF StopIsLast
  <2>4. Holding'
    BY <1>0, <1>11, <2>1 DEF IoPush, Holding, StopQueued, TypeOK
  <2> QED
    BY <2>2, <2>3, <2>4 DEF Typed
<1>12. CASE IoSignal
  <2>1. TypeOK'
    BY <1>0, <1>12 DEF IoSignal, AfterHelper, TypeOK, Holding
  <2>2. StopIsLast'
    BY <1>0, <1>12 DEF IoSignal, AfterHelper, StopIsLast, StopQueued, Holding, TypeOK
  <2>3. Holding'
    BY <1>0, <1>12 DEF IoSignal, AfterHelper, Holding, StopQueued, TypeOK
  <2> QED
    BY <2>1, <2>2, <2>3 DEF Typed
<1>13. CASE IoLeave
  <2>1. TypeOK'
    BY <1>0, <1>13 DEF IoLeave, TypeOK, Holding
  <2>2. StopIsLast'
    BY <1>0, <1>13 DEF IoLeave, StopIsLast, StopQueued, Holding, TypeOK
  <2>3. Holding'
    BY <1>0, <1>13 DEF IoLeave, Holding, StopQueued, TypeOK
  <2> QED
    BY <2>1, <2>2, <2>3 DEF Typed
<1>14. CASE OwnerDestroy
  <2>1. TypeOK'
    BY <1>0, <1>14 DEF OwnerDestroy, TypeOK, Holding
  <2>2. StopIsLast'
    BY <1>0, <1>14 DEF OwnerDestroy, StopIsLast, StopQueued, Holding, TypeOK
  <2>3. Holding'
    BY <1>0, <1>14 DEF OwnerDestroy, Holding, StopQueued, TypeOK
  <2> QED
    BY <2>1, <2>2, <2>3 DEF Typed
<1>15. CASE OwnerPushStop
  <2> DEFINE q == Append(returned_buffers, Stop)
  <2>1. /\ q \in Seq(Buffers \cup {Stop}) /\ q # <<>>
        /\ Len(q) = Len(returned_buffers) + 1 /\ Len(returned_buffers) \in Nat
        /\ \A i \in 1 .. Len(returned_buffers) : q[i] = returned_buffers[i]
        /\ q[Len(returned_buffers) + 1] = Stop
    <3>1. returned_buffers \in Seq(Buffers \cup {Stop}) /\ Stop \in Buffers \cup {Stop}
      BY <1>0 DEF TypeOK
    <3> QED
      BY <3>1, AppendFacts
  <2>2. TypeOK'
    BY <1>0, <1>15, <2>1 DEF OwnerPushStop, TypeOK, Holding
  <2>3. StopIsLast'
    <3>1. ~StopQueued /\ StopQueued'
      BY <1>0, <1>15 DEF OwnerPushStop, StopQueued, Holding
    <3>2. returned_buffers' = q
      BY <1>15 DEF OwnerPushStop
    <3> QED
      BY <1>0, <2>1, <3>1, <3>2 DEF StopIsLast
  <2>4. Holding'
    BY <1>0, <1>15, <2>1 DEF OwnerPushStop, Holding, StopQueued, TypeOK
  <2> QED
    BY <2>2, <2>3, <2>4 DEF Typed
<1>16. CASE OwnerSignal
  <2>1. TypeOK'
    BY <1>0, <1>16 DEF OwnerSignal, TypeOK, Holding
  <2>2. StopIsLast'
    BY <1>0, <1>16 DEF OwnerSignal, StopIsLast, StopQueued, Holding, TypeOK
  <2>3. Holding'
    BY <1>0, <1>16 DEF OwnerSignal, Holding, StopQueued, TypeOK
  <2> QED
    BY <2>1, <2>2, <2>3 DEF Typed
<1>17. CASE OwnerJoin
  <2>1. TypeOK'
    BY <1>0, <1>17 DEF OwnerJoin, TypeOK, Holding
  <2>2. StopIsLast'
    BY <1>0, <1>17 DEF OwnerJoin, StopIsLast, StopQueued, Holding, TypeOK
  <2>3. Holding'
    BY <1>0, <1>17 DEF OwnerJoin, Holding, StopQueued, TypeOK
  <2> QED
    BY <2>1, <2>2, <2>3 DEF Typed
<1>18. CASE OwnerDrain
  <2>1. TypeOK'
    <3>1. returned_buffers = <<>> /\ prepared_buffers \in Seq(Buffers)
      BY <1>0, <1>18 DEF OwnerDrain, Holding, TypeOK
    <3>2. Range(returned_buffers) = {}
      BY <3>1 DEF Range
    <3>3. Range(prepared_buffers) \subseteq Buffers
      BY <3>1, LenProperties, ElementOfSeq DEF Range
    <3> QED
      BY <1>0, <1>18, <3>2, <3>3 DEF OwnerDrain, TypeOK
  <2>2. StopIsLast'
    BY <1>0, <1>18 DEF OwnerDrain, Range, StopIsLast, StopQueued, Holding, TypeOK
  <2>3. Holding'
    BY <1>0, <1>18 DEF OwnerDrain, Range, Holding, StopQueued, TypeOK
  <2> QED
    BY <2>1, <2>2, <2>3 DEF Typed
<1>19. CASE UNCHANGED vars
  BY <1>0, <1>19 DEF vars, Typed, TypeOK, StopIsLast, StopQueued, Holding
<1> QED
  BY <1>0, <1>1, <1>2, <1>3, <1>4, <1>5, <1>6, <1>7, <1>8, <1>9, <1>10, <1>11,
     <1>12, <1>13, <1>14, <1>15, <1>16, <1>17, <1>18, <1>19
  DEF Next, Worker, Io, IoStep, Owner, OwnerStep, Destroyed

THEOREM TypeCorrect == Spec => []TypeOK
<1>1. Spec => []Typed
  BY TypedInit, TypedStep, PTL DEF Spec
<1> QED
  BY <1>1, PTL DEF Typed
-----------------------------------------------------------------------------
(***************************************************************************)
(* Counting.  The number of buffers in circulation is constant, and so is  *)
(* the difference between the commands queued and the permits given; each  *)
(* step moves one of either from one term of the sum to another.           *)
(***************************************************************************)
Counted == NoBufferLost /\ SemaphoreCounts

LEMMA CountedInit == Init => Counted
  BY DEF Init, Counted, NoBufferLost, SemaphoreCounts, WorkerOwns, IoOwns, StopQueued, One

LEMMA CountedStep == Typed /\ Counted /\ [Next]_vars => Counted'
<1>0. SUFFICES ASSUME TypeOK, StopIsLast, Holding, NoBufferLost, SemaphoreCounts, [Next]_vars
               PROVE  Counted'
  BY DEF Typed, Counted
<1>a. Len(returned_buffers) \in Nat /\ Len(prepared_buffers) \in Nat
  BY <1>0, LenProperties DEF TypeOK
<1> USE DEF queues, shared, contents, workerVars, ioVars, copyVars, callVars, ownerVars,
            Counted, NoBufferLost, SemaphoreCounts, WorkerOwns, IoOwns, StopQueued, One
<1>1. CASE WorkerWait
  BY <1>0, <1>1, <1>a DEF WorkerWait, TypeOK
<1>2. CASE WorkerPop
  <2>1. /\ Len(Tail(returned_buffers)) = Len(returned_buffers) - 1
        /\ Head(returned_buffers) = Stop => StopQueued
        /\ semaphore \in Nat
    BY <1>0, <1>2, PopFacts DEF WorkerPop, TypeOK
  <2> QED
    BY <1>0, <1>2, <1>a, <2>1 DEF WorkerPop
<1>3. CASE WorkerMix
  BY <1>0, <1>3 DEF WorkerMix
<1>4. CASE WorkerPush
  <2>1. Len(Append(prepared_buffers, worker_cmd)) = Len(prepared_buffers) + 1
    BY <1>0, <1>4, AppendFacts DEF WorkerPush, TypeOK, Holding
  <2> QED
    BY <1>0, <1>4, <1>a, <2>1 DEF WorkerPush
<1>5. CASE WorkerCount
  BY <1>0, <1>5 DEF WorkerCount
<1>6. CASE IoAwaitInitialMix
  BY <1>0, <1>6 DEF IoAwaitInitialMix
<1>7. ASSUME NEW n \in 0 .. MaxRequest, IoWrite(n) PROVE Counted'
  BY <1>0, <1>7 DEF IoWrite
<1>8. CASE IoAcquire
  <2>1. /\ Len(Tail(prepared_buffers)) = Len(prepared_buffers) - 1
        /\ Head(prepared_buffers) \in Buffers
    BY <1>0, <1>8, TailFacts DEF IoAcquire, TypeOK
  <2> QED
    BY <1>0, <1>8, <1>a, <2>1 DEF IoAcquire
<1>9. CASE IoUnderrun
  BY <1>0, <1>9 DEF IoUnderrun
<1>10. CASE IoCopy
  BY <1>0, <1>10 DEF IoCopy, AfterHelper
<1>11. CASE IoPush
  <2>1. Len(Append(returned_buffers, current_buffer)) = Len(returned_buffers) + 1
    BY <1>0, <1>11, AppendFacts DEF IoPush, TypeOK, Holding
  <2>2. semaphore \in Nat /\ current_buffer # NoBuffer /\ owner_pc = "using"
    BY <1>0, <1>11 DEF IoPush, TypeOK, Holding
  <2> QED
    BY <1>0, <1>11, <1>a, <2>1, <2>2 DEF IoPush
<1>12. CASE IoSignal
  BY <1>0, <1>12, <1>a DEF IoSignal, AfterHelper, TypeOK, Holding
<1>13. CASE IoLeave
  BY <1>0, <1>13 DEF IoLeave
<1>14. CASE OwnerDestroy
  BY <1>0, <1>14 DEF OwnerDestroy
<1>15. CASE OwnerPushStop
  <2>1. Len(Append(returned_buffers, Stop)) = Len(returned_buffers) + 1
    BY <1>0, <1>15, AppendFacts DEF OwnerPushStop, TypeOK
  <2>2. semaphore \in Nat /\ worker_pc # "exited"
    BY <1>0, <1>15 DEF OwnerPushStop, TypeOK, Holding
  <2> QED
    BY <1>0, <1>15, <1>a, <2>1, <2>2 DEF OwnerPushStop
<1>16. CASE OwnerSignal
  BY <1>0, <1>16, <1>a DEF OwnerSignal, TypeOK
<1>17. CASE OwnerJoin
  BY <1>0, <1>17 DEF OwnerJoin
<1>18. CASE OwnerDrain
  BY <1>0, <1>18 DEF OwnerDrain, Holding
<1>19. CASE UNCHANGED vars
  BY <1>0, <1>19 DEF vars
<1> QED
  BY <1>0, <1>1, <1>2, <1>3, <1>4, <1>5, <1>6, <1>7, <1>8, <1>9, <1>10, <1>11,
     <1>12, <1>13, <1>14, <1>15, <1>16, <1>17, <1>18, <1>19
  DEF Next, Worker, Io, IoStep, Owner, OwnerStep, Destroyed

(***************************************************************************)
(* Between the ones that are held and the ones that are queued there is    *)
(* always room for one more: the push loops of workerThread and of         *)
(* releaseBuffer succeed at once, and so does the pop loop.                *)
(***************************************************************************)
LEMMA CountedNeverSpins == Typed /\ Counted => LoopsNeverSpin
<1>0. SUFFICES ASSUME TypeOK, StopIsLast, Holding, NoBufferLost, SemaphoreCounts
               PROVE  LoopsNeverSpin
  BY DEF Typed, Counted
<1>1. Len(returned_buffers) \in Nat /\ Len(prepared_buffers) \in Nat /\ semaphore \in Nat
  BY <1>0, LenProperties DEF TypeOK
<1>2. StopQueued => Len(returned_buffers) > 0
  BY <1>0, <1>1, EmptySeq DEF TypeOK, Holding
<1>3. ASSUME worker_pc = "push" PROVE Len(prepared_buffers) < Capacity
  BY <1>0, <1>1, <1>2, <1>3 DEF Holding, NoBufferLost, WorkerOwns, One
<1>4. ASSUME io_pc = "push" PROVE Len(returned_buffers) < Capacity
  <2>1. ~StopQueued /\ owner_pc # "destroyed" /\ IoOwns
    BY <1>0, <1>4 DEF Holding, StopQueued, IoOwns
  <2> QED
    BY <1>0, <1>1, <2>1 DEF NoBufferLost, One
<1>5. ASSUME worker_pc = "pop" PROVE returned_buffers # <<>>
  <2>1. Len(returned_buffers) > 0
    BY <1>0, <1>1, <1>5 DEF SemaphoreCounts, One
  <2> QED
    BY <2>1, EmptySeq
<1> QED
  BY <1>3, <1>4, <1>5 DEF LoopsNeverSpin

LEMMA CountedInvariant == Spec => [](Typed /\ Counted)
<1>1. Init => Typed /\ Counted
  BY TypedInit, CountedInit
<1>2. Typed /\ Counted /\ [Next]_vars => (Typed /\ Counted)'
  BY TypedStep, CountedStep
<1> QED
  BY <1>1, <1>2, PTL DEF Spec

(***************************************************************************)
(* "If we got a buffer, there must be room to push the buffer, so this     *)
(* loop can't wait forever" (output_worker_thread.cpp:73), and the same    *)
(* of releaseBuffer on the I/O thread and of the pop after the semaphore.  *)
(***************************************************************************)
THEOREM QueueLoopsNeverSpin == Spec => []LoopsNeverSpin
  BY CountedInvariant, CountedNeverSpins, PTL

(***************************************************************************)
(* Buffers are conserved until the destructor deletes them.                *)
(***************************************************************************)
THEOREM BuffersConserved == Spec => []NoBufferLost
  BY CountedInvariant, PTL DEF Counted

-----------------------------------------------------------------------------
(***************************************************************************)
(* Ownership.  A buffer that changes hands leaves the place it came from.  *)
(***************************************************************************)
LEMMA OneOwnerInit == Init => OneOwner
  BY DEF Init, OneOwner, Queued, WorkerOwns, IoOwns

LEMMA OneOwnerStep == Typed /\ OneOwner /\ [Next]_vars => OneOwner'
<1>0. SUFFICES ASSUME TypeOK, StopIsLast, Holding, OneOwner, [Next]_vars PROVE OneOwner'
  BY DEF Typed
<1>a. Len(returned_buffers) \in Nat /\ Len(prepared_buffers) \in Nat
  BY <1>0, LenProperties DEF TypeOK
<1> USE DEF queues, shared, contents, workerVars, ioVars, copyVars, callVars, ownerVars
<1>1. CASE WorkerPop
  <2> DEFINE q == returned_buffers
  <2>1. /\ Len(Tail(q)) = Len(q) - 1 /\ Len(q) >= 1 /\ Head(q) = q[1]
        /\ \A i \in 1 .. Len(q) - 1 : Tail(q)[i] = q[i + 1]
        /\ Head(q) \in Buffers \cup {Stop}
    BY <1>0, <1>1, TailFacts DEF WorkerPop, TypeOK
  <2>2. ~WorkerOwns
    BY <1>1 DEF WorkerPop, WorkerOwns
  <2> QED
    BY <1>0, <1>1, <1>a, <2>1, <2>2 DEF WorkerPop, OneOwner, Queued, IoOwns
<1>2. CASE WorkerPush
  <2> DEFINE q == Append(prepared_buffers, worker_cmd)
  <2>1. /\ Len(q) = Len(prepared_buffers) + 1
        /\ \A i \in 1 .. Len(prepared_buffers) : q[i] = prepared_buffers[i]
        /\ q[Len(prepared_buffers) + 1] = worker_cmd
    BY <1>0, <1>2, AppendFacts DEF WorkerPush, TypeOK, Holding
  <2>2. WorkerOwns /\ ~WorkerOwns'
    BY <1>2 DEF WorkerPush, WorkerOwns
  <2> QED
    BY <1>0, <1>2, <1>a, <2>1, <2>2 DEF WorkerPush, OneOwner, Queued, IoOwns
<1>3. CASE IoAcquire
  <2> DEFINE q == prepared_buffers
  <2>1. /\ Len(Tail(q)) = Len(q) - 1 /\ Len(q) >= 1 /\ Head(q) = q[1]
        /\ \A i \in 1 .. Len(q) - 1 : Tail(q)[i] = q[i + 1]
    BY <1>0, <1>3, TailFacts DEF IoAcquire, TypeOK
  <2>2. ~IoOwns
    BY <1>3 DEF IoAcquire, IoOwns
  <2> QED
    BY <1>0, <1>3, <1>a, <2>1, <2>2 DEF IoAcquire, OneOwner, Queued, WorkerOwns
<1>4. CASE IoPush
  <2> DEFINE q == Append(returned_buffers, current_buffer)
  <2>1. /\ Len(q) = Len(returned_buffers) + 1
        /\ \A i \in 1 .. Len(returned_buffers) : q[i] = returned_buffers[i]
        /\ q[Len(returned_buffers) + 1] = current_buffer
    BY <1>0, <1>4, AppendFacts DEF IoPush, TypeOK, Holding
  <2>2. IoOwns /\ ~IoOwns'
    BY <1>0, <1>4 DEF IoPush, IoOwns, Holding
  <2> QED
    BY <1>0, <1>4, <1>a, <2>1, <2>2 DEF IoPush, OneOwner, Queued, WorkerOwns
<1>5. CASE OwnerPushStop
  <2> DEFINE q == Append(returned_buffers, Stop)
  <2>1. /\ Len(q) = Len(returned_buffers) + 1
        /\ \A i \in 1 .. Len(returned_buffers) : q[i] = returned_buffers[i]
        /\ q[Len(returned_buffers) + 1] = Stop
    BY <1>0, <1>5, AppendFacts DEF OwnerPushStop, TypeOK
  <2>2. \A i \in 1 .. Len(returned_buffers) : returned_buffers[i] # Stop
    BY <1>0, <1>5 DEF OwnerPushStop, StopIsLast, StopQueued
  <2>3. \A i \in 1 .. Len(prepared_buffers) : prepared_buffers[i] # Stop
    <3>1. \A i \in 1 .. Len(prepared_buffers) : prepared_buffers[i] \in Buffers
      BY <1>0, ElementOfSeq DEF TypeOK
    <3> QED
      BY <3>1
  <2>4. (WorkerOwns => worker_cmd # Stop) /\ (IoOwns => current_buffer # Stop)
    BY <1>0 DEF TypeOK, Holding, WorkerOwns, IoOwns
  <2>5. WorkerOwns' = WorkerOwns /\ IoOwns' = IoOwns
    BY <1>5 DEF OwnerPushStop, WorkerOwns, IoOwns
  <2> QED
    BY <1>0, <1>5, <1>a, <2>1, <2>2, <2>3, <2>4, <2>5 DEF OwnerPushStop, OneOwner, Queued
<1>6. CASE OwnerDrain
  BY <1>0, <1>6 DEF OwnerDrain, OneOwner, Queued, WorkerOwns, Holding, IoOwns
<1>7. ASSUME UNCHANGED queues, WorkerOwns' => WorkerOwns /\ worker_cmd' = worker_cmd,
             IoOwns' => IoOwns /\ current_buffer' = current_buffer
      PROVE  OneOwner'
  BY <1>0, <1>7 DEF OneOwner, Queued
<1>8. CASE WorkerWait \/ WorkerMix \/ WorkerCount
  BY <1>7, <1>8 DEF WorkerWait, WorkerMix, WorkerCount, WorkerOwns, IoOwns
<1>9. CASE IoAwaitInitialMix \/ (\E n \in 0 .. MaxRequest : IoWrite(n)) \/ IoUnderrun
             \/ IoCopy \/ IoSignal \/ IoLeave
  BY <1>7, <1>9 DEF IoAwaitInitialMix, IoWrite, IoUnderrun, IoCopy, IoSignal, IoLeave,
                    AfterHelper, WorkerOwns, IoOwns
<1>10. CASE OwnerDestroy \/ OwnerSignal \/ OwnerJoin \/ UNCHANGED vars
  BY <1>7, <1>10 DEF OwnerDestroy, OwnerSignal, OwnerJoin, vars, WorkerOwns, IoOwns
<1> QED
  BY <1>0, <1>1, <1>2, <1>3, <1>4, <1>5, <1>6, <1>8, <1>9, <1>10
  DEF Next, Worker, Io, IoStep, Owner, OwnerStep, Destroyed

(***************************************************************************)
(* No two threads ever touch one buffer's samples at once, and no buffer   *)
(* is in a queue twice.                                                    *)
(***************************************************************************)
THEOREM BuffersHaveOneOwner == Spec => []OneOwner
<1>1. Init => Typed /\ OneOwner
  BY TypedInit, OneOwnerInit
<1>2. Typed /\ OneOwner /\ [Next]_vars => (Typed /\ OneOwner)'
  BY TypedStep, OneOwnerStep
<1> QED
  BY <1>1, <1>2, PTL DEF Spec

\* Every buffer is in exactly one place: in a queue, with the worker or with the
\* I/O thread.
THEOREM BuffersCirculate == Spec => []EachBufferOnce
  BY BuffersConserved, BuffersHaveOneOwner, PTL DEF EachBufferOnce

-----------------------------------------------------------------------------
(***************************************************************************)
(* The stream.  The buffers, in the order the I/O thread will see them,    *)
(* form a chain of blocks that ends at next_frame; WorkerPush adds a link, *)
(* IoAcquire makes the first link the current buffer, IoSignal drops it.   *)
(***************************************************************************)
Streamed == UsedCounts /\ StreamInOrder /\ StreamEnd

LEMMA StreamedInit == Init => Streamed
  BY DEF Init, Streamed, UsedCounts, StreamInOrder, StreamEnd, Produced, IoOwns

LEMMA StreamedStep == Typed /\ OneOwner /\ Streamed /\ [Next]_vars => Streamed'
<1>0. SUFFICES ASSUME TypeOK, Holding, OneOwner, UsedCounts, StreamInOrder, StreamEnd,
                      [Next]_vars
               PROVE  Streamed'
  BY DEF Typed, Streamed
<1>a. /\ Len(prepared_buffers) \in Nat
      /\ \A i \in 1 .. Len(prepared_buffers) : prepared_buffers[i] \in Buffers
      /\ prepared_buffers # <<>> => Len(prepared_buffers) >= 1
      /\ used \in [Buffers -> 0 .. destination_frames] /\ data \in [Buffers -> Nat]
      /\ next_frame \in Nat /\ delivered \in Nat
  <2>1. prepared_buffers \in Seq(Buffers)
    BY <1>0 DEF TypeOK
  <2>2. \A i \in 1 .. Len(prepared_buffers) : prepared_buffers[i] \in Buffers
    BY <2>1, ElementOfSeq
  <2>3. prepared_buffers # <<>> => Len(prepared_buffers) >= 1
    BY <2>1, EmptySeq
  <2> QED
    BY <1>0, <2>1, <2>2, <2>3, LenProperties DEF TypeOK
<1> USE DEF queues, shared, contents, workerVars, ioVars, copyVars, callVars, ownerVars, Streamed
<1>1. CASE WorkerMix
  <2>1. /\ worker_cmd \in Buffers /\ WorkerOwns
        /\ \A i \in 1 .. Len(prepared_buffers) : prepared_buffers[i] # worker_cmd
        /\ IoOwns => current_buffer # worker_cmd
    BY <1>0, <1>1 DEF WorkerMix, Holding, WorkerOwns, OneOwner, Queued
  <2>2. /\ \A b \in Buffers \ {worker_cmd} : used'[b] = used[b] /\ data'[b] = data[b]
        /\ used'[worker_cmd] = 0 /\ data'[worker_cmd] = next_frame
    BY <1>1, <1>a, <2>1 DEF WorkerMix
  <2>3. IoOwns' = IoOwns /\ (IoOwns => current_buffer \in Buffers)
    BY <1>0, <1>1 DEF WorkerMix, IoOwns, TypeOK
  <2>4. UsedCounts'
    BY <1>0, <1>1, <1>a, <2>1, <2>2, <2>3 DEF WorkerMix, UsedCounts, IoOwns, Holding
  <2>5. StreamInOrder'
    <3>1. UNCHANGED <<prepared_buffers, current_buffer, delivered>>
      BY <1>1 DEF WorkerMix
    <3>2. \A i \in 1 .. Len(prepared_buffers) :
            data'[prepared_buffers[i]] = data[prepared_buffers[i]]
      BY <1>a, <2>1, <2>2
    <3>3. IoOwns => data'[current_buffer] = data[current_buffer]
                    /\ used'[current_buffer] = used[current_buffer]
      BY <2>1, <2>2, <2>3
    <3>4. \A i \in 1 .. Len(prepared_buffers) :
            i > 1 => data'[prepared_buffers[i - 1]] = data[prepared_buffers[i - 1]]
      BY <1>a, <3>2
    <3> QED
      BY <1>0, <2>3, <3>1, <3>2, <3>3, <3>4 DEF StreamInOrder
  <2>6. StreamEnd'
    BY <1>0, <1>1, <1>a, <2>1, <2>2, <2>3 DEF WorkerMix, StreamEnd, Produced
  <2> QED
    BY <2>4, <2>5, <2>6
<1>2. CASE WorkerPush
  <2> DEFINE q == Append(prepared_buffers, worker_cmd)
  <2>1. /\ Len(q) = Len(prepared_buffers) + 1
        /\ \A i \in 1 .. Len(prepared_buffers) : q[i] = prepared_buffers[i]
        /\ q[Len(prepared_buffers) + 1] = worker_cmd /\ q # <<>>
        /\ worker_cmd \in Buffers
    <3>1. worker_cmd \in Buffers /\ prepared_buffers \in Seq(Buffers)
      BY <1>0, <1>2 DEF WorkerPush, TypeOK, Holding
    <3> QED
      BY <3>1, AppendFacts
  <2>2. IoOwns' = IoOwns /\ owner_pc # "destroyed"
    BY <1>0, <1>2 DEF WorkerPush, IoOwns, Holding
  <2>3. UsedCounts'
    BY <1>0, <1>2, <1>a, <2>1 DEF WorkerPush, UsedCounts
  <2>4. StreamInOrder'
    <3>1. data[worker_cmd] = IF Len(q) > 1 THEN data[q[Len(q) - 1]] + destination_frames
                             ELSE IF IoOwns THEN data[current_buffer] + destination_frames
                             ELSE delivered
      BY <1>0, <1>2, <1>a, <2>1, <2>2, EmptySeq DEF WorkerPush, StreamEnd, Produced
    <3> QED
      <4>1. prepared_buffers' = q /\ UNCHANGED <<current_buffer, contents, delivered>>
        BY <1>2 DEF WorkerPush
      <4>2. \A i \in 1 .. Len(q) : i > 1 => q[i - 1] = prepared_buffers[i - 1]
        BY <1>a, <2>1
      <4>3. \A i \in 1 .. Len(q) : i \in 1 .. Len(prepared_buffers) \/ i = Len(q)
        BY <1>a, <2>1
      <4> QED
        BY <1>0, <2>1, <2>2, <3>1, <4>1, <4>2, <4>3 DEF StreamInOrder
  <2>5. StreamEnd'
    BY <1>0, <1>2, <1>a, <2>1, <2>2 DEF WorkerPush, StreamEnd, Produced
  <2> QED
    BY <2>3, <2>4, <2>5
<1>3. CASE IoAcquire
  <2> DEFINE q == prepared_buffers
  <2>1. /\ Len(Tail(q)) = Len(q) - 1 /\ Len(q) >= 1 /\ Head(q) = q[1]
        /\ \A i \in 1 .. Len(q) - 1 : Tail(q)[i] = q[i + 1]
        /\ Head(q) \in Buffers /\ Tail(q) \in Seq(Buffers)
        /\ Len(q) = 1 => Tail(q) = <<>>
    BY <1>0, <1>3, TailFacts DEF IoAcquire, TypeOK
  <2>2. ~IoOwns /\ IoOwns'
    BY <1>3, <2>1 DEF IoAcquire, IoOwns
  <2>3. UsedCounts'
    BY <1>0, <1>3, <1>a, <2>1 DEF IoAcquire, UsedCounts
  <2>4. data[Head(q)] = delivered /\ used[Head(q)] = 0
    BY <1>0, <1>a, <2>1, <2>2 DEF StreamInOrder, UsedCounts
  <2>5. StreamInOrder'
    <3>1. /\ prepared_buffers' = Tail(q) /\ current_buffer' = Head(q)
          /\ UNCHANGED <<contents, delivered>>
      BY <1>3 DEF IoAcquire
    <3>2. \A i \in 1 .. Len(Tail(q)) : data[q[i + 1]] = data[q[i]] + destination_frames
      <4> SUFFICES ASSUME NEW i \in 1 .. Len(Tail(q))
                   PROVE  data[q[i + 1]] = data[q[i]] + destination_frames
        OBVIOUS
      <4>1. i + 1 \in 1 .. Len(q) /\ i + 1 > 1 /\ (i + 1) - 1 = i
        BY <1>a, <2>1
      <4> QED
        BY <1>0, <4>1 DEF StreamInOrder
    <3>3. \A i \in 1 .. Len(Tail(q)) :
            Tail(q)[i] = q[i + 1] /\ q[i] = IF i > 1 THEN Tail(q)[i - 1] ELSE Head(q)
      <4> SUFFICES ASSUME NEW i \in 1 .. Len(Tail(q))
                   PROVE  /\ Tail(q)[i] = q[i + 1]
                          /\ q[i] = IF i > 1 THEN Tail(q)[i - 1] ELSE Head(q)
        OBVIOUS
      <4>1. i \in 1 .. Len(q) - 1 /\ (i > 1 => i - 1 \in 1 .. Len(q) - 1 /\ (i - 1) + 1 = i)
        BY <1>a, <2>1
      <4>2. i > 1 \/ i = 1
        OBVIOUS
      <4> QED
        BY <2>1, <4>1, <4>2
    <3>4. \A i \in 1 .. Len(Tail(q)) :
            data[Tail(q)[i]] = IF i > 1 THEN data[Tail(q)[i - 1]] + destination_frames
                                        ELSE data[Head(q)] + destination_frames
      BY <3>2, <3>3
    <3>5. data[Head(q)] + used[Head(q)] = delivered
      BY <1>a, <2>4
    <3> QED
      BY <2>2, <3>1, <3>4, <3>5 DEF StreamInOrder
  <2>6. StreamEnd'
    <3>1. Tail(q) # <<>> => Len(Tail(q)) >= 1 /\ Tail(q)[Len(Tail(q))] = q[Len(q)]
      BY <1>a, <2>1, EmptySeq
    <3>2. Tail(q) = <<>> => q[Len(q)] = Head(q)
      <4>1. Len(q) # 1 => Len(Tail(q)) # 0
        BY <1>a, <2>1
      <4>2. Len(<<>>) = 0
        OBVIOUS
      <4> QED
        BY <2>1, <4>1, <4>2
    <3> QED
      BY <1>0, <1>3, <2>2, <3>1, <3>2 DEF IoAcquire, StreamEnd, Produced
  <2> QED
    BY <2>3, <2>5, <2>6
<1>4. CASE IoCopy
  <2> DEFINE start     == used[current_buffer]
             willWrite == WillWrite(destination_frames - start)
  <2>1. /\ IoOwns /\ IoOwns' /\ current_buffer \in Buffers
        /\ \A i \in 1 .. Len(prepared_buffers) : prepared_buffers[i] # current_buffer
        /\ WorkerOwns => worker_cmd # current_buffer
    BY <1>0, <1>4 DEF IoCopy, AfterHelper, IoOwns, OneOwner, Queued, TypeOK
  <2>2. willWrite \in Nat /\ start + willWrite \in 0 .. destination_frames /\ start \in Nat
    <3>1. start \in 0 .. destination_frames /\ count \in Nat
      BY <1>0, <1>a, <2>1 DEF TypeOK
    <3> QED
      BY <3>1, WillWriteRange
  <2> HIDE DEF willWrite
  <2>3. /\ used' = [used EXCEPT ![current_buffer] = start + willWrite]
        /\ delivered' = delivered + willWrite
        /\ io_pc' = "push" => start + willWrite = destination_frames
        /\ UNCHANGED <<queues, data, workerVars, current_buffer, ownerVars>>
    BY <1>4 DEF IoCopy, AfterHelper, UsedUp, willWrite
  <2>4. /\ \A b \in Buffers \ {current_buffer} : used'[b] = used[b]
        /\ used'[current_buffer] = start + willWrite
    BY <1>a, <2>1, <2>3
  <2>5. UsedCounts'
    BY <1>0, <1>a, <2>1, <2>3, <2>4 DEF UsedCounts, WorkerOwns, Holding
  <2>6. StreamInOrder'
    <3>1. data[current_buffer] + (start + willWrite) = delivered'
      <4>1. data[current_buffer] + start = delivered /\ data[current_buffer] \in Nat
        BY <1>0, <1>a, <2>1 DEF StreamInOrder
      <4>2. delivered' = delivered + willWrite
        BY <2>3
      <4> HIDE DEF start
      <4> QED
        BY <2>2, <4>1, <4>2
    <3> QED
      BY <1>0, <2>1, <2>3, <2>4, <3>1 DEF StreamInOrder
  <2>7. StreamEnd'
    BY <1>0, <1>a, <2>1, <2>2, <2>3, <2>4 DEF StreamEnd, Produced
  <2> QED
    BY <2>5, <2>6, <2>7
<1>5. CASE IoPush
  <2>1. /\ IoOwns /\ ~IoOwns' /\ current_buffer \in Buffers
        /\ used[current_buffer] = destination_frames
    BY <1>0, <1>5 DEF IoPush, IoOwns, UsedCounts, Holding
  <2>2. data[current_buffer] + destination_frames = delivered
    BY <1>0, <2>1 DEF StreamInOrder
  <2>3. UsedCounts'
    BY <1>0, <1>5 DEF IoPush, UsedCounts
  <2>4. StreamInOrder'
    BY <1>0, <1>5, <2>1, <2>2 DEF IoPush, StreamInOrder
  <2>5. StreamEnd'
    BY <1>0, <1>5, <2>1, <2>2 DEF IoPush, StreamEnd, Produced
  <2> QED
    BY <2>3, <2>4, <2>5
<1>6. CASE OwnerDrain
  BY <1>0, <1>6, <1>a DEF OwnerDrain, UsedCounts, StreamInOrder, StreamEnd, Produced,
                          IoOwns, Holding
<1>7. ASSUME UNCHANGED <<prepared_buffers, contents, next_frame, delivered>>,
             worker_pc' = "push" <=> worker_pc = "push",
             worker_pc = "push" => worker_cmd' = worker_cmd,
             io_pc' # "push" \/ io_pc' = io_pc,
             IoOwns' = IoOwns, IoOwns => current_buffer' = current_buffer,
             owner_pc' # "destroyed" => owner_pc # "destroyed",
             io_pc = "push" => IoOwns
      PROVE  Streamed'
  <2>1. UsedCounts'
    BY <1>0, <1>7 DEF UsedCounts
  <2>2. StreamInOrder'
    BY <1>0, <1>7 DEF StreamInOrder
  <2>3. StreamEnd'
    BY <1>0, <1>7 DEF StreamEnd, Produced
  <2> QED
    BY <2>1, <2>2, <2>3
<1>b. io_pc = "push" => IoOwns
  BY <1>0 DEF Holding, IoOwns
<1>8. CASE WorkerWait \/ WorkerPop \/ WorkerCount
  BY <1>7, <1>8, <1>b DEF WorkerWait, WorkerPop, WorkerCount, IoOwns
<1>9. CASE IoAwaitInitialMix \/ (\E n \in 0 .. MaxRequest : IoWrite(n)) \/ IoUnderrun
             \/ IoSignal \/ IoLeave
  BY <1>0, <1>7, <1>9, <1>b DEF IoAwaitInitialMix, IoWrite, IoUnderrun, IoSignal, IoLeave,
                          AfterHelper, IoOwns, Holding
<1>10. CASE OwnerDestroy \/ OwnerPushStop \/ OwnerSignal \/ OwnerJoin \/ UNCHANGED vars
  BY <1>7, <1>10, <1>b DEF OwnerDestroy, OwnerPushStop, OwnerSignal, OwnerJoin, vars, IoOwns
<1> QED
  BY <1>0, <1>1, <1>2, <1>3, <1>4, <1>5, <1>6, <1>8, <1>9, <1>10
  DEF Next, Worker, Io, IoStep, Owner, OwnerStep, Destroyed

LEMMA StreamedInvariant == Spec => [](Typed /\ OneOwner /\ Streamed)
<1>1. Init => Typed /\ OneOwner /\ Streamed
  BY TypedInit, OneOwnerInit, StreamedInit
<1>2. Typed /\ OneOwner /\ Streamed /\ [Next]_vars => (Typed /\ OneOwner /\ Streamed)'
  BY TypedStep, OneOwnerStep, StreamedStep
<1> QED
  BY <1>1, <1>2, PTL DEF Spec

(***************************************************************************)
(* Whatever the backend asks for, it gets the converter's frames in order, *)
(* none lost and none twice.                                               *)
(***************************************************************************)
THEOREM FramesInOrder == Spec => []StreamInOrder
  BY StreamedInvariant, PTL DEF Streamed

-----------------------------------------------------------------------------
(***************************************************************************)
(* The initial mix.  Until the first write no buffer leaves                *)
(* prepared_buffers, so mixed counts them.                                 *)
(***************************************************************************)
LEMMA MixCountsInit == Init => MixCounts
  BY DEF Init, MixCounts, One

LEMMA MixCountsStep == Typed /\ Counted /\ MixCounts /\ [Next]_vars => MixCounts'
<1>0. SUFFICES ASSUME TypeOK, Holding, NoBufferLost, MixCounts, [Next]_vars PROVE MixCounts'
  BY DEF Typed, Counted
<1>a. /\ Len(prepared_buffers) \in Nat /\ Len(returned_buffers) \in Nat
      /\ mixed \in 0 .. mixahead /\ calls \in Nat /\ finished_initial_mix \in {0, 1}
  BY <1>0, LenProperties DEF TypeOK
<1> USE DEF queues, shared, contents, workerVars, ioVars, copyVars, callVars, ownerVars, One
<1>1. CASE WorkerPush
  <2>1. Len(Append(prepared_buffers, worker_cmd)) = Len(prepared_buffers) + 1
    BY <1>0, <1>1, AppendFacts DEF WorkerPush, TypeOK, Holding
  <2> QED
    BY <1>0, <1>1, <1>a, <2>1 DEF WorkerPush, MixCounts
<1>2. CASE WorkerCount
  <2>1. CASE owner_pc = "using"
    <3>1. Len(prepared_buffers) <= mixahead
      BY <1>0, <1>a, <2>1 DEF NoBufferLost, StopQueued
    <3> QED
      BY <1>0, <1>2, <1>a, <3>1 DEF WorkerCount, MixCounts
  <2>2. CASE owner_pc # "using"
    BY <1>0, <1>2, <1>a, <2>2 DEF WorkerCount, MixCounts, Holding
  <2> QED
    BY <2>1, <2>2
<1>3. CASE IoAwaitInitialMix
  BY <1>0, <1>3, <1>a DEF IoAwaitInitialMix, MixCounts
<1>4. ASSUME NEW n \in 0 .. MaxRequest, IoWrite(n) PROVE MixCounts'
  BY <1>0, <1>4, <1>a DEF IoWrite, MixCounts
<1>5. CASE IoStep
  BY <1>0, <1>5, <1>a DEF IoStep, IoAcquire, IoUnderrun, IoCopy, IoPush, IoSignal,
                          AfterHelper, MixCounts
<1>6. CASE OwnerDrain
  BY <1>0, <1>6 DEF OwnerDrain, MixCounts, Holding
<1>7. CASE WorkerWait \/ WorkerPop \/ WorkerMix \/ IoLeave \/ OwnerDestroy \/ OwnerPushStop
             \/ OwnerSignal \/ OwnerJoin \/ UNCHANGED vars
  BY <1>0, <1>7 DEF WorkerWait, WorkerPop, WorkerMix, IoLeave, OwnerDestroy, OwnerPushStop,
                    OwnerSignal, OwnerJoin, vars, MixCounts
<1> QED
  BY <1>0, <1>1, <1>2, <1>3, <1>4, <1>5, <1>6, <1>7
  DEF Next, Worker, Io, Owner, OwnerStep, Destroyed

(***************************************************************************)
(* awaitInitialMix returns only once all mixahead buffers are prepared.    *)
(***************************************************************************)
THEOREM InitialMixCompletes == Spec => []InitialMixIsReady
<1>1. Init => Typed /\ Counted /\ MixCounts
  BY TypedInit, CountedInit, MixCountsInit
<1>2. Typed /\ Counted /\ MixCounts /\ [Next]_vars => (Typed /\ Counted /\ MixCounts)'
  BY TypedStep, CountedStep, MixCountsStep
<1>3. Typed /\ Counted /\ MixCounts => InitialMixIsReady
  <2> SUFFICES ASSUME Typed, Counted, MixCounts, io_pc = "ready", calls = 0
               PROVE  Len(prepared_buffers) = mixahead
    BY DEF InitialMixIsReady
  <2>1. /\ owner_pc = "using" /\ finished_initial_mix = 1
        /\ Len(prepared_buffers) \in Nat /\ Len(returned_buffers) \in Nat
    BY LenProperties DEF Typed, TypeOK, Holding, MixCounts
  <2>2. Len(prepared_buffers) <= mixahead
    BY <2>1 DEF Counted, NoBufferLost, StopQueued, One
  <2> QED
    BY <2>1, <2>2 DEF MixCounts, One
<1> QED
  BY <1>1, <1>2, <1>3, PTL DEF Spec

-----------------------------------------------------------------------------
(***************************************************************************)
(* Refinement.  Pending says how many frames the abstract stream still     *)
(* holds; the counting invariant bounds it by mixahead blocks.             *)
(***************************************************************************)
LEMMA Blocks ==
  ASSUME NEW n \in Nat
  PROVE  /\ n * destination_frames \in Nat
         /\ (n + 1) * destination_frames = n * destination_frames + destination_frames
  OBVIOUS

LEMMA MoreBlocks ==
  ASSUME NEW m \in Nat, NEW n \in Nat, m <= n
  PROVE  m * destination_frames <= n * destination_frames
<1>1. (n - m) * destination_frames >= 0
  OBVIOUS
<1>2. (n - m) * destination_frames = n * destination_frames - m * destination_frames
  OBVIOUS
<1> QED
  BY <1>1, <1>2

LEMMA PendingInit == Init => Pending
  BY DEF Init, Pending, Produced, IoOwns

LEMMA PendingStep == Typed /\ OneOwner /\ Streamed /\ Pending /\ [Next]_vars => Pending'
<1>0. SUFFICES ASSUME TypeOK, Holding, OneOwner, UsedCounts, Pending, [Next]_vars
               PROVE  Pending'
  BY DEF Typed, Streamed
<1>a. /\ Len(prepared_buffers) \in Nat /\ next_frame \in Nat /\ delivered \in Nat
      /\ prepared_buffers \in Seq(Buffers)
      /\ used \in [Buffers -> 0 .. destination_frames]
  BY <1>0, LenProperties DEF TypeOK
<1> DEFINE rest  == IF IoOwns THEN destination_frames - used[current_buffer] ELSE 0
           held  == Len(prepared_buffers) * destination_frames
<1>b. held \in Nat
  BY <1>a, Blocks
<1>c. owner_pc # "destroyed" => Produced = delivered + held + rest
  BY <1>0 DEF Pending
<1>d. ASSUME owner_pc' # "destroyed" => owner_pc # "destroyed",
             Produced' = Produced, delivered' = delivered, held' = held, rest' = rest
      PROVE  Pending'
  BY <1>c, <1>d DEF Pending
<1> USE DEF queues, shared, contents, workerVars, ioVars, copyVars, callVars, ownerVars
<1>1. CASE WorkerMix
  <2>1. rest' = rest
    BY <1>0, <1>1, <1>a DEF WorkerMix, Holding, TypeOK, OneOwner, WorkerOwns, IoOwns
  <2>2. Produced' = Produced
    BY <1>1, <1>a DEF WorkerMix, Produced
  <2> QED
    BY <1>1, <1>d, <2>1, <2>2 DEF WorkerMix
<1>2. CASE WorkerPush
  <2>1. Len(Append(prepared_buffers, worker_cmd)) = Len(prepared_buffers) + 1
    BY <1>0, <1>2, <1>a, AppendFacts DEF WorkerPush, Holding
  <2>2. held' = held + destination_frames
    BY <1>2, <1>a, <2>1, Blocks DEF WorkerPush
  <2>3. Produced' = Produced + destination_frames /\ Produced \in Int
    BY <1>2, <1>a DEF WorkerPush, Produced
  <2>4. rest' = rest /\ rest \in Int /\ delivered' = delivered /\ owner_pc # "destroyed"
    BY <1>0, <1>2, <1>a DEF WorkerPush, IoOwns, TypeOK, Holding
  <2>5. Produced' = delivered' + held' + rest'
    <3> HIDE DEF held, rest
    <3> QED
      BY <1>a, <1>b, <1>c, <2>2, <2>3, <2>4
  <2> QED
    BY <2>5 DEF Pending
<1>3. CASE IoAcquire
  <2>1. /\ Len(prepared_buffers) >= 1 /\ Head(prepared_buffers) = prepared_buffers[1]
        /\ Head(prepared_buffers) \in Buffers
        /\ Len(Tail(prepared_buffers)) = Len(prepared_buffers) - 1
    BY <1>3, <1>a, TailFacts DEF IoAcquire
  <2>2. used[prepared_buffers[1]] = 0
    BY <1>0, <1>a, <2>1 DEF UsedCounts
  <2>3. held = held' + destination_frames /\ held' \in Nat
    <3>1. Len(prepared_buffers') \in Nat /\ Len(prepared_buffers) = Len(prepared_buffers') + 1
      BY <1>3, <1>a, <2>1 DEF IoAcquire
    <3> QED
      BY <3>1, Blocks
  <2>4. rest = 0 /\ rest' = destination_frames
    BY <1>3, <2>1, <2>2 DEF IoAcquire, IoOwns
  <2>5. Produced' = Produced /\ delivered' = delivered /\ owner_pc' = owner_pc
    BY <1>3 DEF IoAcquire, Produced
  <2>6. owner_pc' # "destroyed" => Produced' = delivered' + held' + rest'
    <3> HIDE DEF held, rest
    <3> QED
      BY <1>a, <1>b, <1>c, <2>3, <2>4, <2>5
  <2> QED
    BY <2>6 DEF Pending
<1>4. CASE IoCopy
  <2> DEFINE start     == used[current_buffer]
             willWrite == WillWrite(destination_frames - start)
  <2>1. /\ IoOwns /\ IoOwns' /\ start \in 0 .. destination_frames /\ count \in Nat
        /\ current_buffer \in Buffers
    BY <1>0, <1>4, <1>a DEF IoCopy, AfterHelper, IoOwns, TypeOK
  <2>2. willWrite \in Nat
    BY <2>1, WillWriteRange
  <2> HIDE DEF willWrite
  <2>3. /\ used' = [used EXCEPT ![current_buffer] = start + willWrite]
        /\ delivered' = delivered + willWrite
        /\ UNCHANGED <<queues, workerVars, current_buffer, ownerVars>>
    BY <1>4 DEF IoCopy, willWrite
  <2>4. rest = destination_frames - start /\ rest' = destination_frames - (start + willWrite)
    BY <1>a, <2>1, <2>3
  <2>5. Produced' = Produced /\ held' = held /\ owner_pc' = owner_pc
    BY <2>3 DEF Produced
  <2>6. owner_pc' # "destroyed" => Produced' = delivered' + held' + rest'
    <3> HIDE DEF held, rest, start
    <3> QED
      BY <1>a, <1>b, <1>c, <2>1, <2>2, <2>3, <2>4, <2>5
  <2> QED
    BY <2>6 DEF Pending
<1>5. CASE IoPush
  <2>1. rest = 0 /\ rest' = 0
    BY <1>0, <1>5 DEF IoPush, IoOwns, UsedCounts, Holding
  <2> QED
    BY <1>5, <1>d, <2>1 DEF IoPush, Produced
<1>6. CASE WorkerWait \/ WorkerPop \/ WorkerCount
  BY <1>6, <1>d DEF WorkerWait, WorkerPop, WorkerCount, Produced, IoOwns
<1>7. CASE IoAwaitInitialMix \/ (\E n \in 0 .. MaxRequest : IoWrite(n)) \/ IoUnderrun
             \/ IoSignal \/ IoLeave
  BY <1>0, <1>7, <1>d DEF IoAwaitInitialMix, IoWrite, IoUnderrun, IoSignal, IoLeave,
                          AfterHelper, Produced, IoOwns
<1>8. CASE OwnerDestroy \/ OwnerPushStop \/ OwnerSignal \/ OwnerJoin \/ UNCHANGED vars
  BY <1>8, <1>d DEF OwnerDestroy, OwnerPushStop, OwnerSignal, OwnerJoin, vars, Produced, IoOwns
<1>9. CASE OwnerDrain
  BY <1>9 DEF OwnerDrain, Pending
<1> QED
  BY <1>0, <1>1, <1>2, <1>3, <1>4, <1>5, <1>6, <1>7, <1>8, <1>9
  DEF Next, Worker, Io, IoStep, Owner, OwnerStep, Destroyed

LEMMA CallCountsInit == Init => CallCounts
  BY DEF Init, CallCounts, Produced, IoOwns

LEMMA CallCountsStep == Typed /\ OneOwner /\ Streamed /\ CallCounts /\ [Next]_vars => CallCounts'
<1>0. SUFFICES ASSUME TypeOK, Holding, OneOwner, UsedCounts, CallCounts, [Next]_vars
               PROVE  CallCounts'
  BY DEF Typed, Streamed
<1>a. /\ next_frame \in Nat /\ due \in Int /\ count \in Nat
      /\ prepared_buffers \in Seq(Buffers)
      /\ used \in [Buffers -> 0 .. destination_frames]
  BY <1>0 DEF TypeOK
<1> USE DEF queues, shared, contents, workerVars, ioVars, copyVars, callVars, ownerVars,
            CallCounts
<1>1. CASE WorkerMix
  <2>1. IoOwns => used'[current_buffer] = used[current_buffer]
    BY <1>0, <1>1, <1>a DEF WorkerMix, Holding, TypeOK, OneOwner, WorkerOwns, IoOwns
  <2>2. Produced' = Produced
    BY <1>1, <1>a DEF WorkerMix, Produced
  <2> QED
    BY <1>0, <1>1, <2>1, <2>2 DEF WorkerMix, IoOwns
<1>2. CASE WorkerPush
  BY <1>0, <1>2, <1>a DEF WorkerPush, Produced, IoOwns
<1>3. CASE IoAcquire
  <2>1. Head(prepared_buffers) = prepared_buffers[1] /\ Len(prepared_buffers) >= 1
        /\ Len(prepared_buffers) \in Nat
    BY <1>3, <1>a, TailFacts DEF IoAcquire
  <2>2. used[Head(prepared_buffers)] = 0
    BY <1>0, <2>1 DEF UsedCounts
  <2> QED
    BY <1>0, <1>3, <2>2 DEF IoAcquire, Produced, IoOwns
<1>4. CASE IoCopy
  <2> DEFINE start     == used[current_buffer]
             willWrite == WillWrite(destination_frames - start)
  <2>1. /\ IoOwns /\ current_buffer \in Buffers
        /\ start \in 0 .. destination_frames
        /\ start < destination_frames \/ destination_frames = 0
    BY <1>0, <1>4, <1>a DEF IoCopy, IoOwns, TypeOK
  <2>2. willWrite \in Nat /\ count - willWrite \in Nat /\ start + willWrite \in 0 .. destination_frames
    BY <1>a, <2>1, WillWriteRange
  <2>3. willWrite = 0 => count = 0 \/ destination_frames = 0
    BY <1>a, <2>1 DEF WillWrite
  <2> HIDE DEF willWrite
  <2>4. /\ used' = [used EXCEPT ![current_buffer] = start + willWrite]
        /\ io_pc' = IF start + willWrite = destination_frames THEN "push"
                                                   ELSE AfterHelper(willWrite)
        /\ writtenThisTime' = willWrite /\ count' = count - willWrite
        /\ UNCHANGED <<queues, data, workerVars, current_buffer, callVars>>
    BY <1>4 DEF IoCopy, UsedUp, willWrite
  <2>5. used'[current_buffer] = start + willWrite
    BY <1>a, <2>1, <2>4
  <2>6. writtenThisTime' = 0 => count' = 0 \/ destination_frames = 0
    BY <1>a, <2>3, <2>4
  <2>7. io_pc' # "push" => used'[current_buffer] < destination_frames
    <3> HIDE DEF start
    <3> QED
      BY <2>1, <2>2, <2>4, <2>5
  <2>8. Produced' = Produced
    BY <2>4 DEF Produced
  <2> QED
    BY <1>0, <2>4, <2>6, <2>7, <2>8
<1>5. CASE \E n \in 0 .. MaxRequest : IoWrite(n)
  BY <1>0, <1>5, <1>a DEF IoWrite, Produced, IoOwns
<1>6. CASE WorkerWait \/ WorkerPop \/ WorkerCount
  BY <1>0, <1>6 DEF WorkerWait, WorkerPop, WorkerCount, Produced, IoOwns
<1>7. CASE IoAwaitInitialMix \/ IoUnderrun \/ IoPush \/ IoSignal \/ IoLeave
  BY <1>0, <1>7 DEF IoAwaitInitialMix, IoUnderrun, IoPush, IoSignal, IoLeave, AfterHelper,
                    Produced, IoOwns, Holding
<1>8. CASE OwnerDestroy \/ OwnerPushStop \/ OwnerSignal \/ OwnerJoin \/ OwnerDrain
             \/ UNCHANGED vars
  BY <1>0, <1>8 DEF OwnerDestroy, OwnerPushStop, OwnerSignal, OwnerJoin, OwnerDrain, vars,
                    Produced, IoOwns
<1> QED
  BY <1>0, <1>1, <1>2, <1>3, <1>4, <1>5, <1>6, <1>7, <1>8
  DEF Next, Worker, Io, IoStep, Owner, OwnerStep, Destroyed

LEMMA InductiveInvariant == Spec => []IInv
<1>1. Init => IInv
  BY TypedInit, CountedInit, OneOwnerInit, StreamedInit, PendingInit, MixCountsInit,
     CallCountsInit
  DEF IInv, Typed, Counted, Streamed
<1>2. IInv /\ [Next]_vars => IInv'
  BY TypedStep, CountedStep, OneOwnerStep, StreamedStep, PendingStep, MixCountsStep,
     CallCountsStep
  DEF IInv, Typed, Counted, Streamed
<1> QED
  BY <1>1, <1>2, PTL DEF Spec

LEMMA RoomForOneMore ==
  ASSUME IInv, worker_pc = "push"
  PROVE  Produced + destination_frames - delivered <= mixahead * destination_frames
<1> DEFINE blocks == Len(prepared_buffers) + One(IoOwns)
           rest   == IF IoOwns THEN destination_frames - used[current_buffer] ELSE 0
<1>1. /\ Len(prepared_buffers) \in Nat /\ Len(returned_buffers) \in Nat
      /\ StopQueued => Len(returned_buffers) >= 1
  BY LenProperties, EmptySeq DEF IInv, TypeOK, Holding
<1>2. owner_pc # "destroyed" /\ WorkerOwns
  BY DEF IInv, Holding, WorkerOwns
<1>3. blocks \in Nat /\ blocks + 1 <= mixahead
  BY <1>1, <1>2 DEF IInv, NoBufferLost, One
<1>4. (blocks + 1) * destination_frames <= mixahead * destination_frames
  BY <1>3, MoreBlocks
<1>5. (blocks + 1) * destination_frames = blocks * destination_frames + destination_frames
  BY <1>3, Blocks
<1>6. /\ rest \in Int /\ delivered \in Nat
      /\ Len(prepared_buffers) * destination_frames + rest <= blocks * destination_frames
  <2>1. CASE IoOwns
    <3>1. used[current_buffer] \in 0 .. destination_frames /\ delivered \in Nat
      BY <2>1 DEF IInv, TypeOK, IoOwns
    <3>2. blocks * destination_frames
            = Len(prepared_buffers) * destination_frames + destination_frames
      BY <1>1, <2>1, Blocks DEF One
    <3>3. Len(prepared_buffers) * destination_frames \in Nat
      BY <1>1, Blocks
    <3>4. rest = destination_frames - used[current_buffer]
      BY <2>1
    <3> HIDE DEF rest, blocks
    <3> QED
      BY <3>1, <3>2, <3>3, <3>4
  <2>2. CASE ~IoOwns
    <3>1. Len(prepared_buffers) * destination_frames \in Nat /\ delivered \in Nat
      BY <1>1, Blocks DEF IInv, TypeOK
    <3> QED
      BY <1>1, <2>2, <3>1 DEF One
  <2> QED
    BY <2>1, <2>2
<1>7. Produced = delivered + Len(prepared_buffers) * destination_frames + rest
  BY <1>2 DEF IInv, Pending
<1>8. /\ Len(prepared_buffers) * destination_frames \in Nat
      /\ blocks * destination_frames \in Nat /\ mixahead * destination_frames \in Nat
  BY <1>1, <1>3, Blocks
<1> HIDE DEF blocks, rest
<1> QED
  BY <1>4, <1>5, <1>6, <1>7, <1>8

(***************************************************************************)
(* OutputWorkerThread implements FrameStream: the backend sees one ordered *)
(* stream, mixed in blocks and never more than mixahead blocks ahead.      *)
(***************************************************************************)
THEOREM ImplementsStream == Spec => Stream!Spec
<1>1. Init => Stream!Init
  BY DEF Init, Stream!Init, Produced
<1>2. IInv /\ [Next]_vars => [Stream!Next]_(Stream!vars)
  <2>0. SUFFICES ASSUME IInv, [Next]_vars PROVE [Stream!Next]_(Stream!vars)
    OBVIOUS
  <2>a. TypeOK /\ Holding /\ StreamInOrder /\ Pending
    BY <2>0 DEF IInv
  <2> USE DEF queues, shared, contents, workerVars, ioVars, copyVars, callVars, ownerVars
  <2>1. CASE WorkerPush
    <3>1. Produced + destination_frames - delivered <= mixahead * destination_frames
      BY <2>0, <2>1, RoomForOneMore DEF WorkerPush
    <3>2. Produced' = Produced + destination_frames /\ Produced \in Int /\ delivered \in Nat
      BY <2>1, <2>a DEF WorkerPush, Produced, TypeOK
    <3>3. (Produced - delivered) + destination_frames <= mixahead * destination_frames
      BY <3>1, <3>2
    <3>4. (Produced - delivered)' = (Produced - delivered) + destination_frames
      BY <2>1, <3>2 DEF WorkerPush
    <3> QED
      BY <2>1, <2>a, <3>3, <3>4 DEF WorkerPush, Holding, Stream!Next, Stream!Mix
  <2>2. CASE IoCopy
    <3> DEFINE start     == used[current_buffer]
               willWrite == WillWrite(destination_frames - start)
    <3>1. /\ IoOwns /\ start \in 0 .. destination_frames /\ count \in Nat
          /\ data[current_buffer] \in Nat /\ delivered \in Nat
          /\ Len(prepared_buffers) \in Nat /\ owner_pc # "destroyed"
      BY <2>2, <2>a, LenProperties DEF IoCopy, IoOwns, TypeOK, Holding
    <3>2. willWrite \in Nat /\ start + willWrite \in 0 .. destination_frames
      BY <3>1, WillWriteRange
    <3>3. data[current_buffer] + start = delivered
      BY <2>a, <3>1 DEF StreamInOrder
    <3>4. /\ output' = [first |-> data[current_buffer] + start, length |-> willWrite]
          /\ delivered' = delivered + willWrite
          /\ UNCHANGED <<workerVars, ownerVars>>
      BY <2>2 DEF IoCopy
    <3>5. Len(prepared_buffers) * destination_frames \in Nat
      BY <3>1, Blocks
    <3>6. Produced = delivered + Len(prepared_buffers) * destination_frames
                       + (destination_frames - start)
      BY <2>a, <3>1 DEF Pending
    <3> HIDE DEF willWrite, start
    <3>7. willWrite \in 0 .. Produced - delivered /\ Produced \in Int
      BY <3>1, <3>2, <3>5, <3>6
    <3>8. output'.first + output'.length = delivered'
      BY <3>3, <3>4
    <3>9. (Produced - delivered)' = (Produced - delivered) - willWrite
      BY <3>1, <3>2, <3>4, <3>7 DEF Produced
    <3>10. Stream!Deliver(willWrite)
      BY <3>1, <3>4, <3>7, <3>8, <3>9 DEF Stream!Deliver
    <3> QED
      BY <3>7, <3>10 DEF Stream!Next
  <2>3. CASE OwnerDrain
    BY <2>3 DEF OwnerDrain, Produced, Stream!Next, Stream!Close
  <2>4. CASE WorkerMix
    BY <2>4, <2>a DEF WorkerMix, Produced, Stream!vars, TypeOK
  <2>5. CASE WorkerWait \/ WorkerPop \/ WorkerCount \/ IoAwaitInitialMix
               \/ (\E n \in 0 .. MaxRequest : IoWrite(n)) \/ IoAcquire \/ IoUnderrun
               \/ IoPush \/ IoSignal \/ IoLeave
    BY <2>5 DEF WorkerWait, WorkerPop, WorkerCount, IoAwaitInitialMix, IoWrite, IoAcquire,
                IoUnderrun, IoPush, IoSignal, IoLeave, Produced, Stream!vars
  <2>6. CASE OwnerDestroy \/ OwnerPushStop \/ OwnerSignal \/ OwnerJoin \/ UNCHANGED vars
    BY <2>6, <2>a DEF OwnerDestroy, OwnerPushStop, OwnerSignal, OwnerJoin, vars, Produced,
                      Stream!vars
  <2> QED
    BY <2>0, <2>1, <2>2, <2>3, <2>4, <2>5, <2>6
    DEF Next, Worker, Io, IoStep, Owner, OwnerStep, Destroyed
<1> QED
  BY <1>1, <1>2, InductiveInvariant, PTL DEF Spec, Stream!Spec

(***************************************************************************)
(* A write that returns short has written everything the worker had handed *)
(* over when it was called.                                                *)
(***************************************************************************)
THEOREM ShortWriteIsUnderrun == Spec => ShortOnlyOnUnderrun
<1> DEFINE Short == io_pc # "ready" /\ io_pc' = "ready" /\ io_pc # "await" =>
                      count' = 0 \/ delivered' >= due
<1>1. IInv /\ [Next]_vars => [Short]_vars
  <2>0. SUFFICES ASSUME IInv, Next, io_pc # "ready", io_pc' = "ready", io_pc # "await",
                        count' # 0
                 PROVE  delivered' >= due
    BY DEF vars
  <2>1. /\ owner_pc # "destroyed" /\ Pending /\ CallCounts /\ Holding
        /\ delivered \in Nat /\ due \in Int /\ count \in Nat
        /\ used \in [Buffers -> 0 .. destination_frames] /\ current_buffer \in Buffers \cup {NoBuffer}
    <3>1. owner_pc = "destroyed" => io_pc = "gone"
      BY <2>0 DEF IInv, Holding
    <3>2. io_pc # "gone"
      BY <2>0 DEF Next, Worker, Io, IoStep, Owner, OwnerStep, Destroyed, vars, WorkerWait,
         WorkerPop, WorkerMix, WorkerPush, WorkerCount, IoAwaitInitialMix, IoWrite, IoAcquire,
         IoUnderrun, IoCopy, IoPush, IoSignal, IoLeave, OwnerDestroy, OwnerPushStop,
         OwnerSignal, OwnerJoin, OwnerDrain, ioVars
    <3> QED
      BY <2>0, <3>1, <3>2 DEF IInv, TypeOK
  <2>2. IoUnderrun \/ IoCopy \/ IoSignal
    BY <2>0 DEF Next, Worker, Io, IoStep, Owner, OwnerStep, Destroyed, vars, WorkerWait,
       WorkerPop, WorkerMix, WorkerPush, WorkerCount, IoAwaitInitialMix, IoWrite, IoAcquire,
       IoPush, IoLeave, OwnerDestroy, OwnerPushStop, OwnerSignal, OwnerJoin, OwnerDrain, ioVars
  <2>3. ASSUME Produced = delivered, delivered' = delivered PROVE delivered' >= due
    BY <2>1, <2>3 DEF CallCounts
  <2>4. ASSUME destination_frames = 0 PROVE Produced = delivered
    <3>1. Len(prepared_buffers) \in Nat
      BY <2>0, LenProperties DEF IInv, TypeOK
    <3>2. Len(prepared_buffers) * destination_frames = 0
      BY <2>4, <3>1
    <3>3. IoOwns => used[current_buffer] = 0
      BY <2>1, <2>4 DEF IoOwns
    <3> QED
      BY <2>1, <2>4, <3>2, <3>3 DEF Pending
  <2>5. CASE IoUnderrun
    <3>1. Len(prepared_buffers) = 0 /\ ~IoOwns /\ delivered' = delivered
      BY <2>5 DEF IoUnderrun, IoOwns
    <3>2. Produced = delivered
      BY <2>1, <3>1 DEF Pending
    <3> QED
      BY <2>3, <3>1, <3>2
  <2>6. CASE IoSignal
    <3>1. writtenThisTime = 0 /\ count' = count /\ delivered' = delivered
      BY <2>0, <2>6 DEF IoSignal, AfterHelper, copyVars, IInv, TypeOK
    <3>2. destination_frames = 0
      BY <2>0, <2>1, <2>6, <3>1 DEF CallCounts, IoSignal
    <3> QED
      BY <2>3, <2>4, <3>1, <3>2
  <2>7. CASE IoCopy
    <3> DEFINE willWrite == WillWrite(destination_frames - used[current_buffer])
    <3>1. /\ willWrite = 0 \/ willWrite \notin Int \/ willWrite < 0
          /\ used[current_buffer] \in 0 .. destination_frames /\ IoOwns
      BY <2>0, <2>1, <2>7 DEF IoCopy, AfterHelper, IoOwns
    <3>2. willWrite \in Nat
      BY <2>1, <3>1, WillWriteRange
    <3>3. count' = count - willWrite /\ delivered' = delivered + willWrite
      BY <2>7 DEF IoCopy
    <3>4. willWrite = 0 /\ count # 0
      BY <2>0, <2>1, <3>1, <3>2, <3>3
    <3>5. destination_frames = 0
      BY <2>1, <2>7, <3>1, <3>4 DEF WillWrite, CallCounts, IoCopy
    <3> QED
      BY <2>1, <2>3, <2>4, <3>3, <3>4, <3>5
  <2> QED
    BY <2>2, <2>5, <2>6, <2>7
<1> QED
  BY <1>1, InductiveInvariant, PTL DEF Spec, ShortOnlyOnUnderrun

-----------------------------------------------------------------------------
(***************************************************************************)
(* The destructor.  When the worker has ended, prepared_buffers holds      *)
(* every buffer once, but for the one the I/O thread kept: as many as      *)
(* there are, and no two alike.                                            *)
(***************************************************************************)
LEMMA PreparedAreTheRest ==
  ASSUME IInv, owner_pc = "drain"
  PROVE  Range(prepared_buffers) = Buffers \ {current_buffer} /\ returned_buffers = <<>>
<1> DEFINE rest == Buffers \ {current_buffer}
           n    == Len(prepared_buffers)
           f    == [i \in 1 .. n |-> prepared_buffers[i]]
<1>1. /\ returned_buffers = <<>> /\ worker_pc = "exited" /\ io_pc = "gone"
      /\ prepared_buffers \in Seq(Buffers) /\ current_buffer \in Buffers \cup {NoBuffer}
  BY DEF IInv, Holding, TypeOK
<1>2. n \in Nat /\ Len(returned_buffers) = 0 /\ DOMAIN prepared_buffers = 1 .. n
  BY <1>1, LenProperties
<1>3. n = IF current_buffer # NoBuffer THEN mixahead - 1 ELSE mixahead
  <2>1. owner_pc = "drain" /\ worker_pc = "exited" /\ io_pc = "gone"
    BY <1>1
  <2>2. ~WorkerOwns /\ ~StopQueued
    BY <2>1 DEF WorkerOwns, StopQueued
  <2>3. IoOwns <=> current_buffer # NoBuffer
    BY <2>1 DEF IoOwns
  <2>4. mixahead \in Nat
    BY ConstantsAssumption
  <2>5. One(WorkerOwns) = 0 /\ One(StopQueued) = 0
    BY <2>2 DEF One
  <2>6. One(IoOwns) = IF current_buffer # NoBuffer THEN 1 ELSE 0
    BY <2>3 DEF One
  <2>7. Len(returned_buffers) + n + One(WorkerOwns) + One(IoOwns)
          = mixahead + One(StopQueued)
    BY <2>1 DEF IInv, NoBufferLost
  <2> HIDE DEF n
  <2> QED
    BY <1>2, <2>4, <2>5, <2>6, <2>7
<1>4. \A i \in 1 .. n : prepared_buffers[i] \in rest
  <2>1. \A i \in 1 .. n : prepared_buffers[i] \in Buffers
    BY <1>1, ElementOfSeq
  <2>2. current_buffer # NoBuffer => \A i \in 1 .. n : prepared_buffers[i] # current_buffer
    BY <1>1 DEF IInv, OneOwner, IoOwns, Queued
  <2> QED
    BY <1>1, <2>1, <2>2
<1>5. f \in Injection(1 .. n, rest)
  <2>1. f \in [1 .. n -> rest]
    BY <1>4
  <2>2. \A i, j \in 1 .. n : f[i] = f[j] => i = j
    BY <1>2 DEF IInv, OneOwner, Queued
  <2> QED
    BY <2>1, <2>2 DEF Injection, IsInjective
<1>6. IsFiniteSet(rest) /\ Cardinality(rest) = n
  <2>1. IsFiniteSet(Buffers) /\ Cardinality(Buffers) = mixahead
    BY FS_Interval
  <2>2. /\ IsFiniteSet(rest)
        /\ Cardinality(rest) = IF current_buffer \in Buffers THEN mixahead - 1 ELSE mixahead
    BY <2>1, FS_RemoveElement
  <2> QED
    BY <1>1, <1>3, <2>2
<1>7. Cardinality(1 .. n) = n
  BY <1>2, FS_Interval
<1>8. f \in Surjection(1 .. n, rest)
  <2> HIDE DEF f, rest, n
  <2> QED
    BY <1>5, <1>6, <1>7, FS_Injection
<1>9. Range(prepared_buffers) = rest
  <2>1. Range(prepared_buffers) = {prepared_buffers[i] : i \in 1 .. n}
    BY <1>2 DEF Range
  <2>2. \A b \in rest : \E i \in 1 .. n : f[i] = b
    <3> HIDE DEF f, rest, n
    <3> QED
      BY <1>8 DEF Surjection
  <2>3. \A i \in 1 .. n : f[i] = prepared_buffers[i]
    OBVIOUS
  <2> HIDE DEF f, rest, n
  <2> QED
    BY <1>4, <2>1, <2>2, <2>3
<1> QED
  BY <1>1, <1>9

FreedAll == owner_pc = "destroyed" => freed = Buffers \ {current_buffer}

LEMMA FreedStep == IInv /\ FreedAll /\ [Next]_vars => FreedAll'
<1> SUFFICES ASSUME IInv, FreedAll, [Next]_vars PROVE FreedAll'
  OBVIOUS
<1> USE DEF FreedAll, queues, shared, contents, workerVars, ioVars, copyVars, callVars,
            ownerVars
<1>1. CASE OwnerDrain
  <2>1. Range(prepared_buffers) = Buffers \ {current_buffer} /\ returned_buffers = <<>>
    BY <1>1, PreparedAreTheRest DEF OwnerDrain
  <2>2. Range(<<>>) = {}
    BY DEF Range
  <2> QED
    BY <1>1, <2>1, <2>2 DEF OwnerDrain
<1>2. CASE OwnerDestroy \/ OwnerPushStop \/ OwnerSignal \/ OwnerJoin
  BY <1>2 DEF OwnerDestroy, OwnerPushStop, OwnerSignal, OwnerJoin
<1>3. CASE Worker
  BY <1>3 DEF Worker, WorkerWait, WorkerPop, WorkerMix, WorkerPush, WorkerCount
<1>4. CASE Io
  <2>1. owner_pc # "destroyed"
    BY <1>4 DEF Io, IoStep, IoAwaitInitialMix, IoWrite, IoAcquire, IoUnderrun, IoCopy,
                IoPush, IoSignal, IoLeave, IInv, Holding
  <2>2. owner_pc' = owner_pc
    BY <1>4 DEF Io, IoStep, IoAwaitInitialMix, IoWrite, IoAcquire, IoUnderrun, IoCopy,
                IoPush, IoSignal, IoLeave
  <2> QED
    BY <2>1, <2>2
<1>5. CASE UNCHANGED vars
  BY <1>5 DEF vars
<1> QED
  BY <1>1, <1>2, <1>3, <1>4, <1>5 DEF Next, Owner, OwnerStep, Destroyed

(***************************************************************************)
(* The destructor deletes every buffer but the partly copied one.          *)
(***************************************************************************)
THEOREM DestructorFreesTheRest == Spec => []DestructorFreesQueued
<1>1. Init => FreedAll
  BY DEF Init, FreedAll
<1>2. IInv /\ FreedAll => DestructorFreesQueued
  BY DEF DestructorFreesQueued, FreedAll, IInv, Holding
<1> QED
  BY <1>1, <1>2, FreedStep, InductiveInvariant, PTL DEF Spec

=============================================================================
