--------------------- MODULE ThreadLocalVariableProofs ---------------------
(***************************************************************************)
(* Proofs about ThreadLocalVariable, for any finite sets of threads and    *)
(* variables, and any number of threads started and of calls.              *)
(***************************************************************************)
EXTENDS ThreadLocalVariable, FiniteSetTheorems, TLAPS

\* The one value that the thread with identifier i makes for v.
ValueOf(i, v) == [id |-> i, variable |-> v, nth |-> 0, deleter |-> "copy"]

Idle(t)   == pc[t] \in {"none", "running"}
Holds(t)  == pc[t] \in {"acquire again", "store", "release again", "return"}
Own(t)    == ValueOf(id[t], using[t])   \* in a call
Unnamed   == {t \in Threads : pc[t] # "none" /\ id[t] = 0}

(***************************************************************************)
(* No identifier is given twice (powercores/utilities.cpp:9-15), and no    *)
(* more of them are needed than there have been threads.                   *)
(***************************************************************************)
Identifiers ==
  /\ \A t \in Threads : id[t] < globallyUniqueId
  /\ \A t, u \in Threads : id[t] = id[u] /\ id[t] # 0 => t = u
  /\ \A t \in Threads : pc[t] = "none" => id[t] = 0
  /\ \A t \in Threads : ~Idle(t) => id[t] # 0
  /\ globallyUniqueId + Cardinality(Unnamed) <= started + 1

(***************************************************************************)
(* The exchange of the pointer is a lock (lines 37-40, 49-51 and 62-72).   *)
(***************************************************************************)
MapHasOneOwner ==
  \A v \in Variables :
    IF map_atomic[v] = "map" THEN Owners(v) = {} ELSE \E t \in Threads : Owners(v) = {t}

(***************************************************************************)
(* The locals of a call.                                                   *)
(***************************************************************************)
Locals ==
  DOMAIN weak = Threads /\ DOMAIN strong = Threads /\ DOMAIN local_strong_references = Threads

CallOf(t) ==
  /\ using[t] = "none" <=> Idle(t)
  /\ weak[t] \in {NullPtr, Own(t)}
  /\ pc[t] \in {"none", "running", "acquire", "lookup"} => weak[t] = NullPtr
  /\ strong[t] = IF Holds(t) THEN Own(t) ELSE NullPtr
  /\ Holds(t) => Own(t) \in local_strong_references[t]
  /\ pc[t] = "create" => Own(t) \notin local_strong_references[t]

Calls == \A t \in Threads : CallOf(t)

(***************************************************************************)
(* A thread keeps its own values only, and the map has no others.          *)
(***************************************************************************)
Values ==
  /\ \A t \in Threads :
       local_strong_references[t] \subseteq {ValueOf(id[t], v) : v \in Variables}
  /\ \A t \in Threads : id[t] = 0 => local_strong_references[t] = {}
  /\ \A v \in Variables :
       /\ DOMAIN map[v] = 1 .. MaxThreads
       /\ \A i \in 1 .. MaxThreads : map[v][i] \in {Absent, NullPtr, ValueOf(i, v)}

(***************************************************************************)
(* A value that a thread keeps is in the map, or on its way there; and an  *)
(* entry that a call has read does not change under it.                    *)
(***************************************************************************)
Remembered ==
  /\ \A t \in Threads, v \in Variables :
       ValueOf(id[t], v) \in local_strong_references[t] =>
         \/ map[v][id[t]] = ValueOf(id[t], v)
         \/ using[t] = v /\ pc[t] \in {"acquire again", "store"}
  /\ \A t \in Threads : pc[t] \in {"release", "lock"} =>
       /\ weak[t] = map[using[t]][id[t]]
       /\ ~had[t] => weak[t] = NullPtr

IInv ==
  /\ TypeOK /\ Locals /\ Identifiers /\ MapHasOneOwner /\ Calls /\ Values /\ Remembered
  /\ wild = FALSE

-----------------------------------------------------------------------------
(***************************************************************************)
(* No value is the null pointer or an absent entry.                        *)
(***************************************************************************)
LEMMA ValueIsNeither == \A i, v : ValueOf(i, v) # NullPtr /\ ValueOf(i, v) # Absent
<1> TAKE i, v
<1>1. ValueOf(i, v).deleter = "copy" /\ NullPtr.deleter = "none"
  BY DEF ValueOf, NullPtr
<1>2. DOMAIN ValueOf(i, v) = {"id", "variable", "nth", "deleter"} /\ DOMAIN Absent = {"absent"}
  BY DEF ValueOf, Absent
<1> QED
  BY <1>1, <1>2

LEMMA SameValue ==
  \A i, j, v, w : ValueOf(i, v) = ValueOf(j, w) => i = j /\ v = w
<1> TAKE i, j, v, w
<1>1. /\ ValueOf(i, v).id = i /\ ValueOf(i, v).variable = v
      /\ ValueOf(j, w).id = j /\ ValueOf(j, w).variable = w
  BY DEF ValueOf
<1> QED
  BY <1>1

(***************************************************************************)
(* What a use count above zero means: a thread keeps the value.            *)
(***************************************************************************)
LEMMA AliveIsKept ==
  ASSUME IInv
  PROVE  Alive = UNION {local_strong_references[t] : t \in Threads}
<1>1. \A t \in Threads : strong[t] = NullPtr \/ strong[t] \in local_strong_references[t]
  BY DEF IInv, Calls, CallOf
<1>2. \A t \in Threads : NullPtr \notin local_strong_references[t]
  BY ValueIsNeither DEF IInv, Values
<1> DEFINE kept == UNION {local_strong_references[t] : t \in Threads}
           locals == {strong[t] : t \in Threads}
<1>3. NullPtr \notin kept
  BY <1>2
<1>4. locals \subseteq kept \cup {NullPtr}
  BY <1>1
<1>5. Alive = (kept \cup locals) \ {NullPtr}
  BY Zenon DEF Alive
<1> HIDE DEF kept, locals
<1>6. Alive = kept
  BY <1>3, <1>4, <1>5
<1> QED
  BY <1>6 DEF kept

\* So a thread's own value is alive if and only if the thread itself keeps it.
LEMMA OwnIsKept ==
  ASSUME IInv, NEW t \in Threads, ~Idle(t)
  PROVE  Own(t) \in Alive <=> Own(t) \in local_strong_references[t]
<1>1. \A u \in Threads : Own(t) \in local_strong_references[u] => id[t] = id[u]
  <2> SUFFICES ASSUME NEW u \in Threads, Own(t) \in local_strong_references[u]
               PROVE  id[t] = id[u]
    OBVIOUS
  <2>1. PICK v \in Variables : Own(t) = ValueOf(id[u], v)
    BY DEF IInv, Values
  <2> QED
    BY <2>1, SameValue DEF Own
<1>2. \A u \in Threads : Own(t) \in local_strong_references[u] => t = u
  BY <1>1 DEF IInv, Identifiers
<1> QED
  BY <1>2, AliveIsKept

-----------------------------------------------------------------------------
LEMMA UnnamedFinite == IsFiniteSet(Unnamed) /\ Cardinality(Unnamed) \in Nat
<1>1. Unnamed \in SUBSET Threads
  BY DEF Unnamed
<1> QED
  BY <1>1, ThreadLocalAssumption, FS_Subset, FS_CardinalityType

LEMMA IdentifiersStep == IInv /\ [Next]_vars => Identifiers'
<1> SUFFICES ASSUME IInv, [Next]_vars PROVE Identifiers'
  OBVIOUS
<1>0. /\ DOMAIN pc = Threads /\ DOMAIN id = Threads /\ \A t \in Threads : id[t] \in Nat
      /\ globallyUniqueId \in Nat \ {0} /\ started \in Nat
      /\ Cardinality(Unnamed) \in Nat /\ IsFiniteSet(Unnamed)
      /\ \A t \in Threads : using[t] = "none" <=> Idle(t)
      /\ \A t \in Threads : id[t] < globallyUniqueId
      /\ \A t, u \in Threads : id[t] = id[u] /\ id[t] # 0 => t = u
      /\ \A t \in Threads : pc[t] = "none" => id[t] = 0
      /\ \A t \in Threads : pc[t] \notin {"none", "running"} => id[t] # 0
      /\ globallyUniqueId + Cardinality(Unnamed) <= started + 1
  <2>1. /\ DOMAIN pc = Threads
        /\ id \in [Threads -> 0 .. MaxThreads]
        /\ globallyUniqueId \in 1 .. MaxThreads + 1
        /\ started \in 0 .. MaxThreads
    BY Zenon DEF IInv, TypeOK
  <2>2. /\ DOMAIN id = Threads /\ \A t \in Threads : id[t] \in Nat
        /\ globallyUniqueId \in Nat \ {0} /\ started \in Nat
    BY <2>1, ThreadLocalAssumption
  <2>3. Identifiers /\ Calls
    BY DEF IInv
  <2> QED
    BY <2>1, <2>2, <2>3, UnnamedFinite DEF Calls, CallOf, Identifiers, Idle
<1> USE DEF Idle
<1>1. ASSUME NEW t \in Threads, StartThread(t) PROVE Identifiers'
  <2>1. /\ id' = id /\ globallyUniqueId' = globallyUniqueId /\ started' = started + 1
        /\ pc[t] = "none" /\ pc' = [pc EXCEPT ![t] = "running"]
    BY <1>1 DEF StartThread
  <2>2. id[t] = 0
    BY <1>0, <2>1 DEF Identifiers
  <2>3. t \notin Unnamed /\ Unnamed' = Unnamed \cup {t}
    BY <1>0, <2>1, <2>2 DEF Unnamed
  <2>4. Cardinality(Unnamed)' = Cardinality(Unnamed) + 1
    BY <1>0, <2>3, FS_AddElement
  <2> QED
    BY <1>0, <2>1, <2>2, <2>4 DEF Identifiers
<1>2. ASSUME NEW t \in Threads, ExitThread(t) PROVE Identifiers'
  <2>1. /\ globallyUniqueId' = globallyUniqueId /\ started' = started
        /\ pc[t] = "running" /\ pc' = [pc EXCEPT ![t] = "none"]
        /\ id' = [id EXCEPT ![t] = 0]
    BY <1>2 DEF ExitThread
  <2>2. Unnamed' = Unnamed \ {t}
    BY <1>0, <2>1 DEF Unnamed
  <2>3. Cardinality(Unnamed)' \in Nat /\ Cardinality(Unnamed)' <= Cardinality(Unnamed)
    <3>1. IsFiniteSet(Unnamed') /\ Unnamed' \in SUBSET Unnamed
      BY <1>0, <2>2, FS_RemoveElement
    <3> QED
      BY <1>0, <3>1, FS_Subset, FS_CardinalityType
  <2>4. \A u \in Threads : /\ id'[u] = IF u = t THEN 0 ELSE id[u]
                          /\ pc'[u] = IF u = t THEN "none" ELSE pc[u]
    BY <1>0, <2>1
  <2>5. \A u \in Threads : id'[u] < globallyUniqueId'
    BY <1>0, <2>1, <2>4
  <2>6. globallyUniqueId' + Cardinality(Unnamed)' <= started' + 1
    BY <1>0, <2>1, <2>3
  <2> QED
    BY <1>0, <2>4, <2>5, <2>6 DEF Identifiers
<1>3. ASSUME NEW t \in Threads, NEW v \in Variables, Dereference(t, v) PROVE Identifiers'
  <2>1. /\ started' = started /\ pc[t] = "running" /\ pc' = [pc EXCEPT ![t] = "acquire"]
        /\ GetThreadId(t)
    BY <1>3 DEF Dereference
  <2>2. CASE id[t] = 0
    <3>1. /\ id' = [id EXCEPT ![t] = globallyUniqueId]
          /\ globallyUniqueId' = globallyUniqueId + 1
      BY <2>1, <2>2 DEF GetThreadId
    <3>2. t \in Unnamed /\ Unnamed' = Unnamed \ {t}
      BY <1>0, <2>1, <2>2, <3>1 DEF Unnamed
    <3>3. Cardinality(Unnamed)' = Cardinality(Unnamed) - 1
      BY <1>0, <3>2, FS_RemoveElement
    <3>4. \A u \in Threads : /\ id'[u] = IF u = t THEN globallyUniqueId ELSE id[u]
                            /\ pc'[u] = IF u = t THEN "acquire" ELSE pc[u]
      BY <1>0, <2>1, <3>1
    <3>5. \A u \in Threads : id'[u] < globallyUniqueId'
      BY <1>0, <3>1, <3>4
    <3>6. \A u, w \in Threads : id'[u] = id'[w] /\ id'[u] # 0 => u = w
      BY <1>0, <3>4
    <3>7. globallyUniqueId' + Cardinality(Unnamed)' <= started' + 1
      BY <1>0, <2>1, <3>1, <3>3
    <3> QED
      BY <1>0, <3>4, <3>5, <3>6, <3>7 DEF Identifiers
  <2>3. CASE id[t] # 0
    <3>1. id' = id /\ globallyUniqueId' = globallyUniqueId
      BY <2>1, <2>3 DEF GetThreadId
    <3>2. \A u \in Threads : pc'[u] = IF u = t THEN "acquire" ELSE pc[u]
      BY <1>0, <2>1
    <3>3. Unnamed' = Unnamed
      BY <2>1, <2>3, <3>1, <3>2 DEF Unnamed
    <3> QED
      BY <1>0, <2>1, <2>3, <3>1, <3>2, <3>3 DEF Identifiers
  <2> QED
    BY <2>2, <2>3
<1>4. ASSUME NEW t \in Threads, Step(t) PROVE Identifiers'
  <2>1. /\ UNCHANGED <<id, globallyUniqueId, started>>
        /\ pc[t] \notin {"none", "running"} /\ pc'[t] # "none"
        /\ \A u \in Threads \ {t} : pc'[u] = pc[u]
    BY <1>0, <1>4 DEF Step, AcquireMap, LookUp, ReleaseMap, Lock, Create, LeaveCall, Store,
                      Return, bounds
  <2>2. Unnamed' = Unnamed
    BY <2>1 DEF Unnamed
  <2> QED
    BY <1>0, <2>1, <2>2 DEF Identifiers
<1>5. ASSUME NEW v \in Variables, DestroyVariable(v) PROVE Identifiers'
  BY <1>0, <1>5 DEF DestroyVariable, Identifiers, Unnamed, bounds
<1>6. CASE UNCHANGED vars
  BY <1>0, <1>6 DEF vars, Identifiers, Unnamed, bounds
<1> QED
  BY <1>1, <1>2, <1>3, <1>4, <1>5, <1>6 DEF Next

-----------------------------------------------------------------------------
(***************************************************************************)
(* What the other proofs use of the types, without the bounds.             *)
(***************************************************************************)
LEMMA Shapes ==
  ASSUME IInv
  PROVE  /\ DOMAIN pc = Threads /\ DOMAIN id = Threads /\ DOMAIN using = Threads
         /\ DOMAIN had = Threads /\ DOMAIN weak = Threads /\ DOMAIN strong = Threads
         /\ DOMAIN local_strong_references = Threads /\ DOMAIN uses = Threads
         /\ DOMAIN map_atomic = Variables /\ DOMAIN map = Variables
         /\ \A v \in Variables : map_atomic[v] \in {"map", "nullptr"}
         /\ \A t \in Threads : using[t] \in Variables \cup {"none"}
         /\ "none" \notin Variables
<1>1. /\ pc \in [Threads ->
           {"none", "running", "acquire", "lookup", "release", "lock", "create",
            "acquire again", "store", "release again", "return"}]
      /\ id \in [Threads -> 0 .. MaxThreads] /\ uses \in [Threads -> 0 .. MaxUses]
      /\ using \in [Threads -> Variables \cup {"none"}] /\ had \in [Threads -> BOOLEAN]
      /\ map_atomic \in [Variables -> {"map", "nullptr"}] /\ DOMAIN map = Variables
  BY Zenon DEF IInv, TypeOK
<1>2. /\ DOMAIN pc = Threads /\ DOMAIN id = Threads /\ DOMAIN using = Threads
      /\ DOMAIN had = Threads /\ DOMAIN uses = Threads
      /\ DOMAIN map_atomic = Variables /\ DOMAIN map = Variables
  BY Zenon, <1>1
<1> QED
  BY <1>1, <1>2, ThreadLocalAssumption DEF IInv, Locals

\* In a call, the variable and the thread are known.
LEMMA InCall ==
  ASSUME IInv, NEW t \in Threads, ~Idle(t)
  PROVE  using[t] \in Variables /\ id[t] \in 1 .. MaxThreads
<1>1. using[t] \in Variables
  BY Shapes DEF IInv, Calls, CallOf
<1>2. id[t] # 0
  BY DEF IInv, Identifiers
<1>3. id \in [Threads -> 0 .. MaxThreads]
  BY Zenon DEF IInv, TypeOK
<1> QED
  BY <1>1, <1>2, <1>3, ThreadLocalAssumption

-----------------------------------------------------------------------------
(***************************************************************************)
(* The map has one owner at most.                                          *)
(***************************************************************************)
Inside == {"lookup", "release", "store", "release again"}

\* A thread takes a map, or gives one back, or leaves the maps alone.
Takes(t) ==
  /\ map_atomic[using[t]] = "map" /\ pc[t] \notin Inside /\ pc'[t] \in Inside
  /\ map_atomic' = [map_atomic EXCEPT ![using[t]] = "nullptr"]

Gives(t) ==
  /\ pc[t] \in Inside /\ pc'[t] \notin Inside
  /\ map_atomic' = [map_atomic EXCEPT ![using[t]] = "map"]

Passes(t) ==
  /\ map_atomic' = map_atomic
  /\ using'[t] = using[t] \/ pc'[t] \notin Inside
  /\ pc[t] \in Inside <=> pc'[t] \in Inside

LEMMA Owner ==
  \A t \in Threads, v \in Variables : t \in Owners(v) <=> using[t] = v /\ pc[t] \in Inside
  BY DEF Owners, Inside

LEMMA StepOwner ==
  ASSUME IInv, NEW t \in Threads, Step(t)
  PROVE  /\ ~Idle(t)
         /\ ((Takes(t) \/ Gives(t)) /\ using' = using) \/ Passes(t)
         /\ \A u \in Threads \ {t} : pc'[u] = pc[u] /\ using'[u] = using[u]
<1> USE Shapes DEF Inside, Takes, Gives, Passes, Idle, call, maps
<1>1. CASE AcquireMap(t, "acquire", "lookup") \/ AcquireMap(t, "acquire again", "store")
  BY <1>1 DEF AcquireMap
<1>2. CASE ReleaseMap(t, "release", "lock") \/ ReleaseMap(t, "release again", "return")
  BY <1>2 DEF ReleaseMap
<1>3. CASE LookUp(t)
  BY <1>3 DEF LookUp
<1>4. CASE Lock(t)
  BY <1>4 DEF Lock
<1>5. CASE Create(t)
  BY <1>5 DEF Create, LeaveCall
<1>6. CASE Store(t)
  BY <1>6 DEF Store
<1>7. CASE Return(t)
  BY <1>7 DEF Return, LeaveCall
<1> QED
  BY <1>1, <1>2, <1>3, <1>4, <1>5, <1>6, <1>7 DEF Step

LEMMA MapHasOneOwnerStep == IInv /\ [Next]_vars => MapHasOneOwner'
<1> SUFFICES ASSUME IInv, [Next]_vars PROVE MapHasOneOwner'
  OBVIOUS
<1>0. MapHasOneOwner
  BY DEF IInv
<1>1. ASSUME map_atomic' = map_atomic, \A v \in Variables : Owners(v)' = Owners(v)
      PROVE  MapHasOneOwner'
  BY <1>0, <1>1 DEF MapHasOneOwner
<1>2. \A t \in Threads, v \in Variables :
        (t \in Owners(v))' <=> using'[t] = v /\ pc'[t] \in Inside
  BY DEF Owners, Inside
<1>3. ASSUME map_atomic' = map_atomic,
             \A t \in Threads : \/ pc'[t] = pc[t] /\ using'[t] = using[t]
                                \/ pc[t] \notin Inside /\ pc'[t] \notin Inside
      PROVE  MapHasOneOwner'
  <2>1. \A t \in Threads, v \in Variables : (t \in Owners(v))' <=> t \in Owners(v)
    BY <1>2, <1>3, Owner
  <2>2. \A v \in Variables : Owners(v)' = Owners(v)
    BY <2>1 DEF Owners
  <2> QED
    BY <1>1, <1>3, <2>2
<1>4. ASSUME NEW t \in Threads, Step(t) PROVE MapHasOneOwner'
  <2>0. ~Idle(t) /\ using[t] \in Variables
    BY <1>4, StepOwner, InCall
  <2>1. CASE Takes(t) /\ using' = using
    <3>1. Owners(using[t]) = {}
      BY <1>0, <2>0, <2>1 DEF MapHasOneOwner, Takes
    <3>2. \A u \in Threads, v \in Variables :
            (u \in Owners(v))' <=> u \in Owners(v) \/ (u = t /\ v = using[t])
      BY <1>2, <1>4, <2>1, StepOwner, Owner DEF Takes
    <3>3. \A u \in Threads : using'[u] = using[t] /\ pc'[u] \in Inside <=> u = t
      BY <1>2, <2>0, <3>1, <3>2
    <3>4. Owners(using[t])' = {t}
      BY <2>1, <3>3 DEF Owners, Inside
    <3>5. \A v \in Variables \ {using[t]} : Owners(v)' = Owners(v)
      BY <3>2 DEF Owners
    <3> QED
      BY <1>0, <2>0, <2>1, <3>4, <3>5, Shapes DEF MapHasOneOwner, Takes
  <2>2. CASE Gives(t) /\ using' = using
    <3>1. t \in Owners(using[t])
      BY <2>0, <2>2, Owner DEF Gives
    <3>2. Owners(using[t]) = {t}
      BY <1>0, <2>0, <3>1 DEF MapHasOneOwner
    <3>3. \A u \in Threads, v \in Variables : (u \in Owners(v))' <=> u \in Owners(v) /\ u # t
      BY <1>2, <1>4, <2>2, StepOwner, Owner DEF Gives
    <3>4. Owners(using[t])' = {}
      BY <2>0, <2>2, <3>2, <3>3 DEF Owners
    <3>5. \A v \in Variables \ {using[t]} : t \notin Owners(v)
      BY Owner
    <3>6. \A v \in Variables \ {using[t]} : Owners(v)' = Owners(v)
      BY <3>3, <3>5 DEF Owners
    <3> QED
      BY <1>0, <2>0, <2>2, <3>4, <3>6, Shapes DEF MapHasOneOwner, Gives
  <2>3. CASE Passes(t)
    <3>1. \A u \in Threads, v \in Variables : (u \in Owners(v))' <=> u \in Owners(v)
      BY <1>2, <1>4, <2>3, StepOwner, Owner DEF Passes
    <3>2. \A v \in Variables : Owners(v)' = Owners(v)
      BY <3>1 DEF Owners
    <3> QED
      BY <1>1, <2>3, <3>2 DEF Passes
  <2> QED
    BY <1>4, <2>1, <2>2, <2>3, StepOwner
<1>5. ASSUME NEW t \in Threads, StartThread(t) \/ ExitThread(t) PROVE MapHasOneOwner'
  BY <1>3, <1>5, Shapes DEF StartThread, ExitThread, Inside, call, maps
<1>6. ASSUME NEW t \in Threads, NEW v \in Variables, Dereference(t, v) PROVE MapHasOneOwner'
  BY <1>3, <1>6, Shapes DEF Dereference, Inside, maps
<1>7. ASSUME NEW v \in Variables, DestroyVariable(v) PROVE MapHasOneOwner'
  BY <1>3, <1>7 DEF DestroyVariable, call
<1>8. CASE UNCHANGED vars
  BY <1>3, <1>8 DEF vars, call, maps
<1> QED
  BY <1>4, <1>5, <1>6, <1>7, <1>8 DEF Next

-----------------------------------------------------------------------------
(***************************************************************************)
(* A step is one thread's, or that of a variable's owner.                  *)
(***************************************************************************)
Acts(t) == StartThread(t) \/ ExitThread(t) \/ Step(t) \/ \E v \in Variables : Dereference(t, v)

LEMMA Steps ==
  ASSUME [Next]_vars
  PROVE  \/ \E t \in Threads : Acts(t)
         \/ \E v \in Variables : DestroyVariable(v)
         \/ UNCHANGED vars
  BY DEF Next, Acts

Same(u) == /\ pc'[u] = pc[u] /\ id'[u] = id[u] /\ using'[u] = using[u] /\ had'[u] = had[u]
           /\ weak'[u] = weak[u] /\ strong'[u] = strong[u]
           /\ local_strong_references'[u] = local_strong_references[u]

\* A thread changes its own id, locals and values only.
LEMMA OthersSame ==
  ASSUME IInv, NEW t \in Threads, Acts(t)
  PROVE  \A u \in Threads \ {t} : Same(u)
<1> USE Shapes DEF Same, call
<1>1. CASE StartThread(t)
  BY <1>1 DEF StartThread
<1>2. CASE ExitThread(t)
  BY <1>2 DEF ExitThread
<1>3. ASSUME NEW v \in Variables, Dereference(t, v) PROVE \A u \in Threads \ {t} : Same(u)
  BY <1>3 DEF Dereference, GetThreadId
<1>4. CASE AcquireMap(t, "acquire", "lookup") \/ AcquireMap(t, "acquire again", "store")
  BY <1>4 DEF AcquireMap
<1>5. CASE ReleaseMap(t, "release", "lock") \/ ReleaseMap(t, "release again", "return")
  BY <1>5 DEF ReleaseMap
<1>6. CASE LookUp(t)
  BY <1>6 DEF LookUp
<1>7. CASE Lock(t)
  BY <1>7 DEF Lock
<1>8. CASE Create(t)
  BY <1>8 DEF Create, LeaveCall
<1>9. CASE Store(t) \/ Return(t)
  BY <1>9 DEF Store, Return, LeaveCall
<1> QED
  BY <1>1, <1>2, <1>3, <1>4, <1>5, <1>6, <1>7, <1>8, <1>9 DEF Acts, Step

LEMMA IdleSame ==
  ASSUME (\E v \in Variables : DestroyVariable(v)) \/ UNCHANGED vars
  PROVE  UNCHANGED <<pc, id, using, had, weak, strong, local_strong_references, map, wild>>
  BY DEF DestroyVariable, vars, call, maps

LEMMA LocalsStep == IInv /\ [Next]_vars => Locals'
<1> SUFFICES ASSUME IInv, [Next]_vars PROVE Locals'
  OBVIOUS
<1>0. Locals
  BY DEF IInv
<1> USE <1>0 DEF Locals, call
<1>1. ASSUME NEW t \in Threads, Acts(t) PROVE Locals'
  <2>1. CASE StartThread(t) \/ ExitThread(t) \/ \E v \in Variables : Dereference(t, v)
    BY <2>1 DEF StartThread, ExitThread, Dereference
  <2>2. CASE Step(t)
    BY <2>2 DEF Step, AcquireMap, LookUp, ReleaseMap, Lock, Create, LeaveCall, Store, Return
  <2> QED
    BY <1>1, <2>1, <2>2 DEF Acts
<1> QED
  BY <1>1, Steps, IdleSame

-----------------------------------------------------------------------------
(***************************************************************************)
(* What a new value is: the first one of this thread.                      *)
(***************************************************************************)
LEMMA MadeIsOwn ==
  ASSUME IInv, NEW t \in Threads, pc[t] = "create"
  PROVE  Made(t) = Own(t)
<1>1. Own(t) \notin local_strong_references[t]
  BY DEF IInv, Calls, CallOf
<1>2. \A x \in local_strong_references[t] : x.variable # using[t]
  <2> SUFFICES ASSUME NEW x \in local_strong_references[t], x.variable = using[t]
               PROVE  FALSE
    OBVIOUS
  <2>1. PICK v \in Variables : x = ValueOf(id[t], v)
    BY DEF IInv, Values
  <2>2. x.variable = v
    BY <2>1 DEF ValueOf
  <2> QED
    BY <1>1, <2>1, <2>2 DEF Own
<1>3. Earlier(t) = {}
  BY <1>2 DEF Earlier
<1>4. Cardinality(Earlier(t)) = 0
  BY <1>3, FS_EmptySet
<1> QED
  BY <1>4 DEF Made, Own, ValueOf

(***************************************************************************)
(* weak.lock() finds the thread's own value exactly if the thread keeps    *)
(* one; so none is created beside another.                                 *)
(***************************************************************************)
LEMMA LockFindsOwn ==
  ASSUME IInv, NEW t \in Threads, pc[t] = "lock"
  PROVE  IF MustCreate(t)
           THEN Locked(weak[t]) = NullPtr /\ Own(t) \notin local_strong_references[t]
           ELSE Locked(weak[t]) = Own(t) /\ Own(t) \in local_strong_references[t]
<1>0. ~Idle(t) /\ using[t] \in Variables
  BY InCall DEF Idle
<1>1. weak[t] \in {NullPtr, Own(t)}
  BY DEF IInv, Calls, CallOf
<1>2. Own(t) # NullPtr
  BY ValueIsNeither DEF Own
<1>3. Own(t) \in Alive <=> Own(t) \in local_strong_references[t]
  BY <1>0, OwnIsKept
<1>4. Locked(NullPtr) = NullPtr
  BY DEF Locked
<1>5. Own(t) \in local_strong_references[t] => weak[t] = Own(t) /\ had[t]
  <2> SUFFICES ASSUME Own(t) \in local_strong_references[t] PROVE weak[t] = Own(t) /\ had[t]
    OBVIOUS
  <2>1. map[using[t]][id[t]] = Own(t)
    BY <1>0 DEF IInv, Remembered, Own
  <2>2. weak[t] = map[using[t]][id[t]] /\ (~had[t] => weak[t] = NullPtr)
    BY DEF IInv, Remembered
  <2> QED
    BY <1>2, <2>1, <2>2
<1>6. ~had[t] => weak[t] = NullPtr
  BY DEF IInv, Remembered
<1>7. CASE Own(t) \in local_strong_references[t]
  <2>1. Locked(weak[t]) = Own(t) /\ had[t]
    BY <1>3, <1>5, <1>7 DEF Locked
  <2> QED
    BY <1>2, <1>7, <2>1 DEF MustCreate
<1>8. CASE Own(t) \notin local_strong_references[t]
  <2>1. Locked(weak[t]) = NullPtr
    BY <1>1, <1>3, <1>8 DEF Locked
  <2> QED
    BY <1>8, <2>1 DEF MustCreate
<1> QED
  BY <1>7, <1>8

-----------------------------------------------------------------------------
LEMMA CallsStep == IInv /\ [Next]_vars => Calls'
<1> SUFFICES ASSUME IInv, [Next]_vars PROVE Calls'
  OBVIOUS
<1>0. \A u \in Threads : Same(u) => CallOf(u)'
  <2> SUFFICES ASSUME NEW u \in Threads, Same(u) PROVE CallOf(u)'
    OBVIOUS
  <2>1. CallOf(u)
    BY DEF IInv, Calls
  <2>2. Own(u)' = Own(u) /\ Idle(u)' = Idle(u) /\ Holds(u)' = Holds(u)
    BY DEF Same, Own, ValueOf, Idle, Holds
  <2> QED
    BY <2>1, <2>2 DEF Same, CallOf
<1>1. ASSUME NEW t \in Threads, Acts(t) PROVE CallOf(t)'
  <2>0. /\ CallOf(t)
        /\ ~Idle(t) => using[t] \in Variables
    BY InCall DEF IInv, Calls
  <2> USE Shapes, <2>0 DEF CallOf, Idle, Holds, call, maps
  <2>1. CASE StartThread(t)
    BY <2>1 DEF StartThread, Own
  <2>2. CASE ExitThread(t)
    BY <2>2 DEF ExitThread, Own
  <2>3. ASSUME NEW v \in Variables, Dereference(t, v) PROVE CallOf(t)'
    BY <2>3 DEF Dereference
  <2>4. CASE AcquireMap(t, "acquire", "lookup") \/ AcquireMap(t, "acquire again", "store")
    BY <2>4 DEF AcquireMap, Own
  <2>5. CASE ReleaseMap(t, "release", "lock") \/ ReleaseMap(t, "release again", "return")
    BY <2>5 DEF ReleaseMap, Own
  <2>6. CASE LookUp(t)
    <3>1. id[t] \in 1 .. MaxThreads
      BY <2>6, InCall DEF LookUp
    <3>2. map[using[t]][id[t]] \in {Absent, NullPtr, Own(t)}
      BY <2>6, <3>1 DEF LookUp, IInv, Values, Own
    <3>3. /\ weak'[t] \in {NullPtr, Own(t)} /\ pc[t] = "lookup" /\ pc'[t] = "release"
          /\ UNCHANGED <<id, using, strong, local_strong_references>>
      BY <2>6, <3>2 DEF LookUp
    <3> QED
      BY <3>3 DEF Own
  <2>7. CASE Lock(t)
    <3>1. /\ pc[t] = "lock" /\ strong'[t] = Locked(weak[t])
          /\ pc'[t] = IF MustCreate(t) THEN "create" ELSE "return"
          /\ UNCHANGED <<id, using, weak, local_strong_references>>
      BY <2>7 DEF Lock
    <3> QED
      BY <3>1, LockFindsOwn DEF Own
  <2>8. CASE Create(t)
    <3>1. pc[t] = "create" /\ UNCHANGED id
      BY <2>8 DEF Create
    <3>2. CASE LeaveCall(t)
      BY <3>1, <3>2 DEF LeaveCall
    <3>3. CASE ~LeaveCall(t)
      <4>1. /\ strong' = [strong EXCEPT ![t] = Own(t)]
            /\ local_strong_references' =
                 [local_strong_references EXCEPT ![t] = @ \cup {Own(t)}]
            /\ pc' = [pc EXCEPT ![t] = "acquire again"]
            /\ UNCHANGED <<using, had, weak>>
        BY Zenon, <2>8, <3>1, <3>3, MadeIsOwn DEF Create
      <4>2. /\ strong'[t] = Own(t) /\ Own(t) \in local_strong_references'[t]
            /\ pc'[t] = "acquire again"
        BY <4>1
      <4> QED
        BY <3>1, <4>1, <4>2 DEF Own
    <3> QED
      BY <3>2, <3>3
  <2>9. CASE Store(t)
    BY <2>9 DEF Store, Own
  <2>10. CASE Return(t)
    BY <2>10 DEF Return, LeaveCall
  <2> QED
    BY <1>1, <2>1, <2>2, <2>3, <2>4, <2>5, <2>6, <2>7, <2>8, <2>9, <2>10 DEF Acts, Step
<1>2. ASSUME NEW t \in Threads, Acts(t) PROVE Calls'
  BY <1>0, <1>1, <1>2, OthersSame DEF Calls
<1>3. ASSUME \A u \in Threads : Same(u) PROVE Calls'
  BY <1>0, <1>3 DEF Calls
<1> QED
  BY <1>2, <1>3, Steps, IdleSame DEF Same

-----------------------------------------------------------------------------
\* What writing one entry of the map does.
LEMMA MapWrite ==
  ASSUME IInv, NEW v \in Variables, NEW i \in 1 .. MaxThreads, NEW x,
         map' = [map EXCEPT ![v][i] = x]
  PROVE  \A w \in Variables :
           /\ DOMAIN map'[w] = 1 .. MaxThreads
           /\ \A j \in 1 .. MaxThreads :
                map'[w][j] = IF w = v /\ j = i THEN x ELSE map[w][j]
<1>1. DOMAIN map = Variables /\ \A w \in Variables : DOMAIN map[w] = 1 .. MaxThreads
  BY Shapes DEF IInv, Values
<1>2. map' = [map EXCEPT ![v] = [map[v] EXCEPT ![i] = x]]
  OBVIOUS
<1>3. \A w \in Variables : map'[w] = IF w = v THEN [map[v] EXCEPT ![i] = x] ELSE map[w]
  BY <1>1, <1>2
<1> QED
  BY <1>1, <1>3

\* The two steps that write to the map, and what they write.
LEMMA Writes ==
  ASSUME IInv, NEW t \in Threads, LookUp(t) \/ Store(t)
  PROVE  \E x \in {NullPtr, Own(t)} :
           /\ map' = [map EXCEPT ![using[t]][id[t]] = x]
           /\ map[using[t]][id[t]] = Own(t) => x = Own(t)
           /\ pc[t] = "store" => x = Own(t)
           /\ pc[t] = "lookup" => weak'[t] = x /\ (had'[t] <=> map[using[t]][id[t]] # Absent)
           /\ map[using[t]][id[t]] = Absent => pc[t] = "store" \/ x = NullPtr
<1>0. using[t] \in Variables /\ id[t] \in 1 .. MaxThreads
  BY InCall DEF LookUp, Store, Idle
<1>1. map[using[t]][id[t]] \in {Absent, NullPtr, Own(t)}
  BY <1>0 DEF IInv, Values, Own
<1>2. Own(t) # Absent
  BY ValueIsNeither DEF Own
<1>3. CASE LookUp(t)
  <2> DEFINE entry == map[using[t]][id[t]]
             found == IF entry = Absent THEN NullPtr ELSE entry
  <2>1. /\ pc[t] = "lookup"
        /\ map' = [map EXCEPT ![using[t]][id[t]] = found]
        /\ weak' = [weak EXCEPT ![t] = found]
        /\ had' = [had EXCEPT ![t] = (entry # Absent)]
    BY <1>3 DEF LookUp
  <2>2. weak'[t] = found
    BY <2>1, Shapes
  <2>3. had'[t] <=> entry # Absent
    BY <2>1, Shapes
  <2>4. found \in {NullPtr, Own(t)} /\ (entry = Own(t) => found = Own(t))
    BY <1>1, <1>2
  <2>5. entry = Absent => found = NullPtr
    OBVIOUS
  <2> HIDE DEF entry, found
  <2> QED
    BY <2>1, <2>2, <2>3, <2>4, <2>5 DEF entry
<1>4. CASE Store(t)
  <2>1. pc[t] = "store" /\ map' = [map EXCEPT ![using[t]][id[t]] = strong[t]]
    BY <1>4 DEF Store
  <2>2. strong[t] = Own(t)
    BY <2>1 DEF IInv, Calls, CallOf, Holds
  <2> QED
    BY <2>1, <2>2
<1> QED
  BY <1>3, <1>4

\* Nothing else does.
LEMMA OthersKeepMap ==
  ASSUME NEW t \in Threads, Acts(t)
  PROVE  LookUp(t) \/ Store(t) \/ map' = map
  BY DEF Acts, StartThread, ExitThread, Dereference, Step, AcquireMap, ReleaseMap, Lock,
         Create, Return, maps

LEMMA ValuesStep == IInv /\ [Next]_vars => Values'
<1> SUFFICES ASSUME IInv, [Next]_vars PROVE Values'
  OBVIOUS
<1>0. Values
  BY DEF IInv
<1> DEFINE Keeps(t) ==
        /\ local_strong_references'[t] \subseteq {ValueOf(id'[t], v) : v \in Variables}
        /\ id'[t] = 0 => local_strong_references'[t] = {}
<1>1. ASSUME NEW t \in Threads, Acts(t) PROVE Keeps(t)
  <2> USE Shapes
  <2>1. CASE ExitThread(t)
    BY <2>1 DEF ExitThread
  <2>2. ASSUME NEW v \in Variables, Dereference(t, v), id[t] = 0
        PROVE  local_strong_references'[t] = {}
    BY <1>0, <2>2 DEF Dereference, Values
  <2>3. ASSUME NEW v \in Variables, Dereference(t, v), id[t] # 0
        PROVE  UNCHANGED <<id, local_strong_references>>
    BY <2>3 DEF Dereference, GetThreadId
  <2>4. ASSUME NEW v \in Variables, Dereference(t, v) PROVE Keeps(t)
    <3>1. CASE id[t] = 0
      <4>1. id'[t] # 0
        <5>1. globallyUniqueId \in 1 .. MaxThreads + 1
          BY Zenon DEF IInv, TypeOK
        <5>2. globallyUniqueId # 0
          BY <5>1, ThreadLocalAssumption
        <5> QED
          BY <2>4, <3>1, <5>2 DEF Dereference, GetThreadId
      <4> QED
        BY <2>2, <2>4, <3>1, <4>1
    <3>2. CASE id[t] # 0
      BY <1>0, <2>3, <2>4, <3>2 DEF Values
    <3> QED
      BY <3>1, <3>2
  <2>5. CASE Create(t)
    <3>1. pc[t] = "create" /\ id' = id
      BY <2>5 DEF Create
    <3>2. using[t] \in Variables /\ id[t] # 0
      <4>1. ~Idle(t)
        BY <3>1 DEF Idle
      <4> QED
        BY <4>1, InCall DEF IInv, Identifiers
    <3>3. \/ local_strong_references' = local_strong_references
          \/ local_strong_references' = [local_strong_references EXCEPT ![t] = @ \cup {Own(t)}]
      BY <2>5, <3>1, MadeIsOwn DEF Create
    <3>4. local_strong_references'[t] \subseteq local_strong_references[t] \cup {Own(t)}
      BY <3>3
    <3> QED
      BY <1>0, <3>1, <3>2, <3>4 DEF Values, Own
  <2>6. CASE StartThread(t) \/ (Step(t) /\ ~Create(t))
    <3>1. UNCHANGED <<id, local_strong_references>>
      BY <2>6 DEF StartThread, Step, AcquireMap, LookUp, ReleaseMap, Lock, Store, Return, call
    <3> QED
      BY <1>0, <3>1 DEF Values
  <2> QED
    BY <1>1, <2>1, <2>5, <2>6, <2>4 DEF Acts, Step
<1>2. ASSUME NEW t \in Threads, LookUp(t) \/ Store(t)
      PROVE  \A v \in Variables :
               /\ DOMAIN map'[v] = 1 .. MaxThreads
               /\ \A i \in 1 .. MaxThreads : map'[v][i] \in {Absent, NullPtr, ValueOf(i, v)}
  <2>0. using[t] \in Variables /\ id[t] \in 1 .. MaxThreads
    BY <1>2, InCall DEF LookUp, Store, Idle
  <2>1. PICK x \in {NullPtr, Own(t)} : map' = [map EXCEPT ![using[t]][id[t]] = x]
    BY <1>2, Writes
  <2> QED
    BY <1>0, <2>0, <2>1, MapWrite DEF Values, Own
<1>3. ASSUME NEW t \in Threads, Acts(t) PROVE Values'
  <2>1. \A v \in Variables :
          /\ DOMAIN map'[v] = 1 .. MaxThreads
          /\ \A i \in 1 .. MaxThreads : map'[v][i] \in {Absent, NullPtr, ValueOf(i, v)}
    BY <1>0, <1>2, <1>3, OthersKeepMap DEF Values
  <2>2. \A u \in Threads :
          /\ local_strong_references'[u] \subseteq {ValueOf(id'[u], v) : v \in Variables}
          /\ id'[u] = 0 => local_strong_references'[u] = {}
    BY <1>0, <1>1, <1>3, OthersSame DEF Same, Values
  <2> QED
    BY <2>1, <2>2 DEF Values, ValueOf, NullPtr, Absent
<1>4. ASSUME UNCHANGED <<pc, id, using, had, weak, strong, local_strong_references, map, wild>>
      PROVE  Values'
  BY <1>0, <1>4 DEF Values, ValueOf, NullPtr, Absent
<1> QED
  BY <1>3, <1>4, Steps, IdleSame

-----------------------------------------------------------------------------
\* A thread's entries are its own: another's write is elsewhere.
LEMMA OthersEntry ==
  ASSUME IInv, NEW t \in Threads, Acts(t), NEW u \in Threads \ {t}, NEW v \in Variables,
         id[u] # 0
  PROVE  map'[v][id[u]] = map[v][id[u]]
<1>1. CASE LookUp(t) \/ Store(t)
  <2>0. using[t] \in Variables /\ id[t] \in 1 .. MaxThreads
    BY <1>1, InCall DEF LookUp, Store, Idle
  <2>1. PICK x \in {NullPtr, Own(t)} : map' = [map EXCEPT ![using[t]][id[t]] = x]
    BY <1>1, Writes
  <2>2. id[u] # id[t]
    BY DEF IInv, Identifiers
  <2>3. id[u] \in 1 .. MaxThreads
    <3>1. id \in [Threads -> 0 .. MaxThreads]
      BY Zenon DEF IInv, TypeOK
    <3> QED
      BY <3>1, ThreadLocalAssumption
  <2> QED
    BY <2>0, <2>1, <2>2, <2>3, MapWrite
<1>2. CASE map' = map
  BY <1>2
<1> QED
  BY <1>1, <1>2, OthersKeepMap

Kept(t) ==
  /\ \A v \in Variables :
       ValueOf(id[t], v) \in local_strong_references[t] =>
         \/ map[v][id[t]] = ValueOf(id[t], v)
         \/ using[t] = v /\ pc[t] \in {"acquire again", "store"}
  /\ pc[t] \in {"release", "lock"} =>
       /\ weak[t] = map[using[t]][id[t]]
       /\ ~had[t] => weak[t] = NullPtr

LEMMA RememberedIsKept == Remembered <=> \A t \in Threads : Kept(t)
  BY DEF Remembered, Kept

LEMMA OthersKept ==
  ASSUME IInv, NEW t \in Threads, Acts(t), NEW u \in Threads \ {t}
  PROVE  Kept(u)'
<1>1. Same(u)
  BY OthersSame
<1>2. Kept(u) /\ (id[u] = 0 => local_strong_references[u] = {})
  BY RememberedIsKept DEF IInv, Values
<1>3. id[u] # 0 => \A v \in Variables : map'[v][id[u]] = map[v][id[u]]
  BY OthersEntry
<1>4. \A v \in Variables : ValueOf(id[u], v)' = ValueOf(id[u], v)
  BY <1>1 DEF ValueOf, Same
<1>5. pc[u] \in {"release", "lock"} => using[u] \in Variables /\ id[u] # 0
  BY InCall, ThreadLocalAssumption DEF Idle
<1>6. NullPtr' = NullPtr
  BY DEF NullPtr
<1> QED
  BY <1>1, <1>2, <1>3, <1>4, <1>5, <1>6 DEF Kept, Same

LEMMA RememberedStep == IInv /\ [Next]_vars => Remembered'
<1> SUFFICES ASSUME IInv, [Next]_vars PROVE Remembered'
  OBVIOUS
<1>1. ASSUME NEW t \in Threads, Acts(t) PROVE Kept(t)'
  <2>0. Kept(t)
    BY RememberedIsKept DEF IInv
  <2> USE Shapes
  <2>1. ASSUME local_strong_references'[t] = {}, pc'[t] \notin {"release", "lock"}
        PROVE  Kept(t)'
    BY <2>1 DEF Kept
  <2>2. ASSUME map' = map, id'[t] = id[t],
               local_strong_references'[t] = local_strong_references[t],
               using'[t] = using[t] \/ pc[t] \notin {"acquire again", "store"},
               pc[t] \in {"acquire again", "store"} => pc'[t] \in {"acquire again", "store"},
               pc'[t] \notin {"release", "lock"}
        PROVE  Kept(t)'
    <3>1. \A v \in Variables : ValueOf(id[t], v)' = ValueOf(id[t], v)
      BY <2>2 DEF ValueOf
    <3> QED
      BY <2>0, <2>2, <3>1 DEF Kept
  <2>3. CASE StartThread(t)
    BY <2>2, <2>3 DEF StartThread, call, maps
  <2>4. CASE ExitThread(t)
    BY <2>1, <2>4 DEF ExitThread
  <2>5. ASSUME NEW v \in Variables, Dereference(t, v) PROVE Kept(t)'
    <3>1. CASE id[t] = 0
      BY <2>1, <2>5, <3>1 DEF Dereference, IInv, Values
    <3>2. CASE id[t] # 0
      BY <2>2, <2>5, <3>2 DEF Dereference, GetThreadId, maps
    <3> QED
      BY <3>1, <3>2
  <2>6. CASE AcquireMap(t, "acquire", "lookup") \/ AcquireMap(t, "acquire again", "store")
    BY <2>2, <2>6 DEF AcquireMap, call
  <2>7. CASE ReleaseMap(t, "release", "lock")
    <3>1. /\ pc[t] = "release" /\ pc'[t] = "lock"
          /\ UNCHANGED <<id, using, had, weak, local_strong_references, map>>
      BY <2>7 DEF ReleaseMap, call
    <3>2. \A v \in Variables : ValueOf(id[t], v)' = ValueOf(id[t], v)
      BY <3>1 DEF ValueOf
    <3> QED
      BY <2>0, <3>1, <3>2 DEF Kept, NullPtr
  <2>8. CASE ReleaseMap(t, "release again", "return")
    BY <2>2, <2>8 DEF ReleaseMap, call
  <2>9. CASE LookUp(t)
    <3>1. /\ pc[t] = "lookup" /\ pc'[t] = "release"
          /\ UNCHANGED <<id, using, local_strong_references>>
      BY <2>9 DEF LookUp
    <3>2. using[t] \in Variables /\ id[t] \in 1 .. MaxThreads
      BY <3>1, InCall DEF Idle
    <3>3. PICK x \in {NullPtr, Own(t)} :
            /\ map' = [map EXCEPT ![using[t]][id[t]] = x]
            /\ map[using[t]][id[t]] = Own(t) => x = Own(t)
            /\ weak'[t] = x /\ (had'[t] <=> map[using[t]][id[t]] # Absent)
            /\ map[using[t]][id[t]] = Absent => x = NullPtr
      BY <2>9, <3>1, Writes
    <3>4. \A v \in Variables :
            map'[v][id[t]] = IF v = using[t] THEN x ELSE map[v][id[t]]
      BY <3>2, <3>3, MapWrite
    <3>5. \A v \in Variables : ValueOf(id[t], v)' = ValueOf(id[t], v)
      BY <3>1 DEF ValueOf
    <3>6. ~had'[t] => weak'[t] = NullPtr
      BY <3>3
    <3>7. ASSUME NEW v \in Variables, ValueOf(id[t], v) \in local_strong_references[t]
          PROVE  map'[v][id[t]] = ValueOf(id[t], v)
      BY <2>0, <3>1, <3>3, <3>4, <3>7 DEF Kept, Own
    <3> QED
      BY <3>1, <3>2, <3>3, <3>4, <3>5, <3>6, <3>7 DEF Kept, NullPtr
  <2>10. CASE Lock(t)
    BY <2>2, <2>10 DEF Lock, maps
  <2>11. CASE Create(t)
    <3>1. pc[t] = "create" /\ id' = id /\ map' = map
      BY <2>11 DEF Create, maps
    <3>2. CASE LeaveCall(t)
      <4>1. \/ local_strong_references' = local_strong_references
            \/ pc'[t] = "acquire again"
        BY <2>11 DEF Create
      <4>2. pc'[t] = "running"
        BY <3>2 DEF LeaveCall
      <4> QED
        BY <2>2, <3>1, <4>1, <4>2
    <3>3. CASE ~LeaveCall(t)
      <4>1. /\ local_strong_references' =
                 [local_strong_references EXCEPT ![t] = @ \cup {Own(t)}]
            /\ pc' = [pc EXCEPT ![t] = "acquire again"]
            /\ using' = using
        BY Zenon, <2>11, <3>1, <3>3, MadeIsOwn DEF Create
      <4>2. /\ local_strong_references'[t] = local_strong_references[t] \cup {Own(t)}
            /\ pc'[t] = "acquire again" /\ using'[t] = using[t]
        BY <4>1
      <4>3. \A v \in Variables : ValueOf(id[t], v)' = ValueOf(id[t], v)
        BY <3>1 DEF ValueOf
      <4>4. ASSUME NEW v \in Variables,
                   ValueOf(id[t], v) \in local_strong_references[t] \cup {Own(t)}
            PROVE  map[v][id[t]] = ValueOf(id[t], v) \/ using[t] = v
        <5>1. CASE ValueOf(id[t], v) = Own(t)
          BY <5>1, SameValue DEF Own
        <5>2. CASE ValueOf(id[t], v) \in local_strong_references[t]
          BY <2>0, <3>1, <5>2 DEF Kept
        <5> QED
          BY <4>4, <5>1, <5>2
      <4> QED
        BY <3>1, <4>2, <4>3, <4>4 DEF Kept
    <3> QED
      BY <3>2, <3>3
  <2>12. CASE Store(t)
    <3>1. /\ pc[t] = "store" /\ pc'[t] = "release again"
          /\ UNCHANGED <<id, using, local_strong_references>>
      BY <2>12 DEF Store, call
    <3>2. using[t] \in Variables /\ id[t] \in 1 .. MaxThreads
      BY <3>1, InCall DEF Idle
    <3>3. map' = [map EXCEPT ![using[t]][id[t]] = Own(t)]
      BY <2>12, <3>1, Writes
    <3>4. \A v \in Variables :
            map'[v][id[t]] = IF v = using[t] THEN Own(t) ELSE map[v][id[t]]
      BY <3>2, <3>3, MapWrite
    <3>5. \A v \in Variables : ValueOf(id[t], v)' = ValueOf(id[t], v)
      BY <3>1 DEF ValueOf
    <3>6. ASSUME NEW v \in Variables, ValueOf(id[t], v) \in local_strong_references[t]
          PROVE  map'[v][id[t]] = ValueOf(id[t], v)
      BY <2>0, <3>1, <3>4, <3>6 DEF Kept, Own
    <3> QED
      BY <3>1, <3>5, <3>6 DEF Kept
  <2>13. CASE Return(t)
    BY <2>2, <2>13 DEF Return, LeaveCall, maps
  <2> QED
    BY <1>1, <2>3, <2>4, <2>5, <2>6, <2>7, <2>8, <2>9, <2>10, <2>11, <2>12, <2>13
       DEF Acts, Step
<1>2. ASSUME NEW t \in Threads, Acts(t) PROVE \A u \in Threads : Kept(u)'
  BY <1>1, <1>2, OthersKept
<1>3. (Remembered <=> \A t \in Threads : Kept(t))'
  BY RememberedIsKept, PTL
<1>4. ASSUME UNCHANGED <<pc, id, using, had, weak, strong, local_strong_references, map, wild>>
      PROVE  Remembered'
  BY <1>4 DEF IInv, Remembered, ValueOf, NullPtr
<1> QED
  BY <1>2, <1>3, <1>4, Steps, IdleSame

(***************************************************************************)
(* Every value has a copy of its deleter.                                  *)
(***************************************************************************)
LEMMA WildStep == IInv /\ [Next]_vars => wild' = FALSE
<1> SUFFICES ASSUME IInv, [Next]_vars PROVE wild' = FALSE
  OBVIOUS
<1>0. wild = FALSE
  BY DEF IInv
<1>1. ASSUME NEW t \in Threads, Acts(t) PROVE wild' = FALSE
  <2>1. CASE ExitThread(t)
    <3>1. \A x \in local_strong_references[t] : x.deleter # "variable"
      BY DEF IInv, Values, ValueOf
    <3> QED
      BY <1>0, <2>1, <3>1 DEF ExitThread
  <2>2. CASE StartThread(t) \/ (\E v \in Variables : Dereference(t, v)) \/ Step(t)
    BY <1>0, <2>2 DEF StartThread, Dereference, Step, AcquireMap, LookUp, ReleaseMap, Lock,
                      Create, Store, Return
  <2> QED
    BY <1>1, <2>1, <2>2 DEF Acts
<1> QED
  BY <1>0, <1>1, Steps, IdleSame

-----------------------------------------------------------------------------
(***************************************************************************)
(* Types.                                                                  *)
(***************************************************************************)
Pcs == {"none", "running", "acquire", "lookup", "release", "lock", "create",
        "acquire again", "store", "release again", "return"}

ValueSet == [id : 0 .. MaxThreads, variable : Variables \cup {"none"}, nth : Nat,
             deleter : {"none", "copy", "variable"}]

ControlTypes ==
  /\ pc \in [Threads -> Pcs]
  /\ using \in [Threads -> Variables \cup {"none"}] /\ had \in [Threads -> BOOLEAN]
  /\ map_atomic \in [Variables -> {"map", "nullptr"}]
  /\ DOMAIN map = Variables /\ destroyed \subseteq Variables

CountTypes ==
  /\ id \in [Threads -> 0 .. MaxThreads] /\ globallyUniqueId \in 1 .. MaxThreads + 1
  /\ started \in 0 .. MaxThreads /\ uses \in [Threads -> 0 .. MaxUses]

LEMMA TypesSuffice ==
  /\ ControlTypes /\ CountTypes /\ wild = FALSE
  /\ Alive \cup {weak[t] : t \in Threads} \subseteq ValueSet
  => TypeOK
  BY Zenon DEF ControlTypes, CountTypes, Pcs, ValueSet, TypeOK

LEMMA ControlTypesStep == IInv /\ [Next]_vars => ControlTypes'
<1> SUFFICES ASSUME IInv, [Next]_vars PROVE ControlTypes'
  OBVIOUS
<1>0. ControlTypes
  BY Zenon DEF IInv, TypeOK, ControlTypes, Pcs
<1> USE <1>0, Shapes DEF ControlTypes, Pcs, call, maps
<1>1. ASSUME NEW t \in Threads, Acts(t) PROVE ControlTypes'
  <2>1. CASE StartThread(t)
    BY <2>1 DEF StartThread
  <2>2. CASE ExitThread(t)
    BY <2>2 DEF ExitThread
  <2>3. ASSUME NEW v \in Variables, Dereference(t, v) PROVE ControlTypes'
    BY <2>3 DEF Dereference
  <2>4. CASE AcquireMap(t, "acquire", "lookup") \/ AcquireMap(t, "acquire again", "store")
    <3>1. /\ pc' = [pc EXCEPT ![t] = "lookup"] \/ pc' = [pc EXCEPT ![t] = "store"]
          /\ map_atomic' = [map_atomic EXCEPT ![using[t]] = "nullptr"]
          /\ UNCHANGED <<using, had, map, destroyed>>
      BY <2>4 DEF AcquireMap
    <3>2. pc' \in [Threads -> Pcs] /\ map_atomic' \in [Variables -> {"map", "nullptr"}]
      BY <3>1
    <3> QED
      BY <3>1, <3>2
  <2>5. CASE ReleaseMap(t, "release", "lock") \/ ReleaseMap(t, "release again", "return")
    <3>1. /\ pc' = [pc EXCEPT ![t] = "lock"] \/ pc' = [pc EXCEPT ![t] = "return"]
          /\ map_atomic' = [map_atomic EXCEPT ![using[t]] = "map"]
          /\ UNCHANGED <<using, had, map, destroyed>>
      BY <2>5 DEF ReleaseMap
    <3>2. pc' \in [Threads -> Pcs] /\ map_atomic' \in [Variables -> {"map", "nullptr"}]
      BY <3>1
    <3> QED
      BY <3>1, <3>2
  <2>6. CASE LookUp(t)
    BY <2>6 DEF LookUp
  <2>7. CASE Lock(t)
    BY <2>7 DEF Lock
  <2>8. CASE Create(t)
    BY <2>8 DEF Create, LeaveCall
  <2>9. CASE Store(t) \/ Return(t)
    BY <2>9 DEF Store, Return, LeaveCall
  <2> QED
    BY <1>1, <2>1, <2>2, <2>3, <2>4, <2>5, <2>6, <2>7, <2>8, <2>9 DEF Acts, Step
<1>2. ASSUME NEW v \in Variables, DestroyVariable(v) PROVE ControlTypes'
  BY <1>2 DEF DestroyVariable
<1>3. CASE UNCHANGED vars
  BY <1>3 DEF vars
<1> QED
  BY <1>1, <1>2, <1>3, Steps

(***************************************************************************)
(* The identifiers stay below the number of threads that were started.     *)
(***************************************************************************)
LEMMA CountTypesStep == IInv /\ [Next]_vars => CountTypes'
<1> SUFFICES ASSUME IInv, [Next]_vars PROVE CountTypes'
  OBVIOUS
<1>0. CountTypes
  BY Zenon DEF IInv, TypeOK, CountTypes
<1>1. MaxThreads \in Nat /\ MaxUses \in Nat
  BY ThreadLocalAssumption
<1> USE DEF CountTypes
<1>2. ASSUME NEW t \in Threads, StartThread(t) PROVE CountTypes'
  <2>1. /\ UNCHANGED <<id, globallyUniqueId, uses>>
        /\ started < MaxThreads /\ started' = started + 1
    BY <1>2 DEF StartThread
  <2>2. started' \in 0 .. MaxThreads
    BY <1>0, <1>1, <2>1
  <2> QED
    BY Zenon, <1>0, <2>1, <2>2
<1>3. ASSUME NEW t \in Threads, ExitThread(t) PROVE CountTypes'
  <2>1. /\ UNCHANGED <<globallyUniqueId, started>>
        /\ id' = [id EXCEPT ![t] = 0] /\ uses' = [uses EXCEPT ![t] = 0]
    BY <1>3 DEF ExitThread
  <2>2. 0 \in 0 .. MaxThreads /\ 0 \in 0 .. MaxUses
    BY <1>1
  <2> QED
    BY Zenon, <1>0, <2>1, <2>2
<1>4. ASSUME NEW t \in Threads, NEW v \in Variables, Dereference(t, v) PROVE CountTypes'
  <2>1. /\ started' = started /\ uses[t] < MaxUses /\ pc[t] = "running"
        /\ uses' = [uses EXCEPT ![t] = @ + 1]
    BY <1>4 DEF Dereference
  <2>2. uses[t] + 1 \in 0 .. MaxUses
    BY <1>0, <1>1, <2>1
  <2>3. uses' \in [Threads -> 0 .. MaxUses]
    BY Zenon, <1>0, <2>1, <2>2
  <2>4. CASE id[t] = 0
    <3>1. /\ id' = [id EXCEPT ![t] = globallyUniqueId]
          /\ globallyUniqueId' = globallyUniqueId + 1
      BY <1>4, <2>4 DEF Dereference, GetThreadId
    <3>2. t \in Unnamed
      BY <2>1, <2>4 DEF Unnamed
    <3>3. Cardinality(Unnamed) \in Nat /\ Cardinality(Unnamed) # 0
      BY <3>2, UnnamedFinite, FS_EmptySet
    <3>4. globallyUniqueId + Cardinality(Unnamed) <= started + 1
      BY DEF IInv, Identifiers
    <3>5. /\ globallyUniqueId \in 0 .. MaxThreads
          /\ globallyUniqueId + 1 \in 1 .. MaxThreads + 1
      BY <1>0, <1>1, <3>3, <3>4
    <3> QED
      BY Zenon, <1>0, <2>1, <2>3, <3>1, <3>5
  <2>5. CASE id[t] # 0
    <3>1. UNCHANGED <<id, globallyUniqueId>>
      BY <1>4, <2>5 DEF Dereference, GetThreadId
    <3> QED
      BY Zenon, <1>0, <2>1, <2>3, <3>1
  <2> QED
    BY <2>4, <2>5
<1>5. ASSUME NEW t \in Threads, Step(t) PROVE UNCHANGED <<id, globallyUniqueId, started, uses>>
  BY <1>5 DEF Step, AcquireMap, LookUp, ReleaseMap, Lock, Create, Store, Return, bounds
<1>6. ASSUME NEW v \in Variables, DestroyVariable(v)
      PROVE  UNCHANGED <<id, globallyUniqueId, started, uses>>
  BY <1>6 DEF DestroyVariable, bounds
<1>7. UNCHANGED vars => UNCHANGED <<id, globallyUniqueId, started, uses>>
  BY DEF vars, bounds
<1>8. UNCHANGED <<id, globallyUniqueId, started, uses>> => CountTypes'
  BY Zenon, <1>0
<1> QED
  BY <1>2, <1>3, <1>4, <1>5, <1>6, <1>7, <1>8 DEF Next

(***************************************************************************)
(* The values are of their type because they are their thread's own.       *)
(***************************************************************************)
LEMMA OwnValues ==
  ControlTypes /\ CountTypes /\ Calls /\ Values =>
    Alive \cup {weak[t] : t \in Threads} \subseteq ValueSet
<1> SUFFICES ASSUME ControlTypes, CountTypes, Calls, Values
             PROVE  Alive \cup {weak[t] : t \in Threads} \subseteq ValueSet
  OBVIOUS
<1>1. \A t \in Threads : id[t] \in 0 .. MaxThreads
  BY Zenon DEF CountTypes
<1>2. \A i \in 0 .. MaxThreads, v \in Variables \cup {"none"} : ValueOf(i, v) \in ValueSet
  BY DEF ValueOf, ValueSet
<1>3. \A t \in Threads : Own(t) \in ValueSet
  BY <1>1, <1>2 DEF ControlTypes, Own
<1>4. NullPtr \in ValueSet
  BY ThreadLocalAssumption DEF NullPtr, ValueSet
<1>5. \A t \in Threads : weak[t] \in ValueSet /\ strong[t] \in ValueSet
  BY <1>3, <1>4 DEF Calls, CallOf
<1>6. \A t \in Threads : local_strong_references[t] \subseteq ValueSet
  BY <1>1, <1>2 DEF Values
<1> DEFINE kept == UNION {local_strong_references[t] : t \in Threads}
           strongs == {strong[t] : t \in Threads}
           weaks == {weak[t] : t \in Threads}
<1>7. kept \subseteq ValueSet
  BY <1>6
<1>8. strongs \subseteq ValueSet /\ weaks \subseteq ValueSet
  BY <1>5
<1>9. Alive = (kept \cup strongs) \ {NullPtr}
  BY Zenon DEF Alive
<1> HIDE DEF kept, strongs, weaks
<1>10. Alive \cup weaks \subseteq ValueSet
  BY <1>7, <1>8, <1>9
<1> QED
  BY <1>10 DEF weaks

-----------------------------------------------------------------------------
LEMMA InitInvariant == Init => IInv
<1> SUFFICES ASSUME Init PROVE IInv
  OBVIOUS
<1> USE ThreadLocalAssumption DEF Init
<1>1. ControlTypes
  BY DEF ControlTypes, Pcs
<1>2. CountTypes
  <2>1. 0 \in 0 .. MaxThreads /\ 0 \in 0 .. MaxUses /\ 1 \in 1 .. MaxThreads + 1
    OBVIOUS
  <2> QED
    BY Zenon, <2>1 DEF CountTypes
<1>3. Locals
  BY DEF Locals
<1>4. Identifiers
  <2>1. Unnamed = {}
    BY DEF Unnamed
  <2>2. Cardinality(Unnamed) = 0
    BY <2>1, FS_EmptySet
  <2> QED
    BY <2>2 DEF Identifiers, Idle
<1>5. MapHasOneOwner
  BY DEF MapHasOneOwner, Owners
<1>6. Calls
  BY DEF Calls, CallOf, Idle, Holds
<1>7. Values
  BY DEF Values
<1>8. Remembered
  BY DEF Remembered
<1>9. TypeOK /\ wild = FALSE
  BY <1>1, <1>2, <1>6, <1>7, OwnValues, TypesSuffice
<1> QED
  BY <1>3, <1>4, <1>5, <1>6, <1>7, <1>8, <1>9 DEF IInv

LEMMA NextInvariant == IInv /\ [Next]_vars => IInv'
<1> SUFFICES ASSUME IInv, [Next]_vars PROVE IInv'
  OBVIOUS
<1>1. ControlTypes' /\ CountTypes' /\ Calls' /\ Values' /\ wild' = FALSE
  BY ControlTypesStep, CountTypesStep, CallsStep, ValuesStep, WildStep
<1>2. (ControlTypes /\ CountTypes /\ Calls /\ Values =>
         Alive \cup {weak[t] : t \in Threads} \subseteq ValueSet)'
  BY OwnValues, PTL
<1>3. (/\ ControlTypes /\ CountTypes /\ wild = FALSE
       /\ Alive \cup {weak[t] : t \in Threads} \subseteq ValueSet
       => TypeOK)'
  BY TypesSuffice, PTL
<1>4. TypeOK'
  BY <1>1, <1>2, <1>3
<1> QED
  BY <1>1, <1>4, LocalsStep, IdentifiersStep, MapHasOneOwnerStep, RememberedStep DEF IInv

THEOREM Invariant == Spec => []IInv
  BY InitInvariant, NextInvariant, PTL DEF Spec

(***************************************************************************)
(* operator* returns the one value that the calling thread has made for    *)
(* this variable, and no two threads are in the map.                       *)
(***************************************************************************)
THEOREM ValuesAreOwn == Spec => []EachItsOwn
<1>1. IInv => EachItsOwn
  <2> SUFFICES ASSUME IInv PROVE EachItsOwn
    OBVIOUS
  <2>1. ASSUME NEW v \in Variables
        PROVE  Cardinality(Owners(v)) = IF map_atomic[v] = "map" THEN 0 ELSE 1
    <3>1. CASE map_atomic[v] = "map"
      <4>1. Owners(v) = {}
        BY <3>1 DEF IInv, MapHasOneOwner
      <4> QED
        BY <3>1, <4>1, FS_EmptySet
    <3>2. CASE map_atomic[v] # "map"
      <4>1. PICK t \in Threads : Owners(v) = {t}
        BY <3>2 DEF IInv, MapHasOneOwner
      <4> QED
        BY <3>2, <4>1, FS_Singleton
    <3> QED
      BY <3>1, <3>2
  <2>2. ASSUME NEW t \in Threads, pc[t] = "return"
        PROVE  /\ strong[t] \in local_strong_references[t]
               /\ strong[t].variable = using[t] /\ strong[t].id = id[t]
               /\ strong[t].nth = 0
               /\ \A u \in Threads \ {t} : strong[t] \notin local_strong_references[u]
    <3>1. strong[t] = Own(t) /\ Own(t) \in local_strong_references[t]
      BY <2>2 DEF IInv, Calls, CallOf, Holds
    <3>2. Own(t).variable = using[t] /\ Own(t).id = id[t] /\ Own(t).nth = 0
      BY DEF Own, ValueOf
    <3>3. ASSUME NEW u \in Threads \ {t}, Own(t) \in local_strong_references[u] PROVE FALSE
      <4>1. PICK v \in Variables : Own(t) = ValueOf(id[u], v)
        BY <3>3 DEF IInv, Values
      <4>2. id[t] = id[u]
        BY <4>1, SameValue DEF Own
      <4>3. id[t] # 0
        BY <2>2 DEF IInv, Identifiers, Idle
      <4> QED
        BY <4>2, <4>3 DEF IInv, Identifiers
    <3> QED
      BY <3>1, <3>2, <3>3
  <2>3. TypeOK
    BY DEF IInv
  <2> QED
    BY <2>1, <2>2, <2>3 DEF EachItsOwn
<1> QED
  BY <1>1, Invariant, PTL

(***************************************************************************)
(* A value dies with its thread, by a deleter that is still there.         *)
(***************************************************************************)
THEOREM ValuesDieWithThread == Spec => []DiesWithThread
<1>1. IInv => DiesWithThread
  <2> SUFFICES ASSUME IInv, NEW x \in Alive
               PROVE  \E t \in Threads : pc[t] # "none" /\ id[t] = x.id
    BY DEF DiesWithThread, IInv
  <2>1. PICK t \in Threads : x \in local_strong_references[t]
    BY AliveIsKept
  <2>2. PICK v \in Variables : x = ValueOf(id[t], v)
    BY <2>1 DEF IInv, Values
  <2>3. x.id = id[t]
    BY <2>2 DEF ValueOf
  <2>4. pc[t] # "none"
    BY <2>1 DEF IInv, Identifiers, Values
  <2> QED
    BY <2>3, <2>4
<1> QED
  BY <1>1, Invariant, PTL

=============================================================================
