------------------------- MODULE ThreadLocalVariable -------------------------
(***************************************************************************)
(* Threads that come and go and use ThreadLocalVariables of one type       *)
(* (powercores/include/powercores/thread_local_variable.hpp).  A variable  *)
(* keeps a weak pointer per thread identifier in a map, and hands the map  *)
(* from thread to thread by exchanging a pointer to it.  What keeps a      *)
(* value alive is the vector local_strong_references of the thread that    *)
(* made it, which all variables of the type share.                         *)
(*                                                                         *)
(* A creator may throw.  A variable may be destroyed before the threads    *)
(* that have used it, but when it is, none is inside it.  A deleter, and a *)
(* callable given to atThreadExit, does not use a variable: it has the     *)
(* restrictions of a destructor (line 28, utilities.hpp:88).               *)
(***************************************************************************)
EXTENDS Integers, FiniteSets

CONSTANTS
  Threads,      \* the operating system's threads, which are reused
  Variables,
  MaxThreads,   \* bound: threads ever started
  MaxUses       \* bound: calls of operator* by one thread

ASSUME ThreadLocalAssumption ==
  /\ IsFiniteSet(Threads) /\ IsFiniteSet(Variables) /\ "none" \notin Variables
  /\ MaxThreads \in Nat /\ MaxUses \in Nat

VARIABLES
  pc, id,             \* of each thread; identifier 0 means no id
  using,              \* the variable that its operator* is called on
  had, weak, strong,  \* and the locals of this call
  local_strong_references,
  globallyUniqueId,
  map_atomic, map,    \* of each variable
  destroyed,          \* the variables that are
  wild,               \* a deleter was looked for in a destroyed variable
  started, uses       \* counts, for the bounds

call   == <<using, had, weak, strong>>
maps   == <<map_atomic, map, destroyed>>
bounds == <<started, uses>>
vars   == <<pc, id, globallyUniqueId, call, local_strong_references, maps, wild,
            bounds>>

NullPtr == [id |-> 0, variable |-> "none", nth |-> 0, deleter |-> "none"]
Absent  == [absent |-> TRUE]   \* no entry in the map

\* The values with a use count above zero.
Alive == ((UNION {local_strong_references[t] : t \in Threads})
            \cup {strong[t] : t \in Threads}) \ {NullPtr}

Init ==
  /\ pc = [t \in Threads |-> "none"]
  /\ id = [t \in Threads |-> 0] /\ globallyUniqueId = 1
  /\ using = [t \in Threads |-> "none"] /\ had = [t \in Threads |-> FALSE]
  /\ weak = [t \in Threads |-> NullPtr] /\ strong = [t \in Threads |-> NullPtr]
  /\ local_strong_references = [t \in Threads |-> {}]
  /\ map_atomic = [v \in Variables |-> "map"]
  /\ map = [v \in Variables |-> [i \in 1 .. MaxThreads |-> Absent]]
  /\ destroyed = {} /\ wild = FALSE
  /\ started = 0 /\ uses = [t \in Threads |-> 0]

-----------------------------------------------------------------------------
(* The life of a thread, and of a variable.                                *)

StartThread(t) ==
  /\ pc[t] = "none" /\ started < MaxThreads
  /\ pc' = [pc EXCEPT ![t] = "running"]
  /\ started' = started + 1
  /\ UNCHANGED <<id, globallyUniqueId, call, local_strong_references, maps, wild,
                 uses>>

\* The thread-local vector goes out of scope, and the deleters run.
ExitThread(t) ==
  /\ pc[t] = "running"
  /\ pc' = [pc EXCEPT ![t] = "none"]
  /\ id' = [id EXCEPT ![t] = 0] /\ uses' = [uses EXCEPT ![t] = 0]
  /\ local_strong_references' = [local_strong_references EXCEPT ![t] = {}]
  /\ wild' = \/ wild
             \/ \E x \in local_strong_references[t] :
                  x.deleter = "variable" /\ x.variable \in destroyed
  /\ UNCHANGED <<globallyUniqueId, call, maps, started>>

DestroyVariable(v) ==
  /\ v \notin destroyed /\ \A t \in Threads : using[t] # v
  /\ destroyed' = destroyed \cup {v}
  /\ UNCHANGED <<pc, id, globallyUniqueId, call, local_strong_references,
                 map_atomic, map, wild, bounds>>

-----------------------------------------------------------------------------
(* operator*                                                               *)

\* Mutant: the counter is read and written, and an update can be lost.
GetThreadId_Lost(t) ==
  IF id[t] = 0
    THEN /\ id' = [id EXCEPT ![t] = globallyUniqueId]
         /\ globallyUniqueId' \in {globallyUniqueId, globallyUniqueId + 1}
    ELSE UNCHANGED <<id, globallyUniqueId>>

GetThreadId(t) ==
  IF id[t] = 0
    THEN /\ id' = [id EXCEPT ![t] = globallyUniqueId]
         /\ globallyUniqueId' = globallyUniqueId + 1
    ELSE UNCHANGED <<id, globallyUniqueId>>

Dereference(t, v) ==
  /\ pc[t] = "running" /\ v \notin destroyed /\ uses[t] < MaxUses
  /\ GetThreadId(t)
  /\ using' = [using EXCEPT ![t] = v]
  /\ uses' = [uses EXCEPT ![t] = @ + 1]
  /\ pc' = [pc EXCEPT ![t] = "acquire"]
  /\ UNCHANGED <<had, weak, strong, local_strong_references, maps, wild,
                 started>>

\* Mutant: the pointer is read, and not exchanged.
AcquireMap_Load(t, from, to) ==
  /\ pc[t] = from /\ map_atomic[using[t]] = "map"
  /\ UNCHANGED map_atomic
  /\ pc' = [pc EXCEPT ![t] = to]
  /\ UNCHANGED <<id, globallyUniqueId, call, local_strong_references, map,
                 destroyed, wild, bounds>>

\* The exchange that reads the map; one that reads nullptr changes nothing.
AcquireMap(t, from, to) ==
  /\ pc[t] = from /\ map_atomic[using[t]] = "map"
  /\ map_atomic' = [map_atomic EXCEPT ![using[t]] = "nullptr"]
  /\ pc' = [pc EXCEPT ![t] = to]
  /\ UNCHANGED <<id, globallyUniqueId, call, local_strong_references, map,
                 destroyed, wild, bounds>>

ReleaseMap(t, from, to) ==
  /\ pc[t] = from
  /\ map_atomic' = [map_atomic EXCEPT ![using[t]] = "map"]
  /\ pc' = [pc EXCEPT ![t] = to]
  /\ UNCHANGED <<id, globallyUniqueId, call, local_strong_references, map,
                 destroyed, wild, bounds>>

\* map[id] makes an empty entry where there was none.
LookUp(t) ==
  LET entry == map[using[t]][id[t]]
      found == IF entry = Absent THEN NullPtr ELSE entry
  IN  /\ pc[t] = "lookup"
      /\ had' = [had EXCEPT ![t] = entry # Absent]
      /\ weak' = [weak EXCEPT ![t] = found]
      /\ map' = [map EXCEPT ![using[t]][id[t]] = found]
      /\ pc' = [pc EXCEPT ![t] = "release"]
      /\ UNCHANGED <<id, globallyUniqueId, using, strong, map_atomic, destroyed,
                     local_strong_references, wild, bounds>>

\* weak.lock()
Locked(x) == IF x \in Alive THEN x ELSE NullPtr

\* Mutant: an entry in the map is taken for a value.
MustCreate_Had(t) == ~had[t]

MustCreate(t) == ~had[t] \/ Locked(weak[t]) = NullPtr

Lock(t) ==
  /\ pc[t] = "lock"
  /\ strong' = [strong EXCEPT ![t] = Locked(weak[t])]
  /\ pc' = [pc EXCEPT ![t] = IF MustCreate(t) THEN "create" ELSE "return"]
  /\ UNCHANGED <<id, globallyUniqueId, using, had, weak, maps, wild, bounds,
                 local_strong_references>>

Earlier(t) == {x \in local_strong_references[t] : x.variable = using[t]}

\* Mutant: the deleter is the one in the variable.
Made_Borrows(t) == [id |-> id[t], variable |-> using[t],
                    nth |-> Cardinality(Earlier(t)), deleter |-> "variable"]

\* A value with "a copy" of the deleter; nth counts what the thread had before.
Made(t) == [id |-> id[t], variable |-> using[t],
            nth |-> Cardinality(Earlier(t)), deleter |-> "copy"]

\* The locals of the call are gone.
LeaveCall(t) ==
  /\ pc' = [pc EXCEPT ![t] = "running"]
  /\ using' = [using EXCEPT ![t] = "none"] /\ had' = [had EXCEPT ![t] = FALSE]
  /\ weak' = [weak EXCEPT ![t] = NullPtr] /\ strong' = [strong EXCEPT ![t] = NullPtr]

\* The creator returns, or throws.
Create(t) ==
  /\ pc[t] = "create"
  /\ \/ /\ strong' = [strong EXCEPT ![t] = Made(t)]
        /\ local_strong_references' =
             [local_strong_references EXCEPT ![t] = @ \cup {Made(t)}]
        /\ pc' = [pc EXCEPT ![t] = "acquire again"]
        /\ UNCHANGED <<using, had, weak>>
     \/ LeaveCall(t) /\ UNCHANGED local_strong_references
  /\ UNCHANGED <<id, globallyUniqueId, maps, wild, bounds>>

\* Mutant: the map is not given back when the new value is in it.
Store_Keeps(t) ==
  /\ pc[t] = "store"
  /\ map' = [map EXCEPT ![using[t]][id[t]] = strong[t]]
  /\ pc' = [pc EXCEPT ![t] = "return"]
  /\ UNCHANGED <<id, globallyUniqueId, call, map_atomic, destroyed, wild, bounds,
                 local_strong_references>>

Store(t) ==
  /\ pc[t] = "store"
  /\ map' = [map EXCEPT ![using[t]][id[t]] = strong[t]]
  /\ pc' = [pc EXCEPT ![t] = "release again"]
  /\ UNCHANGED <<id, globallyUniqueId, call, map_atomic, destroyed, wild, bounds,
                 local_strong_references>>

\* return *strong
Return(t) ==
  /\ pc[t] = "return"
  /\ LeaveCall(t)
  /\ UNCHANGED <<id, globallyUniqueId, local_strong_references, maps, wild, bounds>>

Step(t) ==
  \/ AcquireMap(t, "acquire", "lookup") \/ LookUp(t)
  \/ ReleaseMap(t, "release", "lock") \/ Lock(t) \/ Create(t)
  \/ AcquireMap(t, "acquire again", "store") \/ Store(t)
  \/ ReleaseMap(t, "release again", "return") \/ Return(t)

Next ==
  \/ \E t \in Threads : StartThread(t) \/ ExitThread(t) \/ Step(t)
  \/ \E t \in Threads, v \in Variables : Dereference(t, v)
  \/ \E v \in Variables : DestroyVariable(v)

\* A thread inside operator* goes on; a bounded number of calls is all that can
\* come between its reading of the map pointer and the next.
Spec     == Init /\ [][Next]_vars
FairSpec == Spec /\ \A t \in Threads : WF_vars(Step(t))

-----------------------------------------------------------------------------
(* Properties.                                                             *)

Owners(v) == {t \in Threads : using[t] = v /\
                pc[t] \in {"lookup", "release", "store", "release again"}}

TypeOK ==
  /\ pc \in [Threads ->
       {"none", "running", "acquire", "lookup", "release", "lock", "create",
        "acquire again", "store", "release again", "return"}]
  /\ id \in [Threads -> 0 .. MaxThreads]
  /\ globallyUniqueId \in 1 .. MaxThreads + 1
  /\ using \in [Threads -> Variables \cup {"none"}]
  /\ had \in [Threads -> BOOLEAN]
  /\ Alive \cup {weak[t] : t \in Threads} \subseteq
       [id : 0 .. MaxThreads, variable : Variables \cup {"none"}, nth : Nat,
        deleter : {"none", "copy", "variable"}]
  /\ map_atomic \in [Variables -> {"map", "nullptr"}]
  /\ DOMAIN map = Variables /\ destroyed \subseteq Variables /\ wild \in BOOLEAN
  /\ started \in 0 .. MaxThreads /\ uses \in [Threads -> 0 .. MaxUses]

\* operator* returns a value that this thread, and no other, made for this
\* variable, and the only one it ever made: a thread writes and reads the same
\* value, whatever the other threads do and although creators throw and entries
\* of threads that are gone stay in the map.  The map has one owner at most.
\* (Lines 35-54; "Failed to be persistent", test_thread_local_variable.cpp:28.)
EachItsOwn ==
  /\ TypeOK
  /\ \A v \in Variables :
       Cardinality(Owners(v)) = IF map_atomic[v] = "map" THEN 0 ELSE 1
  /\ \A t \in Threads : pc[t] = "return" =>
       /\ strong[t] \in local_strong_references[t]
       /\ strong[t].variable = using[t] /\ strong[t].id = id[t]
       /\ strong[t].nth = 0
       /\ \A u \in Threads \ {t} : strong[t] \notin local_strong_references[u]

\* "The weak pointer will die when the thread does" (line 47): no value outlives
\* the thread that made it, and its deleter is there even if the variable is not.
DiesWithThread ==
  /\ ~wild
  /\ \A x \in Alive : \E t \in Threads : pc[t] # "none" /\ id[t] = x.id

\* Every call returns, or throws what the creator threw: a thread that spins for
\* the map gets it, also after another's creator has thrown (line 62).
CallsReturn == \A t \in Threads : using[t] # "none" ~> using[t] = "none"

==============================================================================
