---------------------- MODULE SingleThreadedApartment ----------------------
(***************************************************************************)
(* SingleThreadedApartment: a thread with a message loop that runs COM     *)
(* calls for other threads.  There is room for one task, a pointer to an   *)
(* object on the caller's stack; callers compete for that room with a      *)
(* compare-and-exchange and post a message when they have it.              *)
(*                                                                         *)
(* The usual names begin with STA here: Library, whose WASAPI factory      *)
(* makes such calls, and this module are proved about in one module.       *)
(***************************************************************************)
EXTENDS Integers, Sequences, SequencesExt

CONSTANTS Callers

ASSUME ApartmentAssumption == "nullptr" \notin Callers

nullptr == "nullptr"

VARIABLES
  current_task,   \* the caller whose task is to be run, or nullptr
  ready,          \* the flag the constructor polls
  queue,          \* messages posted to the apartment's thread
  has_queue,      \* whether that thread has a message queue yet
  apartment_pc, task,   \* the apartment's thread and its local
  caller_pc,      \* where each caller is in callInApartment
  future,         \* whether each caller's future has its value
  owner_pc        \* constructor and destructor

apartment == <<apartment_pc, task>>
callers   == <<caller_pc, future>>
STAvars == <<current_task, ready, queue, has_queue, apartment, callers, owner_pc>>

STAInit ==
  /\ current_task = nullptr /\ ready = 0
  /\ queue = <<>> /\ has_queue = FALSE
  /\ apartment_pc = "start" /\ task = nullptr
  /\ caller_pc = [c \in Callers |-> "idle"]
  /\ future = [c \in Callers |-> FALSE]
  /\ owner_pc = "construct"

\* PostThreadMessage fails, unnoticed, when the thread has no queue.
SendMessage(message) == queue' = IF has_queue THEN Append(queue, message) ELSE queue

-----------------------------------------------------------------------------
(* The callers: callInApartment and submitTask.                            *)

CallInApartment(c) ==
  /\ owner_pc = "using"
  /\ caller_pc[c] = "idle"
  /\ caller_pc' = [caller_pc EXCEPT ![c] = "claim"]
  /\ future' = [future EXCEPT ![c] = FALSE]
  /\ UNCHANGED <<current_task, ready, queue, has_queue, apartment, owner_pc>>

\* Mutant: the task is stored over the one that is there.
Claim_NoCompare(c) ==
  /\ caller_pc[c] = "claim"
  /\ current_task' = c
  /\ caller_pc' = [caller_pc EXCEPT ![c] = "send"]
  /\ UNCHANGED <<future, ready, queue, has_queue, apartment, owner_pc>>

\* The exchange that succeeds; one that fails, spuriously or not, is repeated.
Claim(c) ==
  /\ caller_pc[c] = "claim"
  /\ current_task = nullptr
  /\ current_task' = c
  /\ caller_pc' = [caller_pc EXCEPT ![c] = "send"]
  /\ UNCHANGED <<future, ready, queue, has_queue, apartment, owner_pc>>

Send(c) ==
  /\ caller_pc[c] = "send"
  /\ SendMessage("task")
  /\ caller_pc' = [caller_pc EXCEPT ![c] = "wait"]
  /\ UNCHANGED <<current_task, ready, has_queue, apartment, future, owner_pc>>

\* future.wait() is over, and the task is destroyed with the caller's frame.
Return(c) ==
  /\ caller_pc[c] = "wait"
  /\ future[c]
  /\ caller_pc' = [caller_pc EXCEPT ![c] = "idle"]
  /\ UNCHANGED <<current_task, ready, queue, has_queue, apartment, future, owner_pc>>

Caller(c) == Claim(c) \/ Send(c) \/ Return(c)

-----------------------------------------------------------------------------
(* The apartment's thread: apartmentThreadFunction.                        *)

\* Mutant: the flag is set before PeekMessage.
Start_ReadyFirst ==
  \/ /\ apartment_pc = "start"
     /\ ready' = 1 /\ apartment_pc' = "init"
     /\ UNCHANGED <<has_queue, current_task, queue, task, callers, owner_pc>>
  \/ /\ apartment_pc = "init"
     /\ has_queue' = TRUE /\ apartment_pc' = "get"
     /\ UNCHANGED <<ready, current_task, queue, task, callers, owner_pc>>

\* PeekMessage creates the queue, CoInitializeEx follows; then the flag is set.
Start ==
  \/ /\ apartment_pc = "start"
     /\ has_queue' = TRUE /\ apartment_pc' = "init"
     /\ UNCHANGED <<ready, current_task, queue, task, callers, owner_pc>>
  \/ /\ apartment_pc = "init"
     /\ ready' = 1 /\ apartment_pc' = "get"
     /\ UNCHANGED <<has_queue, current_task, queue, task, callers, owner_pc>>

\* GetMessage, and the load of current_task; messages that are not the
\* apartment's own are dispatched and change nothing here.
GetMessage ==
  /\ apartment_pc = "get"
  /\ queue # <<>>
  /\ queue' = Tail(queue)
  /\ IF Head(queue) = "quit"
       THEN apartment_pc' = "drain" /\ UNCHANGED task
       ELSE apartment_pc' = "run" /\ task' = current_task
  /\ UNCHANGED <<current_task, ready, has_queue, callers, owner_pc>>

\* (*task)(): the thread enters the caller's function object, which calls
\* wrappedCallable(args...).
Run ==
  /\ apartment_pc = "run"
  /\ apartment_pc' = "set"
  /\ UNCHANGED <<current_task, ready, queue, has_queue, task, callers, owner_pc>>

\* promise.set_value, from within the function object: the caller may return
\* now, and its promise, wrappedCallable and task are destroyed when it does.
SetValue ==
  /\ apartment_pc = "set"
  /\ future' = [future EXCEPT ![task] = TRUE]
  /\ apartment_pc' = "leave"
  /\ UNCHANGED <<current_task, ready, queue, has_queue, task, caller_pc, owner_pc>>

\* The thread is out of set_value and of the function object.
Leave ==
  /\ apartment_pc = "leave"
  /\ apartment_pc' = "clear"
  /\ UNCHANGED <<current_task, ready, queue, has_queue, task, callers, owner_pc>>

\* Mutant: the room is not given back.
Clear_Forgotten ==
  /\ apartment_pc = "clear"
  /\ task' = nullptr /\ apartment_pc' = "get"
  /\ UNCHANGED <<current_task, ready, queue, has_queue, callers, owner_pc>>

Clear ==
  /\ apartment_pc = "clear"
  /\ current_task' = nullptr
  /\ task' = nullptr /\ apartment_pc' = "get"
  /\ UNCHANGED <<ready, queue, has_queue, callers, owner_pc>>

\* Messages behind the quit message are dispatched; a task would be lost.
Drain ==
  /\ apartment_pc = "drain"
  /\ queue' = <<>>
  /\ apartment_pc' = "exited"
  /\ UNCHANGED <<current_task, ready, has_queue, task, callers, owner_pc>>

Apartment == Start \/ GetMessage \/ Run \/ SetValue \/ Leave \/ Clear \/ Drain

-----------------------------------------------------------------------------
(* The owner: constructor and destructor.                                  *)

Constructed ==
  /\ owner_pc = "construct"
  /\ ready # 0
  /\ owner_pc' = "using"
  /\ UNCHANGED <<current_task, ready, queue, has_queue, apartment, callers>>

\* Mutant: the destructor runs under a call.
Destroy_Busy ==
  /\ owner_pc = "using"
  /\ SendMessage("quit")
  /\ owner_pc' = "join"
  /\ UNCHANGED <<current_task, ready, has_queue, apartment, callers>>

\* "If we're destructing, we won't see any more calls into the object."
Destroy ==
  /\ owner_pc = "using"
  /\ \A c \in Callers : caller_pc[c] = "idle"
  /\ SendMessage("quit")
  /\ owner_pc' = "join"
  /\ UNCHANGED <<current_task, ready, has_queue, apartment, callers>>

Join ==
  /\ owner_pc = "join"
  /\ apartment_pc = "exited"
  /\ owner_pc' = "destroyed"
  /\ UNCHANGED <<current_task, ready, queue, has_queue, apartment, callers>>

Destroyed == owner_pc = "destroyed" /\ UNCHANGED STAvars

STANext ==
  \/ \E c \in Callers : CallInApartment(c) \/ Caller(c)
  \/ Apartment
  \/ Constructed \/ Destroy \/ Join \/ Destroyed

\* Every thread runs; the calls themselves return.
STASpec     == STAInit /\ [][STANext]_STAvars
STAFairness ==
  /\ \A c \in Callers : WF_STAvars(Caller(c))
  /\ WF_STAvars(Apartment) /\ WF_STAvars(Constructed \/ Join)
STAFairSpec == STASpec /\ STAFairness

-----------------------------------------------------------------------------
(* Properties.                                                             *)

(***************************************************************************)
(* The values the code's variables take; messages do not pile up.          *)
(***************************************************************************)
STATypeOK ==
  /\ current_task \in Callers \cup {nullptr} /\ ready \in {0, 1}
  /\ queue \in Seq({"task", "quit"}) /\ Len(queue) <= 1 /\ has_queue \in BOOLEAN
  /\ apartment_pc \in {"start", "init", "get", "run", "set", "leave", "clear",
                       "drain", "exited"}
  /\ task \in Callers \cup {nullptr}
  /\ caller_pc \in [Callers -> {"idle", "claim", "send", "wait"}]
  /\ future \in [Callers -> BOOLEAN]
  /\ owner_pc \in {"construct", "using", "join", "destroyed"}

(***************************************************************************)
(* The task that the apartment's thread runs is one that was claimed and   *)
(* not run yet, and its caller waits, so that wrappedCallable and its      *)
(* arguments are there for the whole call; the room stays that task's      *)
(* until the thread clears it, which thus wipes out nobody else's claim;   *)
(* and no task message is behind the quit message, where it would be       *)
(* dispatched to nobody.  Of promise and task, which the thread is still   *)
(* inside of after set_value, see RunsLiveTask.                            *)
(***************************************************************************)
RunsClaimedTask ==
  /\ STATypeOK
  /\ apartment_pc \in {"run", "set"} =>
       task \in Callers /\ caller_pc[task] = "wait" /\ ~future[task]
  /\ apartment_pc \in {"leave", "clear"} => current_task = task
  /\ apartment_pc = "drain" => ~Contains(queue, "task")

(***************************************************************************)
(* "Caller needs to keep task alive until after it executes" (com.hpp:44,  *)
(* the comment of submitTask): as long as the apartment's thread is inside *)
(* the function object, its caller is still in callInApartment, on whose   *)
(* stack it lies.  Not so: set_value, inside of it, lets the caller go.    *)
(***************************************************************************)
RunsLiveTask == apartment_pc \in {"run", "set", "leave"} => caller_pc[task] = "wait"

(***************************************************************************)
(* Each call is executed exactly once and returns only then, calls do not  *)
(* overlap, and the apartment serves some caller as long as there is one.  *)
(***************************************************************************)
Calls == INSTANCE ApartmentCalls WITH
  call <- [c \in Callers |->
             IF caller_pc[c] = "idle" THEN "none"
             ELSE IF future[c] THEN "executed"
             ELSE "begun"]

ImplementsCalls == Calls!FairSpec

(***************************************************************************)
(* A call that has claimed the room returns (before that, the spinning in  *)
(* submitTask favours nobody, and a caller may lose every race); and so do *)
(* the constructor and the destructor.                                     *)
(***************************************************************************)
CallInApartmentReturns ==
  /\ \A c \in Callers : (caller_pc[c] = "send") ~> (caller_pc[c] = "idle")
  /\ <>(owner_pc # "construct")
  /\ (owner_pc = "join") ~> (owner_pc = "destroyed")

=============================================================================
