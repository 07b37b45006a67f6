------------------------------- MODULE Logger -------------------------------
(***************************************************************************)
(* logger_singleton::Logger: clients format messages in a shared workspace *)
(* and queue them; a thread of the logger's own takes them out one by one  *)
(* and runs the client's callback; the destructor stops it.                *)
(*                                                                         *)
(* A text is the number of the call it came from.  Every critical section  *)
(* is one action that needs the mutex free, except the formatting, which   *)
(* is the one that others can look into.                                   *)
(***************************************************************************)
EXTENDS Integers, Sequences

CONSTANTS
  Clients,
  Callbacks,        \* callbacks that may be set
  Levels,           \* LoggingLevel, by value
  MaxMessages       \* bound: the calls made by all clients

ASSUME LoggerAssumption ==
  /\ Levels \subseteq Nat /\ MaxMessages \in Nat
  /\ "none" \notin Callbacks /\ "none" \notin Clients

None == "none"     \* a null callback, a free mutex
Torn == 0          \* what is in a workspace that is being written

VARIABLES
  mutex,              \* the client that is formatting, or None
  message_queue, running, callback, level, format_workspace,
  client_pc,          \* where each client is in submitFormattedMessage or submitMessage
  formatted,          \* what each client's call formatted
  message,            \* level and text each client's call queues
  messages,           \* number of calls so far
  logger_pc,          \* where the logging thread is
  msg, needsCallback, cb,  \* its locals
  owner_pc,           \* progress of the destructor
  outstanding,        \* messages submitted and not yet dealt with
  logged              \* number of messages dealt with

shared     == <<mutex, message_queue, running, callback, level, format_workspace>>
clientVars == <<client_pc, formatted, message, messages>>
loggerVars == <<logger_pc, msg, needsCallback, cb>>
histories  == <<outstanding, logged>>
vars == <<shared, clientVars, loggerVars, owner_pc, histories>>

Texts    == (1 .. MaxMessages) \cup {Torn}
Messages == [level : Levels, text : Texts]
NoMessage == [level |-> 0, text |-> Torn]

Init ==
  /\ mutex = None /\ message_queue = <<>> /\ running = TRUE
  /\ callback = None /\ level = 20 /\ format_workspace = Torn
  /\ client_pc = [c \in Clients |-> "idle"]
  /\ formatted = [c \in Clients |-> Torn]
  /\ message = [c \in Clients |-> NoMessage]
  /\ messages = 0
  /\ logger_pc = "check" /\ msg = NoMessage /\ needsCallback = FALSE /\ cb = None
  /\ owner_pc = "using"
  /\ outstanding = <<>> /\ logged = 0

-----------------------------------------------------------------------------
(* The clients.                                                            *)

\* A text is the number of the call that formatted it.
Text == messages + 1

\* A call begins; nobody calls a logger that is being destroyed.
Begin(c, where) ==
  /\ owner_pc = "using"
  /\ client_pc[c] = "idle"
  /\ messages < MaxMessages
  /\ messages' = messages + 1
  /\ client_pc' = [client_pc EXCEPT ![c] = where]

\* submitFormattedMessage takes the mutex and starts to format ...
FormatBegin(c) ==
  /\ mutex = None
  /\ Begin(c, "format")
  /\ mutex' = c /\ format_workspace' = Torn
  /\ formatted' = [formatted EXCEPT ![c] = Text]
  /\ UNCHANGED <<message_queue, running, callback, level, message, loggerVars,
                 owner_pc, histories>>

\* ... finishes, and unlocks.
FormatEnd(c) ==
  /\ client_pc[c] = "format"
  /\ format_workspace' = formatted[c]
  /\ mutex' = None
  /\ client_pc' = [client_pc EXCEPT ![c] = "copy"]
  /\ UNCHANGED <<message_queue, running, callback, level, formatted, message,
                 messages, loggerVars, owner_pc, histories>>

\* The argument of submitMessage is copied from the workspace again.
Copy(c, l) ==
  /\ client_pc[c] = "copy"
  /\ message' = [message EXCEPT ![c] = [level |-> l, text |-> format_workspace]]
  /\ client_pc' = [client_pc EXCEPT ![c] = "enqueue"]
  /\ UNCHANGED <<shared, formatted, messages, loggerVars, owner_pc, histories>>

\* submitMessage called with a text of the client's own.
SubmitMessage(c, l) ==
  /\ Begin(c, "enqueue")
  /\ formatted' = [formatted EXCEPT ![c] = Text]
  /\ message' = [message EXCEPT ![c] = [level |-> l, text |-> Text]]
  /\ UNCHANGED <<shared, loggerVars, owner_pc, histories>>

Enqueue(c) ==
  /\ client_pc[c] = "enqueue"
  /\ mutex = None
  /\ message_queue' = Append(message_queue, message[c])
  /\ outstanding' = Append(outstanding, message[c])
  /\ client_pc' = [client_pc EXCEPT ![c] = "notify"]
  /\ UNCHANGED <<mutex, running, callback, level, format_workspace, formatted,
                 message, messages, loggerVars, owner_pc, logged>>

\* check_cond.notify_one(): only the logging thread ever waits.
WakeLogger == logger_pc' = IF logger_pc = "waiting" THEN "woken" ELSE logger_pc

Return(c) ==
  /\ client_pc' = [client_pc EXCEPT ![c] = "idle"]
  /\ formatted' = [formatted EXCEPT ![c] = Torn]
  /\ message' = [message EXCEPT ![c] = NoMessage]

\* Mutant: the waiter is only notified of a message that is alone in the queue.
Notify_WhenEmpty(c) ==
  /\ client_pc[c] = "notify"
  /\ IF Len(message_queue) = 1 THEN WakeLogger ELSE UNCHANGED logger_pc
  /\ Return(c)
  /\ UNCHANGED <<shared, messages, msg, needsCallback, cb, owner_pc, histories>>

Notify(c) ==
  /\ client_pc[c] = "notify"
  /\ WakeLogger
  /\ Return(c)
  /\ UNCHANGED <<shared, messages, msg, needsCallback, cb, owner_pc, histories>>

SetLoggingLevel(l) ==
  /\ owner_pc = "using" /\ mutex = None
  /\ level' = l
  /\ UNCHANGED <<mutex, message_queue, running, callback, format_workspace,
                 clientVars, loggerVars, owner_pc, histories>>

\* setLoggingCallback, setAsForwarder
SetLoggingCallback(f) ==
  /\ owner_pc = "using" /\ mutex = None
  /\ callback' = f
  /\ UNCHANGED <<mutex, message_queue, running, level, format_workspace,
                 clientVars, loggerVars, owner_pc, histories>>

\* What a client does once it has called the logger.
ClientStep(c) ==
  FormatEnd(c) \/ (\E l \in Levels : Copy(c, l)) \/ Enqueue(c) \/ Notify(c)

Client(c) == FormatBegin(c) \/ (\E l \in Levels : SubmitMessage(c, l)) \/ ClientStep(c)

-----------------------------------------------------------------------------
(* The logging thread: loggingThreadFunction.                              *)

\* Mutant: the front message is not popped.
Remaining_All == message_queue

Remaining == Tail(message_queue)

\* Mutant: the callback is not looked at.
NeedsCallback_Unchecked(m) == m.level >= level

NeedsCallback(m) == callback # None /\ m.level >= level

\* Take a message, and decide under the lock what to do with it.
Take ==
  /\ msg' = Head(message_queue)
  /\ message_queue' = Remaining
  /\ needsCallback' = NeedsCallback(Head(message_queue))
  /\ cb' = callback
  /\ logger_pc' = "callback"

\* Mutant: the thread stops as soon as it is told to.
MayExit_AtOnce == running = FALSE

MayExit == running = FALSE /\ message_queue = <<>>

\* The top of the loop, up to the wait or the unlocking.
Check ==
  /\ logger_pc = "check" /\ mutex = None
  /\ IF MayExit
       THEN logger_pc' = "exited" /\ UNCHANGED <<message_queue, msg, needsCallback, cb>>
     ELSE IF message_queue = <<>>
       THEN logger_pc' = "waiting" /\ UNCHANGED <<message_queue, msg, needsCallback, cb>>
     ELSE Take
  /\ UNCHANGED <<mutex, running, callback, level, format_workspace, clientVars,
                 owner_pc, histories>>

SpuriousWakeup ==
  /\ logger_pc = "waiting"
  /\ logger_pc' = "woken"
  /\ UNCHANGED <<shared, clientVars, msg, needsCallback, cb, owner_pc, histories>>

\* The wait has the mutex again.
Woken ==
  /\ logger_pc = "woken" /\ mutex = None
  /\ IF message_queue = <<>>
       THEN logger_pc' = "check" /\ UNCHANGED <<message_queue, msg, needsCallback, cb>>
     ELSE Take
  /\ UNCHANGED <<mutex, running, callback, level, format_workspace, clientVars,
                 owner_pc, histories>>

\* Outside the lock.
Callback ==
  /\ logger_pc = "callback"
  /\ outstanding' = Tail(outstanding) /\ logged' = logged + 1
  /\ logger_pc' = "check"
  /\ msg' = NoMessage /\ needsCallback' = FALSE /\ cb' = None
  /\ UNCHANGED <<shared, clientVars, owner_pc>>

LoggingThread == Check \/ Woken \/ Callback

-----------------------------------------------------------------------------
(* The destructor, run when the last reference to the logger is dropped.   *)

OwnerStop ==
  /\ owner_pc = "using" /\ mutex = None
  /\ \A c \in Clients : client_pc[c] = "idle"
  /\ running' = FALSE
  /\ owner_pc' = "notify"
  /\ UNCHANGED <<mutex, message_queue, callback, level, format_workspace,
                 clientVars, loggerVars, histories>>

\* Mutant: the destructor does not wake the thread.
OwnerNotify_Silent ==
  /\ owner_pc = "notify"
  /\ owner_pc' = "join"
  /\ UNCHANGED <<shared, clientVars, loggerVars, histories>>

OwnerNotify ==
  /\ owner_pc = "notify"
  /\ WakeLogger
  /\ owner_pc' = "join"
  /\ UNCHANGED <<shared, clientVars, msg, needsCallback, cb, histories>>

OwnerJoin ==
  /\ owner_pc = "join"
  /\ logger_pc = "exited"
  /\ owner_pc' = "destroyed"
  /\ UNCHANGED <<shared, clientVars, loggerVars, histories>>

Owner == OwnerStop \/ OwnerNotify \/ OwnerJoin

Destroyed == owner_pc = "destroyed" /\ UNCHANGED vars

Next ==
  \/ \E c \in Clients : Client(c)
  \/ \E l \in Levels : SetLoggingLevel(l)
  \/ \E f \in Callbacks \cup {None} : SetLoggingCallback(f)
  \/ LoggingThread \/ SpuriousWakeup
  \/ Owner \/ Destroyed

\* All threads run, callbacks return; nobody has to call the logger, and the
\* wait need never wake up by itself.
Spec     == Init /\ [][Next]_vars
FairSpec ==
  /\ Spec
  /\ \A c \in Clients : WF_vars(ClientStep(c))
  /\ WF_vars(LoggingThread) /\ WF_vars(OwnerNotify \/ OwnerJoin)

-----------------------------------------------------------------------------
(* Properties.                                                             *)

(***************************************************************************)
(* The values the code's variables take; in particular, a function that is *)
(* called outside the lock is not null, whatever callback is set by then.  *)
(***************************************************************************)
TypeOK ==
  /\ mutex \in Clients \cup {None}
  /\ message_queue \in Seq(Messages) /\ running \in BOOLEAN
  /\ callback \in Callbacks \cup {None} /\ level \in Nat
  /\ format_workspace \in Texts
  /\ client_pc \in [Clients -> {"idle", "format", "copy", "enqueue", "notify"}]
  /\ formatted \in [Clients -> Texts]
  /\ message \in [Clients -> Messages \cup {NoMessage}]
  /\ messages \in 0 .. MaxMessages
  /\ logger_pc \in {"check", "waiting", "woken", "callback", "exited"}
  /\ msg \in Messages \cup {NoMessage} /\ needsCallback \in BOOLEAN
  /\ cb \in Callbacks \cup {None}
  /\ logger_pc = "callback" /\ needsCallback => cb # None
  /\ owner_pc \in {"using", "notify", "join", "destroyed"}

InHand == IF logger_pc = "callback" THEN <<msg>> ELSE <<>>

(***************************************************************************)
(* Messages are dealt with in the order they were queued in, none is lost  *)
(* between the queue and the callback and none is taken twice.             *)
(***************************************************************************)
FirstInFirstOut == outstanding = InHand \o message_queue

(***************************************************************************)
(* The notification that is sent after the mutex is unlocked (submitMessage*)
(* and ~Logger) is never missed: while the thread waits with something to  *)
(* do, somebody is about to notify it.                                     *)
(***************************************************************************)
NoLostWakeup ==
  logger_pc = "waiting" /\ (message_queue # <<>> \/ ~running) =>
    owner_pc = "notify" \/ \E c \in Clients : client_pc[c] = "notify"

(***************************************************************************)
(* "We need to be absolutely sure to log everything, so don't allow us to  *)
(* exit if there's something on the queue still" (logger_singleton.cpp:74):*)
(* once the destructor returns, every queued message was dealt with.       *)
(***************************************************************************)
DrainedOnExit == owner_pc = "destroyed" => outstanding = <<>>

(***************************************************************************)
(* Every message that is queued is dealt with, and the destructor returns  *)
(* once it is called.                                                      *)
(***************************************************************************)
EverythingLogged ==
  /\ \A i \in 1 .. MaxMessages : (logged + Len(outstanding) >= i) ~> (logged >= i)
  /\ (owner_pc = "notify") ~> (owner_pc = "destroyed")

(***************************************************************************)
(* "We need to be absolutely sure to log everything"                       *)
(* (logger_singleton.cpp:74): a call queues the text it formatted.         *)
(***************************************************************************)
QueuesWhatItFormatted ==
  \A c \in Clients : client_pc[c] = "enqueue" => message[c].text = formatted[c]

=============================================================================
