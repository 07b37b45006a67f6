---------------------------- MODULE LoggerProofs ----------------------------
(***************************************************************************)
(* What Logger promises, proved for any number of clients, callbacks,      *)
(* levels and messages: messages are dealt with in order, no wakeup is     *)
(* missed, and the destructor leaves nothing in the queue.                 *)
(***************************************************************************)
EXTENDS Logger, SequenceTheorems, TLAPS

(***************************************************************************)
(* What the threads rely on: running is reset by the destructor alone, no  *)
(* client is in a call from then on, and the thread ends only after that,  *)
(* with a queue that is empty and that nobody can fill any more.           *)
(***************************************************************************)
Shutdown ==
  /\ running = (owner_pc = "using")
  /\ ~running => \A c \in Clients : client_pc[c] = "idle"
  /\ logger_pc = "exited" => ~running /\ message_queue = <<>>
  /\ owner_pc = "destroyed" => logger_pc = "exited"

\* The message in hand came from the queue ...
HandIsMessage == logger_pc = "callback" => msg \in Messages

\* ... and a client that is about to queue one has one.
HasMessage == \A c \in Clients : client_pc[c] = "enqueue" => message[c] \in Messages

IInv ==
  /\ TypeOK /\ Shutdown /\ HandIsMessage /\ HasMessage
  /\ FirstInFirstOut /\ NoLostWakeup

(***************************************************************************)
(* Facts about the two ends of the queue, with a message in hand or not.   *)
(***************************************************************************)
LEMMA AppendBehind ==
  ASSUME NEW S, NEW h \in Seq(S), NEW q \in Seq(S), NEW e \in S
  PROVE  Append(h \o q, e) = h \o Append(q, e)
<1>1. h \o q \in Seq(S) /\ Append(q, e) \in Seq(S) /\ <<e>> \in Seq(S)
  OBVIOUS
<1>2. Append(q, e) = q \o <<e>> /\ Append(h \o q, e) = (h \o q) \o <<e>>
  BY <1>1, AppendIsConcat
<1> QED
  BY <1>1, <1>2, ConcatAssociative

LEMMA TakeFront ==
  ASSUME NEW S, NEW q \in Seq(S), q # <<>>
  PROVE  /\ Head(q) \in S /\ Tail(q) \in Seq(S)
         /\ q = <<Head(q)>> \o Tail(q)
<1>1. Head(q) \in S /\ Tail(q) \in Seq(S) /\ Len(Tail(q)) = Len(q) - 1
      /\ \A i \in 1 .. Len(Tail(q)) : Tail(q)[i] = q[i + 1]
  BY HeadTailProperties
<1>2. Head(q) = q[1] /\ Len(q) \in Nat /\ <<Head(q)>> \in Seq(S)
  BY <1>1
<1> DEFINE r == <<Head(q)>> \o Tail(q)
<1>3. /\ r \in Seq(S) /\ Len(r) = Len(q)
      /\ \A i \in 1 .. Len(q) : r[i] = q[i]
  BY <1>1, <1>2, ConcatProperties
<1> HIDE DEF r
<1>4. q = r
  BY <1>3, SeqEqual
<1> QED
  BY <1>1, <1>4 DEF r

LEMMA DropFront ==
  ASSUME NEW S, NEW q \in Seq(S), NEW e \in S
  PROVE  Tail(<<e>> \o q) = q
<1> DEFINE r == <<e>> \o q
<1>1. /\ r \in Seq(S) /\ Len(r) = Len(q) + 1 /\ Len(q) \in Nat
      /\ \A i \in 2 .. Len(r) : r[i] = q[i - 1]
  BY ConcatProperties, <<e>> \in Seq(S)
<1>2. r # <<>>
  BY <1>1
<1> HIDE DEF r
<1>3. /\ Tail(r) \in Seq(S) /\ Len(Tail(r)) = Len(q)
      /\ \A i \in 1 .. Len(q) : Tail(r)[i] = r[i + 1]
  BY <1>1, <1>2, HeadTailProperties
<1>4. \A i \in 1 .. Len(q) : Tail(r)[i] = q[i]
  BY <1>1, <1>3
<1>5. Tail(r) = q
  BY <1>1, <1>3, <1>4, SeqEqual
<1> QED
  BY <1>5 DEF r

-----------------------------------------------------------------------------
LEMMA InitInvariant == Init => IInv
<1> SUFFICES ASSUME Init PROVE IInv
  OBVIOUS
<1> USE LoggerAssumption DEF Init
<1>1. TypeOK
  <2>1. message_queue \in Seq(Messages)
    BY EmptySeq
  <2>2. format_workspace \in Texts /\ formatted \in [Clients -> Texts]
    BY DEF Texts
  <2>3. /\ client_pc \in [Clients -> {"idle", "format", "copy", "enqueue", "notify"}]
        /\ message \in [Clients -> Messages \cup {NoMessage}]
    OBVIOUS
  <2>4. messages \in 0 .. MaxMessages /\ level \in Nat
    OBVIOUS
  <2> QED
    BY <2>1, <2>2, <2>3, <2>4 DEF TypeOK
<1>2. FirstInFirstOut
  BY DEF FirstInFirstOut, InHand
<1> QED
  BY <1>1, <1>2 DEF IInv, Shutdown, HandIsMessage, HasMessage, NoLostWakeup

(***************************************************************************)
(* The thread takes a message: whatever was queued first is now in hand.   *)
(***************************************************************************)
LEMMA TakeInvariant ==
  ASSUME IInv, Take, message_queue # <<>>, logger_pc \in {"check", "woken"},
         UNCHANGED <<mutex, running, callback, level, format_workspace,
                     clientVars, owner_pc, histories>>
  PROVE  IInv'
<1> USE DEF IInv
<1>1. message_queue \in Seq(Messages)
  BY DEF TypeOK
<1>2. /\ Head(message_queue) \in Messages /\ Tail(message_queue) \in Seq(Messages)
      /\ message_queue = <<Head(message_queue)>> \o Tail(message_queue)
  BY <1>1, TakeFront
<1>3. TypeOK'
  BY <1>2, LoggerAssumption DEF TypeOK, Take, Remaining, NeedsCallback, clientVars, None
<1>4. FirstInFirstOut'
  <2>1. outstanding = message_queue
    BY <1>1, ConcatEmptySeq DEF FirstInFirstOut, InHand
  <2>2. outstanding' = outstanding /\ message_queue' = Tail(message_queue)
        /\ InHand' = <<Head(message_queue)>>
    BY DEF Take, Remaining, InHand, histories
  <2> QED
    BY <1>2, <2>1, <2>2 DEF FirstInFirstOut
<1>5. HandIsMessage' /\ HasMessage' /\ NoLostWakeup'
  BY <1>2 DEF HandIsMessage, HasMessage, NoLostWakeup, Take, clientVars
<1>6. Shutdown'
  BY DEF Shutdown, Take, clientVars, TypeOK
<1> QED
  BY <1>3, <1>4, <1>5, <1>6

LEMMA StepInvariant == IInv /\ [Next]_vars => IInv'
<1> SUFFICES ASSUME IInv, [Next]_vars PROVE IInv'
  OBVIOUS
<1> USE LoggerAssumption DEF IInv
<1>1. ASSUME NEW c \in Clients, FormatBegin(c) PROVE IInv'
  <2> USE <1>1 DEF FormatBegin, Begin, loggerVars, histories
  <2>1. TypeOK'
    BY DEF TypeOK, Text, Texts, Torn
  <2>2. FirstInFirstOut' /\ HandIsMessage'
    BY DEF FirstInFirstOut, HandIsMessage, InHand
  <2>3. HasMessage' /\ NoLostWakeup' /\ Shutdown'
    BY DEF HasMessage, NoLostWakeup, Shutdown, TypeOK
  <2> QED
    BY <2>1, <2>2, <2>3
<1>2. ASSUME NEW c \in Clients, FormatEnd(c) PROVE IInv'
  <2> USE <1>2 DEF FormatEnd, loggerVars, histories
  <2>1. TypeOK'
    BY DEF TypeOK
  <2>2. FirstInFirstOut' /\ HandIsMessage'
    BY DEF FirstInFirstOut, HandIsMessage, InHand
  <2>3. HasMessage' /\ NoLostWakeup' /\ Shutdown'
    BY DEF HasMessage, NoLostWakeup, Shutdown, TypeOK
  <2> QED
    BY <2>1, <2>2, <2>3
<1>3. ASSUME NEW c \in Clients, NEW l \in Levels, Copy(c, l) PROVE IInv'
  <2> USE <1>3 DEF Copy, shared, loggerVars, histories
  <2>1. [level |-> l, text |-> format_workspace] \in Messages
    BY DEF TypeOK, Messages
  <2>2. TypeOK'
    BY <2>1 DEF TypeOK
  <2>3. FirstInFirstOut' /\ HandIsMessage'
    BY DEF FirstInFirstOut, HandIsMessage, InHand
  <2>4. HasMessage' /\ NoLostWakeup' /\ Shutdown'
    BY <2>1 DEF HasMessage, NoLostWakeup, Shutdown, TypeOK
  <2> QED
    BY <2>2, <2>3, <2>4
<1>4. ASSUME NEW c \in Clients, NEW l \in Levels, SubmitMessage(c, l) PROVE IInv'
  <2> USE <1>4 DEF SubmitMessage, Begin, shared, loggerVars, histories
  <2>1. Text \in Texts /\ [level |-> l, text |-> Text] \in Messages
    BY DEF TypeOK, Messages, Text, Texts
  <2>2. TypeOK'
    BY <2>1 DEF TypeOK
  <2>3. FirstInFirstOut' /\ HandIsMessage'
    BY DEF FirstInFirstOut, HandIsMessage, InHand
  <2>4. HasMessage' /\ NoLostWakeup' /\ Shutdown'
    BY <2>1 DEF HasMessage, NoLostWakeup, Shutdown, TypeOK
  <2> QED
    BY <2>2, <2>3, <2>4
<1>5. ASSUME NEW c \in Clients, Enqueue(c) PROVE IInv'
  <2> USE <1>5 DEF Enqueue, loggerVars
  <2>1. message[c] \in Messages
    BY DEF HasMessage
  <2>2. TypeOK'
    BY <2>1 DEF TypeOK
  <2>3. InHand \in Seq(Messages) /\ message_queue \in Seq(Messages)
    BY DEF InHand, HandIsMessage, TypeOK
  <2>4. FirstInFirstOut'
    <3>1. InHand' = InHand
      BY DEF InHand
    <3> QED
      BY <2>1, <2>3, <3>1, AppendBehind DEF FirstInFirstOut
  <2>5. HandIsMessage' /\ HasMessage' /\ NoLostWakeup'
    BY DEF HandIsMessage, HasMessage, NoLostWakeup, TypeOK
  <2>6. Shutdown'
    BY DEF Shutdown, TypeOK
  <2> QED
    BY <2>2, <2>4, <2>5, <2>6
<1>6. ASSUME NEW c \in Clients, Notify(c) PROVE IInv'
  <2> USE <1>6 DEF Notify, Return, WakeLogger, shared, histories
  <2>1. TypeOK'
    BY DEF TypeOK, Texts, Torn
  <2>2. FirstInFirstOut' /\ HandIsMessage'
    BY DEF FirstInFirstOut, HandIsMessage, InHand
  <2>3. HasMessage' /\ NoLostWakeup' /\ Shutdown'
    BY DEF HasMessage, NoLostWakeup, Shutdown, TypeOK
  <2> QED
    BY <2>1, <2>2, <2>3
<1>7. ASSUME NEW l \in Levels, SetLoggingLevel(l) PROVE IInv'
  <2> USE <1>7 DEF SetLoggingLevel, clientVars, loggerVars, histories
  <2>1. TypeOK'
    BY DEF TypeOK
  <2>2. FirstInFirstOut' /\ HandIsMessage' /\ HasMessage'
    BY DEF FirstInFirstOut, HandIsMessage, HasMessage, InHand
  <2> QED
    BY <2>1, <2>2 DEF NoLostWakeup, Shutdown
<1>8. ASSUME NEW f \in Callbacks \cup {None}, SetLoggingCallback(f) PROVE IInv'
  <2> USE <1>8 DEF SetLoggingCallback, clientVars, loggerVars, histories
  <2>1. TypeOK'
    BY DEF TypeOK
  <2>2. FirstInFirstOut' /\ HandIsMessage' /\ HasMessage'
    BY DEF FirstInFirstOut, HandIsMessage, HasMessage, InHand
  <2> QED
    BY <2>1, <2>2 DEF NoLostWakeup, Shutdown
<1>9. ASSUME Check PROVE IInv'
  <2> USE <1>9 DEF Check
  <2>1. CASE MayExit
    BY <2>1 DEF MayExit, TypeOK, Shutdown, HandIsMessage, HasMessage, FirstInFirstOut,
                InHand, NoLostWakeup, clientVars, histories
  <2>2. CASE ~MayExit /\ message_queue = <<>>
    BY <2>2 DEF MayExit, TypeOK, Shutdown, HandIsMessage, HasMessage, FirstInFirstOut,
                InHand, NoLostWakeup, clientVars, histories
  <2>3. CASE ~MayExit /\ message_queue # <<>>
    BY <2>3, TakeInvariant
  <2> QED
    BY <2>1, <2>2, <2>3
<1>10. ASSUME Woken PROVE IInv'
  <2> USE <1>10 DEF Woken
  <2>1. CASE message_queue = <<>>
    BY <2>1 DEF TypeOK, Shutdown, HandIsMessage, HasMessage, FirstInFirstOut,
                InHand, NoLostWakeup, clientVars, histories
  <2>2. CASE message_queue # <<>>
    BY <2>2, TakeInvariant
  <2> QED
    BY <2>1, <2>2
<1>11. ASSUME Callback PROVE IInv'
  <2> USE <1>11 DEF Callback, shared, clientVars
  <2>1. TypeOK'
    BY DEF TypeOK, None
  <2>2. FirstInFirstOut'
    <3>1. msg \in Messages /\ message_queue \in Seq(Messages)
      BY DEF HandIsMessage, TypeOK
    <3>2. outstanding = <<msg>> \o message_queue
      BY DEF FirstInFirstOut, InHand
    <3>3. outstanding' = message_queue
      BY <3>1, <3>2, DropFront
    <3>4. InHand' = <<>>
      BY DEF InHand
    <3> QED
      BY <3>1, <3>3, <3>4, ConcatEmptySeq DEF FirstInFirstOut
  <2>3. HandIsMessage' /\ HasMessage' /\ NoLostWakeup' /\ Shutdown'
    BY DEF HandIsMessage, HasMessage, NoLostWakeup, Shutdown
  <2> QED
    BY <2>1, <2>2, <2>3
<1>12. ASSUME SpuriousWakeup PROVE IInv'
  BY <1>12 DEF SpuriousWakeup, TypeOK, Shutdown, HandIsMessage, HasMessage,
               FirstInFirstOut, InHand, NoLostWakeup, shared, clientVars, histories
<1>13. ASSUME OwnerStop PROVE IInv'
  BY <1>13 DEF OwnerStop, TypeOK, Shutdown, HandIsMessage, HasMessage,
               FirstInFirstOut, InHand, NoLostWakeup, clientVars, loggerVars, histories
<1>14. ASSUME OwnerNotify PROVE IInv'
  BY <1>14 DEF OwnerNotify, WakeLogger, TypeOK, Shutdown, HandIsMessage, HasMessage,
               FirstInFirstOut, InHand, NoLostWakeup, shared, clientVars, histories
<1>15. ASSUME OwnerJoin PROVE IInv'
  BY <1>15 DEF OwnerJoin, TypeOK, Shutdown, HandIsMessage, HasMessage,
               FirstInFirstOut, InHand, NoLostWakeup, shared, clientVars, loggerVars,
               histories
<1>16. CASE UNCHANGED vars
  BY <1>16 DEF vars, TypeOK, Shutdown, HandIsMessage, HasMessage,
               FirstInFirstOut, InHand, NoLostWakeup, shared, clientVars, loggerVars,
               histories
<1>17. CASE Next
  <2>1. ASSUME NEW c \in Clients, Client(c) PROVE IInv'
    BY <2>1, <1>1, <1>2, <1>3, <1>4, <1>5, <1>6 DEF Client, ClientStep
  <2>2. CASE LoggingThread \/ SpuriousWakeup
    BY <2>2, <1>9, <1>10, <1>11, <1>12 DEF LoggingThread
  <2>3. CASE Owner \/ Destroyed
    BY <2>3, <1>13, <1>14, <1>15, <1>16 DEF Owner, Destroyed
  <2> QED
    BY <1>7, <1>8, <1>17, <2>1, <2>2, <2>3 DEF Next
<1> QED
  BY <1>16, <1>17

THEOREM Invariant == Spec => []IInv
  BY InitInvariant, StepInvariant, PTL DEF Spec

-----------------------------------------------------------------------------
(***************************************************************************)
(* The variables keep their types; in particular the function called       *)
(* outside the lock is not null, whatever setLoggingCallback did meanwhile.*)
(***************************************************************************)
THEOREM TypeCorrect == Spec => []TypeOK
<1>1. IInv => TypeOK
  BY DEF IInv
<1> QED
  BY <1>1, Invariant, PTL

(***************************************************************************)
(* loggingThreadFunction deals with the messages in the order in which     *)
(* submitMessage queued them, and loses and repeats none.                  *)
(***************************************************************************)
THEOREM InOrder == Spec => []FirstInFirstOut
<1>1. IInv => FirstInFirstOut
  BY DEF IInv
<1> QED
  BY <1>1, Invariant, PTL

(***************************************************************************)
(* Notifying after unlocking, as submitMessage and ~Logger do, never misses*)
(* a thread that waits with something to do.                               *)
(***************************************************************************)
THEOREM WakeupsArrive == Spec => []NoLostWakeup
<1>1. IInv => NoLostWakeup
  BY DEF IInv
<1> QED
  BY <1>1, Invariant, PTL

(***************************************************************************)
(* When ~Logger returns, every message that was queued was dealt with.     *)
(***************************************************************************)
THEOREM NothingLeftUnlogged == Spec => []DrainedOnExit
<1>1. IInv => DrainedOnExit
  <2> SUFFICES ASSUME IInv, owner_pc = "destroyed" PROVE outstanding = <<>>
    BY DEF DrainedOnExit
  <2>1. logger_pc = "exited" /\ message_queue = <<>>
    BY DEF IInv, Shutdown
  <2> QED
    BY <2>1, ConcatEmptySeq, EmptySeq DEF IInv, FirstInFirstOut, InHand
<1> QED
  BY <1>1, Invariant, PTL

=============================================================================
