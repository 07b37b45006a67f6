--------------------------- MODULE ApartmentCalls ---------------------------
(***************************************************************************)
(* What SingleThreadedApartment promises its callers: each call is         *)
(* executed once, between its beginning and its return.                    *)
(***************************************************************************)
CONSTANTS Callers

VARIABLES call   \* how far each caller's current call has come

vars == call

Init == call = [c \in Callers |-> "none"]

Begin(c) ==
  /\ call[c] = "none"
  /\ call' = [call EXCEPT ![c] = "begun"]

Execute(c) ==
  /\ call[c] = "begun"
  /\ call' = [call EXCEPT ![c] = "executed"]

Return(c) ==
  /\ call[c] = "executed"
  /\ call' = [call EXCEPT ![c] = "none"]

ExecuteSome == \E c \in Callers : Execute(c)

Next == ExecuteSome \/ \E c \in Callers : Begin(c) \/ Return(c)

\* The apartment is never idle while calls wait, but which of them comes next
\* is left to chance; a call that was executed returns.
Spec     == Init /\ [][Next]_vars
FairSpec ==
  /\ Spec
  /\ WF_vars(ExecuteSome)
  /\ \A c \in Callers : WF_vars(Return(c))

=============================================================================
