----------------------------- MODULE JobPhases -----------------------------
(***************************************************************************)
(* What a pool with barriers promises: each submitted job runs once, in    *)
(* any order and side by side with others, but no job begins before every  *)
(* job submitted before the last barrier in front of it has finished.      *)
(***************************************************************************)
EXTENDS Integers, Sequences, SequencesExt

VARIABLES
  phases,    \* the phase of each job, in the order of submission
  phase,     \* the number of barriers so far
  running, finished

vars == <<phases, phase, running, finished>>

Init == phases = <<>> /\ phase = 0 /\ running = {} /\ finished = {}

\* One call submits any number of jobs.
Submit ==
  /\ IsStrictPrefix(phases, phases')
  /\ \A i \in Len(phases) + 1 .. Len(phases') : phases'[i] = phase
  /\ UNCHANGED <<phase, running, finished>>

Barrier == phase' = phase + 1 /\ UNCHANGED <<phases, running, finished>>

Begin(j) ==
  /\ j \notin running \cup finished
  /\ \A i \in 1 .. Len(phases) : phases[i] < phases[j] => i \in finished
  /\ running' = running \cup {j}
  /\ UNCHANGED <<phases, phase, finished>>

Finish(j) ==
  /\ j \in running
  /\ running' = running \ {j} /\ finished' = finished \cup {j}
  /\ UNCHANGED <<phases, phase>>

Next == Submit \/ Barrier \/ \E j \in 1 .. Len(phases) : Begin(j) \/ Finish(j)

Spec == Init /\ [][Next]_vars

=============================================================================
