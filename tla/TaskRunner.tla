----------------------------- MODULE TaskRunner -----------------------------
(***************************************************************************)
(* What ThreadPool promises to who gives it tasks: tasks are started in    *)
(* the order they came, each once, and Join comes back only when every     *)
(* task that was given has ended.                                          *)
(***************************************************************************)
EXTENDS Naturals, Sequences

CONSTANTS Jobs

VARIABLES
  queued,    \* tasks waiting for a thread, oldest first
  running,   \* tasks some thread is in
  finished,  \* tasks that have returned
  joined     \* Join has come back

runnerVars == <<queued, running, finished, joined>>

Init ==
  /\ queued = <<>>
  /\ running = {}
  /\ finished = {}
  /\ joined = FALSE

Give(j) ==
  /\ queued' = Append(queued, j)
  /\ UNCHANGED <<running, finished, joined>>

Start ==
  /\ queued # <<>>
  /\ Head(queued) \notin running \cup finished
  /\ queued' = Tail(queued)
  /\ running' = running \cup {Head(queued)}
  /\ UNCHANGED <<finished, joined>>

Finish(j) ==
  /\ j \in running
  /\ running' = running \ {j}
  /\ finished' = finished \cup {j}
  /\ UNCHANGED <<queued, joined>>

JoinReturns ==
  /\ queued = <<>> /\ running = {}
  /\ joined' = TRUE
  /\ UNCHANGED <<queued, running, finished>>

Next ==
  \/ \E j \in Jobs : Give(j) \/ Finish(j)
  \/ Start
  \/ JoinReturns

Spec == Init /\ [][Next]_runnerVars

=============================================================================
