---------------------------- MODULE ValidatorJob ----------------------------
(***************************************************************************)
(* What a validator of a proposed change promises to those who look at it, *)
(* without messages, workers, polls or a cache: it runs the checks of one  *)
(* or more executions, may turn out a failure on the way, and concludes.   *)
(* Its conclusion is a success only when every check of one execution has  *)
(* been reported.  Whoever writes it leaves out what it takes to be there, *)
(* so a step may change the state, the conclusion or both.                 *)
(* ValidatorExecution is shown to implement it.                            *)
(***************************************************************************)
CONSTANTS Exec, Check

VARIABLES
  state,       \* queued, in_progress or completed
  conclusion,  \* unknown, success or failure
  started,     \* executions that were requested
  reported     \* reported[e]: the checks of execution e that have a result

vars == <<state, conclusion, started, reported>>

Init ==
  /\ state = "queued"
  /\ conclusion = "unknown"
  /\ started = {}
  /\ reported = [e \in Exec |-> {}]

(* A value is written, or left as it is.                                     *)
Writes(old, new, v) == new \in {old, v}

(* An execution starts the validator over.                                   *)
Request(e) ==
  /\ e \notin started
  /\ started' = started \cup {e}
  /\ Writes(state, state', "queued")
  /\ Writes(conclusion, conclusion', "unknown")
  /\ UNCHANGED reported

(* A check of an execution ends.                                             *)
Report(e, c) ==
  /\ e \in started
  /\ c \notin reported[e]
  /\ reported' = [reported EXCEPT ![e] = @ \cup {c}]
  /\ UNCHANGED <<state, conclusion, started>>

(* Someone waits for the results.                                            *)
Wait ==
  /\ started # {}
  /\ state' = "in_progress"
  /\ UNCHANGED <<conclusion, started, reported>>

(* A check that was reported has failed.                                     *)
Fail ==
  /\ \E e \in started : reported[e] # {}
  /\ conclusion' = "failure"
  /\ Writes(state, state', "in_progress")
  /\ UNCHANGED <<started, reported>>

(* The validator concludes for an execution: with success only when all its  *)
(* checks are in.                                                            *)
Conclude(e) ==
  /\ e \in started
  /\ Writes(state, state', "completed")
  /\ \/ Writes(conclusion, conclusion', "failure")
     \/ conclusion' = "success" /\ reported[e] = Check
  /\ UNCHANGED <<started, reported>>

Next ==
  \/ Wait
  \/ Fail
  \/ \E e \in Exec : Request(e) \/ Conclude(e) \/ \E c \in Check : Report(e, c)

Spec == Init /\ [][Next]_vars
=============================================================================
