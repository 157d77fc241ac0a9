---------------------------- MODULE GeneratorRuns ----------------------------
(***************************************************************************)
(* Runs of a generator for one target.  A run saves the nodes it wants in    *)
(* tracking mode; when it leaves that mode, its group is given the nodes it   *)
(* has saved, and what the group had before and the run has not saved is      *)
(* deleted.  Messages may make several runs at the same time.                *)
(***************************************************************************)
EXTENDS Naturals, FiniteSets

CONSTANTS
    Output,    \* nodes that the generator may make, by their human friendly id
    MaxRuns, MaxWishes, MaxRaised   \* bounds on runs, changes of the data and failures

Run == 1..MaxRuns

ASSUME GeneratorRunsAssumption ==
    /\ MaxRuns \in Nat /\ MaxWishes \in Nat /\ MaxRaised \in Nat

VARIABLES
    wish,       \* the nodes that the data call for
    nodes,      \* the nodes there are: what they are for and the run that created them
    tracked,    \* members of the generator group
    run,        \* state of each run
    status,     \* of the generator instance
    leaked,     \* history: nodes that a failed run left outside the group
    crossed,    \* history: two runs were at work at the same time
    wishes, raised

generatorVars == <<wish, nodes, tracked, run, status, leaked, crossed, wishes, raised>>

NoRun == [phase |-> "none"]
Running == {n \in Run : run[n].phase \notin {"none", "ready", "error"}}

Wish ==
    \E W \in SUBSET Output \ {wish} :
        /\ wishes < MaxWishes /\ wishes' = wishes + 1
        /\ wish' = W
        /\ UNCHANGED <<nodes, tracked, run, status, leaked, crossed, raised>>

Move(n, from, to) ==
    /\ run[n].phase = from
    /\ run' = [run EXCEPT ![n] = to]
    /\ UNCHANGED <<wish, wishes>>

(* The instance is pending, whoever runs. *)
Start(n) ==
    /\ Move(n, "none", [phase |-> "started"])
    /\ \A m \in 1..(n - 1) : run[m].phase # "none"
    /\ status' = "PENDING"
    /\ crossed' = (crossed \/ Running # {})
    /\ UNCHANGED <<nodes, tracked, leaked, raised>>

collect_data(n) ==
    /\ Move(n, "started", [phase |-> "tracking", asked |-> wish, saved |-> {}])
    /\ UNCHANGED <<nodes, tracked, status, leaked, crossed, raised>>

(* save(allow_upsert=True): the node that is there, or else a new one. *)
Upsert(n) ==
    \E o \in Output :
        LET there == {x \in nodes : x[1] = o}
            saved == IF there = {} THEN {<<o, n>>} ELSE there
        IN  /\ run[n].phase = "tracking" /\ o \in run[n].asked \ {x[1] : x \in run[n].saved}
            /\ Move(n, "tracking", [phase |-> "tracking", asked |-> run[n].asked,
                                    saved |-> run[n].saved \cup saved])
            /\ nodes' = nodes \cup saved
            /\ UNCHANGED <<tracked, status, leaked, crossed, raised>>

(* Leaving the tracking mode: update_group does nothing if nothing was saved. *)
__aexit__(n) ==
    /\ run[n].phase = "tracking" /\ run[n].asked = {x[1] : x \in run[n].saved}
    /\ Move(n, "tracking", [phase |-> IF run[n].saved = {} THEN "finishing" ELSE "grouping",
                            asked |-> run[n].asked, saved |-> run[n].saved, previous |-> tracked])
    /\ UNCHANGED <<nodes, tracked, status, leaked, crossed, raised>>

(* Mutant: what the run has not saved is not deleted.                        *)
unused_member_ids_none(previous, saved) == {}

(* Mutant: what the run has saved again is deleted too.                      *)
unused_member_ids_all(previous, saved) == previous

unused_member_ids(previous, saved) == previous \ saved

(* The group takes the nodes that are still there. *)
update_group(n) ==
    /\ Move(n, "grouping", [phase |-> "deleting", asked |-> run[n].asked,
                            unused |-> unused_member_ids(run[n].previous, run[n].saved)])
    /\ tracked' = run[n].saved \cap nodes
    /\ UNCHANGED <<nodes, status, leaked, crossed, raised>>

delete_unused(n) ==
    \E x \in nodes :
        /\ run[n].phase = "deleting" /\ x \in run[n].unused
        /\ Move(n, "deleting", [phase |-> "deleting", asked |-> run[n].asked,
                                unused |-> run[n].unused \ {x}])
        /\ nodes' = nodes \ {x}
        /\ tracked' = tracked \ {x}
        /\ UNCHANGED <<status, leaked, crossed, raised>>

Finish(n) ==
    /\ \/ Move(n, "finishing", [phase |-> "ready"])
       \/ Move(n, "deleting", [phase |-> "ready"]) /\ run[n].unused = {}
    /\ status' = "READY"
    /\ UNCHANGED <<nodes, tracked, leaked, crossed, raised>>

(* A run that raises leaves what it has done, and leaves tracking mode        *)
(* without its group; deleting a node that is not there raises.              *)
RunFails(n) ==
    /\ run[n].phase \in {"started", "tracking", "grouping", "deleting"}
    /\ \/ raised < MaxRaised /\ raised' = raised + 1
       \/ /\ run[n].phase = "deleting" /\ \E x \in run[n].unused : x \notin nodes
          /\ UNCHANGED raised
    /\ Move(n, run[n].phase, [phase |-> "error"])
    /\ status' = "ERROR"
    /\ leaked' = leaked \cup (nodes \ tracked)
    /\ UNCHANGED <<nodes, tracked, crossed>>

(* A worker dies and another is given the message. *)
Redelivered(n) ==
    /\ run[n].phase \notin {"none", "ready", "error"}
    /\ raised < MaxRaised /\ raised' = raised + 1
    /\ Move(n, run[n].phase, NoRun)
    /\ leaked' = leaked \cup (nodes \ tracked)
    /\ UNCHANGED <<nodes, tracked, status, crossed>>

GeneratorInit ==
    /\ wish \in SUBSET Output
    /\ nodes = {} /\ tracked = {}
    /\ run = [n \in Run |-> NoRun]
    /\ status = "none"
    /\ leaked = {} /\ crossed = FALSE /\ wishes = 0 /\ raised = 0

GeneratorNext ==
    \/ Wish
    \/ \E n \in Run :
          \/ Start(n) \/ collect_data(n) \/ Upsert(n) \/ __aexit__(n) \/ update_group(n)
          \/ delete_unused(n) \/ Finish(n) \/ RunFails(n) \/ Redelivered(n)

GeneratorSpec == GeneratorInit /\ [][GeneratorNext]_generatorVars

-----------------------------------------------------------------------------

(* Nodes that a run has in hand. *)
Held(n) ==
    CASE run[n].phase \in {"tracking", "grouping"} -> run[n].saved
      [] run[n].phase = "deleting" -> run[n].unused
      [] OTHER -> {}

(* Every node that runs have made is in the group, or in the hands of a run,  *)
(* so that it is deleted when it is not wanted any more, unless a failed run  *)
(* has left it outside or two runs have been at work at the same time.        *)
Tracked ==
    ~ crossed => \A x \in nodes : x \in tracked \cup leaked \cup UNION {Held(n) : n \in Run}

(* A run that ends well, without another at the same time, leaves the nodes   *)
(* it wanted and no others but those a failed run left outside the group; one *)
(* that wants nothing leaves all that there were.                            *)
ReadyMatches ==
    [][\A n \in Run :
         run[n].phase # "ready" /\ run'[n].phase = "ready" /\ ~ crossed =>
            \/ run[n].asked = {}
            \/ /\ run[n].asked \subseteq {x[1] : x \in nodes}
               /\ {x[1] : x \in nodes \ leaked} \subseteq run[n].asked]_generatorVars
=============================================================================
