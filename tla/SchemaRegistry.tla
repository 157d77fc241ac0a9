--------------------------- MODULE SchemaRegistry ---------------------------
(***************************************************************************)
(* How a change of a branch's schema reaches the workers.  The database    *)
(* holds the schema nodes of every branch and a Branch node with the hash  *)
(* of its schema and the time it was branched from main.  Every worker     *)
(* (API server process or git agent) keeps a registry in memory: a copy of *)
(* the Branch node and the schema it serves.  A worker that changes a      *)
(* schema updates its own registry and sends an event; the event becomes a *)
(* refresh message to every worker.  Each worker also refreshes its        *)
(* registry from time to time.                                             *)
(*                                                                         *)
(* A schema is the set of its kinds, and so is its hash; kinds are added   *)
(* and not changed or removed.  The time a branch was branched from is the *)
(* set of main's kinds it sees.  No branch is created or deleted here.     *)
(***************************************************************************)
EXTENDS Naturals

CONSTANTS
  Worker,     \* API server processes and git agents
  Editor,     \* the workers that get requests to load a schema
  Merger,     \* the workers that get requests to merge a branch
  Rebaser,    \* the workers that get requests to rebase a branch
  Main,       \* the default branch
  Branch,     \* the other branches
  Kind,       \* kinds of nodes
  MaxRebases, \* bound: rebases
  MaxLost,    \* bound: refresh messages lost with their consumer (no_ack)
  MaxFaults   \* bound: refreshes that fail and changes that are rolled back

ASSUME WorkerAssumption == Editor \cup Merger \cup Rebaser \subseteq Worker
ASSUME BranchAssumption == Main \notin Branch
ASSUME BoundAssumption == MaxRebases \in Nat /\ MaxLost \in Nat /\ MaxFaults \in Nat

VARIABLES
  written,       \* database: the schema nodes written on a branch
  node,      \* database: the Branch nodes
  reg,       \* per worker: registry.branch, copies of the Branch nodes
  schema,    \* per worker: registry.schema
  load,      \* per worker: a request to load a schema (one at a time)
  merging,   \* the merge that is under way
  events,    \* event.* messages in the worker queue
  inbox,     \* per worker: refresh.registry.* messages in its events queue
  refresh,   \* per worker: refresh_branches under the local schema lock
  rebases, lost, faults,
  undone,    \* history, per worker: kinds of the default branch whose change was rolled back here
  stray      \* history: branches that were rebased, whose schema could not be loaded by a
             \* refresh, or of which a change was rolled back

vars == <<written, node, reg, schema, load, merging, events, inbox, refresh, rebases, lost, faults,
          undone, stray>>
dbVars == <<written, node>>
busVars == <<events, inbox>>
boundVars == <<rebases, lost, faults>>
historyVars == <<undone, stray>>

AnyBranch == Branch \cup {Main}

BranchNode == [hash : SUBSET Kind, base : SUBSET Kind]
NewBranch == [hash |-> {}, base |-> {}]

Event == [type : {"branches"}, initiator : Worker]
         \cup [type : {"rebased"}, br : Branch, initiator : Worker]

NoLoad == [phase |-> "none", br |-> Main, new |-> {}, cand |-> {}, base |-> {}, attached |-> FALSE]
NoRefresh == [on |-> FALSE, list |-> [b \in AnyBranch |-> NewBranch], todo |-> {}, loading |-> {}]

(* The schema nodes that a query on the branch finds. *)
SchemaOf(b) == written[b] \cup node[b].base

Init ==
  /\ written = [b \in AnyBranch |-> {}]
  /\ node = [b \in AnyBranch |-> NewBranch]
  /\ reg = [w \in Worker |-> node]
  /\ schema = [w \in Worker |-> written]
  /\ load = [w \in Worker |-> NoLoad]
  /\ events = {}
  /\ inbox = [w \in Worker |-> {}]
  /\ refresh = [w \in Worker |-> NoRefresh]
  /\ merging = {}
  /\ rebases = 0 /\ lost = 0 /\ faults = 0
  /\ undone = [w \in Worker |-> {}] /\ stray = {}

-----------------------------------------------------------------------------
(* The global schema lock is the local lock of the process and then one for  *)
(* all processes; a merge takes both too.  A refresh takes the local one.    *)
Locked(w) == load[w].phase \in {"locked", "served"} \/ \E m \in merging : m.by = w
LocalLockFree(w) == ~ refresh[w].on /\ ~ Locked(w)
GlobalLockFree == \A w \in Worker : ~ Locked(w)

(* POST /schema/load.  The request gets the Branch object of this worker's   *)
(* registry, and waits for the global schema lock.                           *)
LoadRequest(w, b, k) ==
  /\ w \in Editor
  /\ load[w].phase = "none"
  /\ k \notin schema[w][b]
  /\ load' = [load EXCEPT ![w] = [phase |-> "waiting", br |-> b, new |-> {k}, cand |-> {},
                                 base |-> reg[w][b].base, attached |-> TRUE]]
  /\ UNCHANGED <<dbVars, reg, schema, merging, busVars, refresh, boundVars, historyVars>>

(* Mutant: the candidate is not a duplicate, and is served while it is checked. *)
LoadBegin_in_place(w) ==
  LET b == load[w].br
      cand == schema[w][b] \cup load[w].new
  IN /\ load[w].phase = "waiting"
     /\ LocalLockFree(w) /\ GlobalLockFree
     /\ load' = [load EXCEPT ![w].phase = "locked", ![w].cand = cand]
     /\ schema' = [schema EXCEPT ![w][b] = cand]
     /\ UNCHANGED <<dbVars, reg, merging, busVars, refresh, boundVars, historyVars>>

(* Under the lock the candidate is made from the schema that this worker has *)
(* in memory; the request is over if nothing differs.                        *)
LoadBegin(w) ==
  LET current == schema[w][load[w].br]
  IN /\ load[w].phase = "waiting"
     /\ LocalLockFree(w) /\ GlobalLockFree
     /\ load' = [load EXCEPT ![w] = IF load[w].new \subseteq current THEN NoLoad
                                   ELSE [@ EXCEPT !.phase = "locked", !.cand = current \cup load[w].new]]
     /\ UNCHANGED <<dbVars, reg, schema, merging, busVars, refresh, boundVars, historyVars>>

(* After the checks, in a transaction that writes what differs, the candidate *)
(* replaces the schema that the worker serves, and the Branch object gets the *)
(* new hash...                                                               *)
LoadServe(w) ==
  LET b == load[w].br
  IN /\ load[w].phase = "locked"
     /\ schema' = [schema EXCEPT ![w][b] = load[w].cand]
     /\ reg' = IF load[w].attached THEN [reg EXCEPT ![w][b].hash = load[w].cand] ELSE reg
     /\ load' = [load EXCEPT ![w].phase = "served"]
     /\ UNCHANGED <<dbVars, merging, busVars, refresh, boundVars, historyVars>>

(* ...the whole object is saved and the transaction commits.  The event is   *)
(* not sent if a migration fails.                                            *)
LoadCommit(w) ==
  LET b == load[w].br
  IN /\ load[w].phase = "served"
     /\ written' = [written EXCEPT ![b] = @ \cup load[w].new]
     /\ node' = [node EXCEPT ![b] = [hash |-> load[w].cand, base |-> load[w].base]]
     /\ events' \in {events, events \cup {[type |-> "branches", initiator |-> w]}}
     /\ load' = [load EXCEPT ![w] = NoLoad]
     /\ UNCHANGED <<reg, schema, merging, inbox, refresh, boundVars, historyVars>>

(* The checks refuse the schema... *)
LoadRefused(w) ==
  /\ load[w].phase = "locked"
  /\ load' = [load EXCEPT ![w] = NoLoad]
  /\ UNCHANGED <<dbVars, reg, schema, merging, busVars, refresh, boundVars, historyVars>>

(* ...or the transaction fails, and leaves the registry as it is.            *)
LoadRollback(w) ==
  LET b == load[w].br
  IN /\ load[w].phase = "served"
     /\ faults < MaxFaults
     /\ faults' = faults + 1
     /\ undone' = IF b = Main THEN [undone EXCEPT ![w] = @ \cup load[w].new] ELSE undone
     /\ stray' = stray \cup {b}
     /\ load' = [load EXCEPT ![w] = NoLoad]
     /\ UNCHANGED <<dbVars, reg, schema, merging, busVars, refresh, rebases, lost>>

(* The registry of w gets a new Branch object for b: a request on this       *)
(* worker keeps the object it started with.                                  *)
Detached(w, b) ==
  IF load[w].br = b THEN [load EXCEPT ![w].attached = FALSE] ELSE load

(* The schema part of a merge.  The Branch object of the source, read before, *)
(* goes into the registry if the branch had changes; main's schema is read   *)
(* back inside the transaction and served...                                 *)
MergeServe(w, b) ==
  LET merged == written[Main] \cup written[b]
      source == [hash |-> node[b].hash, base |-> merged]
      target == [hash |-> merged, base |-> {}]
      moves == written[b] # {}
  IN /\ w \in Merger
     /\ LocalLockFree(w) /\ GlobalLockFree
     /\ moves \/ written[Main] # node[b].base
     /\ merging' = {[by |-> w, br |-> b, hash |-> node[b].hash]}
     /\ schema' = [schema EXCEPT ![w][Main] = merged]
     /\ reg' = [reg EXCEPT ![w][Main] = target, ![w][b] = IF moves THEN source ELSE @]
     /\ load' = IF moves THEN Detached(w, b) ELSE load
     /\ UNCHANGED <<dbVars, busVars, refresh, boundVars, historyVars>>

(* ...before the transaction commits...                                      *)
MergeCommit(m) ==
  LET merged == written[Main] \cup written[m.br]
      source == [hash |-> m.hash, base |-> merged]
      target == [hash |-> merged, base |-> {}]
  IN /\ written' = [written EXCEPT ![Main] = merged, ![m.br] = {}]
     /\ node' = [node EXCEPT ![Main] = target, ![m.br] = IF written[m.br] # {} THEN source ELSE @]
     /\ merging' = {}
     /\ events' = events \cup {[type |-> "branches", initiator |-> m.by]}
     /\ UNCHANGED <<reg, schema, load, inbox, refresh, boundVars, historyVars>>

(* ...or fails.                                                              *)
MergeRollback(m) ==
  /\ faults < MaxFaults
  /\ faults' = faults + 1
  /\ merging' = {}
  /\ undone' = [undone EXCEPT ![m.by] = @ \cup written[m.br]]
  /\ stray' = stray \cup {Main, m.br}
  /\ UNCHANGED <<dbVars, reg, schema, load, busVars, refresh, rebases, lost>>

(* BranchRebase takes no lock: the branch now reads main's nodes.  If its    *)
(* hash is not the one main has in this worker's registry, the schema is     *)
(* read back.                                                                *)
Rebase(w, b) ==
  LET content == written[b] \cup written[Main]
      changed == node[b].hash # reg[w][Main].hash
      saved == [hash |-> IF changed THEN content ELSE node[b].hash, base |-> written[Main]]
  IN /\ w \in Rebaser
     /\ rebases < MaxRebases
     /\ rebases' = rebases + 1
     /\ node' = [node EXCEPT ![b] = saved]
     /\ schema' = IF changed THEN [schema EXCEPT ![w][b] = content] ELSE schema
     /\ reg' = [reg EXCEPT ![w][b] = saved]
     /\ load' = Detached(w, b)
     /\ events' = events \cup {[type |-> "rebased", br |-> b, initiator |-> w]}
     /\ stray' = stray \cup {b}
     /\ UNCHANGED <<written, merging, inbox, refresh, lost, faults, undone>>

-----------------------------------------------------------------------------
(* event.schema.update, event.branch.merge and event.branch.rebased: some    *)
(* worker handles the event; its refresh message goes to every worker, and   *)
(* the one that asked for it ignores it.                                     *)
HandleEvent(e) ==
  /\ e \in events
  /\ events' = events \ {e}
  /\ inbox' = [w \in Worker |-> IF w = e.initiator THEN inbox[w] ELSE inbox[w] \cup {e}]
  /\ UNCHANGED <<dbVars, reg, schema, load, merging, refresh, boundVars, historyVars>>

(* A consumer that restarts loses what was delivered to it. *)
LoseMessage(w) ==
  /\ lost < MaxLost
  /\ lost' = lost + 1
  /\ \E m \in inbox[w] : inbox' = [inbox EXCEPT ![w] = @ \ {m}]
  /\ UNCHANGED <<dbVars, reg, schema, load, merging, events, refresh, rebases, faults, historyVars>>

(* refresh.registry.rebased_branch: only the Branch object is replaced. *)
RefreshRebased(w) ==
  /\ LocalLockFree(w)
  /\ \E m \in inbox[w] :
       /\ m.type = "rebased"
       /\ reg' = [reg EXCEPT ![w][m.br] = node[m.br]]
       /\ load' = Detached(w, m.br)
       /\ inbox' = [inbox EXCEPT ![w] = @ \ {m}]
  /\ UNCHANGED <<dbVars, schema, merging, events, refresh, boundVars, historyVars>>

-----------------------------------------------------------------------------
(* refresh_branches: take the local schema lock and list the branches. *)
RefreshStart(w) ==
  /\ LocalLockFree(w)
  /\ refresh' = [refresh EXCEPT ![w] = [on |-> TRUE, list |-> node, todo |-> AnyBranch, loading |-> {}]]

(* refresh.registry.branches *)
RefreshBranches(w) ==
  /\ \E m \in inbox[w] : /\ m.type = "branches"
                         /\ inbox' = [inbox EXCEPT ![w] = @ \ {m}]
  /\ RefreshStart(w)
  /\ UNCHANGED <<dbVars, reg, schema, load, merging, events, boundVars, historyVars>>

(* The scheduled task branch_refresh (every 900 seconds, on every worker). *)
TriggerBranchRefresh(w) ==
  /\ RefreshStart(w)
  /\ UNCHANGED <<dbVars, reg, schema, load, merging, busVars, boundVars, historyVars>>

(* The branches left in the list whose hash is not the registry's. *)
NewHash(w) == {b \in refresh[w].todo : reg[w][b].hash # refresh[w].list[b].hash}

(* The next of them in the list, past some that have the same hash: its new  *)
(* object is put into the registry and its schema is to be loaded.           *)
RefreshCompare(w) ==
  /\ refresh[w].on /\ refresh[w].loading = {}
  /\ \E b \in NewHash(w), passed \in SUBSET (refresh[w].todo \ NewHash(w)) :
       /\ refresh' = [refresh EXCEPT ![w].todo = @ \ (passed \cup {b}), ![w].loading = {b}]
       /\ reg' = [reg EXCEPT ![w][b] = refresh[w].list[b]]
       /\ load' = Detached(w, b)
  /\ UNCHANGED <<dbVars, schema, merging, busVars, boundVars, historyVars>>

RefreshEnd(w) ==
  /\ refresh[w].on /\ refresh[w].loading = {} /\ NewHash(w) = {}
  /\ refresh' = [refresh EXCEPT ![w] = NoRefresh]
  /\ UNCHANGED <<dbVars, reg, schema, load, merging, busVars, boundVars, historyVars>>

(* Mutant: the schema of the default branch is not loaded again. *)
LoadedSchema_not_main(w, b) ==
  IF b = Main THEN schema[w][Main] ELSE schema[w][b] \cup SchemaOf(b)

(* SchemaManager.load_schema: a branch with the hash of main gets a copy of  *)
(* the schema main has here.  Else the kinds of the hash that are not in     *)
(* memory are read from the database, or all kinds if there is none.         *)
LoadedSchema(w, b) ==
  LET h == refresh[w].list[b].hash
      missing == h \ schema[w][b]
  IN IF b # Main /\ reg[w][Main].hash = h
     THEN schema[w][Main]
     ELSE schema[w][b] \cup (IF missing = {} THEN SchemaOf(b) ELSE missing \cap SchemaOf(b))

RefreshLoad(w) ==
  /\ \E b \in refresh[w].loading : schema' = [schema EXCEPT ![w][b] = LoadedSchema(w, b)]
  /\ refresh' = [refresh EXCEPT ![w].loading = {}]
  /\ UNCHANGED <<dbVars, reg, load, merging, busVars, boundVars, historyVars>>

(* The query fails.  The task is over, and the lock is free: the retry of a  *)
(* refresh message goes to a queue that no worker reads.                     *)
RefreshFails(w) ==
  /\ faults < MaxFaults
  /\ faults' = faults + 1
  /\ refresh[w].loading # {}
  /\ refresh' = [refresh EXCEPT ![w] = NoRefresh]
  /\ stray' = stray \cup refresh[w].loading
  /\ UNCHANGED <<dbVars, reg, schema, load, merging, busVars, rebases, lost, undone>>

-----------------------------------------------------------------------------
Refreshing(w) == RefreshCompare(w) \/ RefreshLoad(w) \/ RefreshEnd(w)

Next ==
  \/ \E w \in Worker :
       \/ \E b \in AnyBranch, k \in Kind : LoadRequest(w, b, k)
       \/ LoadBegin(w)
       \/ LoadServe(w) \/ LoadCommit(w) \/ LoadRefused(w) \/ LoadRollback(w)
       \/ \E b \in Branch : MergeServe(w, b)
       \/ \E b \in Branch : Rebase(w, b)
       \/ LoseMessage(w)
       \/ RefreshRebased(w)
       \/ RefreshBranches(w)
       \/ TriggerBranchRefresh(w)
       \/ Refreshing(w)
       \/ RefreshFails(w)
  \/ \E m \in merging : MergeCommit(m) \/ MergeRollback(m)
  \/ \E e \in Event : HandleEvent(e)

(* A load, a merge and a refresh that began go on, the scheduler starts a refresh     *)
(* again and again, messages are handled in turn, and a lock is given to     *)
(* those who wait for it in the order they came.                             *)
Fairness ==
  /\ \A w \in Worker : /\ SF_vars(LoadBegin(w))
                       /\ WF_vars(LoadServe(w))
                       /\ WF_vars(LoadCommit(w))
                       /\ WF_vars(Refreshing(w))
                       /\ SF_vars(TriggerBranchRefresh(w))
                       /\ SF_vars(RefreshRebased(w))
                       /\ SF_vars(RefreshBranches(w))
  /\ WF_vars(\E m \in merging : MergeCommit(m))
  /\ \A e \in Event : WF_vars(HandleEvent(e))

Spec == Init /\ [][Next]_vars /\ Fairness

-----------------------------------------------------------------------------
TypeOK ==
  /\ written \in [AnyBranch -> SUBSET Kind] /\ node \in [AnyBranch -> BranchNode]
  /\ reg \in [Worker -> [AnyBranch -> BranchNode]]
  /\ schema \in [Worker -> [AnyBranch -> SUBSET Kind]]
  /\ load \in [Worker -> [phase : {"none", "waiting", "locked", "served"}, br : AnyBranch, new : SUBSET Kind,
                         cand : SUBSET Kind, base : SUBSET Kind, attached : BOOLEAN]]
  /\ events \subseteq Event /\ inbox \in [Worker -> SUBSET Event]
  /\ refresh \in [Worker -> [on : BOOLEAN, list : [AnyBranch -> BranchNode],
                            todo : SUBSET AnyBranch, loading : SUBSET AnyBranch]]
  /\ merging \subseteq [by : Worker, br : Branch, hash : SUBSET Kind]
  /\ rebases \in 0..MaxRebases /\ lost \in 0..MaxLost /\ faults \in 0..MaxFaults
  /\ undone \in [Worker -> SUBSET Kind] /\ stray \subseteq AnyBranch

(* The kinds of the default branch that a change under way on a worker is    *)
(* about to store.                                                           *)
Changing(w) ==
  (IF load[w].phase = "served" /\ load[w].br = Main THEN load[w].new ELSE {})
  \cup UNION {written[m.br] : m \in {x \in merging : x.by = w}}

(* A worker serves a kind on the default branch that the database does not   *)
(* have there only while it is about to store it itself, or after it failed  *)
(* to: whatever loads, merges, rebases, refreshes and failures overlap, no   *)
(* other worker gets to serve it.                                            *)
MainSchemaStored ==
  \A w \in Worker : schema[w][Main] \subseteq written[Main] \cup Changing(w) \cup undone[w]

(* Once schemas are no longer changed, all workers come to serve the same    *)
(* schema of every branch and stay with it, apart from a branch that was     *)
(* rebased, that a refresh could not load (both leave a hash in the registry *)
(* without its schema) or of which a change was rolled back; and a branch    *)
(* may take the schema of the default branch over.                           *)
WorkersAgree ==
  <>[](\/ Main \in stray
      \/ \A w, x \in Worker, b \in AnyBranch \ stray : schema[w][b] = schema[x][b])
=============================================================================
