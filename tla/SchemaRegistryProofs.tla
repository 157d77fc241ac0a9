------------------------ MODULE SchemaRegistryProofs ------------------------
(***************************************************************************)
(* Proofs about SchemaRegistry for any workers, branches, kinds and        *)
(* bounds: its type invariant, and that the only worker that serves a kind *)
(* on the default branch that the database does not have is one that is    *)
(* about to store it or has failed to.                                     *)
(***************************************************************************)
EXTENDS SchemaRegistry, NodeProfiles, WellFoundedInduction, TLAPS

(* The default branch is branched from nothing, in the database, in every    *)
(* registry, in the list a refresh works on and in the object a load saves.  *)
MainHasNoBase ==
  /\ node[Main].base = {}
  /\ \A w \in Worker : reg[w][Main].base = {} /\ refresh[w].list[Main].base = {}
  /\ \A w \in Worker : load[w].br = Main => load[w].base = {}

(* What a load on the default branch is about to serve is stored, or is      *)
(* about to be stored with it.                                               *)
CandidateStored ==
  \A w \in Worker : load[w].br = Main =>
    load[w].cand \subseteq written[Main] \cup load[w].new \cup undone[w]

(* The locks let one merge through.                                          *)
OneMerge == \A m, n \in merging : m = n

(* The type of a request to load a schema. *)
LoadType == [phase : {"none", "waiting", "locked", "served"}, br : AnyBranch, new : SUBSET Kind,
             cand : SUBSET Kind, base : SUBSET Kind, attached : BOOLEAN]

MergeType == [by : Worker, br : Branch, hash : SUBSET Kind]

IInv == TypeOK /\ MainSchemaStored /\ MainHasNoBase /\ CandidateStored /\ OneMerge

-----------------------------------------------------------------------------
(* What a worker is about to store. *)
LEMMA ChangingIs ==
  \A w, k : k \in Changing(w) <=>
    \/ load[w].phase = "served" /\ load[w].br = Main /\ k \in load[w].new
    \/ \E m \in merging : m.by = w /\ k \in written[m.br]
  BY DEF Changing

LEMMA ChangingNext ==
  \A w, k : k \in Changing(w)' <=>
    \/ load'[w].phase = "served" /\ load'[w].br = Main /\ k \in load'[w].new
    \/ \E m \in merging' : m.by = w /\ k \in written'[m.br]
  BY DEF Changing

(* A step after which as much is stored, about to be stored and undone, and  *)
(* the workers serve the same.                                               *)
LEMMA StoredKept ==
  ASSUME MainSchemaStored,
         \A w \in Worker : schema'[w][Main] \subseteq schema[w][Main] \cup written'[Main],
         written[Main] \subseteq written'[Main],
         \A w \in Worker : undone[w] \subseteq undone'[w],
         \A w \in Worker : Changing(w) \subseteq Changing(w)' \cup written'[Main] \cup undone'[w]
  PROVE  MainSchemaStored'
  BY DEF MainSchemaStored

(* Nothing that bears on what a worker is about to store has changed.        *)
LEMMA ChangingKept ==
  ASSUME UNCHANGED <<merging, written>>,
         \A w \in Worker : /\ load'[w].br = load[w].br /\ load'[w].new = load[w].new
                           /\ load[w].phase = "served" => load'[w].phase = "served"
  PROVE  \A w \in Worker : Changing(w) \subseteq Changing(w)'
  BY ChangingIs, ChangingNext

(* Taking the object away from a load changes nothing else of it. *)
LEMMA DetachedKeeps ==
  ASSUME TypeOK, NEW w \in Worker, NEW b \in AnyBranch
  PROVE  LET l == Detached(w, b)
         IN /\ l \in [Worker -> LoadType]
            /\ \A x \in Worker : l[x].phase = load[x].phase
            /\ \A x \in Worker : l[x].br = load[x].br /\ l[x].new = load[x].new
                                /\ l[x].cand = load[x].cand /\ l[x].base = load[x].base
  <1>1. load \in [Worker -> LoadType]
    BY DEF TypeOK, LoadType
  <1>2. [load[w] EXCEPT !.attached = FALSE] \in LoadType
    BY <1>1 DEF LoadType
  <1>3. [load EXCEPT ![w].attached = FALSE] = [load EXCEPT ![w] = [load[w] EXCEPT !.attached = FALSE]]
    BY <1>1
  <1> QED
    BY <1>1, <1>2, <1>3 DEF Detached, LoadType

(* A refresh finds kinds of the default branch in memory or in the database. *)
LEMMA LoadedIsStored ==
  ASSUME IInv, NEW w \in Worker
  PROVE  LoadedSchema(w, Main) \subseteq schema[w][Main] \cup written[Main]
  <1>1. SchemaOf(Main) = written[Main]
    BY DEF IInv, MainHasNoBase, SchemaOf
  <1> QED
    BY <1>1 DEF LoadedSchema

(* A refresh that has loaded a branch is still a refresh. *)
LEMMA LoadingEnds ==
  ASSUME NEW r \in [on : BOOLEAN, list : [AnyBranch -> BranchNode],
                    todo : SUBSET AnyBranch, loading : SUBSET AnyBranch]
  PROVE  [r EXCEPT !.loading = {}]
           \in [on : BOOLEAN, list : [AnyBranch -> BranchNode],
                todo : SUBSET AnyBranch, loading : SUBSET AnyBranch]
  OBVIOUS

(* A refresh that goes on to a branch is still a refresh, with the same list. *)
LEMMA LoadingBegins ==
  ASSUME NEW r \in [on : BOOLEAN, list : [AnyBranch -> BranchNode],
                    todo : SUBSET AnyBranch, loading : SUBSET AnyBranch],
         NEW b \in AnyBranch, NEW done
  PROVE  LET s == [r EXCEPT !.todo = @ \ done, !.loading = {b}]
         IN /\ s \in [on : BOOLEAN, list : [AnyBranch -> BranchNode],
                      todo : SUBSET AnyBranch, loading : SUBSET AnyBranch]
            /\ s.list = r.list
  OBVIOUS

(* What a refresh loads is a schema. *)
LEMMA LoadedType ==
  ASSUME TypeOK, NEW w \in Worker, NEW b \in AnyBranch
  PROVE  LoadedSchema(w, b) \in SUBSET Kind
  <1>1. Main \in AnyBranch
    BY DEF AnyBranch
  <1>2. SchemaOf(b) \subseteq Kind
    BY DEF TypeOK, SchemaOf, BranchNode
  <1>3. schema[w][b] \subseteq Kind /\ schema[w][Main] \subseteq Kind
    BY <1>1 DEF TypeOK
  <1> QED
    BY <1>2, <1>3 DEF LoadedSchema

(* The initial state satisfies the invariant. *)
LEMMA InitIInv == Init => IInv
  <1> SUFFICES ASSUME Init PROVE IInv
    OBVIOUS
  <1>1. Main \in AnyBranch
    BY DEF AnyBranch
  <1>2. NewBranch \in BranchNode
    BY DEF NewBranch, BranchNode
  <1>3. TypeOK
    <2>1. written \in [AnyBranch -> SUBSET Kind] /\ node \in [AnyBranch -> BranchNode]
      BY <1>2 DEF Init
    <2>2. reg \in [Worker -> [AnyBranch -> BranchNode]] /\ schema \in [Worker -> [AnyBranch -> SUBSET Kind]]
      BY <2>1 DEF Init
    <2>3. load \in [Worker -> LoadType]
      BY <1>1 DEF Init, NoLoad, LoadType
    <2>4. refresh \in [Worker -> [on : BOOLEAN, list : [AnyBranch -> BranchNode],
                            todo : SUBSET AnyBranch, loading : SUBSET AnyBranch]]
      BY <1>2 DEF Init, NoRefresh
    <2>5. events \subseteq Event /\ inbox \in [Worker -> SUBSET Event]
      BY DEF Init
    <2>6. rebases \in 0..MaxRebases /\ lost \in 0..MaxLost /\ faults \in 0..MaxFaults
      BY BoundAssumption DEF Init
    <2>7. merging \subseteq MergeType /\ undone \in [Worker -> SUBSET Kind] /\ stray \subseteq AnyBranch
      BY DEF Init
    <2> QED
      BY <2>1, <2>2, <2>3, <2>4, <2>5, <2>6, <2>7 DEF TypeOK, LoadType, MergeType
  <1>4. MainSchemaStored
    BY <1>1 DEF Init, MainSchemaStored
  <1>5. MainHasNoBase
    BY <1>1 DEF Init, MainHasNoBase, NewBranch, NoRefresh, NoLoad
  <1>6. CandidateStored
    BY DEF Init, CandidateStored, NoLoad
  <1>7. OneMerge
    BY DEF Init, OneMerge
  <1> QED
    BY <1>3, <1>4, <1>5, <1>6, <1>7 DEF IInv

(* One step of the specification keeps the invariant. *)
LEMMA NextIInv == IInv /\ [Next]_vars => IInv'
  <1> SUFFICES ASSUME IInv, [Next]_vars PROVE IInv'
    OBVIOUS
  <1>m. Main \in AnyBranch /\ (\A b \in Branch : b \in AnyBranch /\ b # Main)
    BY BranchAssumption DEF AnyBranch
  <1>t. /\ TypeOK /\ MainSchemaStored /\ MainHasNoBase /\ CandidateStored /\ OneMerge
        /\ written[Main] \subseteq Kind
    BY <1>m DEF IInv, TypeOK
  <1>l. load \in [Worker -> LoadType]
    BY <1>t DEF TypeOK, LoadType
  <1>0. ASSUME NEW w \in Worker, NEW b \in AnyBranch, NEW k \in Kind, LoadRequest(w, b, k)
        PROVE  IInv'
    <2> USE <1>0, <1>t, <1>m, <1>l DEF LoadRequest, dbVars, busVars, boundVars, historyVars
    <2> DEFINE l == [phase |-> "waiting", br |-> b, new |-> {k}, cand |-> {},
                     base |-> reg[w][b].base, attached |-> TRUE]
    <2>0. l \in LoadType
      BY DEF TypeOK, BranchNode, LoadType
    <2>1. load' = [load EXCEPT ![w] = l] /\ load' \in [Worker -> LoadType]
      BY <2>0
    <2>2. TypeOK'
      BY <2>1 DEF TypeOK, LoadType
    <2>3. \A x \in Worker : load'[x].br = Main => load'[x].base = {}
      BY <2>1 DEF MainHasNoBase
    <2>4. CandidateStored'
      BY <2>1 DEF CandidateStored
    <2>5. \A x \in Worker : Changing(x) \subseteq Changing(x)'
      BY <2>1, ChangingIs, ChangingNext
    <2>6. MainSchemaStored'
      BY <2>5, StoredKept
    <2> QED
      BY <2>2, <2>3, <2>4, <2>6 DEF IInv, MainHasNoBase, OneMerge
  <1>1. ASSUME NEW w \in Worker, LoadBegin(w)
        PROVE  IInv'
    <2> USE <1>1, <1>t, <1>m, <1>l DEF LoadBegin, dbVars, busVars, boundVars, historyVars
    <2> DEFINE current == schema[w][load[w].br]
               locked == [load[w] EXCEPT !.phase = "locked", !.cand = current \cup load[w].new]
    <2>0. current \subseteq Kind /\ load[w].new \subseteq Kind
      BY DEF TypeOK
    <2>1. NoLoad \in LoadType /\ NoLoad.base = {} /\ NoLoad.cand = {}
      BY DEF NoLoad, LoadType
    <2>2. /\ locked \in LoadType
          /\ locked.br = load[w].br /\ locked.base = load[w].base
          /\ locked.new = load[w].new /\ locked.cand = current \cup load[w].new
      BY <2>0 DEF LoadType
    <2>3. PICK l \in {NoLoad, locked} : load' = [load EXCEPT ![w] = l]
      OBVIOUS
    <2>4. load' \in [Worker -> LoadType]
      BY <2>1, <2>2, <2>3
    <2>5. TypeOK'
      BY <2>4 DEF TypeOK, LoadType
    <2>6. \A x \in Worker : load'[x].br = Main => load'[x].base = {}
      BY <2>1, <2>2, <2>3 DEF MainHasNoBase
    <2>f. \A x \in Worker : \A k : k \notin Changing(x)
      BY ChangingIs DEF GlobalLockFree, Locked
    <2>7. locked.br = Main => locked.cand \subseteq written[Main] \cup locked.new \cup undone[w]
      BY <2>2, <2>f DEF MainSchemaStored
    <2>8. CandidateStored'
      BY <2>1, <2>3, <2>7 DEF CandidateStored
    <2>9. MainSchemaStored'
      BY <2>f, StoredKept
    <2> QED
      BY <2>5, <2>6, <2>8, <2>9 DEF IInv, MainHasNoBase, OneMerge
  <1>2. ASSUME NEW w \in Worker, LoadCommit(w)
        PROVE  IInv'
    <2> USE <1>2, <1>t, <1>m, <1>l DEF LoadCommit, boundVars, historyVars
    <2> DEFINE b == load[w].br
               saved == [hash |-> load[w].cand, base |-> load[w].base]
    <2>0. b \in AnyBranch /\ saved \in BranchNode /\ load[w].new \subseteq Kind /\ load[w].cand \subseteq Kind
      BY DEF TypeOK, BranchNode
    <2>n. NoLoad \in LoadType /\ NoLoad.base = {} /\ NoLoad.cand = {}
      BY DEF NoLoad, LoadType
    <2>o. /\ \A a \in AnyBranch : written[a] \subseteq written'[a]
          /\ b = Main => load[w].new \subseteq written'[Main]
      BY <2>0 DEF TypeOK
    <2>1. TypeOK'
      <3>1. written' \in [AnyBranch -> SUBSET Kind] /\ node' \in [AnyBranch -> BranchNode]
        BY <2>0 DEF TypeOK
      <3>4. load' \in [Worker -> LoadType]
        BY <2>n
      <3>5. events' \subseteq Event
        BY DEF TypeOK, Event
      <3> QED
        BY <3>1, <3>4, <3>5 DEF TypeOK, LoadType
    <2>2. MainSchemaStored'
      <3>1. \A x \in Worker : x # w => load'[x] = load[x]
        OBVIOUS
      <3>3. \A m \in merging : m.br \in AnyBranch
        BY DEF TypeOK
      <3>2. \A x \in Worker : Changing(x) \subseteq Changing(x)' \cup written'[Main]
        BY <2>o, <3>1, <3>3, ChangingIs, ChangingNext
      <3> QED
        BY <2>o, <3>2, StoredKept
    <2>3. MainHasNoBase'
      <3>1. node'[Main].base = {}
        BY <2>0 DEF MainHasNoBase, TypeOK
      <3>3. \A x \in Worker : load'[x].br = Main => load'[x].base = {}
        BY <2>n DEF MainHasNoBase
      <3> QED
        BY <3>1, <3>3 DEF MainHasNoBase
    <2>4. CandidateStored'
      BY <2>n, <2>o DEF CandidateStored
    <2> QED
      BY <2>1, <2>2, <2>3, <2>4 DEF IInv, OneMerge
  <1>15. ASSUME NEW w \in Worker, LoadServe(w)
         PROVE  IInv'
    <2> USE <1>15, <1>t, <1>m, <1>l DEF LoadServe, dbVars, busVars, boundVars, historyVars
    <2> DEFINE b == load[w].br
               l == [load[w] EXCEPT !.phase = "served"]
               n == [reg[w][b] EXCEPT !.hash = load[w].cand]
    <2>0. b \in AnyBranch /\ load[w].cand \subseteq Kind /\ reg[w][b] \in BranchNode
      BY DEF TypeOK
    <2>1. /\ l \in LoadType /\ l.phase = "served"
          /\ l.br = load[w].br /\ l.new = load[w].new /\ l.cand = load[w].cand /\ l.base = load[w].base
      BY DEF LoadType
    <2>2. n \in BranchNode /\ n.base = reg[w][b].base
      BY <2>0 DEF BranchNode
    <2>3. load' = [load EXCEPT ![w] = l] /\ load' \in [Worker -> LoadType]
      BY <2>1
    <2>4. reg' = [reg EXCEPT ![w][b] = n] \/ reg' = reg
      BY DEF TypeOK
    <2> HIDE DEF l, n
    <2>5. reg' \in [Worker -> [AnyBranch -> BranchNode]]
      <3>1. reg \in [Worker -> [AnyBranch -> BranchNode]]
        BY DEF TypeOK
      <3>2. CASE reg' = [reg EXCEPT ![w][b] = n]
        BY ONLY <2>0, <2>2, <3>1, <3>2, w \in Worker
      <3> QED
        BY <2>4, <3>1, <3>2
    <2>6. schema' \in [Worker -> [AnyBranch -> SUBSET Kind]]
      BY <2>0 DEF TypeOK
    <2>7. TypeOK'
      BY <2>3, <2>5, <2>6 DEF TypeOK, LoadType
    <2>8. \A x \in Worker : reg'[x][Main].base = {}
      BY <2>0, <2>2, <2>4 DEF TypeOK, MainHasNoBase
    <2>9. MainHasNoBase'
      BY <2>1, <2>3, <2>8 DEF MainHasNoBase
    <2>10. CandidateStored'
      BY <2>1, <2>3 DEF CandidateStored
    <2>11. MainSchemaStored'
      <3>1. \A x \in Worker : load'[x].br = load[x].br /\ load'[x].new = load[x].new
                              /\ (load[x].phase = "served" => load'[x].phase = "served")
        BY <2>1, <2>3
      <3>2. \A x \in Worker : Changing(x) \subseteq Changing(x)'
        BY <3>1, ChangingKept
      <3>3. b = Main => load[w].new \subseteq Changing(w)'
        BY <2>1, <2>3, ChangingNext
      <3>4. \A x \in Worker : schema'[x][Main] = schema[x][Main]
                              \/ (x = w /\ b = Main /\ schema'[x][Main] = load[w].cand)
        BY <2>0 DEF TypeOK
      <3> QED
        BY <3>2, <3>3, <3>4 DEF MainSchemaStored, CandidateStored
    <2> QED
      BY <2>7, <2>9, <2>10, <2>11 DEF IInv, OneMerge
  <1>16. ASSUME NEW w \in Worker, LoadRefused(w) \/ LoadRollback(w)
         PROVE  IInv'
    <2> USE <1>16, <1>t, <1>m, <1>l DEF LoadRefused, LoadRollback, dbVars, busVars, boundVars, historyVars
    <2>n. NoLoad \in LoadType /\ NoLoad.base = {} /\ NoLoad.cand = {}
      BY DEF NoLoad, LoadType
    <2>0. load[w].br \in AnyBranch /\ load[w].new \subseteq Kind
      BY DEF TypeOK
    <2>1. load' = [load EXCEPT ![w] = NoLoad] /\ load' \in [Worker -> LoadType]
      BY <2>n
    <2>2. /\ undone' \in [Worker -> SUBSET Kind] /\ stray' \subseteq AnyBranch
          /\ \A x \in Worker : undone[x] \subseteq undone'[x]
          /\ load[w].phase = "served" /\ load[w].br = Main => load[w].new \subseteq undone'[w]
      <3>1. undone \in [Worker -> SUBSET Kind] /\ stray \subseteq AnyBranch
        BY DEF TypeOK
      <3>2. CASE LoadRefused(w)
        BY <3>1, <3>2
      <3>3. CASE LoadRollback(w)
        BY <2>0, <3>1, <3>3
      <3> QED
        BY <3>2, <3>3
    <2>3. faults' \in 0..MaxFaults
      BY BoundAssumption DEF TypeOK
    <2>4. TypeOK'
      BY <2>1, <2>2, <2>3 DEF TypeOK, LoadType
    <2>5. CandidateStored'
      BY <2>n, <2>1, <2>2 DEF CandidateStored
    <2>6. MainHasNoBase'
      BY <2>n, <2>1 DEF MainHasNoBase
    <2>7. \A x \in Worker : Changing(x) \subseteq Changing(x)' \cup undone'[x]
      BY <2>1, <2>2, ChangingIs, ChangingNext
    <2>8. MainSchemaStored'
      BY <2>2, <2>7, StoredKept
    <2> QED
      BY <2>4, <2>5, <2>6, <2>8 DEF IInv, OneMerge
  <1>3. ASSUME NEW w \in Worker, NEW b \in Branch, MergeServe(w, b)
        PROVE  IInv'
    <2> USE <1>3, <1>t, <1>m DEF MergeServe, dbVars, busVars, boundVars, historyVars
    <2> DEFINE merged == written[Main] \cup written[b]
               source == [hash |-> node[b].hash, base |-> merged]
               target == [hash |-> merged, base |-> {}]
               m == [by |-> w, br |-> b, hash |-> node[b].hash]
    <2>0. merged \subseteq Kind /\ source \in BranchNode /\ target \in BranchNode
      BY DEF TypeOK, BranchNode
    <2>k. /\ load' \in [Worker -> LoadType]
          /\ \A x \in Worker : load'[x].phase = load[x].phase
          /\ \A x \in Worker : load'[x].br = load[x].br /\ load'[x].new = load[x].new
                              /\ load'[x].cand = load[x].cand /\ load'[x].base = load[x].base
      BY DetachedKeeps DEF TypeOK, LoadType
    <2>f. \A x \in Worker : \A k : k \notin Changing(x)
      BY ChangingIs DEF GlobalLockFree, Locked
    <2>g. merging' = {m} /\ m \in MergeType /\ m.by = w /\ m.br = b
      BY DEF MergeType, TypeOK, BranchNode
    <2>1. TypeOK'
      <3>2. reg' \in [Worker -> [AnyBranch -> BranchNode]]
        <4> DEFINE moves == written[b] # {}
                   once == [reg EXCEPT ![w][Main] = target]
                   other == IF moves THEN source ELSE once[w][b]
        <4>1. reg \in [Worker -> [AnyBranch -> BranchNode]] /\ Main \in AnyBranch /\ b \in AnyBranch
          BY DEF TypeOK, AnyBranch
        <4>2. reg' = [once EXCEPT ![w][b] = other]
          OBVIOUS
        <4> HIDE DEF merged, source, target, moves
        <4>3. once \in [Worker -> [AnyBranch -> BranchNode]]
          BY ONLY <4>1, <2>0, w \in Worker
        <4> HIDE DEF once
        <4>4. other \in BranchNode
          BY ONLY <4>1, <4>3, <2>0, w \in Worker
        <4> HIDE DEF other
        <4> QED
          BY ONLY <4>1, <4>2, <4>3, <4>4, w \in Worker
      <3>3. schema' \in [Worker -> [AnyBranch -> SUBSET Kind]]
        BY <2>0 DEF TypeOK
      <3> HIDE DEF m
      <3> QED
        BY <3>2, <3>3, <2>k, <2>g DEF TypeOK, LoadType, MergeType
    <2>2. MainSchemaStored'
      <3> HIDE DEF m
      <3>1. \A x \in Worker : schema'[x][Main] = schema[x][Main] \/ (x = w /\ schema'[x][Main] = merged)
        BY DEF TypeOK
      <3>2. written[b] \subseteq Changing(w)'
        BY <2>g, ChangingNext
      <3> QED
        BY <3>1, <3>2, <2>f DEF MainSchemaStored
    <2>3. MainHasNoBase'
      <3>2. \A x \in Worker : reg'[x][Main].base = {}
        BY DEF MainHasNoBase, TypeOK
      <3> QED
        BY <3>2, <2>k DEF MainHasNoBase
    <2>4. CandidateStored'
      BY <2>k DEF CandidateStored
    <2>5. OneMerge'
      BY <2>g DEF OneMerge
    <2> QED
      BY <2>1, <2>2, <2>3, <2>4, <2>5 DEF IInv
  <1>17. ASSUME NEW m \in merging, MergeCommit(m)
         PROVE  IInv'
    <2> USE <1>17, <1>t, <1>m DEF MergeCommit, boundVars, historyVars
    <2> DEFINE merged == written[Main] \cup written[m.br]
               source == [hash |-> m.hash, base |-> merged]
               target == [hash |-> merged, base |-> {}]
    <2>m. m.by \in Worker /\ m.br \in Branch /\ m.hash \subseteq Kind
      BY DEF TypeOK
    <2>0. merged \subseteq Kind /\ source \in BranchNode /\ target \in BranchNode
      BY <2>m DEF TypeOK, BranchNode
    <2>o. written'[Main] = merged
      BY <2>m DEF TypeOK
    <2>1. TypeOK'
      <3>1. written' \in [AnyBranch -> SUBSET Kind] /\ node' \in [AnyBranch -> BranchNode]
        BY <2>m, <2>0 DEF TypeOK
      <3>5. events' \subseteq Event
        BY <2>m DEF TypeOK, Event
      <3> QED
        BY <3>1, <3>5 DEF TypeOK
    <2>2. MainSchemaStored'
      <3>1. \A n \in merging : n = m
        BY DEF OneMerge
      <3>3. load' = load /\ written[m.br] \subseteq written'[Main]
        BY <2>o
      <3>2. \A x \in Worker : Changing(x) \subseteq Changing(x)' \cup written'[Main]
        BY ONLY <3>3, <3>1, ChangingIs, ChangingNext
      <3> QED
        BY <2>o, <3>2, StoredKept
    <2>3. MainHasNoBase'
      <3>1. node'[Main].base = {}
        BY <2>m DEF TypeOK
      <3> QED
        BY <3>1 DEF MainHasNoBase
    <2>4. CandidateStored'
      BY <2>o DEF CandidateStored
    <2> QED
      BY <2>1, <2>2, <2>3, <2>4 DEF IInv, OneMerge
  <1>18. ASSUME NEW m \in merging, MergeRollback(m)
         PROVE  IInv'
    <2> USE <1>18, <1>t, <1>m DEF MergeRollback, dbVars, busVars
    <2>m. m.by \in Worker /\ m.br \in Branch /\ m.br \in AnyBranch
      BY DEF TypeOK
    <2>u. /\ undone' \in [Worker -> SUBSET Kind] /\ stray' \subseteq AnyBranch
          /\ \A x \in Worker : undone[x] \subseteq undone'[x]
          /\ written[m.br] \subseteq undone'[m.by]
      BY <2>m DEF TypeOK
    <2>3. faults' \in 0..MaxFaults
      BY BoundAssumption DEF TypeOK
    <2>1. TypeOK'
      BY <2>u, <2>3 DEF TypeOK
    <2>2. MainSchemaStored'
      <3>1. \A n \in merging : n = m
        BY DEF OneMerge
      <3>2. \A x \in Worker : Changing(x) \subseteq Changing(x)' \cup undone'[x]
        BY <2>u, <3>1, ChangingIs, ChangingNext
      <3> QED
        BY <2>u, <3>2, StoredKept
    <2>4. CandidateStored'
      BY <2>u DEF CandidateStored
    <2> QED
      BY <2>1, <2>2, <2>4 DEF IInv, MainHasNoBase, OneMerge
  <1>4. ASSUME NEW w \in Worker, NEW b \in Branch, Rebase(w, b)
        PROVE  IInv'
    <2> USE <1>4, <1>t, <1>m DEF Rebase
    <2> DEFINE content == written[b] \cup written[Main]
               changed == node[b].hash # reg[w][Main].hash
               saved == [hash |-> IF changed THEN content ELSE node[b].hash, base |-> written[Main]]
    <2>0. content \subseteq Kind /\ saved \in BranchNode
      BY DEF TypeOK, BranchNode
    <2>k. /\ load' \in [Worker -> LoadType]
          /\ \A x \in Worker : load'[x].phase = load[x].phase
          /\ \A x \in Worker : load'[x].br = load[x].br /\ load'[x].new = load[x].new
                              /\ load'[x].cand = load[x].cand /\ load'[x].base = load[x].base
      BY DetachedKeeps
    <2>1. TypeOK'
      <3>1. node' \in [AnyBranch -> BranchNode]
        BY <2>0 DEF TypeOK
      <3>2. reg' \in [Worker -> [AnyBranch -> BranchNode]]
        BY <2>0 DEF TypeOK
      <3>3. schema' \in [Worker -> [AnyBranch -> SUBSET Kind]]
        BY <2>0 DEF TypeOK
      <3>5. events' \subseteq Event
        BY DEF TypeOK, Event
      <3>6. rebases' \in 0..MaxRebases
        BY BoundAssumption DEF TypeOK
      <3> QED
        BY <3>1, <3>2, <3>3, <2>k, <3>5, <3>6 DEF TypeOK, LoadType
    <2>2. MainSchemaStored'
      <3>1. \A x \in Worker : schema'[x][Main] = schema[x][Main]
        BY DEF TypeOK
      <3> QED
        BY <3>1, <2>k, ChangingKept, StoredKept
    <2>3. MainHasNoBase'
      <3>1. node'[Main].base = {}
        BY DEF TypeOK, MainHasNoBase
      <3>2. \A x \in Worker : reg'[x][Main].base = {}
        BY DEF MainHasNoBase, TypeOK
      <3> QED
        BY <3>1, <3>2, <2>k DEF MainHasNoBase
    <2>4. CandidateStored'
      BY <2>k DEF CandidateStored
    <2> QED
      BY <2>1, <2>2, <2>3, <2>4 DEF IInv, OneMerge
  <1>5. ASSUME NEW e \in Event, HandleEvent(e)
        PROVE  IInv'
    <2> USE <1>5, <1>t DEF HandleEvent, dbVars, boundVars, historyVars
    <2>1. TypeOK'
      BY DEF TypeOK
    <2> QED
      BY <2>1, ChangingKept, StoredKept DEF IInv, MainHasNoBase, CandidateStored, OneMerge
  <1>6. ASSUME NEW w \in Worker, LoseMessage(w)
        PROVE  IInv'
    <2> USE <1>6, <1>t DEF LoseMessage, dbVars, historyVars
    <2>1. lost' \in 0..MaxLost
      BY BoundAssumption DEF TypeOK
    <2>2. inbox' \in [Worker -> SUBSET Event]
      BY DEF TypeOK
    <2>3. TypeOK'
      BY <2>1, <2>2 DEF TypeOK
    <2> QED
      BY <2>3, ChangingKept, StoredKept DEF IInv, MainHasNoBase, CandidateStored, OneMerge
  <1>7. ASSUME NEW w \in Worker, RefreshRebased(w)
        PROVE  IInv'
    <2> USE <1>7, <1>t, <1>m DEF RefreshRebased, dbVars, boundVars, historyVars
    <2>p. PICK m \in inbox[w] : /\ m.type = "rebased"
                                /\ reg' = [reg EXCEPT ![w][m.br] = node[m.br]]
                                /\ load' = Detached(w, m.br)
                                /\ inbox' = [inbox EXCEPT ![w] = @ \ {m}]
      OBVIOUS
    <2>0. m.br \in Branch /\ m.br \in AnyBranch
      <3>1. m \in Event
        BY DEF TypeOK
      <3> QED
        BY <2>p, <3>1 DEF Event
    <2>k. /\ load' \in [Worker -> LoadType]
          /\ \A x \in Worker : load'[x].phase = load[x].phase
          /\ \A x \in Worker : load'[x].br = load[x].br /\ load'[x].new = load[x].new
                              /\ load'[x].cand = load[x].cand /\ load'[x].base = load[x].base
      BY <2>0, <2>p, DetachedKeeps
    <2>1. reg' \in [Worker -> [AnyBranch -> BranchNode]] /\ inbox' \in [Worker -> SUBSET Event]
      BY <2>0, <2>p DEF TypeOK
    <2>2. TypeOK'
      BY <2>1, <2>k DEF TypeOK, LoadType
    <2>3. \A x \in Worker : reg'[x][Main].base = {}
      BY <2>0, <2>p DEF TypeOK, MainHasNoBase
    <2> QED
      BY <2>2, <2>3, <2>k, ChangingKept, StoredKept DEF IInv, MainHasNoBase, CandidateStored, OneMerge
  <1>8. ASSUME NEW w \in Worker, RefreshStart(w),
               UNCHANGED <<written, node, reg, schema, load, merging, events, boundVars, historyVars>>,
               inbox' = inbox \/ \E m \in inbox[w] : inbox' = [inbox EXCEPT ![w] = @ \ {m}]
        PROVE  IInv'
    <2> USE <1>8, <1>t, <1>m DEF RefreshStart, boundVars, historyVars
    <2>1. inbox' \in [Worker -> SUBSET Event]
      <3>1. inbox \in [Worker -> SUBSET Event]
        BY DEF TypeOK
      <3>2. CASE inbox' = inbox
        BY <3>1, <3>2
      <3>3. CASE \E m \in inbox[w] : inbox' = [inbox EXCEPT ![w] = @ \ {m}]
        BY <3>1, <3>3
      <3> QED
        BY <3>2, <3>3
    <2>n. [on |-> TRUE, list |-> node, todo |-> AnyBranch, loading |-> {}]
            \in [on : BOOLEAN, list : [AnyBranch -> BranchNode],
                 todo : SUBSET AnyBranch, loading : SUBSET AnyBranch]
      BY DEF TypeOK
    <2>2. refresh' \in [Worker -> [on : BOOLEAN, list : [AnyBranch -> BranchNode],
                                  todo : SUBSET AnyBranch, loading : SUBSET AnyBranch]]
      BY <2>n DEF TypeOK
    <2>3. TypeOK'
      BY <2>1, <2>2 DEF TypeOK
    <2>4. \A x \in Worker : refresh'[x].list[Main].base = {}
      BY DEF TypeOK, MainHasNoBase
    <2> QED
      BY <2>3, <2>4, ChangingKept, StoredKept DEF IInv, MainHasNoBase, CandidateStored, OneMerge
  <1>9. ASSUME NEW w \in Worker, RefreshCompare(w)
        PROVE  IInv'
    <2> USE <1>9, <1>t, <1>m DEF RefreshCompare, dbVars, busVars, boundVars, historyVars
    <2>p. PICK b \in NewHash(w), passed \in SUBSET (refresh[w].todo \ NewHash(w)) :
             /\ refresh' = [refresh EXCEPT ![w].todo = @ \ (passed \cup {b}), ![w].loading = {b}]
             /\ reg' = [reg EXCEPT ![w][b] = refresh[w].list[b]]
             /\ load' = Detached(w, b)
      OBVIOUS
    <2>0. b \in AnyBranch
      BY DEF TypeOK, NewHash
    <2>k. /\ load' \in [Worker -> LoadType]
          /\ \A x \in Worker : load'[x].phase = load[x].phase
          /\ \A x \in Worker : load'[x].br = load[x].br /\ load'[x].new = load[x].new
                              /\ load'[x].cand = load[x].cand /\ load'[x].base = load[x].base
      BY <2>0, <2>p, DetachedKeeps
    <2>1. reg' \in [Worker -> [AnyBranch -> BranchNode]]
      <3>1. reg \in [Worker -> [AnyBranch -> BranchNode]] /\ refresh[w].list[b] \in BranchNode
        BY <2>0 DEF TypeOK
      <3>2. reg' = [reg EXCEPT ![w][b] = refresh[w].list[b]]
        BY <2>p
      <3> QED
        BY ONLY <2>0, <3>1, <3>2, w \in Worker
    <2> DEFINE next == [refresh[w] EXCEPT !.todo = @ \ (passed \cup {b}), !.loading = {b}]
    <2>n. /\ next \in [on : BOOLEAN, list : [AnyBranch -> BranchNode],
                       todo : SUBSET AnyBranch, loading : SUBSET AnyBranch]
          /\ next.list = refresh[w].list
      <3>1. refresh[w] \in [on : BOOLEAN, list : [AnyBranch -> BranchNode],
                            todo : SUBSET AnyBranch, loading : SUBSET AnyBranch]
        BY DEF TypeOK
      <3> QED
        BY ONLY <2>0, <3>1, LoadingBegins
    <2>r. refresh' = [refresh EXCEPT ![w] = next]
      BY <2>p DEF TypeOK
    <2> HIDE DEF next
    <2>2. refresh' \in [Worker -> [on : BOOLEAN, list : [AnyBranch -> BranchNode],
                                  todo : SUBSET AnyBranch, loading : SUBSET AnyBranch]]
      BY <2>n, <2>r DEF TypeOK
    <2>3. TypeOK'
      BY <2>1, <2>2, <2>k DEF TypeOK, LoadType
    <2>4. \A x \in Worker : refresh'[x].list = refresh[x].list
      BY <2>n, <2>r DEF TypeOK
    <2>5. \A x \in Worker : reg'[x][Main].base = {}
      <3> SUFFICES ASSUME NEW x \in Worker PROVE reg'[x][Main].base = {}
        OBVIOUS
      <3>1. reg'[x][Main] = reg[x][Main] \/ reg'[x][Main] = refresh[w].list[Main]
        BY <2>0, <2>p DEF TypeOK
      <3> QED
        BY <3>1 DEF MainHasNoBase
    <2>6. UNCHANGED <<written, node, schema, merging, undone>>
      OBVIOUS
    <2>7. MainSchemaStored'
      BY <2>6, <2>k, ChangingKept, StoredKept
    <2>8. MainHasNoBase'
      BY <2>4, <2>5, <2>6, <2>k DEF MainHasNoBase
    <2>9. CandidateStored'
      BY <2>6, <2>k DEF CandidateStored
    <2> QED
      BY <2>3, <2>6, <2>7, <2>8, <2>9 DEF IInv, OneMerge
  <1>10. ASSUME NEW w \in Worker, RefreshLoad(w)
         PROVE  IInv'
    <2> USE <1>10, <1>t, <1>m DEF RefreshLoad, dbVars, busVars, boundVars, historyVars
    <2>p. PICK b \in refresh[w].loading : schema' = [schema EXCEPT ![w][b] = LoadedSchema(w, b)]
      OBVIOUS
    <2>0. b \in AnyBranch
      BY DEF TypeOK
    <2>1. schema' \in [Worker -> [AnyBranch -> SUBSET Kind]]
      BY <2>0, <2>p, LoadedType DEF TypeOK
    <2>n. [refresh[w] EXCEPT !.loading = {}]
            \in [on : BOOLEAN, list : [AnyBranch -> BranchNode],
                 todo : SUBSET AnyBranch, loading : SUBSET AnyBranch]
      BY LoadingEnds DEF TypeOK
    <2>2. refresh' \in [Worker -> [on : BOOLEAN, list : [AnyBranch -> BranchNode],
                                  todo : SUBSET AnyBranch, loading : SUBSET AnyBranch]]
      BY <2>n DEF TypeOK
    <2>3. TypeOK'
      BY <2>1, <2>2 DEF TypeOK
    <2>4. MainSchemaStored'
      <3>1. \A x \in Worker : \/ schema'[x][Main] = schema[x][Main]
                              \/ x = w /\ schema'[x][Main] = LoadedSchema(w, Main)
        BY <2>0, <2>p DEF TypeOK
      <3>2. \A x \in Worker : schema'[x][Main] \subseteq schema[x][Main] \cup written'[Main]
        BY <3>1, LoadedIsStored
      <3> QED
        BY <3>2, ChangingKept, StoredKept
    <2>5. \A x \in Worker : refresh'[x].list = refresh[x].list
      BY DEF TypeOK
    <2> QED
      BY <2>3, <2>4, <2>5 DEF IInv, MainHasNoBase, CandidateStored, OneMerge
  <1>11. ASSUME NEW w \in Worker, refresh' = [refresh EXCEPT ![w] = NoRefresh],
                UNCHANGED <<written, node, reg, schema, load, merging, events, inbox, rebases, lost, undone>>,
                faults' \in 0..MaxFaults, stray' \subseteq AnyBranch
         PROVE  IInv'
    <2> USE <1>11, <1>t, <1>m
    <2>1. NewBranch \in BranchNode /\ NewBranch.base = {}
      BY DEF NewBranch, BranchNode
    <2>n. NoRefresh \in [on : BOOLEAN, list : [AnyBranch -> BranchNode],
                         todo : SUBSET AnyBranch, loading : SUBSET AnyBranch]
      BY <2>1 DEF NoRefresh
    <2>2. refresh' \in [Worker -> [on : BOOLEAN, list : [AnyBranch -> BranchNode],
                                  todo : SUBSET AnyBranch, loading : SUBSET AnyBranch]]
      BY <2>n DEF TypeOK
    <2>3. TypeOK'
      BY <2>2 DEF TypeOK
    <2>4. \A x \in Worker : refresh'[x].list[Main].base = {}
      BY <2>1 DEF TypeOK, MainHasNoBase, NoRefresh
    <2> QED
      BY <2>3, <2>4, ChangingKept, StoredKept DEF IInv, MainHasNoBase, CandidateStored, OneMerge
  <1>12. ASSUME UNCHANGED vars
         PROVE  IInv'
    <2>1. TypeOK'
      BY <1>12, <1>t DEF vars, TypeOK
    <2> QED
      BY <1>12, <1>t, <2>1, ChangingKept, StoredKept
      DEF vars, IInv, MainHasNoBase, CandidateStored, OneMerge
  <1>13. ASSUME NEW w \in Worker, RefreshBranches(w) \/ TriggerBranchRefresh(w)
         PROVE  IInv'
    BY <1>13, <1>8 DEF RefreshBranches, TriggerBranchRefresh, dbVars, busVars
  <1>14. ASSUME NEW w \in Worker, RefreshEnd(w) \/ RefreshFails(w)
         PROVE  IInv'
    <2>1. faults' \in 0..MaxFaults /\ stray' \subseteq AnyBranch
      BY <1>14, <1>t, BoundAssumption DEF RefreshEnd, RefreshFails, boundVars, historyVars, TypeOK
    <2> QED
      BY <1>14, <2>1, <1>11 DEF RefreshEnd, RefreshFails, dbVars, busVars, boundVars, historyVars
  <1> QED
    BY <1>0, <1>1, <1>2, <1>3, <1>4, <1>5, <1>6, <1>7, <1>9, <1>10, <1>12, <1>13, <1>14,
       <1>15, <1>16, <1>17, <1>18
    DEF Next, Refreshing

-----------------------------------------------------------------------------
(* Every reachable state is of its type: in particular what a registry holds *)
(* for a branch is always a whole Branch object.                             *)
THEOREM TypeCorrect == Spec => []TypeOK
  <1>1. IInv => TypeOK
    BY DEF IInv
  <1> QED
    BY <1>1, InitIInv, NextIInv, PTL DEF Spec

(* A kind that /schema/load or a merge serves on the default branch before   *)
(* its transaction commits, or after it is rolled back, is served by no      *)
(* other worker; every other kind a worker serves there is stored.           *)
THEOREM MainSchemaStoredAlways == Spec => []MainSchemaStored
  <1>1. IInv => MainSchemaStored
    BY DEF IInv
  <1> QED
    BY <1>1, InitIInv, NextIInv, PTL DEF Spec

-----------------------------------------------------------------------------
(***************************************************************************)
(* Proofs about NodeProfiles for any nodes, profiles, inputs, requests and *)
(* bounds: a node shows the value of its own that was kept, and what a      *)
(* filter finds it by, and an update leaves alone what its input does not  *)
(* name.                                                                   *)
(*                                                                         *)
(* The argument: what is stored as a default is the default (ContentSound),*)
(* so that no profile hides what was kept (ChosenStored); the order of profiles is  *)
(* total, so that the read and the query, which choose the first on their  *)
(* own, choose the same (SameWinner); and an open request holds, of what   *)
(* its input does not name, what it has read or what a profile gave        *)
(* (RequestSound), also if it is tried again.                              *)
(***************************************************************************)

(* What is stored as a default is the default, unless the upsert that        *)
(* created the node said so of another value.                                *)
DefaultStored(c, n, a) == c.is_default /\ <<n, a>> \notin claimed => c.value = Default[a]

(* Only a password is ever hashed. *)
NotHashed(c, a) == a \notin Hashed => c.rounds = 0

(* A node that was created has all attributes; they are sound on the branch  *)
(* and before it, and no source is ever stored.                              *)
ContentSound ==
    \A n \in Object, a \in Attribute :
        /\ state[n] # "absent" => Stored(n, a) \in Content
        /\ DefaultStored(base[n][a], n, a) /\ DefaultStored(own[n][a], n, a)
        /\ NotHashed(base[n][a], a) /\ NotHashed(own[n][a], a)
        /\ props[n][a].source = NoValue

(* What a request saves of an attribute that its input does not name is what *)
(* it has read, or comes from a profile.                                     *)
AsRead(o, c, a) ==
    /\ o.value = Loaded(c, a).value
    /\ o.is_default = Loaded(c, a).is_default
    /\ o.rounds = Loaded(c, a).rounds

(* What the user gave and was kept is stored, and not as a default. *)
IsChosen(c, v) == v # Missing => c.value = v /\ ~ c.is_default

ChosenStored ==
    \A n \in Object, a \in Attribute : state[n] # "absent" => IsChosen(Stored(n, a), chosen[n][a])

RequestSound(m) ==
    \A a \in Attribute :
        /\ m.object[a].is_from_profile \/ m.object[a].source = NoValue
        /\ DefaultStored(m.seen[a], m.node, a) /\ NotHashed(m.seen[a], a)
        /\ \/ Names(m.data, a) \/ m.object[a].is_from_profile
           \/ AsRead(m.object[a], m.seen[a], a)
        /\ IsChosen(m.seen[a], m.chosen[a])

ProfilesInv ==
    /\ ProfilesTypeOK
    /\ ContentSound
    /\ ChosenStored
    /\ \A r \in Client : pending[r].open => RequestSound(pending[r])

(* Before orders profiles with a priority, so that one of them goes first. *)
LEMMA LeastNumber ==
  ASSUME NEW S, S \subseteq Nat, S # {}
  PROVE  \E x \in S : \A y \in S : x <= y
  <1>1. PICK x \in S : \A y \in S : ~ (<<y, x>> \in OpToRel(<, Nat))
    BY WFMin, NatLessThanWellFounded
  <1>2. \A y \in S : ~ (y < x)
    BY <1>1 DEF OpToRel
  <1>. QED BY <1>2

LEMMA FirstProfile ==
  ASSUME NEW G, G \subseteq Profile, G # {},
         \A p \in G : profile[p].priority \in Nat
  PROVE  \E p \in G : \A q \in G \ {p} : Before(p, q)
  <1> DEFINE P == {profile[p].priority : p \in G}
  <1>1. PICK x \in P : \A y \in P : x <= y
    <2>1. P \subseteq Nat /\ P # {}
      OBVIOUS
    <2>. QED BY <2>1, LeastNumber
  <1> DEFINE Q == {p \in G : profile[p].priority = x}
  <1>2. PICK p \in Q : \A q \in Q : p <= q
    <2>1. Q \subseteq Nat /\ Q # {}
      BY ProfilesAssumption
    <2>. QED BY <2>1, LeastNumber
  <1>3. p \in G /\ profile[p].priority = x
    OBVIOUS
  <1>4. ASSUME NEW q \in G \ {p} PROVE Before(p, q)
    <2>1. x <= profile[q].priority /\ profile[q].priority \in Nat /\ x \in Nat /\ p \in Nat /\ q \in Nat
      BY <1>1, ProfilesAssumption
    <2>2. profile[q].priority = x => p <= q
      BY <1>2
    <2>. QED BY <1>3, <2>1, <2>2 DEF Before
  <1>. QED BY <1>3, <1>4

(* The read and the query choose the same profile. *)
LEMMA SameWinner ==
  ASSUME NEW S, S \subseteq Profile, NEW a, Giving(S, a) # {},
         \A p \in S : profile[p].priority \in Nat /\ profile[p].priority # NoValue
  PROVE  /\ Winner(S, a) \in Giving(S, a)
         /\ QueriedWinner(S, a) = Winner(S, a)
  <1> DEFINE G == Giving(S, a)
  <1>1. G \subseteq S /\ G # {}
    BY DEF Giving
  <1>2. \E p \in G : \A q \in G \ {p} : Before(p, q)
    BY <1>1, FirstProfile
  <1>3. \A p, q \in G : Before(p, q) <=> QueriedBefore(p, q)
    BY <1>1 DEF Before, QueriedBefore, Rank
  <1>4. \E p \in G : \A q \in G \ {p} : QueriedBefore(p, q)
    BY <1>2, <1>3
  <1> HIDE DEF G
  <1>5. Winner(S, a) \in G /\ \A q \in G \ {Winner(S, a)} : Before(Winner(S, a), q)
    BY <1>2 DEF Winner, G
  <1>6. QueriedWinner(S, a) \in G /\ \A q \in G \ {QueriedWinner(S, a)} : QueriedBefore(QueriedWinner(S, a), q)
    BY <1>4 DEF QueriedWinner, G
  <1>7. \A p, q \in G : ~ (Before(p, q) /\ Before(q, p))
    BY <1>1, ProfilesAssumption DEF Before
  <1>. QED BY <1>3, <1>5, <1>6, <1>7 DEF G

(* What a read of a node gives of an attribute is sound, and is what is      *)
(* stored unless it comes from a profile.                                    *)
LEMMA ReadAttribute ==
  ASSUME ProfilesInv, NEW n \in LiveObjects, Readable(n), NEW a \in Attribute
  PROVE  LET o == apply_profiles(n, a) IN
         /\ o \in AttributeObject
         /\ o.is_from_profile \/ o.source = NoValue
         /\ o.is_from_profile \/ AsRead(o, Stored(n, a), a)
  <1> DEFINE c == Stored(n, a)
             S == ProfilesRead(n)
             p == Winner(S, a)
             fp == c.is_default /\ Giving(S, a) # {}
             o == apply_profiles(n, a)
  <1>1. c \in Content /\ n \in Object /\ props[n][a] \in Props /\ props[n][a].source = NoValue
    BY DEF ProfilesInv, ContentSound, ProfilesTypeOK, LiveObjects
  <1>2. S \subseteq Profile
    BY <1>1 DEF ProfilesInv, ProfilesTypeOK, ProfilesRead
  <1>3. \A q \in S : profile[q].priority \in Nat /\ profile[q].priority # NoValue
    <2>1. profile \in [Profile -> [live : BOOLEAN, priority : 1 .. MaxPriority \cup {NoValue},
                                   values : [Profiled -> Value \cup {NoValue}]]]
      BY DEF ProfilesInv, ProfilesTypeOK
    <2>2. \A q \in S : profile[q].priority \in 1 .. MaxPriority \cup {NoValue}
      BY <1>2, <2>1
    <2>. QED BY <2>2, ProfilesAssumption DEF Readable
  <1>4. ASSUME fp PROVE p \in Profile /\ profile[p].values[a] \in Value \cup {NoValue}
    <2>1. p \in Giving(S, a)
      BY <1>2, <1>3, <1>4, SameWinner
    <2>. QED BY <2>1, <1>2 DEF Giving, ProfilesInv, ProfilesTypeOK
  <1> DEFINE shown == IF fp THEN [value |-> profile[p].values[a], is_default |-> FALSE,
                                  rounds |-> IF a \in Hashed THEN 1 ELSE 0]
                      ELSE Loaded(c, a)
  <1>5. o = [value |-> shown.value, is_default |-> shown.is_default, rounds |-> shown.rounds,
             is_from_profile |-> fp, is_protected |-> props[n][a].is_protected,
             source |-> IF fp THEN p ELSE props[n][a].source]
    BY DEF apply_profiles
  <1>6. fp \in BOOLEAN
    BY <1>1 DEF Content
  <1>7. Loaded(c, a) \in Content
    BY <1>1, ProfilesAssumption DEF Loaded, Content
  <1>8. shown \in Content
    BY <1>1, <1>4, <1>7, ProfilesAssumption DEF Content
  <1> HIDE DEF c, S, p
  <1>9. o \in AttributeObject
    <2>1. (IF fp THEN p ELSE props[n][a].source) \in Profile \cup {NoValue}
      BY <1>1, <1>4
    <2>2. props[n][a].is_protected \in BOOLEAN
      BY <1>1 DEF Props
    <2> HIDE DEF shown, fp, o
    <2>. QED BY <1>5, <1>6, <1>8, <2>1, <2>2 DEF AttributeObject, Content
  <1>10. o.is_from_profile = fp
    BY <1>5
  <1>11. ~ fp => o.source = NoValue
    BY <1>1, <1>5
  <1>12. ~ fp => AsRead(o, c, a)
    <2>1. ~ fp => shown = Loaded(c, a)
      OBVIOUS
    <2> HIDE DEF shown, fp, o
    <2>. QED BY <1>5, <2>1 DEF AsRead
  <1>. QED BY <1>9, <1>10, <1>11, <1>12 DEF c

(* The input of an attribute keeps the object sound. *)
LEMMA InputApplied ==
  ASSUME NEW o \in AttributeObject, NEW d \in Input, NEW a \in Attribute
  PROVE  LET x == from_graphql(o, d, a) IN
         /\ x \in AttributeObject
         /\ o.is_from_profile \/ o.source = NoValue => x.is_from_profile \/ x.source = NoValue
         /\ d.is_default = Missing =>
              /\ d.value # Missing => x.value = d.value
              /\ d.value = Missing => /\ x.value = o.value /\ x.is_default = o.is_default
                                     /\ x.rounds = o.rounds /\ x.is_from_profile = o.is_from_profile
  <1> DEFINE changed == d.value # Missing /\ (d.value # o.value \/ o.rounds > 0)
             cleared == IF o.is_from_profile THEN clear_source(o) ELSE o
             valued == IF changed
                       THEN [cleared EXCEPT !.value = d.value, !.is_from_profile = FALSE, !.rounds = 0]
                       ELSE o
             reset == IF d.is_default # Missing /\ ~ valued.is_default
                 THEN [valued EXCEPT !.is_default = TRUE,
                                     !.value = IF d.value = Missing THEN Default[a] ELSE @,
                                     !.rounds = IF d.value = Missing THEN 0 ELSE @]
                 ELSE valued
             x == [reset EXCEPT !.is_protected = IF d.is_protected = Missing THEN @ ELSE d.is_protected]
             ok(y) == y \in AttributeObject
                      /\ (o.is_from_profile \/ o.source = NoValue => y.is_from_profile \/ y.source = NoValue)
  <1>1. from_graphql(o, d, a) = x
    BY DEF from_graphql
  <1>2. cleared \in AttributeObject /\ (o.is_from_profile \/ o.source = NoValue => cleared.source = NoValue)
    BY DEF clear_source, AttributeObject
  <1> HIDE DEF cleared
  <1>3. ok(valued)
    <2>1. CASE changed
      <3>1. valued = [value |-> d.value, is_default |-> cleared.is_default, rounds |-> 0,
                      is_from_profile |-> FALSE, is_protected |-> cleared.is_protected,
                      source |-> cleared.source]
        BY <1>2, <2>1 DEF AttributeObject
      <3>2. d.value \in Value \cup {NoValue} /\ 0 \in 0 .. MaxRounds
        BY <2>1, ProfilesAssumption DEF Input
      <3>3. cleared.is_default \in BOOLEAN /\ cleared.is_protected \in BOOLEAN
            /\ cleared.source \in Profile \cup {NoValue}
        BY <1>2 DEF AttributeObject
      <3> HIDE DEF valued
      <3>4. valued \in AttributeObject
        BY <3>1, <3>2, <3>3 DEF AttributeObject
      <3>. QED BY <1>2, <3>1, <3>4
    <2>. QED BY <2>1
  <1>6. /\ d.value # Missing => valued.value = d.value
        /\ d.value = Missing => valued = o
    BY <1>2 DEF AttributeObject
  <1> HIDE DEF valued
  <1>7. d.is_default = Missing => reset = valued
    OBVIOUS
  <1>4. ok(reset)
    <2>1. CASE d.is_default # Missing /\ ~ valued.is_default
      <3>1. reset = [value |-> IF d.value = Missing THEN Default[a] ELSE valued.value,
                     is_default |-> TRUE,
                     rounds |-> IF d.value = Missing THEN 0 ELSE valued.rounds,
                     is_from_profile |-> valued.is_from_profile,
                     is_protected |-> valued.is_protected, source |-> valued.source]
        BY <1>3, <2>1 DEF AttributeObject
      <3>2. /\ (IF d.value = Missing THEN Default[a] ELSE valued.value) \in Value \cup {NoValue}
            /\ (IF d.value = Missing THEN 0 ELSE valued.rounds) \in 0 .. MaxRounds
            /\ valued.is_from_profile \in BOOLEAN /\ valued.is_protected \in BOOLEAN
            /\ valued.source \in Profile \cup {NoValue}
        BY <1>3, ProfilesAssumption DEF AttributeObject
      <3> HIDE DEF reset
      <3>3. reset \in AttributeObject
        BY <3>1, <3>2 DEF AttributeObject
      <3>. QED BY <1>3, <3>1, <3>3
    <2>. QED BY <1>3, <2>1
  <1> HIDE DEF reset
  <1>5. ok(x)
    BY <1>4 DEF AttributeObject, Input
  <1>8. /\ x.value = reset.value /\ x.is_default = reset.is_default /\ x.rounds = reset.rounds
        /\ x.is_from_profile = reset.is_from_profile
    BY <1>4 DEF AttributeObject
  <1> HIDE DEF x
  <1>. QED BY <1>1, <1>5, <1>6, <1>7, <1>8

(* What an update writes is sound: whatever flag the object has, a default   *)
(* is stored as such only if it is one.                                      *)
LEMMA UpdateWritten ==
  ASSUME NEW o \in AttributeObject, NEW a \in Attribute
  PROVE  LET c == Updated(o, a) IN
         /\ c.rounds <= MaxRounds => c \in Content
         /\ c # NoContent
         /\ c.is_default => c.value = Default[a]
         /\ NotHashed(c, a)
  <1>1. StillDefault(o, a) \in BOOLEAN
    BY DEF StillDefault, AttributeObject
  <1>2. Updated(o, a) = [value |-> o.value, is_default |-> StillDefault(o, a),
                         rounds |-> serialize_value(o, a)]
    BY DEF Updated, to_db, serialize_value, AttributeObject
  <1>3. serialize_value(o, a) \in Nat
    BY ProfilesAssumption DEF serialize_value, AttributeObject
  <1>4. a \notin Hashed => serialize_value(o, a) = 0
    BY DEF serialize_value
  <1>5. StillDefault(o, a) => o.value = Default[a]
    BY DEF StillDefault
  <1>6. o.value \in Value \cup {NoValue} /\ o.value # Missing
    BY ProfilesAssumption DEF AttributeObject
  <1>. QED BY <1>1, <1>2, <1>3, <1>4, <1>5, <1>6, ProfilesAssumption DEF Content, NoContent, NotHashed

(* What a new node is stored with is sound. *)
LEMMA CreationWritten ==
  ASSUME NEW d \in Payload, NEW a \in Attribute
  PROVE  LET c == CreatedContent(d)[a] IN
         /\ c \in Content
         /\ NotHashed(c, a)
         /\ c.is_default /\ ~ (a \in DOMAIN d.attrs /\ d.attrs[a].is_default = TRUE) => c.value = Default[a]
         /\ CreatedProps(d)[a] \in Props /\ CreatedProps(d)[a].source = NoValue
  <1> DEFINE given == a \in DOMAIN d.attrs
             v == IF given /\ d.attrs[a].value # Missing THEN d.attrs[a].value ELSE NoValue
             dflt == ~ given \/ d.attrs[a].is_default = TRUE
             c0 == [value |-> v, is_default |-> dflt, rounds |-> 0]
             c == Loaded(c0, a)
             o == New(d, a)
  <1>1. given => d.attrs[a] \in Input
    BY ProfilesAssumption
  <1>2. c0 \in Content
    BY <1>1, ProfilesAssumption DEF Content, Input
  <1>3. c \in Content /\ c.rounds = 0
    BY <1>2, ProfilesAssumption DEF Loaded, Content
  <1>4. c.is_default => c.value = Default[a] \/ (given /\ d.attrs[a].is_default = TRUE)
    BY ProfilesAssumption DEF Loaded
  <1>5. o = [value |-> c.value, is_default |-> c.is_default, rounds |-> 0, is_from_profile |-> FALSE,
             is_protected |-> given /\ d.attrs[a].is_protected = TRUE, source |-> NoValue]
    BY DEF New
  <1>8. CreatedProps(d)[a] \in Props /\ CreatedProps(d)[a].source = NoValue
    <2>1. (given /\ d.attrs[a].is_protected = TRUE) \in BOOLEAN
      OBVIOUS
    <2>2. CreatedProps(d)[a] = [is_protected |-> o.is_protected, source |-> NoValue]
      BY DEF CreatedProps
    <2> HIDE DEF c, o, given
    <2>. QED BY <1>5, <2>1, <2>2 DEF Props
  <1> HIDE DEF c, o, given
  <1>6. CreatedContent(d)[a] = [value |-> o.value, is_default |-> o.is_default, rounds |-> serialize_value(o, a)]
    BY DEF CreatedContent, to_db, o
  <1>7. serialize_value(o, a) \in {0, 1} /\ (a \notin Hashed => serialize_value(o, a) = 0)
    BY <1>5 DEF serialize_value
  <1>. QED BY <1>3, <1>4, <1>5, <1>6, <1>7, <1>8, ProfilesAssumption DEF Content, NotHashed, given

(* What a new node is given is what it is stored with. *)
LEMMA CreationChosen ==
  ASSUME NEW d \in Payload, NEW a \in Attribute
  PROVE  /\ IsChosen(CreatedContent(d)[a], Chosen(d, a))
         /\ Chosen(d, a) \in Value \cup {Missing}
  <1>1. a \in DOMAIN d.attrs => d.attrs[a] \in Input
    BY ProfilesAssumption
  <1>2. Chosen(d, a) \in Value \cup {Missing}
    BY <1>1 DEF Chosen, Input
  <1> SUFFICES ASSUME Chosen(d, a) # Missing
               PROVE  CreatedContent(d)[a].value = Chosen(d, a) /\ ~ CreatedContent(d)[a].is_default
    BY <1>2 DEF IsChosen
  <1> DEFINE v == d.attrs[a].value
  <1>3. a \in DOMAIN d.attrs /\ d.attrs[a].is_default = Missing /\ v # NoValue /\ Chosen(d, a) = v /\ v # Missing
    BY DEF Chosen
  <1>4. d.attrs[a].is_default # TRUE
    BY <1>3, ProfilesAssumption
  <1>5. New(d, a).value = v /\ New(d, a).is_default = FALSE
    BY <1>3, <1>4 DEF New, Loaded
  <1>. QED BY <1>3, <1>5 DEF CreatedContent, to_db

(* What is written to one attribute of a node is what counts from then on. *)
LEMMA StoredOwn ==
  ASSUME NEW n, NEW a, own[n][a] \in Content
  PROVE  Stored(n, a) = own[n][a]
  <1>1. own[n][a] # NoContent
    BY ProfilesAssumption DEF Content, NoContent
  <1>. QED BY <1>1 DEF Stored

LEMMA ProfilesInitInv == ProfilesInit => ProfilesInv
  <1> SUFFICES ASSUME ProfilesInit PROVE ProfilesInv
    OBVIOUS
  <1>1. PICK where \in [Object -> {"absent", "before", "branch"}],
             data \in [Object -> {d \in Payload : CreateInput(d) /\ Creatable(d)}] :
        /\ state = [n \in Object |-> IF where[n] = "absent" THEN "absent" ELSE "live"]
        /\ base = [n \in Object |-> IF where[n] = "before" THEN CreatedContent(data[n]) ELSE Absent]
        /\ own = [n \in Object |-> IF where[n] = "branch" THEN CreatedContent(data[n]) ELSE Absent]
        /\ props = [n \in Object |-> CreatedProps(data[n])]
        /\ attached = [n \in Object |-> IF where[n] = "absent" THEN {} ELSE CreatedProfiles(data[n])]
        /\ inherited = [n \in Object |-> IF where[n] = "before" THEN CreatedProfiles(data[n]) ELSE {}]
        /\ chosen = [n \in Object |-> [a \in Attribute |->
                        IF where[n] = "absent" THEN Missing ELSE Chosen(data[n], a)]]
    BY DEF ProfilesInit
  <1>2. \A n \in Object : data[n] \in Payload /\ CreateInput(data[n])
    OBVIOUS
  <1>3. \A n \in Object : CreatedProfiles(data[n]) \subseteq Profile
    BY <1>2, ProfilesAssumption DEF CreatedProfiles
  <1>4. \A n \in Object, a \in Attribute :
          /\ CreatedContent(data[n])[a] \in Content
          /\ NotHashed(CreatedContent(data[n])[a], a)
          /\ CreatedContent(data[n])[a].is_default => CreatedContent(data[n])[a].value = Default[a]
          /\ CreatedProps(data[n])[a] \in Props /\ CreatedProps(data[n])[a].source = NoValue
    <2> SUFFICES ASSUME NEW n \in Object, NEW a \in Attribute
                 PROVE  ~ (a \in DOMAIN data[n].attrs /\ data[n].attrs[a].is_default = TRUE)
      BY <1>2, CreationWritten
    <2>. QED BY <1>2, ProfilesAssumption DEF CreateInput
  <1>5. \A n \in Object : CreatedContent(data[n]) \in [Attribute -> Content]
                          /\ CreatedProps(data[n]) \in [Attribute -> Props]
    BY <1>4 DEF CreatedContent, CreatedProps
  <1>6. /\ profile \in [Profile -> [live : {TRUE}, priority : 1 .. MaxPriority,
                                    values : [Profiled -> Value \cup {NoValue}]]]
        /\ pending = [r \in Client |-> NoRequest] /\ claimed = {} /\ changes = 0 /\ lookups = 0
    BY DEF ProfilesInit
  <1>7. Absent \in [Attribute -> {NoContent}]
    BY DEF Absent
  <1>8. ProfilesTypeOK
    <2>1. state \in [Object -> {"absent", "live", "deleted"}]
      BY <1>1
    <2>2. base \in [Object -> [Attribute -> Content \cup {NoContent}]]
      BY <1>1, <1>5, <1>7
    <2>3. own \in [Object -> [Attribute -> Content \cup {NoContent}]]
      BY <1>1, <1>5, <1>7
    <2>4. props \in [Object -> [Attribute -> Props]]
      BY <1>1, <1>5
    <2>5. inherited \in [Object -> SUBSET Profile] /\ attached \in [Object -> SUBSET Profile]
      BY <1>1, <1>3
    <2>6. profile \in [Profile -> [live : BOOLEAN, priority : 1 .. MaxPriority \cup {NoValue},
                                   values : [Profiled -> Value \cup {NoValue}]]]
      BY <1>6
    <2>7. changes \in 0 .. MaxChanges /\ lookups \in 0 .. MaxLookups
      BY <1>6, ProfilesAssumption
    <2>8. chosen \in [Object -> [Attribute -> Value \cup {Missing}]]
      BY <1>1, <1>2, CreationChosen
    <2>. QED BY <1>6, <2>1, <2>2, <2>3, <2>4, <2>5, <2>6, <2>7, <2>8 DEF ProfilesTypeOK
  <1>9. ContentSound
    <2> SUFFICES ASSUME NEW n \in Object, NEW a \in Attribute
                 PROVE  /\ state[n] # "absent" => Stored(n, a) \in Content
                        /\ DefaultStored(base[n][a], n, a) /\ DefaultStored(own[n][a], n, a)
                        /\ NotHashed(base[n][a], a) /\ NotHashed(own[n][a], a)
                        /\ props[n][a].source = NoValue
      BY DEF ContentSound
    <2>1. Absent[a] = NoContent /\ ~ NoContent.is_default /\ NoContent.rounds = 0
      BY DEF Absent, NoContent
    <2>2. base[n][a] = IF where[n] = "before" THEN CreatedContent(data[n])[a] ELSE NoContent
      BY <1>1, <2>1
    <2>3. own[n][a] = IF where[n] = "branch" THEN CreatedContent(data[n])[a] ELSE NoContent
      BY <1>1, <2>1
    <2>4. state[n] # "absent" => Stored(n, a) \in Content
      BY <1>1, <1>4, <2>2, <2>3 DEF Stored
    <2>5. \A c \in {base[n][a], own[n][a]} : DefaultStored(c, n, a) /\ NotHashed(c, a)
      BY <1>4, <2>1, <2>2, <2>3 DEF DefaultStored, NotHashed
    <2>6. props[n][a].source = NoValue
      BY <1>1, <1>4
    <2>. QED BY <2>4, <2>5, <2>6
  <1>10. \A r \in Client : ~ pending[r].open
    BY <1>6 DEF NoRequest
  <1>11. ChosenStored
    <2> SUFFICES ASSUME NEW n \in Object, NEW a \in Attribute, state[n] # "absent"
                 PROVE  IsChosen(Stored(n, a), chosen[n][a])
      BY DEF ChosenStored
    <2>1. Stored(n, a) = CreatedContent(data[n])[a]
      <3>1. Absent[a] = NoContent /\ CreatedContent(data[n])[a] # NoContent
        BY <1>4, ProfilesAssumption DEF Absent, Content, NoContent
      <3>2. where[n] \in {"before", "branch"}
        BY <1>1
      <3>3. /\ base[n][a] = IF where[n] = "before" THEN CreatedContent(data[n])[a] ELSE Absent[a]
            /\ own[n][a] = IF where[n] = "branch" THEN CreatedContent(data[n])[a] ELSE Absent[a]
        BY <1>1
      <3>. QED BY <3>1, <3>2, <3>3 DEF Stored
    <2>2. chosen[n][a] = Chosen(data[n], a)
      BY <1>1
    <2>. QED BY <1>2, <2>1, <2>2, CreationChosen
  <1>. QED BY <1>8, <1>9, <1>10, <1>11 DEF ProfilesInv

(* Requests that are open stay sound while other values are claimed. *)
LEMMA RequestsKept ==
  ASSUME ProfilesInv, pending' = pending, claimed \subseteq claimed'
  PROVE  \A r \in Client : pending'[r].open => RequestSound(pending[r])'
  <1> SUFFICES ASSUME NEW r \in Client, pending'[r].open PROVE RequestSound(pending[r])'
    OBVIOUS
  <1>1. RequestSound(pending'[r])
    BY DEF ProfilesInv
  <1>. QED BY <1>1 DEF RequestSound, DefaultStored, NotHashed, AsRead, Loaded, IsChosen, Names

LEMMA CreateInv ==
  ASSUME ProfilesInv, NEW n \in Object, NEW d \in Payload, mutate_create_object(n, d)
  PROVE  ProfilesInv'
  <1>1. /\ state[n] = "absent" /\ changes < MaxChanges /\ changes' = changes + 1
        /\ state' = [state EXCEPT ![n] = "live"]
        /\ own' = [own EXCEPT ![n] = CreatedContent(d)]
        /\ props' = [props EXCEPT ![n] = CreatedProps(d)]
        /\ attached' = [attached EXCEPT ![n] = CreatedProfiles(d)]
        /\ claimed' = claimed \cup ({n} \X {a \in DOMAIN d.attrs : d.attrs[a].is_default = TRUE})
        /\ chosen' = [chosen EXCEPT ![n] = [a \in Attribute |-> Chosen(d, a)]]
        /\ UNCHANGED <<base, inherited, profile, pending, lookups>>
    BY DEF mutate_create_object, Change
  <1>2. CreatedProfiles(d) \subseteq Profile /\ DOMAIN d.attrs \subseteq Attribute
    BY ProfilesAssumption DEF CreatedProfiles
  <1>3. CreatedContent(d) \in [Attribute -> Content] /\ CreatedProps(d) \in [Attribute -> Props]
    BY CreationWritten DEF CreatedContent, CreatedProps
  <1>4. ProfilesTypeOK'
    <2>1. own' \in [Object -> [Attribute -> Content \cup {NoContent}]]
      BY <1>1, <1>3 DEF ProfilesInv, ProfilesTypeOK
    <2>2. props' \in [Object -> [Attribute -> Props]]
      BY <1>1, <1>3 DEF ProfilesInv, ProfilesTypeOK
    <2>3. state' \in [Object -> {"absent", "live", "deleted"}] /\ attached' \in [Object -> SUBSET Profile]
      BY <1>1, <1>2 DEF ProfilesInv, ProfilesTypeOK
    <2>4. claimed' \subseteq Object \X Attribute
      BY <1>1, <1>2 DEF ProfilesInv, ProfilesTypeOK
    <2>5. changes' \in 0 .. MaxChanges
      BY <1>1, ProfilesAssumption DEF ProfilesInv, ProfilesTypeOK
    <2>6. chosen' \in [Object -> [Attribute -> Value \cup {Missing}]]
      BY <1>1, CreationChosen DEF ProfilesInv, ProfilesTypeOK
    <2>. QED BY <1>1, <2>1, <2>2, <2>3, <2>4, <2>5, <2>6 DEF ProfilesInv, ProfilesTypeOK
  <1>5. ASSUME NEW m \in Object, NEW a \in Attribute
        PROVE  (/\ state[m] # "absent" => Stored(m, a) \in Content
                /\ DefaultStored(base[m][a], m, a) /\ DefaultStored(own[m][a], m, a)
                /\ NotHashed(base[m][a], a) /\ NotHashed(own[m][a], a)
                /\ props[m][a].source = NoValue)'
    <2>1. /\ state[m] # "absent" => Stored(m, a) \in Content
          /\ DefaultStored(base[m][a], m, a) /\ DefaultStored(own[m][a], m, a)
          /\ NotHashed(base[m][a], a) /\ NotHashed(own[m][a], a)
          /\ props[m][a].source = NoValue
      BY DEF ProfilesInv, ContentSound
    <2>2. CASE m # n
      BY <1>1, <2>1, <2>2 DEF ProfilesInv, ProfilesTypeOK, Stored, DefaultStored, NotHashed
    <2>3. CASE m = n
      <3>1. own'[n][a] = CreatedContent(d)[a] /\ props'[n][a] = CreatedProps(d)[a]
        BY <1>1 DEF ProfilesInv, ProfilesTypeOK
      <3>2. Stored(m, a)' \in Content
        BY <1>3, <2>3, <3>1, ProfilesAssumption DEF Stored, Content, NoContent
      <3>3. DefaultStored(own[m][a], m, a)'
        <4>1. <<n, a>> \notin claimed' => ~ (a \in DOMAIN d.attrs /\ d.attrs[a].is_default = TRUE)
          BY <1>1
        <4>. QED BY <2>3, <3>1, <4>1, CreationWritten DEF DefaultStored
      <3>4. NotHashed(own[m][a], a)' /\ props'[m][a].source = NoValue
        BY <2>3, <3>1, CreationWritten DEF NotHashed
      <3>5. DefaultStored(base[m][a], m, a)' /\ NotHashed(base[m][a], a)'
        BY <1>1, <2>1 DEF DefaultStored, NotHashed
      <3>. QED BY <3>2, <3>3, <3>4, <3>5
    <2>. QED BY <2>2, <2>3
  <1>6. ContentSound'
    BY <1>5 DEF ContentSound
  <1>7. \A r \in Client : pending'[r].open => RequestSound(pending[r])'
    BY <1>1, RequestsKept
  <1>8. ChosenStored'
    <2> SUFFICES ASSUME NEW m \in Object, NEW a \in Attribute, state'[m] # "absent"
                 PROVE  IsChosen(Stored(m, a)', chosen'[m][a])
      BY DEF ChosenStored
    <2>1. CASE m # n
      <3>1. state[m] # "absent" /\ Stored(m, a)' = Stored(m, a) /\ chosen'[m] = chosen[m]
        BY <1>1, <2>1 DEF ProfilesInv, ProfilesTypeOK, Stored
      <3>. QED BY <3>1 DEF ProfilesInv, ChosenStored
    <2>2. CASE m = n
      <3>1. own'[n][a] = CreatedContent(d)[a] /\ chosen'[n][a] = Chosen(d, a)
        BY <1>1 DEF ProfilesInv, ProfilesTypeOK
      <3>2. own'[n][a] # NoContent
        BY <1>3, <3>1, ProfilesAssumption DEF Content, NoContent
      <3>3. Stored(n, a)' = CreatedContent(d)[a]
        BY <3>1, <3>2 DEF Stored
      <3>. QED BY <2>2, <3>1, <3>3, CreationChosen
    <2>. QED BY <2>1, <2>2
  <1>. QED BY <1>1, <1>4, <1>6, <1>7, <1>8 DEF ProfilesInv

LEMMA RequestRead ==
  ASSUME ProfilesInv, NEW r \in Client, pending[r].open
  PROVE  pending[r] \in OpenRequest /\ RequestSound(pending[r])
  <1>1. pending[r] \in {NoRequest} \cup OpenRequest
    BY DEF ProfilesInv, ProfilesTypeOK
  <1>. QED BY <1>1 DEF ProfilesInv, NoRequest

(* A step of a request that changes nothing but the request. *)
LEMMA RequestStep ==
  ASSUME ProfilesInv, NEW r \in Client, NEW m,
         pending' = [pending EXCEPT ![r] = m],
         m = NoRequest \/ (m \in OpenRequest /\ RequestSound(m)),
         UNCHANGED <<state, base, own, props, inherited, attached, profile, claimed, chosen, changes>>,
         lookups' \in 0 .. MaxLookups
  PROVE  ProfilesInv'
  <1>1. pending' \in [Client -> {NoRequest} \cup OpenRequest]
    BY DEF ProfilesInv, ProfilesTypeOK
  <1>2. ProfilesTypeOK'
    BY <1>1 DEF ProfilesInv, ProfilesTypeOK
  <1>3. ContentSound'
    BY DEF ProfilesInv, ContentSound, Stored, DefaultStored, NotHashed
  <1>4. ASSUME NEW q \in Client, pending'[q].open PROVE RequestSound(pending[q])'
    <2>1. RequestSound(pending'[q])
      <3>1. CASE q = r
        BY <1>4, <3>1 DEF ProfilesInv, ProfilesTypeOK, NoRequest
      <3>2. CASE q # r
        BY <1>4, <3>2 DEF ProfilesInv, ProfilesTypeOK
      <3>. QED BY <3>1, <3>2
    <2>. QED BY <2>1 DEF RequestSound, DefaultStored, NotHashed, AsRead, Loaded, IsChosen, Names
  <1>5. ChosenStored'
    BY DEF ProfilesInv, ChosenStored, Stored, IsChosen
  <1>. QED BY <1>2, <1>3, <1>4, <1>5 DEF ProfilesInv

(* A request that has read its node. *)
LEMMA RequestOfRead ==
  ASSUME ProfilesInv, NEW n \in LiveObjects, Readable(n), NEW m,
         m.node = n, m.object = get_one(n), m.seen = [a \in Attribute |-> Stored(n, a)],
         m.chosen = chosen[n]
  PROVE  /\ m.object \in [Attribute -> AttributeObject] /\ m.seen \in [Attribute -> Content]
         /\ m.chosen \in [Attribute -> Value \cup {Missing}]
         /\ RequestSound(m)
  <1>1. n \in Object /\ state[n] # "absent"
    BY DEF LiveObjects
  <1>2. ASSUME NEW a \in Attribute
        PROVE  /\ m.object[a] \in AttributeObject /\ m.seen[a] \in Content
               /\ m.object[a].is_from_profile \/ m.object[a].source = NoValue
               /\ m.object[a].is_from_profile \/ AsRead(m.object[a], m.seen[a], a)
    <2>1. m.object[a] = apply_profiles(n, a) /\ m.seen[a] = Stored(n, a)
      BY DEF get_one
    <2>2. Stored(n, a) \in Content
      BY <1>1 DEF ProfilesInv, ContentSound
    <2>. QED BY <2>1, <2>2, ReadAttribute
  <1>3. ASSUME NEW a \in Attribute
        PROVE  DefaultStored(m.seen[a], m.node, a) /\ NotHashed(m.seen[a], a)
               /\ IsChosen(m.seen[a], m.chosen[a])
    <2>1. m.seen[a] = Stored(n, a) /\ m.chosen[a] = chosen[n][a]
      OBVIOUS
    <2>2. IsChosen(m.seen[a], m.chosen[a])
      BY <1>1, <2>1 DEF ProfilesInv, ChosenStored
    <2>3. DefaultStored(m.seen[a], m.node, a) /\ NotHashed(m.seen[a], a)
      BY <1>1, <2>1 DEF ProfilesInv, ContentSound, Stored
    <2>. QED BY <2>2, <2>3
  <1>4. m.chosen \in [Attribute -> Value \cup {Missing}]
    BY <1>1 DEF ProfilesInv, ProfilesTypeOK
  <1>. QED BY <1>2, <1>3, <1>4 DEF RequestSound, get_one

LEMMA FindInv ==
  ASSUME ProfilesInv, NEW r \in Client, NEW by \in Object \cup Value, NEW d \in Payload,
         NEW upsert \in BOOLEAN, find_object(r, by, d, upsert)
  PROVE  ProfilesInv'
  <1>1. PICK n \in get_node(by) :
        /\ Readable(n)
        /\ pending' = [pending EXCEPT ![r] =
              [open |-> TRUE, node |-> n, data |-> d, upsert |-> upsert, object |-> get_one(n),
               seen |-> [a \in Attribute |-> Stored(n, a)], chosen |-> chosen[n]]]
    BY DEF find_object
  <1>2. n \in LiveObjects
    BY DEF get_node, get_one_by_hfid, query, Selected
  <1> DEFINE m == [open |-> TRUE, node |-> n, data |-> d, upsert |-> upsert, object |-> get_one(n),
                   seen |-> [a \in Attribute |-> Stored(n, a)], chosen |-> chosen[n]]
  <1>3. /\ m.object \in [Attribute -> AttributeObject] /\ m.seen \in [Attribute -> Content]
        /\ m.chosen \in [Attribute -> Value \cup {Missing}]
        /\ RequestSound(m)
    <2>1. m.node = n /\ m.object = get_one(n) /\ m.seen = [a \in Attribute |-> Stored(n, a)]
          /\ m.chosen = chosen[n]
      OBVIOUS
    <2> HIDE DEF m
    <2>. QED BY <1>1, <1>2, <2>1, RequestOfRead
  <1>4. m \in OpenRequest
    BY <1>2, <1>3 DEF OpenRequest, LiveObjects
  <1>5. lookups' \in 0 .. MaxLookups
    BY ProfilesAssumption DEF find_object, ProfilesInv, ProfilesTypeOK
  <1>6. UNCHANGED <<state, base, own, props, inherited, attached, profile, claimed, chosen, changes>>
    BY DEF find_object
  <1>7. pending' = [pending EXCEPT ![r] = m]
    BY <1>1
  <1> HIDE DEF m
  <1>. QED BY <1>3, <1>4, <1>5, <1>6, <1>7, RequestStep

LEMMA RefusedInv ==
  ASSUME ProfilesInv, NEW r \in Client, Refused(r)
  PROVE  ProfilesInv'
  BY RequestStep DEF Refused, ProfilesInv, ProfilesTypeOK

(* The object that a request saves: its input is applied to what it has.     *)
LEMMA RequestApplied ==
  ASSUME ProfilesInv, NEW r \in Client, pending[r].open
  PROVE  LET x == Applied(pending[r].object, pending[r].data) IN
         /\ x \in [Attribute -> AttributeObject]
         /\ \A a \in Attribute :
              /\ x[a].is_from_profile \/ x[a].source = NoValue
              /\ \/ Names(pending[r].data, a) \/ x[a].is_from_profile
                 \/ AsRead(x[a], pending[r].seen[a], a)
              /\ Names(pending[r].data, a) /\ Chosen(pending[r].data, a) # Missing =>
                    x[a].value = Chosen(pending[r].data, a)
  <1> DEFINE m == pending[r]
             x == Applied(m.object, m.data)
  <1>1. m \in OpenRequest /\ RequestSound(m)
    BY RequestRead
  <1>2. m.object \in [Attribute -> AttributeObject] /\ m.data \in Payload
    BY <1>1 DEF OpenRequest
  <1>3. ASSUME NEW a \in Attribute
        PROVE  /\ x[a] \in AttributeObject
               /\ x[a].is_from_profile \/ x[a].source = NoValue
               /\ \/ Names(m.data, a) \/ x[a].is_from_profile
                  \/ AsRead(x[a], m.seen[a], a)
               /\ Names(m.data, a) /\ Chosen(m.data, a) # Missing => x[a].value = Chosen(m.data, a)
    <2>1. x[a] = IF a \in DOMAIN m.data.attrs THEN from_graphql(m.object[a], m.data.attrs[a], a)
                 ELSE m.object[a]
      BY DEF Applied
    <2>2. a \in DOMAIN m.data.attrs => m.data.attrs[a] \in Input
      BY <1>2, ProfilesAssumption
    <2>3. /\ m.object[a] \in AttributeObject
          /\ m.object[a].is_from_profile \/ m.object[a].source = NoValue
          /\ \/ Names(m.data, a) \/ m.object[a].is_from_profile
             \/ AsRead(m.object[a], m.seen[a], a)
      BY <1>1, <1>2 DEF RequestSound
    <2> DEFINE i == m.data.attrs[a]
               o == m.object[a]
    <2> HIDE DEF x
    <2>4. CASE a \notin DOMAIN m.data.attrs
      BY <2>1, <2>3, <2>4 DEF Names
    <2>5. CASE a \in DOMAIN m.data.attrs
      <3>1. x[a] = from_graphql(o, i, a) /\ i \in Input
        BY <2>1, <2>2, <2>5
      <3>2. /\ x[a] \in AttributeObject
            /\ o.is_from_profile \/ o.source = NoValue => x[a].is_from_profile \/ x[a].source = NoValue
            /\ i.is_default = Missing =>
                 /\ i.value # Missing => x[a].value = i.value
                 /\ i.value = Missing => /\ x[a].value = o.value /\ x[a].is_default = o.is_default
                                        /\ x[a].rounds = o.rounds /\ x[a].is_from_profile = o.is_from_profile
        <4> HIDE DEF o, i
        <4>. QED BY <2>3, <3>1, InputApplied DEF o
      <3>3. ~ Names(m.data, a) => i.is_default = Missing /\ i.value = Missing
        BY <2>5 DEF Names
      <3>4. Chosen(m.data, a) # Missing => i.is_default = Missing /\ i.value # Missing /\ Chosen(m.data, a) = i.value
        BY DEF Chosen
      <3> HIDE DEF o, i
      <3>5. \/ Names(m.data, a) \/ x[a].is_from_profile \/ AsRead(x[a], m.seen[a], a)
        BY <2>3, <3>2, <3>3 DEF AsRead, o
      <3>. QED BY <2>3, <3>2, <3>4, <3>5 DEF o
    <2>. QED BY <2>4, <2>5
  <1>4. x = [a \in Attribute |-> x[a]]
    BY DEF Applied
  <1> HIDE DEF x
  <1>5. x \in [Attribute -> AttributeObject]
    BY <1>3, <1>4
  <1>. QED BY <1>3, <1>5 DEF x

LEMMA RetryInv ==
  ASSUME ProfilesInv, NEW r \in Client, retry_db_transaction(r)
  PROVE  ProfilesInv'
  <1> DEFINE m == pending[r]
             n == m.node
  <1>1. m.open /\ n \in LiveObjects /\ lookups' = lookups
        /\ UNCHANGED <<state, base, own, props, inherited, attached, profile, claimed, chosen, changes>>
    BY DEF retry_db_transaction
  <1>2. m \in OpenRequest /\ RequestSound(m)
    BY <1>1, RequestRead
  <1>3. lookups' \in 0 .. MaxLookups
    BY <1>1 DEF ProfilesInv, ProfilesTypeOK
  <1>4. CASE m.upsert
    <2> DEFINE x == Applied(m.object, m.data)
               k == [m EXCEPT !.object = x]
    <2>1. pending' = [pending EXCEPT ![r] = k]
      BY <1>4 DEF retry_db_transaction, ProfilesInv, ProfilesTypeOK
    <2>2. /\ x \in [Attribute -> AttributeObject]
          /\ \A a \in Attribute :
               /\ x[a].is_from_profile \/ x[a].source = NoValue
               /\ \/ Names(m.data, a) \/ x[a].is_from_profile
                  \/ AsRead(x[a], m.seen[a], a)
      BY <1>1, RequestApplied
    <2> HIDE DEF x
    <2>3. /\ k.object = x /\ k.seen = m.seen /\ k.data = m.data /\ k.node = m.node /\ k.chosen = m.chosen
          /\ k \in OpenRequest
      BY <1>2, <2>2 DEF OpenRequest
    <2>4. RequestSound(k)
      BY <1>2, <2>2, <2>3 DEF RequestSound
    <2> HIDE DEF k
    <2>. QED BY <1>1, <1>3, <2>1, <2>3, <2>4, RequestStep
  <1>5. CASE ~ m.upsert
    <2> DEFINE k == [m EXCEPT !.object = get_one(n), !.seen = [a \in Attribute |-> Stored(n, a)],
                              !.chosen = chosen[n]]
    <2>1. pending' = [pending EXCEPT ![r] = k] /\ Readable(n)
      BY <1>5 DEF retry_db_transaction, ProfilesInv, ProfilesTypeOK
    <2>2. k.node = n /\ k.object = get_one(n) /\ k.seen = [a \in Attribute |-> Stored(n, a)]
          /\ k.chosen = chosen[n]
      BY <1>2 DEF OpenRequest
    <2> DEFINE object == get_one(n)
               seen == [a \in Attribute |-> Stored(n, a)]
    <2>3. object \in [Attribute -> AttributeObject] /\ seen \in [Attribute -> Content] /\ RequestSound(k)
          /\ chosen[n] \in [Attribute -> Value \cup {Missing}]
      <3> HIDE DEF k
      <3>. QED BY <1>1, <2>1, <2>2, RequestOfRead
    <2> HIDE DEF object, seen
    <2>4. [m EXCEPT !.object = object, !.seen = seen, !.chosen = chosen[n]] \in OpenRequest
      BY <1>2, <2>3 DEF OpenRequest
    <2>5. k \in OpenRequest
      BY <2>4 DEF object, seen
    <2> HIDE DEF k
    <2>. QED BY <1>1, <1>3, <2>1, <2>3, <2>5, RequestStep
  <1>. QED BY <1>4, <1>5

LEMMA DeleteNodeInv ==
  ASSUME ProfilesInv, NEW n \in Object, mutate_delete(n)
  PROVE  ProfilesInv'
  <1>1. /\ state[n] = "live" /\ state' = [state EXCEPT ![n] = "deleted"]
        /\ attached' = [attached EXCEPT ![n] = {}]
        /\ changes < MaxChanges /\ changes' = changes + 1
        /\ UNCHANGED <<base, own, props, inherited, profile, pending, claimed, chosen, lookups>>
    BY DEF mutate_delete, Change, LiveObjects
  <1>2. ProfilesTypeOK'
    BY <1>1, ProfilesAssumption DEF ProfilesInv, ProfilesTypeOK
  <1>3. \A o \in Object : state'[o] # "absent" => state[o] # "absent"
    BY <1>1 DEF ProfilesInv, ProfilesTypeOK
  <1>4. ContentSound'
    BY <1>1, <1>3 DEF ProfilesInv, ContentSound, Stored, DefaultStored, NotHashed
  <1>5. \A r \in Client : pending'[r].open => RequestSound(pending[r])'
    BY <1>1, RequestsKept
  <1>6. ChosenStored'
    BY <1>1, <1>3 DEF ProfilesInv, ChosenStored, Stored, IsChosen
  <1>. QED BY <1>2, <1>4, <1>5, <1>6 DEF ProfilesInv

LEMMA ProfileInv ==
  ASSUME ProfilesInv, NEW p \in Profile, UpdateProfile(p) \/ DeleteProfile(p)
  PROVE  ProfilesInv'
  <1>1. /\ changes < MaxChanges /\ changes' = changes + 1
        /\ UNCHANGED <<state, base, own, props, inherited, pending, claimed, chosen, lookups>>
    BY DEF UpdateProfile, DeleteProfile, Change
  <1>2. attached' \in [Object -> SUBSET Profile]
    BY DEF UpdateProfile, DeleteProfile, ProfilesInv, ProfilesTypeOK
  <1> DEFINE P == [live : BOOLEAN, priority : 1 .. MaxPriority \cup {NoValue},
                   values : [Profiled -> Value \cup {NoValue}]]
  <1>3. profile \in [Profile -> P]
    BY DEF ProfilesInv, ProfilesTypeOK
  <1>4. profile' \in [Profile -> P]
    <2>1. ASSUME DeleteProfile(p) PROVE profile' \in [Profile -> P]
      BY <1>3, <2>1 DEF DeleteProfile
    <2>2. ASSUME NEW x \in 1 .. MaxPriority \cup {NoValue}, profile' = [profile EXCEPT ![p].priority = x]
          PROVE  profile' \in [Profile -> P]
      BY <1>3, <2>2
    <2>3. ASSUME NEW a \in Profiled, NEW v \in Value \cup {NoValue},
                 profile' = [profile EXCEPT ![p].values[a] = v]
          PROVE  profile' \in [Profile -> P]
      BY <1>3, <2>3
    <2>. QED BY <2>1, <2>2, <2>3 DEF UpdateProfile
  <1>5. ProfilesTypeOK'
    BY <1>1, <1>2, <1>4, ProfilesAssumption DEF ProfilesInv, ProfilesTypeOK
  <1>6. ContentSound'
    BY <1>1 DEF ProfilesInv, ContentSound, Stored, DefaultStored, NotHashed
  <1>7. \A r \in Client : pending'[r].open => RequestSound(pending[r])'
    BY <1>1, RequestsKept
  <1>8. ChosenStored'
    BY <1>1 DEF ProfilesInv, ChosenStored, Stored, IsChosen
  <1>. QED BY <1>5, <1>6, <1>7, <1>8 DEF ProfilesInv

(* The transaction of an update leaves what it saves, or what was there. *)
LEMMA UpdateEffect ==
  ASSUME ProfilesInv, NEW r \in Client, mutate_update(r), NEW a \in Attribute
  PROVE  LET n == pending[r].node
             o == Applied(pending[r].object, pending[r].data)[a]
         IN /\ n \in LiveObjects /\ n \in Object /\ o \in AttributeObject
            /\ o.is_from_profile \/ o.source = NoValue
            /\ \/ own'[n][a] = own[n][a]
               \/ own'[n][a] = Updated(o, a) /\ ~ o.is_from_profile /\ Updated(o, a).rounds <= MaxRounds
            /\ o.is_from_profile => own'[n][a] = own[n][a]
            /\ ~ o.is_from_profile =>
                  own'[n][a] = Updated(o, a) \/ (Stored(n, a) = Updated(o, a) /\ own'[n][a] = own[n][a])
            /\ props'[n][a] = SavedProps(o, props[n][a])
            /\ \A m \in Object \ {n} : own'[m] = own[m] /\ props'[m] = props[m]
  <1> DEFINE n == pending[r].node
             d == pending[r].data
             object == Applied(pending[r].object, d)
             saved == [b \in Attribute |-> save(object[b], b, Stored(n, b))]
             o == object[a]
  <1>1. /\ pending[r].open /\ n \in LiveObjects
        /\ \A b \in Attribute : saved[b].rounds <= MaxRounds
        /\ own' = [own EXCEPT ![n] = [b \in Attribute |->
                      IF saved[b] # Stored(n, b) THEN saved[b] ELSE own[n][b]]]
        /\ props' = [props EXCEPT ![n] = [b \in Attribute |-> SavedProps(object[b], props[n][b])]]
    BY DEF mutate_update
  <1>2. n \in Object
    BY <1>1 DEF LiveObjects
  <1>3. o \in AttributeObject /\ (o.is_from_profile \/ o.source = NoValue)
    BY <1>1, RequestApplied
  <1>4. saved[a] = save(o, a, Stored(n, a))
    OBVIOUS
  <1> HIDE DEF saved, object, n, d
  <1>5. own'[n][a] = IF saved[a] # Stored(n, a) THEN saved[a] ELSE own[n][a]
    BY <1>1, <1>2 DEF ProfilesInv, ProfilesTypeOK
  <1>6. props'[n][a] = SavedProps(o, props[n][a])
    BY <1>1, <1>2 DEF ProfilesInv, ProfilesTypeOK
  <1>7. \A m \in Object \ {n} : own'[m] = own[m] /\ props'[m] = props[m]
    BY <1>1, <1>2 DEF ProfilesInv, ProfilesTypeOK
  <1>8. \/ own'[n][a] = own[n][a]
        \/ own'[n][a] = Updated(o, a) /\ ~ o.is_from_profile /\ Updated(o, a).rounds <= MaxRounds
    BY <1>1, <1>4, <1>5 DEF save
  <1>9. /\ o.is_from_profile => own'[n][a] = own[n][a]
        /\ ~ o.is_from_profile => own'[n][a] = Updated(o, a) \/ (Stored(n, a) = Updated(o, a) /\ own'[n][a] = own[n][a])
    BY <1>4, <1>5 DEF save
  <1>. QED BY <1>1, <1>2, <1>3, <1>6, <1>7, <1>8, <1>9 DEF object, n, d

LEMMA UpdateInv ==
  ASSUME ProfilesInv, NEW r \in Client, mutate_update(r)
  PROVE  ProfilesInv'
  <1> DEFINE n == pending[r].node
             x == Applied(pending[r].object, pending[r].data)
             d == pending[r].data
  <1>1. /\ pending[r].open /\ changes < MaxChanges /\ changes' = changes + 1
        /\ attached' = [attached EXCEPT ![n] = IF d.profiles = Missing THEN @ ELSE d.profiles]
        /\ pending' = [pending EXCEPT ![r] = NoRequest]
        /\ chosen' = [chosen EXCEPT ![n] = [a \in Attribute |->
                         IF x[a].is_from_profile THEN chosen[n][a]
                         ELSE IF Names(d, a) THEN Chosen(d, a) ELSE pending[r].chosen[a]]]
        /\ UNCHANGED <<state, base, inherited, profile, claimed, lookups>>
    BY DEF mutate_update, Change, ProfilesInv, ProfilesTypeOK
  <1>2. n \in Object /\ d \in Payload
    BY <1>1, RequestRead DEF OpenRequest
  <1>3. own' = [m \in Object |-> [a \in Attribute |-> own'[m][a]]]
        /\ props' = [m \in Object |-> [a \in Attribute |-> props'[m][a]]]
    BY <1>2 DEF mutate_update, ProfilesInv, ProfilesTypeOK
  <1>4. ASSUME NEW m \in Object, NEW a \in Attribute
        PROVE  /\ own'[m][a] \in Content \cup {NoContent}
               /\ own'[m][a] = own[m][a] \/ own'[m][a] \in Content
               /\ DefaultStored(own'[m][a], m, a) /\ NotHashed(own'[m][a], a)
               /\ props'[m][a] \in Props /\ props'[m][a].source = NoValue
    <2> DEFINE o == x[a]
    <2>1. /\ o \in AttributeObject /\ (o.is_from_profile \/ o.source = NoValue)
          /\ \/ own'[n][a] = own[n][a]
             \/ own'[n][a] = Updated(o, a) /\ Updated(o, a).rounds <= MaxRounds
          /\ props'[n][a] = SavedProps(o, props[n][a])
          /\ m # n => own'[m] = own[m] /\ props'[m] = props[m]
      BY UpdateEffect
    <2>2. /\ own[m][a] \in Content \cup {NoContent} /\ props[m][a] \in Props
          /\ DefaultStored(own[m][a], m, a) /\ NotHashed(own[m][a], a) /\ props[m][a].source = NoValue
      BY DEF ProfilesInv, ProfilesTypeOK, ContentSound
    <2> HIDE DEF o, n
    <2>3. /\ Updated(o, a).rounds <= MaxRounds => Updated(o, a) \in Content
          /\ DefaultStored(Updated(o, a), m, a) /\ NotHashed(Updated(o, a), a)
      BY <2>1, UpdateWritten DEF DefaultStored
    <2>4. m = n => props'[m][a] \in Props /\ props'[m][a].source = NoValue
      BY <2>1, <2>2 DEF SavedProps, Props, AttributeObject
    <2>5. CASE m # n
      BY <2>1, <2>2, <2>5
    <2>6. CASE m = n
      BY <2>1, <2>2, <2>3, <2>4, <2>6
    <2>. QED BY <2>5, <2>6
  <1> HIDE DEF x
  <1>5. ProfilesTypeOK'
    <2>1. own' \in [Object -> [Attribute -> Content \cup {NoContent}]]
      BY <1>3, <1>4
    <2>2. props' \in [Object -> [Attribute -> Props]]
      BY <1>3, <1>4
    <2>3. attached' \in [Object -> SUBSET Profile]
      BY <1>1, <1>2, ProfilesAssumption DEF ProfilesInv, ProfilesTypeOK
    <2>4. pending' \in [Client -> {NoRequest} \cup OpenRequest] /\ changes' \in 0 .. MaxChanges
      BY <1>1, ProfilesAssumption DEF ProfilesInv, ProfilesTypeOK
    <2>5. chosen' \in [Object -> [Attribute -> Value \cup {Missing}]]
      <3>1. \A a \in Attribute : Chosen(d, a) \in Value \cup {Missing} /\ chosen[n][a] \in Value \cup {Missing}
                                 /\ pending[r].chosen[a] \in Value \cup {Missing}
        <4>1. pending[r].chosen \in [Attribute -> Value \cup {Missing}]
          BY <1>1, RequestRead DEF OpenRequest
        <4>2. \A a \in Attribute : chosen[n][a] \in Value \cup {Missing}
          BY <1>2 DEF ProfilesInv, ProfilesTypeOK
        <4> HIDE DEF n, d
        <4>. QED BY <1>2, <4>1, <4>2, CreationChosen
      <3> HIDE DEF n, d
      <3>. QED BY <1>1, <3>1 DEF ProfilesInv, ProfilesTypeOK
    <2>. QED BY <1>1, <2>1, <2>2, <2>3, <2>4, <2>5 DEF ProfilesInv, ProfilesTypeOK
  <1>6. ContentSound'
    <2> SUFFICES ASSUME NEW m \in Object, NEW a \in Attribute
                 PROVE  (/\ state[m] # "absent" => Stored(m, a) \in Content
                         /\ DefaultStored(base[m][a], m, a) /\ DefaultStored(own[m][a], m, a)
                         /\ NotHashed(base[m][a], a) /\ NotHashed(own[m][a], a)
                         /\ props[m][a].source = NoValue)'
      BY DEF ContentSound
    <2>1. /\ state[m] # "absent" => Stored(m, a) \in Content
          /\ DefaultStored(base[m][a], m, a) /\ NotHashed(base[m][a], a)
      BY DEF ProfilesInv, ContentSound
    <2>2. state'[m] # "absent" => Stored(m, a)' \in Content
      BY <1>1, <1>4, <2>1, ProfilesAssumption DEF Stored, Content, NoContent
    <2>3. DefaultStored(own[m][a], m, a)' /\ NotHashed(own[m][a], a)' /\ props'[m][a].source = NoValue
      BY <1>1, <1>4 DEF DefaultStored, NotHashed
    <2>4. DefaultStored(base[m][a], m, a)' /\ NotHashed(base[m][a], a)'
      BY <1>1, <2>1 DEF DefaultStored, NotHashed
    <2>. QED BY <2>2, <2>3, <2>4
  <1>7. ASSUME NEW q \in Client, pending'[q].open PROVE RequestSound(pending[q])'
    <2>1. pending'[q] = pending[q] /\ pending[q].open
      BY <1>1, <1>7 DEF ProfilesInv, ProfilesTypeOK, NoRequest
    <2>2. RequestSound(pending'[q])
      BY <2>1 DEF ProfilesInv
    <2>3. claimed' = claimed
      BY <1>1
    <2>. QED BY <2>2, <2>3 DEF RequestSound, DefaultStored, NotHashed, AsRead, Loaded, IsChosen, Names
  <1>8. ChosenStored'
    <2> SUFFICES ASSUME NEW m \in Object, NEW a \in Attribute, state'[m] # "absent", chosen'[m][a] # Missing
                 PROVE  Stored(m, a)'.value = chosen'[m][a] /\ ~ Stored(m, a)'.is_default
      BY DEF ChosenStored, IsChosen
    <2>1. IsChosen(Stored(m, a), chosen[m][a])
      BY <1>1 DEF ProfilesInv, ChosenStored
    <2>2. CASE m # n
      <3>1. own'[m] = own[m] /\ chosen'[m] = chosen[m]
        BY <1>1, <2>2, UpdateEffect DEF ProfilesInv, ProfilesTypeOK
      <3>2. Stored(m, a)' = Stored(m, a)
        BY <1>1, <3>1 DEF Stored
      <3>. QED BY <2>1, <3>1, <3>2 DEF IsChosen
    <2>3. CASE m = n
      <3> DEFINE o == x[a]
      <3>1. chosen'[n][a] = IF o.is_from_profile THEN chosen[n][a]
                            ELSE IF Names(d, a) THEN Chosen(d, a) ELSE pending[r].chosen[a]
        <4> HIDE DEF n, d, x
        <4>. QED BY <1>1, <1>2 DEF ProfilesInv, ProfilesTypeOK
      <3>2. /\ o \in AttributeObject
            /\ o.is_from_profile => own'[n][a] = own[n][a]
            /\ ~ o.is_from_profile =>
                  own'[n][a] = Updated(o, a) \/ (Stored(n, a) = Updated(o, a) /\ own'[n][a] = own[n][a])
        BY UpdateEffect DEF x
      <3>3. CASE o.is_from_profile
        <4> HIDE DEF o, n, d, x
        <4>1. Stored(m, a)' = Stored(m, a)
          BY <1>1, <2>3, <3>2, <3>3 DEF Stored
        <4>. QED BY <2>1, <2>3, <3>1, <3>3, <4>1 DEF IsChosen
      <3>4. CASE ~ o.is_from_profile
        <4> HIDE DEF o, n, d, x
        <4>1. Updated(o, a) # NoContent /\ (Updated(o, a).is_default => Updated(o, a).value = Default[a])
          BY <3>2, UpdateWritten
        <4>2. Stored(m, a)' = Updated(o, a)
          <5>1. base' = base
            BY <1>1
          <5>2. Stored(m, a)' = IF own'[m][a] # NoContent THEN own'[m][a] ELSE base[m][a]
            BY <5>1 DEF Stored
          <5>3. Stored(m, a) = IF own[m][a] # NoContent THEN own[m][a] ELSE base[m][a]
            BY DEF Stored
          <5>. QED BY <2>3, <3>2, <3>4, <4>1, <5>2, <5>3
        <4>3. Updated(o, a).value = o.value
          BY <3>2 DEF Updated, to_db, AttributeObject
        <4>4. CASE Names(d, a)
          <5>1. o.value = Chosen(d, a)
            BY <1>1, <2>3, <3>1, <3>4, <4>4, RequestApplied DEF o, d, x
          <5>2. Chosen(d, a) # Missing /\ Chosen(d, a) # Default[a]
            <6>1. Chosen(d, a) # Missing
              BY <2>3, <3>1, <3>4, <4>4
            <6>. QED BY <6>1 DEF Chosen
          <5>. QED BY <2>3, <3>1, <3>4, <4>1, <4>2, <4>3, <4>4, <5>1, <5>2
        <4>5. CASE ~ Names(d, a)
          <5> DEFINE v == pending[r].chosen[a]
                     c == pending[r].seen[a]
          <5>1. AsRead(o, c, a)
            BY <1>1, <3>4, <4>5, RequestApplied DEF o, d, x
          <5>2. v # Missing /\ v \in Value /\ c.value = v /\ ~ c.is_default /\ v = chosen'[n][a]
            <6>1. pending[r].chosen \in [Attribute -> Value \cup {Missing}] /\ RequestSound(pending[r])
              BY <1>1, RequestRead DEF OpenRequest, ProfilesInv
            <6>2. IsChosen(c, v)
              BY <6>1 DEF RequestSound
            <6>3. v # Missing /\ v = chosen'[n][a]
              BY <2>3, <3>1, <3>4, <4>5
            <6>. QED BY <6>1, <6>2, <6>3 DEF IsChosen
          <5>3. Loaded(c, a) = c
            BY <5>2, ProfilesAssumption DEF Loaded
          <5>4. o.value = v /\ o.is_default = FALSE
            <6>1. c.is_default \in BOOLEAN
              BY <1>1, RequestRead DEF OpenRequest, Content
            <6>. QED BY <5>1, <5>2, <5>3, <6>1 DEF AsRead
          <5>5. ~ StillDefault(o, a)
            BY <5>4 DEF StillDefault
          <5>6. Updated(o, a).is_default = StillDefault(o, a)
            BY <3>2 DEF Updated, to_db, AttributeObject
          <5>. QED BY <2>3, <4>2, <4>3, <5>2, <5>4, <5>5, <5>6
        <4>. QED BY <4>4, <4>5
      <3>. QED BY <3>3, <3>4
    <2>. QED BY <2>2, <2>3
  <1>. QED BY <1>5, <1>6, <1>7, <1>8 DEF ProfilesInv

LEMMA ProfilesNextInv == ProfilesInv /\ [ProfilesNext]_profileVars => ProfilesInv'
  <1> SUFFICES ASSUME ProfilesInv, [ProfilesNext]_profileVars PROVE ProfilesInv'
    OBVIOUS
  <1>1. ASSUME NEW n \in Object, NEW d \in Payload, mutate_create(n, d) \/ mutate_upsert(n, d)
        PROVE  ProfilesInv'
    BY <1>1, CreateInv DEF mutate_create, mutate_upsert
  <1>2. ASSUME NEW r \in Client, NEW by \in Object \cup Value, NEW d \in Payload, NEW upsert \in BOOLEAN,
               find_object(r, by, d, upsert)
        PROVE  ProfilesInv'
    BY <1>2, FindInv
  <1>3. ASSUME NEW r \in Client, mutate_update(r) PROVE ProfilesInv'
    BY <1>3, UpdateInv
  <1>4. ASSUME NEW r \in Client, Refused(r) PROVE ProfilesInv'
    BY <1>4, RefusedInv
  <1>5. ASSUME NEW r \in Client, retry_db_transaction(r) PROVE ProfilesInv'
    BY <1>5, RetryInv
  <1>6. ASSUME NEW n \in Object, mutate_delete(n) PROVE ProfilesInv'
    BY <1>6, DeleteNodeInv
  <1>7. ASSUME NEW p \in Profile, UpdateProfile(p) \/ DeleteProfile(p) PROVE ProfilesInv'
    BY <1>7, ProfileInv
  <1>8. ASSUME UNCHANGED profileVars PROVE ProfilesInv'
    <2>1. UNCHANGED <<state, base, own, props, inherited, attached, profile, pending, claimed,
                      chosen, changes, lookups>>
      BY <1>8 DEF profileVars
    <2>2. ProfilesTypeOK'
      BY <2>1 DEF ProfilesInv, ProfilesTypeOK
    <2>3. ContentSound'
      BY <2>1 DEF ProfilesInv, ContentSound, Stored, DefaultStored, NotHashed
    <2>4. \A r \in Client : pending'[r].open => RequestSound(pending[r])'
      BY <2>1, RequestsKept
    <2>5. ChosenStored'
      BY <2>1 DEF ProfilesInv, ChosenStored, Stored, IsChosen
    <2>. QED BY <2>2, <2>3, <2>4, <2>5 DEF ProfilesInv
  <1>. QED BY <1>1, <1>2, <1>3, <1>4, <1>5, <1>6, <1>7, <1>8 DEF ProfilesNext

(* The inductive invariant of the attributes holds in every state. *)
LEMMA ProfilesInductive == ProfilesSpec => []ProfilesInv
  BY ProfilesInitInv, ProfilesNextInv, PTL DEF ProfilesSpec

(* A value of its own that was kept is not stored as a default, so that no   *)
(* profile is looked for.                                                    *)
LEMMA OwnValue == ProfilesInv => OwnValueShown
  <1> SUFFICES ASSUME ProfilesInv, NEW n \in LiveObjects, NEW a \in Attribute, chosen[n][a] # Missing
               PROVE  apply_profiles(n, a).value = chosen[n][a]
    BY DEF OwnValueShown
  <1> DEFINE c == Stored(n, a)
  <1>1. ~ c.is_default /\ c.value = chosen[n][a] /\ chosen[n][a] \in Value
    BY DEF ProfilesInv, ChosenStored, LiveObjects, IsChosen, ProfilesTypeOK
  <1>2. Loaded(c, a) = c
    BY <1>1, ProfilesAssumption DEF Loaded
  <1>3. apply_profiles(n, a).value = Loaded(c, a).value
    <2> HIDE DEF c
    <2>. QED BY <1>1 DEF apply_profiles, c
  <1>. QED BY <1>1, <1>2, <1>3

(* The read and the query see the same profiles in the same order. *)
LEMMA ListedValue == ProfilesInv => ListAgrees
  <1> SUFFICES ASSUME ProfilesInv, NEW n \in LiveObjects, Readable(n), ProfilesRead(n) = ProfilesQueried(n),
                      NEW a \in Attribute \ Hashed, Stored(n, a).value # NoValue \/ Default[a] = NoValue
               PROVE  LET shown == apply_profiles(n, a).value
                      IN /\ OrderValue(n, a) = shown
                         /\ \A values \in SUBSET Value :
                            /\ shown \in values => Selected(n, a, values, FALSE)
                            /\ NoContent \in {base[n][a], own[n][a]} =>
                                  \A partial \in BOOLEAN :
                                      Selected(n, a, values, partial) => shown \in values
    BY DEF ListAgrees
  <1> DEFINE c == Stored(n, a)
             S == ProfilesRead(n)
             shown == apply_profiles(n, a).value
             fp == c.is_default /\ Giving(S, a) # {}
  <1>1. n \in Object /\ c \in Content
    BY DEF ProfilesInv, ContentSound, LiveObjects
  <1>2. c \in {base[n][a], own[n][a]} /\ c # NoContent
    BY <1>1, ProfilesAssumption DEF Stored, Content, NoContent
  <1>3. own[n][a] # NoContent => c = own[n][a]
    BY DEF Stored
  <1>4. own[n][a] = NoContent => c = base[n][a]
    BY DEF Stored
  <1>5. fp => QueriedWinner(S, a) = Winner(S, a)
    <2>1. S \subseteq Profile
      BY <1>1 DEF ProfilesInv, ProfilesTypeOK, ProfilesRead
    <2>2. \A q \in S : profile[q].priority \in 1 .. MaxPriority \cup {NoValue}
      BY <2>1 DEF ProfilesInv, ProfilesTypeOK
    <2>3. \A q \in S : profile[q].priority \in Nat /\ profile[q].priority # NoValue
      BY <2>2, ProfilesAssumption DEF Readable
    <2>. QED BY <2>1, <2>3, SameWinner
  <1>6. shown = IF fp THEN profile[Winner(S, a)].values[a] ELSE c.value
    <2>1. Loaded(c, a) = c
      BY DEF Loaded
    <2>2. apply_profiles(n, a).value =
             (IF fp THEN [value |-> profile[Winner(S, a)].values[a], is_default |-> FALSE,
                          rounds |-> IF a \in Hashed THEN 1 ELSE 0]
              ELSE Loaded(c, a)).value
      BY DEF apply_profiles
    <2> HIDE DEF c, S
    <2>. QED BY <2>1, <2>2
  <1>7. FinalValue(n, a, c) = IF fp THEN profile[QueriedWinner(S, a)].values[a] ELSE c.value
    BY DEF FinalValue
  <1>8. FinalValue(n, a, c) = shown
    <2> HIDE DEF c, S, shown, fp
    <2>. QED BY <1>5, <1>6, <1>7
  <1>9. OrderValue(n, a) = shown
    BY <1>8 DEF OrderValue
  <1>10. ASSUME NEW values \in SUBSET Value, shown \in values PROVE Selected(n, a, values, FALSE)
    <2>1. c.value \in values \/ c.is_default
      <3> HIDE DEF c, S, shown
      <3>. QED BY <1>6, <1>10
    <2>2. c \in Matching(n, a, values, FALSE)
      <3> HIDE DEF c
      <3>. QED BY <1>2, <2>1 DEF Matching
    <2>3. NodeValue(n, a, values, FALSE) = c
      <3>1. own[n][a] = NoContent => own[n][a] \notin Matching(n, a, values, FALSE)
        BY DEF Matching
      <3> HIDE DEF c
      <3>. QED BY <1>3, <1>4, <2>2, <3>1 DEF NodeValue
    <2> HIDE DEF c, shown
    <2>. QED BY <1>8, <1>10, <2>2, <2>3 DEF Selected
  <1>11. ASSUME NEW values \in SUBSET Value, NoContent \in {base[n][a], own[n][a]}, NEW partial \in BOOLEAN,
                Selected(n, a, values, partial)
         PROVE  shown \in values
    <2> DEFINE M == Matching(n, a, values, partial)
    <2>1. M \subseteq {base[n][a], own[n][a]} \ {NoContent} /\ M # {}
      BY <1>11 DEF Selected, Matching
    <2>2. FinalValue(n, a, NodeValue(n, a, values, partial)) \in values
      BY <1>11 DEF Selected
    <2>3. NodeValue(n, a, values, partial) = IF own[n][a] \in M THEN own[n][a] ELSE base[n][a]
      BY DEF NodeValue
    <2> HIDE DEF M, c, shown
    <2>4. NodeValue(n, a, values, partial) = c
      BY <1>3, <1>4, <1>11, <2>1, <2>3
    <2>. QED BY <1>8, <2>2, <2>4
  <1>. QED BY <1>9, <1>10, <1>11

(* ValuesShown: a node shows the value of its own that was kept, and what a  *)
(* filter finds it by; apply_profiles never hides what is not stored as a    *)
(* default, and ranks profiles like the query of the node list.              *)
THEOREM ValuesShownAlways == ProfilesSpec => []ValuesShown
  <1>1. ProfilesInv => ValuesShown
    BY OwnValue, ListedValue DEF ValuesShown
  <1>. QED BY <1>1, ProfilesInductive, PTL

(* An update writes back what it has read, where its input names nothing. *)
LEMMA UpdateRestores ==
  ASSUME ProfilesInv, NEW r \in Client, mutate_update(r), NEW a \in Attribute \ Hashed,
         NEW n, n = pending[r].node, <<n, a>> \notin claimed
  PROVE  /\ Stored(n, a)' # Stored(n, a) => Restores(r, n, a)
         /\ props'[n][a].source = props[n][a].source
  <1> DEFINE o == Applied(pending[r].object, pending[r].data)[a]
             c == pending[r].seen[a]
  <1>1. /\ n \in Object /\ o \in AttributeObject /\ (o.is_from_profile \/ o.source = NoValue)
        /\ \/ own'[n][a] = own[n][a]
           \/ own'[n][a] = Updated(o, a) /\ ~ o.is_from_profile /\ Updated(o, a).rounds <= MaxRounds
        /\ props'[n][a] = SavedProps(o, props[n][a])
    BY UpdateEffect
  <1>2. pending[r].open /\ base' = base /\ pending' = [pending EXCEPT ![r] = NoRequest]
    BY DEF mutate_update
  <1>3. ~ pending'[r].open
    BY <1>2 DEF ProfilesInv, ProfilesTypeOK, NoRequest
  <1>4. \/ Names(pending[r].data, a) \/ o.is_from_profile \/ AsRead(o, c, a)
    BY <1>2, RequestApplied
  <1>5. c \in Content /\ DefaultStored(c, n, a) /\ NotHashed(c, a)
    BY <1>2, RequestRead DEF RequestSound, OpenRequest
  <1> HIDE DEF o, c
  <1>6. props'[n][a].source = props[n][a].source
    <2>1. props[n][a].source = NoValue
      BY <1>1 DEF ProfilesInv, ContentSound
    <2>. QED BY <1>1, <2>1 DEF SavedProps
  <1>7. own'[n][a] = own[n][a] => Stored(n, a)' = Stored(n, a)
    BY <1>2 DEF Stored
  <1>8. ASSUME own'[n][a] = Updated(o, a), ~ o.is_from_profile PROVE Restores(r, n, a)
    <2>1. Stored(n, a)' = Updated(o, a)
      BY <1>1, <1>8, UpdateWritten DEF Stored
    <2>2. ASSUME AsRead(o, c, a) PROVE Updated(o, a) = Loaded(c, a)
      <3> DEFINE l == Loaded(c, a)
      <3>1. l \in Content /\ (l.is_default => l.value = Default[a]) /\ l.rounds = 0
        BY <1>5, ProfilesAssumption DEF Loaded, Content, DefaultStored, NotHashed
      <3>2. o.value = l.value /\ o.is_default = l.is_default
        BY <2>2 DEF AsRead
      <3> HIDE DEF l
      <3>3. StillDefault(o, a) = l.is_default
        BY <3>1, <3>2 DEF StillDefault, Content
      <3>4. Updated(o, a) = [value |-> o.value, is_default |-> StillDefault(o, a), rounds |-> 0]
        BY <1>1 DEF Updated, to_db, serialize_value, AttributeObject
      <3>5. Updated(o, a) = l
        BY <3>1, <3>2, <3>3, <3>4 DEF Content
      <3>. QED BY <3>5 DEF l
    <2>. QED BY <1>2, <1>3, <1>4, <1>8, <2>1, <2>2 DEF Restores, c
  <1>. QED BY <1>1, <1>6, <1>7, <1>8

(* UpdateExact: a request that saves an object leaves alone every value its  *)
(* input does not name, but for passwords and values claimed to be defaults: *)
(* BaseAttribute.save skips what came from a profile, and the rest goes back *)
(* to what was read, however requests, retries and profiles overlap.         *)
THEOREM UpdateExactAlways == ProfilesSpec => UpdateExact
  <1> DEFINE Exact == \A n \in LiveObjects, a \in Attribute \ Hashed :
        n \in LiveObjects' /\ <<n, a>> \notin claimed =>
            /\ Stored(n, a)' # Stored(n, a) => \E r \in Client : Restores(r, n, a)
            /\ props'[n][a].source = props[n][a].source
  <1>1. ProfilesInv /\ [ProfilesNext]_profileVars => [Exact]_profileVars
    <2> SUFFICES ASSUME ProfilesInv, ProfilesNext, NEW n \in LiveObjects, NEW a \in Attribute \ Hashed,
                        <<n, a>> \notin claimed
                 PROVE  /\ Stored(n, a)' # Stored(n, a) => \E r \in Client : Restores(r, n, a)
                        /\ props'[n][a].source = props[n][a].source
      OBVIOUS
    <2>1. ASSUME NEW m \in Object, NEW d \in Payload, mutate_create(m, d) \/ mutate_upsert(m, d)
          PROVE  Stored(n, a)' = Stored(n, a) /\ props'[n][a] = props[n][a]
      <3>1. state[m] = "absent" /\ base' = base /\ own' = [own EXCEPT ![m] = CreatedContent(d)]
            /\ props' = [props EXCEPT ![m] = CreatedProps(d)]
        BY <2>1 DEF mutate_create, mutate_upsert, mutate_create_object
      <3>2. m # n /\ n \in Object
        BY <3>1 DEF LiveObjects
      <3>. QED BY <3>1, <3>2 DEF Stored, ProfilesInv, ProfilesTypeOK
    <2>2. ASSUME NEW r \in Client, mutate_update(r)
          PROVE  /\ Stored(n, a)' # Stored(n, a) => Restores(r, n, a)
                 /\ props'[n][a].source = props[n][a].source
      <3>1. CASE n = pending[r].node
        BY <2>2, <3>1, UpdateRestores
      <3>2. CASE n # pending[r].node
        <4>1. own'[n] = own[n] /\ props'[n] = props[n] /\ base' = base
          BY <2>2, <3>2, UpdateEffect DEF LiveObjects, mutate_update
        <4>. QED BY <4>1 DEF Stored
      <3>. QED BY <3>1, <3>2
    <2>3. ASSUME UNCHANGED <<base, own, props>>
          PROVE  Stored(n, a)' = Stored(n, a) /\ props'[n][a] = props[n][a]
      BY <2>3 DEF Stored
    <2>4. \/ \E m \in Object, d \in Payload : mutate_create(m, d) \/ mutate_upsert(m, d)
          \/ \E r \in Client : mutate_update(r)
          \/ UNCHANGED <<base, own, props>>
      BY DEF ProfilesNext, find_object, Refused, retry_db_transaction, mutate_delete, UpdateProfile, DeleteProfile
    <2>. QED BY <2>1, <2>2, <2>3, <2>4
  <1>. QED BY <1>1, ProfilesInductive, PTL DEF ProfilesSpec, UpdateExact
=============================================================================
