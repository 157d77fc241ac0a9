------------------------ MODULE ProposedChangeProofs ------------------------
(***************************************************************************)
(* Proofs about ProposedChange, for any paths, values, requests and        *)
(* bounds: its types, that a merge leaves no conflict it found undecided,  *)
(* and that only an outdated diff makes a decision disappear.              *)
(***************************************************************************)
EXTENDS ProposedChange, TLAPS

(* The proposed change is created once, before anything else is done to it. *)
Creation ==
  /\ \A q, o \in Slot : request[q] = Create /\ request[o] = Create => q = o
  /\ \A q \in Slot : request[q] = Create => state = None
  /\ state = None => runs = 0 /\ \A q \in Slot : request[q] \in {Idle, Create}

(* What a user has decided is known as a decision: in the checks, in what a  *)
(* request has read of them, and in what a merge has found.                  *)
Decisions ==
  /\ \A c \in AllChecks : c.decided => c.path \in decisions
  /\ \A q \in Slot : request[q] \in Update =>
       /\ request[q].accepted => request[q].resolved \subseteq decisions
       /\ request[q].looked => InConflict(request[q].found) \subseteq decisions

IInv == TypeOK /\ Creation

-----------------------------------------------------------------------------
LEMMA InitIInv == Init => IInv
  <1> SUFFICES ASSUME Init PROVE IInv
    OBVIOUS
  <1>1. Idle # Create
    BY DEF Idle, Create, None
  <1>2. TypeOK
    <2>1. runs \in 0..MaxRuns /\ changes \in 0..MaxChanges
      BY BoundAssumption DEF Init
    <2>2. conflict \in Conflicts /\ request \in [Slot -> Update \cup {Idle, Create}]
      BY DEF Init, Conflicts, NoConflict
    <2> QED
      BY <2>1, <2>2 DEF Init, TypeOK
  <1>3. Creation
    BY <1>1 DEF Init, Creation
  <1> QED
    BY <1>2, <1>3 DEF IInv

(* What a request is, by what it asks for. *)
LEMMA RequestKind ==
  ASSUME IInv, NEW q \in Slot
  PROVE  /\ request[q].to \in ProposedChangeState => request[q] \in Update /\ state # None
         /\ request[q] # Create <=> request[q].to # "created"
  <1>1. request[q] \in Update \cup {Idle, Create}
    BY DEF IInv, TypeOK
  <1>2. Idle.to = "none" /\ Create.to = "created" /\ \A u \in Update : u.to \in ProposedChangeState
    BY DEF Idle, Create, None, Update
  <1>3. "none" \notin ProposedChangeState /\ "created" \notin ProposedChangeState
    BY DEF ProposedChangeState
  <1> QED
    BY <1>1, <1>2, <1>3 DEF IInv, Creation

(* A step that touches neither the requests, the state nor the runs. *)
LEMMA NoRequest ==
  ASSUME IInv, UNCHANGED <<state, request, runs>>
  PROVE  Creation'
  BY DEF IInv, Creation

(* A request that ends, or a step of one that is not the creation. *)
LEMMA RequestStep ==
  ASSUME IInv, NEW q \in Slot, NEW u \in Update \cup {Idle}, request' = [request EXCEPT ![q] = u],
         state' \in ProposedChangeState \/ (state' = state /\ u = Idle),
         state # None \/ state' = state, runs' = runs
  PROVE  Creation' /\ request' \in [Slot -> Update \cup {Idle, Create}]
  <1>1. Idle # Create /\ \A x \in Update : x # Create
    BY DEF Idle, Create, None, Update, ProposedChangeState
  <1>2. None \notin ProposedChangeState
    BY DEF None, ProposedChangeState
  <1>3. request \in [Slot -> Update \cup {Idle, Create}]
    BY DEF IInv, TypeOK
  <1>4. request' \in [Slot -> Update \cup {Idle, Create}] /\ \A o \in Slot : request'[o] = IF o = q THEN u ELSE request[o]
    BY <1>3
  <1>5. \A o \in Slot : request'[o] = Create => request[o] = Create /\ o # q
    BY <1>1, <1>4
  <1>6. Creation'
    BY <1>1, <1>2, <1>4, <1>5 DEF IInv, Creation
  <1> QED
    BY <1>4, <1>6

(* Begun is a request of an update. *)
LEMMA BegunStep ==
  ASSUME IInv, NEW q \in Slot, NEW to \in ProposedChangeState, Begun(q, to),
         UNCHANGED <<state, runs>>
  PROVE  Creation' /\ request' \in [Slot -> Update \cup {Idle, Create}]
  <1> DEFINE u == [to |-> to, read |-> state, accepted |-> to = "merged" /\ Accepts,
                   resolved |-> IF to = "merged" THEN {c.path : c \in AllChecks} ELSE {},
                   looked |-> FALSE, found |-> NoConflict]
  <1>1. state \in {"open", "closed"}
    BY DEF Begun, MayBecome
  <1>2. {c.path : c \in AllChecks} \subseteq Path
    BY DEF IInv, TypeOK, AllChecks, DataValidator, DataCheck
  <1>3. u \in Update
    BY <1>1, <1>2 DEF Update, NoConflict, Conflicts
  <1>4. request' = [request EXCEPT ![q] = u] /\ state' \in ProposedChangeState /\ state # None
    BY <1>1 DEF Begun, ProposedChangeState, None
  <1> HIDE DEF u
  <1> QED
    BY <1>3, <1>4, RequestStep

(* What a data integrity check records. *)
LEMMA RecordedType ==
  ASSUME NEW S \in SUBSET DataCheck, NEW f \in Conflicts, NEW r \in Run
  PROVE  Recorded(S, f, r) \subseteq DataCheck
  <1>1. ASSUME NEW p \in InConflict(f)
        PROVE  [by |-> r, path |-> p, values |-> f[p], decided |-> FALSE] \in DataCheck
    <2>1. p \in Path /\ f[p] \in Pair
      BY DEF InConflict, Conflicts
    <2> QED
      BY <2>1 DEF DataCheck
  <1> QED
    BY <1>1 DEF Recorded

(* The forms of a message and of a job. *)
LEMMA MessageForm ==
  ASSUME IInv, NEW m \in messages
  PROVE  /\ m.op = "pipeline" => m.run \in Run /\ m.type \in CheckType
         /\ m.op \in {"data"} \cup Validator => m.run \in Run
  BY DEF IInv, TypeOK, Message, Validator

LEMMA JobForm ==
  ASSUME IInv, NEW j \in jobs
  PROVE  /\ j.op \in {"data", "record"} => j.run \in Run /\ j.found \in Conflicts
         /\ j.op = "record" => j.target \in Run
         /\ j.op = "checks" => j.outcome \in {"success", "failure"}
  BY DEF IInv, TypeOK, Job

-----------------------------------------------------------------------------
(* The handlers of the messages. *)
LEMMA HandlerIInv ==
  ASSUME IInv, Handler
  PROVE  IInv'
  <1> USE DEF Receive
  <1>1. ASSUME NEW m \in messages, Pipeline(m) PROVE IInv'
    <2>1. m.run \in Run /\ m.type \in CheckType
      BY <1>1, MessageForm DEF Pipeline
    <2>2. \A o \in CheckType \ {"all"} : [op |-> o, run |-> m.run] \in Message
      BY <2>1 DEF CheckType, Validator, Message
    <2>3. PICK sent \in SUBSET (CheckType \ {"all"}) :
            messages' = (messages \ {m}) \cup {[op |-> o, run |-> m.run] : o \in sent}
      BY <1>1, <2>1 DEF Pipeline, CheckType, Validator
    <2>4. messages' \subseteq Message
      BY <2>2, <2>3 DEF IInv, TypeOK
    <2>5. TypeOK'
      BY <1>1, <2>4 DEF IInv, TypeOK, Pipeline
    <2> QED
      BY <1>1, <2>5, NoRequest DEF IInv, Pipeline
  <1>2. ASSUME NEW m \in messages, Fail(m) PROVE IInv'
    <2>1. TypeOK'
      BY <1>2 DEF IInv, TypeOK, Fail
    <2> QED
      BY <1>2, <2>1, NoRequest DEF IInv, Fail
  <1>3. ASSUME NEW m \in messages, DataIntegrity(m) PROVE IInv'
    <2>1. [op |-> "data", run |-> m.run, found |-> conflict] \in Job
      BY <1>3, MessageForm DEF DataIntegrity, IInv, TypeOK, Job
    <2>2. TypeOK'
      BY <1>3, <2>1 DEF IInv, TypeOK, DataIntegrity
    <2> QED
      BY <1>3, <2>2, NoRequest DEF IInv, DataIntegrity
  <1>4. ASSUME NEW m \in messages, SchemaIntegrity(m) PROVE IInv'
    <2>1. TypeOK'
      BY <1>4 DEF IInv, TypeOK, SchemaIntegrity
    <2> QED
      BY <1>4, <2>1, NoRequest DEF IInv, SchemaIntegrity
  <1>5. ASSUME NEW m \in messages, StartChecks(m) PROVE IInv'
    <2>1. [op |-> "checks", run |-> m.run,
           outcome |-> IF "checks" \in passes THEN "success" ELSE "failure"] \in Job
      BY <1>5, MessageForm DEF StartChecks, Job, Validator
    <2>2. TypeOK'
      BY <1>5, <2>1 DEF IInv, TypeOK, StartChecks
    <2> QED
      BY <1>5, <2>2, NoRequest DEF IInv, StartChecks
  <1>6. ASSUME NEW m \in messages, ListOpen(m) PROVE IInv'
    <2>1. [op |-> "cancel", opened |-> state = "open"] \in Job
      BY DEF Job
    <2>2. TypeOK'
      BY <1>6, <2>1 DEF IInv, TypeOK, ListOpen
    <2> QED
      BY <1>6, <2>2, NoRequest DEF IInv, ListOpen
  <1>12. ASSUME NEW j \in jobs, ListClosed(j) PROVE IInv'
    <2>1. [op |-> "request_cancel"] \in Message
      BY DEF Message
    <2>2. TypeOK'
      BY <1>12, <2>1 DEF IInv, TypeOK, ListClosed, Send
    <2> QED
      BY <1>12, <2>2, NoRequest DEF IInv, ListClosed
  <1>7. ASSUME NEW m \in messages, RequestCancel(m) PROVE IInv'
    <2>1. Creation' /\ request' \in [Slot -> Update \cup {Idle, Create}]
      <3>1. CASE Begun(Worker, "canceled")
        BY <1>7, <3>1, BegunStep DEF RequestCancel, Slot, ProposedChangeState
      <3>2. CASE UNCHANGED request
        BY <1>7, <3>2, NoRequest DEF RequestCancel, IInv, TypeOK
      <3> QED
        BY <1>7, <3>1, <3>2 DEF RequestCancel
    <2>2. TypeOK'
      BY <1>7, <2>1 DEF IInv, TypeOK, RequestCancel
    <2> QED
      BY <2>1, <2>2 DEF IInv
  <1>8. ASSUME NEW j \in jobs, RecordBegin(j) PROVE IInv'
    <2>1. PICK t \in Run :
            jobs' = (jobs \ {j}) \cup {[op |-> "record", run |-> j.run, found |-> j.found, target |-> t]}
      BY <1>8, JobForm DEF RecordBegin, IInv, TypeOK, DataValidator
    <2>2. [op |-> "record", run |-> j.run, found |-> j.found, target |-> t] \in Job
      BY <1>8, JobForm DEF RecordBegin, Job
    <2>3. TypeOK'
      BY <1>8, <2>1, <2>2 DEF IInv, TypeOK, RecordBegin
    <2> QED
      BY <1>8, <2>3, NoRequest DEF IInv, RecordBegin
  <1>9. ASSUME NEW j \in jobs, RecordCommit(j) PROVE IInv'
    <2> DEFINE old == {d \in data : d.by = j.target}
               previous == UNION {d.checks : d \in old}
               found == Recorded(previous, j.found, j.run)
               new == [by |-> j.target, checks |-> found,
                       conclusion |-> IF InConflict(j.found) = {} THEN "success" ELSE "failure"]
    <2>1. data' = (data \ old) \cup {new} /\ jobs' = jobs \ {j} /\ j.op = "record"
      BY <1>9 DEF RecordCommit
    <2>2. j.run \in Run /\ j.target \in Run /\ j.found \in Conflicts
      BY <2>1, JobForm
    <2>3. previous \in SUBSET DataCheck
      BY DEF IInv, TypeOK, DataValidator
    <2>4. found \subseteq DataCheck
      <3> HIDE DEF previous
      <3> QED
        BY <2>2, <2>3, RecordedType
    <2>5. new \in DataValidator
      <3> HIDE DEF found
      <3> QED
        BY <2>2, <2>4 DEF DataValidator
    <2>6. data' \subseteq DataValidator
      <3> HIDE DEF new
      <3> QED
        BY <2>1, <2>5 DEF IInv, TypeOK
    <2>7. TypeOK'
      BY <1>9, <2>1, <2>6 DEF IInv, TypeOK, RecordCommit
    <2> QED
      BY <1>9, <2>7, NoRequest DEF IInv, RecordCommit
  <1>10. ASSUME NEW j \in jobs, FinishChecks(j) PROVE IInv'
    <2>1. TypeOK'
      BY <1>10, JobForm DEF IInv, TypeOK, FinishChecks
    <2> QED
      BY <1>10, <2>1, NoRequest DEF IInv, FinishChecks
  <1>11. ASSUME CommitState(Worker) PROVE IInv'
    <2>1. Worker \in Slot /\ request[Worker].to \in ProposedChangeState
      BY <1>11 DEF CommitState, ProposedChangeState, Slot
    <2>2. Creation' /\ request' \in [Slot -> Update \cup {Idle, Create}]
      BY <1>11, <2>1, RequestKind, RequestStep DEF CommitState
    <2>3. TypeOK'
      BY <1>11, <2>1, <2>2 DEF IInv, TypeOK, CommitState
    <2> QED
      BY <2>2, <2>3 DEF IInv
  <1> QED
    BY <1>1, <1>2, <1>3, <1>4, <1>5, <1>6, <1>7, <1>8, <1>9, <1>10, <1>11, <1>12 DEF Handler

-----------------------------------------------------------------------------
(* What users do. *)
LEMMA UserIInv ==
  ASSUME IInv, User
  PROVE  IInv'
  <1> USE DEF Send
  <1>1. ASSUME Change PROVE IInv'
    <2>1. conflict' \in Conflicts /\ passes' \subseteq Validator
      BY <1>1 DEF IInv, TypeOK, Change, Conflicts
    <2>2. TypeOK'
      BY <1>1, <2>1, BoundAssumption DEF IInv, TypeOK, Change
    <2> QED
      BY <1>1, <2>2, NoRequest DEF IInv, Change
  <1>2. ASSUME DeleteBranch PROVE IInv'
    <2>1. [op |-> "trigger_cancel"] \in Message
      BY DEF Message
    <2>2. TypeOK'
      BY <1>2, <2>1 DEF IInv, TypeOK, DeleteBranch
    <2> QED
      BY <1>2, <2>2, NoRequest DEF IInv, DeleteBranch
  <1>3. ASSUME NEW t \in Requested, RunCheck(t) PROVE IInv'
    <2>1. runs + 1 \in Run /\ runs + 1 \in 0..MaxRuns
      BY <1>3, BoundAssumption DEF IInv, TypeOK, RunCheck, Run
    <2>2. [op |-> "pipeline", run |-> runs + 1, type |-> t] \in Message
      BY <2>1, RequestedAssumption DEF Message
    <2>3. TypeOK'
      BY <1>3, <2>1, <2>2 DEF IInv, TypeOK, RunCheck
    <2>4. Creation'
      BY <1>3 DEF IInv, Creation, RunCheck, None
    <2> QED
      BY <2>3, <2>4 DEF IInv
  <1>4. ASSUME NEW d \in data, NEW c \in d.checks, Decide(d, c) PROVE IInv'
    <2>1. d \in DataValidator /\ [c EXCEPT !.decided = TRUE] \in DataCheck
      BY DEF IInv, TypeOK, DataValidator, DataCheck
    <2>2. [d EXCEPT !.checks = (@ \ {c}) \cup {[c EXCEPT !.decided = TRUE]}] \in DataValidator
      <3> DEFINE x == [c EXCEPT !.decided = TRUE]
      <3> HIDE DEF x
      <3> QED
        BY <2>1 DEF DataValidator, x
    <2>4. decisions' \subseteq Path
      BY <1>4, <2>1 DEF IInv, TypeOK, Decide, DataValidator, DataCheck
    <2>3. TypeOK'
      BY <1>4, <2>2, <2>4 DEF IInv, TypeOK, Decide
    <2> QED
      BY <1>4, <2>3, NoRequest DEF IInv, Decide
  <1>5. ASSUME NEW q \in Request, BeginCreate(q) PROVE IInv'
    <2>1. q \in Slot /\ request' \in [Slot -> Update \cup {Idle, Create}]
      BY <1>5 DEF IInv, TypeOK, BeginCreate, Slot
    <2>2. \A o \in Slot : request'[o] = IF o = q THEN Create ELSE Idle
      BY <1>5 DEF IInv, TypeOK, BeginCreate
    <2>3. Idle # Create
      BY DEF Idle, Create, None
    <2>4. TypeOK'
      BY <1>5, <2>1 DEF IInv, TypeOK, BeginCreate
    <2>5. Creation'
      BY <1>5, <2>2, <2>3 DEF IInv, Creation, BeginCreate
    <2> QED
      BY <2>4, <2>5 DEF IInv
  <1>6. ASSUME NEW q \in Request, CommitCreate(q) PROVE IInv'
    <2>1. q \in Slot /\ request[q] = Create /\ state = None /\ runs = 0
      BY <1>6 DEF IInv, Creation, CommitCreate, Slot
    <2>2. runs + 1 \in Run /\ runs + 1 \in 0..MaxRuns
      BY <2>1, BoundAssumption DEF Run
    <2>3. [op |-> "pipeline", run |-> runs + 1, type |-> "all"] \in Message
      BY <2>2 DEF Message, CheckType
    <2>4. \A o \in Slot : request'[o] = Idle
      BY <1>6, <2>1 DEF IInv, TypeOK, Creation, CommitCreate
    <2>5. TypeOK'
      BY <1>6, <2>2, <2>3 DEF IInv, TypeOK, CommitCreate, ProposedChangeState
    <2>6. Creation'
      BY <1>6, <2>4 DEF Creation, CommitCreate, Idle, Create, None
    <2> QED
      BY <2>5, <2>6 DEF IInv
  <1>7. ASSUME NEW q \in Request, NEW to \in ProposedChangeState, BeginUpdate(q, to) PROVE IInv'
    <2>1. Creation' /\ request' \in [Slot -> Update \cup {Idle, Create}]
      BY <1>7, BegunStep DEF BeginUpdate, Slot
    <2>2. TypeOK'
      BY <1>7, <2>1 DEF IInv, TypeOK, BeginUpdate
    <2> QED
      BY <2>1, <2>2 DEF IInv
  <1>8. ASSUME NEW q \in Request, CommitMerge(q) PROVE IInv'
    <2>1. q \in Slot /\ request[q].to \in ProposedChangeState
      BY <1>8 DEF CommitMerge, ProposedChangeState, Slot
    <2>2. state' \in ProposedChangeState /\ conflict' \in Conflicts
      BY <1>8 DEF CommitMerge, ProposedChangeState, Conflicts, NoConflict
    <2>3. Creation' /\ request' \in [Slot -> Update \cup {Idle, Create}]
      BY <1>8, <2>1, <2>2, RequestKind, RequestStep DEF CommitMerge
    <2>4. TypeOK'
      BY <1>8, <2>2, <2>3 DEF IInv, TypeOK, CommitMerge
    <2> QED
      BY <2>3, <2>4 DEF IInv
  <1>9. ASSUME NEW q \in Request, CommitState(q) PROVE IInv'
    <2>1. q \in Slot /\ request[q].to \in ProposedChangeState
      BY <1>9 DEF CommitState, ProposedChangeState, Slot
    <2>2. Creation' /\ request' \in [Slot -> Update \cup {Idle, Create}]
      BY <1>9, <2>1, RequestKind, RequestStep DEF CommitState
    <2>3. TypeOK'
      BY <1>9, <2>1, <2>2 DEF IInv, TypeOK, CommitState
    <2> QED
      BY <2>2, <2>3 DEF IInv
  <1>10. ASSUME NEW q \in Request, Abort(q) PROVE IInv'
    <2>1. Creation' /\ request' \in [Slot -> Update \cup {Idle, Create}]
      BY <1>10, RequestStep DEF Abort, Slot
    <2>2. TypeOK'
      BY <1>10, <2>1 DEF IInv, TypeOK, Abort
    <2> QED
      BY <2>1, <2>2 DEF IInv
  <1>11. ASSUME NEW q \in Request, LookForConflicts(q) PROVE IInv'
    <2> DEFINE u == [request[q] EXCEPT !.looked = TRUE, !.found = conflict]
    <2>1. q \in Slot /\ request[q] \in Update /\ state # None
      BY <1>11, RequestKind DEF LookForConflicts, ProposedChangeState, Slot
    <2>2. u \in Update
      BY <2>1 DEF Update, IInv, TypeOK
    <2>3. request' = [request EXCEPT ![q] = u]
      BY <1>11 DEF LookForConflicts
    <2>4. state' \in ProposedChangeState
      BY <1>11, <2>1 DEF LookForConflicts, IInv, TypeOK
    <2> HIDE DEF u
    <2>5. Creation' /\ request' \in [Slot -> Update \cup {Idle, Create}]
      BY <1>11, <2>1, <2>2, <2>3, <2>4, RequestStep DEF LookForConflicts
    <2>6. TypeOK'
      BY <1>11, <2>5 DEF IInv, TypeOK, LookForConflicts
    <2> QED
      BY <2>5, <2>6 DEF IInv
  <1> QED
    BY <1>1, <1>2, <1>3, <1>4, <1>5, <1>6, <1>7, <1>8, <1>9, <1>10, <1>11 DEF User

LEMMA NextIInv == IInv /\ [Next]_vars => IInv'
  <1>1. ASSUME IInv, UNCHANGED vars PROVE IInv'
    BY <1>1 DEF vars, IInv, TypeOK, Creation
  <1> QED
    BY <1>1, HandlerIInv, UserIInv DEF Next

-----------------------------------------------------------------------------
(* The types of all that the pipeline and the mutations exchange; the        *)
(* pipeline that starts with the creation finds no earlier run.              *)
THEOREM TypeCorrect == Spec => []TypeOK
  <1>1. IInv => TypeOK
    BY DEF IInv
  <1> QED
    BY <1>1, InitIInv, NextIInv, PTL DEF Spec

(* A step that leaves the requests, or ends one, and leaves the checks.      *)
LEMMA DecisionsStay ==
  ASSUME IInv, Decisions, data' = data, decisions' = decisions,
         \A q \in Slot : request'[q] \in Update => request'[q] = request[q]
  PROVE  Decisions'
  BY DEF Decisions, AllChecks

(* An update that begins knows the decisions of the checks that it reads.    *)
LEMMA BegunDecisions ==
  ASSUME IInv, Decisions, NEW q \in Slot, NEW to \in ProposedChangeState, Begun(q, to),
         data' = data, decisions' = decisions
  PROVE  Decisions'
  <1>1. /\ request'[q].accepted = (to = "merged" /\ Accepts)
        /\ request'[q].resolved = IF to = "merged" THEN {c.path : c \in AllChecks} ELSE {}
        /\ request'[q].looked = FALSE
        /\ \A o \in Slot : o # q => request'[o] = request[o]
    BY DEF Begun, IInv, TypeOK
  <1>2. to = "merged" /\ Accepts => {c.path : c \in AllChecks} \subseteq decisions
    BY DEF Accepts, Decisions
  <1>3. AllChecks' = AllChecks
    BY DEF AllChecks
  <1> QED
    BY <1>1, <1>2, <1>3 DEF Decisions

(* Decisions are taken by users only; pipelines keep or drop them, requests   *)
(* pass them on.                                                             *)
LEMMA NextDecisions == IInv /\ Decisions /\ [Next]_vars => Decisions'
  <1> SUFFICES ASSUME IInv, Decisions, [Next]_vars PROVE Decisions'
    OBVIOUS
  <1>0. Idle \notin Update /\ Create \notin Update
    BY DEF Idle, Create, None, Update, ProposedChangeState
  <1>1. ASSUME NEW j \in jobs, RecordCommit(j) PROVE Decisions'
    <2> DEFINE old == {x \in data : x.by = j.target}
               previous == UNION {x.checks : x \in old}
               found == Recorded(previous, j.found, j.run)
               new == [by |-> j.target, checks |-> found,
                       conclusion |-> IF InConflict(j.found) = {} THEN "success" ELSE "failure"]
    <2>1. data' = (data \ old) \cup {new} /\ request' = request /\ decisions' = decisions
      BY <1>1 DEF RecordCommit
    <2>2. \A c \in found : c.decided => c \in AllChecks
      BY DEF Recorded, AllChecks
    <2>3. \A c \in AllChecks' : c \in found \/ c \in AllChecks
      <3> HIDE DEF found
      <3> QED
        BY <2>1 DEF AllChecks
    <2> QED
      BY <2>1, <2>2, <2>3 DEF Decisions
  <1>2. ASSUME NEW e \in data, NEW x \in e.checks, Decide(e, x) PROVE Decisions'
    <2> DEFINE y == [x EXCEPT !.decided = TRUE]
               new == [e EXCEPT !.checks = (@ \ {x}) \cup {y}]
    <2>1. data' = (data \ {e}) \cup {new} /\ request' = request
          /\ decisions' = decisions \cup {x.path}
      BY <1>2 DEF Decide
    <2>2. y.path = x.path
      BY DEF IInv, TypeOK, DataValidator, DataCheck
    <2> HIDE DEF y
    <2>3. new.checks = (e.checks \ {x}) \cup {y}
      BY DEF IInv, TypeOK, DataValidator
    <2> HIDE DEF new
    <2>4. \A c \in AllChecks' : c = y \/ c \in AllChecks
      BY <2>1, <2>3 DEF AllChecks
    <2> QED
      BY <2>1, <2>2, <2>4 DEF Decisions
  <1>3. ASSUME NEW q \in Request, LookForConflicts(q) PROVE Decisions'
    <2>1. q \in Slot /\ request[q] \in Update
      BY <1>3, RequestKind DEF LookForConflicts, ProposedChangeState, Slot
    <2>2. /\ request'[q].accepted = request[q].accepted
          /\ request'[q].resolved = request[q].resolved
          /\ request'[q].found = conflict
          /\ \A o \in Slot : o # q => request'[o] = request[o]
      BY <1>3, <2>1 DEF LookForConflicts, IInv, TypeOK, Update
    <2>3. InConflict(conflict) \subseteq decisions /\ request[q].resolved \subseteq decisions
      BY <1>3, <2>1 DEF LookForConflicts, Mergeable, Decisions
    <2>4. data' = data /\ decisions' = decisions /\ AllChecks' = AllChecks
      BY <1>3 DEF LookForConflicts, AllChecks
    <2> QED
      BY <2>2, <2>3, <2>4 DEF Decisions
  <1>4. ASSUME NEW q \in Request, NEW to \in ProposedChangeState, BeginUpdate(q, to) PROVE Decisions'
    BY <1>4, BegunDecisions DEF BeginUpdate, Slot
  <1>5. ASSUME NEW m \in messages, RequestCancel(m) PROVE Decisions'
    <2>1. CASE Begun(Worker, "canceled")
      BY <1>5, <2>1, BegunDecisions DEF RequestCancel, Slot, ProposedChangeState
    <2>2. CASE UNCHANGED request
      BY <1>5, <2>2, DecisionsStay DEF RequestCancel
    <2> QED
      BY <1>5, <2>1, <2>2 DEF RequestCancel
  <1>6. ASSUME NEW q \in Slot, NEW u \in {Idle, Create}, request' = [request EXCEPT ![q] = u],
               data' = data, decisions' = decisions
        PROVE  Decisions'
    <2>1. \A o \in Slot : request'[o] = IF o = q THEN u ELSE request[o]
      BY <1>6 DEF IInv, TypeOK
    <2> QED
      BY <1>6, <2>1, <1>0, DecisionsStay
  <1>7. ASSUME NEW q \in Slot, CommitState(q) \/ CommitMerge(q) \/ CommitCreate(q) \/ Abort(q) \/ BeginCreate(q)
        PROVE  Decisions'
    <2>1. \E u \in {Idle, Create} : request' = [request EXCEPT ![q] = u]
      BY <1>7 DEF CommitState, CommitMerge, CommitCreate, Abort, BeginCreate
    <2>2. data' = data /\ decisions' = decisions
      BY <1>7 DEF CommitState, CommitMerge, CommitCreate, Abort, BeginCreate
    <2> QED
      BY <2>1, <2>2, <1>6
  <1>8. ASSUME UNCHANGED <<data, decisions, request>> PROVE Decisions'
    BY <1>8, DecisionsStay
  <1>9. CASE Handler
    <2>1. ASSUME NEW m \in messages, Pipeline(m) \/ Fail(m) \/ DataIntegrity(m) \/ SchemaIntegrity(m)
                                     \/ StartChecks(m) \/ ListOpen(m)
          PROVE  Decisions'
      BY <2>1, <1>8 DEF Pipeline, Fail, DataIntegrity, SchemaIntegrity, StartChecks, ListOpen
    <2>2. ASSUME NEW j \in jobs, RecordBegin(j) \/ FinishChecks(j) \/ ListClosed(j) PROVE Decisions'
      BY <2>2, <1>8 DEF RecordBegin, FinishChecks, ListClosed
    <2> QED
      BY <1>9, <1>1, <1>5, <1>7, <2>1, <2>2 DEF Handler, Slot
  <1>10. CASE User
    <2>1. ASSUME Change \/ DeleteBranch \/ (\E t \in Requested : RunCheck(t)) PROVE Decisions'
      BY <2>1, <1>8 DEF Change, DeleteBranch, RunCheck
    <2> QED
      BY <1>10, <1>2, <1>3, <1>4, <1>7, <2>1 DEF User, Slot
  <1>11. CASE UNCHANGED vars
    BY <1>11, <1>8 DEF vars
  <1> QED
    BY <1>9, <1>10, <1>11 DEF Next

(* Of the conflicts that stand when a merge commits, those that it has found  *)
(* are on paths that users have decided, however many pipelines, requests and *)
(* changes of the branches come in between.                                   *)
THEOREM ConflictsDecidedAlways == Spec => ConflictsDecided
  <1>0. Init => Decisions
    BY DEF Init, Decisions, AllChecks, Idle, None, Update, ProposedChangeState
  <1>1. ASSUME IInv, Decisions, [Next]_vars, state # "merged", state' = "merged"
        PROVE  \E q \in Request :
                 /\ request[q] # request'[q]
                 /\ \A p \in InConflict(conflict) :
                      conflict[p] = request[q].found[p] => p \in decisions
    <2>1. ASSUME Handler PROVE FALSE
      BY <1>1, <2>1 DEF Handler, Pipeline, Fail, DataIntegrity, SchemaIntegrity, StartChecks,
                        ListOpen, ListClosed, RequestCancel, RecordBegin, RecordCommit, FinishChecks,
                        CommitState
    <2>2. CASE User
      <3>1. PICK q \in Request : CommitMerge(q)
        BY <1>1, <2>2 DEF User, Change, DeleteBranch, RunCheck, Decide, BeginCreate, CommitCreate,
                          BeginUpdate, LookForConflicts, CommitState, Abort
      <3>2. q \in Slot /\ request[q] \in Update
        BY <1>1, <3>1, RequestKind DEF CommitMerge, ProposedChangeState, Slot
      <3>3. request'[q] = Idle /\ Idle \notin Update
        BY <1>1, <3>1, <3>2 DEF CommitMerge, IInv, TypeOK, Idle, None, Update, ProposedChangeState
      <3>4. InConflict(request[q].found) \subseteq decisions
        BY <1>1, <3>1, <3>2 DEF CommitMerge, Decisions
      <3>5. \A p \in InConflict(conflict) : conflict[p] = request[q].found[p] => p \in decisions
        BY <3>4 DEF InConflict
      <3> QED
        BY <3>2, <3>3, <3>5
    <2> QED
      BY <1>1, <2>1, <2>2 DEF Next, vars
  <1> QED
    BY <1>0, <1>1, InitIInv, NextIInv, NextDecisions, PTL DEF Spec, ConflictsDecided

(* A decision disappears while its conflict remains only when a data          *)
(* integrity check records a diff in which the conflict looked different.    *)
DecisionStep ==
  \A c \in AllChecks : c.decided /\ conflict[c.path] = c.values =>
     \/ c \in AllChecks'
     \/ \E j \in jobs \ jobs' : j.op = "record" /\ j.found[c.path] # conflict[c.path]

LEMMA NextDecisionStep == IInv /\ [Next]_vars => DecisionStep
  <1> SUFFICES ASSUME IInv, [Next]_vars, NEW c \in AllChecks, c.decided,
                      conflict[c.path] = c.values
               PROVE  \/ c \in AllChecks'
                      \/ \E j \in jobs \ jobs' : j.op = "record" /\ j.found[c.path] # conflict[c.path]
    BY DEF DecisionStep
  <1>1. PICK d \in data : c \in d.checks
    BY DEF AllChecks
  <1>2. ASSUME data' = data PROVE c \in AllChecks'
    BY <1>2 DEF AllChecks
  <1>3. ASSUME NEW j \in jobs, RecordCommit(j)
        PROVE  \/ c \in AllChecks'
               \/ \E i \in jobs \ jobs' : i.op = "record" /\ i.found[c.path] # conflict[c.path]
    <2> DEFINE old == {x \in data : x.by = j.target}
               previous == UNION {x.checks : x \in old}
               found == Recorded(previous, j.found, j.run)
               new == [by |-> j.target, checks |-> found,
                       conclusion |-> IF InConflict(j.found) = {} THEN "success" ELSE "failure"]
    <2>1. data' = (data \ old) \cup {new} /\ jobs' = jobs \ {j} /\ j.op = "record"
      BY <1>3 DEF RecordCommit
    <2>2. CASE d \notin old
      BY <1>1, <2>1, <2>2 DEF AllChecks
    <2>3. CASE d \in old /\ j.found[c.path] = c.values
      <3>1. c \in found
        BY <1>1, <2>3 DEF Recorded
      <3>2. new \in data' /\ c \in new.checks
        BY <3>1, <2>1
      <3> QED
        BY <3>2 DEF AllChecks
    <2>4. CASE j.found[c.path] # c.values
      BY <2>1, <2>4
    <2> QED
      BY <2>2, <2>3, <2>4
  <1>4. ASSUME NEW e \in data, NEW x \in e.checks, Decide(e, x) PROVE c \in AllChecks'
    <2> DEFINE y == [x EXCEPT !.decided = TRUE]
               new == [e EXCEPT !.checks = (@ \ {x}) \cup {y}]
    <2>1. data' = (data \ {e}) \cup {new} /\ c # x
      BY <1>4 DEF Decide
    <2> HIDE DEF y
    <2>2. new.checks = (e.checks \ {x}) \cup {y}
      BY DEF IInv, TypeOK, DataValidator
    <2>3. CASE d = e
      BY <1>1, <2>1, <2>2, <2>3 DEF AllChecks
    <2>4. CASE d # e
      BY <1>1, <2>1, <2>4 DEF AllChecks
    <2> QED
      BY <2>3, <2>4
  <1>5. CASE Handler
    BY <1>2, <1>3, <1>5 DEF Handler, Pipeline, Fail, DataIntegrity, SchemaIntegrity, StartChecks,
                      ListOpen, ListClosed, RequestCancel, RecordBegin, FinishChecks, CommitState
  <1>6. CASE User
    BY <1>2, <1>4, <1>6 DEF User, Change, DeleteBranch, RunCheck, BeginCreate, CommitCreate,
                      BeginUpdate, LookForConflicts, CommitMerge, CommitState, Abort
  <1>7. CASE UNCHANGED vars
    BY <1>2, <1>7 DEF vars
  <1> QED
    BY <1>5, <1>6, <1>7 DEF Next

(* No decision is lost on a conflict that is still there, whatever pipelines, *)
(* changes of the branches and mutations run together, except to a data       *)
(* integrity check whose diff is out of date.                                 *)
THEOREM DecisionKeptAlways == Spec => DecisionKept
  <1>1. IInv /\ [Next]_vars => DecisionStep
    BY NextDecisionStep
  <1>2. Spec => [][DecisionStep]_vars
    BY <1>1, InitIInv, NextIInv, PTL DEF Spec
  <1>3. DecisionStep <=> \A c \in AllChecks : c.decided /\ conflict[c.path] = c.values =>
                           \/ c \in AllChecks'
                           \/ \E j \in jobs \ jobs' : j.op = "record" /\ j.found[c.path] # conflict[c.path]
    BY DEF DecisionStep
  <1> QED
    BY <1>2, <1>3, PTL DEF DecisionKept
=============================================================================
