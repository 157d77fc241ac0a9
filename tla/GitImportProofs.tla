-------------------------- MODULE GitImportProofs ---------------------------
(***************************************************************************)
(* Proofs about GitImport, for any names, refs, files and bounds: its      *)
(* types, that no generator is ever without the query it must have, and    *)
(* that an import that comes to its end has brought every kind in line     *)
(* with the files.  The second half is about Artifacts: an instance for    *)
(* each target, made again when it is out of date, ready when it was made. *)
(***************************************************************************)
EXTENDS GitImport, Artifacts, TLAPS

Operation == [at : {"kind", "apply", "sync", "commit"}, msg : Message,
              target : Commit, pass : {1, 2}, kind : 1 .. Len(Order) + 1,
              create : SUBSET Name, update : SUBSET Name, delete : SUBSET Name,
              refused : BOOLEAN]

(* Whether the importer of kind k leaves at once, and what it deletes: the   *)
(* first depends on the files only, the second on the objects o of kind k.   *)
Skip(k, c) ==
  \/ k = "query" /\ Local(k, c) = {}
  \/ k # "query" /\ ~ get_repository_config(c)
  \/ k = "schema" /\ \E n \in Name : <<"schema", n>> \in Files[c].broken

Unwanted(o, k, c) ==
  IF k \in {"schema", "artifact"} THEN {} ELSE Names(o[k]) \ Local(k, c)

(* The graph agrees with the files on the definition n, on all fields that   *)
(* are both compared and updated.                                            *)
Agrees(o, k, n, c) ==
  \A f \in Compared[k] \cap Updated[k] : f \in o[k][n] <=> f \in Files[c].defs[k][n]

KindMatches(o, k, c) ==
  \/ Skip(k, c)
  \/ /\ Local(k, c) \subseteq Names(o[k])
     /\ Unwanted(o, k, c) = {}
     /\ \A n \in Local(k, c) : Agrees(o, k, n, c)

(* While the objects of a kind are applied, what is left to do covers every  *)
(* difference between the graph and the files, and nothing that is to be     *)
(* deleted is wanted.                                                        *)
Covers(o, k, p) ==
  /\ p.create \subseteq Local(k, p.target)
  /\ p.update \subseteq Local(k, p.target) \cap Names(o[k])
  /\ p.delete \cap Local(k, p.target) = {}
  /\ Local(k, p.target) \ p.create \subseteq Names(o[k])
  /\ Unwanted(o, k, p.target) \subseteq p.delete
  /\ \A n \in Local(k, p.target) \ (p.create \cup p.update) : Agrees(o, k, n, p.target)

Remaining ==
  op.at = "apply" => op.kind <= 7 /\ Covers(objects, Order[op.kind], op)

(* The kinds before the current one are done, and stay so; a schema also if  *)
(* the server has refused it.                                                *)
KindDone(o, k, p) == (p.refused /\ k = "schema") \/ KindMatches(o, k, p.target)

Done ==
  /\ op.at \in {"kind", "apply"} =>
       \A i \in 1 .. 7 : i < op.kind => KindDone(objects, Order[i], op)
  /\ op.at \in {"sync", "commit"} => \A k \in Kind : KindDone(objects, k, op)

IInv == TypeOK /\ QueryKept /\ Remaining /\ Done

-----------------------------------------------------------------------------
(* The order of the kinds names each of them once. *)
LEMMA KindFacts ==
  /\ Len(Order) = 7
  /\ Kind = {"schema", "query", "check", "transform", "generator", "jinja2", "artifact"}
  /\ \A i \in 1 .. 7 : Order[i] \in Kind
  /\ \A i, j \in 1 .. 7 : Order[i] = Order[j] => i = j
  /\ \A k \in Kind : \E i \in 1 .. 7 : k = Order[i]
  <1>1. /\ Len(Order) = 7 /\ DOMAIN Order = 1 .. 7
        /\ Order[1] = "schema" /\ Order[2] = "query" /\ Order[3] = "check" /\ Order[4] = "transform"
        /\ Order[5] = "generator" /\ Order[6] = "jinja2" /\ Order[7] = "artifact"
    BY DEF Order
  <1>2. \A i \in 1 .. 7 : i = 1 \/ i = 2 \/ i = 3 \/ i = 4 \/ i = 5 \/ i = 6 \/ i = 7
    OBVIOUS
  <1>3. Kind = {"schema", "query", "check", "transform", "generator", "jinja2", "artifact"}
    BY <1>1, <1>2 DEF Kind
  <1>4. \A k \in Kind : \E i \in 1 .. 7 : k = Order[i]
    BY <1>1 DEF Kind
  <1>5. \A i \in 1 .. 7 : Order[i] \in Kind
    BY <1>1 DEF Kind
  <1>6. \A i, j \in 1 .. 7 : Order[i] = Order[j] => i = j
    BY <1>1, <1>2
  <1> QED
    BY <1>1, <1>3, <1>4, <1>5, <1>6

(* What the importer of each kind does, in one form. *)
LEMMA ImporterFacts ==
  ASSUME NEW k \in Kind, NEW c
  PROVE  /\ ImporterOf(k, c).local = Local(k, c)
         /\ ImporterOf(k, c).skip <=> Skip(k, c)
         /\ ImporterOf(k, c).delete = Unwanted(objects, k, c)
  <1> USE DEF ImporterOf, Importer, Skip, Unwanted
  <1>1. CASE k = "schema"
    BY <1>1 DEF import_schema_files
  <1>2. CASE k = "query"
    BY <1>2 DEF import_all_graphql_query
  <1>3. CASE k = "check"
    BY <1>3 DEF import_python_check_definitions
  <1>4. CASE k = "transform"
    BY <1>4 DEF import_python_transforms
  <1>5. CASE k = "generator"
    BY <1>5 DEF import_generator_definitions
  <1>6. CASE k = "jinja2"
    BY <1>6 DEF import_jinja2_transforms
  <1>7. CASE k = "artifact"
    BY <1>7 DEF import_artifact_definitions
  <1> QED
    BY <1>1, <1>2, <1>3, <1>4, <1>5, <1>6, <1>7, KindFacts

(* The files mention a name only with its fields. *)
LEMMA LocalFacts ==
  ASSUME NEW k \in Kind, NEW c \in Commit, NEW n \in Local(k, c)
  PROVE  n \in Name /\ Files[c].defs[k][n] \in SUBSET Field /\ Files[c].defs[k][n] # Absent
  <1>1. n \in Name /\ Files[c].defs[k][n] # Absent
    BY DEF Local, Names
  <1>2. Files[c].defs[k] \in Definition
    BY FilesAssumption
  <1> QED
    BY <1>1, <1>2 DEF Definition

LEMMA NoFieldAbsent == \A F \in SUBSET Field : F # Absent
  BY DEF Field, Absent

-----------------------------------------------------------------------------
(* Types of what the handlers make. *)
LEMMA ImportingType ==
  ASSUME NEW m \in Message, NEW c \in Commit, NEW p \in {1, 2}
  PROVE  Importing(m, c, p) \in Operation /\ Importing(m, c, p).at = "kind"
         /\ Importing(m, c, p).kind = 1
  BY KindFacts DEF Importing, Operation

LEMMA RaiseType ==
  ASSUME messages \subseteq Message, NEW m \in Message, Raise(m)
  PROVE  op' = Idle /\ messages' \subseteq Message
  <1>1. \A x \in Message : x.tries < MaxTries => [x EXCEPT !.tries = @ + 1] \in Message
    BY BoundAssumption DEF Message
  <1>2. Retried({m}) \subseteq Message
    BY <1>1 DEF Retried
  <1> QED
    BY <1>2 DEF Raise

LEMMA ChosenType ==
  ASSUME TypeOK, NEW m \in Message
  PROVE  Chosen(m) \in Commit /\ m.ref \in Ref
  BY DEF TypeOK, Message, Chosen

LEMMA OperationType ==
  ASSUME TypeOK, op # Idle
  PROVE  op \in Operation /\ op.msg \in Message /\ op.target \in Commit
  BY DEF TypeOK, Operation

(* The parts of IInv that are not about types, when no object is changed and *)
(* no kind is begun or ended.                                                *)
LEMMA SameObjects ==
  ASSUME IInv, objects' = objects,
         op' = op \/ op' = Idle \/ \E m \in Message, c \in Commit, p \in {1, 2} : op' = Importing(m, c, p)
  PROVE  QueryKept' /\ Remaining' /\ Done'
  <1>1. QueryKept'
    BY DEF IInv, QueryKept
  <1>2. CASE op' = op
    BY <1>1, <1>2 DEF IInv, Remaining, Done
  <1>3. CASE op' = Idle
    BY <1>1, <1>3 DEF Remaining, Done, Idle
  <1>4. CASE \E m \in Message, c \in Commit, p \in {1, 2} : op' = Importing(m, c, p)
    <2>1. op'.at = "kind" /\ op'.kind = 1
      BY <1>4, ImportingType
    <2> QED
      BY <1>1, <2>1 DEF Remaining, Done
  <1> QED
    BY <1>2, <1>3, <1>4

LEMMA InitIInv == Init => IInv
  <1> SUFFICES ASSUME Init PROVE IInv
    OBVIOUS
  <1>1. op.at = "idle" /\ op = Idle
    BY DEF Init, Idle
  <1>2. objects \in [Kind -> Definition]
    BY DEF Init, Nothing, Definition
  <1>3. messages \subseteq Message /\ ref \in Ref
    BY BoundAssumption DEF Init, Message
  <1>4. TypeOK
    BY <1>1, <1>2, <1>3 DEF Init, TypeOK
  <1>5. QueryKept
    BY KindFacts DEF Init, QueryKept, Nothing, UsesQuery
  <1> QED
    BY <1>1, <1>4, <1>5 DEF IInv, Remaining, Done

-----------------------------------------------------------------------------
(* One importer compares. *)
LEMMA CompareKindIInv ==
  ASSUME IInv, CompareKind
  PROVE  IInv'
  <1> DEFINE k == CurrentKind
             c == op.target
             i == ImporterOf(k, c)
  <1>1. /\ op.at = "kind" /\ op # Idle /\ op \in Operation /\ op.msg \in Message /\ c \in Commit
        /\ op.kind \in 1 .. 7 /\ k \in Kind /\ k = Order[op.kind]
    BY OperationType, KindFacts DEF CompareKind, IInv, Idle, Operation, CurrentKind
  <1>2. /\ i.local = Local(k, c) /\ (i.skip <=> Skip(k, c)) /\ i.delete = Unwanted(objects, k, c)
    BY <1>1, ImporterFacts
  <1>3. Local(k, c) \subseteq Name /\ Unwanted(objects, k, c) \subseteq Name
    BY DEF Local, Unwanted, Names
  <1>4. /\ objects' = objects
        /\ UNCHANGED <<Git, cloned, local, fetched, ref, commit, grouped, requests, failures>>
    BY DEF CompareKind
  <1>5. CASE i.skip /\ op' = [op EXCEPT !.kind = @ + 1] /\ UNCHANGED messages
    <2>1. /\ op' \in Operation /\ op'.at = "kind" /\ op'.kind = op.kind + 1 /\ op'.target = c
          /\ op'.refused = op.refused
      BY <1>1, <1>5, KindFacts DEF Operation
    <2>2. TypeOK'
      BY <2>1, <1>4, <1>5 DEF IInv, TypeOK, Git, Operation
    <2>3. KindMatches(objects, k, c)
      BY <1>2, <1>5 DEF KindMatches
    <2>4. Done'
      BY <2>1, <2>3, <1>1, <1>4 DEF IInv, Done, KindDone
    <2> QED
      BY <2>1, <2>2, <2>4, <1>4 DEF IInv, Remaining, QueryKept
  <1>6. CASE Raise(op.msg)
    <2>1. op' = Idle /\ messages' \subseteq Message
      BY <1>1, <1>6, RaiseType DEF IInv, TypeOK
    <2>2. TypeOK'
      BY <2>1, <1>4 DEF IInv, TypeOK, Git
    <2> QED
      BY <2>1, <2>2, <1>4, SameObjects DEF IInv
  <1>7. CASE /\ op' = [op EXCEPT !.at = "apply", !.create = i.local \ Names(objects[k]),
                         !.update = {n \in i.local \cap Names(objects[k]) : Stale(k, n, c)},
                         !.delete = i.delete]
             /\ UNCHANGED messages
    <2> DEFINE cr == Local(k, c) \ Names(objects[k])
               up == {n \in Local(k, c) \cap Names(objects[k]) : Stale(k, n, c)}
    <2>1. op' = [op EXCEPT !.at = "apply", !.create = cr, !.update = up,
                   !.delete = Unwanted(objects, k, c)]
      BY <1>7, <1>2
    <2>2. cr \in SUBSET Name /\ up \in SUBSET Name /\ Unwanted(objects, k, c) \in SUBSET Name
      BY <1>3
    <2> HIDE DEF k, c
    <2>3. /\ op' \in Operation /\ op'.at = "apply" /\ op'.kind = op.kind /\ op'.target = op.target /\ op'.refused = op.refused
          /\ op'.create = cr /\ op'.update = up /\ op'.delete = Unwanted(objects, k, c)
      <3> HIDE DEF cr, up
      <3> QED
        BY <2>1, <2>2, <1>1 DEF Operation
    <2>4. TypeOK'
      BY <2>3, <1>4, <1>7 DEF IInv, TypeOK, Git, Operation
    <2>5. \A n \in Local(k, c) \ (cr \cup up) : Agrees(objects, k, n, c)
      BY DEF Stale, Agrees
    <2>6. Covers(objects, k, op')
      <3>1. Unwanted(objects, k, c) \cap Local(k, c) = {}
        BY DEF Unwanted
      <3> QED
        BY <2>3, <2>5, <3>1 DEF Covers, c
    <2>7. Remaining'
      BY <2>3, <2>6, <1>1, <1>4 DEF Remaining
    <2>8. Done'
      BY <2>3, <1>1, <1>4 DEF IInv, Done, KindDone
    <2> QED
      BY <2>4, <2>7, <2>8, <1>4 DEF IInv, QueryKept
  <1> QED
    BY <1>5, <1>6, <1>7 DEF CompareKind

-----------------------------------------------------------------------------
(* One object of the current kind is written, with what is left to do of     *)
(* that kind: the kinds that are done stay done.                             *)
LEMMA WriteObject ==
  ASSUME IInv, op.at = "apply", NEW n \in Name, NEW v \in (SUBSET Field) \cup {Absent},
         objects' = [objects EXCEPT ![CurrentKind][n] = v],
         op' \in Operation, op'.at = "apply", op'.kind = op.kind, op'.target = op.target /\ op'.refused = op.refused
  PROVE  /\ objects' \in [Kind -> Definition]
         /\ objects'[CurrentKind][n] = v
         /\ \A k \in Kind, x \in Name : k # CurrentKind \/ x # n => objects'[k][x] = objects[k][x]
         /\ Done'
  <1> DEFINE k == CurrentKind
  <1>1. k \in Kind /\ op.kind \in 1 .. 7 /\ k = Order[op.kind]
    BY KindFacts, OperationType DEF IInv, Remaining, CurrentKind, Idle, Operation
  <1>2. objects \in [Kind -> Definition]
    BY DEF IInv, TypeOK
  <1> HIDE DEF k
  <1>3. objects' = [objects EXCEPT ![k][n] = v]
    BY DEF k
  <1>4. [objects[k] EXCEPT ![n] = v] \in Definition
    BY <1>1, <1>2 DEF Definition
  <1>5. objects' \in [Kind -> Definition] /\ \A j \in Kind : j # k => objects'[j] = objects[j]
    BY <1>1, <1>2, <1>3, <1>4
  <1>6. \A x \in Name : objects'[k][x] = IF x = n THEN v ELSE objects[k][x]
    BY <1>1, <1>2, <1>3 DEF Definition
  <1>7. \A i \in 1 .. 7 : i < op.kind => Order[i] \in Kind /\ Order[i] # k
    BY <1>1, KindFacts
  <1>8. \A i \in 1 .. 7 : i < op.kind => KindDone(objects', Order[i], op)
    <2> SUFFICES ASSUME NEW i \in 1 .. 7, i < op.kind
                 PROVE  KindDone(objects', Order[i], op)
      OBVIOUS
    <2>1. objects'[Order[i]] = objects[Order[i]]
      BY <1>5, <1>7
    <2>2. KindDone(objects, Order[i], op)
      BY DEF IInv, Done
    <2> QED
      BY <2>1, <2>2 DEF KindDone, KindMatches, Unwanted, Agrees
  <1>9. Done'
    BY <1>8 DEF Done, KindDone
  <1> QED
    BY <1>5, <1>6, <1>9 DEF k

(* An object is deleted: those of later kinds that refer to it are marked. *)
LEMMA DeleteObject ==
  ASSUME IInv, op.at = "apply", NEW n \in Name, objects' = AfterDelete(CurrentKind, n),
         op' \in Operation, op'.at = "apply", op'.kind = op.kind, op'.target = op.target /\ op'.refused = op.refused
  PROVE  /\ objects' \in [Kind -> Definition]
         /\ objects'[CurrentKind][n] = Absent
         /\ \A x \in Name : x # n => objects'[CurrentKind][x] = objects[CurrentKind][x]
         /\ \A k \in Kind, x \in Name :
               k # CurrentKind => (objects'[k][x] = Absent <=> objects[k][x] = Absent)
         /\ Done'
  <1> DEFINE k == CurrentKind
  <1>1. k \in Kind /\ op.kind \in 1 .. 7 /\ k = Order[op.kind]
    BY KindFacts, OperationType DEF IInv, Remaining, CurrentKind, Idle, Operation
  <1>2. objects \in [Kind -> Definition]
    BY DEF IInv, TypeOK
  <1> HIDE DEF k
  <1>3. objects' = AfterDelete(k, n)
    BY DEF k
  <1>4. /\ objects'[k] = [objects[k] EXCEPT ![n] = Absent]
        /\ \A j \in Kind : j # k /\ j \in Referring(k) /\ n \in Names(objects[j]) =>
             objects'[j] = [objects[j] EXCEPT ![n] = @ \cup {"lost_peer"}]
        /\ \A j \in Kind : j # k /\ ~ (j \in Referring(k) /\ n \in Names(objects[j])) =>
             objects'[j] = objects[j]
    BY <1>1, <1>3 DEF AfterDelete
  <1>5. \A j \in Kind : objects[j] \in Definition
    BY <1>2
  <1>6. \A F \in SUBSET Field : F \cup {"lost_peer"} \in SUBSET Field
    BY DEF Field
  <1>7. \A j \in Kind :
          /\ objects'[j] \in Definition
          /\ j # k => \A x \in Name : objects'[j][x] = Absent <=> objects[j][x] = Absent
    <2> SUFFICES ASSUME NEW j \in Kind
                 PROVE  /\ objects'[j] \in Definition
                        /\ j # k => \A x \in Name : objects'[j][x] = Absent <=> objects[j][x] = Absent
      OBVIOUS
    <2>1. CASE j = k
      BY <2>1, <1>4, <1>5 DEF Definition
    <2>2. CASE j # k /\ j \in Referring(k) /\ n \in Names(objects[j])
      <3>1. objects[j][n] \in SUBSET Field /\ objects[j][n] # Absent
        BY <2>2, <1>5 DEF Names, Definition
      <3>2. objects[j][n] \cup {"lost_peer"} \in SUBSET Field
        BY <3>1, <1>6
      <3>3. objects[j][n] \cup {"lost_peer"} # Absent
        BY <3>2, NoFieldAbsent
      <3>4. objects'[j] = [objects[j] EXCEPT ![n] = objects[j][n] \cup {"lost_peer"}]
        BY <2>2, <1>4
      <3> QED
        BY <3>1, <3>2, <3>3, <3>4, <1>5 DEF Definition
    <2>3. CASE j # k /\ ~ (j \in Referring(k) /\ n \in Names(objects[j]))
      BY <2>3, <1>4, <1>5
    <2> QED
      BY <2>1, <2>2, <2>3
  <1>8. objects' \in [Kind -> Definition]
    <2> DEFINE F(j) == IF j = k THEN [objects[k] EXCEPT ![n] = Absent]
                       ELSE IF j \in Referring(k) /\ n \in Names(objects[j])
                            THEN [objects[j] EXCEPT ![n] = @ \cup {"lost_peer"}] ELSE objects[j]
    <2>0. objects' = [j \in Kind |-> F(j)]
      BY <1>3 DEF AfterDelete
    <2> HIDE DEF F
    <2> QED
      BY <2>0, <1>7
  <1>9. \A x \in Name : objects'[k][x] = IF x = n THEN Absent ELSE objects[k][x]
    BY <1>1, <1>4, <1>5 DEF Definition
  <1>11. \A i \in 1 .. 7 : i < op.kind => Order[i] \in Kind /\ Order[i] # k /\ Order[i] \notin Referring(k)
    <2>1. /\ Order[1] = "schema" /\ Order[2] = "query" /\ Order[3] = "check" /\ Order[4] = "transform"
          /\ Order[5] = "generator" /\ Order[6] = "jinja2" /\ Order[7] = "artifact"
      BY DEF Order
    <2>2. \A i \in 1 .. 7 : i = 1 \/ i = 2 \/ i = 3 \/ i = 4 \/ i = 5 \/ i = 6 \/ i = 7
      OBVIOUS
    <2> SUFFICES ASSUME NEW i \in 1 .. 7, i < op.kind
                 PROVE  Order[i] \in Kind /\ Order[i] # k /\ Order[i] \notin Referring(k)
      OBVIOUS
    <2>3. Order[i] \in Kind /\ Order[i] # k
      BY <1>1, KindFacts
    <2>4. CASE k = "query"
      <3>1. op.kind = 2
        BY <2>1, <2>2, <2>4, <1>1
      <3>2. i = 1
        BY <3>1
      <3> QED
        BY <3>2, <2>1, <2>3, <2>4 DEF Referring
    <2>5. CASE k # "query"
      <3>1. Order[i] # "artifact"
        <4>1. i # 7
          BY <1>1
        <4> QED
          BY <4>1, <2>1, <2>2
      <3> QED
        BY <3>1, <2>3, <2>5 DEF Referring
    <2> QED
      BY <2>4, <2>5
  <1>12. \A i \in 1 .. 7 : i < op.kind => KindDone(objects', Order[i], op)
    <2> SUFFICES ASSUME NEW i \in 1 .. 7, i < op.kind
                 PROVE  KindDone(objects', Order[i], op)
      OBVIOUS
    <2>2. objects'[Order[i]] = objects[Order[i]]
      BY <1>4, <1>11
    <2>3. KindDone(objects, Order[i], op)
      BY DEF IInv, Done
    <2> QED
      BY <2>2, <2>3 DEF KindDone, KindMatches, Unwanted, Agrees
  <1>13. Done'
    BY <1>12 DEF Done, KindDone
  <1> QED
    BY <1>1, <1>7, <1>8, <1>9, <1>13 DEF k

(* The fields of an object after an update. *)
LEMMA AfterUpdateFacts ==
  ASSUME IInv, NEW k \in Kind, NEW c \in Commit, NEW n \in Local(k, c), n \in Names(objects[k])
  PROVE  /\ AfterUpdate(k, n, c) \in SUBSET Field
         /\ \A f \in Compared[k] \cap Updated[k] :
              f \in AfterUpdate(k, n, c) <=> f \in Files[c].defs[k][n]
  <1>1. Files[c].defs[k][n] \in SUBSET Field
    BY LocalFacts
  <1>2. objects[k][n] \in SUBSET Field
    BY DEF IInv, TypeOK, Names, Definition
  <1> QED
    BY <1>1, <1>2 DEF AfterUpdate

LEMMA ResolvedFacts ==
  ASSUME NEW k \in UsesQuery, NEW n, Resolved(k, n)
  PROVE  objects["query"][n] # Absent
  BY DEF Resolved, UsesQuery, create_generator_definition

(* One object is created, updated or deleted. *)
LEMMA ApplyObjectIInv ==
  ASSUME IInv, ApplyObject
  PROVE  IInv'
  <1> DEFINE k == CurrentKind
             c == op.target
  <1>1. /\ op.at = "apply" /\ op # Idle /\ op \in Operation /\ op.msg \in Message /\ c \in Commit
        /\ op.kind \in 1 .. 7 /\ k \in Kind /\ k = Order[op.kind]
        /\ op.create \in SUBSET Name /\ op.update \in SUBSET Name /\ op.delete \in SUBSET Name
    <2>1. op.at = "apply"
      BY DEF ApplyObject
    <2> QED
      BY <2>1, OperationType, KindFacts DEF IInv, Remaining, Idle, Operation, CurrentKind
  <1>2. UNCHANGED <<Git, cloned, local, fetched, ref, commit, grouped, requests, failures>>
    BY DEF ApplyObject
  <1>3. Covers(objects, k, op)
    BY <1>1 DEF IInv, Remaining
  <1>4. "query" \in Kind /\ UsesQuery \subseteq Kind /\ "query" \notin UsesQuery
    BY KindFacts DEF UsesQuery
  <1>5. ASSUME Raise(op.msg), UNCHANGED objects
        PROVE  IInv'
    <2>1. op' = Idle /\ messages' \subseteq Message
      BY <1>1, <1>5, RaiseType DEF IInv, TypeOK
    <2>2. TypeOK'
      BY <2>1, <1>2, <1>5 DEF IInv, TypeOK, Git
    <2> QED
      BY <2>1, <2>2, <1>5, SameObjects DEF IInv
  <1> HIDE DEF k, c
  <1>6. ASSUME NEW n \in op.create, Resolved(k, n),
               objects' = [objects EXCEPT ![k][n] = Files[c].defs[k][n]],
               op' = [op EXCEPT !.create = @ \ {n}], UNCHANGED messages
        PROVE  IInv'
    <2>1. /\ op' \in Operation /\ op'.at = "apply" /\ op'.kind = op.kind /\ op'.target = op.target /\ op'.refused = op.refused
          /\ op'.create = op.create \ {n} /\ op'.update = op.update /\ op'.delete = op.delete
      BY <1>1, <1>6 DEF Operation
    <2>2. n \in Local(k, c)
      BY <1>3, <1>6 DEF Covers, c
    <2>3. n \in Name /\ Files[c].defs[k][n] \in SUBSET Field /\ Files[c].defs[k][n] # Absent
      BY <2>2, <1>1, LocalFacts
    <2>4. /\ objects' \in [Kind -> Definition] /\ Done'
          /\ objects'[k][n] = Files[c].defs[k][n]
          /\ \A j \in Kind, x \in Name : j # k \/ x # n => objects'[j][x] = objects[j][x]
      <3> DEFINE v == Files[c].defs[k][n]
      <3>1. v \in (SUBSET Field) \cup {Absent} /\ objects' = [objects EXCEPT ![CurrentKind][n] = v]
        BY <2>3, <1>6 DEF k
      <3> HIDE DEF v
      <3>2. /\ objects' \in [Kind -> Definition] /\ Done' /\ objects'[k][n] = v
            /\ \A j \in Kind, x \in Name : j # k \/ x # n => objects'[j][x] = objects[j][x]
        BY <3>1, <2>1, <2>3, <1>1, WriteObject DEF k
      <3> QED
        BY <3>2 DEF v
    <2>5. TypeOK'
      BY <2>1, <2>4, <1>2, <1>6 DEF IInv, TypeOK, Git, Operation
    <2>6. QueryKept'
      <3> SUFFICES ASSUME NEW j \in UsesQuery, NEW x \in Name, objects'[j][x] # Absent
                   PROVE  objects'["query"][x] # Absent
        BY DEF QueryKept
      <3>1. CASE j = k /\ x = n
        BY <3>1, <2>4, <1>4, <1>6, ResolvedFacts
      <3>2. CASE ~ (j = k /\ x = n)
        BY <3>2, <2>3, <2>4, <1>4 DEF IInv, QueryKept
      <3> QED
        BY <3>1, <3>2
    <2>7. Covers(objects', k, op')
      <3>1. Names(objects'[k]) = Names(objects[k]) \cup {n}
        BY <2>3, <2>4, <1>1 DEF Names
      <3>2. Unwanted(objects', k, c) = Unwanted(objects, k, c)
        BY <3>1, <2>2 DEF Unwanted
      <3>3. \A x \in Local(k, c) \ (op'.create \cup op'.update) : Agrees(objects', k, x, c)
        BY <2>1, <2>3, <2>4, <1>1, <1>3, LocalFacts DEF Covers, Agrees, c
      <3> QED
        BY <3>1, <3>2, <3>3, <2>1, <1>3 DEF Covers, c
    <2> QED
      BY <2>1, <2>4, <2>5, <2>6, <2>7, <1>1 DEF IInv, Remaining
  <1>7. ASSUME NEW n \in op.update,
               objects' = [objects EXCEPT ![k][n] = AfterUpdate(k, n, c)],
               op' = [op EXCEPT !.update = @ \ {n}], UNCHANGED messages
        PROVE  IInv'
    <2>1. /\ op' \in Operation /\ op'.at = "apply" /\ op'.kind = op.kind /\ op'.target = op.target /\ op'.refused = op.refused
          /\ op'.create = op.create /\ op'.update = op.update \ {n} /\ op'.delete = op.delete
      BY <1>1, <1>7 DEF Operation
    <2>2. n \in Local(k, c) /\ n \in Names(objects[k]) /\ n \in Name
      BY <1>1, <1>3, <1>7 DEF Covers, c
    <2>3. /\ AfterUpdate(k, n, c) \in SUBSET Field /\ AfterUpdate(k, n, c) # Absent
          /\ \A f \in Compared[k] \cap Updated[k] :
               f \in AfterUpdate(k, n, c) <=> f \in Files[c].defs[k][n]
      BY <2>2, <1>1, AfterUpdateFacts, NoFieldAbsent
    <2>4. /\ objects' \in [Kind -> Definition] /\ Done'
          /\ objects'[k][n] = AfterUpdate(k, n, c)
          /\ \A j \in Kind, x \in Name : j # k \/ x # n => objects'[j][x] = objects[j][x]
      BY <2>1, <2>2, <2>3, <1>1, <1>7, WriteObject DEF k
    <2>5. TypeOK'
      BY <2>1, <2>4, <1>2, <1>7 DEF IInv, TypeOK, Git, Operation
    <2>6. Names(objects'[k]) = Names(objects[k])
      BY <2>2, <2>3, <2>4, <1>1 DEF Names
    <2>7. QueryKept'
      <3> SUFFICES ASSUME NEW j \in UsesQuery, NEW x \in Name, objects'[j][x] # Absent
                   PROVE  objects'["query"][x] # Absent
        BY DEF QueryKept
      <3>1. objects[j][x] # Absent
        BY <2>2, <2>4, <1>1, <1>4 DEF Names
      <3>2. objects["query"][x] # Absent
        BY <3>1 DEF IInv, QueryKept
      <3> QED
        BY <3>2, <2>3, <2>4, <1>4
    <2>8. Covers(objects', k, op')
      <3>1. Unwanted(objects', k, c) = Unwanted(objects, k, c)
        BY <2>6 DEF Unwanted
      <3>2. \A x \in Local(k, c) \ (op'.create \cup op'.update) : Agrees(objects', k, x, c)
        BY <2>1, <2>2, <2>3, <2>4, <1>1, <1>3, LocalFacts DEF Covers, Agrees, c
      <3> QED
        BY <3>1, <3>2, <2>1, <2>6, <1>3 DEF Covers, c
    <2> QED
      BY <2>1, <2>4, <2>5, <2>7, <2>8, <1>1 DEF IInv, Remaining
  <1>8. ASSUME op.create = {}, op.update = {}, NEW n \in op.delete, ~ InUse(k, n),
               objects' = AfterDelete(k, n),
               op' = [op EXCEPT !.delete = @ \ {n}], UNCHANGED messages
        PROVE  IInv'
    <2>1. /\ op' \in Operation /\ op'.at = "apply" /\ op'.kind = op.kind /\ op'.target = op.target /\ op'.refused = op.refused
          /\ op'.create = {} /\ op'.update = {} /\ op'.delete = op.delete \ {n}
      BY <1>1, <1>8 DEF Operation
    <2>2. n \in Name /\ n \notin Local(k, c)
      BY <1>1, <1>3, <1>8 DEF Covers, c
    <2>3. /\ objects' \in [Kind -> Definition] /\ Done'
          /\ objects'[k][n] = Absent
          /\ \A x \in Name : x # n => objects'[k][x] = objects[k][x]
          /\ \A j \in Kind, x \in Name : j # k => (objects'[j][x] = Absent <=> objects[j][x] = Absent)
      BY <2>1, <2>2, <1>1, <1>8, DeleteObject DEF k
    <2>4. TypeOK'
      BY <2>1, <2>3, <1>2, <1>8 DEF IInv, TypeOK, Git, Operation
    <2>5. QueryKept'
      <3> SUFFICES ASSUME NEW j \in UsesQuery, NEW x \in Name, objects'[j][x] # Absent
                   PROVE  objects'["query"][x] # Absent
        BY DEF QueryKept
      <3>1. objects[j][x] # Absent
        BY <2>3, <1>1, <1>4
      <3>2. objects["query"][x] # Absent
        BY <3>1 DEF IInv, QueryKept
      <3>3. ~ (k = "query" /\ x = n)
        BY <3>1, <1>8 DEF InUse
      <3> QED
        BY <3>2, <3>3, <2>3, <1>4
    <2>6. Covers(objects', k, op')
      <3>1. Names(objects'[k]) = Names(objects[k]) \ {n}
        BY <2>2, <2>3, <1>1 DEF Names
      <3>2. Unwanted(objects', k, c) \subseteq Unwanted(objects, k, c) \ {n}
        BY <3>1 DEF Unwanted
      <3>3. \A x \in Local(k, c) : Agrees(objects', k, x, c)
        BY <2>2, <2>3, <1>1, <1>3, <1>8, LocalFacts DEF Covers, Agrees, c
      <3> QED
        BY <3>1, <3>2, <3>3, <2>1, <2>2, <1>3, <1>8 DEF Covers, c
    <2> QED
      BY <2>1, <2>3, <2>4, <2>5, <2>6, <1>1 DEF IInv, Remaining
  <1>9. ASSUME op.create = {}, op.update = {}, op.delete = {},
               op' = [op EXCEPT !.at = "kind", !.kind = @ + 1], UNCHANGED <<objects, messages>>
        PROVE  IInv'
    <2>1. op' \in Operation /\ op'.at = "kind" /\ op'.kind = op.kind + 1 /\ op'.target = op.target /\ op'.refused = op.refused
      <3>1. op.kind + 1 \in 1 .. Len(Order) + 1
        BY <1>1, KindFacts
      <3> QED
        BY <3>1, <1>1, <1>9 DEF Operation
    <2>2. TypeOK'
      BY <2>1, <1>2, <1>9 DEF IInv, TypeOK, Git, Operation
    <2>3. KindMatches(objects, k, c)
      BY <1>3, <1>9 DEF Covers, KindMatches, c
    <2>4. Done'
      BY <2>1, <2>3, <1>1, <1>9 DEF IInv, Done, KindDone, c
    <2> QED
      BY <2>1, <2>2, <2>4, <1>9 DEF IInv, Remaining, QueryKept
  <1> QED
    BY <1>5, <1>6, <1>7, <1>8, <1>9 DEF ApplyObject, k, c

(* A schema that is refused counts as done. *)
LEMMA SchemaRefusedIInv ==
  ASSUME IInv, SchemaRefused
  PROVE  IInv'
  <1>1. /\ op.at = "apply" /\ op # Idle /\ op \in Operation /\ op.kind \in 1 .. 7
        /\ Order[op.kind] = "schema"
    BY OperationType, KindFacts DEF SchemaRefused, IInv, Remaining, Idle, Operation, CurrentKind
  <1>2. /\ op' = [op EXCEPT !.at = "kind", !.kind = @ + 1, !.create = {}, !.update = {}, !.refused = TRUE]
        /\ UNCHANGED <<Git, cloned, local, fetched, ref, commit, objects, grouped, messages, requests,
                       failures>>
    BY DEF SchemaRefused
  <1>3. op.kind + 1 \in 1 .. Len(Order) + 1
    BY <1>1, KindFacts
  <1>4. op' \in Operation /\ op'.at = "kind" /\ op'.kind = op.kind + 1 /\ op'.target = op.target
        /\ op'.refused
    BY <1>1, <1>2, <1>3 DEF Operation
  <1>5. TypeOK'
    BY <1>2, <1>4 DEF IInv, TypeOK, Git, Operation
  <1>6. Done'
    <2> SUFFICES ASSUME NEW i \in 1 .. 7, i < op.kind + 1 PROVE KindDone(objects, Order[i], op')
      BY <1>2, <1>4 DEF Done
    <2>1. CASE i < op.kind
      BY <1>1, <1>4, <2>1 DEF IInv, Done, KindDone
    <2>2. CASE i = op.kind
      BY <1>1, <1>4, <2>2 DEF KindDone
    <2> QED
      BY <1>1, <2>1, <2>2
  <1> QED
    BY <1>2, <1>4, <1>5, <1>6 DEF IInv, Remaining, QueryKept

-----------------------------------------------------------------------------
LEMMA NextIInv == IInv /\ [Next]_vars => IInv'
  <1> SUFFICES ASSUME IInv, [Next]_vars PROVE IInv'
    OBVIOUS
  <1> USE DEF Git
  <1>1. ASSUME NEW r \in Ref, NEW c \in Commit, RemoteMoves(r, c) PROVE IInv'
    <2>1. TypeOK'
      BY <1>1 DEF IInv, TypeOK, RemoteMoves
    <2> QED
      BY <1>1, <2>1, SameObjects DEF IInv, RemoteMoves
  <1>2. ASSUME NEW r \in Ref \cup {None}, NEW c \in published \cup {None}, MutateUpdate(r, c)
        PROVE  IInv'
    <2>1. c \in Commit \cup {None} /\ ref' \in Ref /\ commit' \in Commit \cup {None}
      BY <1>2 DEF IInv, TypeOK, MutateUpdate
    <2>2. messages' \subseteq Message
      BY <1>2, <2>1, BoundAssumption DEF IInv, TypeOK, MutateUpdate, Message
    <2>3. TypeOK'
      BY <1>2, <2>1, <2>2 DEF IInv, TypeOK, MutateUpdate
    <2> QED
      BY <1>2, <2>3, SameObjects DEF IInv, MutateUpdate
  <1>3. ASSUME StartClone PROVE IInv'
    <2>1. PICK m \in messages :
            /\ cloned' = TRUE
            /\ \E default \in Ref :
                  local' = [r \in Ref |-> IF r \in {m.ref, default} THEN remote[r] ELSE None]
            /\ fetched' = published
            /\ commit' = remote[m.ref]
            /\ \/ op' = Importing(m, Chosen(m), 1) /\ UNCHANGED messages
               \/ Raise(m)
      BY <1>3 DEF StartClone
    <2>2. m \in Message /\ m.ref \in Ref /\ Chosen(m) \in Commit
      BY ChosenType DEF IInv, TypeOK
    <2>3. /\ local' \in [Ref -> Commit \cup {None}] /\ commit' \in Commit \cup {None}
          /\ UNCHANGED <<Git, ref, objects, grouped, requests, failures>>
      BY <1>3, <2>1, <2>2 DEF IInv, TypeOK, StartClone
    <2>4. CASE op' = Importing(m, Chosen(m), 1) /\ UNCHANGED messages
      <3>1. op' \in Operation
        BY <2>2, <2>4, ImportingType
      <3>2. TypeOK'
        BY <3>1, <2>1, <2>3, <2>4 DEF IInv, TypeOK, Operation
      <3> QED
        BY <3>2, <2>2, <2>3, <2>4, SameObjects DEF IInv
    <2>5. CASE Raise(m)
      <3>1. op' = Idle /\ messages' \subseteq Message
        BY <2>2, <2>5, RaiseType DEF IInv, TypeOK
      <3>2. TypeOK'
        BY <3>1, <2>1, <2>3 DEF IInv, TypeOK
      <3> QED
        BY <3>1, <3>2, <2>3, SameObjects DEF IInv
    <2> QED
      BY <2>1, <2>4, <2>5
  <1>4. ASSUME StartPull PROVE IInv'
    <2>1. PICK m \in messages :
            /\ fetched' \in {published, fetched}
            /\ \/ op' = Importing(m, Chosen(m), 1) /\ UNCHANGED messages
               \/ Raise(m)
      BY <1>4 DEF StartPull
    <2>2. m \in Message /\ Chosen(m) \in Commit
      BY ChosenType DEF IInv, TypeOK
    <2>3. UNCHANGED <<Git, cloned, local, ref, commit, objects, grouped, requests, failures>>
      BY <1>4 DEF StartPull
    <2>4. CASE op' = Importing(m, Chosen(m), 1) /\ UNCHANGED messages
      <3>1. op' \in Operation
        BY <2>2, <2>4, ImportingType
      <3>2. TypeOK'
        BY <3>1, <2>1, <2>3, <2>4 DEF IInv, TypeOK, Operation
      <3> QED
        BY <3>2, <2>2, <2>3, <2>4, SameObjects DEF IInv
    <2>5. CASE Raise(m)
      <3>1. op' = Idle /\ messages' \subseteq Message
        BY <2>2, <2>5, RaiseType DEF IInv, TypeOK
      <3>2. TypeOK'
        BY <3>1, <2>1, <2>3 DEF IInv, TypeOK
      <3> QED
        BY <3>1, <3>2, <2>3, SameObjects DEF IInv
    <2> QED
      BY <2>1, <2>4, <2>5
  <1>5. ASSUME SyncFromRemote PROVE IInv'
    <2>1. op # Idle
      BY <1>5 DEF SyncFromRemote, Idle
    <2>2. op.msg \in Message /\ Chosen(op.msg) \in Commit
      BY <2>1, OperationType, ChosenType DEF IInv
    <2>3. /\ UNCHANGED <<Git, cloned, local, ref, commit, objects, grouped, requests, failures>>
          /\ fetched' \in {published, fetched} /\ messages' \subseteq messages
          /\ op' = Idle \/ op' = Importing(op.msg, Chosen(op.msg), 2)
      BY <1>5 DEF SyncFromRemote
    <2>4. op' = Idle \/ op' \in Operation
      BY <2>2, <2>3, ImportingType
    <2>5. TypeOK'
      BY <2>3, <2>4 DEF IInv, TypeOK, Operation
    <2> QED
      BY <2>2, <2>3, <2>5, SameObjects DEF IInv
  <1>6. ASSUME UpdateCommit PROVE IInv'
    <2>1. op.target \in Commit
      BY <1>6, OperationType DEF UpdateCommit, Idle, IInv
    <2>2. TypeOK'
      BY <1>6, <2>1 DEF IInv, TypeOK, UpdateCommit
    <2> QED
      BY <1>6, <2>2, SameObjects DEF IInv, UpdateCommit
  <1>7. ASSUME CompareKind PROVE IInv'
    BY <1>7, CompareKindIInv
  <1>8. ASSUME ApplyObject PROVE IInv'
    BY <1>8, ApplyObjectIInv
  <1>9. ASSUME EndImport PROVE IInv'
    <2>1. op.at = "kind" /\ op \in Operation /\ op.kind > 7 /\ op.kind \in Nat
      BY <1>9, OperationType, KindFacts DEF EndImport, Idle, IInv, Operation
    <2>2. op' \in Operation /\ op'.at \in {"sync", "commit"} /\ op'.target = op.target /\ op'.refused = op.refused
      BY <1>9, <2>1 DEF EndImport, Operation
    <2>3. TypeOK'
      BY <1>9, <2>2 DEF IInv, TypeOK, EndImport, Operation
    <2>4. \A i \in 1 .. 7 : KindDone(objects, Order[i], op)
      BY <2>1 DEF IInv, Done
    <2>5. \A k \in Kind : KindDone(objects, k, op)
      BY <2>4, KindFacts
    <2> QED
      BY <1>9, <2>2, <2>3, <2>5 DEF IInv, Remaining, Done, KindDone, QueryKept, EndImport
  <1>10. ASSUME Fail PROVE IInv'
    <2>1. op.msg \in Message
      BY <1>10, OperationType DEF Fail, IInv
    <2>2. op' = Idle /\ messages' \subseteq Message
      BY <1>10, <2>1, RaiseType DEF Fail, IInv, TypeOK
    <2>3. TypeOK'
      BY <1>10, <2>2 DEF IInv, TypeOK, Fail
    <2> QED
      BY <1>10, <2>2, <2>3, SameObjects DEF IInv, Fail
  <1>11. CASE UNCHANGED vars
    <2>1. TypeOK'
      BY <1>11 DEF vars, IInv, TypeOK
    <2> QED
      BY <1>11, <2>1, SameObjects DEF vars, IInv
  <1>12. ASSUME NEW n \in Name, UpdateGroup(n) PROVE IInv'
    <2>1. TypeOK'
      BY <1>12 DEF IInv, TypeOK, UpdateGroup
    <2> QED
      BY <1>12, <2>1, SameObjects DEF IInv, UpdateGroup
  <1>13. ASSUME SchemaRefused PROVE IInv'
    BY <1>13, SchemaRefusedIInv
  <1> QED
    BY <1>1, <1>2, <1>3, <1>4, <1>5, <1>6, <1>7, <1>8, <1>9, <1>10, <1>11, <1>12, <1>13
    DEF Next, Handler

-----------------------------------------------------------------------------
(* The types of the repository's state, whatever the files contain. *)
THEOREM TypeCorrect == Spec => []TypeOK
  <1>1. IInv => TypeOK
    BY DEF IInv
  <1> QED
    BY <1>1, InitIInv, NextIInv, PTL DEF Spec

(* In every state of every import, also one that failed half way and is      *)
(* tried again on another commit, a generator has its query.                 *)
THEOREM QueryKeptAlways == Spec => []QueryKept
  <1>1. IInv => QueryKept
    BY DEF IInv
  <1> QED
    BY <1>1, InitIInv, NextIInv, PTL DEF Spec

(* An import that comes to its end has brought every kind in line with the   *)
(* files of its commit, whatever the graph held before, but for a schema     *)
(* that the server has refused.                                              *)
THEOREM ImportMatchesAlways == Spec => []ImportMatches
  <1>1. IInv => ImportMatches
    <2> DEFINE kinds == IF op.refused THEN Kind \ {"schema"} ELSE Kind
    <2> SUFFICES ASSUME IInv, op.at \in {"sync", "commit"} PROVE Matches(kinds, op.target)
      BY DEF ImportMatches
    <2> SUFFICES ASSUME NEW k \in Kind, op.refused => k # "schema"
                 PROVE  LET i == ImporterOf(k, op.target) IN
                        i.skip \/
                        /\ i.local \subseteq Names(objects[k])
                        /\ i.delete = {}
                        /\ \A n \in i.local :
                              \A f \in Compared[k] \cap Updated[k] :
                                 f \in objects[k][n] <=> f \in Files[op.target].defs[k][n]
      BY DEF Matches
    <2>1. KindMatches(objects, k, op.target)
      BY DEF IInv, Done, KindDone
    <2>2. /\ ImporterOf(k, op.target).local = Local(k, op.target)
          /\ ImporterOf(k, op.target).skip <=> Skip(k, op.target)
          /\ ImporterOf(k, op.target).delete = Unwanted(objects, k, op.target)
      BY ImporterFacts
    <2> QED
      BY <2>1, <2>2 DEF KindMatches, Agrees
  <1> QED
    BY <1>1, InitIInv, NextIInv, PTL DEF Spec

-----------------------------------------------------------------------------
(***************************************************************************)
(* Artifacts and generator instances.                                       *)
(***************************************************************************)

InstanceIds == Target \cup Job
Answers == UNION {[S -> Nat] : S \in SUBSET Input}

Instances == [target : Target, status : {"new", "Pending", "Ready", "Error"},
              content : Answers \cup {NoValue}, writes : Nat]

Jobs == [phase : {"queued", "locked", "creating", "defined", "queried", "done", "failed"},
         target : Target, id : InstanceIds \cup {NoValue},
         read : Instances \cup {NoValue}, response : Answers \cup {NoValue}]

Groups == [members : SUBSET Input, subscribers : SUBSET InstanceIds]

Updates == [target : Target, members : SUBSET Input, subscriber : InstanceIds,
            sender : Job, stored : BOOLEAN]

ArtifactsTypes ==
  /\ content \in [Input -> Nat] /\ uses \in [Target -> SUBSET Input]
  /\ modified \subseteq Input /\ members \subseteq Target /\ \A t \in Target : t \in uses[t]
  /\ DOMAIN artifact \subseteq InstanceIds /\ artifact \in [DOMAIN artifact -> Instances]
  /\ group \in [Target -> Groups] /\ updates \subseteq Updates
  /\ DOMAIN job \subseteq Job /\ job \in [DOMAIN job -> Jobs]
  /\ mutex \in [Target -> Job \cup {NoValue}]
  /\ definition \in {"artifact", "generator"}

(* A set of nodes that the query of t has read at some time: t is in it, and  *)
(* if it is not the one it reads now, then the branch has modified a node of  *)
(* each, unless nodes have come and gone with a listing.                      *)
Historic(U, t) ==
  t \in U /\ (t \in listed \/ U = uses[t] \/ (U \cap modified # {} /\ uses[t] \cap modified # {}))

(* An answer to the query of t that was given at some time. *)
Given(c, t) == Historic(DOMAIN c, t) /\ \A i \in DOMAIN c : c[i] = content[i] \/ i \in modified

(* The instance a is a subscriber of the query group of t, or will be. *)
Noted(a, t) == a \in group[t].subscribers \/ \E m \in updates : m.subscriber = a /\ m.target = t

GroupsHistoric ==
  /\ \A t \in Target : group[t].subscribers # {} => Historic(group[t].members, t)
  /\ \A m \in updates : Historic(m.members, m.target)
  /\ \A m \in updates : m.stored => Historic(group[m.target].members, m.target)

InstanceGiven(a) ==
  artifact[a].content # NoValue =>
    Given(artifact[a].content, artifact[a].target) /\ Noted(a, artifact[a].target)

JobGiven(n) ==
  /\ job[n].phase \in {"defined", "queried"} /\ job[n].read.content # NoValue =>
       Given(job[n].read.content, job[n].target) /\ Noted(job[n].id, job[n].target)
  /\ job[n].phase = "queried" =>
       Given(job[n].response, job[n].target) /\ Noted(job[n].id, job[n].target)

AnswersGiven == (\A a \in DOMAIN artifact : InstanceGiven(a)) /\ \A n \in DOMAIN job : JobGiven(n)

DiffFound ==
  diff.open => /\ diff.outdated \subseteq diff.impacted \cup diff.pending
               /\ diff.nodes = {} => diff.impacted = {}

(* What a job has read of the instance x, if no job has written x since. *)
ReadOf(r, x) ==
  /\ r.writes <= x.writes
  /\ r.writes = x.writes => r.content = x.content
  /\ definition = "artifact" =>
       /\ r.writes = x.writes => x.status = r.status \/ (r.status = "new" /\ x.status = "Pending")
       /\ r.status \in {"new", "Pending"} => r.content = NoValue
       /\ r.status \in {"Ready", "Error"} => x.status \in {"Ready", "Error"}

JobWell(n) ==
  /\ job[n].id # NoValue => job[n].id \in DOMAIN artifact /\ artifact[job[n].id].target = job[n].target
  /\ job[n].phase \in {"locked", "creating"} => mutex[job[n].target] = n /\ job[n].id = NoValue
  /\ job[n].phase = "creating" => InstancesOf(job[n].target) = {}
  /\ job[n].phase \in {"defined", "queried"} =>
       job[n].id # NoValue /\ job[n].read \in Instances /\ ReadOf(job[n].read, artifact[job[n].id])
  /\ job[n].phase = "queried" => job[n].response # NoValue

JobsWell == \A n \in DOMAIN job : JobWell(n)

(* An instance that is not one of main's was made by the job of its id. *)
InstanceWell(a) ==
  /\ artifact[a].status # "new"
  /\ definition = "artifact" /\ artifact[a].status = "Pending" => artifact[a].content = NoValue
  /\ a \in Job => a \in DOMAIN job /\ job[a].phase \in {"defined", "queried", "done", "failed"}

InstancesWell == OneInstance /\ \A a \in DOMAIN artifact : InstanceWell(a)

ArtifactsInv ==
  ArtifactsTypes /\ InstancesWell /\ JobsWell /\ GroupsHistoric /\ AnswersGiven /\ DiffFound

LEMMA NoValueIsOther == NoValue \notin Answers /\ NoValue \notin InstanceIds
  BY ArtifactsAssumption DEF Answers, InstanceIds

LEMMA ArtifactsInitial == ArtifactsInit => ArtifactsInv
<1> SUFFICES ASSUME ArtifactsInit PROVE ArtifactsInv
    OBVIOUS
<1>1. PICK made \in SUBSET Target :
        /\ artifact = [t \in made |-> [target |-> t, status |-> "Ready", writes |-> 0,
                                       content |-> [i \in uses[t] |-> 0]]]
        /\ group = [t \in Target |-> IF t \in made THEN [members |-> uses[t], subscribers |-> {t}]
                                     ELSE [members |-> {}, subscribers |-> {}]]
      BY DEF ArtifactsInit
<1>2. DOMAIN job = {} /\ updates = {} /\ modified = {} /\ diff.open = FALSE
      BY DEF ArtifactsInit, NoDiff
<1>3. ArtifactsTypes
  <2>1. \A t \in Target : [i \in uses[t] |-> 0] \in Answers
        BY DEF ArtifactsInit, Answers
  <2>2. DOMAIN artifact \subseteq InstanceIds /\ artifact \in [DOMAIN artifact -> Instances]
        BY <1>1, <2>1 DEF Instances, InstanceIds
  <2>3. group \in [Target -> Groups]
    <3>1. \A t \in Target : uses[t] \in SUBSET Input /\ {t} \in SUBSET InstanceIds
          BY DEF ArtifactsInit, InstanceIds
    <3> QED BY <1>1, <3>1 DEF Groups
  <2>4. definition \in {"artifact", "generator"}
        BY ArtifactsAssumption DEF ArtifactsInit
  <2>5. job \in [DOMAIN job -> Jobs]
        BY DEF ArtifactsInit
  <2> QED BY <1>2, <2>2, <2>3, <2>4, <2>5 DEF ArtifactsInit, ArtifactsTypes
<1>4. InstancesWell
  <2>1. OneInstance
        BY <1>1 DEF OneInstance
  <2>2. \A a \in DOMAIN artifact : a \notin Job
        BY <1>1, ArtifactsAssumption
  <2> QED BY <1>1, <2>1, <2>2 DEF InstancesWell, InstanceWell
<1>5. GroupsHistoric
  <2>1. \A t \in Target : t \in uses[t]
        BY DEF ArtifactsInit
  <2> QED BY <1>1, <1>2, <2>1 DEF GroupsHistoric, Historic
<1>6. AnswersGiven
  <2> SUFFICES ASSUME NEW a \in DOMAIN artifact PROVE InstanceGiven(a)
      BY <1>2 DEF AnswersGiven
  <2>1. a \in Target /\ artifact[a].target = a /\ artifact[a].content = [i \in uses[a] |-> 0]
        /\ group[a].subscribers = {a}
        BY <1>1
  <2>2. uses[a] \subseteq Input /\ a \in uses[a] /\ content = [i \in Input |-> 0]
        BY <2>1 DEF ArtifactsInit
  <2> QED BY <2>1, <2>2 DEF InstanceGiven, Given, Historic, Noted
<1> QED BY <1>2, <1>3, <1>4, <1>5, <1>6 DEF ArtifactsInv, JobsWell, DiffFound

-----------------------------------------------------------------------------
(* Changes of the data.                                                      *)

LEMMA DataStep ==
  ASSUME ArtifactsInv,
         UNCHANGED <<definition, artifact, group, updates, diff, job, mutex>>,
         content' \in [Input -> Nat], uses' \in [Target -> SUBSET Input],
         modified' \subseteq Input, members' \subseteq Target, modified \subseteq modified',
         \A i \in Input : content'[i] = content[i] \/ i \in modified',
         \A t \in Target : t \in uses'[t], listed \subseteq listed',
         \A t \in Target : \/ uses'[t] = uses[t] \/ t \in listed'
                           \/ uses[t] \cap uses'[t] \cap modified' # {}
  PROVE  ArtifactsInv'
<1>1. \A t \in Target, U \in SUBSET Input : Historic(U, t) => Historic(U, t)'
      BY DEF Historic
<1>2. \A t \in Target, c \in Answers : Given(c, t) => Given(c, t)'
  <2> SUFFICES ASSUME NEW t \in Target, NEW c \in Answers, Given(c, t) PROVE Given(c, t)'
      OBVIOUS
  <2>1. DOMAIN c \in SUBSET Input
        BY DEF Answers
  <2>2. Historic(DOMAIN c, t)'
        BY <1>1, <2>1 DEF Given
  <2> QED BY <2>1, <2>2 DEF Given
<1>3. ArtifactsTypes'
      BY DEF ArtifactsInv, ArtifactsTypes
<1>4. InstancesWell'
      BY DEF ArtifactsInv, InstancesWell, InstanceWell, OneInstance
<1>5. JobsWell'
      BY DEF ArtifactsInv, JobsWell, JobWell, ReadOf, InstancesOf
<1>6. GroupsHistoric'
  <2>1. \A t \in Target : group[t].members \in SUBSET Input
        BY DEF ArtifactsInv, ArtifactsTypes, Groups
  <2>2. \A m \in updates : m.members \in SUBSET Input /\ m.target \in Target
        BY DEF ArtifactsInv, ArtifactsTypes, Updates
  <2> QED BY <1>1, <2>1, <2>2 DEF ArtifactsInv, GroupsHistoric
<1>7. AnswersGiven'
  <2>1. ASSUME NEW a \in DOMAIN artifact PROVE InstanceGiven(a)'
    <3>1. artifact[a].target \in Target /\ artifact[a].content \in Answers \cup {NoValue}
          BY DEF ArtifactsInv, ArtifactsTypes, Instances
    <3>2. InstanceGiven(a)
          BY DEF ArtifactsInv, AnswersGiven
    <3> QED BY <1>2, <3>1, <3>2 DEF InstanceGiven, Noted
  <2>2. ASSUME NEW n \in DOMAIN job PROVE JobGiven(n)'
    <3>1. job[n].target \in Target /\ job[n].response \in Answers \cup {NoValue}
          /\ job[n].read \in Instances \cup {NoValue}
          BY DEF ArtifactsInv, ArtifactsTypes, Jobs
    <3>2. job[n].phase \in {"defined", "queried"} => job[n].read.content \in Answers \cup {NoValue}
          BY <3>1 DEF ArtifactsInv, JobsWell, JobWell, Instances
    <3>3. job[n].phase = "queried" => job[n].response \in Answers
          BY <3>1 DEF ArtifactsInv, JobsWell, JobWell
    <3>4. JobGiven(n)
          BY DEF ArtifactsInv, AnswersGiven
    <3> QED BY <1>2, <3>1, <3>2, <3>3, <3>4 DEF JobGiven, Noted
  <2> QED BY <2>1, <2>2 DEF AnswersGiven
<1>8. DiffFound'
      BY DEF ArtifactsInv, DiffFound
<1> QED BY <1>3, <1>4, <1>5, <1>6, <1>7, <1>8 DEF ArtifactsInv

LEMMA EditStep == ASSUME ArtifactsInv, Edit \/ Relate \/ ChangeMembers PROVE ArtifactsInv'
<1>1. /\ content \in [Input -> Nat] /\ uses \in [Target -> SUBSET Input]
      /\ modified \subseteq Input /\ members \subseteq Target /\ Target \subseteq Input
      /\ \A t \in Target : t \in uses[t]
      BY ArtifactsAssumption DEF ArtifactsInv, ArtifactsTypes
<1>2. CASE Edit
  <2>1. PICK i \in Input : Edited({i}) /\ UNCHANGED members /\ \E listing \in SUBSET (Target \ {i}) :
          /\ uses' = [t \in Target |->
                        IF t \notin listing THEN uses[t]
                        ELSE IF i \in uses[t] THEN uses[t] \ {i} ELSE uses[t] \cup {i}]
          /\ listed' = listed \cup listing
        BY <1>2 DEF Edit
  <2>2. PICK listing \in SUBSET (Target \ {i}) :
          /\ uses' = [t \in Target |->
                        IF t \notin listing THEN uses[t]
                        ELSE IF i \in uses[t] THEN uses[t] \ {i} ELSE uses[t] \cup {i}]
          /\ listed' = listed \cup listing
        BY <2>1
  <2>3. /\ UNCHANGED <<definition, artifact, group, updates, diff, job, mutex, members>>
        /\ modified' = modified \cup {i} /\ content' \in [Input -> Nat]
        /\ \A j \in Input : content'[j] = content[j] \/ j \in modified'
        BY <1>1, <2>1 DEF Edited
  <2>4. uses' \in [Target -> SUBSET Input] /\ \A t \in Target : t \in uses'[t]
        BY <1>1, <2>2
  <2>5. \A t \in Target : uses'[t] = uses[t] \/ t \in listed'
        BY <2>2
  <2> QED BY <1>1, <2>2, <2>3, <2>4, <2>5, DataStep
<1>3. CASE Relate
  <2>1. PICK t \in Target, i \in Input, j \in Input :
          /\ i \in uses[t] /\ i # j /\ Edited({i, j}) /\ UNCHANGED <<listed, members>>
          /\ \E reach \in SUBSET (Input \ {t, i}) :
               j \in reach /\ uses' = [uses EXCEPT ![t] = IF j \in @ THEN @ \ reach ELSE @ \cup reach]
        BY <1>1, <1>3 DEF Relate
  <2>2. PICK reach \in SUBSET (Input \ {t, i}) :
          uses' = [uses EXCEPT ![t] = IF j \in uses[t] THEN uses[t] \ reach ELSE uses[t] \cup reach]
        BY <1>1, <2>1
  <2>3. /\ UNCHANGED <<definition, artifact, group, updates, diff, job, mutex, members>>
        /\ modified' = modified \cup {i, j} /\ content' \in [Input -> Nat]
        /\ \A k \in Input : content'[k] = content[k] \/ k \in modified'
        BY <1>1, <2>1 DEF Edited
  <2>4. uses' \in [Target -> SUBSET Input] /\ \A u \in Target : u \in uses'[u]
        BY <1>1, <2>2
  <2>5. \A u \in Target : uses'[u] = uses[u] \/ i \in uses[u] \cap uses'[u] \cap modified'
        BY <1>1, <2>1, <2>2, <2>3
  <2> QED BY <1>1, <2>1, <2>3, <2>4, <2>5, DataStep
<1>4. CASE ChangeMembers
  <2>1. PICK t \in Target : /\ Edited({t})
                            /\ members' = IF t \in members THEN members \ {t} ELSE members \cup {t}
        BY <1>4 DEF ChangeMembers
  <2>2. /\ UNCHANGED <<definition, artifact, group, updates, diff, job, mutex, uses, listed>>
        /\ modified' = modified \cup {t} /\ content' \in [Input -> Nat]
        /\ \A k \in Input : content'[k] = content[k] \/ k \in modified'
        BY <1>1, <1>4, <2>1 DEF ChangeMembers, Edited
  <2> QED BY <1>1, <2>1, <2>2, DataStep
<1> QED BY <1>2, <1>3, <1>4

-----------------------------------------------------------------------------
(* Requests.                                                                 *)

(* A new job for each of the targets. *)
LEMMA SendJobsStep ==
  ASSUME ArtifactsInv, NEW targets \in SUBSET Target, SendJobs(targets)
  PROVE  /\ DOMAIN job \subseteq DOMAIN job' /\ DOMAIN job' \subseteq Job
         /\ job' \in [DOMAIN job' -> Jobs]
         /\ \A n \in DOMAIN job : job'[n] = job[n]
         /\ \A n \in DOMAIN job' \ DOMAIN job :
              \E t \in Target, a \in InstanceIds \cup {NoValue} :
                job'[n] = Queued(t, a) /\ (a # NoValue => a \in InstancesOf(t))
         /\ \A t \in targets : \E n \in DOMAIN job' \ DOMAIN job : job'[n].target = t
<1>1. PICK pick \in [targets -> DOMAIN artifact \cup {NoValue}], order \in [targets -> Job \ DOMAIN job] :
        /\ \A t \in targets : IF InstancesOf(t) = {} THEN pick[t] = NoValue ELSE pick[t] \in InstancesOf(t)
        /\ \A t, u \in targets : order[t] = order[u] => t = u
        /\ job' = [n \in DOMAIN job \cup {order[t] : t \in targets} |->
                     IF n \in DOMAIN job THEN job[n]
                     ELSE LET t == CHOOSE u \in targets : order[u] = n IN Queued(t, pick[t])]
      BY DEF SendJobs
<1>2. DOMAIN artifact \subseteq InstanceIds /\ DOMAIN job \subseteq Job /\ job \in [DOMAIN job -> Jobs]
      BY DEF ArtifactsInv, ArtifactsTypes
<1>3. DOMAIN job' = DOMAIN job \cup {order[t] : t \in targets} /\ \A n \in DOMAIN job : job'[n] = job[n]
      BY <1>1
<1>4. \A n \in DOMAIN job' \ DOMAIN job : \E t \in targets : order[t] = n
      BY <1>3
<1>5. ASSUME NEW t \in targets
      PROVE  order[t] \in DOMAIN job' \ DOMAIN job /\ job'[order[t]] = Queued(t, pick[t])
  <2>1. t = CHOOSE u \in targets : order[u] = order[t]
        BY <1>1
  <2> QED BY <1>1, <1>3, <2>1
<1>6. \A t \in targets : /\ pick[t] \in InstanceIds \cup {NoValue}
                         /\ pick[t] # NoValue => pick[t] \in InstancesOf(t)
                         /\ Queued(t, pick[t]) \in Jobs /\ Queued(t, pick[t]).target = t
      BY <1>1, <1>2 DEF Queued, Jobs
<1>7. \A n \in DOMAIN job' \ DOMAIN job :
        \E t \in Target, a \in InstanceIds \cup {NoValue} :
          job'[n] = Queued(t, a) /\ (a # NoValue => a \in InstancesOf(t))
      BY <1>4, <1>5, <1>6
<1>8. job' \in [DOMAIN job' -> Jobs]
  <2>1. \A n \in DOMAIN job' : job'[n] \in Jobs
        BY <1>2, <1>3, <1>4, <1>5, <1>6
  <2>2. job' = [n \in DOMAIN job' |-> job'[n]]
        BY <1>1
  <2> QED BY <2>1, <2>2
<1>9. \A t \in targets : \E n \in DOMAIN job' \ DOMAIN job : job'[n].target = t
      BY <1>5, <1>6
<1>10. DOMAIN job \subseteq DOMAIN job' /\ DOMAIN job' \subseteq Job
      BY <1>2, <1>3
<1>11. \A n \in DOMAIN job : job'[n] = job[n]
      BY <1>3
<1> QED BY <1>7, <1>8, <1>9, <1>10, <1>11

LEMMA SendStep ==
  ASSUME ArtifactsInv, NEW targets \in SUBSET Target, SendJobs(targets), DiffFound',
         UNCHANGED <<definition, content, uses, listed, modified, members, artifact, group, updates, mutex>>
  PROVE  ArtifactsInv'
<1>1. /\ DOMAIN job \subseteq DOMAIN job' /\ DOMAIN job' \subseteq Job
      /\ job' \in [DOMAIN job' -> Jobs]
      /\ \A n \in DOMAIN job : job'[n] = job[n]
      BY SendJobsStep
<1>2. \A n \in DOMAIN job' \ DOMAIN job :
        \E t \in Target, a \in InstanceIds \cup {NoValue} :
          job'[n] = Queued(t, a) /\ (a # NoValue => a \in InstancesOf(t))
      BY SendJobsStep
<1>3. ArtifactsTypes'
      BY <1>1 DEF ArtifactsInv, ArtifactsTypes
<1>4. InstancesWell'
      BY <1>1 DEF ArtifactsInv, InstancesWell, InstanceWell, OneInstance
<1>5. ASSUME NEW n \in DOMAIN job' PROVE JobWell(n)' /\ JobGiven(n)'
  <2>1. CASE n \in DOMAIN job
    <3>1. JobWell(n) /\ JobGiven(n) /\ job'[n] = job[n]
          BY <1>1, <2>1 DEF ArtifactsInv, JobsWell, AnswersGiven
    <3>2. JobWell(n)'
          BY <3>1 DEF JobWell, ReadOf, InstancesOf
    <3>3. JobGiven(n)'
          BY <3>1 DEF JobGiven, Given, Historic, Noted
    <3> QED BY <3>2, <3>3
  <2>2. CASE n \notin DOMAIN job
    <3>1. PICK t \in Target, a \in InstanceIds \cup {NoValue} :
            job'[n] = Queued(t, a) /\ (a # NoValue => a \in InstancesOf(t))
          BY <1>2, <2>2
    <3>2. job'[n].phase = "queued" /\ job'[n].id = a /\ job'[n].target = t
          BY <3>1 DEF Queued
    <3> QED BY <3>1, <3>2 DEF JobWell, JobGiven, InstancesOf
  <2> QED BY <2>1, <2>2
<1>6. GroupsHistoric'
      BY DEF ArtifactsInv, GroupsHistoric, Historic
<1>7. \A a \in DOMAIN artifact' : InstanceGiven(a)'
      BY DEF ArtifactsInv, AnswersGiven, InstanceGiven, Given, Historic, Noted
<1> QED BY <1>3, <1>4, <1>5, <1>6, <1>7 DEF ArtifactsInv, JobsWell, AnswersGiven

(* An instance that is out of date depends on a node that was modified, and   *)
(* is a subscriber of the group that says so, or will be.                     *)
LEMMA OutdatedFound ==
  ASSUME ArtifactsInv, NEW a \in DOMAIN artifact, Outdated(a)
  PROVE  a \in _populate_subscribers(modified) \cup {m.subscriber : m \in updates}
<1> DEFINE t == artifact[a].target
           c == artifact[a].content
<1>1. t \in Target /\ c \in Answers /\ (IF t \in listed THEN c[t] # content[t] ELSE c # Response(t))
      BY DEF ArtifactsInv, ArtifactsTypes, Instances, Outdated
<1>2. Given(c, t) /\ Noted(a, t)
      BY <1>1, NoValueIsOther DEF ArtifactsInv, AnswersGiven, InstanceGiven
<1> SUFFICES ASSUME a \in group[t].subscribers PROVE group[t].members \cap modified # {}
    BY <1>1, <1>2 DEF Noted, _populate_subscribers
<1>3. Historic(group[t].members, t)
      BY <1>1 DEF ArtifactsInv, GroupsHistoric
<1>4. CASE t \in listed
  <2>1. t \in DOMAIN c /\ c[t] # content[t]
        BY <1>1, <1>2, <1>4 DEF Given, Historic
  <2>2. t \in modified /\ t \in group[t].members
        BY <1>2, <1>3, <2>1 DEF Given, Historic
  <2> QED BY <2>2
<1>5. CASE t \notin listed /\ DOMAIN c # uses[t]
      BY <1>2, <1>3, <1>5 DEF Given, Historic
<1>6. CASE t \notin listed /\ DOMAIN c = uses[t]
  <2>1. PICK i \in uses[t] : c[i] # content[i]
    <3>1. SUFFICES ASSUME \A i \in uses[t] : c[i] = content[i] PROVE FALSE
          OBVIOUS
    <3>2. PICK S \in SUBSET Input : c \in [S -> Nat]
          BY <1>1 DEF Answers
    <3>3. c = [i \in uses[t] |-> c[i]]
          BY <1>6, <3>2
    <3>4. c = [i \in uses[t] |-> content[i]]
          BY <3>1, <3>3
    <3> QED BY <1>1, <1>6, <3>4 DEF Response
  <2>2. i \in modified
        BY <1>2, <1>6, <2>1 DEF Given
  <2> QED BY <1>3, <1>6, <2>1, <2>2 DEF Historic
<1> QED BY <1>4, <1>5, <1>6

LEMMA PipelineStep == ASSUME ArtifactsInv, Pipeline PROVE ArtifactsInv'
<1>1. UNCHANGED <<definition, content, uses, listed, modified, members, artifact, group, updates, mutex, job>>
      BY DEF Pipeline, Request
<1>2. /\ diff'.nodes = modified /\ diff'.impacted = _populate_subscribers(modified)
      /\ diff'.outdated = {a \in DOMAIN artifact : Outdated(a)}
      /\ diff'.pending = {m.subscriber : m \in updates}
      BY DEF Pipeline
<1>3. DiffFound'
  <2>1. diff'.outdated \subseteq diff'.impacted \cup diff'.pending
        BY <1>2, OutdatedFound
  <2>2. modified = {} => _populate_subscribers(modified) = {}
        BY DEF _populate_subscribers
  <2> QED BY <1>2, <2>1, <2>2 DEF DiffFound
<1>4. ArtifactsTypes' /\ InstancesWell'
      BY <1>1 DEF ArtifactsInv, ArtifactsTypes, InstancesWell, InstanceWell, OneInstance
<1>5. JobsWell'
      BY <1>1 DEF ArtifactsInv, JobsWell, JobWell, ReadOf, InstancesOf
<1>6. GroupsHistoric' /\ AnswersGiven'
      BY <1>1 DEF ArtifactsInv, GroupsHistoric, AnswersGiven, InstanceGiven, JobGiven, Given, Historic, Noted
<1> QED BY <1>3, <1>4, <1>5, <1>6 DEF ArtifactsInv

LEMMA CheckStep == ASSUME ArtifactsInv, Check \/ Generate PROVE ArtifactsInv'
<1>1. members \subseteq Target
      BY DEF ArtifactsInv, ArtifactsTypes
<1>2. CASE Check
  <2>1. PICK targets \in SUBSET Target : SendJobs(targets)
        BY <1>1, <1>2 DEF Check
  <2>2. UNCHANGED <<definition, content, uses, listed, modified, members, artifact, group, updates, mutex>>
        BY <1>2 DEF Check
  <2>3. DiffFound'
        BY <1>2 DEF Check, DiffFound, NoDiff
  <2> QED BY <2>1, <2>2, <2>3, SendStep
<1>3. CASE Generate
  <2>1. PICK targets \in SUBSET Target : SendJobs(targets)
        BY <1>1, <1>3 DEF Generate
  <2>2. UNCHANGED <<definition, content, uses, listed, modified, members, artifact, group, updates, mutex>>
        BY <1>3 DEF Generate, Request
  <2>3. DiffFound'
        BY <1>3 DEF Generate, DiffFound, ArtifactsInv
  <2> QED BY <2>1, <2>2, <2>3, SendStep
<1> QED BY <1>2, <1>3

-----------------------------------------------------------------------------
(* The query group.                                                          *)

LEMMA GroupStep ==
  ASSUME ArtifactsInv,
         UNCHANGED <<definition, content, uses, listed, modified, members, artifact, diff, job, mutex>>,
         group' \in [Target -> Groups], updates' \subseteq Updates, GroupsHistoric',
         \A a \in InstanceIds, t \in Target : Noted(a, t) => Noted(a, t)'
  PROVE  ArtifactsInv'
<1>1. ArtifactsTypes' /\ InstancesWell'
      BY DEF ArtifactsInv, ArtifactsTypes, InstancesWell, InstanceWell, OneInstance
<1>2. JobsWell' /\ DiffFound'
      BY DEF ArtifactsInv, JobsWell, JobWell, ReadOf, InstancesOf, DiffFound
<1>3. \A c, t : Given(c, t)' <=> Given(c, t)
      BY DEF Given, Historic
<1>4. ASSUME NEW a \in DOMAIN artifact' PROVE InstanceGiven(a)'
  <2>1. a \in InstanceIds /\ artifact[a].target \in Target /\ InstanceGiven(a)
        BY DEF ArtifactsInv, ArtifactsTypes, Instances, AnswersGiven
  <2> QED BY <1>3, <2>1 DEF InstanceGiven
<1>5. ASSUME NEW n \in DOMAIN job' PROVE JobGiven(n)'
  <2>1. job[n].target \in Target /\ JobGiven(n) /\ job[n].id \in InstanceIds \cup {NoValue}
        BY DEF ArtifactsInv, ArtifactsTypes, Jobs, AnswersGiven
  <2>2. job[n].phase \in {"defined", "queried"} => job[n].id \in InstanceIds
        BY <2>1 DEF ArtifactsInv, JobsWell, JobWell
  <2> QED BY <1>3, <2>1, <2>2 DEF JobGiven
<1> QED BY <1>1, <1>2, <1>4, <1>5 DEF ArtifactsInv, AnswersGiven

LEMMA MessageStep ==
  ASSUME ArtifactsInv, NEW m \in updates, UpdateMembers(m) \/ group_add_subscriber(m)
  PROVE  ArtifactsInv'
<1>1. UNCHANGED <<definition, content, uses, listed, modified, members, artifact, diff, job, mutex>>
      BY DEF UpdateMembers, group_add_subscriber
<1>2. m \in Updates /\ updates \subseteq Updates /\ group \in [Target -> Groups]
      BY DEF ArtifactsInv, ArtifactsTypes
<1>3. m.target \in Target /\ m.members \in SUBSET Input /\ m.subscriber \in InstanceIds
      BY <1>2 DEF Updates
<1>4. PICK g \in Groups : g = group[m.target]
      BY <1>2, <1>3
<1>5. \A U, t : Historic(U, t)' <=> Historic(U, t)
      BY <1>1 DEF Historic
<1>6. CASE UpdateMembers(m)
  <2> DEFINE new == [m EXCEPT !.stored = TRUE]
             h == [g EXCEPT !.members = m.members]
  <2>1. /\ new \in Updates /\ new.target = m.target /\ new.members = m.members
        /\ new.subscriber = m.subscriber
        BY <1>2 DEF Updates
  <2>2. h \in Groups /\ h.members = m.members /\ h.subscribers = g.subscribers
        BY <1>3, <1>4 DEF Groups
  <2>3. updates' = (updates \ {m}) \cup {new} /\ group' = [group EXCEPT ![m.target] = h]
        BY <1>4, <1>6 DEF UpdateMembers
  <2> HIDE DEF new, h
  <2>4. \A t \in Target : group'[t] = IF t = m.target THEN h ELSE group[t]
        BY <1>2, <2>3
  <2>5. GroupsHistoric'
    <3>1. Historic(m.members, m.target)
          BY DEF ArtifactsInv, GroupsHistoric
    <3>2. \A t \in Target : group'[t].subscribers # {} => Historic(group'[t].members, t)
          BY <1>4, <2>2, <2>4, <3>1 DEF ArtifactsInv, GroupsHistoric
    <3>3. \A k \in updates' : Historic(k.members, k.target)
          BY <2>1, <2>3, <3>1 DEF ArtifactsInv, GroupsHistoric
    <3>4. \A k \in updates' : k.target \in Target
          BY <1>2, <2>1, <2>3 DEF Updates
    <3>5. \A k \in updates' : k.stored => Historic(group'[k.target].members, k.target)
          BY <1>4, <2>1, <2>2, <2>3, <2>4, <3>1, <3>4 DEF ArtifactsInv, GroupsHistoric
    <3> QED BY <1>5, <3>2, <3>3, <3>5 DEF GroupsHistoric
  <2>6. \A a \in InstanceIds, t \in Target : Noted(a, t) => Noted(a, t)'
        BY <1>4, <2>1, <2>2, <2>3, <2>4 DEF Noted
  <2>7. group' \in [Target -> Groups] /\ updates' \subseteq Updates
        BY <1>2, <1>3, <2>1, <2>2, <2>3
  <2> QED BY <1>1, <2>5, <2>6, <2>7, GroupStep
<1>7. CASE group_add_subscriber(m)
  <2> DEFINE h == [members |-> g.members, subscribers |-> g.subscribers \cup {m.subscriber}]
  <2>1. h \in Groups /\ h.members = g.members /\ h.subscribers = g.subscribers \cup {m.subscriber}
        BY <1>3, <1>4 DEF Groups
  <2>2. updates' = updates \ {m} /\ m.stored
        BY <1>7 DEF group_add_subscriber
  <2>7. group' = [group EXCEPT ![m.target] = h]
        BY <1>4, <1>7 DEF group_add_subscriber
  <2> HIDE DEF h
  <2>3. \A t \in Target : group'[t] = IF t = m.target THEN h ELSE group[t]
        BY <1>2, <2>7
  <2>4. GroupsHistoric'
    <3>1. Historic(group[m.target].members, m.target)
          BY <2>2 DEF ArtifactsInv, GroupsHistoric
    <3>2. \A t \in Target : group'[t].members = group[t].members
          BY <1>4, <2>1, <2>3
    <3>3. \A t \in Target : group'[t].subscribers # {} => Historic(group'[t].members, t)
          BY <1>4, <2>1, <2>3, <3>1, <3>2 DEF ArtifactsInv, GroupsHistoric
    <3>4. \A k \in updates' : k \in updates /\ k.target \in Target
          BY <1>2, <2>2 DEF Updates
    <3> QED BY <1>5, <3>2, <3>3, <3>4 DEF ArtifactsInv, GroupsHistoric
  <2>5. \A a \in InstanceIds, t \in Target : Noted(a, t) => Noted(a, t)'
        BY <1>4, <2>1, <2>2, <2>3 DEF Noted
  <2>6. group' \in [Target -> Groups] /\ updates' \subseteq Updates
        BY <1>2, <1>3, <2>1, <2>2, <2>7
  <2> QED BY <1>1, <2>4, <2>5, <2>6, GroupStep
<1> QED BY <1>6, <1>7

-----------------------------------------------------------------------------
(* Steps of a job.                                                           *)

LEMMA JobStep ==
  ASSUME ArtifactsInv, NEW n \in DOMAIN job, NEW j \in Jobs, job' = [job EXCEPT ![n] = j],
         UNCHANGED <<definition, content, uses, listed, modified, members, group, diff>>,
         DOMAIN artifact \subseteq DOMAIN artifact', DOMAIN artifact' \subseteq InstanceIds,
         artifact' \in [DOMAIN artifact' -> Instances],
         mutex' \in [Target -> Job \cup {NoValue}],
         updates' \subseteq Updates, updates \subseteq updates',
         \A m \in updates' \ updates : m.stored = FALSE /\ Historic(m.members, m.target),
         InstancesWell', \A a \in DOMAIN artifact' : InstanceGiven(a)',
         \A a \in DOMAIN artifact : /\ artifact'[a].target = artifact[a].target
                                    /\ \A r \in Instances : ReadOf(r, artifact[a]) => ReadOf(r, artifact'[a]),
         \A k \in DOMAIN job \ {n} : mutex[job[k].target] = k => mutex'[job[k].target] = k,
         \A k \in DOMAIN job \ {n} : job[k].phase = "creating" =>
            \A a \in DOMAIN artifact' : artifact'[a].target # job[k].target,
         JobWell(n)', JobGiven(n)'
  PROVE  ArtifactsInv'
<1>1. DOMAIN job' = DOMAIN job /\ \A k \in DOMAIN job : job'[k] = IF k = n THEN j ELSE job[k]
      BY DEF ArtifactsInv, ArtifactsTypes
<1>2. ArtifactsTypes'
      BY DEF ArtifactsInv, ArtifactsTypes
<1>3. ASSUME NEW k \in DOMAIN job \ {n} PROVE JobWell(k)'
  <2>1. JobWell(k) /\ job'[k] = job[k] /\ job[k] \in Jobs
        BY <1>1 DEF ArtifactsInv, ArtifactsTypes, JobsWell
  <2>2. job[k].read \in Instances \cup {NoValue}
        BY <2>1 DEF Jobs
  <2>3. job[k].phase \in {"defined", "queried"} => ReadOf(job[k].read, artifact'[job[k].id])
    <3>1. job[k].phase \in {"defined", "queried"} =>
            /\ job[k].id \in DOMAIN artifact /\ job[k].read \in Instances
            /\ ReadOf(job[k].read, artifact[job[k].id])
          BY <2>1, <2>2 DEF JobWell
    <3> QED BY <3>1
  <2>4. job[k].id # NoValue => job[k].id \in DOMAIN artifact' /\ artifact'[job[k].id].target = job[k].target
        BY <2>1 DEF JobWell
  <2>5. job[k].phase \in {"locked", "creating"} => mutex'[job[k].target] = k
        BY <2>1 DEF JobWell
  <2>6. job[k].phase = "creating" => InstancesOf(job[k].target)' = {}
        BY <2>1 DEF InstancesOf
  <2>7. job[k].phase \in {"defined", "queried"} => ReadOf(job[k].read, artifact[job[k].id])'
        BY <2>1, <2>3 DEF ReadOf
  <2> QED BY <2>1, <2>4, <2>5, <2>6, <2>7 DEF JobWell
<1>4. \A c, t : Given(c, t)' <=> Given(c, t)
      BY DEF Given, Historic
<1>5. \A a, t : Noted(a, t) => Noted(a, t)'
      BY DEF Noted
<1>6. ASSUME NEW k \in DOMAIN job \ {n} PROVE JobGiven(k)'
  <2>1. JobGiven(k) /\ job'[k] = job[k]
        BY <1>1 DEF ArtifactsInv, AnswersGiven
  <2> QED BY <1>4, <1>5, <2>1 DEF JobGiven
<1>7. GroupsHistoric'
      BY DEF ArtifactsInv, GroupsHistoric, Historic
<1>8. DiffFound'
      BY DEF ArtifactsInv, DiffFound
<1> QED BY <1>1, <1>2, <1>3, <1>6, <1>7, <1>8 DEF ArtifactsInv, JobsWell, AnswersGiven

(* What every step of a job starts from. *)
LEMMA JobFacts ==
  ASSUME ArtifactsInv, NEW n \in DOMAIN job
  PROVE  /\ n \in Job /\ n # NoValue /\ job[n] \in Jobs /\ job[n].target \in Target
         /\ job[n].id \in InstanceIds \cup {NoValue}
         /\ JobWell(n) /\ JobGiven(n)
         /\ job[n].phase \in {"queued", "locked", "creating"} => n \notin DOMAIN artifact
         /\ \A k \in DOMAIN job : job[k].target \in Target /\ k \in Job /\ JobWell(k)
<1>1. job[n] \in Jobs /\ n \in Job /\ \A k \in DOMAIN job : job[k] \in Jobs /\ k \in Job
      BY DEF ArtifactsInv, ArtifactsTypes
<1>2. NoValue \notin Job
      BY ArtifactsAssumption
<1>3. job[n].phase \in {"queued", "locked", "creating"} => n \notin DOMAIN artifact
      BY <1>1 DEF ArtifactsInv, InstancesWell, InstanceWell
<1> QED BY <1>1, <1>2, <1>3 DEF ArtifactsInv, JobsWell, AnswersGiven, Jobs

(* The lock of a target is given back only by its holder. *)
LEMMA ReleasedStep ==
  ASSUME ArtifactsInv, NEW n \in DOMAIN job, mutex' = Released(n)
  PROVE  /\ mutex' \in [Target -> Job \cup {NoValue}]
         /\ \A k \in DOMAIN job \ {n} : mutex[job[k].target] = k => mutex'[job[k].target] = k
<1>1. mutex \in [Target -> Job \cup {NoValue}]
      BY DEF ArtifactsInv, ArtifactsTypes
<1>2. \A k \in DOMAIN job : job[k].target \in Target
      BY JobFacts
<1> QED BY <1>1, <1>2 DEF Released

(* A step of a job that leaves the instances and the messages alone. *)
LEMMA QuietStep ==
  ASSUME ArtifactsInv, NEW n \in DOMAIN job, NEW j \in Jobs, job' = [job EXCEPT ![n] = j],
         UNCHANGED <<definition, content, uses, listed, modified, members, group, diff, artifact, updates>>,
         mutex' \in [Target -> Job \cup {NoValue}],
         \A k \in DOMAIN job \ {n} : mutex[job[k].target] = k => mutex'[job[k].target] = k,
         n \in DOMAIN artifact => j.phase \in {"defined", "queried", "done", "failed"},
         JobWell(n)', JobGiven(n)'
  PROVE  ArtifactsInv'
<1>1. DOMAIN job' = DOMAIN job /\ \A k \in DOMAIN job : job'[k] = IF k = n THEN j ELSE job[k]
      BY DEF ArtifactsInv, ArtifactsTypes
<1>2. InstancesWell'
  <2>1. \A a \in DOMAIN artifact : InstanceWell(a)'
        BY <1>1 DEF ArtifactsInv, InstancesWell, InstanceWell
  <2> QED BY <2>1 DEF ArtifactsInv, InstancesWell, OneInstance
<1>3. \A a \in DOMAIN artifact' : InstanceGiven(a)'
      BY DEF ArtifactsInv, AnswersGiven, InstanceGiven, Given, Historic, Noted
<1>4. \A k \in DOMAIN job \ {n} : job[k].phase = "creating" =>
         \A a \in DOMAIN artifact' : artifact'[a].target # job[k].target
      BY DEF ArtifactsInv, JobsWell, JobWell, InstancesOf
<1>5. /\ DOMAIN artifact' \subseteq InstanceIds /\ artifact' \in [DOMAIN artifact' -> Instances]
      /\ updates' \subseteq Updates
      BY DEF ArtifactsInv, ArtifactsTypes
<1> QED BY <1>2, <1>3, <1>4, <1>5, JobStep

LEMMA FoundStep ==
  ASSUME ArtifactsInv, NEW n \in DOMAIN job, NEW from, NEW a \in InstancesOf(job[n].target),
         Found(n, from, a)
  PROVE  ArtifactsInv'
<1> DEFINE j == [job[n] EXCEPT !.phase = "defined", !.id = a, !.read = artifact[a]]
<1>1. /\ job' = [job EXCEPT ![n] = j] /\ mutex' = Released(n)
      /\ UNCHANGED <<definition, content, uses, listed, modified, members, group, diff, updates>>
      BY DEF Found, Step
<1>2. /\ a \in DOMAIN artifact /\ a \in InstanceIds /\ artifact[a] \in Instances /\ a # NoValue
      /\ artifact[a].target = job[n].target
      /\ artifact \in [DOMAIN artifact -> Instances] /\ DOMAIN artifact \subseteq InstanceIds
      BY NoValueIsOther DEF InstancesOf, ArtifactsInv, ArtifactsTypes
<1>3. /\ j \in Jobs /\ j.phase = "defined" /\ j.id = a /\ j.read = artifact[a]
      /\ j.target = job[n].target
      BY <1>2, JobFacts DEF Jobs
<1> HIDE DEF j
<1>4. DOMAIN job' = DOMAIN job /\ \A k \in DOMAIN job : job'[k] = IF k = n THEN j ELSE job[k]
      BY <1>1 DEF ArtifactsInv, ArtifactsTypes
<1>5. PICK x \in Instances : x = artifact[a]
      BY <1>2
<1> DEFINE y == IF definition = "artifact" THEN x ELSE [x EXCEPT !.status = "Pending"]
<1>6. /\ y \in Instances /\ y.target = x.target /\ y.content = x.content /\ y.writes = x.writes
      /\ definition = "artifact" => y.status = x.status
      /\ definition # "artifact" => y.status = "Pending"
      BY <1>5 DEF Instances
<1>7. artifact' = [artifact EXCEPT ![a] = y]
  <2>1. CASE definition = "artifact"
    <3>1. artifact' = artifact /\ y = artifact[a]
          BY <1>5, <2>1 DEF Found
    <3> QED BY <1>2, <3>1
  <2>2. CASE definition # "artifact"
        BY <1>5, <2>2 DEF Found
  <2> QED BY <2>1, <2>2
<1> HIDE DEF y
<1>8. /\ DOMAIN artifact' = DOMAIN artifact /\ artifact' \in [DOMAIN artifact' -> Instances]
      /\ \A b \in DOMAIN artifact : artifact'[b] = IF b = a THEN y ELSE artifact[b]
      BY <1>2, <1>6, <1>7
<1>9. \A b \in DOMAIN artifact : /\ artifact'[b].target = artifact[b].target
                                 /\ artifact'[b].content = artifact[b].content
      BY <1>5, <1>6, <1>8
<1>10. InstancesWell'
  <2>1. OneInstance'
        BY <1>8, <1>9 DEF ArtifactsInv, InstancesWell, OneInstance
  <2>2. ASSUME NEW b \in DOMAIN artifact PROVE InstanceWell(b)'
    <3>1. InstanceWell(b)
          BY DEF ArtifactsInv, InstancesWell
    <3>2. artifact'[b].status # "new" /\ (definition = "artifact" => artifact'[b].status = artifact[b].status)
          BY <1>5, <1>6, <1>8, <3>1 DEF InstanceWell
    <3>3. b \in Job => b \in DOMAIN job' /\ job'[b].phase \in {"defined", "queried", "done", "failed"}
          BY <1>3, <1>4, <3>1 DEF InstanceWell
    <3> QED BY <1>1, <1>9, <3>1, <3>2, <3>3 DEF InstanceWell
  <2> QED BY <1>8, <2>1, <2>2 DEF InstancesWell
<1>11. \A b \in DOMAIN artifact' : InstanceGiven(b)'
      BY <1>1, <1>8, <1>9 DEF ArtifactsInv, AnswersGiven, InstanceGiven, Given, Historic, Noted
<1>12. ASSUME NEW b \in DOMAIN artifact, NEW r \in Instances, ReadOf(r, artifact[b])
       PROVE  ReadOf(r, artifact'[b])
      BY <1>5, <1>6, <1>8, <1>12 DEF ReadOf
<1>13. \A k \in DOMAIN job \ {n} : job[k].phase = "creating" =>
         \A b \in DOMAIN artifact' : artifact'[b].target # job[k].target
      BY <1>8, <1>9 DEF ArtifactsInv, JobsWell, JobWell, InstancesOf
<1>14. JobWell(n)'
  <2>1. ReadOf(x, y)
    <3>1. InstanceWell(a)
          BY <1>2 DEF ArtifactsInv, InstancesWell
    <3>2. x.writes \in Nat /\ x.status \in {"new", "Pending", "Ready", "Error"}
          BY DEF Instances
    <3> QED BY <1>5, <1>6, <3>1, <3>2 DEF ReadOf, InstanceWell
  <2>2. job'[n] = j /\ artifact'[a] = y
        BY <1>2, <1>4, <1>8
  <2>3. j.read \in Instances /\ Instances' = Instances
        BY <1>2, <1>3 DEF Instances
  <2> QED BY <1>1, <1>2, <1>3, <1>5, <1>6, <1>8, <2>1, <2>2, <2>3 DEF JobWell, ReadOf
<1>15. JobGiven(n)'
  <2>1. InstanceGiven(a)
        BY <1>2 DEF ArtifactsInv, AnswersGiven
  <2> QED BY <1>1, <1>2, <1>3, <1>4, <2>1 DEF JobGiven, InstanceGiven, Given, Historic, Noted
<1> QED BY <1>1, <1>2, <1>3, <1>8, <1>9, <1>10, <1>11, <1>12, <1>13, <1>14, <1>15,
           ReleasedStep, JobStep DEF ArtifactsInv, ArtifactsTypes

LEMMA GetByIdStep == ASSUME ArtifactsInv, NEW n \in DOMAIN job, GetById(n) PROVE ArtifactsInv'
<1>1. job[n].id \in InstancesOf(job[n].target)
      BY JobFacts DEF GetById, JobWell, InstancesOf
<1> QED BY <1>1, FoundStep DEF GetById

LEMMA AcquireStep == ASSUME ArtifactsInv, NEW n \in DOMAIN job, Acquire(n) PROVE ArtifactsInv'
<1> DEFINE j == [job[n] EXCEPT !.phase = "locked"]
<1>1. /\ job' = [job EXCEPT ![n] = j] /\ job[n].phase = "queued" /\ job[n].id = NoValue
      /\ mutex[job[n].target] = NoValue /\ mutex' = [mutex EXCEPT ![job[n].target] = n]
      /\ UNCHANGED <<definition, content, uses, listed, modified, members, group, diff, artifact, updates>>
      BY DEF Acquire, Step
<1>2. j \in Jobs /\ j.phase = "locked" /\ j.id = NoValue /\ j.target = job[n].target
      BY <1>1, JobFacts DEF Jobs
<1> HIDE DEF j
<1>3. job'[n] = j
      BY <1>1 DEF ArtifactsInv, ArtifactsTypes
<1>4. mutex \in [Target -> Job \cup {NoValue}] /\ n \in Job /\ job[n].target \in Target
      BY JobFacts DEF ArtifactsInv, ArtifactsTypes
<1>5. mutex' \in [Target -> Job \cup {NoValue}] /\ mutex'[job[n].target] = n
      BY <1>1, <1>4
<1>6. \A k \in DOMAIN job \ {n} : mutex[job[k].target] = k => mutex'[job[k].target] = k
  <2>1. \A k \in DOMAIN job : job[k].target \in Target /\ k # NoValue
        BY JobFacts
  <2> QED BY <1>1, <1>4, <2>1
<1>7. n \notin DOMAIN artifact
      BY <1>1, JobFacts
<1>8. JobWell(n)' /\ JobGiven(n)'
      BY <1>2, <1>3, <1>5 DEF JobWell, JobGiven
<1> QED BY <1>1, <1>2, <1>5, <1>6, <1>7, <1>8, QuietStep

LEMMA SearchStep == ASSUME ArtifactsInv, NEW n \in DOMAIN job, Search(n) PROVE ArtifactsInv'
<1>1. CASE \E a \in InstancesOf(job[n].target) : Found(n, "locked", a)
      BY <1>1, FoundStep
<1>2. CASE ~ \E a \in InstancesOf(job[n].target) : Found(n, "locked", a)
  <2> DEFINE j == [job[n] EXCEPT !.phase = "creating"]
  <2>1. /\ job' = [job EXCEPT ![n] = j] /\ job[n].phase = "locked" /\ InstancesOf(job[n].target) = {}
        /\ UNCHANGED <<definition, content, uses, listed, modified, members, group, diff, artifact, updates, mutex>>
        BY <1>2 DEF Search, Step
  <2>2. j \in Jobs /\ j.phase = "creating" /\ j.id = NoValue /\ j.target = job[n].target
        BY <2>1, JobFacts DEF Jobs, JobWell
  <2> HIDE DEF j
  <2>3. job'[n] = j
        BY <2>1 DEF ArtifactsInv, ArtifactsTypes
  <2>4. mutex' \in [Target -> Job \cup {NoValue}] /\ mutex'[job[n].target] = n
        BY <2>1, JobFacts DEF ArtifactsInv, ArtifactsTypes, JobWell
  <2>5. n \notin DOMAIN artifact
        BY <2>1, JobFacts
  <2>6. JobWell(n)' /\ JobGiven(n)'
        BY <2>1, <2>2, <2>3, <2>4 DEF JobWell, JobGiven, InstancesOf
  <2> QED BY <2>1, <2>2, <2>4, <2>5, <2>6, QuietStep
<1> QED BY <1>1, <1>2

LEMMA RetryStep == ASSUME ArtifactsInv, NEW n \in DOMAIN job, Retry(n) PROVE ArtifactsInv'
<1> DEFINE j == Queued(job[n].target, job[n].id)
<1>1. /\ job' = [job EXCEPT ![n] = j] /\ job[n].phase \in {"locked", "creating"} /\ mutex' = Released(n)
      /\ UNCHANGED <<definition, content, uses, listed, modified, members, group, diff, artifact, updates>>
      BY DEF Retry, Step
<1>2. j \in Jobs /\ j.phase = "queued" /\ j.id = NoValue
      BY <1>1, JobFacts DEF Jobs, Queued, JobWell
<1> HIDE DEF j
<1>3. job'[n] = j
      BY <1>1 DEF ArtifactsInv, ArtifactsTypes
<1>4. n \notin DOMAIN artifact
      BY <1>1, JobFacts
<1>5. JobWell(n)' /\ JobGiven(n)'
      BY <1>2, <1>3 DEF JobWell, JobGiven
<1> QED BY <1>1, <1>2, <1>4, <1>5, ReleasedStep, QuietStep

LEMMA CreateInstanceStep ==
  ASSUME ArtifactsInv, NEW n \in DOMAIN job, CreateInstance(n) PROVE ArtifactsInv'
<1> DEFINE new == [target |-> job[n].target, status |-> "Pending", content |-> NoValue, writes |-> 0]
           read == [new EXCEPT !.status = "new"]
           j == [job[n] EXCEPT !.phase = "defined", !.id = n, !.read = read]
<1>1. /\ job' = [job EXCEPT ![n] = j] /\ job[n].phase = "creating" /\ mutex' = Released(n)
      /\ artifact' = [a \in DOMAIN artifact \cup {n} |-> IF a = n THEN new ELSE artifact[a]]
      /\ UNCHANGED <<definition, content, uses, listed, modified, members, group, diff, updates>>
      BY DEF CreateInstance, Step
<1>2. /\ n \in Job /\ n \in InstanceIds /\ n # NoValue /\ job[n] \in Jobs /\ job[n].target \in Target
      /\ n \notin DOMAIN artifact /\ InstancesOf(job[n].target) = {} /\ mutex[job[n].target] = n
      BY <1>1, JobFacts DEF JobWell, InstanceIds
<1>3. new \in Instances /\ read \in Instances /\ ReadOf(read, new) /\ read.content = NoValue
      BY <1>2 DEF Instances, ReadOf
<1>4. j \in Jobs /\ j.phase = "defined" /\ j.id = n /\ j.read = read /\ j.target = job[n].target
      BY <1>2, <1>3 DEF Jobs
<1> HIDE DEF j, read
<1>5. DOMAIN job' = DOMAIN job /\ \A k \in DOMAIN job : job'[k] = IF k = n THEN j ELSE job[k]
      BY <1>1 DEF ArtifactsInv, ArtifactsTypes
<1>6. artifact \in [DOMAIN artifact -> Instances] /\ DOMAIN artifact \subseteq InstanceIds
      BY DEF ArtifactsInv, ArtifactsTypes
<1>7. /\ DOMAIN artifact' = DOMAIN artifact \cup {n} /\ artifact'[n] = new
      /\ \A a \in DOMAIN artifact : artifact'[a] = artifact[a]
      /\ artifact' \in [DOMAIN artifact' -> Instances]
      BY <1>1, <1>2, <1>3, <1>6
<1>8. /\ new.target = job[n].target /\ new.status = "Pending" /\ new.content = NoValue
      OBVIOUS
<1> HIDE DEF new
<1>9. InstancesWell'
  <2>1. OneInstance'
        BY <1>2, <1>7, <1>8 DEF ArtifactsInv, InstancesWell, OneInstance, InstancesOf
  <2>2. ASSUME NEW a \in DOMAIN artifact PROVE InstanceWell(a)'
    <3>1. InstanceWell(a)
          BY DEF ArtifactsInv, InstancesWell
    <3> QED BY <1>1, <1>4, <1>5, <1>7, <3>1 DEF InstanceWell
  <2>3. InstanceWell(n)'
        BY <1>4, <1>5, <1>7, <1>8 DEF InstanceWell
  <2> QED BY <1>7, <2>1, <2>2, <2>3 DEF InstancesWell
<1>10. ASSUME NEW a \in DOMAIN artifact' PROVE InstanceGiven(a)'
  <2>1. CASE a = n
        BY <1>7, <1>8, <2>1 DEF InstanceGiven
  <2>2. CASE a # n
    <3>1. InstanceGiven(a) /\ artifact'[a] = artifact[a]
          BY <1>7, <2>2 DEF ArtifactsInv, AnswersGiven
    <3> QED BY <1>1, <3>1 DEF InstanceGiven, Given, Historic, Noted
  <2> QED BY <2>1, <2>2
<1>11. ASSUME NEW k \in DOMAIN job \ {n}, job[k].phase = "creating", NEW a \in DOMAIN artifact'
       PROVE  artifact'[a].target # job[k].target
  <2>1. mutex[job[k].target] = k /\ InstancesOf(job[k].target) = {}
        BY <1>11, JobFacts DEF JobWell
  <2> QED BY <1>2, <1>7, <1>8, <2>1 DEF InstancesOf
<1>12. JobWell(n)'
  <2>1. job'[n] = j /\ Instances' = Instances
        BY <1>5 DEF Instances
  <2>2. ReadOf(read, new)'
        BY <1>1, <1>3 DEF ReadOf, read, new
  <2>3. artifact'[j.id] = new /\ j.id \in DOMAIN artifact' /\ new.target = j.target /\ j.id # NoValue
        BY <1>2, <1>4, <1>7, <1>8
  <2>4. ReadOf(j.read, artifact'[j.id])
        BY <1>3, <1>4, <2>3
  <2> QED BY <1>1, <1>3, <1>4, <2>1, <2>3, <2>4 DEF JobWell, ReadOf
<1>13. JobGiven(n)'
      BY <1>3, <1>4, <1>5 DEF JobGiven
<1>14. DOMAIN artifact \subseteq DOMAIN artifact' /\ DOMAIN artifact' \subseteq InstanceIds
      BY <1>2, <1>6, <1>7
<1>15. updates \subseteq Updates
      BY DEF ArtifactsInv, ArtifactsTypes
<1>16. \A a \in DOMAIN artifact : /\ artifact'[a].target = artifact[a].target
                                  /\ \A r \in Instances : ReadOf(r, artifact[a]) => ReadOf(r, artifact'[a])
      BY <1>7
<1> QED BY <1>1, <1>4, <1>7, <1>9, <1>10, <1>11, <1>12, <1>13, <1>14, <1>15, <1>16, ReleasedStep, JobStep

LEMMA QueryStep == ASSUME ArtifactsInv, NEW n \in DOMAIN job, Query(n) PROVE ArtifactsInv'
<1> DEFINE t == job[n].target
           j == [job[n] EXCEPT !.phase = "queried", !.response = Response(t)]
           m == [target |-> t, members |-> uses[t], subscriber |-> job[n].id, sender |-> n, stored |-> FALSE]
<1>1. /\ job' = [job EXCEPT ![n] = j] /\ job[n].phase = "defined" /\ updates' = updates \cup {m}
      /\ UNCHANGED <<definition, content, uses, listed, modified, members, group, diff, artifact, mutex>>
      BY DEF Query, Step
<1>2. /\ n \in Job /\ t \in Target /\ job[n] \in Jobs /\ job[n].id \in InstanceIds
      BY <1>1, JobFacts DEF JobWell
<1>3. content \in [Input -> Nat] /\ uses[t] \in SUBSET Input /\ t \in uses[t]
      BY <1>2 DEF ArtifactsInv, ArtifactsTypes
<1>4. Response(t) \in Answers /\ Given(Response(t), t)
  <2>1. Response(t) \in [uses[t] -> Nat]
        BY <1>3 DEF Response
  <2>2. Response(t) \in Answers
        BY <1>3, <2>1 DEF Answers
  <2>3. DOMAIN Response(t) = uses[t] /\ \A i \in uses[t] : Response(t)[i] = content[i]
        BY DEF Response
  <2> QED BY <1>3, <2>2, <2>3 DEF Given, Historic
<1>5. /\ j \in Jobs /\ j.phase = "queried" /\ j.id = job[n].id /\ j.target = t
      /\ j.read = job[n].read /\ j.response = Response(t)
      BY <1>2, <1>4 DEF Jobs
<1>6. /\ m \in Updates /\ m.target = t /\ m.members = uses[t] /\ m.subscriber = job[n].id
      /\ m.stored = FALSE
      BY <1>2, <1>3 DEF Updates
<1> HIDE DEF j, m, t
<1>7. DOMAIN job' = DOMAIN job /\ \A k \in DOMAIN job : job'[k] = IF k = n THEN j ELSE job[k]
      BY <1>1 DEF ArtifactsInv, ArtifactsTypes
<1>8. InstancesWell'
  <2>1. ASSUME NEW a \in DOMAIN artifact PROVE InstanceWell(a)'
    <3>1. InstanceWell(a)
          BY DEF ArtifactsInv, InstancesWell
    <3> QED BY <1>1, <1>5, <1>7, <3>1 DEF InstanceWell
  <2> QED BY <1>1, <2>1 DEF ArtifactsInv, InstancesWell, OneInstance
<1>9. \A a, u : Noted(a, u) => Noted(a, u)'
      BY <1>1 DEF Noted
<1>10. \A c, u : Given(c, u)' <=> Given(c, u)
      BY <1>1 DEF Given, Historic
<1>11. \A a \in DOMAIN artifact' : InstanceGiven(a)'
      BY <1>1, <1>9, <1>10 DEF ArtifactsInv, AnswersGiven, InstanceGiven
<1>12. JobWell(n)'
  <2>1. JobWell(n) /\ job'[n] = j /\ Instances' = Instances /\ NoValue \notin Answers
        BY <1>7, JobFacts, NoValueIsOther DEF Instances
  <2> QED BY <1>1, <1>4, <1>5, <2>1 DEF JobWell, ReadOf, t
<1>13. JobGiven(n)'
  <2>1. JobGiven(n) /\ job'[n] = j
        BY <1>7, JobFacts
  <2>2. PICK u \in Target, a \in InstanceIds, c \in Answers : u = t /\ a = job[n].id /\ c = Response(t)
        BY <1>2, <1>4
  <2>3. Noted(a, u)'
        BY <1>1, <1>6, <2>2 DEF Noted
  <2>4. Given(c, u)'
        BY <1>4, <1>10, <2>2
  <2>5. job'[n].target = u /\ job'[n].id = a /\ job'[n].response = c /\ job'[n].read = job[n].read
        BY <1>5, <2>1, <2>2
  <2>6. job[n].read.content # NoValue => Given(job[n].read.content, u)
        BY <1>1, <2>1, <2>2 DEF JobGiven, t
  <2> QED BY <1>10, <2>3, <2>4, <2>5, <2>6 DEF JobGiven
<1>14. \A k \in DOMAIN job \ {n} : job[k].phase = "creating" =>
         \A a \in DOMAIN artifact' : artifact'[a].target # job[k].target
      BY <1>1 DEF ArtifactsInv, JobsWell, JobWell, InstancesOf
<1>15. updates' \subseteq Updates /\ updates \subseteq updates'
      BY <1>1, <1>6 DEF ArtifactsInv, ArtifactsTypes
<1>16. \A k \in updates' \ updates : k.stored = FALSE /\ Historic(k.members, k.target)
      BY <1>1, <1>3, <1>6 DEF Historic
<1>17. /\ DOMAIN artifact' \subseteq InstanceIds /\ artifact' \in [DOMAIN artifact' -> Instances]
       /\ mutex' \in [Target -> Job \cup {NoValue}]
      BY <1>1 DEF ArtifactsInv, ArtifactsTypes
<1> QED BY <1>1, <1>5, <1>8, <1>11, <1>12, <1>13, <1>14, <1>15, <1>16, <1>17, JobStep

(* The end of a job that saves the instance, as it ends or as it fails. *)
LEMMA SavedStep ==
  ASSUME ArtifactsInv, NEW n \in DOMAIN job, job[n].phase \in {"defined", "queried"},
         NEW phase \in {"done", "failed"}, job' = [job EXCEPT ![n] = [job[n] EXCEPT !.phase = phase]],
         UNCHANGED <<definition, content, uses, listed, modified, members, group, diff, updates, mutex>>,
         NEW status \in {"Ready", "Error"}, NEW c \in Answers \cup {NoValue},
         c = job[n].read.content \/ (job[n].phase = "queried" /\ c = job[n].response),
         artifact' = Saved(n, status, c)
  PROVE  ArtifactsInv'
<1> DEFINE j == [job[n] EXCEPT !.phase = phase]
<1>1. j \in Jobs /\ j.phase = phase /\ j.id = job[n].id /\ j.target = job[n].target
      BY JobFacts DEF Jobs
<1> HIDE DEF j
<1>2. DOMAIN job' = DOMAIN job /\ \A k \in DOMAIN job : job'[k] = IF k = n THEN j ELSE job[k]
      BY DEF ArtifactsInv, ArtifactsTypes, j
<1>3. JobWell(n) /\ JobGiven(n)
      BY JobFacts
<1>4. PICK a \in DOMAIN artifact : a = job[n].id /\ artifact[a].target = job[n].target
      BY <1>3 DEF JobWell
<1>5. PICK x \in Instances : x = artifact[a]
      BY DEF ArtifactsInv, ArtifactsTypes
<1>6. PICK r \in Instances : r = job[n].read /\ ReadOf(r, x)
      BY <1>3, <1>4, <1>5 DEF JobWell
<1> DEFINE y == [target |-> x.target,
                 status |-> IF definition = "artifact" /\ r.status = status THEN x.status ELSE status,
                 content |-> IF r.content = c THEN x.content ELSE c,
                 writes |-> x.writes + 1]
<1>7. /\ y \in Instances /\ y.target = x.target /\ y.writes = x.writes + 1
      /\ y.status = IF definition = "artifact" /\ r.status = status THEN x.status ELSE status
      /\ y.content = IF r.content = c THEN x.content ELSE c
      BY DEF Instances
<1>8. artifact' = [artifact EXCEPT ![a] = y]
      BY <1>4, <1>5, <1>6 DEF Saved
<1> HIDE DEF y
<1>9. artifact \in [DOMAIN artifact -> Instances] /\ DOMAIN artifact \subseteq InstanceIds
      BY DEF ArtifactsInv, ArtifactsTypes
<1>10. /\ DOMAIN artifact' = DOMAIN artifact /\ artifact' \in [DOMAIN artifact' -> Instances]
       /\ \A b \in DOMAIN artifact : artifact'[b] = IF b = a THEN y ELSE artifact[b]
      BY <1>7, <1>8, <1>9
<1>11. \A b \in DOMAIN artifact : artifact'[b].target = artifact[b].target
      BY <1>5, <1>7, <1>10
<1>12. definition = "artifact" /\ r.status = status => x.status \in {"Ready", "Error"}
      BY <1>6 DEF ReadOf
<1>13. y.status \in {"Ready", "Error"}
      BY <1>7, <1>12
<1>14. InstancesWell'
  <2>1. OneInstance'
        BY <1>10, <1>11 DEF ArtifactsInv, InstancesWell, OneInstance
  <2>2. ASSUME NEW b \in DOMAIN artifact PROVE InstanceWell(b)'
    <3>1. InstanceWell(b)
          BY DEF ArtifactsInv, InstancesWell
    <3>2. b \in Job => b \in DOMAIN job' /\ job'[b].phase \in {"defined", "queried", "done", "failed"}
          BY <1>1, <1>2, <3>1 DEF InstanceWell
    <3> QED BY <1>10, <1>13, <3>1, <3>2 DEF InstanceWell
  <2> QED BY <1>10, <2>1, <2>2 DEF InstancesWell
<1>15. \A d, t : Given(d, t)' <=> Given(d, t)
      BY DEF Given, Historic
<1>16. \A b, t : Noted(b, t)' <=> Noted(b, t)
      BY DEF Noted
<1>17. ASSUME NEW b \in DOMAIN artifact' PROVE InstanceGiven(b)'
  <2>1. b \in DOMAIN artifact /\ InstanceGiven(b)
        BY <1>10 DEF ArtifactsInv, AnswersGiven
  <2>2. CASE b # a
    <3>1. artifact'[b] = artifact[b]
          BY <1>10, <2>1, <2>2
    <3> QED BY <1>15, <1>16, <2>1, <3>1 DEF InstanceGiven
  <2>3. CASE b = a
    <3>1. artifact'[b] = y /\ y.target = job[n].target /\ x.target = job[n].target /\ artifact[b] = x
          BY <1>4, <1>5, <1>7, <1>10, <2>3
    <3>2. c # NoValue /\ y.content = c => Given(c, job[n].target) /\ Noted(a, job[n].target)
          BY <1>3, <1>4, <1>6 DEF JobGiven
    <3>3. y.content # NoValue => Given(y.content, y.target) /\ Noted(a, y.target)
          BY <1>7, <2>1, <2>3, <3>1, <3>2 DEF InstanceGiven
    <3>4. PICK d, t : d = y.content /\ t = y.target
          OBVIOUS
    <3>5. d # NoValue => Given(d, t)' /\ Noted(a, t)'
          BY <1>15, <1>16, <3>3, <3>4
    <3> QED BY <2>3, <3>1, <3>4, <3>5 DEF InstanceGiven
  <2> QED BY <2>2, <2>3
<1>18. ASSUME NEW b \in DOMAIN artifact, NEW s \in Instances, ReadOf(s, artifact[b])
       PROVE  ReadOf(s, artifact'[b])
  <2>1. CASE b # a
        BY <1>10, <1>18, <2>1
  <2>2. CASE b = a
    <3>1. artifact'[b] = y /\ artifact[b] = x
          BY <1>5, <1>10, <2>2
    <3>2. s.writes \in Nat /\ x.writes \in Nat
          BY DEF Instances
    <3>3. s.writes <= y.writes /\ s.writes # y.writes
          BY <1>7, <1>18, <3>1, <3>2 DEF ReadOf
    <3> QED BY <1>13, <1>18, <3>1, <3>3 DEF ReadOf
  <2> QED BY <2>1, <2>2
<1>19. \A k \in DOMAIN job \ {n} : job[k].phase = "creating" =>
         \A b \in DOMAIN artifact' : artifact'[b].target # job[k].target
      BY <1>10, <1>11 DEF ArtifactsInv, JobsWell, JobWell, InstancesOf
<1>20. JobWell(n)' /\ JobGiven(n)'
  <2>1. job'[n] = j /\ j.id = a /\ j.target = x.target /\ artifact'[a].target = x.target /\ a \in DOMAIN artifact'
        BY <1>1, <1>2, <1>4, <1>5, <1>10, <1>11
  <2> QED BY <1>1, <2>1 DEF JobWell, JobGiven
<1>21. /\ mutex' \in [Target -> Job \cup {NoValue}] /\ updates' \subseteq Updates
       /\ DOMAIN artifact' \subseteq InstanceIds
      BY <1>9, <1>10 DEF ArtifactsInv, ArtifactsTypes
<1>22. job' = [job EXCEPT ![n] = j]
      BY DEF j
<1> QED BY <1>1, <1>10, <1>11, <1>14, <1>17, <1>18, <1>19, <1>20, <1>21, <1>22, JobStep

LEMMA RenderStep ==
  ASSUME ArtifactsInv, NEW n \in DOMAIN job, render_artifact(n) \/ RenderFails(n) PROVE ArtifactsInv'
<1>1. JobWell(n) /\ job[n] \in Jobs
      BY JobFacts
<1>2. job[n].phase \in {"defined", "queried"} => job[n].read.content \in Answers \cup {NoValue}
      BY <1>1 DEF JobWell, Instances
<1>3. job[n].response \in Answers \cup {NoValue}
      BY <1>1 DEF Jobs
<1>4. CASE render_artifact(n)
  <2>1. /\ job[n].phase = "queried" /\ job' = [job EXCEPT ![n] = [job[n] EXCEPT !.phase = "done"]]
        /\ UNCHANGED <<definition, content, uses, listed, modified, members, group, diff, updates, mutex>>
        BY <1>4 DEF render_artifact, Step
  <2>2. CASE artifact' = Saved(n, "Ready", job[n].response)
        BY <1>3, <2>1, <2>2, SavedStep
  <2>3. CASE artifact' = artifact
    <3> DEFINE j == [job[n] EXCEPT !.phase = "done"]
    <3>1. j \in Jobs /\ j.phase = "done" /\ j.id = job[n].id /\ j.target = job[n].target
          BY <1>1 DEF Jobs
    <3> HIDE DEF j
    <3>2. job'[n] = j
          BY <2>1 DEF ArtifactsInv, ArtifactsTypes, j
    <3>3. JobWell(n)' /\ JobGiven(n)'
          BY <1>1, <2>3, <3>1, <3>2 DEF JobWell, JobGiven
    <3>4. mutex' \in [Target -> Job \cup {NoValue}]
          BY <2>1 DEF ArtifactsInv, ArtifactsTypes
    <3>5. job' = [job EXCEPT ![n] = j]
          BY <2>1 DEF j
    <3> QED BY <2>1, <2>3, <3>1, <3>3, <3>4, <3>5, QuietStep
  <2> QED BY <1>4, <2>2, <2>3 DEF render_artifact
<1>5. CASE RenderFails(n)
  <2>1. /\ job[n].phase \in {"defined", "queried"}
        /\ job' = [job EXCEPT ![n] = [job[n] EXCEPT !.phase = "failed"]]
        /\ UNCHANGED <<definition, content, uses, listed, modified, members, group, diff, updates, mutex>>
        BY <1>5 DEF RenderFails, Step
  <2>2. PICK c \in Answers \cup {NoValue} :
          /\ c = job[n].read.content \/ (job[n].phase = "queried" /\ c = job[n].response)
          /\ artifact' = Saved(n, "Error", c)
        BY <1>2, <1>3, <1>5 DEF RenderFails, Step
  <2> QED BY <2>1, <2>2, SavedStep
<1> QED BY <1>4, <1>5

LEMMA ArtifactsInvariant == ArtifactsSpec => []ArtifactsInv
<1>1. ArtifactsInv /\ [ArtifactsNext]_artifactVars => ArtifactsInv'
  <2> SUFFICES ASSUME ArtifactsInv, [ArtifactsNext]_artifactVars PROVE ArtifactsInv'
      OBVIOUS
  <2>1. CASE Edit \/ Relate \/ ChangeMembers
        BY <2>1, EditStep
  <2>2. CASE Pipeline
        BY <2>2, PipelineStep
  <2>3. CASE Check \/ Generate
        BY <2>3, CheckStep
  <2>4. ASSUME NEW n \in DOMAIN job,
               \/ GetById(n) \/ Acquire(n) \/ Search(n) \/ CreateInstance(n)
               \/ Query(n) \/ render_artifact(n) \/ RenderFails(n) \/ Retry(n)
        PROVE  ArtifactsInv'
        BY <2>4, GetByIdStep, AcquireStep, SearchStep, CreateInstanceStep, QueryStep, RenderStep, RetryStep
  <2>5. ASSUME NEW m \in updates, UpdateMembers(m) \/ group_add_subscriber(m) PROVE ArtifactsInv'
        BY <2>5, MessageStep
  <2>6. CASE UNCHANGED artifactVars
    <3>1. UNCHANGED <<definition, content, uses, listed, modified, members, artifact, group, updates, diff, job, mutex>>
          BY <2>6 DEF artifactVars
    <3>2. ArtifactsTypes' /\ InstancesWell'
          BY <3>1 DEF ArtifactsInv, ArtifactsTypes, InstancesWell, InstanceWell, OneInstance
    <3>3. JobsWell' /\ DiffFound'
          BY <3>1 DEF ArtifactsInv, JobsWell, JobWell, ReadOf, InstancesOf, DiffFound
    <3>4. GroupsHistoric' /\ AnswersGiven'
          BY <3>1 DEF ArtifactsInv, GroupsHistoric, AnswersGiven, InstanceGiven, JobGiven, Given, Historic, Noted
    <3> QED BY <3>2, <3>3, <3>4 DEF ArtifactsInv
  <2> QED BY <2>1, <2>2, <2>3, <2>4, <2>5, <2>6 DEF ArtifactsNext
<1> QED BY <1>1, ArtifactsInitial, PTL DEF ArtifactsSpec

(* A target has one artifact or generator instance, however many messages     *)
(* that were sent before it had any mean to create it: only the holder of its *)
(* lock creates one, and has found none since it got the lock.                *)
THEOREM OneInstanceAlways == ArtifactsSpec => []OneInstance
<1>1. ArtifactsInv => OneInstance
      BY DEF ArtifactsInv, InstancesWell
<1> QED BY <1>1, ArtifactsInvariant, PTL

(* Only render_artifact ends a job well. *)
LEMMA EndsWell ==
  ASSUME ArtifactsInv, [ArtifactsNext]_artifactVars, NEW n \in DOMAIN job,
         job[n].phase = "queried", job'[n].phase = "done"
  PROVE  render_artifact(n)
<1>1. job \in [DOMAIN job -> Jobs]
      BY DEF ArtifactsInv, ArtifactsTypes
<1>2. job' # job
      BY <1>1
<1>3. ~ (Edit \/ Relate \/ ChangeMembers \/ Pipeline \/ UNCHANGED artifactVars)
      BY <1>2 DEF Edit, Relate, ChangeMembers, Edited, Pipeline, artifactVars
<1>4. ~ (Check \/ Generate)
  <2>1. members \subseteq Target
        BY DEF ArtifactsInv, ArtifactsTypes
  <2>2. ASSUME NEW targets \in SUBSET Target, SendJobs(targets) PROVE FALSE
    <3>1. job'[n] = job[n]
          BY <2>2, SendJobsStep
    <3> QED BY <3>1
  <2> QED BY <2>1, <2>2 DEF Check, Generate
<1>5. \A m \in updates : ~ (UpdateMembers(m) \/ group_add_subscriber(m))
      BY <1>2 DEF UpdateMembers, group_add_subscriber
<1>6. PICK k \in DOMAIN job : \/ GetById(k) \/ Acquire(k) \/ Search(k) \/ CreateInstance(k)
                              \/ Query(k) \/ render_artifact(k) \/ RenderFails(k) \/ Retry(k)
      BY <1>3, <1>4, <1>5 DEF ArtifactsNext
<1>7. ASSUME NEW from, NEW to, Step(k, from, to) PROVE k = n /\ from = "queried" /\ to.phase = "done"
      BY <1>1, <1>7 DEF Step
<1>8. ~ (GetById(k) \/ Acquire(k) \/ Search(k) \/ CreateInstance(k) \/ Query(k) \/ Retry(k))
  <2>1. ASSUME NEW from \in {"queued", "locked"}, NEW a, Found(k, from, a) PROVE FALSE
        BY <1>7, <2>1 DEF Found
  <2>3. ~ GetById(k)
        BY <2>1 DEF GetById
  <2>4. ~ Search(k)
        BY <1>7, <2>1 DEF Search
  <2>2. ~ (Acquire(k) \/ CreateInstance(k) \/ Query(k) \/ Retry(k))
        BY <1>7 DEF Acquire, CreateInstance, Query, Retry
  <2> QED BY <2>2, <2>3, <2>4
<1>9. ~ RenderFails(k)
  <2>1. [job[k] EXCEPT !.phase = "failed"].phase = "failed"
        BY <1>1 DEF Jobs
  <2> QED BY <1>7, <2>1 DEF RenderFails
<1>10. render_artifact(k) => k = n
      BY <1>7 DEF render_artifact
<1> QED BY <1>6, <1>8, <1>9, <1>10

(* A job that ends without an error leaves an instance that is ready, with     *)
(* what was made from its query, unless another has written the instance since *)
(* it was read, or an artifact was in error and has the same content again:    *)
(* what was read is still there while nobody has written the instance.         *)
THEOREM RenderedReadyAlways == ArtifactsSpec => RenderedReady
<1> DEFINE Ready == \A n \in DOMAIN job :
              job[n].phase = "queried" /\ job'[n].phase = "done" /\ artifact[job[n].id].writes = job[n].read.writes =>
                 /\ artifact'[job[n].id].content = job[n].response
                 /\ \/ artifact'[job[n].id].status = "Ready"
                    \/ definition = "artifact" /\ job[n].read.status = "Error" /\ job[n].read.content = job[n].response
<1>1. ArtifactsInv /\ [ArtifactsNext]_artifactVars => Ready
  <2> SUFFICES ASSUME ArtifactsInv, [ArtifactsNext]_artifactVars, NEW n \in DOMAIN job,
                      job[n].phase = "queried", job'[n].phase = "done",
                      artifact[job[n].id].writes = job[n].read.writes
               PROVE  /\ artifact'[job[n].id].content = job[n].response
                      /\ \/ artifact'[job[n].id].status = "Ready"
                         \/ definition = "artifact" /\ job[n].read.status = "Error" /\ job[n].read.content = job[n].response
      OBVIOUS
  <2>1. render_artifact(n)
        BY EndsWell
  <2>2. JobWell(n)
        BY JobFacts
  <2>3. PICK a \in DOMAIN artifact : a = job[n].id
        BY <2>2 DEF JobWell
  <2>4. PICK x \in Instances : x = artifact[a]
        BY DEF ArtifactsInv, ArtifactsTypes
  <2>5. PICK r \in Instances : r = job[n].read /\ ReadOf(r, x) /\ r.writes = x.writes
        BY <2>2, <2>3, <2>4 DEF JobWell
  <2>6. r.content = x.content
        BY <2>5 DEF ReadOf
  <2>7. definition = "artifact" =>
          /\ x.status = r.status \/ (r.status = "new" /\ x.status = "Pending")
          /\ r.status \in {"new", "Pending"} => r.content = NoValue
          /\ r.status \in {"new", "Pending", "Ready", "Error"}
        BY <2>5 DEF ReadOf, Instances
  <2>8. job[n].response # NoValue
        BY <2>2 DEF JobWell
  <2>9. CASE definition = "artifact" /\ r.content = job[n].response
    <3>1. artifact' = artifact
          BY <2>1, <2>5, <2>9 DEF render_artifact
    <3> QED BY <2>3, <2>4, <2>5, <2>6, <2>7, <2>8, <2>9, <3>1
  <2>10. CASE ~ (definition = "artifact" /\ r.content = job[n].response)
    <3>1. artifact' = Saved(n, "Ready", job[n].response)
          BY <2>1, <2>5, <2>10 DEF render_artifact
    <3>2. /\ artifact'[a].content = IF r.content = job[n].response THEN x.content ELSE job[n].response
          /\ artifact'[a].status = IF definition = "artifact" /\ r.status = "Ready" THEN x.status ELSE "Ready"
          BY <2>3, <2>4, <2>5, <3>1 DEF Saved
    <3> QED BY <2>3, <2>6, <2>7, <3>2
  <2> QED BY <2>9, <2>10
<1>2. ArtifactsInv /\ [ArtifactsNext]_artifactVars => [Ready]_artifactVars
      BY <1>1
<1>3. ArtifactsSpec => [][Ready]_artifactVars
      BY <1>2, ArtifactsInvariant, PTL DEF ArtifactsSpec
<1> QED BY <1>3 DEF RenderedReady

(* A pipeline makes again every instance that was out of date when it started, *)
(* and the one that a target has not got, unless the message that subscribes   *)
(* the instance was still on its way or a generator depends on nothing but     *)
(* modified profiles: however its query has changed what it reads, the group   *)
(* has a node that was modified.                                               *)
THEOREM OutdatedSelectedAlways == ArtifactsSpec => OutdatedSelected
<1> DEFINE Found_all == diff.open /\ ~ diff'.open =>
              \A t \in members :
                 \/ \E n \in DOMAIN job' \ DOMAIN job : job'[n].target = t
                 \/ IF InstancesOf(t) = {} THEN t \notin diff.nodes
                    ELSE InstancesOf(t) \cap diff.outdated \subseteq diff.pending
                 \/ definition = "generator" /\ diff.nodes \subseteq Profile
<1>1. ASSUME [ArtifactsNext]_artifactVars, diff.open, ~ diff'.open PROVE Check
  <2>1. diff' # diff
        BY <1>1
  <2>2. ~ (Edit \/ Relate \/ ChangeMembers \/ Pipeline \/ Generate \/ UNCHANGED artifactVars)
        BY <1>1, <2>1 DEF Edit, Relate, ChangeMembers, Edited, Pipeline, Generate, artifactVars
  <2>3. \A m \in updates : ~ (UpdateMembers(m) \/ group_add_subscriber(m))
        BY <2>1 DEF UpdateMembers, group_add_subscriber
  <2>4. ASSUME NEW k, NEW from, NEW to, Step(k, from, to) PROVE FALSE
        BY <2>1, <2>4 DEF Step
  <2>5. \A k \in DOMAIN job : ~ (GetById(k) \/ Acquire(k) \/ Search(k) \/ CreateInstance(k))
        BY <2>4 DEF GetById, Acquire, Search, Found, CreateInstance
  <2>6. \A k \in DOMAIN job : ~ (Query(k) \/ render_artifact(k) \/ RenderFails(k) \/ Retry(k))
        BY <2>4 DEF Query, render_artifact, RenderFails, Retry
  <2> QED BY <1>1, <2>2, <2>3, <2>5, <2>6 DEF ArtifactsNext
<1>2. ArtifactsInv /\ [ArtifactsNext]_artifactVars => Found_all
  <2> SUFFICES ASSUME ArtifactsInv, Check, diff.open, NEW t \in members
               PROVE  \/ \E n \in DOMAIN job' \ DOMAIN job : job'[n].target = t
                      \/ IF InstancesOf(t) = {} THEN t \notin diff.nodes
                         ELSE InstancesOf(t) \cap diff.outdated \subseteq diff.pending
                      \/ definition = "generator" /\ diff.nodes \subseteq Profile
      BY <1>1
  <2>1. PICK sync_with_git \in BOOLEAN, has_file_modifications \in BOOLEAN :
          SendJobs(IF Selected(diff.nodes, sync_with_git, has_file_modifications)
                   THEN {u \in members : _render_artifact(u, sync_with_git, diff.impacted)} ELSE {})
        BY DEF Check
  <2>2. members \subseteq Target /\ definition \in {"artifact", "generator"}
        BY DEF ArtifactsInv, ArtifactsTypes
  <2>3. diff.outdated \subseteq diff.impacted \cup diff.pending /\ (diff.nodes = {} => diff.impacted = {})
        BY DEF ArtifactsInv, DiffFound
  <2>4. CASE Selected(diff.nodes, sync_with_git, has_file_modifications)
    <3> DEFINE targets == {u \in members : _render_artifact(u, sync_with_git, diff.impacted)}
    <3>1. targets \in SUBSET Target /\ SendJobs(targets)
          BY <2>1, <2>2, <2>4
    <3>2. t \in targets => \E n \in DOMAIN job' \ DOMAIN job : job'[n].target = t
      <4> HIDE DEF targets
      <4> QED BY <3>1, SendJobsStep
    <3>3. t \notin targets => InstancesOf(t) # {} /\ InstancesOf(t) \cap diff.impacted = {}
          BY DEF _render_artifact
    <3> QED BY <2>3, <3>2, <3>3
  <2>5. CASE ~ Selected(diff.nodes, sync_with_git, has_file_modifications)
        BY <2>2, <2>3, <2>5 DEF Selected
  <2> QED BY <2>4, <2>5
<1>3. ArtifactsInv /\ [ArtifactsNext]_artifactVars => [Found_all]_artifactVars
      BY <1>2
<1>4. ArtifactsSpec => [][Found_all]_artifactVars
      BY <1>3, ArtifactsInvariant, PTL DEF ArtifactsSpec
<1> QED BY <1>4 DEF OutdatedSelected
=============================================================================
