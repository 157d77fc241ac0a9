------------------------- MODULE BranchGraphProofs --------------------------
(***************************************************************************)
(* Proofs about BranchGraph for any branches, attributes, values and       *)
(* bounds: its type invariant, that a branch never holds two open values   *)
(* of one attribute, that deleting a branch leaves nothing of it, and what *)
(* the branches show after each operation.  The last three sections are    *)
(* about the SDK: the objects of SdkNode, the runs of GeneratorRuns and    *)
(* the pages of SdkListing.                                                *)
(***************************************************************************)
EXTENDS BranchGraph, SdkNode, SdkListing, GeneratorRuns,
        WellFoundedInduction, NaturalsInduction, FiniteSetTheorems, TLAPS

(* Where an attribute has an open edge on a branch, its closed edges there   *)
(* began no later: a read can then only find the open one.                   *)
ClosedBefore ==
  \A e, f \in edges :
    /\ e.to = Null /\ f.to # Null
    /\ e.br = f.br /\ e.attr = f.attr
    /\ e.br # Main \/ clean
    => f.from <= e.from

(* A pending merge has one change per attribute. *)
OneChange ==
  \A b \in Branch : \A f, g \in merge[b].changes : f.attr = g.attr => f = g

IInv == TypeOK /\ SingleOpen /\ ClosedBefore /\ OneChange

-----------------------------------------------------------------------------
(* A new edge is an edge. *)
LEMMA EdgeType ==
  ASSUME NEW a \in Attr, NEW v \in Value, NEW b \in AnyBranch, NEW t \in Time
  PROVE  edge(a, v, b, t) \in Edge
  BY DEF edge, Edge

(* Closing keeps everything of an edge except the time it ends. *)
LEMMA CloseType ==
  ASSUME NEW S \in SUBSET Edge, NEW t \in Time, NEW e \in Close(S, t)
  PROVE  /\ e \in Edge /\ e.to = t /\ e.to # Null
         /\ \E f \in S : e.br = f.br /\ e.attr = f.attr /\ e.from = f.from /\ e.born = f.born
  <1>1. PICK f \in S : e = [f EXCEPT !.to = t]
    BY DEF Close
  <1>2. f \in Edge
    OBVIOUS
  <1>3. t # 0
    BY BoundAssumption DEF Time
  <1> QED
    BY <1>1, <1>2, <1>3 DEF Edge, Null

(* If the branch of an update has an open edge of the attribute, that edge   *)
(* is the current one.                                                       *)
LEMMA OpenIsCurrent ==
  ASSUME IInv, NEW b \in AnyBranch, NEW a \in Attr, clock < MaxTime,
         NEW cur \in Current(b, a, clock + 1),
         NEW e \in edges, e.br = b, e.attr = a, e.to = Null, b # Main \/ clean
  PROVE  cur = e
  <1> DEFINE at == clock + 1
             S == Visible(b, a, at)
             R == NodeListGetAttribute(b, a, at)
  <1>1. e.from <= clock /\ e.from \in Nat /\ clock \in Nat
    BY BoundAssumption DEF IInv, TypeOK, Edge, Time
  <1>2. e \in S
    BY <1>1 DEF Visible, ValidAt
  <1>3. \A f \in S : f \in edges /\ f.attr = a /\ (f.br = b \/ f.br = Main)
    BY DEF Visible
  <1>4. \A f \in S : ~ Precedes(f, e)
    <2> SUFFICES ASSUME NEW f \in S, Precedes(f, e) PROVE FALSE
      OBVIOUS
    <2>1. f.br = b
      BY <1>3, MainAssumption DEF Precedes, hierarchy_level
    <2>2. f.from > e.from
      BY <2>1 DEF Precedes, hierarchy_level
    <2>3. f.from \in Nat
      BY <1>3 DEF IInv, TypeOK, Edge, Time
    <2>4. CASE f.to = Null
      <3>1. f = e
        BY <1>3, <2>1, <2>4 DEF IInv, SingleOpen
      <3> QED
        BY <3>1, <2>2, <1>1
    <2>5. CASE f.to # Null
      <3>1. f.from <= e.from
        BY <1>3, <2>1, <2>5 DEF IInv, ClosedBefore
      <3> QED
        BY <3>1, <2>2, <2>3, <1>1
    <2> QED
      BY <2>4, <2>5
  <1>5. e \in R
    BY <1>2, <1>4 DEF NodeListGetAttribute
  <1>6. cur \in S /\ ScoresAtLeast(cur, e)
    BY <1>5 DEF Current, NodeListGetAttribute
  <1>7. cur.br = b /\ cur.to = Null
    BY <1>3, <1>6, MainAssumption DEF ScoresAtLeast, hierarchy_level
  <1> QED
    BY <1>3, <1>6, <1>7 DEF IInv, SingleOpen

-----------------------------------------------------------------------------
LEMMA InitIInv == Init => IInv
  <1> SUFFICES ASSUME Init PROVE IInv
    OBVIOUS
  <1>1. 1 \in Time /\ Main \in AnyBranch
    BY BoundAssumption DEF Time, AnyBranch
  <1>2. \A e \in edges : /\ e \in Edge /\ e.from = 1 /\ e.born = 1 /\ e.to = 0
                         /\ e = edge(e.attr, FirstValue, Main, 1)
    BY <1>1, ValueAssumption, EdgeType DEF Init, edge, Null
  <1>3. TypeOK
    BY <1>1, <1>2, BoundAssumption DEF Init, TypeOK, NoBranch, NoMerge, Null
  <1>4. SingleOpen /\ ClosedBefore
    BY <1>2 DEF SingleOpen, ClosedBefore, Null
  <1>5. OneChange
    BY DEF Init, OneChange, NoMerge
  <1> QED
    BY <1>3, <1>4, <1>5 DEF IInv

-----------------------------------------------------------------------------
(* A step that leaves the edges, the merges and the clock alone, or only      *)
(* drops edges and merges, keeps the part of IInv that is not about types.    *)
LEMMA FewerEdges ==
  ASSUME IInv, edges' \subseteq edges, clean' = clean,
         \A b \in Branch : merge'[b].changes = merge[b].changes \/ merge'[b].changes = {}
  PROVE  SingleOpen' /\ ClosedBefore' /\ OneChange'
  BY DEF IInv, SingleOpen, ClosedBefore, OneChange

LEMMA UpdateValueIInv ==
  ASSUME IInv, NEW b \in AnyBranch, NEW a \in Attr, NEW v \in Value, UpdateValue(b, a, v)
  PROVE  IInv'
  <1> DEFINE at == clock + 1
             n == edge(a, v, b, at)
  <1>1. PICK cur \in Current(b, a, at) :
          LET replaced == {e \in {cur} : e.br = b}
          IN edges' = (edges \ replaced) \cup Close(replaced, at) \cup {n}
    BY DEF UpdateValue
  <1> DEFINE replaced == {e \in {cur} : e.br = b}
  <1>2. cur \in edges
    BY <1>1 DEF Current, NodeListGetAttribute, Visible
  <1>3. /\ at \in Time /\ at \in Nat /\ clock \in Nat /\ clock < at
        /\ edges \subseteq Edge
        /\ \A e \in edges : /\ e.from \in Nat /\ e.born \in Nat /\ e.to \in Nat
                            /\ e.from <= clock /\ e.to <= clock
    BY BoundAssumption DEF IInv, TypeOK, Edge, Time, Null, UpdateValue
  <1>4. n \in Edge /\ n.from = at /\ n.to = Null /\ n.br = b /\ n.attr = a /\ n.born = at
    BY <1>3, EdgeType DEF edge
  <1>5. \A e \in Close(replaced, at) :
          /\ e \in Edge /\ e.to = at /\ e.to # Null
          /\ e.br = b /\ e.attr = cur.attr /\ e.from = cur.from /\ e.born = cur.born
    <2>1. replaced \in SUBSET Edge
      BY <1>2, <1>3
    <2> HIDE DEF at
    <2> QED
      BY <2>1, <1>3, CloseType
  <1>6. \A e \in edges' : \/ e \in edges /\ e \notin replaced
                          \/ e \in Close(replaced, at)
                          \/ e = n
    BY <1>1
  <1>7. branch' = branch /\ merge' = merge /\ clock' = at /\ clean' = clean
    BY DEF UpdateValue
  <1>8. cur.attr = a
    BY <1>1 DEF Current, NodeListGetAttribute, Visible
  <1>9. TypeOK'
    <2>1. edges' \subseteq Edge
      BY <1>3, <1>4, <1>5, <1>6
    <2>2. \A e \in edges' : e.from <= clock' /\ e.born <= e.from /\ e.to <= clock'
                            /\ (e.to = Null \/ e.from < e.to)
      <3> SUFFICES ASSUME NEW e \in edges'
                   PROVE e.from <= at /\ e.born <= e.from /\ e.to <= at
                         /\ (e.to = Null \/ e.from < e.to)
        BY <1>7
      <3>1. CASE e \in edges
        BY <3>1, <1>3 DEF IInv, TypeOK
      <3>2. CASE e \in Close(replaced, at)
        BY <3>2, <1>2, <1>3, <1>5 DEF IInv, TypeOK
      <3>3. CASE e = n
        BY <3>3, <1>3, <1>4 DEF Null
      <3> QED
        BY <1>6, <3>1, <3>2, <3>3
    <2>3. \A c \in Branch : branch'[c].created_at <= branch'[c].branched_from
                            /\ branch'[c].branched_from <= clock'
      BY <1>3, <1>7 DEF IInv, TypeOK
    <2>4. /\ branch' = branch /\ merge' = merge /\ deleting' = deleting /\ crashes' = crashes
          /\ clean' = clean /\ clock' \in Time
      BY <1>3, <1>7 DEF UpdateValue
    <2> QED
      BY <2>1, <2>2, <2>3, <2>4 DEF IInv, TypeOK
  <1>10. ASSUME b # Main \/ clean
         PROVE  \A e \in edges' : e.br = b /\ e.attr = a /\ e.to = Null => e = n
    <2> SUFFICES ASSUME NEW e \in edges', e.br = b, e.attr = a, e.to = Null, e # n
                 PROVE  FALSE
      OBVIOUS
    <2>1. e \in edges /\ e \notin replaced
      BY <1>5, <1>6
    <2>2. cur = e
      BY <1>1, <1>10, <2>1, OpenIsCurrent DEF UpdateValue
    <2> QED
      BY <2>1, <2>2
  <1>11. \A e \in edges' : ~ (e.br = b /\ e.attr = a) => e \in edges
    BY <1>4, <1>5, <1>6, <1>8
  <1>12. SingleOpen'
    BY <1>7, <1>10, <1>11 DEF IInv, SingleOpen
  <1>13. ClosedBefore'
    <2> SUFFICES ASSUME NEW e \in edges', NEW f \in edges', e.to = Null, f.to # Null,
                        e.br = f.br, e.attr = f.attr, e.br # Main \/ clean
                 PROVE  f.from <= e.from
      BY <1>7 DEF ClosedBefore
    <2>1. CASE e.br = b /\ e.attr = a
      <3>1. e = n
        BY <2>1, <1>10
      <3>2. f.from <= clock
        BY <1>2, <1>3, <1>4, <1>5, <1>6
      <3>3. f.from \in Nat
        BY <1>2, <1>3, <1>4, <1>5, <1>6
      <3> QED
        BY <3>1, <3>2, <3>3, <1>3, <1>4
    <2>2. CASE ~ (e.br = b /\ e.attr = a)
      <3>1. e \in edges /\ f \in edges
        BY <2>2, <1>11
      <3> QED
        BY <3>1 DEF IInv, ClosedBefore
    <2> QED
      BY <2>1, <2>2
  <1>14. OneChange'
    BY <1>7 DEF IInv, OneChange
  <1> QED
    BY <1>9, <1>12, <1>13, <1>14 DEF IInv

LEMMA RebaseIInv ==
  ASSUME IInv, NEW b \in Branch, Rebase(b)
  PROVE  IInv'
  <1> DEFINE at == clock + 1
             kept == {f \in edges : f.br = b /\ ~ RebaseDeletes(f, at)}
             moved == {[e EXCEPT !.from = at] : e \in kept}
  <1>1. edges' = {e \in edges : e.br # b} \cup moved
    BY DEF Rebase
  <1>2. /\ at \in Time /\ at \in Nat /\ clock \in Nat /\ clock < at /\ at # 0
        /\ edges \subseteq Edge
        /\ \A e \in edges : /\ e.from \in Nat /\ e.born \in Nat /\ e.to \in Nat
                            /\ e.from <= clock /\ e.to <= clock /\ e.born <= e.from
    BY BoundAssumption DEF IInv, TypeOK, Edge, Time, Null, Rebase
  <1>3. \A f \in kept : f.to = Null
    BY <1>2 DEF RebaseDeletes
  <1>4. \A e \in moved : /\ e \in Edge /\ e.from = at /\ e.to = Null /\ e.br = b /\ e.born <= at
                         /\ \E f \in kept : f.attr = e.attr /\ e = [f EXCEPT !.from = at]
    <2> SUFFICES ASSUME NEW f \in kept
                 PROVE LET e == [f EXCEPT !.from = at]
                       IN /\ e \in Edge /\ e.from = at /\ e.to = Null /\ e.br = b
                          /\ e.born <= at /\ f.attr = e.attr
      OBVIOUS
    <2>1. f \in Edge /\ f.to = Null /\ f.br = b /\ f.born \in Nat /\ f.born <= clock
      BY <1>2, <1>3
    <2> HIDE DEF at
    <2> QED
      BY <2>1, <1>2 DEF Edge
  <1> HIDE DEF moved
  <1>5. /\ merge' = merge /\ clock' = at /\ clean' = clean /\ deleting' = deleting
        /\ crashes' = crashes
        /\ branch' = [branch EXCEPT ![b].branched_from = at]
    BY DEF Rebase
  <1>6. TypeOK'
    <2>1. edges' \subseteq Edge
      BY <1>1, <1>2, <1>4
    <2>2. \A e \in edges' : e.from <= clock' /\ e.born <= e.from /\ e.to <= clock'
                            /\ (e.to = Null \/ e.from < e.to)
      <3> SUFFICES ASSUME NEW e \in edges'
                   PROVE e.from <= at /\ e.born <= e.from /\ e.to <= at
                         /\ (e.to = Null \/ e.from < e.to)
        BY <1>5
      <3>1. CASE e \in edges
        BY <3>1, <1>2 DEF IInv, TypeOK
      <3>2. CASE e \in moved
        BY <3>2, <1>2, <1>4 DEF Null
      <3> QED
        BY <1>1, <3>1, <3>2
    <2>3. /\ branch' \in [Branch -> [open : BOOLEAN, created_at : 0..MaxTime, branched_from : 0..MaxTime]]
          /\ \A c \in Branch : branch'[c].created_at <= branch'[c].branched_from
                              /\ branch'[c].branched_from <= clock'
      <3>1. at \in 0..MaxTime
        BY <1>2, BoundAssumption DEF Time
      <3>2. /\ branch \in [Branch -> [open : BOOLEAN, created_at : 0..MaxTime, branched_from : 0..MaxTime]]
            /\ \A c \in Branch : /\ branch[c].created_at <= branch[c].branched_from
                                 /\ branch[c].branched_from <= clock
                                 /\ branch[c].created_at \in Nat /\ branch[c].branched_from \in Nat
        BY DEF IInv, TypeOK
      <3> HIDE DEF at
      <3> QED
        BY <3>1, <3>2, <1>2, <1>5
    <2> QED
      BY <2>1, <2>2, <2>3, <1>2, <1>5 DEF IInv, TypeOK
  <1>7. SingleOpen'
    <2> SUFFICES ASSUME NEW e \in edges', NEW f \in edges', e.to = Null, f.to = Null,
                        e.br = f.br, e.attr = f.attr, e.br # Main \/ clean
                 PROVE  e = f
      BY <1>5 DEF SingleOpen
    <2>1. CASE e.br = b
      <3>1. e \in moved /\ f \in moved
        BY <2>1, <1>1
      <3>2. PICK e0 \in kept : e0.attr = e.attr /\ e = [e0 EXCEPT !.from = at]
        BY <3>1, <1>4
      <3>3. PICK f0 \in kept : f0.attr = f.attr /\ f = [f0 EXCEPT !.from = at]
        BY <3>1, <1>4
      <3>4. e0 = f0
        BY <3>2, <3>3, <1>3, MainAssumption DEF IInv, SingleOpen
      <3> QED
        BY <3>2, <3>3, <3>4
    <2>2. CASE e.br # b
      BY <2>2, <1>1, <1>4 DEF IInv, SingleOpen
    <2> QED
      BY <2>1, <2>2
  <1>8. ClosedBefore'
    <2> SUFFICES ASSUME NEW e \in edges', NEW f \in edges', e.to = Null, f.to # Null,
                        e.br = f.br, e.attr = f.attr, e.br # Main \/ clean
                 PROVE  f.from <= e.from
      BY <1>5 DEF ClosedBefore
    <2>1. e.br # b /\ e \in edges /\ f \in edges
      BY <1>1, <1>4
    <2> QED
      BY <2>1 DEF IInv, ClosedBefore
  <1>9. OneChange'
    BY <1>5 DEF IInv, OneChange
  <1> QED
    BY <1>6, <1>7, <1>8, <1>9 DEF IInv

LEMMA MergeValidateIInv ==
  ASSUME IInv, NEW b \in Branch, NEW via \in {"branch", "proposed_change"},
         NEW resolved \in SUBSET Attr, NEW keep \in SUBSET Attr,
         MergeValidate(b, via, resolved, keep)
  PROVE  IInv'
  <1> DEFINE at == clock + 1
             diff == {e \in BranchChanges(b, at) : e.attr \notin resolved \/ e.attr \in keep}
             orig == UNION {OriginRel(b, e.attr) : e \in diff}
             m == [phase |-> "locked", via |-> via, created_at |-> branch[b].created_at,
                   diff_to |-> at, changes |-> diff, origin |-> orig,
                   resolved |-> resolved]
  <1>1. /\ merge' = [merge EXCEPT ![b] = m] /\ clock' = at /\ edges' = edges /\ branch' = branch
        /\ deleting' = deleting /\ crashes' = crashes /\ clean' = clean
    BY DEF MergeValidate
  <1>2. /\ at \in Time /\ at \in 0..MaxTime /\ clock \in Nat /\ clock < at /\ edges \subseteq Edge
    BY BoundAssumption DEF IInv, TypeOK, Time, MergeValidate
  <1>3. diff \subseteq edges /\ orig \subseteq edges
    BY DEF BranchChanges, OriginRel, Visible
  <1>4. \A f \in diff : f.br = b /\ f.to = Null
    <2> SUFFICES ASSUME NEW f \in diff PROVE f.br = b /\ f.to = Null
      OBVIOUS
    <2>1. f \in edges /\ f.br = b /\ (f.to = Null \/ f.to >= at)
      BY DEF BranchChanges, InRange
    <2>2. f.to <= clock /\ f.to \in Nat
      BY <2>1, <1>2 DEF IInv, TypeOK, Edge, Null, Time
    <2> QED
      BY <2>1, <2>2, <1>2
  <1>5. TypeOK'
    <2>1. m \in [phase : {"none", "locked", "unlocked"}, via : {"branch", "proposed_change"},
                 created_at : 0..MaxTime, diff_to : 0..MaxTime, changes : SUBSET Edge,
                 origin : SUBSET Edge, resolved : SUBSET Attr]
      <3>1. branch[b].created_at \in 0..MaxTime
        BY DEF IInv, TypeOK
      <3> HIDE DEF diff, orig, at
      <3> QED
        BY <3>1, <1>2, <1>3
    <2>2. \A e \in edges : e.from <= at /\ e.born <= e.from /\ e.to <= at
                           /\ (e.to = Null \/ e.from < e.to)
      BY <1>2 DEF IInv, TypeOK, Edge, Time, Null
    <2>3. \A c \in Branch : branch[c].created_at <= branch[c].branched_from
                            /\ branch[c].branched_from <= at
      BY <1>2 DEF IInv, TypeOK
    <2> HIDE DEF m, at
    <2> QED
      BY <2>1, <2>2, <2>3, <1>1, <1>2 DEF IInv, TypeOK
  <1>6. OneChange'
    <2> SUFFICES ASSUME NEW c \in Branch, NEW f \in merge'[c].changes, NEW g \in merge'[c].changes,
                        f.attr = g.attr
                 PROVE  f = g
      BY DEF OneChange
    <2>1. CASE c = b
      <3>1. merge'[c].changes = diff
        BY <2>1, <1>1 DEF IInv, TypeOK
      <3> QED
        BY <3>1, <1>3, <1>4, MainAssumption DEF IInv, SingleOpen
    <2>2. CASE c # b
      <3>1. merge'[c] = merge[c]
        BY <2>2, <1>1 DEF IInv, TypeOK
      <3> QED
        BY <3>1 DEF IInv, OneChange
    <2> QED
      BY <2>1, <2>2
  <1>7. SingleOpen' /\ ClosedBefore'
    BY <1>1 DEF IInv, SingleOpen, ClosedBefore
  <1> QED
    BY <1>5, <1>6, <1>7 DEF IInv

LEMMA MergeCommitIInv ==
  ASSUME IInv, NEW b \in Branch, MergeCommit(b)
  PROVE  IInv'
  <1> DEFINE at == clock + 1
             m == merge[b]
             applied == {e \in edges : \E f \in m.changes \cup m.origin : Same(e, f)}
             new == {edge(f.attr, f.val, Main, at) : f \in m.changes}
  <1>1. /\ edges' = (edges \ applied) \cup Close(applied, at) \cup new
        /\ clock' = clock + 2
        /\ branch' = [branch EXCEPT ![b].branched_from = clock + 2]
        /\ merge' = [merge EXCEPT ![b] = NoMerge]
        /\ clean' = (clean /\ ReplacesCurrent(b))
        /\ deleting' = deleting /\ crashes' = crashes
    BY DEF MergeCommit
  <1>2. /\ at \in Time /\ at \in Nat /\ clock \in Nat /\ clock < at /\ at < clock + 2 /\ at # Null
        /\ clock + 2 \in Time /\ clock + 2 \in 0..MaxTime
        /\ edges \subseteq Edge
        /\ \A e \in edges : /\ e.from \in Nat /\ e.born \in Nat /\ e.to \in Nat
                            /\ e.from <= clock /\ e.to <= clock /\ e.born <= e.from
    BY BoundAssumption DEF IInv, TypeOK, Edge, Time, Null, MergeCommit
  <1>3. m.changes \subseteq Edge
    BY DEF IInv, TypeOK
  <1>4. \A e \in Close(applied, at) :
          /\ e \in Edge /\ e.to = at /\ e.to # Null
          /\ \E f \in applied : e.br = f.br /\ e.attr = f.attr /\ e.from = f.from /\ e.born = f.born
    <2>1. applied \in SUBSET Edge
      BY <1>2
    <2> HIDE DEF at, applied
    <2> QED
      BY <2>1, <1>2, CloseType
  <1>5. \A e \in new : /\ e \in Edge /\ e.from = at /\ e.born = at /\ e.to = Null /\ e.br = Main
                       /\ \E f \in m.changes : e.attr = f.attr /\ e = edge(f.attr, f.val, Main, at)
    <2> SUFFICES ASSUME NEW f \in m.changes
                 PROVE  LET e == edge(f.attr, f.val, Main, at)
                        IN e \in Edge /\ e.from = at /\ e.born = at /\ e.to = Null /\ e.br = Main
                           /\ e.attr = f.attr
      OBVIOUS
    <2>1. f.attr \in Attr /\ f.val \in Value /\ Main \in AnyBranch
      BY <1>3 DEF Edge, AnyBranch
    <2> HIDE DEF at
    <2> QED
      BY <2>1, <1>2, EdgeType DEF edge
  <1> HIDE DEF new
  <1>6. \A e \in edges' : (e \in edges /\ e \notin applied) \/ e \in Close(applied, at) \/ e \in new
    BY <1>1
  <1>7. TypeOK'
    <2>1. edges' \subseteq Edge
      BY <1>2, <1>4, <1>5, <1>6
    <2>2. \A e \in edges' : e.from <= clock' /\ e.born <= e.from /\ e.to <= clock'
                            /\ (e.to = Null \/ e.from < e.to)
      <3> SUFFICES ASSUME NEW e \in edges'
                   PROVE e.from <= clock + 2 /\ e.born <= e.from /\ e.to <= clock + 2
                         /\ (e.to = Null \/ e.from < e.to)
        BY <1>1
      <3>1. CASE e \in edges
        BY <3>1, <1>2 DEF IInv, TypeOK
      <3>2. CASE e \in Close(applied, at)
        BY <3>2, <1>2, <1>4
      <3>3. CASE e \in new
        BY <3>3, <1>2, <1>5 DEF Null
      <3> QED
        BY <1>6, <3>1, <3>2, <3>3
    <2>3. /\ branch' \in [Branch -> [open : BOOLEAN, created_at : 0..MaxTime, branched_from : 0..MaxTime]]
          /\ \A c \in Branch : branch'[c].created_at <= branch'[c].branched_from
                              /\ branch'[c].branched_from <= clock'
      <3>1. /\ branch \in [Branch -> [open : BOOLEAN, created_at : 0..MaxTime, branched_from : 0..MaxTime]]
            /\ \A c \in Branch : /\ branch[c].created_at <= branch[c].branched_from
                                 /\ branch[c].branched_from <= clock
                                 /\ branch[c].created_at \in Nat /\ branch[c].branched_from \in Nat
        BY DEF IInv, TypeOK
      <3> QED
        BY <3>1, <1>1, <1>2
    <2>4. merge' \in [Branch -> [phase : {"none", "locked", "unlocked"},
                           via : {"branch", "proposed_change"}, created_at : 0..MaxTime,
                           diff_to : 0..MaxTime, changes : SUBSET Edge, origin : SUBSET Edge,
                           resolved : SUBSET Attr]]
      BY <1>1, BoundAssumption DEF IInv, TypeOK, NoMerge
    <2>5. clean' \in BOOLEAN
      BY <1>1
    <2> QED
      BY <2>1, <2>2, <2>3, <2>4, <2>5, <1>1, <1>2, <1>3 DEF IInv, TypeOK
  <1>8. clean' => clean
    BY <1>1
  <1>9. ASSUME clean', NEW f \in m.changes, NEW e \in edges, e \notin applied,
               e.br = Main, e.attr = f.attr, e.to = Null
        PROVE  FALSE
    <2>1. PICK o \in m.origin, g \in edges :
            o.attr = f.attr /\ Same(g, o) /\ g.br = Main /\ g.to = Null
      BY <1>9, <1>1 DEF ReplacesCurrent
    <2>2. g = e
      BY <2>1, <1>8, <1>9 DEF IInv, SingleOpen, Same
    <2> QED
      BY <2>1, <2>2, <1>9
  <1>10. SingleOpen'
    <2> SUFFICES ASSUME NEW e \in edges', NEW f \in edges', e.to = Null, f.to = Null,
                        e.br = f.br, e.attr = f.attr, e.br # Main \/ clean'
                 PROVE  e = f
      BY DEF SingleOpen
    <2>1. /\ (e \in edges /\ e \notin applied) \/ e \in new
          /\ (f \in edges /\ f \notin applied) \/ f \in new
      BY <1>4, <1>6
    <2>2. CASE e \in edges /\ e \notin applied /\ f \in edges
      BY <2>2, <1>8 DEF IInv, SingleOpen
    <2>3. CASE e \in new /\ f \in new
      <3>1. PICK g \in m.changes : e.attr = g.attr /\ e = edge(g.attr, g.val, Main, at)
        BY <2>3, <1>5
      <3>2. PICK h \in m.changes : f.attr = h.attr /\ f = edge(h.attr, h.val, Main, at)
        BY <2>3, <1>5
      <3>3. g = h
        BY <3>1, <3>2 DEF IInv, OneChange
      <3> QED
        BY <3>1, <3>2, <3>3
    <2>4. CASE e \in new /\ f \in edges /\ f \notin applied
      <3>1. PICK g \in m.changes : e.attr = g.attr
        BY <2>4, <1>5
      <3> QED
        BY <3>1, <2>4, <1>5, <1>9
    <2>5. CASE f \in new /\ e \in edges /\ e \notin applied
      <3>1. PICK g \in m.changes : f.attr = g.attr
        BY <2>5, <1>5
      <3> QED
        BY <3>1, <2>5, <1>5, <1>9
    <2> QED
      BY <2>1, <2>2, <2>3, <2>4, <2>5
  <1>11. ClosedBefore'
    <2> SUFFICES ASSUME NEW e \in edges', NEW f \in edges', e.to = Null, f.to # Null,
                        e.br = f.br, e.attr = f.attr, e.br # Main \/ clean'
                 PROVE  f.from <= e.from
      BY DEF ClosedBefore
    <2>1. PICK g \in edges : f.br = g.br /\ f.attr = g.attr /\ f.from = g.from
                             /\ (f = g \/ g \in applied)
      BY <1>4, <1>5, <1>6
    <2>2. CASE e \in new
      BY <2>1, <2>2, <1>2, <1>5
    <2>3. CASE e \in edges /\ e \notin applied
      <3>1. CASE g.to = Null
        BY <3>1, <2>1, <2>3, <1>8 DEF IInv, SingleOpen
      <3>2. CASE g.to # Null
        BY <3>2, <2>1, <2>3, <1>8 DEF IInv, ClosedBefore
      <3> QED
        BY <3>1, <3>2
    <2> QED
      BY <2>2, <2>3, <1>4, <1>6
  <1>12. OneChange'
    BY <1>1 DEF IInv, OneChange, NoMerge, TypeOK
  <1> QED
    BY <1>7, <1>10, <1>11, <1>12 DEF IInv

LEMMA NextIInv == IInv /\ [Next]_vars => IInv'
  <1> SUFFICES ASSUME IInv, [Next]_vars PROVE IInv'
    OBVIOUS
  <1>1. ASSUME NEW b \in AnyBranch, NEW a \in Attr, NEW v \in Value, UpdateValue(b, a, v)
        PROVE  IInv'
    BY <1>1, UpdateValueIInv
  <1>2. ASSUME NEW b \in Branch, CreateBranch(b) PROVE IInv'
    <2>1. clock \in Nat /\ clock + 1 \in Time /\ clock + 1 \in 0..MaxTime
      BY <1>2, BoundAssumption DEF IInv, TypeOK, Time, CreateBranch
    <2>2. TypeOK'
      <3>1. \A e \in edges : e.from <= clock + 1 /\ e.to <= clock + 1
        BY <2>1 DEF IInv, TypeOK, Edge, Time, Null
      <3>2. \A c \in Branch : branch[c].branched_from \in Nat /\ branch[c].branched_from <= clock + 1
        BY <2>1 DEF IInv, TypeOK
      <3> QED
        BY <1>2, <2>1, <3>1, <3>2 DEF IInv, TypeOK, CreateBranch
    <2> QED
      BY <1>2, <2>2, FewerEdges DEF IInv, CreateBranch
  <1>3. ASSUME NEW b \in Branch, DeleteBranch(b) PROVE IInv'
    <2>1. TypeOK'
      BY <1>3, BoundAssumption DEF IInv, TypeOK, Time, DeleteBranch, NoBranch
    <2> QED
      BY <1>3, <2>1, FewerEdges DEF IInv, DeleteBranch
  <1>4. ASSUME NEW b \in Branch, DeleteBranchRelationships(b) PROVE IInv'
    <2>1. edges' \subseteq edges
      BY <1>4 DEF DeleteBranchRelationships
    <2>2. TypeOK'
      BY <1>4, <2>1 DEF IInv, TypeOK, DeleteBranchRelationships
    <2> QED
      BY <1>4, <2>1, <2>2, FewerEdges DEF IInv, DeleteBranchRelationships
  <1>5. ASSUME NEW b \in Branch, DeleteInterrupted(b) PROVE IInv'
    <2>1. TypeOK'
      BY <1>5, BoundAssumption DEF IInv, TypeOK, DeleteInterrupted
    <2> QED
      BY <1>5, <2>1, FewerEdges DEF IInv, DeleteInterrupted
  <1>6. ASSUME NEW b \in Branch, Rebase(b) PROVE IInv'
    BY <1>6, RebaseIInv
  <1>7. ASSUME NEW b \in Branch, NEW via \in {"branch", "proposed_change"},
               NEW resolved \in SUBSET Attr, NEW keep \in SUBSET Attr,
               MergeValidate(b, via, resolved, keep)
        PROVE  IInv'
    BY <1>7, MergeValidateIInv
  <1>8. ASSUME NEW b \in Branch, ReleaseGraphLock(b) PROVE IInv'
    <2>1. \A c \in Branch : merge'[c].changes = merge[c].changes
      BY <1>8 DEF IInv, TypeOK, ReleaseGraphLock
    <2>2. TypeOK'
      BY <1>8 DEF IInv, TypeOK, ReleaseGraphLock
    <2> QED
      BY <1>8, <2>1, <2>2, FewerEdges DEF IInv, ReleaseGraphLock
  <1>9. ASSUME NEW b \in Branch, MergeCommit(b) PROVE IInv'
    BY <1>9, MergeCommitIInv
  <1>10. ASSUME NEW b \in Branch, MergeRollback(b) PROVE IInv'
    <2>1. \A c \in Branch : merge'[c].changes = merge[c].changes \/ merge'[c].changes = {}
      BY <1>10 DEF IInv, TypeOK, MergeRollback, NoMerge
    <2>2. TypeOK'
      BY <1>10, BoundAssumption DEF IInv, TypeOK, MergeRollback, NoMerge
    <2> QED
      BY <1>10, <2>1, <2>2, FewerEdges DEF IInv, MergeRollback
  <1>11. CASE UNCHANGED vars
    BY <1>11 DEF vars, IInv, TypeOK, SingleOpen, ClosedBefore, OneChange
  <1> QED
    BY <1>1, <1>2, <1>3, <1>4, <1>5, <1>6, <1>7, <1>8, <1>9, <1>10, <1>11 DEF Next

-----------------------------------------------------------------------------
(* The type invariant: in particular no operation makes an edge that ends    *)
(* before it begins or a branch that reads main before its own creation.     *)
THEOREM TypeCorrect == Spec => []TypeOK
  <1>1. IInv => TypeOK
    BY DEF IInv
  <1> QED
    BY <1>1, InitIInv, NextIInv, PTL DEF Spec

(* Whatever updates, merges, rebases and deletions run together, an          *)
(* attribute has one open value at most on a branch; on main too, while      *)
(* every merge replaced the value that main had.                             *)
THEOREM SingleOpenAlways == Spec => []SingleOpen
  <1>1. IInv => SingleOpen
    BY DEF IInv
  <1> QED
    BY <1>1, InitIInv, NextIInv, PTL DEF Spec

-----------------------------------------------------------------------------
(* NoOrphans needs no strengthening beyond IInv.  An edge of the next state   *)
(* that comes from one of this state, on the same branch and born at the same *)
(* time, is no orphan if its branch was not touched.                          *)
LEMMA InheritedEdge ==
  ASSUME NoOrphans, crashes' = crashes, branch' = branch, deleting' = deleting,
         NEW e, NEW f \in edges, e.br = f.br, e.born = f.born
  PROVE  crashes' = 0 /\ e.br # Main =>
           e.br \in deleting' \/ (branch'[e.br].open /\ e.born >= branch'[e.br].created_at)
  BY DEF NoOrphans

LEMMA NextNoOrphans == IInv /\ NoOrphans /\ [Next]_vars => NoOrphans'
  <1> SUFFICES ASSUME IInv, NoOrphans, [Next]_vars PROVE NoOrphans'
    OBVIOUS
  <1>1. ASSUME NEW b \in AnyBranch, NEW a \in Attr, NEW v \in Value, UpdateValue(b, a, v)
        PROVE  NoOrphans'
    <2> DEFINE at == clock + 1
               n == edge(a, v, b, at)
    <2>1. PICK cur \in Current(b, a, at) :
            LET replaced == {e \in {cur} : e.br = b}
            IN edges' = (edges \ replaced) \cup Close(replaced, at) \cup {n}
      BY <1>1 DEF UpdateValue
    <2> DEFINE replaced == {e \in {cur} : e.br = b}
    <2>2. cur \in edges /\ edges \subseteq Edge
      BY <2>1 DEF Current, NodeListGetAttribute, Visible, IInv, TypeOK
    <2>3. branch' = branch /\ deleting' = deleting /\ crashes' = crashes /\ Exists(b) /\ at \in Time
      BY <1>1, BoundAssumption DEF UpdateValue, IInv, TypeOK, Time
    <2>4. \A e \in Close(replaced, at) : \E f \in edges : e.br = f.br /\ e.born = f.born
      <3>1. replaced \in SUBSET Edge /\ replaced \subseteq edges
        BY <2>2
      <3> HIDE DEF at, replaced
      <3> QED
        BY <3>1, <2>3, CloseType
    <2>5. n.br = b /\ n.born = at
      BY DEF edge
    <2>6. b # Main => branch[b].open /\ at >= branch[b].created_at
      BY <2>3 DEF Exists, IInv, TypeOK, AnyBranch, Time
    <2> SUFFICES ASSUME NEW e \in edges', crashes' = 0, e.br # Main
                 PROVE  e.br \in deleting' \/ (branch'[e.br].open /\ e.born >= branch'[e.br].created_at)
      BY DEF NoOrphans
    <2>7. CASE e = n
      BY <2>3, <2>5, <2>6, <2>7
    <2>8. CASE e # n
      <3>1. \E f \in edges : e.br = f.br /\ e.born = f.born
        BY <2>1, <2>4, <2>8
      <3> QED
        BY <3>1, <2>3, InheritedEdge
    <2> QED
      BY <2>7, <2>8
  <1>2. ASSUME NEW b \in Branch, CreateBranch(b) PROVE NoOrphans'
    BY <1>2 DEF CreateBranch, NoOrphans, IInv, TypeOK
  <1>3. ASSUME NEW b \in Branch, DeleteBranch(b) PROVE NoOrphans'
    BY <1>3 DEF DeleteBranch, NoOrphans, IInv, TypeOK
  <1>4. ASSUME NEW b \in Branch, DeleteBranchRelationships(b) PROVE NoOrphans'
    BY <1>4 DEF DeleteBranchRelationships, NoOrphans
  <1>5. ASSUME NEW b \in Branch, DeleteInterrupted(b) PROVE NoOrphans'
    BY <1>5 DEF DeleteInterrupted, NoOrphans, IInv, TypeOK
  <1>6. ASSUME NEW b \in Branch, Rebase(b) PROVE NoOrphans'
    <2> DEFINE at == clock + 1
               kept == {f \in edges : f.br = b /\ ~ RebaseDeletes(f, at)}
               moved == {[e EXCEPT !.from = at] : e \in kept}
    <2>1. edges' = {e \in edges : e.br # b} \cup moved
      BY <1>6 DEF Rebase
    <2>2. edges \subseteq Edge
      BY DEF IInv, TypeOK
    <2>3. \A e \in moved : \E f \in edges : e.br = f.br /\ e.born = f.born
      <3> SUFFICES ASSUME NEW f \in kept
                   PROVE  [f EXCEPT !.from = at].br = f.br /\ [f EXCEPT !.from = at].born = f.born
        OBVIOUS
      <3>1. f \in Edge
        BY <2>2
      <3> QED
        BY <3>1 DEF Edge
    <2>4. \A e \in edges' : \E f \in edges : e.br = f.br /\ e.born = f.born
      BY <2>1, <2>3
    <2>5. /\ \A c \in Branch : branch'[c].open = branch[c].open
                              /\ branch'[c].created_at = branch[c].created_at
          /\ deleting' = deleting /\ crashes' = crashes
      BY <1>6 DEF Rebase, IInv, TypeOK
    <2>6. \A f \in edges : f.br # Main => f.br \in Branch
      BY <2>2 DEF Edge, AnyBranch
    <2> QED
      BY <2>4, <2>5, <2>6 DEF NoOrphans
  <1>7. ASSUME NEW b \in Branch, NEW via \in {"branch", "proposed_change"},
               NEW resolved \in SUBSET Attr, NEW keep \in SUBSET Attr,
               MergeValidate(b, via, resolved, keep)
        PROVE  NoOrphans'
    BY <1>7 DEF MergeValidate, NoOrphans
  <1>8. ASSUME NEW b \in Branch, ReleaseGraphLock(b) PROVE NoOrphans'
    BY <1>8 DEF ReleaseGraphLock, NoOrphans
  <1>9. ASSUME NEW b \in Branch, MergeCommit(b) PROVE NoOrphans'
    <2> DEFINE at == clock + 1
               applied == {e \in edges : \E f \in merge[b].changes \cup merge[b].origin : Same(e, f)}
               new == {edge(f.attr, f.val, Main, at) : f \in merge[b].changes}
    <2>1. edges' = (edges \ applied) \cup Close(applied, at) \cup new
      BY <1>9 DEF MergeCommit
    <2>2. edges \subseteq Edge /\ at \in Time
      BY <1>9, BoundAssumption DEF MergeCommit, IInv, TypeOK, Time
    <2>3. \A e \in Close(applied, at) : \E f \in edges : e.br = f.br /\ e.born = f.born
      <3>1. applied \in SUBSET Edge /\ applied \subseteq edges
        BY <2>2
      <3> HIDE DEF at, applied
      <3> QED
        BY <3>1, <2>2, CloseType
    <2>4. \A e \in new : e.br = Main
      BY DEF edge
    <2>5. \A e \in edges' : e.br # Main => \E f \in edges : e.br = f.br /\ e.born = f.born
      <3> HIDE DEF new, applied
      <3> QED
        BY <2>1, <2>3, <2>4
    <2>6. /\ \A c \in Branch : branch'[c].open = branch[c].open
                              /\ branch'[c].created_at = branch[c].created_at
          /\ deleting' = deleting /\ crashes' = crashes
      BY <1>9 DEF MergeCommit, IInv, TypeOK
    <2>7. \A f \in edges : f.br # Main => f.br \in Branch
      BY <2>2 DEF Edge, AnyBranch
    <2> QED
      BY <2>5, <2>6, <2>7 DEF NoOrphans
  <1>10. ASSUME NEW b \in Branch, MergeRollback(b) PROVE NoOrphans'
    BY <1>10 DEF MergeRollback, NoOrphans
  <1>11. CASE UNCHANGED vars
    BY <1>11 DEF vars, NoOrphans
  <1> QED
    BY <1>1, <1>2, <1>3, <1>4, <1>5, <1>6, <1>7, <1>8, <1>9, <1>10, <1>11 DEF Next

(* As long as no deletion is cut short, an edge of a user branch belongs to  *)
(* the branch that now has its name, or to one whose edges are about to be   *)
(* removed: a branch never shows what an earlier one of its name held.       *)
THEOREM NoOrphansAlways == Spec => []NoOrphans
  <1>1. Init => NoOrphans
    BY DEF Init, NoOrphans, edge
  <1>2. (IInv /\ NoOrphans) /\ [Next]_vars => (IInv /\ NoOrphans)'
    BY NextIInv, NextNoOrphans
  <1> QED
    BY <1>1, <1>2, InitIInv, PTL DEF Spec

-----------------------------------------------------------------------------
(* What the branches show: they are isolated, the past of main does not     *)
(* change, a rebase keeps the changes of its branch, and a merge shows its   *)
(* changes in main.                                                          *)

(* As long as every merge replaced the value main had, the values of an      *)
(* attribute on main follow one another without overlapping.                 *)
MainDisjoint ==
  clean => \A e, f \in edges :
    e.br = Main /\ f.br = Main /\ e.attr = f.attr /\ e # f =>
      (e.to # Null /\ e.to <= f.from) \/ (f.to # Null /\ f.to <= e.from)

(* An edge of main begins where it was born: only a rebase moves it, and     *)
(* main is not rebased.                                                      *)
MainBorn == \A e \in edges : e.br = Main => e.born = e.from

(* Nothing was written on main at the times at which a branch was made and   *)
(* at which it reads main.                                                   *)
BranchQuiet ==
  \A b \in Branch : branch[b].open =>
    \A e \in edges : e.br = Main =>
      /\ e.from # branch[b].created_at /\ e.from # branch[b].branched_from
      /\ e.to # Null => e.to # branch[b].created_at /\ e.to # branch[b].branched_from

(* A value that was closed just now was replaced. *)
JustReplaced ==
  \A e \in edges : e.to = clock =>
    \E f \in edges : f.br = e.br /\ f.attr = e.attr /\ f.to = Null

(* A pending merge changes values of its branch, and knows of one value of   *)
(* main at most that each of them replaces.                                  *)
OneOrigin ==
  \A b \in Branch :
    /\ \A f \in merge[b].changes : f.br = b
    /\ \A o \in merge[b].origin : \E f \in merge[b].changes : o.attr = f.attr
    /\ clean => \A o, p \in merge[b].origin :
         o.br = Main /\ p.br = Main /\ o.attr = p.attr => Same(o, p)

HInv == IInv /\ MainDisjoint /\ MainBorn /\ BranchQuiet /\ JustReplaced /\ OneOrigin

-----------------------------------------------------------------------------
(* Reading, as a function of the edges that are seen.                        *)

Seen(E, b, a, t, main_t) ==
  {e \in E : e.attr = a /\ \/ e.br = b /\ ValidAt(e, t)
                           \/ e.br = Main /\ ValidAt(e, main_t)}

CurrentOf(S) ==
  LET R == {e \in S : \A f \in S : f.val = e.val => ~ Precedes(f, e)}
  IN {e \in R : \A f \in R : ScoresAtLeast(e, f)}

ReadOf(S) == {e.val : e \in CurrentOf(S)}

OpenOf(E, b, a) == {e \in E : e.br = b /\ e.attr = a /\ e.to = Null}

(* What a read finds is a function of the edges. *)
LEMMA ReadIsReadOf ==
  ASSUME NEW b, NEW a, NEW t
  PROVE  /\ Read(b, a, t) = ReadOf(Seen(edges, b, a, t, time_default_branch(b, t)))
         /\ Read(b, a, t)' = ReadOf(Seen(edges', b, a, t, time_default_branch(b, t)'))
  BY DEF Read, ReadOf, Current, CurrentOf, NodeListGetAttribute, Visible, Seen

(* If one edge is seen at most, its value is read. *)
LEMMA ReadOne ==
  ASSUME NEW S \in SUBSET Edge, \A e, f \in S : e = f
  PROVE  ReadOf(S) = {e.val : e \in S}
  <1>1. \A e \in S : ~ Precedes(e, e) /\ ScoresAtLeast(e, e)
    BY DEF Precedes, ScoresAtLeast, hierarchy_level, Edge, Time
  <1>2. CurrentOf(S) = S
    BY <1>1 DEF CurrentOf
  <1> QED
    BY <1>2 DEF ReadOf

(* An open edge that is later than all others of its branch is read. *)
LEMMA ReadOpen ==
  ASSUME NEW S \in SUBSET Edge, NEW b \in AnyBranch, NEW o \in S, o.br = b, o.to = Null,
         \A e \in S : \/ e = o
                      \/ e.br = b /\ e.to # Null /\ e.from <= o.from
                      \/ e.br = Main /\ b # Main
  PROVE  ReadOf(S) = {o.val}
  <1> DEFINE R == {e \in S : \A f \in S : f.val = e.val => ~ Precedes(f, e)}
  <1>1. \A e \in S : e.from \in Nat
    BY DEF Edge, Time
  <1>2. \A f \in S : ~ Precedes(f, o)
    BY <1>1 DEF Precedes, hierarchy_level
  <1>3. o \in R /\ \A f \in R : ScoresAtLeast(o, f)
    BY <1>2 DEF ScoresAtLeast, hierarchy_level
  <1>4. \A e \in R : ScoresAtLeast(e, o) => e = o
    BY DEF ScoresAtLeast, hierarchy_level
  <1>5. CurrentOf(S) = {o}
    BY <1>3, <1>4 DEF CurrentOf
  <1> QED
    BY <1>5 DEF ReadOf

-----------------------------------------------------------------------------
(* The invariant.                                                            *)

(* Numbers that the order of times needs. *)
LEMMA Times ==
  ASSUME IInv
  PROVE  /\ clock \in Nat /\ edges \subseteq Edge
         /\ \A e \in edges : /\ e.from \in Nat /\ e.to \in Nat /\ e.born \in Nat
                             /\ e.from <= clock /\ e.to <= clock
                             /\ e.to # Null => e.from < e.to
         /\ \A b \in Branch : /\ branch[b].created_at \in Nat /\ branch[b].branched_from \in Nat
                              /\ branch[b].created_at <= branch[b].branched_from
                              /\ branch[b].branched_from <= clock
  BY BoundAssumption DEF IInv, TypeOK, Edge, Time, Null

LEMMA InitHInv == Init => HInv
  <1> SUFFICES ASSUME Init PROVE HInv
    OBVIOUS
  <1>1. IInv
    BY InitIInv
  <1>2. \A e \in edges : e.from = 1 /\ e.born = 1 /\ e.to = 0 /\ e = edge(e.attr, FirstValue, Main, 1)
    BY DEF Init, edge, Null
  <1>3. MainDisjoint /\ MainBorn /\ JustReplaced
    BY <1>2 DEF Init, MainDisjoint, MainBorn, JustReplaced
  <1>4. BranchQuiet /\ OneOrigin
    BY DEF Init, BranchQuiet, OneOrigin, NoBranch, NoMerge
  <1> QED
    BY <1>1, <1>3, <1>4 DEF HInv

(* Steps that add nothing to main. *)
LEMMA MainKept ==
  ASSUME HInv, \A e \in edges' : e.br = Main => e \in edges, clean' => clean,
         \A b \in Branch : branch'[b].open =>
           /\ branch'[b].created_at > clock
              \/ (branch[b].open /\ branch'[b].created_at = branch[b].created_at)
           /\ branch'[b].branched_from > clock
              \/ (branch[b].open /\ branch'[b].branched_from = branch[b].branched_from)
  PROVE  MainDisjoint' /\ MainBorn' /\ BranchQuiet'
  <1>1. MainDisjoint' /\ MainBorn'
    BY DEF HInv, MainDisjoint, MainBorn
  <1>2. \A e \in edges : e.from <= clock /\ e.to <= clock /\ e.from \in Nat /\ e.to \in Nat
                         /\ clock \in Nat
    BY Times DEF HInv
  <1>3. BranchQuiet'
    <2> SUFFICES ASSUME NEW b \in Branch, branch'[b].open, NEW e \in edges', e.br = Main
                 PROVE  /\ e.from # branch'[b].created_at /\ e.from # branch'[b].branched_from
                        /\ e.to # Null => e.to # branch'[b].created_at /\ e.to # branch'[b].branched_from
      BY DEF BranchQuiet
    <2>1. e \in edges
      OBVIOUS
    <2>2. \A t : t > clock => e.from # t /\ e.to # t
      BY <2>1, <1>2
    <2> QED
      BY <2>1, <2>2 DEF HInv, BranchQuiet
  <1> QED
    BY <1>1, <1>3

(* Steps that close the edges D and add the edges N. *)
LEMMA MainWritten ==
  ASSUME HInv, NEW D \in SUBSET edges, NEW N \in SUBSET Edge, clock + 1 \in Time,
         edges' = (edges \ D) \cup Close(D, clock + 1) \cup N,
         \A n \in N : n.from = clock + 1 /\ n.born = clock + 1 /\ n.to = Null,
         \A b \in Branch : /\ branch'[b].open = branch[b].open
                           /\ branch'[b].created_at = branch[b].created_at
                           /\ branch'[b].branched_from \in {branch[b].branched_from, clock + 2}
  PROVE  MainBorn' /\ BranchQuiet'
  <1> DEFINE at == clock + 1
  <1>1. D \in SUBSET Edge /\ clock \in Nat /\ at \in Nat /\ at \in Time
    BY Times DEF HInv
  <1>2. \A e \in Close(D, at) : e.to = at /\ \E f \in D : e.br = f.br /\ e.from = f.from /\ e.born = f.born
    <2> HIDE DEF at
    <2> QED
      BY <1>1, CloseType
  <1>3. MainBorn'
    BY <1>1, <1>2 DEF HInv, MainBorn
  <1>4. BranchQuiet'
    <2> SUFFICES ASSUME NEW b \in Branch, branch[b].open, NEW e \in edges', e.br = Main
                 PROVE  /\ e.from # branch'[b].created_at /\ e.from # branch'[b].branched_from
                        /\ e.to # Null => e.to # branch'[b].created_at /\ e.to # branch'[b].branched_from
      BY DEF BranchQuiet
    <2>1. /\ branch[b].created_at \in Nat /\ branch[b].created_at <= clock
          /\ branch[b].branched_from \in Nat /\ branch[b].branched_from <= clock
      BY Times DEF HInv
    <2>2. \A f \in edges : /\ f.from \in Nat /\ f.to \in Nat /\ f.from <= clock /\ f.to <= clock
      BY Times DEF HInv
    <2>3. CASE e \in edges
      BY <2>1, <2>2, <2>3, <1>1 DEF HInv, BranchQuiet
    <2>4. CASE e \in Close(D, at)
      <3>1. PICK f \in D : e.to = at /\ e.br = f.br /\ e.from = f.from
        BY <2>4, <1>2
      <3>2. f \in edges /\ f.from # branch[b].created_at /\ f.from # branch[b].branched_from
        BY <3>1 DEF HInv, BranchQuiet
      <3> QED
        BY <3>1, <3>2, <2>1, <2>2, <1>1
    <2>5. CASE e \in N
      BY <2>1, <2>5, <1>1
    <2> QED
      BY <2>3, <2>4, <2>5
  <1> QED
    BY <1>3, <1>4

(* If the edges of main that are closed were open, and each edge that is     *)
(* added finds no other one open, the edges of main stay disjoint.           *)
LEMMA DisjointWritten ==
  ASSUME HInv, clean, NEW D \in SUBSET edges, NEW N \in SUBSET Edge, clock + 1 \in Time,
         edges' = (edges \ D) \cup Close(D, clock + 1) \cup N,
         \A n \in N : n.from = clock + 1 /\ n.to = Null,
         \A e \in D : e.br = Main => e.to = Null,
         \A n, k \in N : n.br = Main /\ k.br = Main /\ n.attr = k.attr => n = k,
         \A n \in N, e \in edges \ D : n.br = Main /\ e.br = Main /\ n.attr = e.attr => e.to # Null
  PROVE  MainDisjoint'
  <1> DEFINE at == clock + 1
             Before(e, f) == e.to # Null /\ e.to <= f.from
  <1>1. D \in SUBSET Edge /\ clock \in Nat /\ at \in Nat /\ at \in Time /\ clock < at
    BY Times DEF HInv
  <1>2. \A e \in edges : /\ e.from \in Nat /\ e.to \in Nat /\ e.from <= clock /\ e.to <= clock
    BY Times DEF HInv
  <1>3. \A e \in Close(D, at) : \E f \in D : e = [f EXCEPT !.to = at] /\ e.to = at /\ e.to # Null
                                           /\ e.br = f.br /\ e.attr = f.attr /\ e.from = f.from
    <2> SUFFICES ASSUME NEW e \in Close(D, at)
                 PROVE  \E f \in D : e = [f EXCEPT !.to = at] /\ e.to = at /\ e.to # Null
                                     /\ e.br = f.br /\ e.attr = f.attr /\ e.from = f.from
      OBVIOUS
    <2>1. PICK f \in D : e = [f EXCEPT !.to = at]
      BY DEF Close
    <2>2. f \in Edge /\ at # Null
      BY <1>1 DEF Null
    <2> HIDE DEF at
    <2> QED
      BY <2>1, <2>2 DEF Edge
  <1>4. ASSUME NEW e \in edges, NEW f \in edges, e.br = Main, f.br = Main, e.attr = f.attr, e # f
        PROVE  Before(e, f) \/ Before(f, e)
    BY <1>4 DEF HInv, MainDisjoint
  <1>5. ASSUME NEW e \in edges', NEW f \in edges', e.br = Main, f.br = Main, e.attr = f.attr, e # f,
               e \in N
        PROVE  Before(f, e)
    <2>1. e.from = at /\ f \notin N
      BY <1>5
    <2>2. CASE f \in edges \ D
      BY <2>1, <2>2, <1>1, <1>2, <1>5
    <2>3. CASE f \in Close(D, at)
      BY <2>1, <2>3, <1>1, <1>3
    <2> QED
      BY <2>1, <2>2, <2>3
  <1>6. ASSUME NEW e \in edges', NEW f \in edges', e.br = Main, f.br = Main, e.attr = f.attr, e # f,
               e \in Close(D, at), f \in edges \ D
        PROVE  Before(f, e)
    <2>1. PICK d \in D : e.br = d.br /\ e.attr = d.attr /\ e.from = d.from
      BY <1>6, <1>3
    <2>2. d.to = Null /\ d # f
      BY <2>1, <1>6
    <2> QED
      BY <2>1, <2>2, <1>4, <1>6
  <1>7. ASSUME NEW e \in Close(D, at), NEW f \in Close(D, at), e.br = Main, f.br = Main, e.attr = f.attr
        PROVE  e = f
    <2>1. PICK d \in D : e = [d EXCEPT !.to = at] /\ e.br = d.br /\ e.attr = d.attr
      BY <1>3
    <2>2. PICK g \in D : f = [g EXCEPT !.to = at] /\ f.br = g.br /\ f.attr = g.attr
      BY <1>3
    <2>3. d.to = Null /\ g.to = Null
      BY <2>1, <2>2, <1>7
    <2>4. d = g
      BY <2>1, <2>2, <2>3, <1>4, <1>7
    <2> QED
      BY <2>1, <2>2, <2>4
  <1> SUFFICES ASSUME NEW e \in edges', NEW f \in edges', e.br = Main, f.br = Main,
                      e.attr = f.attr, e # f
               PROVE  Before(e, f) \/ Before(f, e)
    BY DEF MainDisjoint
  <1> HIDE DEF Before, at
  <1>8. /\ e \in N \/ e \in Close(D, at) \/ e \in edges \ D
        /\ f \in N \/ f \in Close(D, at) \/ f \in edges \ D
    BY DEF at
  <1> QED
    BY <1>4, <1>5, <1>6, <1>7, <1>8

(* Pending merges that are kept or given up. *)
LEMMA MergesKept ==
  ASSUME HInv, clean' => clean,
         \A b \in Branch :
           \/ merge'[b].changes = merge[b].changes /\ merge'[b].origin = merge[b].origin
           \/ merge'[b].changes = {} /\ merge'[b].origin = {}
  PROVE  OneOrigin'
  BY DEF HInv, OneOrigin

(* Time goes on and nothing is closed. *)
LEMMA NothingClosed ==
  ASSUME HInv, clock' \in Nat, clock' > clock,
         \A e \in edges' : e.to = Null \/ \E f \in edges : e.to = f.to
  PROVE  JustReplaced'
  <1>1. \A f \in edges : f.to \in Nat /\ f.to <= clock /\ clock \in Nat
    BY Times DEF HInv
  <1>2. \A e \in edges' : e.to # clock'
    <2>1. clock \in Nat /\ clock' # Null
      BY Times DEF HInv, Null
    <2> QED
      BY <1>1, <2>1
  <1> QED
    BY <1>2 DEF JustReplaced

LEMMA UpdateValueHInv ==
  ASSUME HInv, NEW b \in AnyBranch, NEW a \in Attr, NEW v \in Value, UpdateValue(b, a, v)
  PROVE  MainDisjoint' /\ MainBorn' /\ BranchQuiet' /\ JustReplaced' /\ OneOrigin'
  <1> DEFINE at == clock + 1
             n == edge(a, v, b, at)
             N == {n}
  <1>1. PICK cur \in Current(b, a, at) :
          LET replaced == {e \in {cur} : e.br = b}
          IN edges' = (edges \ replaced) \cup Close(replaced, at) \cup N
    BY DEF UpdateValue
  <1> DEFINE D == {e \in {cur} : e.br = b}
  <1>2. /\ clock \in Nat /\ at \in Time /\ clock' = at /\ branch' = branch /\ merge' = merge
        /\ clean' = clean /\ IInv
    BY Times, BoundAssumption DEF HInv, UpdateValue, Time
  <1>3. cur \in edges /\ cur.attr = a
    BY <1>1 DEF Current, NodeListGetAttribute, Visible
  <1>4. n \in Edge /\ n.from = at /\ n.to = Null /\ n.br = b /\ n.attr = a /\ n.born = at
    BY <1>2, EdgeType DEF edge
  <1>5. cur.br = Main /\ b = Main => cur.to = Null
    <2>1. cur.br = Main /\ b = Main => ValidAt(cur, at)
      BY <1>1 DEF Current, NodeListGetAttribute, Visible, time_default_branch
    <2> QED
      BY <2>1, <1>2, <1>3, Times DEF ValidAt
  <1> HIDE DEF n
  <1>6. D \in SUBSET edges /\ N \in SUBSET Edge
    BY <1>3, <1>4
  <1>7. MainBorn' /\ BranchQuiet'
    <2> HIDE DEF D, N
    <2>1. \A k \in N : k.from = clock + 1 /\ k.born = clock + 1 /\ k.to = Null
      BY <1>4 DEF N
    <2> QED
      BY <2>1, <1>1, <1>2, <1>6, MainWritten DEF D
  <1>8. MainDisjoint'
    <2> SUFFICES ASSUME clean PROVE MainDisjoint'
      BY <1>2 DEF MainDisjoint
    <2>1. \A e \in D : e.br = Main => e.to = Null
      BY <1>5
    <2>2. \A k \in N, e \in edges \ D : k.br = Main /\ e.br = Main /\ k.attr = e.attr => e.to # Null
      <3> SUFFICES ASSUME NEW e \in edges \ D, b = Main, e.br = Main, e.attr = a, e.to = Null
                   PROVE  FALSE
        BY <1>4
      <3>1. cur = e
        BY <1>1, <1>2, OpenIsCurrent DEF UpdateValue
      <3> QED
        BY <3>1
    <2>3. \A k, l \in N : k.br = Main /\ l.br = Main /\ k.attr = l.attr => k = l
      OBVIOUS
    <2>4. \A k \in N : k.from = clock + 1 /\ k.to = Null
      BY <1>4
    <2>5. edges' = (edges \ D) \cup Close(D, clock + 1) \cup N /\ clock + 1 \in Time
      BY <1>1, <1>2
    <2> HIDE DEF D, N
    <2> QED
      BY <2>1, <2>2, <2>3, <2>4, <2>5, <1>6, DisjointWritten
  <1>9. JustReplaced'
    <2> SUFFICES ASSUME NEW e \in edges', e.to = at
                 PROVE  \E f \in edges' : f.br = e.br /\ f.attr = e.attr /\ f.to = Null
      BY <1>2 DEF JustReplaced
    <2>1. e \in Close(D, at)
      <3>1. e \notin edges
        BY Times DEF HInv
      <3>2. e # n
        BY <1>2, <1>4 DEF Null
      <3> QED
        BY <3>1, <3>2, <1>1
    <2>2. e.br = b /\ e.attr = a
      <3>1. D \in SUBSET Edge
        BY <1>2, <1>6, Times
      <3>2. PICK f \in D : e.br = f.br /\ e.attr = f.attr
        <4> HIDE DEF D, at
        <4> QED
          BY <3>1, <2>1, <1>2, CloseType
      <3> QED
        BY <3>2, <1>3
    <2> QED
      BY <2>2, <1>1, <1>4
  <1>10. OneOrigin'
    BY <1>2, MergesKept
  <1> QED
    BY <1>7, <1>8, <1>9, <1>10

(* The origin of a change is, on main, the one edge that held when the       *)
(* branch was made.                                                          *)
LEMMA MergeValidateHInv ==
  ASSUME HInv, NEW b \in Branch, NEW via, NEW resolved, NEW keep,
         MergeValidate(b, via, resolved, keep)
  PROVE  OneOrigin'
  <1> DEFINE at == clock + 1
             diff == {e \in BranchChanges(b, at) : e.attr \notin resolved \/ e.attr \in keep}
             orig == UNION {OriginRel(b, e.attr) : e \in diff}
             made == branch[b].created_at
  <1>1. /\ merge'[b].changes = diff /\ merge'[b].origin = orig /\ clean' = clean
        /\ branch[b].open /\ \A c \in Branch : c # b => merge'[c] = merge[c]
    BY DEF MergeValidate, HInv, IInv, TypeOK
  <1>2. \A f \in diff : f.br = b
    BY DEF BranchChanges
  <1>3. \A o \in orig : \E f \in diff : o.attr = f.attr /\ o \in Visible(b, f.attr, made)
    BY DEF OriginRel, Visible
  <1>4. ASSUME clean, NEW o \in orig, NEW p \in orig, o.br = Main, p.br = Main, o.attr = p.attr
        PROVE  Same(o, p)
    <2>1. made <= branch[b].branched_from
      BY Times DEF HInv
    <2>2. o \in edges /\ p \in edges /\ ValidAt(o, made) /\ ValidAt(p, made)
      BY <1>3, <1>4, <2>1, MainAssumption DEF Visible, time_default_branch
    <2>3. /\ o.from # made /\ p.from # made
          /\ o.to # Null => o.to # made
          /\ p.to # Null => p.to # made
      BY <2>2, <1>1, <1>4 DEF HInv, BranchQuiet
    <2>4. /\ o.from \in Nat /\ o.to \in Nat /\ p.from \in Nat /\ p.to \in Nat /\ made \in Nat
      BY <2>2, Times DEF HInv
    <2>5. o = p
      BY <2>2, <2>3, <2>4, <1>4 DEF HInv, MainDisjoint, ValidAt
    <2> QED
      BY <2>5 DEF Same
  <1> HIDE DEF diff, orig
  <1>5. ASSUME NEW c \in Branch
        PROVE  /\ \A f \in merge'[c].changes : f.br = c
               /\ \A o \in merge'[c].origin : \E f \in merge'[c].changes : o.attr = f.attr
               /\ clean => \A o, p \in merge'[c].origin :
                    o.br = Main /\ p.br = Main /\ o.attr = p.attr => Same(o, p)
    <2>1. CASE c = b
      BY <2>1, <1>1, <1>2, <1>3, <1>4
    <2>2. CASE c # b
      BY <2>2, <1>1 DEF HInv, OneOrigin
    <2> QED
      BY <2>1, <2>2
  <1> QED
    BY <1>1, <1>5 DEF OneOrigin, Same

(* The edges of main that a clean merge closes were open. *)
LEMMA AppliedOpen ==
  ASSUME HInv, NEW b \in Branch, MergeCommit(b), clean',
         NEW e \in edges, e.br = Main,
         \E f \in merge[b].changes \cup merge[b].origin : Same(e, f)
  PROVE  e.to = Null /\ \E f \in merge[b].changes : e.attr = f.attr
  <1>1. PICK o \in merge[b].changes \cup merge[b].origin : Same(e, o)
    OBVIOUS
  <1>2. o \in merge[b].origin /\ o.br = Main
    BY <1>1, MainAssumption DEF HInv, OneOrigin, Same
  <1>3. PICK g \in merge[b].changes : o.attr = g.attr
    BY <1>2 DEF HInv, OneOrigin
  <1>4. clean /\ ReplacesCurrent(b)
    BY DEF MergeCommit
  <1>5. PICK p \in merge[b].origin, x \in edges :
          p.attr = g.attr /\ Same(x, p) /\ x.br = Main /\ x.to = Null
    BY <1>3, <1>4 DEF ReplacesCurrent
  <1>6. Same(o, p)
    <2>1. p.br = Main /\ o.attr = p.attr
      BY <1>3, <1>5 DEF Same
    <2> QED
      BY <2>1, <1>2, <1>4 DEF HInv, OneOrigin
  <1>7. e.from = x.from /\ e.attr = x.attr
    BY <1>1, <1>5, <1>6 DEF HInv, MainBorn, Same
  <1>8. e = x
    <2>1. e.from \in Nat /\ e.to \in Nat /\ (e.to # Null => e.from < e.to)
      BY Times DEF HInv
    <2> QED
      BY <2>1, <1>4, <1>5, <1>7 DEF HInv, MainDisjoint
  <1> QED
    BY <1>1, <1>3, <1>5, <1>8 DEF Same

LEMMA MergeCommitHInv ==
  ASSUME HInv, NEW b \in Branch, MergeCommit(b)
  PROVE  MainDisjoint' /\ MainBorn' /\ BranchQuiet' /\ JustReplaced' /\ OneOrigin'
  <1> DEFINE at == clock + 1
             m == merge[b]
             D == {e \in edges : \E f \in m.changes \cup m.origin : Same(e, f)}
             N == {edge(f.attr, f.val, Main, at) : f \in m.changes}
  <1>1. /\ edges' = (edges \ D) \cup Close(D, at) \cup N
        /\ clock' = clock + 2 /\ clean' = (clean /\ ReplacesCurrent(b))
        /\ branch' = [branch EXCEPT ![b].branched_from = clock + 2]
        /\ merge' = [merge EXCEPT ![b] = NoMerge]
    BY DEF MergeCommit
  <1>2. /\ at \in Time /\ clock \in Nat /\ at \in Nat /\ IInv /\ m.changes \subseteq Edge
    BY Times, BoundAssumption DEF HInv, IInv, TypeOK, MergeCommit, Time
  <1>3. \A n \in N : /\ n \in Edge /\ n.from = at /\ n.born = at /\ n.to = Null /\ n.br = Main
                     /\ \E f \in m.changes : n.attr = f.attr /\ n = edge(f.attr, f.val, Main, at)
    <2> SUFFICES ASSUME NEW f \in m.changes
                 PROVE  LET n == edge(f.attr, f.val, Main, at)
                        IN n \in Edge /\ n.from = at /\ n.born = at /\ n.to = Null /\ n.br = Main
                           /\ n.attr = f.attr
      OBVIOUS
    <2>1. f.attr \in Attr /\ f.val \in Value /\ Main \in AnyBranch
      BY <1>2 DEF Edge, AnyBranch
    <2> HIDE DEF at
    <2> QED
      BY <2>1, <1>2, EdgeType DEF edge
  <1>4. D \in SUBSET edges /\ N \in SUBSET Edge
    BY <1>3
  <1>5. \A c \in Branch : /\ branch'[c].open = branch[c].open
                          /\ branch'[c].created_at = branch[c].created_at
                          /\ branch'[c].branched_from \in {branch[c].branched_from, clock + 2}
    BY <1>1, <1>2 DEF IInv, TypeOK
  <1>6. \A n \in N : n.from = clock + 1 /\ n.born = clock + 1 /\ n.to = Null
    BY <1>3
  <1>7. MainBorn' /\ BranchQuiet'
    <2> HIDE DEF D, N
    <2> QED
      BY <1>1, <1>2, <1>4, <1>5, <1>6, MainWritten
  <1>8. MainDisjoint'
    <2> SUFFICES ASSUME clean' PROVE MainDisjoint'
      BY DEF MainDisjoint
    <2>1. \A e \in D : e.br = Main => e.to = Null
      BY AppliedOpen
    <2>2. \A n, k \in N : n.br = Main /\ k.br = Main /\ n.attr = k.attr => n = k
      <3> SUFFICES ASSUME NEW n \in N, NEW k \in N, n.attr = k.attr PROVE n = k
        OBVIOUS
      <3>1. PICK f \in m.changes : n.attr = f.attr /\ n = edge(f.attr, f.val, Main, at)
        BY <1>3
      <3>2. PICK g \in m.changes : k.attr = g.attr /\ k = edge(g.attr, g.val, Main, at)
        BY <1>3
      <3>3. f = g
        BY <3>1, <3>2, <1>2 DEF IInv, OneChange
      <3> QED
        BY <3>1, <3>2, <3>3
    <2>3. \A n \in N, e \in edges \ D : n.br = Main /\ e.br = Main /\ n.attr = e.attr => e.to # Null
      <3> SUFFICES ASSUME NEW n \in N, NEW e \in edges \ D, e.br = Main, n.attr = e.attr, e.to = Null
                   PROVE  FALSE
        OBVIOUS
      <3>1. PICK f \in m.changes : n.attr = f.attr
        BY <1>3
      <3>2. clean /\ ReplacesCurrent(b)
        BY <1>1
      <3>3. PICK o \in m.origin, g \in edges :
              o.attr = f.attr /\ Same(g, o) /\ g.br = Main /\ g.to = Null
        BY <3>2 DEF ReplacesCurrent
      <3>4. g = e
        BY <3>1, <3>2, <3>3, <1>2 DEF IInv, SingleOpen, Same
      <3> QED
        BY <3>3, <3>4
    <2>4. \A n \in N : n.from = clock + 1 /\ n.to = Null
      BY <1>3
    <2>5. clean
      BY <1>1
    <2> HIDE DEF D, N
    <2> QED
      BY <2>1, <2>2, <2>3, <2>4, <2>5, <1>1, <1>2, <1>4, DisjointWritten
  <1>9. JustReplaced'
    <2>1. D \in SUBSET Edge
      BY <1>2, Times
    <2>2. \A e \in Close(D, at) : e.to = at
      <3> HIDE DEF D, at
      <3> QED
        BY <2>1, <1>2, CloseType
    <2>3. \A e \in edges : e.to # clock + 2
      BY <1>2, Times
    <2>4. \A e \in edges' : e.to # clock + 2
      <3> HIDE DEF D, N
      <3> QED
        BY <2>2, <2>3, <1>1, <1>2, <1>6 DEF Null
    <2> QED
      BY <2>4, <1>1 DEF JustReplaced
  <1>10. OneOrigin'
    <2>1. \A c \in Branch : merge'[c] = merge[c] \/ merge'[c] = NoMerge
      BY <1>1, <1>2 DEF IInv, TypeOK
    <2>2. NoMerge.changes = {} /\ NoMerge.origin = {}
      BY DEF NoMerge
    <2>3. clean' => clean
      BY <1>1
    <2> QED
      BY <2>1, <2>2, <2>3, MergesKept
  <1> QED
    BY <1>7, <1>8, <1>9, <1>10

LEMMA NextHInv == HInv /\ [Next]_vars => HInv'
  <1> SUFFICES ASSUME HInv, [Next]_vars PROVE HInv'
    OBVIOUS
  <1> DEFINE H == MainDisjoint' /\ MainBorn' /\ BranchQuiet' /\ JustReplaced' /\ OneOrigin'
  <1>1. IInv'
    BY NextIInv DEF HInv
  <1>2. clock \in Nat
    BY Times DEF HInv
  <1>3. ASSUME NEW b \in AnyBranch, NEW a \in Attr, NEW v \in Value, UpdateValue(b, a, v) PROVE H
    BY <1>3, UpdateValueHInv
  <1>4. ASSUME NEW b \in Branch, CreateBranch(b) PROVE H
    <2>1. \A c \in Branch : c # b => branch'[c] = branch[c]
      BY <1>4 DEF CreateBranch, HInv, IInv, TypeOK
    <2>2. branch'[b].created_at = clock + 1 /\ branch'[b].branched_from = clock + 1
      BY <1>4 DEF CreateBranch, HInv, IInv, TypeOK
    <2>3. MainDisjoint' /\ MainBorn' /\ BranchQuiet'
      BY <1>2, <1>4, <2>1, <2>2, MainKept DEF CreateBranch
    <2>4. JustReplaced'
      BY <1>2, <1>4, NothingClosed DEF CreateBranch
    <2>5. OneOrigin'
      BY <1>4, MergesKept DEF CreateBranch
    <2> QED
      BY <2>3, <2>4, <2>5
  <1>5. ASSUME NEW b \in Branch, DeleteBranch(b) PROVE H
    <2>1. \A c \in Branch : branch'[c] = branch[c] \/ ~ branch'[c].open
      BY <1>5 DEF DeleteBranch, HInv, IInv, TypeOK, NoBranch
    <2>2. MainDisjoint' /\ MainBorn' /\ BranchQuiet'
      BY <1>5, <2>1, MainKept DEF DeleteBranch
    <2>3. OneOrigin' /\ JustReplaced'
      BY <1>5, MergesKept DEF DeleteBranch, HInv, JustReplaced
    <2> QED
      BY <2>2, <2>3
  <1>6. ASSUME NEW b \in Branch, DeleteBranchRelationships(b) PROVE H
    <2>1. MainDisjoint' /\ MainBorn' /\ BranchQuiet'
      BY <1>6, MainKept DEF DeleteBranchRelationships
    <2>2. OneOrigin' /\ JustReplaced'
      BY <1>6, MergesKept DEF DeleteBranchRelationships, HInv, JustReplaced
    <2> QED
      BY <2>1, <2>2
  <1>7. ASSUME NEW b \in Branch, DeleteInterrupted(b) PROVE H
    <2>1. MainDisjoint' /\ MainBorn' /\ BranchQuiet'
      BY <1>7, MainKept DEF DeleteInterrupted
    <2>2. OneOrigin' /\ JustReplaced'
      BY <1>7, MergesKept DEF DeleteInterrupted, HInv, JustReplaced
    <2> QED
      BY <2>1, <2>2
  <1>8. ASSUME NEW b \in Branch, Rebase(b) PROVE H
    <2> DEFINE at == clock + 1
               kept == {f \in edges : f.br = b /\ ~ RebaseDeletes(f, at)}
               moved == {[e EXCEPT !.from = at] : e \in kept}
    <2>1. edges' = {e \in edges : e.br # b} \cup moved /\ clock' = at /\ clean' = clean /\ merge' = merge
      BY <1>8 DEF Rebase
    <2>2. \A e \in moved : e.br = b /\ \E f \in edges : e.to = f.to
      <3> SUFFICES ASSUME NEW f \in kept
                   PROVE  [f EXCEPT !.from = at].br = b /\ [f EXCEPT !.from = at].to = f.to
        OBVIOUS
      <3>1. f \in Edge /\ f.br = b
        BY Times DEF HInv
      <3> QED
        BY <3>1 DEF Edge
    <2> HIDE DEF moved
    <2>3. \A e \in edges' : e.br = Main => e \in edges
      BY <2>1, <2>2, MainAssumption
    <2>4. \A c \in Branch : /\ branch'[c].open = branch[c].open
                            /\ branch'[c].created_at = branch[c].created_at
                            /\ branch'[c].branched_from \in {branch[c].branched_from, at}
      BY <1>8 DEF Rebase, HInv, IInv, TypeOK
    <2>5. MainDisjoint' /\ MainBorn' /\ BranchQuiet'
      BY <2>1, <2>3, <2>4, <1>2, MainKept
    <2>6. JustReplaced'
      <3>1. \A e \in edges' : e.to = Null \/ \E f \in edges : e.to = f.to
        BY <2>1, <2>2
      <3> QED
        BY <3>1, <2>1, <1>2, NothingClosed
    <2>7. OneOrigin'
      BY <2>1, MergesKept
    <2> QED
      BY <2>5, <2>6, <2>7
  <1>9. ASSUME NEW b \in Branch, NEW via \in {"branch", "proposed_change"},
               NEW resolved \in SUBSET Attr, NEW keep \in SUBSET Attr,
               MergeValidate(b, via, resolved, keep)
        PROVE  H
    <2>1. edges' = edges /\ branch' = branch /\ clean' = clean /\ clock' = clock + 1
      BY <1>9 DEF MergeValidate
    <2>2. MainDisjoint' /\ MainBorn' /\ BranchQuiet'
      BY <2>1, MainKept
    <2>3. JustReplaced'
      BY <2>1, <1>2, NothingClosed
    <2> QED
      BY <2>2, <2>3, <1>9, MergeValidateHInv
  <1>10. ASSUME NEW b \in Branch, ReleaseGraphLock(b) PROVE H
    <2>1. \A c \in Branch : merge'[c].changes = merge[c].changes /\ merge'[c].origin = merge[c].origin
      BY <1>10 DEF ReleaseGraphLock, HInv, IInv, TypeOK
    <2>2. MainDisjoint' /\ MainBorn' /\ BranchQuiet'
      BY <1>10, MainKept DEF ReleaseGraphLock
    <2>3. JustReplaced' /\ OneOrigin'
      BY <1>10, <2>1, MergesKept DEF ReleaseGraphLock, HInv, JustReplaced
    <2> QED
      BY <2>2, <2>3
  <1>11. ASSUME NEW b \in Branch, MergeCommit(b) PROVE H
    BY <1>11, MergeCommitHInv
  <1>12. ASSUME NEW b \in Branch, MergeRollback(b) PROVE H
    <2>1. \A c \in Branch : merge'[c] = merge[c] \/ merge'[c] = NoMerge
      BY <1>12 DEF MergeRollback, HInv, IInv, TypeOK
    <2>2. MainDisjoint' /\ MainBorn' /\ BranchQuiet'
      BY <1>12, MainKept DEF MergeRollback
    <2>3. JustReplaced' /\ OneOrigin'
      BY <1>12, <2>1, MergesKept DEF MergeRollback, HInv, JustReplaced, NoMerge
    <2> QED
      BY <2>2, <2>3
  <1>13. ASSUME UNCHANGED vars PROVE H
    BY <1>13 DEF vars, HInv, MainDisjoint, MainBorn, BranchQuiet, JustReplaced, OneOrigin
  <1>14. H
    <2> HIDE DEF H
    <2> QED
      BY <1>3, <1>4, <1>5, <1>6, <1>7, <1>8, <1>9, <1>10, <1>11, <1>12, <1>13 DEF Next
  <1> QED
    BY <1>1, <1>14 DEF HInv

-----------------------------------------------------------------------------
(* What a branch shows now.                                                  *)

(* The edges E hold at most one open value of an attribute on a branch, no   *)
(* closed one is later, and one that was closed at time t was replaced.      *)
Tidy(E, b, a, t) ==
  /\ \A e \in E : e.from <= t /\ e.to <= t
  /\ \A e, f \in OpenOf(E, b, a) : e = f
  /\ \A e \in OpenOf(E, b, a), f \in E : f.br = b /\ f.attr = a /\ f.to # Null => f.from <= e.from
  /\ \A e \in E : e.br = b /\ e.attr = a /\ e.to = t => OpenOf(E, b, a) # {}

LEMMA TidyNow ==
  ASSUME HInv, NEW b \in AnyBranch, NEW a, b # Main \/ clean
  PROVE  Tidy(edges, b, a, clock)
  <1>1. \A e \in edges : e.from <= clock /\ e.to <= clock
    BY Times DEF HInv
  <1>2. \A e, f \in OpenOf(edges, b, a) : e = f
    BY DEF HInv, IInv, SingleOpen, OpenOf
  <1>3. \A e \in OpenOf(edges, b, a), f \in edges :
          f.br = b /\ f.attr = a /\ f.to # Null => f.from <= e.from
    BY DEF HInv, IInv, ClosedBefore, OpenOf
  <1>4. \A e \in edges : e.br = b /\ e.attr = a /\ e.to = clock => OpenOf(edges, b, a) # {}
    BY DEF HInv, JustReplaced, OpenOf
  <1> QED
    BY <1>1, <1>2, <1>3, <1>4 DEF Tidy

(* The open value of a branch is what it shows. *)
LEMMA ShowsOwn ==
  ASSUME NEW E \in SUBSET Edge, NEW b \in AnyBranch, NEW a, NEW t \in Nat, NEW main_t \in Nat,
         b = Main => main_t = t, Tidy(E, b, a, t), OpenOf(E, b, a) # {}
  PROVE  ReadOf(Seen(E, b, a, t, main_t)) = {o.val : o \in OpenOf(E, b, a)}
  <1> DEFINE S == Seen(E, b, a, t, main_t)
  <1>1. PICK o \in OpenOf(E, b, a) : TRUE
    OBVIOUS
  <1>2. o \in E /\ o.br = b /\ o.attr = a /\ o.to = Null /\ OpenOf(E, b, a) = {o}
    BY <1>1 DEF Tidy, OpenOf
  <1>3. o \in S /\ S \in SUBSET Edge
    BY <1>2 DEF Seen, ValidAt, Tidy
  <1>4. \A e \in S : \/ e = o
                     \/ e.br = b /\ e.to # Null /\ e.from <= o.from
                     \/ e.br = Main /\ b # Main
    <2> SUFFICES ASSUME NEW e \in S, e.br = b, e # o
                 PROVE  e.to # Null /\ e.from <= o.from
      BY DEF Seen
    <2>1. e \in E /\ e.attr = a
      BY DEF Seen
    <2>2. e.to # Null
      BY <2>1, <1>2 DEF OpenOf
    <2> QED
      BY <2>1, <2>2, <1>1 DEF Tidy
  <1>5. ReadOf(S) = {o.val}
    <2> HIDE DEF S
    <2> QED
      BY <1>2, <1>3, <1>4, ReadOpen
  <1> QED
    BY <1>2, <1>5

(* Without one the branch shows what main showed at the time it reads main. *)
LEMMA ShowsMain ==
  ASSUME NEW E \in SUBSET Edge, NEW b \in AnyBranch, NEW a, NEW t \in Nat, NEW main_t \in Nat,
         Tidy(E, b, a, t), OpenOf(E, b, a) = {}
  PROVE  /\ b # Main => Seen(E, b, a, t, main_t) = Seen(E, Main, a, main_t, main_t)
         /\ Seen(E, b, a, t, t) = Seen(E, Main, a, t, t)
         /\ b = Main => ReadOf(Seen(E, Main, a, t, t)) = {}
  <1>1. \A e \in E : e.br = b /\ e.attr = a => ~ ValidAt(e, t)
    <2> SUFFICES ASSUME NEW e \in E, e.br = b, e.attr = a, ValidAt(e, t) PROVE FALSE
      OBVIOUS
    <2>1. e.to # Null /\ e.to >= t /\ e.to <= t /\ e.to \in Nat
      BY DEF Tidy, ValidAt, OpenOf, Edge, Time, Null
    <2> QED
      BY <2>1 DEF Tidy
  <1>2. ReadOf({}) = {}
    BY DEF ReadOf, CurrentOf
  <1> QED
    BY <1>1, <1>2 DEF Seen

(* The time at which main is read. *)
LEMMA MainTime ==
  ASSUME IInv, IInv'
  PROVE  /\ \A t : time_default_branch(Main, t) = t /\ time_default_branch(Main, t)' = t
         /\ \A b \in Branch : /\ time_default_branch(b, clock) = branch[b].branched_from
                              /\ time_default_branch(b, clock)' = branch'[b].branched_from
  <1>1. /\ clock \in Nat /\ \A b \in Branch : branch[b].branched_from \in Nat
                                             /\ branch[b].branched_from <= clock
    BY BoundAssumption DEF IInv, TypeOK, Time
  <1>2. /\ clock' \in Nat /\ \A b \in Branch : branch'[b].branched_from \in Nat
                                              /\ branch'[b].branched_from <= clock'
    BY BoundAssumption DEF IInv, TypeOK, Time
  <1> QED
    BY <1>1, <1>2, MainAssumption DEF time_default_branch

(* What is shown is what is read now. *)
LEMMA ViewIsReadOf ==
  ASSUME NEW b, NEW a \in Attr
  PROVE  /\ View(b)[a] = ReadOf(Seen(edges, b, a, clock, time_default_branch(b, clock)))
         /\ View(b)'[a] = ReadOf(Seen(edges', b, a, clock', time_default_branch(b, clock)'))
  BY DEF View, Read, ReadOf, Current, CurrentOf, NodeListGetAttribute, Visible, Seen

(* TidyNow for the next state. *)
LEMMA TidyNext ==
  ASSUME HInv', NEW b \in AnyBranch, NEW a, b # Main \/ clean'
  PROVE  Tidy(edges', b, a, clock')
  <1>1. \A e \in edges' : e.from <= clock' /\ e.to <= clock'
    BY DEF HInv, IInv, TypeOK
  <1>2. \A e, f \in OpenOf(edges', b, a) : e = f
    BY DEF HInv, IInv, SingleOpen, OpenOf
  <1>3. \A e \in OpenOf(edges', b, a), f \in edges' :
          f.br = b /\ f.attr = a /\ f.to # Null => f.from <= e.from
    BY DEF HInv, IInv, ClosedBefore, OpenOf
  <1>4. \A e \in edges' : e.br = b /\ e.attr = a /\ e.to = clock' => OpenOf(edges', b, a) # {}
    BY DEF HInv, JustReplaced, OpenOf
  <1> QED
    BY <1>1, <1>2, <1>3, <1>4 DEF Tidy

-----------------------------------------------------------------------------
(* The past of main.                                                         *)

(* x is the edge e after a step at time at: the same, or now closed. *)
Follows(e, x, at) ==
  /\ x.br = e.br /\ x.attr = e.attr /\ x.val = e.val /\ x.from = e.from
  /\ x.to = e.to \/ (e.to = Null /\ x.to = at)

(* The edges of main in F are those in E, some now closed, and new ones. *)
MainFollowed(E, F, at) ==
  /\ \A e \in E : e.br = Main => \E x \in F : Follows(e, x, at)
  /\ \A x \in F : x.br = Main => x.from = at \/ \E e \in E : Follows(e, x, at)

LEMMA WrittenFollowed ==
  ASSUME NEW E \in SUBSET Edge, NEW D \in SUBSET E, NEW N, NEW at \in Time, NEW F,
         F = (E \ D) \cup Close(D, at) \cup N,
         \A n \in N : n.from = at,
         \A e \in D : e.br = Main => e.to = Null
  PROVE  MainFollowed(E, F, at)
  <1>1. \A e \in D : e.br = Main =>
          [e EXCEPT !.to = at] \in Close(D, at) /\ Follows(e, [e EXCEPT !.to = at], at)
    BY DEF Close, Follows, Edge
  <1>2. \A e \in E : Follows(e, e, at)
    BY DEF Follows
  <1>3. \A x \in Close(D, at) : x.br = Main => \E e \in D : Follows(e, x, at)
    <2> SUFFICES ASSUME NEW e \in D, [e EXCEPT !.to = at].br = Main
                 PROVE  Follows(e, [e EXCEPT !.to = at], at)
      BY DEF Close
    <2>1. e.br = Main
      BY DEF Edge
    <2> QED
      BY <1>1, <2>1
  <1> HIDE DEF Follows
  <1> QED
    BY <1>1, <1>2, <1>3 DEF MainFollowed

LEMMA NextFollowed ==
  ASSUME HInv, [Next]_vars, clean'
  PROVE  clean /\ MainFollowed(edges, edges', clock + 1)
  <1> DEFINE at == clock + 1
             G == clean /\ MainFollowed(edges, edges', at)
  <1>1. clock \in Nat /\ edges \in SUBSET Edge
    BY Times DEF HInv
  <1>2. ASSUME \A e : e.br = Main => (e \in edges' <=> e \in edges), clean PROVE G
    <2>1. \A e \in edges : Follows(e, e, at)
      BY DEF Follows
    <2> HIDE DEF Follows
    <2> QED
      BY <1>2, <2>1 DEF MainFollowed
  <1>3. ASSUME NEW b \in AnyBranch, NEW a \in Attr, NEW v \in Value, UpdateValue(b, a, v) PROVE G
    <2> DEFINE N == {edge(a, v, b, at)}
    <2>1. PICK cur \in Current(b, a, at) :
            LET replaced == {e \in {cur} : e.br = b}
            IN edges' = (edges \ replaced) \cup Close(replaced, at) \cup N
      BY <1>3 DEF UpdateValue
    <2> DEFINE D == {e \in {cur} : e.br = b}
    <2>2. at \in Time /\ clean
      BY <1>1, <1>3, BoundAssumption DEF UpdateValue, Time
    <2>3. cur \in edges
      BY <2>1 DEF Current, NodeListGetAttribute, Visible
    <2>4. \A e \in D : e.br = Main => e.to = Null
      <3> SUFFICES ASSUME cur.br = Main, b = Main PROVE cur.to = Null
        OBVIOUS
      <3>1. ValidAt(cur, at)
        BY <2>1 DEF Current, NodeListGetAttribute, Visible, time_default_branch
      <3> QED
        BY <3>1, <1>1, <2>3, Times DEF ValidAt, HInv
    <2>5. D \in SUBSET edges
      BY <2>3
    <2>6. \A n \in N : n.from = at
      BY DEF edge
    <2>7. edges' = (edges \ D) \cup Close(D, at) \cup N
      BY <2>1
    <2> HIDE DEF D, N, at
    <2> QED
      BY <1>1, <2>2, <2>4, <2>5, <2>6, <2>7, WrittenFollowed
  <1>4. ASSUME NEW b \in Branch, MergeCommit(b) PROVE G
    <2> DEFINE m == merge[b]
               D == {e \in edges : \E f \in m.changes \cup m.origin : Same(e, f)}
               N == {edge(f.attr, f.val, Main, at) : f \in m.changes}
    <2>1. edges' = (edges \ D) \cup Close(D, at) \cup N /\ clean
      BY <1>4 DEF MergeCommit
    <2>2. at \in Time
      BY <1>1, <1>4, BoundAssumption DEF MergeCommit, Time
    <2>3. \A e \in D : e.br = Main => e.to = Null
      BY <1>4, AppliedOpen
    <2>4. \A n \in N : n.from = at
      BY DEF edge
    <2>5. D \in SUBSET edges
      OBVIOUS
    <2> HIDE DEF D, N, at
    <2> QED
      BY <1>1, <2>1, <2>2, <2>3, <2>4, <2>5, WrittenFollowed
  <1>5. ASSUME NEW b \in Branch, Rebase(b) PROVE G
    <2> DEFINE kept == {f \in edges : f.br = b /\ ~ RebaseDeletes(f, at)}
               moved == {[e EXCEPT !.from = at] : e \in kept}
    <2>1. edges' = {e \in edges : e.br # b} \cup moved /\ clean
      BY <1>5 DEF Rebase
    <2>2. \A e \in moved : e.br = b
      <3> SUFFICES ASSUME NEW f \in kept PROVE [f EXCEPT !.from = at].br = b
        OBVIOUS
      <3>1. f \in Edge /\ f.br = b
        BY <1>1
      <3> QED
        BY <3>1 DEF Edge
    <2> HIDE DEF moved
    <2> QED
      BY <2>1, <2>2, <1>2, MainAssumption
  <1>6. ASSUME NEW b \in Branch, DeleteBranchRelationships(b) PROVE G
    BY <1>6, <1>2, MainAssumption DEF DeleteBranchRelationships
  <1>7. ASSUME NEW b \in Branch,
               \/ CreateBranch(b) \/ DeleteBranch(b) \/ DeleteInterrupted(b)
               \/ \E via \in {"branch", "proposed_change"}, resolved, keep \in SUBSET Attr :
                    MergeValidate(b, via, resolved, keep)
               \/ ReleaseGraphLock(b) \/ MergeRollback(b)
        PROVE  G
    <2>1. edges' = edges /\ clean' = clean
      BY <1>7 DEF CreateBranch, DeleteBranch, DeleteInterrupted, MergeValidate,
                  ReleaseGraphLock, MergeRollback
    <2> QED
      BY <2>1, <1>2
  <1>8. ASSUME UNCHANGED vars PROVE G
    BY <1>8, <1>2 DEF vars
  <1> HIDE DEF G
  <1>9. G
    BY <1>3, <1>4, <1>5, <1>6, <1>7, <1>8 DEF Next
  <1> QED
    BY <1>9 DEF G

(* What main showed at a past time at which nothing was written is what it   *)
(* shows for that time after the step.                                       *)
LEMMA QuietMain ==
  ASSUME HInv, HInv', [Next]_vars, clean', NEW t \in Nat, t <= clock, NEW a,
         \A e \in edges : e.br = Main => e.from # t /\ (e.to # Null => e.to # t)
  PROVE  ReadOf(Seen(edges', Main, a, t, t)) = ReadOf(Seen(edges, Main, a, t, t))
  <1> DEFINE at == clock + 1
             S == Seen(edges, Main, a, t, t)
             T == Seen(edges', Main, a, t, t)
  <1>1. clean /\ MainFollowed(edges, edges', at)
    BY NextFollowed
  <1>2. clock \in Nat /\ edges \in SUBSET Edge /\ edges' \in SUBSET Edge
    BY Times DEF HInv, IInv, TypeOK
  <1>3. \A e \in Edge : e.from \in Nat /\ e.to \in Nat
    BY BoundAssumption DEF Edge, Time, Null
  <1>4. \A e \in S : e \in edges /\ e.br = Main /\ e.attr = a /\ ValidAt(e, t)
    BY DEF Seen
  <1>5. \A e \in T : e \in edges' /\ e.br = Main /\ e.attr = a /\ ValidAt(e, t)
    BY DEF Seen
  <1>6. \A e, f \in S : e = f
    <2> SUFFICES ASSUME NEW e \in S, NEW f \in S, e.to # Null, e.to <= f.from PROVE FALSE
      BY <1>1, <1>4 DEF HInv, MainDisjoint
    <2> QED
      BY <1>2, <1>3, <1>4 DEF ValidAt
  <1>7. \A x \in T : \E e \in S : Follows(e, x, at)
    <2> SUFFICES ASSUME NEW x \in T PROVE \E e \in S : Follows(e, x, at)
      OBVIOUS
    <2>1. x.from # at
      BY <1>2, <1>3, <1>5 DEF ValidAt
    <2>2. PICK e \in edges : Follows(e, x, at)
      BY <2>1, <1>1, <1>5 DEF MainFollowed
    <2>3. e.br = Main /\ e.attr = a /\ ValidAt(e, t)
      BY <2>2, <1>5 DEF Follows, ValidAt
    <2> QED
      BY <2>2, <2>3 DEF Seen
  <1>8. \A x, y \in T : x = y
    <2> SUFFICES ASSUME NEW x \in T, NEW y \in T, x.to # Null, x.to <= y.from PROVE FALSE
      BY <1>5 DEF HInv, MainDisjoint
    <2>1. y.from = t
      BY <1>2, <1>3, <1>5 DEF ValidAt
    <2>2. PICK e \in S : Follows(e, y, at)
      BY <1>7
    <2> QED
      BY <2>1, <2>2, <1>4 DEF Follows
  <1>9. \A e \in S : \E x \in T : Follows(e, x, at)
    <2> SUFFICES ASSUME NEW e \in S PROVE \E x \in T : Follows(e, x, at)
      OBVIOUS
    <2>1. PICK x \in edges' : Follows(e, x, at)
      BY <1>1, <1>4 DEF MainFollowed
    <2>2. x.br = Main /\ x.attr = a
      BY <2>1, <1>4 DEF Follows
    <2>3. x.from <= t /\ (x.to = Null \/ x.to >= t)
      BY <2>1, <1>2, <1>4 DEF Follows, ValidAt
    <2> QED
      BY <2>1, <2>2, <2>3 DEF Seen, ValidAt
  <1>10. {e.val : e \in S} = {x.val : x \in T}
    BY <1>7, <1>9 DEF Follows
  <1>11. S \in SUBSET Edge /\ T \in SUBSET Edge
    BY <1>2, <1>4, <1>5
  <1> HIDE DEF S, T
  <1>12. ReadOf(S) = {e.val : e \in S} /\ ReadOf(T) = {x.val : x \in T}
    BY <1>6, <1>8, <1>11, ReadOne
  <1> QED
    BY <1>10, <1>12 DEF S, T

-----------------------------------------------------------------------------
(* The theorems.                                                             *)

LEMMA IsolationOfStep == HInv /\ HInv' /\ [Next]_vars => IsolationStep
  <1> SUFFICES ASSUME HInv, HInv', [Next]_vars, NEW b \in Branch, branch[b].open,
                      branch'[b] = branch[b], OwnEdges(b)' = OwnEdges(b), clean'
               PROVE  View(b)' = View(b)
    BY DEF IsolationStep
  <1> DEFINE t == branch[b].branched_from
  <1>1. b \in AnyBranch /\ b # Main
    BY MainAssumption DEF AnyBranch
  <1>2. /\ t \in Nat /\ t <= clock /\ clock \in Nat /\ clock' \in Nat
        /\ edges \in SUBSET Edge /\ edges' \in SUBSET Edge /\ IInv /\ IInv'
    BY Times, BoundAssumption DEF HInv, IInv, TypeOK, Time
  <1>3. ASSUME NEW a \in Attr PROVE View(b)'[a] = View(b)[a]
    <2>1. /\ View(b)[a] = ReadOf(Seen(edges, b, a, clock, t))
          /\ View(b)'[a] = ReadOf(Seen(edges', b, a, clock', t))
      BY <1>2, MainTime, ViewIsReadOf
    <2>2. Tidy(edges, b, a, clock) /\ Tidy(edges', b, a, clock')
      BY <1>1, TidyNow, TidyNext
    <2>3. OpenOf(edges', b, a) = OpenOf(edges, b, a)
      BY DEF OpenOf, OwnEdges
    <2>4. CASE OpenOf(edges, b, a) # {}
      <3> HIDE DEF t
      <3>1. ReadOf(Seen(edges, b, a, clock, t)) = {o.val : o \in OpenOf(edges, b, a)}
        BY <1>1, <1>2, <2>2, <2>4, ShowsOwn
      <3>2. ReadOf(Seen(edges', b, a, clock', t)) = {o.val : o \in OpenOf(edges', b, a)}
        BY <1>1, <1>2, <2>2, <2>3, <2>4, ShowsOwn
      <3> QED
        BY <3>1, <3>2, <2>1, <2>3
    <2>5. CASE OpenOf(edges, b, a) = {}
      <3>1. \A e \in edges : e.br = Main => e.from # t /\ (e.to # Null => e.to # t)
        BY DEF HInv, BranchQuiet
      <3> HIDE DEF t
      <3>2. Seen(edges, b, a, clock, t) = Seen(edges, Main, a, t, t)
        BY <1>1, <1>2, <2>2, <2>5, ShowsMain
      <3>3. Seen(edges', b, a, clock', t) = Seen(edges', Main, a, t, t)
        BY <1>1, <1>2, <2>2, <2>3, <2>5, ShowsMain
      <3>4. ReadOf(Seen(edges', Main, a, t, t)) = ReadOf(Seen(edges, Main, a, t, t))
        BY <3>1, <1>2, QuietMain
      <3> QED
        BY <3>2, <3>3, <3>4, <2>1
    <2> QED
      BY <2>4, <2>5
  <1> QED
    BY <1>3 DEF View

(* Isolation: whatever other branches write, merge, rebase or delete, and    *)
(* whatever is written on main, a branch keeps showing the same values until *)
(* its own edges or its branched_from change.                                *)
THEOREM IsolationAlways == Spec => Isolation
  BY InitHInv, NextHInv, IsolationOfStep, PTL DEF Spec, Isolation

LEMMA HistoryOfStep == HInv /\ HInv' /\ [Next]_vars => (clean' => HistoryStep)
  <1> SUFFICES ASSUME HInv, HInv', [Next]_vars, clean', NEW a \in Attr, NEW t \in 1..clock, Quiet(t)
               PROVE  Read(Main, a, t)' = Read(Main, a, t)
    BY DEF HistoryStep
  <1>1. t \in Nat /\ t <= clock /\ IInv /\ IInv'
    BY Times DEF HInv
  <1>2. \A e \in edges : e.br = Main => e.from # t /\ (e.to # Null => e.to # t)
    BY DEF Quiet
  <1>3. ReadOf(Seen(edges', Main, a, t, t)) = ReadOf(Seen(edges, Main, a, t, t))
    BY <1>1, <1>2, QuietMain
  <1>4. /\ Read(Main, a, t) = ReadOf(Seen(edges, Main, a, t, t))
        /\ Read(Main, a, t)' = ReadOf(Seen(edges', Main, a, t, t))
    BY <1>1, MainTime, ReadIsReadOf
  <1> QED
    BY <1>3, <1>4

(* CleanMainImmutable: no step changes what main showed at a past time at    *)
(* which nothing was written, as long as every merge replaced the value that *)
(* main had.                                                                 *)
THEOREM MainImmutableAlways == Spec => CleanMainImmutable
  BY InitHInv, NextHInv, HistoryOfStep, PTL DEF Spec, CleanMainImmutable

(* A branch that exists was made at some time. *)
Created == \A b \in Branch : branch[b].open => branch[b].created_at # 0

LEMMA InitCreated == Init => Created
  BY DEF Init, Created, NoBranch

LEMMA NextCreated == HInv /\ Created /\ [Next]_vars => Created'
  <1> SUFFICES ASSUME HInv, Created, [Next]_vars, NEW b \in Branch, branch'[b].open
               PROVE  branch'[b].created_at # 0
    BY DEF Created
  <1>1. clock \in Nat /\ branch \in [Branch -> [open : BOOLEAN, created_at : 0..MaxTime,
                                                branched_from : 0..MaxTime]]
    BY Times DEF HInv, IInv, TypeOK
  <1>2. ASSUME NEW c \in Branch, CreateBranch(c) PROVE branch'[b].created_at # 0
    <2>1. c = b => branch'[b].created_at = clock + 1
      BY <1>1, <1>2 DEF CreateBranch
    <2>2. c # b => branch'[b] = branch[b]
      BY <1>1, <1>2 DEF CreateBranch
    <2> QED
      BY <1>1, <2>1, <2>2 DEF Created
  <1>3. ASSUME NEW c \in Branch, DeleteBranch(c) PROVE branch'[b].created_at # 0
    BY <1>1, <1>3 DEF DeleteBranch, NoBranch, Created
  <1>4. ASSUME NEW c \in Branch, Rebase(c) \/ MergeCommit(c) PROVE branch'[b].created_at # 0
    <2>1. \E t : branch' = [branch EXCEPT ![c].branched_from = t]
      BY <1>4 DEF Rebase, MergeCommit
    <2>2. branch'[b].open = branch[b].open /\ branch'[b].created_at = branch[b].created_at
      BY <1>1, <2>1
    <2> QED
      BY <2>2 DEF Created
  <1>5. ASSUME branch' = branch PROVE branch'[b].created_at # 0
    BY <1>5 DEF Created
  <1> QED
    BY <1>2, <1>3, <1>4, <1>5 DEF Next, vars, UpdateValue, DeleteBranchRelationships,
         DeleteInterrupted, MergeValidate, ReleaseGraphLock, MergeRollback

(* Only a rebase moves branched_from and leaves the pending merge alone. *)
LEMMA RebaseOnly ==
  ASSUME HInv, Created, [Next]_vars, NEW b \in Branch, RebaseStep(b)
  PROVE  Rebase(b)
  <1>1. branch \in [Branch -> [open : BOOLEAN, created_at : 0..MaxTime, branched_from : 0..MaxTime]]
        /\ DOMAIN merge = Branch
    BY DEF HInv, IInv, TypeOK
  <1>2. branch'[b] # branch[b] /\ branch'[b].created_at # 0 /\ merge'[b] = merge[b] /\ branch[b].open
    BY DEF RebaseStep, Created
  <1>3. ASSUME NEW c \in Branch, CreateBranch(c) PROVE FALSE
    BY <1>1, <1>2, <1>3 DEF CreateBranch
  <1>4. ASSUME NEW c \in Branch, DeleteBranch(c) PROVE FALSE
    BY <1>1, <1>2, <1>4 DEF DeleteBranch, NoBranch
  <1>5. ASSUME NEW c \in Branch, MergeCommit(c) PROVE FALSE
    <2>1. c = b
      BY <1>1, <1>2, <1>5 DEF MergeCommit
    <2>2. merge[b].phase # "none" /\ merge'[b].phase = "none"
      BY <2>1, <1>1, <1>5 DEF MergeCommit, CommitPhase, NoMerge
    <2> QED
      BY <2>2, <1>2
  <1>6. ASSUME NEW c \in Branch, Rebase(c) PROVE c = b
    BY <1>1, <1>2, <1>6 DEF Rebase
  <1>7. branch' # branch
    BY <1>2
  <1> QED
    BY <1>3, <1>4, <1>5, <1>6, <1>7 DEF Next, vars, UpdateValue, DeleteBranchRelationships,
         DeleteInterrupted, MergeValidate, ReleaseGraphLock, MergeRollback

RebaseShows(b) ==
  \A a \in Attr : View(b)'[a] = IF \E e \in OwnEdges(b) : e.attr = a /\ e.to = Null
                                THEN View(b)[a] ELSE View(Main)'[a]

LEMMA RebaseOfStep ==
  ASSUME HInv, HInv', Created, [Next]_vars, NEW b \in Branch, RebaseStep(b)
  PROVE  RebaseShows(b)
  <1> DEFINE at == clock + 1
             t == branch[b].branched_from
             moved(e) == [e EXCEPT !.from = at]
  <1>1. b \in AnyBranch /\ b # Main /\ Main \in AnyBranch
    BY MainAssumption DEF AnyBranch
  <1>2. /\ t \in Nat /\ clock \in Nat /\ at \in Nat
        /\ edges \in SUBSET Edge /\ edges' \in SUBSET Edge /\ IInv /\ IInv'
    BY Times, BoundAssumption DEF HInv, IInv, TypeOK, Time
  <1>3. Rebase(b)
    BY RebaseOnly
  <1>4. clock' = at /\ branch'[b].branched_from = at
    BY <1>3 DEF Rebase, HInv, IInv, TypeOK
  <1> SUFFICES ASSUME NEW a \in Attr
               PROVE  View(b)'[a] = IF \E e \in OwnEdges(b) : e.attr = a /\ e.to = Null
                                    THEN View(b)[a] ELSE View(Main)'[a]
    BY DEF RebaseShows
  <1>5. /\ View(b)[a] = ReadOf(Seen(edges, b, a, clock, t))
        /\ View(b)'[a] = ReadOf(Seen(edges', b, a, at, at))
        /\ View(Main)'[a] = ReadOf(Seen(edges', Main, a, at, at))
    BY <1>2, <1>4, MainTime, ViewIsReadOf
  <1>6. Tidy(edges, b, a, clock) /\ Tidy(edges', b, a, at)
    BY <1>1, <1>4, TidyNow, TidyNext
  <1>7. OpenOf(edges', b, a) = {moved(e) : e \in OpenOf(edges, b, a)}
    <2> DEFINE kept == {f \in edges : f.br = b /\ ~ RebaseDeletes(f, at)}
    <2>1. edges' = {e \in edges : e.br # b} \cup {moved(e) : e \in kept}
      BY <1>3 DEF Rebase
    <2>2. \A e \in edges : moved(e).br = e.br /\ moved(e).attr = e.attr /\ moved(e).to = e.to
      BY <1>2 DEF Edge
    <2>3. \A e \in OpenOf(edges, b, a) : e \in kept
      BY <1>2, Times DEF OpenOf, RebaseDeletes, HInv
    <2> HIDE DEF moved
    <2> QED
      BY <2>1, <2>2, <2>3 DEF OpenOf
  <1>8. (\E e \in OwnEdges(b) : e.attr = a /\ e.to = Null) <=> OpenOf(edges, b, a) # {}
    BY DEF OwnEdges, OpenOf
  <1>9. CASE OpenOf(edges, b, a) # {}
    <2>1. \A e \in OpenOf(edges, b, a) : moved(e).val = e.val
      BY <1>2 DEF OpenOf, Edge
    <2> HIDE DEF moved, t, at
    <2>2. OpenOf(edges', b, a) # {}
      BY <1>7, <1>9
    <2>3. ReadOf(Seen(edges, b, a, clock, t)) = {o.val : o \in OpenOf(edges, b, a)}
      BY <1>1, <1>2, <1>6, <1>9, ShowsOwn
    <2>4. ReadOf(Seen(edges', b, a, at, at)) = {o.val : o \in OpenOf(edges', b, a)}
      BY <1>1, <1>2, <1>6, <2>2, ShowsOwn
    <2>5. {o.val : o \in OpenOf(edges', b, a)} = {o.val : o \in OpenOf(edges, b, a)}
      BY <1>7, <2>1
    <2> QED
      BY <2>3, <2>4, <2>5, <1>5, <1>8, <1>9
  <1>10. CASE OpenOf(edges, b, a) = {}
    <2> HIDE DEF moved, at
    <2>1. Seen(edges', b, a, at, at) = Seen(edges', Main, a, at, at)
      BY <1>1, <1>2, <1>6, <1>7, <1>10, ShowsMain
    <2> QED
      BY <2>1, <1>5, <1>8, <1>10
  <1> QED
    BY <1>9, <1>10

(* RebaseKeepsChanges: after a rebase a branch shows the values it changed   *)
(* as before and the current values of main for all others, even if merges   *)
(* are pending and whether or not earlier ones were clean.                   *)
THEOREM RebaseKeepsChangesAlways == Spec => RebaseKeepsChanges
  <1> DEFINE Step == \A b \in Branch : RebaseStep(b) => RebaseShows(b)
  <1>1. HInv /\ HInv' /\ Created /\ [Next]_vars => Step
    BY RebaseOfStep
  <1>2. Spec => [][Step]_vars
    <2> HIDE DEF Step
    <2> QED
      BY <1>1, InitHInv, NextHInv, InitCreated, NextCreated, PTL DEF Spec
  <1>3. Step <=> \A b \in Branch : RebaseStep(b) =>
                   \A a \in Attr :
                     View(b)'[a] = IF \E e \in OwnEdges(b) : e.attr = a /\ e.to = Null
                                   THEN View(b)[a] ELSE View(Main)'[a]
    BY DEF RebaseShows
  <1> QED
    BY <1>2, <1>3, PTL DEF RebaseKeepsChanges

(* Only the commit of a merge ends it and moves branched_from. *)
LEMMA CommitOnly ==
  ASSUME HInv, [Next]_vars, NEW b \in Branch, CommitStep(b)
  PROVE  MergeCommit(b)
  <1>1. DOMAIN merge = Branch /\ DOMAIN branch = Branch
    BY DEF HInv, IInv, TypeOK
  <1>2. branch' # branch /\ merge'[b] # merge[b]
    BY DEF CommitStep
  <1>3. ASSUME NEW c \in Branch, MergeCommit(c) PROVE c = b
    BY <1>1, <1>2, <1>3 DEF MergeCommit
  <1> QED
    BY <1>2, <1>3 DEF Next, vars, UpdateValue, CreateBranch, DeleteBranch, DeleteInterrupted,
         DeleteBranchRelationships, Rebase, MergeValidate, ReleaseGraphLock, MergeRollback

(* Main shows its open values, and nothing else. *)
LEMMA MainShows ==
  ASSUME HInv, HInv', NEW a \in Attr
  PROVE  /\ clean => View(Main)[a] = {o.val : o \in OpenOf(edges, Main, a)}
         /\ clean' => View(Main)'[a] = {o.val : o \in OpenOf(edges', Main, a)}
  <1>1. Main \in AnyBranch /\ clock \in Nat /\ clock' \in Nat
        /\ edges \in SUBSET Edge /\ edges' \in SUBSET Edge /\ IInv /\ IInv'
    BY Times, BoundAssumption DEF AnyBranch, HInv, IInv, TypeOK, Time
  <1>2. /\ View(Main)[a] = ReadOf(Seen(edges, Main, a, clock, clock))
        /\ View(Main)'[a] = ReadOf(Seen(edges', Main, a, clock', clock'))
    BY <1>1, MainTime, ViewIsReadOf
  <1>3. ASSUME NEW E \in SUBSET Edge, NEW t \in Nat, Tidy(E, Main, a, t)
        PROVE  ReadOf(Seen(E, Main, a, t, t)) = {o.val : o \in OpenOf(E, Main, a)}
    <2>1. CASE OpenOf(E, Main, a) # {}
      BY <1>1, <1>3, <2>1, ShowsOwn
    <2>2. CASE OpenOf(E, Main, a) = {}
      <3>1. ReadOf(Seen(E, Main, a, t, t)) = {}
        BY <1>1, <1>3, <2>2, ShowsMain
      <3> QED
        BY <3>1, <2>2
    <2> QED
      BY <2>1, <2>2
  <1>4. clean => Tidy(edges, Main, a, clock)
    BY <1>1, TidyNow
  <1>5. clean' => Tidy(edges', Main, a, clock')
    BY <1>1, TidyNext
  <1>6. clean => View(Main)[a] = {o.val : o \in OpenOf(edges, Main, a)}
    BY <1>1, <1>2, <1>3, <1>4
  <1>7. clean' => View(Main)'[a] = {o.val : o \in OpenOf(edges', Main, a)}
    BY <1>1, <1>2, <1>3, <1>5
  <1> QED
    BY <1>6, <1>7

LEMMA MergeOfStep ==
  ASSUME HInv, HInv', [Next]_vars, NEW b \in Branch, CommitStep(b), clean'
  PROVE  MergeStep(b)
  <1> DEFINE at == clock + 1
             m == merge[b]
             D == {e \in edges : \E f \in m.changes \cup m.origin : Same(e, f)}
             new(f) == edge(f.attr, f.val, Main, at)
             N == {new(f) : f \in m.changes}
  <1>1. MergeCommit(b)
    BY CommitOnly
  <1>2. edges' = (edges \ D) \cup Close(D, at) \cup N /\ clean
    BY <1>1 DEF MergeCommit
  <1>3. /\ at \in Time /\ edges \in SUBSET Edge /\ m.changes \subseteq Edge
        /\ \A e \in Edge : e.attr \in Attr
    BY <1>1, Times, BoundAssumption DEF HInv, IInv, TypeOK, MergeCommit, Time, Edge
  <1>4. \A f \in m.changes : /\ new(f).attr = f.attr /\ new(f).val = f.val
                             /\ new(f).br = Main /\ new(f).to = Null
    BY DEF edge
  <1>5. ASSUME NEW f \in m.changes PROVE View(Main)'[f.attr] = {f.val}
    <2>1. new(f) \in OpenOf(edges', Main, f.attr)
      BY <1>2, <1>4 DEF OpenOf
    <2>2. \A e, g \in OpenOf(edges', Main, f.attr) : e = g
      BY DEF HInv, IInv, SingleOpen, OpenOf
    <2> HIDE DEF new
    <2>3. OpenOf(edges', Main, f.attr) = {new(f)}
      BY <2>1, <2>2
    <2>4. f.attr \in Attr
      BY <1>3
    <2>5. View(Main)'[f.attr] = {o.val : o \in OpenOf(edges', Main, f.attr)}
      BY <2>4, MainShows
    <2> QED
      BY <2>3, <2>5, <1>4
  <1>6. ASSUME NEW a \in Attr, \A f \in m.changes : f.attr # a
        PROVE  View(Main)'[a] = View(Main)[a]
    <2>1. \A e \in D : e.br = Main => e.attr # a
      BY <1>1, <1>6, AppliedOpen
    <2>2. \A e \in Close(D, at) : e.br = Main => e.attr # a
      <3>1. D \in SUBSET Edge
        BY <1>3
      <3>2. \A e \in Close(D, at) : \E f \in D : e.br = f.br /\ e.attr = f.attr
        <4> HIDE DEF D, at
        <4> QED
          BY <3>1, <1>3, CloseType
      <3> QED
        BY <3>2, <2>1
    <2>3. \A e \in N : e.attr # a
      BY <1>4, <1>6
    <2> HIDE DEF D, N, at
    <2>4. OpenOf(edges', Main, a) = OpenOf(edges, Main, a)
      BY <1>2, <2>1, <2>2, <2>3 DEF OpenOf
    <2>5. /\ View(Main)[a] = {o.val : o \in OpenOf(edges, Main, a)}
          /\ View(Main)'[a] = {o.val : o \in OpenOf(edges', Main, a)}
      BY <1>2, MainShows
    <2> QED
      BY <2>4, <2>5
  <1> QED
    BY <1>5, <1>6 DEF MergeStep

(* CleanMergeVisibleInMain: when a merge that replaces the values main has   *)
(* is committed, main shows the values of the branch and no other value of   *)
(* main changes, whatever was written between its diff and its commit.       *)
THEOREM CleanMergeVisibleAlways == Spec => CleanMergeVisibleInMain
  <1> DEFINE Step == \A b \in Branch : CommitStep(b) /\ clean' => MergeStep(b)
  <1>1. HInv /\ HInv' /\ [Next]_vars => Step
    BY MergeOfStep
  <1>2. Spec => [][Step]_vars
    <2> HIDE DEF Step
    <2> QED
      BY <1>1, InitHInv, NextHInv, PTL DEF Spec
  <1> QED
    BY <1>2 DEF CleanMergeVisibleInMain

-----------------------------------------------------------------------------
(***************************************************************************)
(* Objects of the SDK.                                                      *)
(***************************************************************************)

Ids == Node \cup {NoId}
Tags == {None} \cup (Client \X Nat)
Holdings == [fields -> SUBSET Content]

Objects ==
  [id : Ids, tag : Tags, read : SUBSET fields, data : Holdings, now : Holdings,
   initialized : SUBSET fields, has_update : SUBSET fields, properties : SUBSET fields]

Mutations ==
  [op : {"create", "update", "delete"}, id : Ids, tag : Tags, full : BOOLEAN,
   touched : SUBSET fields, sent : SUBSET fields, payload : Holdings,
   status : {"sent", "done"}, relogin : BOOLEAN]

SdkTypes ==
  /\ fields \subseteq Field
  /\ DOMAIN server \subseteq DOMAIN origin /\ server \in [DOMAIN server -> Holdings]
  /\ First \in DOMAIN origin /\ DOMAIN origin \subseteq Node /\ origin \in [DOMAIN origin -> Tags]
  /\ object \in [Client -> Objects \cup {None}]
  /\ request \in [Client -> Mutations \cup {None}]
  /\ abandoned \subseteq Mutations
  /\ touched \in [Client -> SUBSET fields]
  /\ lost \in BOOLEAN
  /\ edits \in Nat

(* What an object that is read, and changed, agrees with. *)
Kept(o, T) ==
  /\ \A f \in (fields \cap Single) \ T :
       \/ f \in o.read /\ o.now[f] = o.data[f]
       \/ f \notin o.read /\ o.now[f] = {}
  /\ o.has_update \subseteq Prefetched \cup T
  /\ o.properties \subseteq RelatedNode
  /\ T \cap RelationshipManager \subseteq o.initialized \cap o.has_update

ObjectsKept == \A c \in Client : object[c] # None => Kept(object[c], touched[c])

(* An update that is not full sends nothing that others may have changed. *)
Modest(r) == r.op = "update" /\ ~ r.full => r.sent \subseteq r.touched \cup RelatedNode \cup Prefetched

RequestsModest ==
  /\ \A c \in Client : request[c] # None => Modest(request[c])
  /\ \A r \in abandoned : Modest(r)

(* A request has what was set in its object. *)
Carries(r, o, T) ==
  /\ r.payload = o.now
  /\ r.op # "delete" =>
       \A f \in T : \/ f \in r.sent
                    \/ f \in Single /\ o.now[f] = {}
                    \/ f \in o.read /\ o.now[f] = o.data[f]

RequestsCarry ==
  \A c \in Client : request[c] # None =>
     object[c] # None /\ Carries(request[c], object[c], touched[c])

CreationDone(c) == request[c] # None /\ request[c].op = "create" /\ request[c].status = "done"

(* As long as no request was lost: tags are those of one object, and one that *)
(* has no id has made no node, unless the answer is on its way.               *)
TagsUnique ==
  /\ \A c \in Client : object[c] # None /\ object[c].id = NoId =>
       object[c].tag \in Client \X Nat /\ object[c].tag[1] = c /\ object[c].tag[2] < edits
  /\ \A c \in Client : request[c] # None /\ request[c].op = "create" =>
       /\ object[c] # None /\ object[c].id = NoId /\ request[c].tag = object[c].tag
       /\ request[c].status = "done" => request[c].id \in Node
  /\ ~ lost =>
       /\ abandoned = {}
       /\ \A n \in DOMAIN origin \ {First} : origin[n] \in Client \X Nat /\ origin[n][2] < edits
       /\ \A m, n \in DOMAIN origin \ {First} : origin[m] = origin[n] => m = n
       /\ \A c \in Client : object[c] # None /\ object[c].id = NoId /\ ~ CreationDone(c) =>
            \A n \in DOMAIN origin \ {First} : origin[n] # object[c].tag

SdkInv == SdkTypes /\ ObjectsKept /\ RequestsModest /\ RequestsCarry /\ TagsUnique

LEMMA SdkInitial == SdkInit => SdkInv
<1> SUFFICES ASSUME SdkInit PROVE SdkInv
    OBVIOUS
<1>1. SdkTypes
  <2>1. fields \subseteq Field /\ First \in Node
        BY SdkNodeAssumption DEF SdkInit
  <2>2. server \in [DOMAIN server -> Holdings] /\ DOMAIN server = {First}
        BY DEF SdkInit, Holdings
  <2>3. origin \in [DOMAIN origin -> Tags] /\ DOMAIN origin = {First}
        BY DEF SdkInit, Tags
  <2> QED BY <2>1, <2>2, <2>3 DEF SdkInit, SdkTypes
<1>2. ObjectsKept /\ RequestsModest /\ RequestsCarry
      BY DEF SdkInit, ObjectsKept, RequestsModest, RequestsCarry
<1>3. TagsUnique
      BY DEF SdkInit, TagsUnique
<1> QED BY <1>1, <1>2, <1>3 DEF SdkInv

LEMMA NoneIsOther == None \notin Objects /\ None \notin Mutations
  BY DEF None, Objects, Mutations

-----------------------------------------------------------------------------
(* Steps that change an object, while its client waits for nothing.          *)

LEMMA BecomesStep ==
  ASSUME SdkInv, NEW c \in Client, NEW o \in Objects, NEW cost \in Nat, NEW T \in SUBSET fields,
         Becomes(c, o, cost), touched' = [touched EXCEPT ![c] = T], Kept(o, T),
         o.id = NoId =>
            /\ o.tag \in Client \X Nat /\ o.tag[1] = c /\ o.tag[2] < edits + cost
            /\ ~ lost => \A n \in DOMAIN origin \ {First} : origin[n] # o.tag
  PROVE  SdkInv'
<1> USE DEF Becomes, Idle
<1>1. fields' = fields /\ Objects' = Objects /\ Mutations' = Mutations /\ Holdings' = Holdings
      BY DEF Objects, Mutations, Holdings
<1>2. SdkTypes'
      BY <1>1 DEF SdkInv, SdkTypes
<1>3. ObjectsKept'
  <2>1. ASSUME NEW d \in Client, object'[d] # None PROVE Kept(object[d], touched[d])'
    <3>1. Kept(object'[d], touched'[d])
          BY <2>1 DEF SdkInv, SdkTypes, ObjectsKept
    <3> QED BY <1>1, <3>1 DEF Kept
  <2> QED BY <2>1 DEF ObjectsKept
<1>4. RequestsModest'
      BY DEF SdkInv, RequestsModest, Modest
<1>5. RequestsCarry'
      BY DEF SdkInv, SdkTypes, RequestsCarry, Carries
<1>6. TagsUnique'
  <2>1. edits' = edits + cost /\ edits \in Nat /\ edits' \in Nat
        BY DEF SdkInv, SdkTypes
  <2>2. ~ lost' => \A n \in DOMAIN origin' \ {First} : origin'[n] \in Client \X Nat /\ origin'[n][2] < edits'
        BY <2>1 DEF SdkInv, TagsUnique
  <2>3. ASSUME NEW d \in Client, object'[d] # None, object'[d].id = NoId
        PROVE  object'[d].tag \in Client \X Nat /\ object'[d].tag[1] = d /\ object'[d].tag[2] < edits'
    <3>1. CASE d = c
          BY <2>1, <2>3, <3>1 DEF SdkInv, SdkTypes
    <3>2. CASE d # c
      <4>1. object'[d] = object[d]
            BY <3>2 DEF SdkInv, SdkTypes
      <4> QED BY <2>1, <2>3, <4>1 DEF SdkInv, TagsUnique
    <3> QED BY <3>1, <3>2
  <2>4. ASSUME NEW d \in Client, request'[d] # None, request'[d].op = "create"
        PROVE  /\ object'[d] # None /\ object'[d].id = NoId /\ request'[d].tag = object'[d].tag
               /\ request'[d].status = "done" => request'[d].id \in Node
    <3>1. d # c /\ object'[d] = object[d]
          BY <2>4 DEF SdkInv, SdkTypes
    <3> QED BY <2>4, <3>1 DEF SdkInv, TagsUnique
  <2>5. ASSUME ~ lost', NEW d \in Client, object'[d] # None, object'[d].id = NoId, ~ CreationDone(d)',
               NEW n \in DOMAIN origin' \ {First}
        PROVE  origin'[n] # object'[d].tag
    <3>1. CASE d = c
          BY <2>5, <3>1 DEF SdkInv, SdkTypes
    <3>2. CASE d # c
      <4>1. object'[d] = object[d] /\ ~ CreationDone(d)
            BY <2>5, <3>2 DEF SdkInv, SdkTypes, CreationDone
      <4> QED BY <2>5, <4>1 DEF SdkInv, TagsUnique
    <3> QED BY <3>1, <3>2
  <2>6. ~ lost' => abandoned' = {} /\ \A m, n \in DOMAIN origin' \ {First} : origin'[m] = origin'[n] => m = n
        BY DEF SdkInv, TagsUnique
  <2> QED BY <2>2, <2>3, <2>4, <2>5, <2>6 DEF TagsUnique
<1> QED BY <1>2, <1>3, <1>4, <1>5, <1>6 DEF SdkInv

LEMMA GetStep == ASSUME SdkInv, NEW c \in Client, Get(c) PROVE SdkInv'
<1>1. PICK n \in DOMAIN server :
        Becomes(c, from_graphql(n, server[n]), 0) /\ touched' = [touched EXCEPT ![c] = {}]
      BY DEF Get
<1> DEFINE o == from_graphql(n, server[n])
<1>2. n \in Node /\ server[n] \in Holdings /\ NoId \notin Node
      BY SdkNodeAssumption DEF SdkInv, SdkTypes
<1>3. o \in Objects
      BY <1>2 DEF from_graphql, generate_query_data, Objects, Ids, Tags, Holdings
<1>4. Kept(o, {})
      BY SdkNodeAssumption DEF Kept, from_graphql, generate_query_data, Single, RelationshipManager
<1>5. o.id # NoId
      BY <1>2 DEF from_graphql
<1>6. Becomes(c, o, 0) /\ touched' = [touched EXCEPT ![c] = {}] /\ {} \in SUBSET fields /\ 0 \in Nat
      BY <1>1
<1> HIDE DEF o
<1> QED BY <1>3, <1>4, <1>5, <1>6, BecomesStep

LEMMA NewStep == ASSUME SdkInv, NEW c \in Client, New(c) PROVE SdkInv'
<1>1. PICK content \in [fields -> SUBSET Content] :
        /\ Becomes(c, [id |-> NoId, tag |-> <<c, edits>>,
                       read |-> {}, data |-> content, now |-> content,
                       initialized |-> {f \in fields \cap RelationshipManager : content[f] # {}},
                       has_update |-> {f \in fields \cap RelationshipManager : content[f] # {}},
                       properties |-> {}], 1)
        /\ touched' = [touched EXCEPT ![c] = {f \in fields : content[f] # {}}]
      BY DEF New
<1> DEFINE o == [id |-> NoId, tag |-> <<c, edits>>,
                 read |-> {}, data |-> content, now |-> content,
                 initialized |-> {f \in fields \cap RelationshipManager : content[f] # {}},
                 has_update |-> {f \in fields \cap RelationshipManager : content[f] # {}},
                 properties |-> {}]
           T == {f \in fields : content[f] # {}}
<1>2. edits \in Nat
      BY DEF SdkInv, SdkTypes
<1>3. o \in Objects
      BY <1>2 DEF Objects, Ids, Tags, Holdings
<1>4. Kept(o, T)
      BY DEF Kept
<1>5. o.tag \in Client \X Nat /\ o.tag[1] = c /\ o.tag[2] = edits
      BY <1>2
<1>6. ~ lost => \A n \in DOMAIN origin \ {First} : origin[n] # o.tag
      BY <1>2, <1>5 DEF SdkInv, TagsUnique
<1> HIDE DEF o, T
<1>7. o.tag[2] < edits + 1
      BY <1>2, <1>5
<1>8. T \in SUBSET fields
      BY DEF T
<1>9. Becomes(c, o, 1) /\ touched' = [touched EXCEPT ![c] = T]
      BY <1>1 DEF o, T
<1> QED BY <1>3, <1>4, <1>5, <1>6, <1>7, <1>8, <1>9, BecomesStep

(* A change of the content of one field. *)
LEMMA EditStep ==
  ASSUME SdkInv, NEW c \in Client, object[c] # None, NEW o \in Objects, NEW cost \in Nat,
         NEW T \in SUBSET fields, Becomes(c, o, cost), touched' = [touched EXCEPT ![c] = T], Kept(o, T),
         o.id = object[c].id, o.tag = object[c].tag
  PROVE  SdkInv'
<1>1. edits \in Nat /\ ~ CreationDone(c)
      BY DEF SdkInv, SdkTypes, Becomes, Idle, CreationDone
<1>2. o.id = NoId =>
        /\ o.tag \in Client \X Nat /\ o.tag[1] = c /\ o.tag[2] < edits
        /\ ~ lost => \A n \in DOMAIN origin \ {First} : origin[n] # o.tag
      BY <1>1 DEF SdkInv, TagsUnique
<1>3. o.tag \in Client \X Nat /\ o.tag[2] < edits => o.tag[2] < edits + cost
      BY <1>1
<1> QED BY <1>2, <1>3, BecomesStep

LEMMA AssignStep == ASSUME SdkInv, NEW c \in Client, Assign(c) PROVE SdkInv'
<1>1. PICK f \in fields \cap Single, content \in SUBSET Content :
        /\ object[c] # None
        /\ Becomes(c, [object[c] EXCEPT !.now[f] = content, !.properties = @ \ {f}], 1)
        /\ touched' = [touched EXCEPT ![c] = touched[c] \cup {f}]
      BY DEF Assign, Contents
<1>2. object[c] \in Objects /\ touched[c] \subseteq fields
      BY <1>1 DEF SdkInv, SdkTypes
<1>3. Kept(object[c], touched[c])
      BY <1>1 DEF SdkInv, ObjectsKept
<1>4. PICK o \in Objects : o = object[c]
      BY <1>2
<1> DEFINE p == [o EXCEPT !.now[f] = content, !.properties = @ \ {f}]
<1>5. p \in Objects /\ p.id = o.id /\ p.tag = o.tag /\ p.has_update = o.has_update
      /\ p.initialized = o.initialized /\ p.read = o.read /\ p.data = o.data
      /\ p.properties = o.properties \ {f} /\ p.now = [o.now EXCEPT ![f] = content]
      BY DEF Objects, Holdings
<1>6. \A g \in fields : g # f => p.now[g] = o.now[g]
      BY <1>5 DEF Objects, Holdings
<1>7. Kept(p, touched[c] \cup {f})
      BY <1>3, <1>4, <1>5, <1>6, SdkNodeAssumption DEF Kept, Single, RelationshipManager
<1>8. Becomes(c, p, 1) /\ object[c] # None /\ touched' = [touched EXCEPT ![c] = touched[c] \cup {f}]
      /\ touched[c] \cup {f} \in SUBSET fields /\ 1 \in Nat
      BY <1>1, <1>2, <1>4
<1> HIDE DEF p
<1> QED BY <1>4, <1>5, <1>7, <1>8, EditStep

LEMMA FetchStep == ASSUME SdkInv, NEW c \in Client, Fetch(c) PROVE SdkInv'
<1>1. PICK f \in fields \cap RelationshipManager :
        /\ object[c] # None /\ object[c].id \in DOMAIN server /\ f \notin object[c].initialized
        /\ Becomes(c, [object[c] EXCEPT !.now[f] = server[object[c].id][f], !.initialized = @ \cup {f}], 0)
        /\ touched' = touched
      BY DEF Fetch
<1>2. object[c] \in Objects /\ touched[c] \subseteq fields /\ touched' = [touched EXCEPT ![c] = touched[c]]
      BY <1>1 DEF SdkInv, SdkTypes
<1>3. Kept(object[c], touched[c])
      BY <1>1 DEF SdkInv, ObjectsKept
<1>4. PICK o \in Objects : o = object[c]
      BY <1>2
<1>5. PICK content \in SUBSET Content : content = server[object[c].id][f]
      BY <1>1 DEF SdkInv, SdkTypes, Holdings
<1> DEFINE p == [o EXCEPT !.now[f] = content, !.initialized = @ \cup {f}]
<1>6. p \in Objects /\ p.id = o.id /\ p.tag = o.tag /\ p.has_update = o.has_update
      /\ p.initialized = o.initialized \cup {f} /\ p.read = o.read /\ p.data = o.data
      /\ p.properties = o.properties /\ p.now = [o.now EXCEPT ![f] = content]
      BY DEF Objects, Holdings
<1>7. \A g \in fields : g # f => p.now[g] = o.now[g]
      BY <1>6 DEF Objects, Holdings
<1>8. f \notin Single
      BY SdkNodeAssumption DEF Single, RelationshipManager
<1>9. Kept(p, touched[c])
      BY <1>3, <1>4, <1>6, <1>7, <1>8 DEF Kept
<1> QED BY <1>1, <1>2, <1>4, <1>5, <1>6, <1>9, EditStep

LEMMA ChangePeerStep == ASSUME SdkInv, NEW c \in Client, ChangePeer(c) PROVE SdkInv'
<1>1. PICK f \in fields \cap RelationshipManager, peers \in SUBSET Content :
        /\ object[c] # None /\ f \in object[c].initialized
        /\ Becomes(c, [object[c] EXCEPT !.now[f] = peers, !.has_update = @ \cup {f}], 1)
        /\ touched' = [touched EXCEPT ![c] = touched[c] \cup {f}]
  <2>1. PICK f \in fields \cap RelationshipManager, p \in Content :
          /\ object[c] # None /\ f \in object[c].initialized
          /\ Becomes(c, Changed(object[c], f, IF p \in object[c].now[f] THEN object[c].now[f] \ {p}
                                              ELSE object[c].now[f] \cup {p}), 1)
          /\ touched' = [touched EXCEPT ![c] = touched[c] \cup {f}]
        BY DEF ChangePeer
  <2>2. object[c].now[f] \in SUBSET Content
        BY <2>1 DEF SdkInv, SdkTypes, Objects, Holdings
  <2>3. PICK peers \in SUBSET Content :
          peers = IF p \in object[c].now[f] THEN object[c].now[f] \ {p} ELSE object[c].now[f] \cup {p}
        BY <2>2
  <2> QED BY <2>1, <2>3 DEF Changed
<1>2. object[c] \in Objects /\ touched[c] \subseteq fields
      BY <1>1 DEF SdkInv, SdkTypes
<1>3. Kept(object[c], touched[c])
      BY <1>1 DEF SdkInv, ObjectsKept
<1>4. PICK o \in Objects : o = object[c]
      BY <1>2
<1> DEFINE p == [o EXCEPT !.now[f] = peers, !.has_update = @ \cup {f}]
<1>5. p \in Objects /\ p.id = o.id /\ p.tag = o.tag /\ p.has_update = o.has_update \cup {f}
      /\ p.initialized = o.initialized /\ p.read = o.read /\ p.data = o.data
      /\ p.properties = o.properties /\ p.now = [o.now EXCEPT ![f] = peers]
      BY DEF Objects, Holdings
<1>6. \A g \in fields : g # f => p.now[g] = o.now[g]
      BY <1>5 DEF Objects, Holdings
<1>7. f \notin Single
      BY SdkNodeAssumption DEF Single, RelationshipManager
<1>8. Kept(p, touched[c] \cup {f})
      BY <1>1, <1>3, <1>4, <1>5, <1>6, <1>7 DEF Kept
<1>9. Becomes(c, p, 1) /\ object[c] # None /\ touched' = [touched EXCEPT ![c] = touched[c] \cup {f}]
      /\ touched[c] \cup {f} \in SUBSET fields /\ 1 \in Nat
      BY <1>1, <1>2, <1>4
<1> HIDE DEF p
<1> QED BY <1>4, <1>5, <1>8, <1>9, EditStep

-----------------------------------------------------------------------------
(* Steps that send a request, and what becomes of it.                        *)

LEMMA SendStep ==
  ASSUME SdkInv, NEW c \in Client, object[c] # None, NEW r \in Mutations, Send(c, r),
         Modest(r), Carries(r, object[c], touched[c]), r.status = "sent",
         r.op = "create" => object[c].id = NoId /\ r.tag = object[c].tag
  PROVE  SdkInv'
<1> USE DEF Send, Idle
<1>1. fields' = fields /\ Objects' = Objects /\ Mutations' = Mutations /\ Holdings' = Holdings
      BY DEF Objects, Mutations, Holdings
<1>2. SdkTypes'
      BY <1>1 DEF SdkInv, SdkTypes
<1>3. ObjectsKept'
      BY DEF SdkInv, ObjectsKept, Kept
<1>4. RequestsModest'
      BY DEF SdkInv, SdkTypes, RequestsModest, Modest
<1>5. RequestsCarry'
      BY DEF SdkInv, SdkTypes, RequestsCarry, Carries
<1>6. TagsUnique'
  <2>1. \A d \in Client : ~ CreationDone(d)' => ~ CreationDone(d)
        BY DEF SdkInv, SdkTypes, CreationDone
  <2>2. ASSUME NEW d \in Client, request'[d] # None, request'[d].op = "create"
        PROVE  /\ object'[d] # None /\ object'[d].id = NoId /\ request'[d].tag = object'[d].tag
               /\ request'[d].status = "done" => request'[d].id \in Node
        BY <2>2 DEF SdkInv, SdkTypes, TagsUnique
  <2> QED BY <2>1, <2>2 DEF SdkInv, TagsUnique
<1> QED BY <1>2, <1>3, <1>4, <1>5, <1>6 DEF SdkInv

LEMMA SaveStep == ASSUME SdkInv, NEW c \in Client, Save(c) PROVE SdkInv'
<1>1. PICK full \in BOOLEAN :
        /\ object[c] # None /\ (object[c].id = NoId => full)
        /\ Send(c, Mutation(IF object[c].id = NoId THEN "create" ELSE "update", c, full,
                            IF full THEN _generate_input_data(object[c])
                            ELSE _strip_unmodified(object[c], _generate_input_data(object[c]))))
      BY DEF Save
<1>2. object[c] \in Objects /\ touched[c] \subseteq fields
      BY <1>1 DEF SdkInv, SdkTypes
<1>3. Kept(object[c], touched[c])
      BY <1>1 DEF SdkInv, ObjectsKept
<1>4. PICK o \in Objects : o = object[c]
      BY <1>2
<1> DEFINE S == IF full THEN _generate_input_data(o) ELSE _strip_unmodified(o, _generate_input_data(o))
           op == IF o.id = NoId THEN "create" ELSE "update"
           r == Mutation(op, c, full, S)
<1>5. S \subseteq fields
      BY DEF _generate_input_data, _strip_unmodified
<1>6. ~ full => S \subseteq touched[c] \cup RelatedNode \cup Prefetched
      BY <1>3, <1>4 DEF Kept, _generate_input_data, _strip_unmodified
<1>7. \A f \in touched[c] : \/ f \in S
                            \/ f \in Single /\ o.now[f] = {}
                            \/ f \in o.read /\ o.now[f] = o.data[f]
  <2>1. fields \subseteq Field
        BY DEF SdkInv, SdkTypes
  <2> QED BY <1>2, <1>3, <1>4, <2>1 DEF Kept, Field, _generate_input_data, _strip_unmodified
<1>8. op \in {"create", "update"} /\ (op = "create" => o.id = NoId)
      OBVIOUS
<1>9. Send(c, r)
      BY <1>1, <1>4
<1> HIDE DEF S, op
<1>10. /\ r \in Mutations /\ r.status = "sent" /\ r.op = op /\ r.full = full /\ r.sent = S
       /\ r.touched = touched[c] /\ r.payload = o.now /\ r.tag = o.tag
  <2>1. r = [op |-> op, id |-> o.id, tag |-> o.tag, full |-> full,
             touched |-> touched[c], sent |-> S, payload |-> o.now,
             status |-> "sent", relogin |-> FALSE]
        BY <1>4 DEF Mutation
  <2> HIDE DEF r
  <2> QED BY <1>2, <1>4, <1>5, <1>8, <2>1 DEF Objects, Mutations
<1> HIDE DEF r
<1>11. Modest(r) /\ Carries(r, object[c], touched[c])
      BY <1>4, <1>6, <1>7, <1>8, <1>10 DEF Modest, Carries
<1> QED BY <1>1, <1>4, <1>8, <1>9, <1>10, <1>11, SendStep

LEMMA DeleteStep == ASSUME SdkInv, NEW c \in Client, Delete(c) PROVE SdkInv'
<1> DEFINE r == Mutation("delete", c, FALSE, {})
<1>1. object[c] # None /\ Send(c, r)
      BY DEF Delete
<1>2. PICK o \in Objects : o = object[c]
      BY <1>1 DEF SdkInv, SdkTypes
<1>3. touched[c] \subseteq fields
      BY DEF SdkInv, SdkTypes
<1>4. r = [op |-> "delete", id |-> o.id, tag |-> o.tag, full |-> FALSE,
           touched |-> touched[c], sent |-> {}, payload |-> o.now,
           status |-> "sent", relogin |-> FALSE]
      BY <1>2 DEF Mutation
<1> HIDE DEF r
<1>5. r \in Mutations /\ r.status = "sent" /\ r.op = "delete" /\ r.payload = o.now
      BY <1>2, <1>3, <1>4 DEF Objects, Mutations
<1>6. Modest(r) /\ Carries(r, object[c], touched[c])
      BY <1>2, <1>5 DEF Modest, Carries
<1> QED BY <1>1, <1>2, <1>5, <1>6, SendStep

(* What the server does keeps the nodes and their origins well formed; only a *)
(* creation adds an origin, that of a node that has never been.               *)
LEMMA PerformStep ==
  ASSUME SdkInv, NEW r \in Mutations, NEW id \in Ids, Perform(r, id), fields' = fields
  PROVE  /\ DOMAIN server' \subseteq DOMAIN origin' /\ server' \in [DOMAIN server' -> Holdings]
         /\ First \in DOMAIN origin' /\ DOMAIN origin' \subseteq Node
         /\ origin' \in [DOMAIN origin' -> Tags]
         /\ \/ origin' = origin /\ r.op # "create"
            \/ /\ r.op = "create" /\ id \in Node \ DOMAIN origin
               /\ DOMAIN origin' = DOMAIN origin \cup {id} /\ origin'[id] = r.tag
               /\ \A n \in DOMAIN origin : origin'[n] = origin[n]
<1>1. /\ DOMAIN server \subseteq DOMAIN origin /\ server \in [DOMAIN server -> Holdings]
      /\ First \in DOMAIN origin /\ DOMAIN origin \subseteq Node
      /\ origin \in [DOMAIN origin -> Tags]
      BY DEF SdkInv, SdkTypes
<1>2. \A h \in Holdings : Written(r, h) \in Holdings
      BY DEF Written, Mutations, Holdings
<1>3. Written(r, [f \in fields |-> {}]) \in Holdings /\ r.tag \in Tags
      BY DEF Written, Mutations, Holdings
<1>4. CASE r.op = "update" /\ r.id \in DOMAIN server /\ id = r.id
           /\ server' = [server EXCEPT ![id] = Written(r, server[id])] /\ origin' = origin
      BY <1>1, <1>2, <1>4
<1>5. CASE /\ r.op = "create" /\ id \in Node \ DOMAIN origin
           /\ server' = [n \in DOMAIN server \cup {id} |->
                           IF n = id THEN Written(r, [f \in fields |-> {}]) ELSE server[n]]
           /\ origin' = [n \in DOMAIN origin \cup {id} |-> IF n = id THEN r.tag ELSE origin[n]]
      BY <1>1, <1>3, <1>5
<1>6. CASE r.op = "delete" /\ server' = [n \in DOMAIN server \ {id} |-> server[n]] /\ origin' = origin
      BY <1>1, <1>6
<1>7. CASE r.op # "create" /\ server' = server /\ origin' = origin
      BY <1>1, <1>7
<1> QED BY <1>4, <1>5, <1>6, <1>7 DEF Perform

LEMMA HandleStep == ASSUME SdkInv, NEW c \in Client, Handle(c) PROVE SdkInv'
<1>1. PICK id \in Ids :
        /\ ~ Idle(c) /\ request[c].status = "sent" /\ Perform(request[c], id)
        /\ request' = [request EXCEPT ![c].status = "done", ![c].id = id]
        /\ UNCHANGED <<fields, object, abandoned, touched, lost, edits, saves, faults>>
      BY DEF Handle, Ids
<1>2. PICK r \in Mutations : r = request[c]
      BY <1>1 DEF Idle, SdkInv, SdkTypes
<1> DEFINE q == [r EXCEPT !.status = "done", !.id = id]
<1>3. /\ q \in Mutations /\ q.op = r.op /\ q.tag = r.tag /\ q.full = r.full /\ q.touched = r.touched
      /\ q.sent = r.sent /\ q.payload = r.payload /\ q.status = "done" /\ q.id = id
      BY <1>2 DEF Mutations
<1>4. request' = [request EXCEPT ![c] = q]
      BY <1>1, <1>2 DEF SdkInv, SdkTypes
<1> HIDE DEF q
<1>5. fields' = fields /\ Objects' = Objects /\ Mutations' = Mutations /\ Holdings' = Holdings
      BY <1>1 DEF Objects, Mutations, Holdings
<1>6. /\ DOMAIN server' \subseteq DOMAIN origin' /\ server' \in [DOMAIN server' -> Holdings]
      /\ First \in DOMAIN origin' /\ DOMAIN origin' \subseteq Node
      /\ origin' \in [DOMAIN origin' -> Tags]
      /\ \/ origin' = origin /\ r.op # "create"
         \/ /\ r.op = "create" /\ id \in Node \ DOMAIN origin
            /\ DOMAIN origin' = DOMAIN origin \cup {id} /\ origin'[id] = r.tag
            /\ \A n \in DOMAIN origin : origin'[n] = origin[n]
      BY <1>1, <1>2, PerformStep
<1>7. SdkTypes'
      BY <1>1, <1>3, <1>4, <1>5, <1>6 DEF SdkInv, SdkTypes
<1>8. ObjectsKept'
      BY <1>1 DEF SdkInv, ObjectsKept, Kept
<1>9. RequestsModest'
      BY <1>1, <1>2, <1>3, <1>4, NoneIsOther DEF SdkInv, SdkTypes, RequestsModest, Modest
<1>10. RequestsCarry'
      BY <1>1, <1>2, <1>3, <1>4, NoneIsOther DEF SdkInv, SdkTypes, RequestsCarry, Carries
<1>11. TagsUnique'
  <2>1. \A d \in Client : request'[d] = IF d = c THEN q ELSE request[d]
        BY <1>4 DEF SdkInv, SdkTypes
  <2>2. r # None /\ q # None /\ ~ CreationDone(c)
        BY <1>1, <1>2, <1>3, NoneIsOther DEF CreationDone
  <2>3. /\ edits' = edits /\ object' = object /\ lost' = lost /\ abandoned' = abandoned
        BY <1>1
  <2>4. ASSUME NEW d \in Client, request'[d] # None, request'[d].op = "create"
        PROVE  /\ object'[d] # None /\ object'[d].id = NoId /\ request'[d].tag = object'[d].tag
               /\ request'[d].status = "done" => request'[d].id \in Node
        BY <1>2, <1>3, <1>6, <2>1, <2>2, <2>3, <2>4 DEF SdkInv, TagsUnique
  <2>5. r.op = "create" => /\ object[c] # None /\ object[c].id = NoId /\ r.tag = object[c].tag
                           /\ r.tag \in Client \X Nat /\ r.tag[1] = c /\ r.tag[2] < edits
        BY <1>2, <2>2 DEF SdkInv, TagsUnique
  <2>6. ~ lost /\ r.op = "create" => \A n \in DOMAIN origin \ {First} : origin[n] # r.tag
        BY <2>2, <2>5 DEF SdkInv, TagsUnique
  <2>7. ~ lost' => /\ abandoned' = {}
                   /\ \A n \in DOMAIN origin' \ {First} : origin'[n] \in Client \X Nat /\ origin'[n][2] < edits'
        BY <1>6, <2>3, <2>5 DEF SdkInv, TagsUnique
  <2>8. ~ lost' => \A m, n \in DOMAIN origin' \ {First} : origin'[m] = origin'[n] => m = n
        BY <1>6, <2>3, <2>6 DEF SdkInv, TagsUnique
  <2>9. ASSUME ~ lost', NEW d \in Client, object'[d] # None, object'[d].id = NoId, ~ CreationDone(d)',
               NEW n \in DOMAIN origin' \ {First}
        PROVE  origin'[n] # object'[d].tag
    <3>1. CASE d = c
      <4>1. r.op # "create"
            BY <1>3, <2>1, <2>2, <2>9, <3>1 DEF CreationDone
      <4> QED BY <1>6, <2>2, <2>3, <2>9, <3>1, <4>1 DEF SdkInv, TagsUnique
    <3>2. CASE d # c
      <4>1. ~ CreationDone(d)
            BY <2>1, <2>9, <3>2 DEF CreationDone
      <4>2. object[d].tag[1] = d
            BY <2>3, <2>9 DEF SdkInv, TagsUnique
      <4>3. \A m \in DOMAIN origin \ {First} : origin[m] # object[d].tag
            BY <2>3, <2>9, <4>1 DEF SdkInv, TagsUnique
      <4> QED BY <1>6, <2>3, <2>5, <2>9, <3>2, <4>2, <4>3
    <3> QED BY <3>1, <3>2
  <2>10. \A d \in Client : object'[d] # None /\ object'[d].id = NoId =>
           object'[d].tag \in Client \X Nat /\ object'[d].tag[1] = d /\ object'[d].tag[2] < edits'
        BY <2>3 DEF SdkInv, TagsUnique
  <2> QED BY <2>4, <2>7, <2>8, <2>9, <2>10 DEF TagsUnique
<1> QED BY <1>7, <1>8, <1>9, <1>10, <1>11 DEF SdkInv

LEMMA HandleLateStep == ASSUME SdkInv, NEW r \in abandoned, HandleLate(r) PROVE SdkInv'
<1>1. PICK id \in Ids :
        /\ Perform(r, id) /\ abandoned' = abandoned \ {r}
        /\ UNCHANGED <<fields, object, request, touched, lost, edits, saves, faults>>
      BY DEF HandleLate, Ids
<1>2. r \in Mutations /\ lost
      BY DEF SdkInv, SdkTypes, TagsUnique
<1>3. fields' = fields /\ Objects' = Objects /\ Mutations' = Mutations /\ Holdings' = Holdings
      BY <1>1 DEF Objects, Mutations, Holdings
<1>4. /\ DOMAIN server' \subseteq DOMAIN origin' /\ server' \in [DOMAIN server' -> Holdings]
      /\ First \in DOMAIN origin' /\ DOMAIN origin' \subseteq Node
      /\ origin' \in [DOMAIN origin' -> Tags]
      BY <1>1, <1>2, PerformStep
<1>5. SdkTypes'
      BY <1>1, <1>3, <1>4 DEF SdkInv, SdkTypes
<1>6. ObjectsKept'
      BY <1>1 DEF SdkInv, ObjectsKept, Kept
<1>7. RequestsModest'
      BY <1>1 DEF SdkInv, RequestsModest, Modest
<1>8. RequestsCarry'
      BY <1>1 DEF SdkInv, RequestsCarry, Carries
<1>9. TagsUnique'
      BY <1>1, <1>2 DEF SdkInv, TagsUnique
<1> QED BY <1>5, <1>6, <1>7, <1>8, <1>9 DEF SdkInv

(* A request that is refused or fails is given up or sent once more. *)
LEMMA GivenUpStep ==
  ASSUME SdkInv, NEW c \in Client, NEW r \in Mutations, request[c] = r,
         NEW q \in Mutations \cup {None}, request' = [request EXCEPT ![c] = q],
         q # None => /\ q.op = r.op /\ q.tag = r.tag /\ q.full = r.full /\ q.touched = r.touched
                     /\ q.sent = r.sent /\ q.payload = r.payload /\ q.status = "sent",
         UNCHANGED <<fields, server, object, origin, touched, edits>>,
         lost' \in BOOLEAN, abandoned' \subseteq abandoned \cup {r},
         lost' \/ (~ lost /\ abandoned' = abandoned /\ r.status = "sent")
  PROVE  SdkInv'
<1>1. fields' = fields /\ Objects' = Objects /\ Mutations' = Mutations /\ Holdings' = Holdings
      BY DEF Objects, Mutations, Holdings
<1>2. SdkTypes'
      BY <1>1 DEF SdkInv, SdkTypes
<1>3. ObjectsKept'
      BY DEF SdkInv, ObjectsKept, Kept
<1>4. r # None /\ \A d \in Client : request'[d] = IF d = c THEN q ELSE request[d]
      BY NoneIsOther DEF SdkInv, SdkTypes
<1>5. RequestsModest'
      BY <1>4 DEF SdkInv, RequestsModest, Modest
<1>6. RequestsCarry'
      BY <1>4 DEF SdkInv, RequestsCarry, Carries
<1>7. TagsUnique'
  <2>1. ASSUME NEW d \in Client, request'[d] # None, request'[d].op = "create"
        PROVE  /\ object'[d] # None /\ object'[d].id = NoId /\ request'[d].tag = object'[d].tag
               /\ request'[d].status = "done" => request'[d].id \in Node
        BY <1>4, <2>1 DEF SdkInv, TagsUnique
  <2>2. \A d \in Client : ~ lost' /\ CreationDone(d) => CreationDone(d)'
        BY <1>4 DEF CreationDone
  <2> QED BY <2>1, <2>2 DEF SdkInv, TagsUnique
<1> QED BY <1>2, <1>3, <1>5, <1>6, <1>7 DEF SdkInv

LEMMA RefuseStep == ASSUME SdkInv, NEW c \in Client, Refuse(c) PROVE SdkInv'
<1>1. PICK r \in Mutations : r = request[c] /\ r.status = "sent"
      BY DEF Refuse, Idle, SdkInv, SdkTypes
<1>2. PICK q \in Mutations \cup {None} : q = handle_relogin(r)
      BY DEF handle_relogin, Mutations
<1>3. q # None => /\ q.op = r.op /\ q.tag = r.tag /\ q.full = r.full /\ q.touched = r.touched
                  /\ q.sent = r.sent /\ q.payload = r.payload /\ q.status = "sent"
      BY <1>1, <1>2 DEF handle_relogin, Mutations
<1>4. /\ request' = [request EXCEPT ![c] = q]
      /\ UNCHANGED <<fields, server, object, origin, touched, edits>>
      /\ lost' = lost /\ abandoned' = abandoned
      BY <1>1, <1>2 DEF Refuse
<1>5. lost \in BOOLEAN
      BY DEF SdkInv, SdkTypes
<1>6. CASE lost
      BY <1>1, <1>3, <1>4, <1>5, <1>6, GivenUpStep
<1>7. CASE ~ lost
      BY <1>1, <1>3, <1>4, <1>5, <1>7, GivenUpStep
<1> QED BY <1>6, <1>7

LEMMA FailStep == ASSUME SdkInv, NEW c \in Client, Fail(c) PROVE SdkInv'
<1>1. PICK again \in BOOLEAN :
        /\ ~ Idle(c) /\ abandoned' \subseteq abandoned \cup {request[c]} /\ lost' = TRUE
        /\ request' = [request EXCEPT ![c] = IF again THEN Again(request[c], object[c].id) ELSE None]
        /\ UNCHANGED <<fields, server, object, origin, touched, edits>>
      BY DEF Fail
<1>2. PICK r \in Mutations : r = request[c]
      BY <1>1 DEF Idle, SdkInv, SdkTypes
<1>3. object[c] \in Objects
      BY <1>1 DEF Idle, SdkInv, SdkTypes, RequestsCarry
<1>4. PICK id \in Ids : id = object[c].id
      BY <1>3 DEF Objects
<1>5. Again(r, id) \in Mutations
      BY DEF Again, Mutations
<1>6. PICK q \in Mutations \cup {None} : q = IF again THEN Again(r, id) ELSE None
      BY <1>5
<1>7. q # None => /\ q.op = r.op /\ q.tag = r.tag /\ q.full = r.full /\ q.touched = r.touched
                  /\ q.sent = r.sent /\ q.payload = r.payload /\ q.status = "sent"
      BY <1>6 DEF Again, Mutations
<1>8. request' = [request EXCEPT ![c] = q]
      BY <1>1, <1>2, <1>4, <1>6
<1> QED BY <1>1, <1>2, <1>7, <1>8, GivenUpStep

LEMMA AnswerStep == ASSUME SdkInv, NEW c \in Client, Answer(c) PROVE SdkInv'
<1>1. PICK r \in Mutations : r = request[c] /\ r.status = "done"
      BY DEF Answer, Idle, SdkInv, SdkTypes
<1>2. PICK o \in Objects : o = object[c]
      BY <1>1, NoneIsOther DEF SdkInv, SdkTypes, RequestsCarry
<1>3. PICK p \in Objects :
        /\ p = IF r.op = "delete" \/ r.id = NoId THEN o ELSE _process_mutation_result(o, r)
        /\ p.tag = o.tag /\ p.read = o.read /\ p.data = o.data /\ p.now = o.now
        /\ p.initialized = o.initialized /\ p.has_update = o.has_update /\ p.properties = o.properties
        /\ p.id = IF r.op = "delete" \/ r.id = NoId THEN o.id ELSE r.id
  <2> DEFINE u == _process_mutation_result(o, r)
             p == IF r.op = "delete" \/ r.id = NoId THEN o ELSE u
  <2>1. /\ u \in Objects /\ u.id = r.id /\ u.tag = o.tag /\ u.read = o.read /\ u.data = o.data /\ u.now = o.now
        /\ u.initialized = o.initialized /\ u.has_update = o.has_update /\ u.properties = o.properties
        BY DEF _process_mutation_result, Objects, Mutations
  <2> HIDE DEF u
  <2>2. p \in Objects /\ p = IF r.op = "delete" \/ r.id = NoId THEN o ELSE u
        BY <2>1
  <2> HIDE DEF p
  <2> QED BY <2>1, <2>2 DEF u
<1>4. object' = [object EXCEPT ![c] = p] /\ request' = [request EXCEPT ![c] = None]
      BY <1>1, <1>2, <1>3 DEF Answer
<1>5. UNCHANGED <<fields, server, abandoned, origin, touched, lost, edits>>
      BY DEF Answer
<1>6. fields' = fields /\ Objects' = Objects /\ Mutations' = Mutations /\ Holdings' = Holdings
      BY <1>5 DEF Objects, Mutations, Holdings
<1>7. SdkTypes'
      BY <1>4, <1>5, <1>6 DEF SdkInv, SdkTypes
<1>8. /\ \A d \in Client : object'[d] = IF d = c THEN p ELSE object[d]
      /\ \A d \in Client : request'[d] = IF d = c THEN None ELSE request[d]
      BY <1>4 DEF SdkInv, SdkTypes
<1>9. r # None /\ o # None /\ p # None
      BY NoneIsOther
<1>10. ObjectsKept'
  <2>1. ASSUME NEW d \in Client, object'[d] # None PROVE Kept(object[d], touched[d])'
    <3>1. CASE d = c
      <4>1. Kept(o, touched[c])
            BY <1>2, <1>9 DEF SdkInv, ObjectsKept
      <4> QED BY <1>3, <1>5, <1>8, <3>1, <4>1 DEF Kept
    <3>2. CASE d # c
      <4>1. Kept(object[d], touched[d]) /\ object'[d] = object[d]
            BY <1>8, <2>1, <3>2 DEF SdkInv, ObjectsKept
      <4> QED BY <1>5, <4>1 DEF Kept
    <3> QED BY <3>1, <3>2
  <2> QED BY <2>1 DEF ObjectsKept
<1>11. RequestsModest'
      BY <1>5, <1>8 DEF SdkInv, RequestsModest, Modest
<1>12. RequestsCarry'
      BY <1>5, <1>8 DEF SdkInv, RequestsCarry, Carries
<1>13. TagsUnique'
  <2>1. ASSUME NEW d \in Client, request'[d] # None, request'[d].op = "create"
        PROVE  /\ object'[d] # None /\ object'[d].id = NoId /\ request'[d].tag = object'[d].tag
               /\ request'[d].status = "done" => request'[d].id \in Node
        BY <1>8, <2>1 DEF SdkInv, TagsUnique
  <2>2. p.id = NoId => o.id = NoId /\ ~ CreationDone(c)
    <3>1. r.op = "create" => r.id \in Node
          BY <1>1, <1>9 DEF SdkInv, TagsUnique
    <3> QED BY <1>1, <1>3, <3>1, SdkNodeAssumption DEF CreationDone
  <2>3. \A d \in Client : object'[d] # None /\ object'[d].id = NoId =>
          /\ object[d] # None /\ object[d].id = NoId /\ object'[d].tag = object[d].tag
          /\ ~ CreationDone(d)' => ~ CreationDone(d)
        BY <1>2, <1>3, <1>8, <1>9, <2>2 DEF CreationDone
  <2>4. /\ edits' = edits /\ lost' = lost /\ abandoned' = abandoned /\ origin' = origin
        BY <1>5
  <2> QED BY <2>1, <2>3, <2>4 DEF SdkInv, TagsUnique
<1> QED BY <1>7, <1>10, <1>11, <1>12, <1>13 DEF SdkInv

LEMMA SdkInvariant == SdkSpec => []SdkInv
<1>1. SdkInv /\ [SdkNext]_sdkVars => SdkInv'
  <2> SUFFICES ASSUME SdkInv, [SdkNext]_sdkVars PROVE SdkInv'
      OBVIOUS
  <2>1. ASSUME NEW c \in Client,
               \/ Get(c) \/ New(c) \/ Assign(c) \/ Fetch(c) \/ ChangePeer(c) \/ Save(c) \/ Delete(c)
               \/ Handle(c) \/ Answer(c) \/ Refuse(c) \/ Fail(c)
        PROVE  SdkInv'
        BY <2>1, GetStep, NewStep, AssignStep, FetchStep, ChangePeerStep, SaveStep, DeleteStep,
           HandleStep, AnswerStep, RefuseStep, FailStep
  <2>2. ASSUME NEW r \in abandoned, HandleLate(r) PROVE SdkInv'
        BY <2>2, HandleLateStep
  <2>3. CASE UNCHANGED sdkVars
    <3>1. /\ fields' = fields /\ server' = server /\ object' = object /\ request' = request
          /\ abandoned' = abandoned /\ origin' = origin /\ touched' = touched /\ lost' = lost
          /\ edits' = edits
          BY <2>3 DEF sdkVars
    <3> QED BY <3>1 DEF SdkInv, SdkTypes, ObjectsKept, RequestsModest, RequestsCarry, TagsUnique,
                Kept, Modest, Carries, CreationDone, Objects, Mutations, Holdings
  <2> QED BY <2>1, <2>2, <2>3 DEF SdkNext
<1> QED BY <1>1, SdkInitial, PTL DEF SdkSpec

(* Saving an object any number of times makes one node of it, whatever tokens *)
(* expire, as long as no request is given up or sent again: an object that    *)
(* has no id has made none, but the one whose answer is on its way.           *)
THEOREM CreatedOnceAlways == SdkSpec => []CreatedOnce
<1>1. SdkInv => CreatedOnce
      BY DEF SdkInv, TagsUnique, CreatedOnce
<1> QED BY <1>1, SdkInvariant, PTL

(* A step that is not that of the server leaves the nodes alone and carries   *)
(* out no request.                                                           *)
LEMMA OtherSteps ==
  ASSUME SdkInv, [SdkNext]_sdkVars,
         \A c \in Client : ~ Handle(c), \A r \in abandoned : ~ HandleLate(r)
  PROVE  server' = server /\ \A c \in Client : ~ CarriedOut(c)
<1>1. request \in [Client -> Mutations \cup {None}]
      BY DEF SdkInv, SdkTypes
<1>2. CASE UNCHANGED sdkVars
      BY <1>2 DEF sdkVars, CarriedOut
<1>3. ASSUME NEW c \in Client, NEW o, NEW cost, Becomes(c, o, cost)
      PROVE  server' = server /\ \A d \in Client : ~ CarriedOut(d)
      BY <1>3 DEF Becomes, CarriedOut
<1>4. ASSUME NEW c \in Client, NEW r, Send(c, r)
      PROVE  server' = server /\ \A d \in Client : ~ CarriedOut(d)
      BY <1>1, <1>4 DEF Send, CarriedOut, Idle
<1>5. ASSUME NEW c \in Client, NEW q, server' = server, request' = [request EXCEPT ![c] = q],
             q # None => q.status = "sent"
      PROVE  server' = server /\ \A d \in Client : ~ CarriedOut(d)
      BY <1>1, <1>5 DEF CarriedOut
<1>6. ASSUME NEW c \in Client, Answer(c) \/ Refuse(c) \/ Fail(c)
      PROVE  server' = server /\ \A d \in Client : ~ CarriedOut(d)
  <2>1. PICK r \in Mutations : r = request[c]
        BY <1>1, <1>6 DEF Answer, Refuse, Fail, Idle
  <2>2. CASE Answer(c)
        BY <1>5, <2>2 DEF Answer
  <2>3. CASE Refuse(c)
    <3>1. handle_relogin(r) # None => handle_relogin(r).status = "sent"
          BY <2>1, <2>3 DEF Refuse, handle_relogin, Mutations
    <3> QED BY <1>5, <2>1, <2>3, <3>1 DEF Refuse
  <2>4. CASE Fail(c)
    <3>1. Again(r, object[c].id).status = "sent"
          BY <2>1 DEF Again, Mutations
    <3>2. PICK again \in BOOLEAN :
            server' = server /\ request' = [request EXCEPT ![c] = IF again THEN Again(r, object[c].id) ELSE None]
          BY <2>1, <2>4 DEF Fail
    <3> QED BY <1>5, <3>1, <3>2
  <2> QED BY <1>6, <2>2, <2>3, <2>4
<1>7. ASSUME NEW c \in Client, Get(c) \/ New(c) \/ Assign(c) \/ Fetch(c) \/ ChangePeer(c)
      PROVE  server' = server /\ \A d \in Client : ~ CarriedOut(d)
      BY <1>3, <1>7 DEF Get, New, Assign, Fetch, ChangePeer
<1>8. ASSUME NEW c \in Client, Save(c) \/ Delete(c)
      PROVE  server' = server /\ \A d \in Client : ~ CarriedOut(d)
      BY <1>4, <1>8 DEF Save, Delete
<1> QED BY <1>2, <1>6, <1>7, <1>8 DEF SdkNext

(* What the server does changes only fields that an update sends. *)
LEMMA PerformWrites ==
  ASSUME SdkInv, NEW r \in Mutations, NEW id \in Ids, Perform(r, id),
         NEW n \in DOMAIN server \cap DOMAIN server', NEW f \in fields, server'[n][f] # server[n][f]
  PROVE  r.op = "update" /\ r.id = n /\ f \in r.sent
<1>1. DOMAIN server \subseteq DOMAIN origin
      BY DEF SdkInv, SdkTypes
<1>2. CASE r.op = "update" /\ r.id \in DOMAIN server /\ id = r.id
           /\ server' = [server EXCEPT ![id] = Written(r, server[id])]
      BY <1>2 DEF Written
<1>3. CASE /\ id \in Node \ DOMAIN origin
           /\ server' = [n_1 \in DOMAIN server \cup {id} |->
                           IF n_1 = id THEN Written(r, [f_1 \in fields |-> {}]) ELSE server[n_1]]
      BY <1>1, <1>3
<1>4. CASE server' = [n_1 \in DOMAIN server \ {id} |-> server[n_1]]
      BY <1>4
<1>5. CASE server' = server
      BY <1>5
<1> QED BY <1>2, <1>3, <1>4, <1>5 DEF Perform

(* The save of an object leaves alone what its client has not set, and what    *)
(* it has set is there once the save was carried out (but for values taken     *)
(* away or put back), whatever else is saved, lost or sent again in between.   *)
THEOREM SaveExactAlways == SdkSpec => SaveExact
<1> DEFINE Others == \A n \in DOMAIN server \cap DOMAIN server' : \A f \in fields :
              server'[n][f] # server[n][f] =>
                \E r \in {request[c] : c \in {d \in Client : CarriedOut(d)}} \cup (abandoned \ abandoned') :
                   /\ r.op = "update" /\ r.id = n
                   /\ r.full \/ f \in r.touched \cup RelatedNode \cup Prefetched
           IsSaved == \A c \in Client :
              CarriedOut(c) /\ request[c].op # "delete" /\ request'[c].id # NoId =>
                \A f \in touched[c] :
                   \/ server'[request'[c].id][f] = object[c].now[f]
                   \/ f \in Single /\ object[c].now[f] = {}
                   \/ f \in object[c].read /\ object[c].now[f] = object[c].data[f]
<1>1. ASSUME SdkInv, NEW c \in Client, Handle(c) PROVE Others /\ IsSaved
  <2>1. PICK id \in Ids :
          /\ ~ Idle(c) /\ request[c].status = "sent" /\ Perform(request[c], id)
          /\ request' = [request EXCEPT ![c].status = "done", ![c].id = id]
        BY <1>1 DEF Handle, Ids
  <2>2. PICK r \in Mutations : r = request[c]
        BY <1>1, <2>1 DEF Idle, SdkInv, SdkTypes
  <2> DEFINE q == [r EXCEPT !.status = "done", !.id = id]
  <2>3. q \in Mutations /\ q.status = "done" /\ q.id = id
        BY DEF Mutations
  <2>4. \A d \in Client : request'[d] = IF d = c THEN q ELSE request[d]
        BY <1>1, <2>1, <2>2, <2>3 DEF SdkInv, SdkTypes
  <2> HIDE DEF q
  <2>5. CarriedOut(c) /\ \A d \in Client : CarriedOut(d) => d = c
        BY <2>1, <2>3, <2>4, NoneIsOther DEF CarriedOut
  <2>6. Modest(r) /\ Carries(r, object[c], touched[c]) /\ touched[c] \subseteq fields
        BY <1>1, <2>1, <2>2 DEF Idle, SdkInv, SdkTypes, RequestsModest, RequestsCarry
  <2>7. Others
    <3> SUFFICES ASSUME NEW n \in DOMAIN server \cap DOMAIN server', NEW f \in fields,
                        server'[n][f] # server[n][f]
                 PROVE  /\ r.op = "update" /\ r.id = n
                        /\ r.full \/ f \in r.touched \cup RelatedNode \cup Prefetched
        BY <2>2, <2>5
    <3>1. r.op = "update" /\ r.id = n /\ f \in r.sent
          BY <1>1, <2>1, <2>2, PerformWrites
    <3> QED BY <2>6, <3>1 DEF Modest
  <2>8. IsSaved
    <3>1. ASSUME r.op # "delete", id # NoId, NEW f \in touched[c], f \in r.sent
          PROVE  server'[id][f] = object[c].now[f]
      <4>1. server'[id] = Written(r, server[id]) \/ server'[id] = Written(r, [g \in fields |-> {}])
            BY <1>1, <2>1, <2>2, <3>1 DEF Perform, SdkInv, SdkTypes
      <4> QED BY <2>6, <3>1, <4>1 DEF Written, Carries
    <3>2. r.op # "delete" /\ id # NoId =>
            \A f \in touched[c] : \/ server'[id][f] = object[c].now[f]
                                  \/ f \in Single /\ object[c].now[f] = {}
                                  \/ f \in object[c].read /\ object[c].now[f] = object[c].data[f]
          BY <2>6, <3>1 DEF Carries
    <3>3. request[c] = r /\ request'[c].id = id
          BY <2>2, <2>3, <2>4
    <3> QED BY <2>5, <3>2, <3>3
  <2> QED BY <2>7, <2>8
<1>2. ASSUME SdkInv, NEW r \in abandoned, HandleLate(r) PROVE Others /\ IsSaved
  <2>1. PICK id \in Ids : Perform(r, id) /\ abandoned' = abandoned \ {r} /\ request' = request
        BY <1>2 DEF HandleLate, Ids
  <2>2. r \in Mutations /\ Modest(r) /\ r \in abandoned \ abandoned'
        BY <1>2, <2>1 DEF SdkInv, SdkTypes, RequestsModest
  <2>3. Others
    <3> SUFFICES ASSUME NEW n \in DOMAIN server \cap DOMAIN server', NEW f \in fields,
                        server'[n][f] # server[n][f]
                 PROVE  /\ r.op = "update" /\ r.id = n
                        /\ r.full \/ f \in r.touched \cup RelatedNode \cup Prefetched
        BY <2>2
    <3>1. r.op = "update" /\ r.id = n /\ f \in r.sent
          BY <1>2, <2>1, <2>2, PerformWrites
    <3> QED BY <2>2, <3>1 DEF Modest
  <2>4. IsSaved
        BY <2>1 DEF CarriedOut
  <2> QED BY <2>3, <2>4
<1>3. SdkInv /\ [SdkNext]_sdkVars => Others /\ IsSaved
  <2> SUFFICES ASSUME SdkInv, [SdkNext]_sdkVars,
                      \A c \in Client : ~ Handle(c), \A r \in abandoned : ~ HandleLate(r)
               PROVE  Others /\ IsSaved
      BY <1>1, <1>2
  <2> QED BY OtherSteps
<1>4. SdkInv /\ [SdkNext]_sdkVars => [Others]_sdkVars /\ [IsSaved]_sdkVars
      BY <1>3
<1>5. SdkSpec => [][Others]_sdkVars /\ [][IsSaved]_sdkVars
      BY <1>4, SdkInvariant, PTL DEF SdkSpec
<1> QED BY <1>5 DEF SaveExact, OthersKept, SetIsSaved

(***************************************************************************)
(* Runs of a generator.                                                     *)
(***************************************************************************)

Made(S) == {x[1] : x \in S}

Outside == nodes \ (tracked \cup leaked)

GeneratorTypes ==
  /\ nodes \subseteq Output \X Run
  /\ tracked \subseteq nodes
  /\ wish \subseteq Output
  /\ run \in [Run -> [phase : {"none", "started", "ready", "error"}]
                     \cup [phase : {"tracking"}, asked : SUBSET Output, saved : SUBSET (Output \X Run)]
                     \cup [phase : {"grouping", "finishing"}, asked : SUBSET Output,
                           saved : SUBSET (Output \X Run), previous : SUBSET (Output \X Run)]
                     \cup [phase : {"deleting"}, asked : SUBSET Output, unused : SUBSET (Output \X Run)]]
  /\ crossed \in BOOLEAN

(* What the only run at work knows. *)
Sound(n) ==
  /\ run[n].phase \in {"none", "started", "ready", "error"} => Outside = {}
  /\ run[n].phase = "tracking" =>
       run[n].saved \subseteq nodes /\ Outside \subseteq run[n].saved /\ Made(run[n].saved) \subseteq run[n].asked
  /\ run[n].phase = "grouping" =>
       /\ run[n].saved \subseteq nodes /\ Outside \subseteq run[n].saved
       /\ Made(run[n].saved) = run[n].asked /\ run[n].previous = tracked
  /\ run[n].phase = "finishing" => run[n].asked = {} /\ Outside = {}
  /\ run[n].phase = "deleting" =>
       /\ Outside \subseteq run[n].unused /\ tracked \cap run[n].unused = {}
       /\ Made(tracked) = run[n].asked

Alone ==
  ~ crossed =>
    /\ \A m, n \in Running : m = n
    /\ Running = {} => Outside = {}
    /\ \A n \in Running : Sound(n)

GeneratorInv == GeneratorTypes /\ Alone

LEMMA GeneratorInitial == GeneratorInit => GeneratorInv
<1> SUFFICES ASSUME GeneratorInit PROVE GeneratorInv
    OBVIOUS
<1>1. GeneratorTypes
      BY DEF GeneratorInit, GeneratorTypes, NoRun
<1>2. Running = {} /\ Outside = {}
      BY DEF GeneratorInit, NoRun, Running, Outside
<1> QED BY <1>1, <1>2 DEF GeneratorInv, Alone

LEMMA GeneratorTypesStep == GeneratorTypes /\ [GeneratorNext]_generatorVars => GeneratorTypes'
<1> SUFFICES ASSUME GeneratorTypes, [GeneratorNext]_generatorVars PROVE GeneratorTypes'
    OBVIOUS
<1> USE DEF GeneratorTypes, Move
<1>1. CASE Wish
      BY <1>1 DEF Wish
<1>2. ASSUME NEW n \in Run, Start(n) PROVE GeneratorTypes'
      BY <1>2 DEF Start
<1>3. ASSUME NEW n \in Run, collect_data(n) PROVE GeneratorTypes'
      BY <1>3 DEF collect_data
<1>4. ASSUME NEW n \in Run, Upsert(n) PROVE GeneratorTypes'
      BY <1>4 DEF Upsert
<1>5. ASSUME NEW n \in Run, __aexit__(n) PROVE GeneratorTypes'
      BY <1>5 DEF __aexit__
<1>6. ASSUME NEW n \in Run, update_group(n) PROVE GeneratorTypes'
      BY <1>6 DEF update_group, unused_member_ids
<1>7. ASSUME NEW n \in Run, delete_unused(n) PROVE GeneratorTypes'
      BY <1>7 DEF delete_unused
<1>8. ASSUME NEW n \in Run, Finish(n) PROVE GeneratorTypes'
      BY <1>8 DEF Finish
<1>9. ASSUME NEW n \in Run, RunFails(n) PROVE GeneratorTypes'
      BY <1>9 DEF RunFails
<1>10. ASSUME NEW n \in Run, Redelivered(n) PROVE GeneratorTypes'
      BY <1>10 DEF Redelivered, NoRun
<1>11. CASE UNCHANGED generatorVars
      BY <1>11 DEF generatorVars
<1> QED BY <1>1, <1>2, <1>3, <1>4, <1>5, <1>6, <1>7, <1>8, <1>9, <1>10, <1>11 DEF GeneratorNext

LEMMA AloneStep == GeneratorInv /\ [GeneratorNext]_generatorVars => Alone'
<1> SUFFICES ASSUME GeneratorInv, [GeneratorNext]_generatorVars PROVE Alone'
    OBVIOUS
<1> USE DEF GeneratorInv, GeneratorTypes, Move
<1>1. CASE Wish
      BY <1>1 DEF Wish, Alone, Sound, Running, Outside
<1>2. ASSUME NEW n \in Run, Start(n), ~ crossed' PROVE Alone'
  <2>1. Running = {} /\ ~ crossed
        BY <1>2 DEF Start
  <2>2. Running' = {n}
        BY <1>2, <2>1 DEF Start, Running
  <2>3. Outside' = {} /\ run'[n].phase = "started"
        BY <1>2, <2>1 DEF Start, Alone, Outside
  <2> QED BY <2>2, <2>3 DEF Alone, Sound
<1>3. ASSUME NEW n \in Run, collect_data(n), ~ crossed' PROVE Alone'
  <2>1. n \in Running /\ ~ crossed /\ Running' = Running
        BY <1>3 DEF collect_data, Running
  <2>2. Sound(n) /\ Running = {n}
        BY <2>1 DEF Alone
  <2>3. Sound(n)'
        BY <1>3, <2>2 DEF collect_data, Sound, Outside, Made
  <2> QED BY <2>1, <2>2, <2>3 DEF Alone
<1>4. ASSUME NEW n \in Run, Upsert(n), ~ crossed' PROVE Alone'
  <2>1. n \in Running /\ ~ crossed /\ Running' = Running
        BY <1>4 DEF Upsert, Running
  <2>2. Sound(n) /\ Running = {n}
        BY <2>1 DEF Alone
  <2>3. Sound(n)'
        BY <1>4, <2>2 DEF Upsert, Sound, Outside, Made
  <2> QED BY <2>1, <2>2, <2>3 DEF Alone
<1>5. ASSUME NEW n \in Run, __aexit__(n), ~ crossed' PROVE Alone'
  <2>1. n \in Running /\ ~ crossed /\ Running' = Running
        BY <1>5 DEF __aexit__, Running
  <2>2. Sound(n) /\ Running = {n}
        BY <2>1 DEF Alone
  <2>3. Sound(n)'
        BY <1>5, <2>2 DEF __aexit__, Sound, Outside, Made
  <2> QED BY <2>1, <2>2, <2>3 DEF Alone
<1>6. ASSUME NEW n \in Run, update_group(n), ~ crossed' PROVE Alone'
  <2>1. n \in Running /\ ~ crossed /\ Running' = Running
        BY <1>6 DEF update_group, Running
  <2>2. Sound(n) /\ Running = {n}
        BY <2>1 DEF Alone
  <2>3. Sound(n)'
        BY <1>6, <2>2 DEF update_group, unused_member_ids, Sound, Outside, Made
  <2> QED BY <2>1, <2>2, <2>3 DEF Alone
<1>7. ASSUME NEW n \in Run, delete_unused(n), ~ crossed' PROVE Alone'
  <2>1. n \in Running /\ ~ crossed /\ Running' = Running
        BY <1>7 DEF delete_unused, Running
  <2>2. Sound(n) /\ Running = {n}
        BY <2>1 DEF Alone
  <2>3. Sound(n)'
        BY <1>7, <2>2 DEF delete_unused, Sound, Outside, Made
  <2> QED BY <2>1, <2>2, <2>3 DEF Alone
<1>8. ASSUME NEW n \in Run, Finish(n) \/ RunFails(n) \/ Redelivered(n), ~ crossed' PROVE Alone'
  <2>1. n \in Running /\ ~ crossed
        BY <1>8 DEF Finish, RunFails, Redelivered, Running
  <2>2. Sound(n) /\ Running = {n}
        BY <2>1 DEF Alone
  <2>3. Running' = {}
        BY <1>8, <2>2 DEF Finish, RunFails, Redelivered, NoRun, Running
  <2>4. Outside' = {}
        BY <1>8, <2>2 DEF Finish, RunFails, Redelivered, Sound, Outside
  <2> QED BY <2>3, <2>4 DEF Alone
<1>9. CASE UNCHANGED generatorVars
      BY <1>9 DEF generatorVars, Alone, Sound, Running, Outside
<1>10. crossed' => Alone'
      BY DEF Alone
<1> QED BY <1>1, <1>2, <1>3, <1>4, <1>5, <1>6, <1>7, <1>8, <1>9, <1>10 DEF GeneratorNext

LEMMA GeneratorInvariant == GeneratorSpec => []GeneratorInv
<1>1. GeneratorInv /\ [GeneratorNext]_generatorVars => GeneratorInv'
      BY GeneratorTypesStep, AloneStep DEF GeneratorInv
<1> QED BY GeneratorInitial, <1>1, PTL DEF GeneratorSpec

(* Without overlapping runs, every node is in the group, in the hands of the  *)
(* run at work or among those that a failed run has left outside.             *)
THEOREM TrackedAlways == GeneratorSpec => []Tracked
<1>1. GeneratorInv => Tracked
  <2> SUFFICES ASSUME GeneratorInv, ~ crossed, NEW x \in nodes, x \in Outside
               PROVE \E n \in Run : x \in Held(n)
      BY DEF Tracked, Outside
  <2>1. PICK n \in Running : Sound(n)
        BY DEF GeneratorInv, Alone
  <2>2. n \in Run /\ x \in Held(n)
        BY <2>1 DEF Sound, Held, Running, GeneratorInv, GeneratorTypes
  <2> QED BY <2>2
<1> QED BY GeneratorInvariant, <1>1, PTL

(* A run that ends well, without another at the same time, leaves the nodes   *)
(* it wanted and no others but those a failed run left outside the group.     *)
THEOREM ReadyMatchesAlways == GeneratorSpec => ReadyMatches
<1> DEFINE Ends(n) ==
      run[n].phase # "ready" /\ run'[n].phase = "ready" /\ ~ crossed =>
            \/ run[n].asked = {}
            \/ /\ run[n].asked \subseteq {x[1] : x \in nodes}
               /\ {x[1] : x \in nodes \ leaked} \subseteq run[n].asked
<1>1. GeneratorInv /\ [GeneratorNext]_generatorVars => [\A n \in Run : Ends(n)]_generatorVars
  <2> SUFFICES ASSUME GeneratorInv, GeneratorNext, NEW n \in Run,
                      run[n].phase # "ready", run'[n].phase = "ready", ~ crossed
               PROVE \/ run[n].asked = {}
                     \/ /\ run[n].asked \subseteq Made(nodes)
                        /\ Made(nodes \ leaked) \subseteq run[n].asked
      BY DEF Made
  <2>1. Finish(n)
    <3> USE DEF GeneratorInv, GeneratorTypes, Move
    <3>1. ~ Wish
          BY DEF Wish
    <3>2. ASSUME NEW k \in Run, Start(k) \/ collect_data(k) \/ Upsert(k) \/ __aexit__(k) PROVE FALSE
          BY <3>2 DEF Start, collect_data, Upsert, __aexit__
    <3>3. ASSUME NEW k \in Run, update_group(k) \/ delete_unused(k) \/ RunFails(k) \/ Redelivered(k) PROVE FALSE
          BY <3>3 DEF update_group, delete_unused, RunFails, Redelivered, NoRun
    <3>4. ASSUME NEW k \in Run, Finish(k) PROVE Finish(n)
          BY <3>4 DEF Finish
    <3> QED BY <3>1, <3>2, <3>3, <3>4 DEF GeneratorNext
  <2>2. n \in Running /\ Sound(n)
        BY <2>1 DEF Finish, Move, Running, GeneratorInv, Alone
  <2>3. CASE run[n].phase = "finishing"
        BY <2>2, <2>3 DEF Sound
  <2>4. CASE run[n].phase = "deleting" /\ run[n].unused = {}
    <3>1. Outside = {} /\ Made(tracked) = run[n].asked
          BY <2>2, <2>4 DEF Sound
    <3>2. tracked \subseteq nodes /\ nodes \ leaked \subseteq tracked
          BY <3>1 DEF Outside, GeneratorInv, GeneratorTypes
    <3> QED BY <3>1, <3>2 DEF Made
  <2> QED BY <2>1, <2>3, <2>4 DEF Finish, Move
<1> QED BY GeneratorInvariant, <1>1, PTL DEF GeneratorSpec, ReadyMatches

-----------------------------------------------------------------------------
(* The listing of SdkListing. *)

(* A set of numbers has a least one. *)
LEMMA LeastNumber ==
  ASSUME NEW S, S \subseteq Nat, S # {}
  PROVE  \E x \in S : \A y \in S : x <= y
<1>1. IsWellFoundedOn(OpToRel(<, Nat), Nat)
  BY NatLessThanWellFounded
<1>2. PICK x \in S : \A y \in S : ~ (<<y, x>> \in OpToRel(<, Nat))
  BY <1>1, WFMin
<1>3. ASSUME NEW y \in S PROVE x <= y
  <2>1. ~ (y < x)
    BY <1>2 DEF OpToRel
  <2>. QED BY <2>1
<1>. QED BY <1>3

NodeCount == Len(Sorted)

(* The server's order, as an interval of positions. *)
LEMMA SortedIs ==
  /\ NodeCount \in Nat /\ DOMAIN Sorted = 1 .. NodeCount
  /\ \A i, j \in 1 .. NodeCount : Sorted[i] = Sorted[j] => i = j
  /\ Range(Sorted) = {Sorted[i] : i \in 1 .. NodeCount}
  <1>1. Sorted \in Seq(Range(Sorted)) /\ IsInjective(Sorted)
    BY SdkListingAssumption
  <1>2. NodeCount \in Nat /\ DOMAIN Sorted = 1 .. NodeCount
    BY <1>1 DEF NodeCount
  <1>. QED BY <1>1, <1>2 DEF IsInjective, Range

(* How many nodes of S there are up to i is a number. *)
LEMMA UptoFacts ==
  ASSUME NEW S, NEW i \in 0 .. NodeCount
  PROVE  IsFiniteSet({j \in 1 .. i : Sorted[j] \in S}) /\ Upto(i, S) \in Nat
  <1>1. IsFiniteSet(1 .. i)
    BY SortedIs, FS_Interval
  <1>2. IsFiniteSet({j \in 1 .. i : Sorted[j] \in S})
    BY <1>1, FS_Subset
  <1>. QED BY <1>2, FS_CardinalityType DEF Upto

(* More nodes are more nodes up to a place. *)
LEMMA UptoMore ==
  ASSUME NEW S, NEW T, NEW i \in 0 .. NodeCount, NEW k \in i .. NodeCount, \A j \in 1 .. i : Sorted[j] \in S => Sorted[j] \in T
  PROVE  Upto(i, S) <= Upto(k, T)
  <1> DEFINE A == {j \in 1 .. i : Sorted[j] \in S}
             B == {j \in 1 .. k : Sorted[j] \in T}
  <1>1. A \subseteq B
    BY SortedIs
  <1>2. IsFiniteSet(B)
    <2>1. k \in 0 .. NodeCount
      BY SortedIs
    <2>. QED BY <2>1, UptoFacts
  <1>3. Upto(i, S) = Cardinality(A) /\ Upto(k, T) = Cardinality(B)
    BY DEF Upto
  <1> HIDE DEF A, B
  <1>4. Cardinality(A) <= Cardinality(B)
    BY <1>1, <1>2, FS_Subset
  <1>. QED BY <1>3, <1>4

LEMMA UptoStep ==
  ASSUME NEW S, NEW i \in 1 .. NodeCount
  PROVE  Upto(i, S) = IF Sorted[i] \in S THEN Upto(i - 1, S) + 1 ELSE Upto(i - 1, S)
  <1> DEFINE A == {j \in 1 .. (i - 1) : Sorted[j] \in S}
             B == {j \in 1 .. i : Sorted[j] \in S}
  <1>0. i \in Nat /\ i - 1 \in 0 .. NodeCount
    BY SortedIs
  <1>1. B = IF Sorted[i] \in S THEN A \cup {i} ELSE A
    BY <1>0
  <1>2. i \notin A
    BY <1>0
  <1>3. IsFiniteSet(A)
    BY <1>0, UptoFacts
  <1>4. Upto(i - 1, S) = Cardinality(A) /\ Upto(i, S) = Cardinality(B)
    BY DEF Upto
  <1> HIDE DEF A, B
  <1>5. Cardinality(A \cup {i}) = Cardinality(A) + 1
    BY <1>2, <1>3, FS_AddElement
  <1>. QED BY <1>1, <1>4, <1>5

(* None up to the first. *)
LEMMA UptoZero == ASSUME NEW S PROVE Upto(0, S) = 0
  <1>1. {j \in 1 .. 0 : Sorted[j] \in S} = {}
    OBVIOUS
  <1>. QED BY <1>1, FS_EmptySet DEF Upto

(* No two nodes of S are the k-th. *)
LEMMA UptoUnique ==
  ASSUME NEW S, NEW i \in 1 .. NodeCount, NEW j \in 1 .. NodeCount, i < j, Sorted[j] \in S
  PROVE  Upto(i, S) < Upto(j, S)
  <1>1. i \in 0 .. NodeCount /\ j - 1 \in i .. NodeCount /\ j - 1 \in 0 .. NodeCount
    BY SortedIs
  <1>2. Upto(i, S) <= Upto(j - 1, S)
    BY <1>1, UptoMore
  <1>3. Upto(j, S) = Upto(j - 1, S) + 1
    BY UptoStep
  <1>4. Upto(i, S) \in Nat /\ Upto(j - 1, S) \in Nat
    BY <1>1, UptoFacts
  <1>. QED BY <1>2, <1>3, <1>4

(* There is a k-th node of S. *)
LEMMA UptoExists ==
  ASSUME NEW S, NEW k \in 1 .. Upto(NodeCount, S)
  PROVE  \E i \in 1 .. NodeCount : Sorted[i] \in S /\ Upto(i, S) = k
  <1> DEFINE D == {i \in 0 .. NodeCount : k <= Upto(i, S)}
  <1>0. NodeCount \in 0 .. NodeCount /\ k \in Nat /\ k >= 1
    BY SortedIs
  <1>1. NodeCount \in D /\ D \subseteq Nat
    BY <1>0, SortedIs, UptoFacts
  <1>2. PICK i \in D : \A j \in D : i <= j
    <2> HIDE DEF D
    <2>. QED BY <1>1, LeastNumber
  <1>3. i # 0
    BY <1>0, UptoZero
  <1>4. i \in 1 .. NodeCount /\ i - 1 \in 0 .. NodeCount /\ i - 1 \notin D
    BY <1>2, <1>3, SortedIs
  <1>8. Upto(i - 1, S) \in Nat
    BY <1>4, UptoFacts
  <1>5. Upto(i - 1, S) < k /\ k <= Upto(i, S) /\ Upto(i - 1, S) \in Nat
    BY <1>0, <1>4, <1>8
  <1>6. Upto(i, S) = IF Sorted[i] \in S THEN Upto(i - 1, S) + 1 ELSE Upto(i - 1, S)
    BY <1>4, UptoStep
  <1>7. Sorted[i] \in S /\ Upto(i, S) = k
    BY <1>0, <1>5, <1>6
  <1>. QED BY <1>4, <1>7

(* The k-th of the nodes found is the one with k of them up to it. *)
LEMMA FoundIs ==
  ASSUME NEW S
  PROVE  /\ Found(S) \in Seq(Range(Sorted)) /\ Len(Found(S)) = Upto(NodeCount, S) /\ Upto(NodeCount, S) \in Nat
         /\ \A k \in 1 .. Upto(NodeCount, S) : \E i \in 1 .. NodeCount : Sorted[i] \in S /\ Upto(i, S) = k /\ Found(S)[k] = Sorted[i]
         /\ \A i \in 1 .. NodeCount : Sorted[i] \in S => Upto(i, S) \in 1 .. Upto(NodeCount, S) /\ Found(S)[Upto(i, S)] = Sorted[i]
  <1> DEFINE C(k) == CHOOSE i \in 1 .. NodeCount : Sorted[i] \in S /\ Upto(i, S) = k
             n == Upto(NodeCount, S)
             F == Found(S)
  <1>0. n \in Nat
    <2>1. NodeCount \in 0 .. NodeCount
      BY SortedIs
    <2>. QED BY <2>1, UptoFacts
  <1>1. \A k \in 1 .. n : C(k) \in 1 .. NodeCount /\ Sorted[C(k)] \in S /\ Upto(C(k), S) = k
    <2>1. ASSUME NEW k \in 1 .. n PROVE \E i \in 1 .. NodeCount : Sorted[i] \in S /\ Upto(i, S) = k
      BY UptoExists
    <2>. QED BY <2>1
  <1>2. F = [k \in 1 .. n |-> Sorted[C(k)]]
    BY DEF Found, NodeCount
  <1>3. ASSUME NEW i \in 1 .. NodeCount, Sorted[i] \in S PROVE Upto(i, S) \in 1 .. n /\ C(Upto(i, S)) = i
    <2>1. i \in 0 .. NodeCount /\ NodeCount \in i .. NodeCount /\ i - 1 \in 0 .. NodeCount
      BY SortedIs
    <2>2. Upto(i, S) <= n
      BY <2>1, UptoMore
    <2>3. Upto(i, S) \in Nat /\ Upto(i - 1, S) \in Nat /\ Upto(i, S) = Upto(i - 1, S) + 1
      BY <1>3, <2>1, UptoFacts, UptoStep
    <2>4. Upto(i, S) \in 1 .. n
      BY <1>0, <2>2, <2>3
    <2> DEFINE j == C(Upto(i, S))
    <2>5. j \in 1 .. NodeCount /\ Sorted[j] \in S /\ Upto(j, S) = Upto(i, S)
      BY <2>4, <1>1
    <2> HIDE DEF j
    <2>6. ~ (i < j) /\ ~ (j < i)
      BY <2>3, <2>5, <1>3, UptoUnique
    <2>7. j = i
      BY <2>5, <2>6, SortedIs
    <2>. QED BY <2>4, <2>7 DEF j
  <1> HIDE DEF C, n, F
  <1>4. \A k \in 1 .. n : Sorted[C(k)] \in Range(Sorted)
    BY <1>1, SortedIs
  <1>5. F \in Seq(Range(Sorted)) /\ Len(F) = n
    BY <1>0, <1>2, <1>4
  <1>6. \A k \in 1 .. n : F[k] = Sorted[C(k)]
    BY <1>2
  <1>7. \A k \in 1 .. n : \E i \in 1 .. NodeCount : Sorted[i] \in S /\ Upto(i, S) = k /\ F[k] = Sorted[i]
    BY <1>1, <1>6
  <1>8. \A i \in 1 .. NodeCount : Sorted[i] \in S => Upto(i, S) \in 1 .. n /\ F[Upto(i, S)] = Sorted[i]
    BY <1>3, <1>6
  <1>. QED BY <1>0, <1>5, <1>7, <1>8 DEF n, F

PageOffset == (listing.page_number - 1) * pagination_size

(* The shape of the listing. *)
ListingTypes ==
  /\ stored \subseteq Range(Sorted) /\ steady \subseteq stored
  /\ listing.active \in BOOLEAN
  /\ listing.active =>
       /\ listing = [active |-> TRUE, nodes |-> listing.nodes, page_number |-> listing.page_number,
                     one |-> listing.one, at |-> listing.at]
       /\ listing.nodes \in Seq(Range(Sorted)) /\ listing.page_number \in Nat \ {0}
       /\ listing.at = {} \/ \E S \in SUBSET Range(Sorted) : listing.at = {S}

(* While nothing was deleted, every steady node is listed or still ahead of   *)
(* the next page; while nothing was created, no listed node is ahead of it.   *)
ListedSoFar ==
  listing.active /\ listing.at = {} =>
    /\ ~ deleted => \A i \in 1 .. NodeCount : Sorted[i] \in steady => Sorted[i] \in Range(listing.nodes) \/ PageOffset < Upto(i, stored)
    /\ ~ created => /\ IsInjective(listing.nodes)
                    /\ \A i \in 1 .. NodeCount : Sorted[i] \in Range(listing.nodes) \cap stored => Upto(i, stored) <= PageOffset

(* A listing with a time has the beginning of what there was then. *)
ListedAt ==
  listing.active => \A S \in listing.at :
    /\ steady \subseteq S
    /\ listing.nodes = SubSeq(Found(S), 1, IF Len(Found(S)) < PageOffset THEN Len(Found(S)) ELSE PageOffset)

ListingInv == ListingTypes /\ ListedSoFar /\ ListedAt

(* The offset of the next page. *)
LEMMA OffsetNext ==
  ASSUME NEW p \in Nat \ {0}
  PROVE  /\ (p - 1) * pagination_size \in Nat
         /\ ((p + 1) - 1) * pagination_size = (p - 1) * pagination_size + pagination_size
         /\ p + 1 \in Nat \ {0}
  <1>1. pagination_size \in Nat
    BY SdkListingAssumption
  <1>2. PICK q \in Nat : p = q + 1
    <2>1. p - 1 \in Nat /\ p = (p - 1) + 1
      OBVIOUS
    <2>. QED BY <2>1
  <1>3. (q + 1) * pagination_size = q * pagination_size + pagination_size /\ q * pagination_size \in Nat
    BY <1>1
  <1>4. p - 1 = q /\ (p + 1) - 1 = q + 1
    BY <1>2
  <1>. QED BY <1>3, <1>4

(* The page at an offset: the nodes of S from there on. *)
LEMMA PageIs ==
  ASSUME NEW S, NEW off \in Nat
  PROVE  LET page == PageOf(Found(S), off)
             count == Upto(NodeCount, S)
         IN  /\ page \in Seq(Range(Sorted))
             /\ \A k \in 1 .. Len(page) : \E i \in 1 .. NodeCount : Sorted[i] \in S /\ Upto(i, S) = off + k /\ page[k] = Sorted[i]
             /\ \A i \in 1 .. NodeCount : Sorted[i] \in S /\ off < Upto(i, S) /\ Upto(i, S) <= off + pagination_size =>
                                       Sorted[i] \in Range(page)
             /\ Len(page) <= pagination_size
  <1> DEFINE F == Found(S)
             count == Upto(NodeCount, S)
             top == IF count < off + pagination_size THEN count ELSE off + pagination_size
             page == SubSeq(F, off + 1, top)
  <1>0. pagination_size \in Nat /\ pagination_size >= 1
    BY SdkListingAssumption
  <1>1. F \in Seq(Range(Sorted)) /\ Len(F) = count /\ count \in Nat
    BY FoundIs
  <1>2. \A k \in 1 .. count : \E i \in 1 .. NodeCount : Sorted[i] \in S /\ Upto(i, S) = k /\ F[k] = Sorted[i]
    BY FoundIs
  <1>3. \A i \in 1 .. NodeCount : Sorted[i] \in S => Upto(i, S) \in 1 .. count /\ F[Upto(i, S)] = Sorted[i]
    BY FoundIs
  <1>4. PageOf(F, off) = page
    BY <1>1 DEF PageOf
  <1> HIDE DEF F, count
  <1>5. top \in Nat /\ top <= count /\ top <= off + pagination_size /\ (off < count => off < top)
    BY <1>0, <1>1
  <1> HIDE DEF top
  <1>6. page \in Seq(Range(Sorted)) /\ Len(page) = (IF off + 1 <= top THEN top - off ELSE 0)
        /\ \A k \in 1 .. Len(page) : page[k] = F[off + k] /\ off + k \in 1 .. count
    BY <1>0, <1>1, <1>5
  <1> HIDE DEF page
  <1>7. Len(page) <= pagination_size
    BY <1>0, <1>5, <1>6
  <1>8. \A k \in 1 .. Len(page) : \E i \in 1 .. NodeCount : Sorted[i] \in S /\ Upto(i, S) = off + k /\ page[k] = Sorted[i]
    BY <1>2, <1>6
  <1>9. ASSUME NEW i \in 1 .. NodeCount, Sorted[i] \in S, off < Upto(i, S), Upto(i, S) <= off + pagination_size
        PROVE  Sorted[i] \in Range(page)
    <2>1. Upto(i, S) \in 1 .. count /\ F[Upto(i, S)] = Sorted[i]
      BY <1>3, <1>9
    <2> DEFINE k == Upto(i, S) - off
    <2>2. Upto(i, S) <= top
      BY <2>1, <1>0, <1>1, <1>9 DEF top
    <2>3. k \in 1 .. Len(page) /\ off + k = Upto(i, S)
      BY <2>1, <2>2, <1>1, <1>5, <1>6, <1>9
    <2>4. page[k] = Sorted[i] /\ k \in DOMAIN page
      BY <2>1, <2>3, <1>6
    <2>. QED BY <2>4 DEF Range
  <1>. QED BY <1>4, <1>6, <1>7, <1>8, <1>9 DEF F

(* What two lists hold together. *)
LEMMA RangeJoin ==
  ASSUME NEW T, NEW s \in Seq(T), NEW t \in Seq(T)
  PROVE  /\ s \o t \in Seq(T) /\ Range(s \o t) = Range(s) \cup Range(t)
         /\ IsInjective(s) /\ IsInjective(t) /\ Range(s) \cap Range(t) = {} => IsInjective(s \o t)
  <1> DEFINE u == s \o t
             m == Len(s)
             n == Len(t)
  <1>1. m \in Nat /\ n \in Nat /\ DOMAIN s = 1 .. m /\ DOMAIN t = 1 .. n /\ u \in Seq(T) /\ DOMAIN u = 1 .. (m + n)
    OBVIOUS
  <1>2. \A i \in 1 .. (m + n) : u[i] = IF i <= m THEN s[i] ELSE t[i - m]
    OBVIOUS
  <1> HIDE DEF u, m, n
  <1>3. \A i \in 1 .. (m + n) : \/ i \in 1 .. m /\ u[i] = s[i]
                                \/ i \notin 1 .. m /\ i - m \in 1 .. n /\ u[i] = t[i - m]
    BY <1>1, <1>2
  <1>4. \A i \in 1 .. m : i \in 1 .. (m + n) /\ u[i] = s[i]
    BY <1>1, <1>2
  <1>5. \A i \in 1 .. n : i + m \in 1 .. (m + n) /\ u[i + m] = t[i]
    BY <1>1, <1>2
  <1>6. Range(u) = Range(s) \cup Range(t)
    BY <1>1, <1>3, <1>4, <1>5 DEF Range
  <1>7. ASSUME IsInjective(s), IsInjective(t), Range(s) \cap Range(t) = {} PROVE IsInjective(u)
    <2>1. SUFFICES ASSUME NEW i \in 1 .. (m + n), NEW j \in 1 .. (m + n), u[i] = u[j] PROVE i = j
      BY <1>1 DEF IsInjective
    <2>2. \A x \in 1 .. m : s[x] \in Range(s)
      BY <1>1 DEF Range
    <2>3. \A x \in 1 .. n : t[x] \in Range(t)
      BY <1>1 DEF Range
    <2>4. CASE i \in 1 .. m /\ j \in 1 .. m
      BY <2>1, <2>4, <1>1, <1>4, <1>7 DEF IsInjective
    <2>5. CASE i \notin 1 .. m /\ j \notin 1 .. m
      <3>1. i - m \in 1 .. n /\ j - m \in 1 .. n /\ t[i - m] = t[j - m]
        BY <2>1, <2>5, <1>3
      <3>2. i - m = j - m
        BY <3>1, <1>1, <1>7 DEF IsInjective
      <3>. QED BY <3>2, <1>1
    <2>6. CASE ~ (i \in 1 .. m <=> j \in 1 .. m)
      <3>1. (u[i] \in Range(s) /\ u[j] \in Range(t)) \/ (u[i] \in Range(t) /\ u[j] \in Range(s))
        BY <2>2, <2>3, <2>6, <1>3
      <3>. QED BY <3>1, <2>1, <1>7
    <2>. QED BY <2>4, <2>5, <2>6
  <1>. QED BY <1>1, <1>6, <1>7 DEF u

(* What a change of the nodes leaves of the invariant: creations push nodes   *)
(* back, deletions pull them forward.                                         *)
LEMMA RankMoves ==
  ASSUME NEW S, NEW T, S \subseteq T, NEW i \in 1 .. NodeCount
  PROVE  Upto(i, S) <= Upto(i, T) /\ Upto(i, S) \in Nat /\ Upto(i, T) \in Nat
  <1>1. i \in 0 .. NodeCount /\ i \in i .. NodeCount
    BY SortedIs
  <1>. QED BY <1>1, UptoMore, UptoFacts

(* The offset is a number. *)
LEMMA OffsetNat ==
  ASSUME ListingTypes, listing.active
  PROVE  PageOffset \in Nat
  <1>1. listing.page_number \in Nat \ {0}
    BY DEF ListingTypes
  <1>. QED BY <1>1, OffsetNext DEF PageOffset

(* Creating or deleting a node keeps the invariant. *)
LEMMA ListingChangeKeeps ==
  ASSUME ListingInv, CreateNode \/ DeleteNode
  PROVE  ListingInv'
  <1>1. PICK T : Change(T) /\ T \subseteq Range(Sorted) /\ (stored \subseteq T \/ T \subseteq stored)
                 /\ (T # stored)
    <2>1. stored \subseteq Range(Sorted)
      BY DEF ListingInv, ListingTypes
    <2>2. CASE CreateNode
      <3>1. PICK n \in Range(Sorted) \ stored : Change(stored \cup {n})
        BY <2>2 DEF CreateNode
      <3>. QED BY <3>1, <2>1
    <2>3. CASE DeleteNode
      <3>1. PICK n \in stored : Change(stored \ {n})
        BY <2>3 DEF DeleteNode
      <3>. QED BY <3>1, <2>1
    <2>. QED BY <2>2, <2>3
  <1>2. stored' = T /\ steady' = steady \cap T /\ created' = (created \/ ~ T \subseteq stored)
        /\ deleted' = (deleted \/ ~ stored \subseteq T) /\ listing' = listing
    BY <1>1 DEF Change
  <1>3. ListingTypes /\ ListedSoFar /\ ListedAt
    BY DEF ListingInv
  <1>4. ListingTypes'
    BY <1>1, <1>2, <1>3 DEF ListingTypes
  <1>5. PageOffset' = PageOffset
    BY <1>2 DEF PageOffset
  <1>6. ListedAt'
    BY <1>2, <1>3, <1>5 DEF ListedAt
  <1>7. ASSUME listing.active, listing.at = {} PROVE ListedSoFar'
    <2>0. PageOffset \in Nat
      BY <1>3, <1>7, OffsetNat
    <2>1. ASSUME ~ deleted', NEW i \in 1 .. NodeCount, Sorted[i] \in steady'
          PROVE  Sorted[i] \in Range(listing.nodes) \/ PageOffset < Upto(i, T)
      <3>1. ~ deleted /\ stored \subseteq T /\ Sorted[i] \in steady
        BY <1>2, <2>1
      <3>2. Sorted[i] \in Range(listing.nodes) \/ PageOffset < Upto(i, stored)
        BY <3>1, <1>3, <1>7 DEF ListedSoFar
      <3>3. Upto(i, stored) <= Upto(i, T) /\ Upto(i, stored) \in Nat /\ Upto(i, T) \in Nat
        BY <3>1, RankMoves
      <3>. QED BY <3>2, <3>3, <2>0
    <2>2. ASSUME ~ created'
          PROVE  /\ IsInjective(listing.nodes)
                 /\ \A i \in 1 .. NodeCount : Sorted[i] \in Range(listing.nodes) \cap T => Upto(i, T) <= PageOffset
      <3>1. ~ created /\ T \subseteq stored
        BY <1>2, <2>2
      <3>2. IsInjective(listing.nodes)
        BY <3>1, <1>3, <1>7 DEF ListedSoFar
      <3>3. ASSUME NEW i \in 1 .. NodeCount, Sorted[i] \in Range(listing.nodes) \cap T PROVE Upto(i, T) <= PageOffset
        <4>1. Upto(i, stored) <= PageOffset
          BY <3>1, <3>3, <1>3, <1>7 DEF ListedSoFar
        <4>2. Upto(i, T) <= Upto(i, stored) /\ Upto(i, stored) \in Nat /\ Upto(i, T) \in Nat
          BY <3>1, RankMoves
        <4>. QED BY <4>1, <4>2, <2>0
      <3>. QED BY <3>2, <3>3
    <2>. QED BY <2>1, <2>2, <1>2, <1>5 DEF ListedSoFar
  <1>8. ~ (listing.active /\ listing.at = {}) => ListedSoFar'
    BY <1>2 DEF ListedSoFar
  <1>. QED BY <1>4, <1>6, <1>7, <1>8 DEF ListingInv

LEMMA ListingBeginKeeps ==
  ASSUME ListingInv, Begin
  PROVE  ListingInv'
  <1>1. PICK at \in BOOLEAN, one \in BOOLEAN :
          listing' = [active |-> TRUE, nodes |-> <<>>, page_number |-> 1, one |-> one,
                      at |-> IF at THEN {stored} ELSE {}]
    BY DEF Begin
  <1>2. steady' = stored /\ created' = FALSE /\ deleted' = FALSE /\ stored' = stored
    BY DEF Begin
  <1>3. stored \subseteq Range(Sorted)
    BY DEF ListingInv, ListingTypes
  <1>4. listing'.active = TRUE /\ listing'.nodes = <<>> /\ listing'.page_number = 1 /\ listing'.one = one
        /\ listing'.at = IF at THEN {stored} ELSE {}
    BY <1>1
  <1>5. listing'.at = {} \/ \E S \in SUBSET Range(Sorted) : listing'.at = {S}
    BY <1>3, <1>4
  <1>6. listing' = [active |-> TRUE, nodes |-> listing'.nodes, page_number |-> listing'.page_number,
                    one |-> listing'.one, at |-> listing'.at]
    BY <1>1, <1>4
  <1>7. <<>> \in Seq(Range(Sorted)) /\ 1 \in Nat \ {0}
    OBVIOUS
  <1>8. ListingTypes'
    BY <1>2, <1>3, <1>4, <1>5, <1>6, <1>7 DEF ListingTypes
  <1>9. PageOffset' = 0
    <2>1. pagination_size \in Nat
      BY SdkListingAssumption
    <2>2. (1 - 1) * pagination_size = 0
      BY <2>1
    <2>. QED BY <2>2, <1>4 DEF PageOffset
  <1>10. \A i \in 1 .. NodeCount : Sorted[i] \in stored => 0 < Upto(i, stored)
    <2>1. SUFFICES ASSUME NEW i \in 1 .. NodeCount, Sorted[i] \in stored PROVE 0 < Upto(i, stored)
      OBVIOUS
    <2>2. Upto(i, stored) = Upto(i - 1, stored) + 1
      BY <2>1, UptoStep
    <2>3. i - 1 \in 0 .. NodeCount
      BY SortedIs
    <2>4. Upto(i - 1, stored) \in Nat
      BY <2>3, UptoFacts
    <2>. QED BY <2>2, <2>4
  <1>11. Range(<<>>) = {} /\ IsInjective(<<>>)
    BY DEF Range, IsInjective
  <1>12. ListedSoFar'
    BY <1>2, <1>4, <1>9, <1>10, <1>11 DEF ListedSoFar
  <1>13. ListedAt'
    <2>1. SUFFICES ASSUME NEW S, S \in listing'.at
                   PROVE  steady' \subseteq S
                          /\ listing'.nodes = SubSeq(Found(S), 1, IF Len(Found(S)) < 0 THEN Len(Found(S)) ELSE 0)
      BY <1>9 DEF ListedAt
    <2>2. S = stored
      BY <2>1, <1>4
    <2>3. Found(S) \in Seq(Range(Sorted)) /\ Len(Found(S)) \in Nat
      BY FoundIs
    <2> DEFINE F == Found(S)
    <2> HIDE DEF F
    <2>4. ~ (Len(F) < 0)
      BY <2>3 DEF F
    <2>5. SubSeq(F, 1, 0) = <<>>
      BY <2>3 DEF F
    <2>. QED BY <2>2, <2>4, <2>5, <1>2, <1>4 DEF F
  <1>. QED BY <1>8, <1>12, <1>13 DEF ListingInv

(* A page that is listed next to what was listed before it. *)
LEMMA JoinSub ==
  ASSUME NEW T, NEW F \in Seq(T), NEW a \in Nat, NEW b \in Nat, a <= b
  PROVE  LET A == IF Len(F) < a THEN Len(F) ELSE a
             B == IF Len(F) < b THEN Len(F) ELSE b
         IN  SubSeq(F, 1, A) \o SubSeq(F, a + 1, B) = SubSeq(F, 1, B)
  <1> DEFINE n == Len(F)
             A == IF n < a THEN n ELSE a
             B == IF n < b THEN n ELSE b
             s == SubSeq(F, 1, A)
             t == SubSeq(F, a + 1, B)
             u == SubSeq(F, 1, B)
  <1>1. n \in Nat
    OBVIOUS
  <1>2. A \in Nat /\ B \in Nat /\ A <= n /\ B <= n /\ A <= B /\ (A = a \/ (A = n /\ B = n /\ n < a))
    BY <1>1
  <1> HIDE DEF n, A, B
  <1>3. s \in Seq(T) /\ Len(s) = A /\ \A k \in 1 .. A : s[k] = F[k]
    BY <1>1, <1>2 DEF n
  <1>4. u \in Seq(T) /\ Len(u) = B /\ \A k \in 1 .. B : u[k] = F[k]
    BY <1>1, <1>2 DEF n
  <1>5. CASE A = a
    <2>1. t \in Seq(T) /\ Len(t) = B - A /\ \A k \in 1 .. (B - A) : t[k] = F[a + k]
      BY <1>1, <1>2, <1>5 DEF n
    <2> HIDE DEF s, t, u
    <2> DEFINE v == s \o t
    <2>2. v \in Seq(T) /\ Len(v) = B
      BY <1>2, <1>3, <2>1
    <2>3. \A k \in 1 .. B : v[k] = IF k <= A THEN s[k] ELSE t[k - A]
      BY <1>2, <1>3, <2>1
    <2> HIDE DEF v
    <2>4. ASSUME NEW k \in 1 .. B PROVE v[k] = u[k]
      <3>1. CASE k <= A
        <4>1. k \in 1 .. A
          BY <3>1, <1>2
        <4>. QED BY <4>1, <3>1, <2>3, <1>3, <1>4
      <3>2. CASE ~ (k <= A)
        <4>1. k - A \in 1 .. (B - A) /\ a + (k - A) = k
          BY <3>2, <1>2, <1>5
        <4>. QED BY <4>1, <3>2, <2>1, <2>3, <1>4
      <3>. QED BY <3>1, <3>2
    <2>5. v = u
      BY <2>2, <2>4, <1>4
    <2>. QED BY <2>5 DEF v, s, t, u, A, B, n
  <1>6. CASE A = n /\ B = n /\ n < a
    <2>0. t \in Seq(T) /\ Len(t) = 0
      BY <1>1, <1>6 DEF n
    <2> HIDE DEF t
    <2>1. t = <<>>
      BY <2>0
    <2>2. s \o t = s
      BY <2>1, <1>3
    <2>3. s = u
      BY <1>6
    <2>. QED BY <2>2, <2>3 DEF s, t, u, A, B, n
  <1>. QED BY <1>2, <1>5, <1>6

(* The nodes that the next page reads. *)
Now == IF listing.at = {} THEN stored ELSE CHOOSE S \in listing.at : TRUE

(* The step of one page, without the record. *)
LEMMA PageStep ==
  ASSUME ListingTypes, Page
  PROVE  /\ listing.active /\ UNCHANGED <<stored, steady, created, deleted>>
         /\ listing' = [active |-> remaining_items(Len(Found(Now)), PageOffset) /\ ~ listing.one,
                        nodes |-> listing.nodes \o PageOf(Found(Now), PageOffset),
                        page_number |-> listing.page_number + 1, one |-> listing.one, at |-> listing.at]
         /\ listing.at = {} => Now = stored
         /\ \A S \in listing.at : Now = S /\ S \in SUBSET Range(Sorted)
  <1> DEFINE page == PageOf(Found(Now), PageOffset)
             more == remaining_items(Len(Found(Now)), PageOffset)
  <1>1. listing.active /\ UNCHANGED <<stored, steady, created, deleted>>
    BY DEF Page
  <1>2. listing' = [listing EXCEPT !.nodes = @ \o page, !.page_number = @ + 1, !.active = more /\ ~ listing.one]
    BY DEF Page, Now, PageOffset
  <1> HIDE DEF page, more
  <1>3. listing = [active |-> TRUE, nodes |-> listing.nodes, page_number |-> listing.page_number,
                   one |-> listing.one, at |-> listing.at]
    BY <1>1 DEF ListingTypes
  <1>4. listing' = [active |-> more /\ ~ listing.one, nodes |-> listing.nodes \o page,
                    page_number |-> listing.page_number + 1, one |-> listing.one, at |-> listing.at]
    BY <1>2, <1>3
  <1>5. listing.at = {} \/ \E S \in SUBSET Range(Sorted) : listing.at = {S}
    BY <1>1 DEF ListingTypes
  <1>6. \A S \in listing.at : Now = S /\ S \in SUBSET Range(Sorted)
    BY <1>5 DEF Now
  <1>7. listing.at = {} => Now = stored
    BY DEF Now
  <1>. QED BY <1>1, <1>4, <1>6, <1>7 DEF page, more

(* A page has no node twice. *)
LEMMA PageInjective ==
  ASSUME NEW S, NEW off \in Nat
  PROVE  IsInjective(PageOf(Found(S), off))
  <1> DEFINE page == PageOf(Found(S), off)
  <1>1. /\ page \in Seq(Range(Sorted))
        /\ \A k \in 1 .. Len(page) : \E i \in 1 .. NodeCount : Sorted[i] \in S /\ Upto(i, S) = off + k /\ page[k] = Sorted[i]
        /\ \A i \in 1 .. NodeCount : Sorted[i] \in S /\ off < Upto(i, S) /\ Upto(i, S) <= off + pagination_size =>
                                  Sorted[i] \in Range(page)
        /\ Len(page) <= pagination_size
    BY PageIs
  <1> HIDE DEF page
  <1>0. DOMAIN page = 1 .. Len(page)
    BY <1>1
  <1>a. SUFFICES IsInjective(page)
    BY DEF page
  <1>2. SUFFICES ASSUME NEW k \in 1 .. Len(page), NEW l \in 1 .. Len(page), page[k] = page[l] PROVE k = l
    BY <1>0 DEF IsInjective
  <1>3. PICK i \in 1 .. NodeCount : Upto(i, S) = off + k /\ page[k] = Sorted[i]
    BY <1>1
  <1>4. PICK j \in 1 .. NodeCount : Upto(j, S) = off + l /\ page[l] = Sorted[j]
    BY <1>1
  <1>5. i = j
    BY <1>2, <1>3, <1>4, SortedIs
  <1>. QED BY <1>1, <1>3, <1>4, <1>5

(* What the listing has after a page, at the offset of the next one. *)
After(off) ==
  /\ listing'.nodes \in Seq(Range(Sorted))
  /\ listing.at = {} =>
       /\ ~ deleted => \A i \in 1 .. NodeCount : Sorted[i] \in steady => Sorted[i] \in Range(listing'.nodes) \/ off < Upto(i, stored)
       /\ ~ created => /\ IsInjective(listing'.nodes)
                       /\ \A i \in 1 .. NodeCount : Sorted[i] \in Range(listing'.nodes) \cap stored => Upto(i, stored) <= off
  /\ \A S \in listing.at :
       /\ steady \subseteq S
       /\ listing'.nodes = SubSeq(Found(S), 1, IF Len(Found(S)) < off THEN Len(Found(S)) ELSE off)

LEMMA PageAfter ==
  ASSUME ListingInv, Page
  PROVE  After(PageOffset + pagination_size)
  <1> DEFINE off == PageOffset
             top == off + pagination_size
             page == PageOf(Found(Now), off)
             old == listing.nodes
             new == listing'.nodes
  <1>0. ListingTypes /\ ListedSoFar /\ ListedAt
    BY DEF ListingInv
  <1>1. listing.active /\ new = old \o page /\ old \in Seq(Range(Sorted))
    <2>1. listing.active
      BY <1>0, PageStep
    <2>2. listing.nodes \in Seq(Range(Sorted))
      BY <1>0, <2>1 DEF ListingTypes
    <2>3. listing' = [active |-> remaining_items(Len(Found(Now)), PageOffset) /\ ~ listing.one,
                      nodes |-> listing.nodes \o PageOf(Found(Now), PageOffset),
                      page_number |-> listing.page_number + 1, one |-> listing.one, at |-> listing.at]
      BY <1>0, PageStep
    <2>4. listing'.nodes = listing.nodes \o PageOf(Found(Now), PageOffset)
      BY <2>3
    <2>. QED BY <2>1, <2>2, <2>4
  <1>2. listing.at = {} => Now = stored
    BY <1>0, PageStep
  <1>3. \A S \in listing.at : Now = S
    BY <1>0, PageStep
  <1>4. off \in Nat /\ top \in Nat /\ pagination_size \in Nat
    BY <1>0, <1>1, OffsetNat, SdkListingAssumption
  <1> HIDE DEF off
  <1>5. /\ page \in Seq(Range(Sorted))
        /\ \A k \in 1 .. Len(page) : \E i \in 1 .. NodeCount : Sorted[i] \in Now /\ Upto(i, Now) = off + k /\ page[k] = Sorted[i]
        /\ \A i \in 1 .. NodeCount : Sorted[i] \in Now /\ off < Upto(i, Now) /\ Upto(i, Now) <= off + pagination_size =>
                                  Sorted[i] \in Range(page)
        /\ Len(page) <= pagination_size
    BY <1>4, PageIs
  <1>6. IsInjective(page)
    BY <1>4, PageInjective
  <1> HIDE DEF page, old, new, top
  <1>7. new \in Seq(Range(Sorted)) /\ Range(new) = Range(old) \cup Range(page)
        /\ (IsInjective(old) /\ Range(old) \cap Range(page) = {} => IsInjective(new))
    BY <1>1, <1>5, <1>6, RangeJoin
  <1>8. \A i \in 1 .. NodeCount : Sorted[i] \in Range(page) => off < Upto(i, Now) /\ Upto(i, Now) <= top /\ Sorted[i] \in Now
    <2>1. SUFFICES ASSUME NEW i \in 1 .. NodeCount, Sorted[i] \in Range(page)
                   PROVE  off < Upto(i, Now) /\ Upto(i, Now) <= top /\ Sorted[i] \in Now
      OBVIOUS
    <2>2. PICK k \in 1 .. Len(page) : page[k] = Sorted[i]
      BY <2>1, <1>5 DEF Range
    <2>3. PICK j \in 1 .. NodeCount : Sorted[j] \in Now /\ Upto(j, Now) = off + k /\ page[k] = Sorted[j]
      BY <1>5
    <2>4. i = j
      BY <2>2, <2>3, SortedIs
    <2>. QED BY <2>3, <2>4, <1>4, <1>5 DEF top
  <1>9. ASSUME listing.at = {}, ~ deleted, NEW i \in 1 .. NodeCount, Sorted[i] \in steady
        PROVE  Sorted[i] \in Range(new) \/ top < Upto(i, stored)
    <2>1. Sorted[i] \in Range(old) \/ off < Upto(i, stored)
      BY <1>0, <1>1, <1>9 DEF ListedSoFar, off, old
    <2>2. Sorted[i] \in stored /\ Now = stored
      BY <1>0, <1>2, <1>9 DEF ListingTypes
    <2>3. i \in 0 .. NodeCount
      BY SortedIs
    <2>4. Upto(i, stored) \in Nat
      BY <2>3, UptoFacts
    <2>5. off < Upto(i, stored) /\ Upto(i, stored) <= off + pagination_size => Sorted[i] \in Range(page)
      BY <2>2, <1>5
    <2>. QED BY <2>1, <2>4, <2>5, <1>4, <1>7 DEF top
  <1>10. ASSUME listing.at = {}, ~ created
         PROVE  /\ IsInjective(new)
                /\ \A i \in 1 .. NodeCount : Sorted[i] \in Range(new) \cap stored => Upto(i, stored) <= top
    <2>1. IsInjective(old) /\ \A i \in 1 .. NodeCount : Sorted[i] \in Range(old) \cap stored => Upto(i, stored) <= off
      BY <1>0, <1>1, <1>10 DEF ListedSoFar, off, old
    <2>2. Now = stored
      BY <1>2, <1>10
    <2>3. \A i \in 1 .. NodeCount : Upto(i, stored) \in Nat
      <3>1. \A i \in 1 .. NodeCount : i \in 0 .. NodeCount
        BY SortedIs
      <3>. QED BY <3>1, UptoFacts
    <2>4. Range(old) \cap Range(page) = {}
      <3>1. SUFFICES ASSUME NEW x \in Range(old), x \in Range(page) PROVE FALSE
        OBVIOUS
      <3>2. x \in Range(Sorted)
        BY <3>1, <1>5 DEF Range
      <3>3. PICK i \in 1 .. NodeCount : x = Sorted[i]
        BY <3>2, SortedIs
      <3>4. off < Upto(i, stored) /\ Sorted[i] \in stored
        BY <3>1, <3>3, <2>2, <1>8
      <3>5. Upto(i, stored) <= off
        BY <3>1, <3>3, <3>4, <2>1
      <3>. QED BY <3>4, <3>5, <2>3, <1>4
    <2>5. IsInjective(new)
      BY <2>1, <2>4, <1>7
    <2>6. ASSUME NEW i \in 1 .. NodeCount, Sorted[i] \in Range(new) \cap stored PROVE Upto(i, stored) <= top
      <3>1. CASE Sorted[i] \in Range(page)
        BY <3>1, <2>2, <1>8
      <3>2. CASE Sorted[i] \in Range(old)
        <4>1. Upto(i, stored) <= off
          BY <3>2, <2>1, <2>6
        <4>. QED BY <4>1, <2>3, <1>4 DEF top
      <3>. QED BY <3>1, <3>2, <2>6, <1>7
    <2>. QED BY <2>5, <2>6
  <1>11. ASSUME NEW S \in listing.at
         PROVE  steady \subseteq S /\ new = SubSeq(Found(S), 1, IF Len(Found(S)) < top THEN Len(Found(S)) ELSE top)
    <2> DEFINE F == Found(S)
    <2>1. Now = S
      BY <1>3
    <2>2. steady \subseteq S /\ old = SubSeq(F, 1, IF Len(F) < off THEN Len(F) ELSE off)
      BY <1>0, <1>1 DEF ListedAt, off, old
    <2>3. F \in Seq(Range(Sorted))
      BY FoundIs
    <2>4. page = SubSeq(F, off + 1, IF Len(F) < top THEN Len(F) ELSE top)
      BY <2>1 DEF page, PageOf, top
    <2> HIDE DEF F
    <2>5. off <= top
      BY <1>4 DEF top
    <2>6. old \o page = SubSeq(F, 1, IF Len(F) < top THEN Len(F) ELSE top)
      BY <2>2, <2>3, <2>4, <2>5, <1>4, JoinSub
    <2>. QED BY <2>2, <2>6, <1>1 DEF F
  <1>. QED BY <1>7, <1>9, <1>10, <1>11 DEF After, new, off, top

LEMMA ListingPageKeeps ==
  ASSUME ListingInv, Page
  PROVE  ListingInv'
  <1> DEFINE top == PageOffset + pagination_size
             now == Found(Now)
             more == remaining_items(Len(now), PageOffset) /\ ~ listing.one
             new == listing.nodes \o PageOf(now, PageOffset)
  <1>0. ListingTypes /\ ListedSoFar /\ ListedAt
    BY DEF ListingInv
  <1>1. /\ listing.active /\ stored' = stored /\ steady' = steady /\ created' = created /\ deleted' = deleted
        /\ listing' = [active |-> more, nodes |-> new,
                       page_number |-> listing.page_number + 1, one |-> listing.one, at |-> listing.at]
    BY <1>0, PageStep
  <1>2. more \in BOOLEAN
    BY DEF remaining_items
  <1> HIDE DEF more, new
  <1>3. listing'.active = more /\ listing'.nodes = new /\ listing'.page_number = listing.page_number + 1
        /\ listing'.one = listing.one /\ listing'.at = listing.at
    BY <1>1
  <1>4. listing'.active => listing' = [active |-> TRUE, nodes |-> listing'.nodes, page_number |-> listing'.page_number,
                                       one |-> listing'.one, at |-> listing'.at]
    <2>1. more => more = TRUE
      BY <1>2
    <2>. QED BY <2>1, <1>1, <1>3
  <1>5. After(top)
    BY PageAfter
  <1>6. /\ listing.page_number \in Nat \ {0}
        /\ listing.at = {} \/ \E S \in SUBSET Range(Sorted) : listing.at = {S}
        /\ stored \subseteq Range(Sorted) /\ steady \subseteq stored
    BY <1>0, <1>1 DEF ListingTypes
  <1>7. PageOffset' = top /\ listing.page_number + 1 \in Nat \ {0}
    BY <1>3, <1>6, OffsetNext DEF PageOffset
  <1>8. ListingTypes'
    <2>1. listing'.nodes \in Seq(Range(Sorted))
      BY <1>5 DEF After
    <2>2. listing'.active \in BOOLEAN
      BY <1>2, <1>3
    <2>. QED BY <2>1, <2>2, <1>1, <1>3, <1>4, <1>6, <1>7 DEF ListingTypes
  <1> HIDE DEF top
  <1>9. ListedSoFar'
    BY <1>1, <1>3, <1>5, <1>7 DEF ListedSoFar, After
  <1>10. ListedAt'
    BY <1>1, <1>3, <1>5, <1>7 DEF ListedAt, After
  <1>. QED BY <1>8, <1>9, <1>10 DEF ListingInv

(* What ListingComplete asks of a step. *)
ListingEnds ==
  listing.active /\ ~ listing'.active /\ ~ listing.one =>
    /\ ~ deleted => steady \subseteq Range(listing'.nodes)
    /\ ~ created => IsInjective(listing'.nodes)
    /\ \A S \in listing.at : listing'.nodes = Found(S)

LEMMA PageEnds ==
  ASSUME ListingInv, Page
  PROVE  ListingEnds
  <1>1. SUFFICES ASSUME ~ listing'.active, ~ listing.one
                 PROVE  /\ ~ deleted => steady \subseteq Range(listing'.nodes)
                        /\ ~ created => IsInjective(listing'.nodes)
                        /\ \A S \in listing.at : listing'.nodes = Found(S)
    BY DEF ListingEnds
  <1> DEFINE top == PageOffset + pagination_size
             F == Found(Now)
             new == listing'.nodes
  <1>0. ListingTypes
    BY DEF ListingInv
  <1>2. listing.active /\ (listing'.active = (remaining_items(Len(F), PageOffset) /\ ~ listing.one))
    <2> DEFINE more == remaining_items(Len(F), PageOffset) /\ ~ listing.one
               joined == listing.nodes \o PageOf(F, PageOffset)
    <2>1. listing.active
          /\ listing' = [active |-> more, nodes |-> joined,
                         page_number |-> listing.page_number + 1, one |-> listing.one, at |-> listing.at]
      BY <1>0, PageStep
    <2> HIDE DEF more, joined
    <2>2. listing'.active = more
      BY <2>1
    <2>. QED BY <2>1, <2>2 DEF more
  <1>3. (listing.at = {} => Now = stored) /\ \A S \in listing.at : Now = S
    BY <1>0, PageStep
  <1>4. After(top)
    BY PageAfter
  <1>5. top \in Nat /\ Len(F) \in Nat
    BY <1>0, <1>2, OffsetNat, SdkListingAssumption, FoundIs
  <1>6. Len(F) < top
    <2>1. ~ (Len(F) >= top)
      BY <1>1, <1>2 DEF remaining_items
    <2>. QED BY <2>1, <1>5
  <1>7. /\ F \in Seq(Range(Sorted)) /\ Len(F) = Upto(NodeCount, Now)
        /\ \A k \in 1 .. Upto(NodeCount, Now) : \E i \in 1 .. NodeCount : Sorted[i] \in Now /\ Upto(i, Now) = k /\ F[k] = Sorted[i]
        /\ \A i \in 1 .. NodeCount : Sorted[i] \in Now => Upto(i, Now) \in 1 .. Upto(NodeCount, Now) /\ F[Upto(i, Now)] = Sorted[i]
    BY FoundIs
  <1>8. stored \subseteq Range(Sorted) /\ steady \subseteq stored
    BY <1>0 DEF ListingTypes
  <1>9. \A n \in stored : \E i \in 1 .. NodeCount : n = Sorted[i]
    BY <1>8, SortedIs
  <1> HIDE DEF top, F, new
  <1>10. ASSUME NEW S \in listing.at
         PROVE  new = Found(S) /\ Found(S) = F /\ steady \subseteq S
    <2>1. F = Found(S) /\ steady \subseteq S /\ new = SubSeq(Found(S), 1, IF Len(Found(S)) < top THEN Len(Found(S)) ELSE top)
      BY <1>3, <1>4 DEF After, F, new
    <2>2. new = SubSeq(F, 1, Len(F))
      BY <2>1, <1>6
    <2>3. SubSeq(F, 1, Len(F)) = F
      BY <1>7
    <2>. QED BY <2>1, <2>2, <2>3
  <1>11. CASE listing.at = {}
    <2>1. ASSUME ~ deleted, NEW n \in steady PROVE n \in Range(new)
      <3>1. PICK i \in 1 .. NodeCount : n = Sorted[i]
        BY <1>8, <1>9
      <3>2. n \in Range(new) \/ top < Upto(i, stored)
        BY <3>1, <2>1, <1>4, <1>11 DEF After, new
      <3>3. Upto(i, stored) \in 1 .. Len(F)
        BY <3>1, <1>3, <1>7, <1>8, <1>11
      <3>. QED BY <3>2, <3>3, <1>5, <1>6
    <2>2. ~ created => IsInjective(new)
      BY <1>4, <1>11 DEF After, new
    <2>. QED BY <2>1, <2>2, <1>11 DEF new
  <1>12. CASE listing.at # {}
    <2>1. PICK S : S \in listing.at
      BY <1>12
    <2>2. new = F /\ F = Found(S) /\ steady \subseteq S /\ Now = S
      BY <2>1, <1>3, <1>10
    <2>3. \A n \in steady : n \in Range(new)
      <3>1. SUFFICES ASSUME NEW n \in steady PROVE n \in Range(F)
        BY <2>2
      <3>2. PICK i \in 1 .. NodeCount : n = Sorted[i]
        BY <1>8, <1>9
      <3>3. Upto(i, Now) \in 1 .. Len(F) /\ F[Upto(i, Now)] = n
        BY <3>2, <2>2, <1>7
      <3>4. DOMAIN F = 1 .. Len(F)
        BY <1>7
      <3>. QED BY <3>3, <3>4 DEF Range
    <2>4. IsInjective(F)
      <3>0. DOMAIN F = 1 .. Len(F)
        BY <1>7
      <3>1. SUFFICES ASSUME NEW k \in 1 .. Len(F), NEW l \in 1 .. Len(F), F[k] = F[l] PROVE k = l
        BY <3>0 DEF IsInjective
      <3>2. PICK i \in 1 .. NodeCount : Upto(i, Now) = k /\ F[k] = Sorted[i]
        BY <1>7
      <3>3. PICK j \in 1 .. NodeCount : Upto(j, Now) = l /\ F[l] = Sorted[j]
        BY <1>7
      <3>. QED BY <3>1, <3>2, <3>3, SortedIs
    <2>. QED BY <2>2, <2>3, <2>4, <1>10 DEF new
  <1>. QED BY <1>11, <1>12

(* No other step ends a listing. *)
LEMMA ListingStep ==
  ASSUME ListingInv, [ListingNext]_listingVars
  PROVE  ListingInv' /\ (ListingNext => ListingEnds)
  <1>1. CASE CreateNode \/ DeleteNode
    <2>1. ListingInv'
      BY <1>1, ListingChangeKeeps
    <2>2. listing' = listing
      BY <1>1 DEF CreateNode, DeleteNode, Change
    <2>. QED BY <2>1, <2>2 DEF ListingEnds
  <1>2. CASE Begin
    <2>1. ListingInv'
      BY <1>2, ListingBeginKeeps
    <2>2. ~ listing.active
      BY <1>2 DEF Begin
    <2>. QED BY <2>1, <2>2 DEF ListingEnds
  <1>3. CASE Page
    BY <1>3, ListingPageKeeps, PageEnds
  <1>4. CASE UNCHANGED listingVars
    <2>1. stored' = stored /\ listing' = listing /\ steady' = steady /\ created' = created /\ deleted' = deleted
      BY <1>4 DEF listingVars
    <2>2. PageOffset' = PageOffset
      BY <2>1 DEF PageOffset
    <2>3. ListingInv'
      BY <2>1, <2>2 DEF ListingInv, ListingTypes, ListedSoFar, ListedAt
    <2>4. ListingEnds
      BY <2>1 DEF ListingEnds
    <2>. QED BY <2>3, <2>4
  <1>. QED BY <1>1, <1>2, <1>3, <1>4 DEF ListingNext

LEMMA ListingStarts ==
  ASSUME ListingInit
  PROVE  ListingInv
  <1>1. stored \subseteq Range(Sorted) /\ steady = {} /\ listing = [active |-> FALSE, nodes |-> <<>>]
    BY DEF ListingInit, NoListing
  <1>2. listing.active = FALSE
    BY <1>1
  <1>. QED BY <1>1, <1>2 DEF ListingInv, ListingTypes, ListedSoFar, ListedAt

(* A listing of all pages that ends has every node that was there all the     *)
(* time unless one was deleted, none twice unless one was created, and with   *)
(* a time exactly what there was then, in order.                              *)
THEOREM ListingCompleteAlways == ListingSpec => ListingComplete
  <1>1. ListingInit => ListingInv
    BY ListingStarts
  <1>2. ListingInv /\ [ListingNext]_listingVars => ListingInv' /\ [ListingEnds]_listingVars
    BY ListingStep
  <1>3. ListingEnds <=>
          (listing.active /\ ~ listing'.active /\ ~ listing.one =>
             LET all == listing'.nodes IN
             /\ ~ deleted => steady \subseteq Range(all)
             /\ ~ created => IsInjective(all)
             /\ \A S \in listing.at : all = Found(S))
    BY DEF ListingEnds
  <1>. QED BY <1>1, <1>2, <1>3, PTL DEF ListingSpec, ListingComplete
=============================================================================
