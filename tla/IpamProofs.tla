----------------------------- MODULE IpamProofs -----------------------------
(***************************************************************************)
(* Proofs about Ipam for any prefixes, addresses, address width, requests, *)
(* identifiers and bounds.                                                 *)
(*                                                                         *)
(* An identifier stands for one resource: between the look-up of a request *)
(* and its reservation no other request reserves under the same identifier *)
(* unless the two overlap (Unshared, Unreserved), and a node that was      *)
(* deleted is never used again (Given).                                    *)
(*                                                                         *)
(* The tree follows containment: until an incident, every node has its     *)
(* parent, but for the nodes that a pool has saved and not placed and the  *)
(* nodes these are closest to (Tree).  One lemma each shows that this is   *)
(* kept by a reconciliation in a transaction (Reconciles), a deletion      *)
(* (Removes), the save of a pool (Appears) and each save of a              *)
(* reconciliation that runs in none (PlacesOne).                           *)
(*                                                                         *)
(* What a pool hands out is free: the blocks that are left after each      *)
(* subnet was reserved meet neither each other nor what was reserved, and  *)
(* every subnet that is still to be reserved lies in one (LeftAfter); and  *)
(* every prefix of the resource lies in a subnet, since the prefixes that  *)
(* were ever around it still are (History).                                *)
(***************************************************************************)
EXTENDS Ipam, WellFoundedInduction, NaturalsInduction, FiniteSetTheorems, TLAPS

Allocating(r) == job[r].stage \in {"pick", "save", "query", "write", "reserve"}
Placing(r) == job[r].stage \in {"query", "write", "reserve"}

(* The kind of resource that an allocation looks for or has saved. *)
KindOf(r) ==
  IF Placing(r) THEN (IF job[r].node \in Prefix THEN Prefix ELSE Address) ELSE job[r].kind

(* What is reserved under its identifier. *)
Held(r) == Reservations(job[r].id, KindOf(r))

(* Every request is at one of the steps of its handler. *)
Shape ==
  /\ DOMAIN job = Request /\ DOMAIN value = Node
  /\ \A r \in Request :
       /\ Allocating(r) \/ job[r].stage \in {"idle", "commit"}
       /\ Allocating(r) => job[r].id \in Identifier \cup {Anonymous}
       /\ job[r].stage \in {"pick", "save"} => job[r].kind \in {Prefix, Address}
       /\ job[r].stage = "save" => job[r].value # <<>>
       /\ job[r].stage = "write" =>
            job[r] = [stage |-> "write", node |-> job[r].node, id |-> job[r].id, todo |-> job[r].todo]
       /\ job[r].stage = "reserve" => job[r].id # Anonymous

(* A node has a value from when it is saved; the node of a pending creation *)
(* has none, and no one else creates it.                                    *)
Given ==
  /\ alive \subseteq {n \in Node : value[n] # <<>>}
  /\ \A x \in reserved : x.node \in Node /\ value[x.node] # <<>>
  /\ \A r \in Request :
       /\ Placing(r) => job[r].node \in Node /\ value[job[r].node] # <<>>
       /\ job[r].stage = "commit" =>
            /\ job[r].node \in Node /\ job[r].value # <<>>
            /\ job[r].op # "create" => value[job[r].node] # <<>>
            /\ job[r].op = "create" =>
                 /\ value[job[r].node] = <<>>
                 /\ \A q \in Request : q # r /\ job[q].stage = "commit" => job[q].node # job[r].node

(* Two allocations under one identifier are on record as overlapping. *)
Unshared ==
  \A r, q \in Request :
    r # q /\ Allocating(r) /\ Allocating(q) /\ job[r].id = job[q].id => job[r].id \in shared \cup {Anonymous}

(* What the look-up of an allocation found still holds. *)
Unreserved ==
  \A r \in Request : Allocating(r) /\ job[r].id \notin shared \cup {Anonymous} =>
    Held(r) = {} \/ Held(r) \ alive # {}

PInv == Shape /\ Given /\ Unshared /\ Unreserved /\ OnePerIdentifier

-----------------------------------------------------------------------------
(* A value is not the absence of one. *)
LEMMA ValueGiven == \A v \in Value : v # <<>>
  BY DEF Value

LEMMA RecordGiven == ASSUME NEW b, NEW l PROVE [bits |-> b, len |-> l] # <<>>
  OBVIOUS

LEMMA AskedGiven == ASSUME NEW n \in Node, NEW v \in Asked(n) PROVE v # <<>>
  BY IpamAssumption, ValueGiven DEF Asked

LEMMA NextGiven == ASSUME NEW S, NEW v \in NextOf(S) PROVE v # <<>>
  <1>1. CASE v \in NextPrefix
    <2>1. PICK available : v \in get(available, PoolLength)
      BY <1>1 DEF NextPrefix
    <2>. QED BY <2>1, RecordGiven DEF get
  <1>2. CASE v \in NextAddress
    <2>1. PICK b, l : v = [bits |-> b, len |-> l]
      BY <1>2 DEF NextAddress
    <2>. QED BY <2>1, RecordGiven
  <1>. QED BY <1>1, <1>2 DEF NextOf

LEMMA FreshFacts ==
  ASSUME NEW S, NEW n \in Fresh(S)
  PROVE  /\ n \in S /\ value[n] = <<>>
         /\ \A r \in Request : job[r].stage = "commit" => job[r].node # n
  BY DEF Fresh

-----------------------------------------------------------------------------
(* Steps that neither reserve nor start an allocation keep the invariant    *)
(* when no node comes to life that was used before.                         *)
LEMMA Keeps ==
  ASSUME PInv, Shape', Given',
         reserved' = reserved, shared' = shared,
         \A n \in alive' : n \in alive \/ value[n] = <<>>,
         \A r \in Request : Allocating(r)' => Allocating(r) /\ job'[r].id = job[r].id /\ KindOf(r)' = KindOf(r)
  PROVE  PInv'
  <1>1. \A x \in reserved : x.node \notin alive => x.node \notin alive'
    BY DEF PInv, Given
  <1>2. Unshared'
    BY DEF PInv, Unshared
  <1>3. Unreserved'
    <2> SUFFICES ASSUME NEW r \in Request, Allocating(r)', job'[r].id \notin shared \cup {Anonymous}
                 PROVE  Held(r)' = {} \/ Held(r)' \ alive' # {}
      BY DEF Unreserved
    <2>1. Allocating(r) /\ job'[r].id = job[r].id /\ KindOf(r)' = KindOf(r)
      OBVIOUS
    <2>2. Held(r)' = Held(r)
      BY <2>1 DEF Held, Reservations
    <2>3. \A n \in Held(r) : n \notin alive => n \notin alive'
      BY <1>1 DEF Held, Reservations
    <2>. QED BY <2>1, <2>2, <2>3 DEF PInv, Unreserved
  <1>4. OnePerIdentifier'
    <2> SUFFICES ASSUME NEW x \in reserved, NEW y \in reserved, x.id = y.id, x.id \notin shared,
                        x.node # y.node, x.node \in Prefix <=> y.node \in Prefix
                 PROVE  \E z \in reserved : z.id = x.id /\ z.node \notin alive' /\ (z.node \in Prefix <=> x.node \in Prefix)
      BY DEF OnePerIdentifier
    <2>1. PICK z \in reserved : z.id = x.id /\ z.node \notin alive /\ (z.node \in Prefix <=> x.node \in Prefix)
      BY DEF PInv, OnePerIdentifier
    <2>. QED BY <2>1, <1>1
  <1>. QED BY <1>2, <1>3, <1>4 DEF PInv

(* One request changes its job; the others do not. *)
LEMMA OneJob ==
  ASSUME Shape, NEW r \in Request, NEW j, job' = [job EXCEPT ![r] = j]
  PROVE  DOMAIN job' = Request /\ job'[r] = j /\ \A q \in Request : q # r => job'[q] = job[q]
  BY DEF Shape

LEMMA Transacts ==
  ASSUME PInv, NEW r \in Request, NEW op, NEW n \in Node, NEW v, NEW plans, Transaction(r, op, n, v, plans),
         v # <<>>, op # "create" => value[n] # <<>>,
         op = "create" => value[n] = <<>> /\ \A q \in Request : job[q].stage = "commit" => job[q].node # n
  PROVE  PInv'
  <1>1. PICK todo : job' = [job EXCEPT ![r] = [stage |-> "commit", op |-> op, node |-> n, value |-> v, todo |-> todo]]
    BY DEF Transaction
  <1> DEFINE j == [stage |-> "commit", op |-> op, node |-> n, value |-> v, todo |-> todo]
  <1>2. j.stage = "commit" /\ j.op = op /\ j.node = n /\ j.value = v
    OBVIOUS
  <1> HIDE DEF j
  <1>3. DOMAIN job' = Request /\ job'[r] = j /\ \A q \in Request : q # r => job'[q] = job[q]
    BY <1>1, OneJob DEF PInv, j
  <1>4. value' = value /\ alive' = alive /\ reserved' = reserved /\ shared' = shared
    BY DEF Transaction, tree
  <1>5. Shape'
    BY <1>2, <1>3, <1>4 DEF PInv, Shape, Allocating
  <1>6. Given'
    <2>1. \A q \in Request : q # r /\ job[q].stage = "commit" /\ job[q].op = "create" => job[q].node # n
      BY DEF PInv, Given
    <2>. QED BY <1>2, <1>3, <1>4, <2>1 DEF PInv, Given, Placing
  <1>7. \A q \in Request : Allocating(q)' => Allocating(q) /\ job'[q].id = job[q].id /\ KindOf(q)' = KindOf(q)
    BY <1>2, <1>3 DEF Allocating, KindOf, Placing
  <1>. QED BY <1>4, <1>5, <1>6, <1>7, Keeps

LEMMA CommitSaveStep ==
  ASSUME PInv, NEW r \in Request, CommitSave(r)
  PROVE  PInv'
  <1> DEFINE n == job[r].node
  <1>1. /\ job[r].stage = "commit" /\ job[r].op \in {"create", "update"}
        /\ alive' = IF job[r].op = "create" THEN alive \cup {n} ELSE alive
        /\ value' = [value EXCEPT ![n] = job[r].value]
        /\ job' = [job EXCEPT ![r] = Idle] /\ reserved' = reserved /\ shared' = shared
    BY DEF CommitSave
  <1>2. DOMAIN job' = Request /\ job'[r] = Idle /\ \A q \in Request : q # r => job'[q] = job[q]
    BY <1>1, OneJob DEF PInv
  <1>3. /\ n \in Node /\ job[r].value # <<>>
        /\ job[r].op = "create" => value[n] = <<>>
        /\ job[r].op # "create" => value[n] # <<>>
    BY <1>1 DEF PInv, Given
  <1>4. Idle.stage = "idle"
    BY DEF Idle
  <1>5. DOMAIN value' = Node /\ value'[n] # <<>> /\ \A m \in Node : m # n => value'[m] = value[m]
    BY <1>1, <1>3 DEF PInv, Shape
  <1>6. Shape'
    BY <1>2, <1>4, <1>5 DEF PInv, Shape, Allocating
  <1>7. Given'
    <2>1. \A q \in Request : q # r /\ job[q].stage = "commit" /\ job[q].op = "create" => job[q].node # n
      BY <1>1, <1>3 DEF PInv, Given
    <2>2. alive' \subseteq {m \in Node : value'[m] # <<>>}
      BY <1>1, <1>3, <1>5 DEF PInv, Given
    <2>3. \A x \in reserved : x.node \in Node /\ value'[x.node] # <<>>
      BY <1>5 DEF PInv, Given
    <2>4. \A q \in Request : Placing(q)' => job'[q].node \in Node /\ value'[job'[q].node] # <<>>
      BY <1>2, <1>4, <1>5 DEF PInv, Given, Placing
    <2>5. \A q \in Request : job'[q].stage = "commit" => q # r /\ job'[q] = job[q]
      BY <1>2, <1>4
    <2>6. \A q \in Request : job'[q].stage = "commit" =>
            /\ job'[q].node \in Node /\ job'[q].value # <<>>
            /\ job'[q].op # "create" => value'[job'[q].node] # <<>>
            /\ job'[q].op = "create" =>
                 /\ value'[job'[q].node] = <<>>
                 /\ \A p \in Request : p # q /\ job'[p].stage = "commit" => job'[p].node # job'[q].node
      BY <2>1, <2>5, <1>5 DEF PInv, Given
    <2>. QED BY <1>1, <2>2, <2>3, <2>4, <2>6 DEF Given
  <1>8. \A q \in Request : Allocating(q)' => Allocating(q) /\ job'[q].id = job[q].id /\ KindOf(q)' = KindOf(q)
    BY <1>2, <1>4 DEF Allocating, KindOf, Placing
  <1>9. \A m \in alive' : m \in alive \/ value[m] = <<>>
    BY <1>1, <1>3
  <1>. QED BY <1>1, <1>6, <1>7, <1>8, <1>9, Keeps

(* Steps after which a request, if it goes on, allocates the same. *)
LEMMA JobStep ==
  ASSUME PInv, NEW r \in Request, NEW j, job' = [job EXCEPT ![r] = j],
         value' = value, reserved' = reserved, shared' = shared, alive' \subseteq alive,
         \/ j = Idle
         \/ /\ Allocating(r) /\ j.id = job[r].id
            /\ \/ job[r].stage = "pick" /\ j.stage = "save" /\ j.kind = job[r].kind /\ j.value # <<>>
               \/ Placing(r) /\ j.node = job[r].node /\ j.stage = "write"
                  /\ j = [stage |-> "write", node |-> j.node, id |-> j.id, todo |-> j.todo]
               \/ Placing(r) /\ j.node = job[r].node /\ j.stage = "reserve" /\ j.id # Anonymous
  PROVE  PInv'
  <1>1. DOMAIN job' = Request /\ job'[r] = j /\ \A q \in Request : q # r => job'[q] = job[q]
    BY OneJob DEF PInv
  <1>2. j = Idle => j.stage = "idle"
    BY DEF Idle
  <1>3. Shape'
    <2> SUFFICES ASSUME NEW q \in Request
                 PROVE  /\ Allocating(q)' \/ job'[q].stage \in {"idle", "commit"}
                        /\ Allocating(q)' => job'[q].id \in Identifier \cup {Anonymous}
                        /\ job'[q].stage \in {"pick", "save"} => job'[q].kind \in {Prefix, Address}
                        /\ job'[q].stage = "save" => job'[q].value # <<>>
                        /\ job'[q].stage = "write" =>
                             job'[q] = [stage |-> "write", node |-> job'[q].node, id |-> job'[q].id, todo |-> job'[q].todo]
                        /\ job'[q].stage = "reserve" => job'[q].id # Anonymous
      BY <1>1 DEF PInv, Shape
    <2>1. CASE q # r
      BY <2>1, <1>1 DEF PInv, Shape, Allocating
    <2>2. CASE q = r
      <3>1. CASE j = Idle
        BY <2>2, <3>1, <1>1, <1>2 DEF Allocating
      <3>2. CASE Allocating(r) /\ j.id = job[r].id /\ job[r].stage = "pick" /\ j.stage = "save" /\ j.kind = job[r].kind /\ j.value # <<>>
        BY <2>2, <3>2, <1>1 DEF Allocating, PInv, Shape
      <3>3. CASE Allocating(r) /\ j.id = job[r].id /\ j.stage = "write" /\ j = [stage |-> "write", node |-> j.node, id |-> j.id, todo |-> j.todo]
        BY <2>2, <3>3, <1>1 DEF Allocating, PInv, Shape
      <3>4. CASE Allocating(r) /\ j.id = job[r].id /\ j.stage = "reserve" /\ j.id # Anonymous
        BY <2>2, <3>4, <1>1 DEF Allocating, PInv, Shape
      <3>. QED BY <3>1, <3>2, <3>3, <3>4
    <2>. QED BY <2>1, <2>2
  <1>4. Given'
    <2>1. \A q \in Request : Placing(q)' => Placing(q) /\ job'[q].node = job[q].node
      BY <1>1, <1>2 DEF Placing
    <2>2. \A q \in Request : job'[q].stage = "commit" => job'[q] = job[q]
      BY <1>1, <1>2
    <2>. QED BY <2>1, <2>2 DEF PInv, Given
  <1>5. \A q \in Request : Allocating(q)' => Allocating(q) /\ job'[q].id = job[q].id /\ KindOf(q)' = KindOf(q)
    BY <1>1, <1>2 DEF Allocating, KindOf, Placing
  <1>. QED BY <1>3, <1>4, <1>5, Keeps

LEMMA SaveStep ==
  ASSUME PInv, NEW r \in Request, Save(r)
  PROVE  PInv'
  <1>1. PICK n \in Fresh(job[r].kind) :
          /\ alive' = alive \cup {n} /\ value' = [value EXCEPT ![n] = job[r].value]
          /\ job' = [job EXCEPT ![r] = [stage |-> "query", node |-> n, id |-> job[r].id]]
    BY DEF Save
  <1>2. job[r].stage = "save" /\ reserved' = reserved /\ shared' = shared
    BY DEF Save
  <1>3. job[r].kind \in {Prefix, Address} /\ job[r].value # <<>> /\ Allocating(r) /\ job[r].id \in Identifier \cup {Anonymous}
    BY <1>2 DEF PInv, Shape, Allocating
  <1>4. n \in job[r].kind /\ n \in Node /\ value[n] = <<>> /\ \A q \in Request : job[q].stage = "commit" => job[q].node # n
    BY <1>1, <1>3, FreshFacts DEF Node
  <1> DEFINE j == [stage |-> "query", node |-> n, id |-> job[r].id]
  <1>5. j.stage = "query" /\ j.node = n /\ j.id = job[r].id
    OBVIOUS
  <1> HIDE DEF j
  <1>6. DOMAIN job' = Request /\ job'[r] = j /\ \A q \in Request : q # r => job'[q] = job[q]
    BY <1>1, OneJob DEF PInv, j
  <1>7. DOMAIN value' = Node /\ value'[n] # <<>> /\ \A m \in Node : m # n => value'[m] = value[m]
    BY <1>1, <1>3, <1>4 DEF PInv, Shape
  <1>8. Shape'
    BY <1>3, <1>5, <1>6, <1>7 DEF PInv, Shape, Allocating
  <1>9. Given'
    <2>1. alive' \subseteq {m \in Node : value'[m] # <<>>}
      BY <1>1, <1>4, <1>7 DEF PInv, Given
    <2>2. \A x \in reserved : x.node \in Node /\ value'[x.node] # <<>>
      BY <1>7 DEF PInv, Given
    <2>3. \A q \in Request : Placing(q)' => job'[q].node \in Node /\ value'[job'[q].node] # <<>>
      BY <1>4, <1>5, <1>6, <1>7 DEF PInv, Given, Placing
    <2>4. \A q \in Request : job'[q].stage = "commit" => job'[q] = job[q] /\ job[q].node # n
      BY <1>4, <1>5, <1>6
    <2>. QED BY <1>2, <1>7, <2>1, <2>2, <2>3, <2>4 DEF PInv, Given
  <1>10. KindOf(r)' = KindOf(r)
    <2>1. KindOf(r) = job[r].kind
      BY <1>2 DEF KindOf, Placing
    <2>2. n \in Prefix <=> job[r].kind = Prefix
      BY <1>3, <1>4, IpamAssumption
    <2>3. KindOf(r)' = IF n \in Prefix THEN Prefix ELSE Address
      BY <1>5, <1>6 DEF KindOf, Placing
    <2>. QED BY <1>3, <2>1, <2>2, <2>3
  <1>11. \A q \in Request : Allocating(q)' => Allocating(q) /\ job'[q].id = job[q].id /\ KindOf(q)' = KindOf(q)
    <2> SUFFICES ASSUME NEW q \in Request, Allocating(q)'
                 PROVE  Allocating(q) /\ job'[q].id = job[q].id /\ KindOf(q)' = KindOf(q)
      OBVIOUS
    <2>1. CASE q = r
      BY <2>1, <1>3, <1>5, <1>6, <1>10
    <2>2. CASE q # r
      BY <2>2, <1>6 DEF Allocating, KindOf, Placing
    <2>. QED BY <2>1, <2>2
  <1>12. \A m \in alive' : m \in alive \/ value[m] = <<>>
    BY <1>1, <1>4
  <1>. QED BY <1>2, <1>8, <1>9, <1>11, <1>12, Keeps

(* The look-up finds nothing, or a node that is gone; a second request that *)
(* is under way puts the identifier on record.                              *)
LEMMA GetResourceStep ==
  ASSUME PInv, NEW r \in Request, GetResource(r)
  PROVE  PInv'
  <1>1. PICK S \in {Prefix, Address}, id \in Identifier \cup {Anonymous} :
          /\ Reservations(id, S) = {} \/ Reservations(id, S) \ alive # {}
          /\ job' = [job EXCEPT ![r] = [stage |-> "pick", kind |-> S, id |-> id]]
          /\ shared' = shared \cup
               {i \in {id} \cap Identifier : \E q \in Request :
                    job[q].stage \notin {"idle", "commit"} /\ job[q].id = i}
    BY DEF GetResource
  <1>2. job[r] = Idle /\ value' = value /\ alive' = alive /\ reserved' = reserved
    BY DEF GetResource, tree
  <1> DEFINE j == [stage |-> "pick", kind |-> S, id |-> id]
  <1>3. j.stage = "pick" /\ j.kind = S /\ j.id = id
    OBVIOUS
  <1> HIDE DEF j
  <1>4. DOMAIN job' = Request /\ job'[r] = j /\ \A q \in Request : q # r => job'[q] = job[q]
    BY <1>1, OneJob DEF PInv, j
  <1>5. Shape'
    BY <1>2, <1>3, <1>4 DEF PInv, Shape, Allocating
  <1>6. Given'
    BY <1>2, <1>3, <1>4 DEF PInv, Given, Placing
  <1>7. shared \subseteq shared'
    BY <1>1
  <1>8. \A q \in Request : q # r => /\ Allocating(q)' = Allocating(q) /\ KindOf(q)' = KindOf(q)
                                   /\ Held(q)' = Held(q) /\ job'[q] = job[q]
    <2> SUFFICES ASSUME NEW q \in Request, q # r
                 PROVE  Allocating(q)' = Allocating(q) /\ KindOf(q)' = KindOf(q) /\ Held(q)' = Held(q)
      BY <1>4
    <2>1. job'[q] = job[q]
      BY <1>4
    <2>2. Allocating(q)' = Allocating(q) /\ KindOf(q)' = KindOf(q)
      BY <2>1 DEF Allocating, KindOf, Placing
    <2>. QED BY <2>1, <2>2, <1>2 DEF Held, Reservations
  <1>9. \A q \in Request : q # r /\ Allocating(q) /\ job[q].id = id => id \in shared' \cup {Anonymous}
    BY <1>1 DEF Allocating
  <1>10. Unshared'
    <2> SUFFICES ASSUME NEW p \in Request, NEW q \in Request, p # q, Allocating(p)', Allocating(q)', job'[p].id = job'[q].id
                 PROVE  job'[p].id \in shared' \cup {Anonymous}
      BY DEF Unshared
    <2>1. CASE p = r
      BY <2>1, <1>3, <1>4, <1>8, <1>9
    <2>2. CASE q = r
      BY <2>2, <1>3, <1>4, <1>8, <1>9
    <2>3. CASE p # r /\ q # r
      BY <2>3, <1>7, <1>8 DEF PInv, Unshared
    <2>. QED BY <2>1, <2>2, <2>3
  <1>11. Unreserved'
    <2> SUFFICES ASSUME NEW q \in Request, Allocating(q)', job'[q].id \notin shared' \cup {Anonymous}
                 PROVE  Held(q)' = {} \/ Held(q)' \ alive' # {}
      BY DEF Unreserved
    <2>1. CASE q = r
      <3>1. KindOf(r)' = S
        BY <1>3, <1>4 DEF KindOf, Placing
      <3>2. Held(r)' = Reservations(id, S)
        BY <3>1, <1>2, <1>3, <1>4 DEF Held, Reservations
      <3>. QED BY <2>1, <3>2, <1>1, <1>2
    <2>2. CASE q # r
      BY <2>2, <1>2, <1>7, <1>8 DEF PInv, Unreserved
    <2>. QED BY <2>1, <2>2
  <1>12. OnePerIdentifier'
    BY <1>2, <1>7 DEF PInv, OnePerIdentifier
  <1>. QED BY <1>5, <1>6, <1>10, <1>11, <1>12 DEF PInv

(* A reservation is the first, or an earlier one is of a node that is gone. *)
LEMMA ReserveStep ==
  ASSUME PInv, NEW r \in Request, Reserve(r)
  PROVE  PInv'
  <1> DEFINE id == job[r].id
             n == job[r].node
             new == [id |-> id, node |-> n]
  <1>1. /\ job[r].stage = "reserve" /\ reserved' = reserved \cup {new} /\ job' = [job EXCEPT ![r] = Idle]
        /\ alive' = alive /\ value' = value /\ shared' = shared
    BY DEF Reserve, tree
  <1>2. new.id = id /\ new.node = n
    OBVIOUS
  <1>3. Allocating(r) /\ Placing(r) /\ id # Anonymous /\ n \in Node /\ value[n] # <<>>
    BY <1>1 DEF PInv, Shape, Given, Allocating, Placing
  <1>4. DOMAIN job' = Request /\ job'[r] = Idle /\ \A q \in Request : q # r => job'[q] = job[q]
    BY <1>1, OneJob DEF PInv
  <1>5. Idle.stage = "idle"
    BY DEF Idle
  <1> HIDE DEF new
  <1>6. Shape'
    BY <1>1, <1>4, <1>5 DEF PInv, Shape, Allocating
  <1>7. Given'
    <2>1. \A q \in Request : Placing(q)' => Placing(q) /\ job'[q].node = job[q].node
      BY <1>4, <1>5 DEF Placing
    <2>2. \A q \in Request : job'[q].stage = "commit" => job'[q] = job[q]
      BY <1>4, <1>5
    <2>3. \A x \in reserved' : x.node \in Node /\ value[x.node] # <<>>
      BY <1>1, <1>2, <1>3 DEF PInv, Given
    <2>. QED BY <1>1, <2>1, <2>2, <2>3 DEF PInv, Given
  <1>8. \A q \in Request : Allocating(q)' => q # r /\ Allocating(q) /\ job'[q] = job[q]
    BY <1>4, <1>5 DEF Allocating
  <1>9. Unshared'
    BY <1>1, <1>8 DEF PInv, Unshared
  <1>10. Unreserved'
    <2> SUFFICES ASSUME NEW q \in Request, Allocating(q)', job'[q].id \notin shared \cup {Anonymous}
                 PROVE  Held(q)' = {} \/ Held(q)' \ alive # {}
      BY <1>1 DEF Unreserved
    <2>1. q # r /\ Allocating(q) /\ job'[q] = job[q]
      BY <1>8
    <2>2. job[q].id # id
      BY <2>1, <1>3 DEF PInv, Unshared
    <2>3. KindOf(q)' = KindOf(q)
      BY <2>1 DEF KindOf, Placing
    <2>4. Held(q)' = Held(q)
      BY <2>1, <2>2, <2>3, <1>1, <1>2 DEF Held, Reservations
    <2>. QED BY <2>1, <2>4 DEF PInv, Unreserved
  <1>11. OnePerIdentifier'
    <2>1. KindOf(r) = IF n \in Prefix THEN Prefix ELSE Address
      BY <1>3 DEF KindOf
    <2>2. ASSUME NEW y \in reserved, y.id = id, id \notin shared, y.node \in Prefix <=> n \in Prefix
          PROVE  \E z \in reserved : z.id = id /\ z.node \notin alive /\ (z.node \in Prefix <=> n \in Prefix)
      <3>1. y.node \in KindOf(r)
        BY <2>1, <2>2 DEF PInv, Given, Node
      <3>2. y.node \in Held(r)
        BY <2>2, <3>1 DEF Held, Reservations
      <3>3. Held(r) \ alive # {}
        BY <2>2, <3>2, <1>3 DEF PInv, Unreserved
      <3>4. PICK m : m \in Held(r) /\ m \notin alive
        BY <3>3
      <3>5. PICK z \in reserved : z.id = id /\ z.node = m /\ z.node \in KindOf(r)
        BY <3>4 DEF Held, Reservations
      <3>6. z.node \in Prefix <=> n \in Prefix
        BY <3>5, <2>1, IpamAssumption
      <3>. QED BY <3>4, <3>5, <3>6
    <2> SUFFICES ASSUME NEW x \in reserved', NEW y \in reserved', x.id = y.id, x.id \notin shared,
                        x.node # y.node, x.node \in Prefix <=> y.node \in Prefix
                 PROVE  \E z \in reserved' : z.id = x.id /\ z.node \notin alive /\ (z.node \in Prefix <=> x.node \in Prefix)
      BY <1>1 DEF OnePerIdentifier
    <2>3. CASE x \in reserved /\ y \in reserved
      BY <2>3, <1>1 DEF PInv, OnePerIdentifier
    <2>4. CASE x = new /\ y \in reserved
      <3>1. \E z \in reserved : z.id = id /\ z.node \notin alive /\ (z.node \in Prefix <=> n \in Prefix)
        BY <2>2, <2>4, <1>2
      <3>. QED BY <3>1, <2>4, <1>1, <1>2
    <2>5. CASE y = new /\ x \in reserved
      <3>1. \E z \in reserved : z.id = id /\ z.node \notin alive /\ (z.node \in Prefix <=> n \in Prefix)
        BY <2>2, <2>5, <1>2
      <3>. QED BY <3>1, <2>5, <1>1, <1>2
    <2>. QED BY <2>3, <2>4, <2>5, <1>1
  <1>. QED BY <1>6, <1>7, <1>9, <1>10, <1>11 DEF PInv

LEMMA InitPInv == Init => PInv
  <1> SUFFICES ASSUME Init PROVE PInv
    OBVIOUS
  <1>1. \A r \in Request : job[r].stage = "idle"
    BY DEF Init, Idle
  <1>2. \A n \in Resource : n \in Node /\ value[n] # <<>>
    BY IpamAssumption, ValueGiven DEF Init, Node
  <1>. QED BY <1>1, <1>2 DEF Init, PInv, Shape, Given, Unshared, Unreserved, OnePerIdentifier, Allocating, Placing

LEMMA NextPInv == PInv /\ [Next]_vars => PInv'
  <1> SUFFICES ASSUME PInv, [Next]_vars PROVE PInv'
    OBVIOUS
  <1>1. CASE UNCHANGED vars
    BY <1>1 DEF vars, PInv, Shape, Given, Unshared, Unreserved, OnePerIdentifier, Allocating, Placing, KindOf, Held, Reservations
  <1>2. CASE DeleteAddress
    <2>1. alive' \subseteq alive /\ value' = value /\ job' = job /\ reserved' = reserved /\ shared' = shared
      BY <1>2 DEF DeleteAddress
    <2>2. Shape' /\ Given'
      BY <2>1 DEF PInv, Shape, Given, Allocating, Placing
    <2>3. \A r \in Request : Allocating(r)' => Allocating(r) /\ job'[r].id = job[r].id /\ KindOf(r)' = KindOf(r)
      BY <2>1 DEF Allocating, KindOf, Placing
    <2>. QED BY <2>1, <2>2, <2>3, Keeps
  <1>3. ASSUME NEW r \in Request, Create(r) PROVE PInv'
    <2>1. PICK n \in Fresh(Prefix) \cup Fresh(Address) : \E v \in Asked(n) : Transaction(r, "create", n, v, Reconciled(n, v))
      BY <1>3 DEF Create
    <2>2. PICK v \in Asked(n) : Transaction(r, "create", n, v, Reconciled(n, v))
      BY <2>1
    <2>3. n \in Node /\ value[n] = <<>> /\ \A q \in Request : job[q].stage = "commit" => job[q].node # n
      BY <2>1, FreshFacts DEF Node
    <2>. QED BY <2>2, <2>3, AskedGiven, Transacts
  <1>4. ASSUME NEW r \in Request, Update(r) PROVE PInv'
    <2>1. PICK n \in alive : \E v \in Asked(n) \ {value[n]} : Transaction(r, "update", n, v, Reconciled(n, v))
      BY <1>4 DEF Update
    <2>2. PICK v \in Asked(n) : Transaction(r, "update", n, v, Reconciled(n, v))
      BY <2>1
    <2>3. n \in Node /\ value[n] # <<>>
      BY <2>1 DEF PInv, Given
    <2>. QED BY <2>2, <2>3, AskedGiven, Transacts
  <1>5. ASSUME NEW r \in Request, Delete(r) PROVE PInv'
    <2>1. PICK n \in alive : Transaction(r, "delete", n, value[n], ReconciledForDelete(n))
      BY <1>5 DEF Delete
    <2>2. n \in Node /\ value[n] # <<>>
      BY <2>1 DEF PInv, Given
    <2>. QED BY <2>1, <2>2, Transacts
  <1>6. ASSUME NEW r \in Request, CommitDelete(r) PROVE PInv'
    <2>1. job' = [job EXCEPT ![r] = Idle] /\ value' = value /\ reserved' = reserved /\ shared' = shared /\ alive' \subseteq alive
      BY <1>6 DEF CommitDelete
    <2>. QED BY <2>1, JobStep
  <1>7. ASSUME NEW r \in Request, Pick(r) PROVE PInv'
    <2>1. job[r].stage = "pick" /\ value' = value /\ reserved' = reserved /\ shared' = shared /\ alive' = alive /\ Allocating(r)
      BY <1>7 DEF Pick, tree, Allocating
    <2>2. CASE job' = [job EXCEPT ![r] = Idle]
      BY <2>1, <2>2, JobStep
    <2>3. ASSUME NEW v \in NextOf(job[r].kind),
                 job' = [job EXCEPT ![r] = [stage |-> "save", kind |-> job[r].kind, id |-> job[r].id, value |-> v]]
          PROVE  PInv'
      <3> DEFINE j == [stage |-> "save", kind |-> job[r].kind, id |-> job[r].id, value |-> v]
      <3>1. j.stage = "save" /\ j.kind = job[r].kind /\ j.id = job[r].id /\ j.value # <<>>
        BY NextGiven
      <3>2. job' = [job EXCEPT ![r] = j]
        BY <2>3
      <3> HIDE DEF j
      <3>. QED BY <2>1, <3>1, <3>2, JobStep
    <2>. QED BY <1>7, <2>2, <2>3 DEF Pick
  <1>8. ASSUME NEW r \in Request, Query(r) PROVE PInv'
    <2>1. job[r].stage = "query" /\ value' = value /\ reserved' = reserved /\ shared' = shared /\ alive' = alive
          /\ Allocating(r) /\ Placing(r)
      BY <1>8 DEF Query, tree, Allocating, Placing
    <2>2. CASE job' = [job EXCEPT ![r] = Idle]
      BY <2>1, <2>2, JobStep
    <2>3. ASSUME NEW todo, job' = [job EXCEPT ![r] = [stage |-> "write", node |-> job[r].node, id |-> job[r].id, todo |-> todo]]
          PROVE  PInv'
      <3> DEFINE j == [stage |-> "write", node |-> job[r].node, id |-> job[r].id, todo |-> todo]
      <3>1. /\ j.stage = "write" /\ j.node = job[r].node /\ j.id = job[r].id
            /\ j = [stage |-> "write", node |-> j.node, id |-> j.id, todo |-> j.todo]
        OBVIOUS
      <3>2. job' = [job EXCEPT ![r] = j]
        BY <2>3
      <3> HIDE DEF j
      <3>. QED BY <2>1, <3>1, <3>2, JobStep
    <2>. QED BY <1>8, <2>2, <2>3 DEF Query
  <1>9. ASSUME NEW r \in Request, Write(r) PROVE PInv'
    <2>1. job[r].stage = "write" /\ value' = value /\ reserved' = reserved /\ shared' = shared /\ alive' = alive
          /\ Allocating(r) /\ Placing(r)
      BY <1>9 DEF Write, Allocating, Placing
    <2>2. job[r] = [stage |-> "write", node |-> job[r].node, id |-> job[r].id, todo |-> job[r].todo]
      BY <2>1 DEF PInv, Shape
    <2>3. PICK rest : \/ job' = [job EXCEPT ![r] = [job[r] EXCEPT !.todo = rest]]
                      \/ job' = [job EXCEPT ![r] = AfterWrites(job[r].node, job[r].id)]
      BY <1>9 DEF Write, PInv, Shape
    <2>4. CASE job' = [job EXCEPT ![r] = [job[r] EXCEPT !.todo = rest]]
      <3> DEFINE j == [job[r] EXCEPT !.todo = rest]
      <3>1. /\ j.stage = "write" /\ j.node = job[r].node /\ j.id = job[r].id
            /\ j = [stage |-> "write", node |-> j.node, id |-> j.id, todo |-> j.todo]
        BY <2>2
      <3>2. job' = [job EXCEPT ![r] = j]
        BY <2>4
      <3> HIDE DEF j
      <3>. QED BY <2>1, <3>1, <3>2, JobStep
    <2>5. CASE job' = [job EXCEPT ![r] = AfterWrites(job[r].node, job[r].id)]
      <3> DEFINE j == AfterWrites(job[r].node, job[r].id)
      <3>1. \/ j = Idle
            \/ j.stage = "reserve" /\ j.node = job[r].node /\ j.id = job[r].id /\ j.id # Anonymous
        BY DEF AfterWrites
      <3>2. job' = [job EXCEPT ![r] = j]
        BY <2>5
      <3> HIDE DEF j
      <3>. QED BY <2>1, <3>1, <3>2, JobStep
    <2>. QED BY <2>3, <2>4, <2>5
  <1>10. ASSUME NEW r \in Request, Fail(r) PROVE PInv'
    <2>1. job' = [job EXCEPT ![r] = Idle] /\ value' = value /\ reserved' = reserved /\ shared' = shared /\ alive' \subseteq alive
      BY <1>10 DEF Fail, tree
    <2>. QED BY <2>1, JobStep
  <1>. QED
    BY <1>1, <1>2, <1>3, <1>4, <1>5, <1>6, <1>7, <1>8, <1>9, <1>10, CommitSaveStep, SaveStep, GetResourceStep, ReserveStep
       DEF Next

(* An identifier stands for one resource of a pool, unless two requests      *)
(* asked with it at once or a resource of it was deleted: get_resource looks *)
(* the identifier up first and reserves last, with no transaction around it. *)
THEOREM OnePerIdentifierAlways == Spec => []OnePerIdentifier
  <1>1. PInv => OnePerIdentifier
    BY DEF PInv
  <1>. QED BY <1>1, InitPInv, NextPInv, PTL DEF Spec

-----------------------------------------------------------------------------
(* Numbers, bits and containment.                                          *)

(* Every set of numbers that is not empty has a least one.                 *)
LEMMA LeastNumber ==
  ASSUME NEW S, S \subseteq Nat, S # {}
  PROVE  \E x \in S : \A y \in S : x <= y
  <1>1. IsWellFoundedOn(OpToRel(<, Nat), Nat)
    BY NatLessThanWellFounded
  <1>2. PICK x \in S : \A y \in S : ~ (<<y, x>> \in OpToRel(<, Nat))
    BY <1>1, WFMin, Zenon
  <1>3. \A y \in S : ~ (y < x)
    BY <1>2 DEF OpToRel
  <1>. QED BY <1>3

(* The bits of the network p are the first ones of c.                      *)
Matches(p, c) == \A i \in 1 .. p.len : p.bits[i] = c.bits[i]

LEMMA WidthNat == Width \in Nat /\ Width >= 1
  BY IpamAssumption

LEMMA ValueFields == ASSUME NEW v \in Value PROVE v.bits \in [1 .. Width -> {0, 1}] /\ v.len \in 0 .. Width /\ v.len \in Nat /\ v = [bits |-> v.bits, len |-> v.len]
  BY WidthNat DEF Value

LEMMA BitsSeq == ASSUME NEW b \in [1 .. Width -> {0, 1}] PROVE b \in Seq({0, 1}) /\ Len(b) = Width
  BY WidthNat

LEMMA HostBitsSeq ==
  ASSUME NEW v \in Value
  PROVE  HostBits(v) \in Seq({0, 1}) /\ Len(HostBits(v)) = v.len /\ \A i \in 1 .. v.len : HostBits(v)[i] = v.bits[i]
  <1>1. v.bits \in Seq({0, 1}) /\ Len(v.bits) = Width /\ v.len \in 0 .. Width
    BY ValueFields, BitsSeq
  <1> DEFINE b == v.bits
             l == v.len
  <1> HIDE DEF b, l
  <1>2. b \in Seq({0, 1}) /\ Len(b) = Width /\ l \in 0 .. Width
    BY <1>1 DEF b, l
  <1>3. SubSeq(b, 1, l) \in Seq({0, 1}) /\ Len(SubSeq(b, 1, l)) = l /\ \A i \in 1 .. l : SubSeq(b, 1, l)[i] = b[i]
    BY <1>2, WidthNat
  <1>. QED BY <1>3 DEF b, l, HostBits

(* IsPrefix, bit by bit.                                                   *)
LEMMA PrefixOf ==
  ASSUME NEW s \in Seq({0, 1}), NEW t \in Seq({0, 1})
  PROVE  IsPrefix(s, t) <=> Len(s) <= Len(t) /\ \A i \in 1 .. Len(s) : s[i] = t[i]
  <1>1. CASE Len(s) <= Len(t)
    <2>1. Len(SubSeq(s, 1, Len(s))) = Len(s) /\ Len(SubSeq(t, 1, Len(s))) = Len(s)
      BY <1>1
    <2>2. \A i \in 1 .. Len(s) : SubSeq(s, 1, Len(s))[i] = s[i] /\ SubSeq(t, 1, Len(s))[i] = t[i]
      BY <1>1
    <2>3. SubSeq(s, 1, Len(s)) \in Seq({0, 1}) /\ SubSeq(t, 1, Len(s)) \in Seq({0, 1})
      BY <1>1
    <2>4. ASSUME \A i \in 1 .. Len(s) : s[i] = t[i] PROVE SubSeq(s, 1, Len(s)) = SubSeq(t, 1, Len(s))
      BY <2>1, <2>2, <2>3, <2>4
    <2>. QED BY <1>1, <2>2, <2>4 DEF IsPrefix
  <1>2. CASE ~ (Len(s) <= Len(t))
    BY <1>2 DEF IsPrefix
  <1>. QED BY <1>1, <1>2

LEMMA HostPrefix ==
  ASSUME NEW p \in Value, NEW c \in Value
  PROVE  IsPrefix(HostBits(p), c.bits) <=> Matches(p, c)
  <1>1. HostBits(p) \in Seq({0, 1}) /\ c.bits \in Seq({0, 1}) /\ Len(c.bits) = Width
    BY HostBitsSeq, ValueFields, BitsSeq
  <1>2. Len(HostBits(p)) = p.len /\ p.len \in 0 .. Width /\ \A i \in 1 .. p.len : HostBits(p)[i] = p.bits[i]
    BY HostBitsSeq, ValueFields
  <1>. QED BY <1>1, <1>2, PrefixOf, WidthNat DEF Matches

(* Containment, bit by bit. *)
LEMMA WithinBits ==
  ASSUME NEW c \in Value, NEW p \in Value, NEW a
  PROVE  Within(c, p, a) <=> Matches(p, c) /\ IF a THEN c.len >= p.len ELSE c.len > p.len
  BY HostPrefix DEF Within

Net == {v \in Value : IsNetwork(v)}

(* A prefix is inside another one only if it is longer.                    *)
LEMMA WithinPrefix ==
  ASSUME NEW c, NEW p, NEW n \in Prefix
  PROVE  Within(c, p, n \in Address) <=> Within(c, p, FALSE)
  <1>1. n \notin Address
    BY IpamAssumption
  <1>. QED BY <1>1 DEF Within

LEMMA WithinTransitive ==
  ASSUME NEW c \in Value, NEW p \in Value, NEW q \in Value, NEW a, Within(c, p, a), Within(p, q, FALSE)
  PROVE  Within(c, q, a)
  <1>1. Matches(p, c) /\ Matches(q, p) /\ p.len > q.len /\ IF a THEN c.len >= p.len ELSE c.len > p.len
    BY WithinBits, HostPrefix DEF Within
  <1>2. p.len \in Nat /\ q.len \in Nat /\ c.len \in Nat
    BY ValueFields
  <1>3. Matches(q, c)
    BY <1>1, <1>2 DEF Matches
  <1>. QED BY <1>1, <1>2, <1>3, WithinBits

LEMMA SameFunction == ASSUME NEW S, NEW T, NEW f \in [S -> T], NEW g \in [S -> T], \A x \in S : f[x] = g[x] PROVE f = g
  OBVIOUS

LEMMA BitsEqual ==
  ASSUME NEW f \in [1 .. Width -> {0, 1}], NEW g \in [1 .. Width -> {0, 1}], \A i \in 1 .. Width : f[i] = g[i]
  PROVE f = g
  BY IpamAssumption

(* Networks of one length that match are the same, for want of host bits.  *)
LEMMA NetEqual ==
  ASSUME NEW p \in Net, NEW q \in Net, p.len = q.len, Matches(p, q)
  PROVE  p = q
  <1>1. p \in Value /\ q \in Value /\ IsNetwork(p) /\ IsNetwork(q)
    BY DEF Net
  <1>0. p.len \in 0 .. Width
    BY <1>1, ValueFields
  <1>2. \A i \in 1 .. Width : p.bits[i] = q.bits[i]
    BY <1>0, <1>1, WidthNat DEF Matches, IsNetwork
  <1>4. p.bits \in [1 .. Width -> {0, 1}] /\ q.bits \in [1 .. Width -> {0, 1}]
    BY <1>1, ValueFields
  <1> DEFINE b == p.bits
             c == q.bits
  <1>5. b \in [1 .. Width -> {0, 1}] /\ c \in [1 .. Width -> {0, 1}] /\ \A i \in 1 .. Width : b[i] = c[i]
    BY <1>2, <1>4
  <1> HIDE DEF b, c
  <1>6. b = c
    BY <1>5, BitsEqual
  <1>3. p.bits = q.bits
    BY <1>6 DEF b, c
  <1>. QED BY <1>1, <1>3, ValueFields

(* Two networks around the same value are nested. *)
LEMMA WithinNested ==
  ASSUME NEW c \in Value, NEW p \in Net, NEW q \in Net, NEW a, NEW b, Within(c, p, a), Within(c, q, b)
  PROVE  /\ p.len < q.len => Within(q, p, FALSE)
         /\ p.len = q.len => p = q
  <1>1. p \in Value /\ q \in Value
    BY DEF Net
  <1>2. Matches(p, c) /\ Matches(q, c)
    BY <1>1, WithinBits
  <1>0. p.len \in Nat /\ q.len \in Nat
    BY <1>1, ValueFields
  <1>3. p.len <= q.len => Matches(p, q)
    BY <1>0, <1>2 DEF Matches
  <1>4. p.len < q.len => Within(q, p, FALSE)
    <2>1. Within(q, p, FALSE) <=> Matches(p, q) /\ q.len > p.len
      BY <1>1, WithinBits
    <2>2. p.len < q.len => p.len <= q.len /\ q.len > p.len
      BY <1>0
    <2>. QED BY <1>3, <2>1, <2>2, Zenon
  <1>5. p.len = q.len => p = q
    BY <1>0, <1>3, NetEqual
  <1>. QED BY <1>4, <1>5

LEMMA WithinShorter ==
  ASSUME NEW c \in Value, NEW p \in Value, Within(c, p, FALSE)
  PROVE  p.len < c.len
  BY WithinBits, ValueFields

(* The list of possible prefixes of the query, and containment. *)
LEMMA PaddedBits ==
  ASSUME NEW v \in Value, NEW m \in 1 .. Width
  PROVE  Padded(SubSeq(v.bits, 1, m)) = [i \in 1 .. Width |-> IF i <= m THEN v.bits[i] ELSE 0]
  <1> DEFINE b == v.bits
  <1>1. b \in Seq({0, 1}) /\ Len(b) = Width
    BY ValueFields, BitsSeq
  <1> HIDE DEF b
  <1>2. Len(SubSeq(b, 1, m)) = m /\ \A i \in 1 .. m : SubSeq(b, 1, m)[i] = b[i]
    BY <1>1, WidthNat
  <1>3. Padded(SubSeq(b, 1, m)) = [i \in 1 .. Width |-> IF i <= m THEN b[i] ELSE 0]
    BY <1>2, WidthNat DEF Padded
  <1>. QED BY <1>3 DEF b

LEMMA MaybeWithin ==
  ASSUME NEW v \in Value, NEW p \in Value, NEW a, MaybeParent(p, v, a)
  PROVE  Within(v, p, a)
  <1>1. PICK m \in 1 .. (IF a THEN v.len ELSE v.len - 1) : p.bits = Padded(SubSeq(v.bits, 1, m)) /\ p.len <= m
    BY DEF MaybeParent
  <1>2. v.len \in 0 .. Width /\ p.len \in 0 .. Width
    BY ValueFields
  <1>3. m \in 1 .. Width /\ m <= v.len /\ (~ a => m < v.len)
    BY <1>1, <1>2, WidthNat
  <1>4. \A i \in 1 .. m : p.bits[i] = v.bits[i]
    <2>1. p.bits = [i \in 1 .. Width |-> IF i <= m THEN v.bits[i] ELSE 0]
      BY <1>1, <1>3, PaddedBits
    <2>. QED BY <2>1, <1>3, WidthNat
  <1>5. Matches(p, v)
    <2>1. \A i \in 1 .. p.len : i \in 1 .. m
      BY <1>1, <1>2, <1>3, WidthNat
    <2>. QED BY <1>4, <2>1 DEF Matches
  <1>. QED BY <1>1, <1>2, <1>3, <1>5, WithinBits

(* The list misses only the prefix of length zero.                         *)
LEMMA WithinMaybe ==
  ASSUME NEW v \in Value, NEW p \in Net, NEW a, Within(v, p, a), p.len # 0
  PROVE  MaybeParent(p, v, a)
  <1>1. p \in Value /\ IsNetwork(p)
    BY DEF Net
  <1>2. v.len \in 0 .. Width /\ p.len \in 0 .. Width /\ p.bits \in [1 .. Width -> {0, 1}]
    BY <1>1, ValueFields
  <1>3. Matches(p, v) /\ IF a THEN v.len >= p.len ELSE v.len > p.len
    BY <1>1, WithinBits
  <1>4. p.len \in 1 .. Width /\ p.len \in 1 .. (IF a THEN v.len ELSE v.len - 1)
    BY <1>2, <1>3, WidthNat
  <1>5. \A i \in 1 .. Width : p.bits[i] = IF i <= p.len THEN v.bits[i] ELSE 0
    BY <1>1, <1>2, <1>3, WidthNat DEF Matches, IsNetwork
  <1>6. p.bits = [i \in 1 .. Width |-> IF i <= p.len THEN v.bits[i] ELSE 0]
    BY <1>2, <1>5
  <1>7. p.bits = Padded(SubSeq(v.bits, 1, p.len))
    BY <1>4, <1>6, PaddedBits
  <1>. QED BY <1>2, <1>4, <1>7 DEF MaybeParent

-----------------------------------------------------------------------------
(* The prefixes around a node, when one node comes, goes or moves.         *)

(* The live prefixes around a node and the most specific of them, when the *)
(* live nodes are A and their values val.                                  *)
AroundIn(A, val, n) == {p \in (A \cap Prefix) \ {n} : Within(val[n], val[p], n \in Address)}
ClosestIn(A, val, n) ==
  {p \in AroundIn(A, val, n) : \A q \in AroundIn(A, val, n) : val[q].len <= val[p].len}

Valued(A, val) == A \subseteq Node /\ \A m \in A : val[m] \in Value /\ (m \in Prefix => val[m] \in Net)

LEMMA AroundFacts ==
  ASSUME NEW A, NEW val, Valued(A, val), NEW n \in A, NEW p \in AroundIn(A, val, n)
  PROVE  /\ p \in A /\ p \in Prefix /\ p # n /\ val[p] \in Net /\ val[p] \in Value /\ val[p].len \in Nat
         /\ val[n] \in Value /\ Within(val[n], val[p], n \in Address)
  BY ValueFields DEF AroundIn, Valued, Net

(* The most specific prefix around a node is one, while no two live        *)
(* prefixes have one value.                                                *)
LEMMA ClosestUnique ==
  ASSUME NEW A, NEW val, Valued(A, val), ~ Doubled(A, val), NEW n \in A,
         NEW p \in ClosestIn(A, val, n), NEW q \in ClosestIn(A, val, n)
  PROVE  p = q
  <1>1. p \in AroundIn(A, val, n) /\ q \in AroundIn(A, val, n) /\ val[p].len <= val[q].len /\ val[q].len <= val[p].len
    BY DEF ClosestIn
  <1>2. val[p].len = val[q].len
    BY <1>1, AroundFacts
  <1>3. val[p] = val[q]
    BY <1>1, <1>2, AroundFacts, WithinNested
  <1>. QED BY <1>1, <1>3, AroundFacts DEF Doubled

(* A node inside any prefix has a most specific one.                       *)
LEMMA ClosestExists ==
  ASSUME NEW A, NEW val, Valued(A, val), NEW n \in A, AroundIn(A, val, n) # {}
  PROVE  ClosestIn(A, val, n) # {}
  <1> DEFINE D == AroundIn(A, val, n)
             S == {Width - val[p].len : p \in D}
  <1>1. \A p \in D : val[p].len \in 0 .. Width
    BY AroundFacts, ValueFields
  <1> HIDE DEF D
  <1>2. S \subseteq Nat /\ S # {}
    BY <1>1, WidthNat DEF D
  <1>3. PICK x \in S : \A y \in S : x <= y
    BY <1>2, LeastNumber
  <1>4. PICK p \in D : x = Width - val[p].len
    OBVIOUS
  <1>5. \A q \in D : Width - val[p].len <= Width - val[q].len
    BY <1>3, <1>4
  <1>6. \A q \in D : val[q].len <= val[p].len
    BY <1>1, <1>5, WidthNat
  <1>. QED BY <1>4, <1>6 DEF ClosestIn, D

(* What is around a prefix is around all that it contains, and the rest    *)
(* that is around that lies inside the prefix.                             *)
LEMMA AroundNested ==
  ASSUME NEW A, NEW val, Valued(A, val), ~ Doubled(A, val), NEW c \in A, NEW n \in AroundIn(A, val, c)
  PROVE  /\ AroundIn(A, val, n) \subseteq AroundIn(A, val, c) \ {n}
         /\ \A p \in AroundIn(A, val, c) : p # n /\ val[p].len <= val[n].len => p \in AroundIn(A, val, n)
  <1>0. n \in A /\ n \in Prefix /\ val[n] \in Net /\ val[n] \in Value /\ val[c] \in Value /\ Within(val[c], val[n], c \in Address)
    BY AroundFacts
  <1>1. ASSUME NEW p \in AroundIn(A, val, n) PROVE p \in AroundIn(A, val, c) \ {n}
    <2>1. p \in A /\ p \in Prefix /\ p # n /\ val[p] \in Value /\ Within(val[n], val[p], FALSE)
      BY <1>0, AroundFacts, WithinPrefix
    <2>2. Within(val[c], val[p], c \in Address)
      BY <1>0, <2>1, WithinTransitive
    <2>3. p # c
      <3>1. SUFFICES ASSUME p = c PROVE FALSE
        OBVIOUS
      <3>2. Within(val[c], val[n], FALSE)
        BY <1>0, <2>1, <3>1, WithinPrefix
      <3>3. val[n].len < val[c].len /\ val[c].len < val[n].len
        BY <1>0, <2>1, <3>1, <3>2, WithinShorter
      <3>. QED BY <3>3, <1>0, ValueFields
    <2>. QED BY <2>1, <2>2, <2>3 DEF AroundIn
  <1>2. ASSUME NEW p \in AroundIn(A, val, c), p # n, val[p].len <= val[n].len PROVE p \in AroundIn(A, val, n)
    <2>1. p \in A /\ p \in Prefix /\ p # c /\ val[p] \in Net /\ val[p].len \in Nat /\ Within(val[c], val[p], c \in Address)
      BY AroundFacts
    <2>2. val[p] # val[n]
      BY <1>0, <1>2, <2>1 DEF Doubled
    <2>3. val[n].len \in Nat
      BY <1>0, ValueFields
    <2>4. /\ val[p].len < val[n].len => Within(val[n], val[p], FALSE)
          /\ val[p].len = val[n].len => val[p] = val[n]
      BY <1>0, <2>1, WithinNested
    <2>6. val[p].len < val[n].len
      BY <1>2, <2>1, <2>2, <2>3, <2>4
    <2>5. Within(val[n], val[p], n \in Address)
      BY <1>0, <2>4, <2>6, WithinPrefix
    <2>. QED BY <1>2, <2>1, <2>5 DEF AroundIn
  <1>. QED BY <1>1, <1>2

(* One node n comes, goes or moves. *)
OnlyMoves(n, A, val, B, w) == \A m \in Node \ {n} : (m \in A <=> m \in B) /\ (m \in A => w[m] = val[m])

(* The others are around a node as before.                                 *)
LEMMA AroundOthers ==
  ASSUME NEW A, NEW val, NEW B, NEW w, NEW n, A \subseteq Node, B \subseteq Node, OnlyMoves(n, A, val, B, w), NEW d \in A, d # n
  PROVE  AroundIn(B, w, d) \ {n} = AroundIn(A, val, d) \ {n} /\ d \in B /\ w[d] = val[d]
         /\ \A p \in AroundIn(A, val, d) \ {n} : w[p] = val[p]
  <1>1. d \in Node /\ d \in B /\ w[d] = val[d]
    BY DEF OnlyMoves
  <1>2. \A p \in Node \ {n} : p \in AroundIn(B, w, d) <=> p \in AroundIn(A, val, d)
    BY <1>1 DEF OnlyMoves, AroundIn
  <1>3. AroundIn(B, w, d) \subseteq Node /\ AroundIn(A, val, d) \subseteq Node
    BY DEF AroundIn
  <1>4. \A p \in AroundIn(A, val, d) \ {n} : w[p] = val[p]
    BY <1>3 DEF OnlyMoves, AroundIn
  <1>. QED BY <1>1, <1>2, <1>3, <1>4

(* The most specific of the others, when n is not it. *)
LEMMA ClosestOthers ==
  ASSUME NEW A, NEW val, Valued(A, val), NEW d \in A, NEW n, n \notin ClosestIn(A, val, d)
  PROVE  ClosestIn(A, val, d) =
           {p \in AroundIn(A, val, d) \ {n} : \A q \in AroundIn(A, val, d) \ {n} : val[q].len <= val[p].len}
  <1> DEFINE D == AroundIn(A, val, d)
  <1>1. \A p \in D : val[p].len \in Nat
    BY AroundFacts
  <1>2. n \notin D \/ \E q \in D : ~ (val[q].len <= val[n].len)
    BY DEF ClosestIn
  <1>3. ASSUME NEW p \in D \ {n}, \A q \in D \ {n} : val[q].len <= val[p].len
        PROVE  \A q \in D : val[q].len <= val[p].len
    <2>1. CASE n \notin D
      BY <2>1, <1>3
    <2>2. ASSUME NEW q \in D, ~ (val[q].len <= val[n].len), n \in D PROVE val[n].len <= val[p].len
      <3>1. q # n
        BY <2>2, <1>1
      <3>2. val[q].len <= val[p].len
        BY <3>1, <1>3, <2>2
      <3>. QED BY <3>2, <2>2, <1>1, <1>3
    <2>. QED BY <2>1, <2>2, <1>2, <1>3
  <1>. QED BY <1>3 DEF ClosestIn

(* A node that n neither was nor is closest to keeps its closest prefix.   *)
LEMMA ClosestUnaffected ==
  ASSUME NEW A, NEW val, NEW B, NEW w, NEW n, Valued(A, val), Valued(B, w), OnlyMoves(n, A, val, B, w), NEW d \in A, d # n,
         n \notin ClosestIn(A, val, d), n \notin ClosestIn(B, w, d)
  PROVE  ClosestIn(B, w, d) = ClosestIn(A, val, d)
  <1>1. AroundIn(B, w, d) \ {n} = AroundIn(A, val, d) \ {n} /\ d \in B /\ \A p \in AroundIn(A, val, d) \ {n} : w[p] = val[p]
    BY AroundOthers DEF Valued
  <1>2. ClosestIn(A, val, d) = {p \in AroundIn(A, val, d) \ {n} : \A q \in AroundIn(A, val, d) \ {n} : val[q].len <= val[p].len}
    BY ClosestOthers
  <1>3. ClosestIn(B, w, d) = {p \in AroundIn(B, w, d) \ {n} : \A q \in AroundIn(B, w, d) \ {n} : w[q].len <= w[p].len}
    BY <1>1, ClosestOthers
  <1>. QED BY <1>1, <1>2, <1>3

(* A node that n was closest to, and is no more, is next to what n was in. *)
LEMMA ClosestLost ==
  ASSUME NEW A, NEW val, NEW B, NEW w, NEW n, Valued(A, val), Valued(B, w), ~ Doubled(A, val), OnlyMoves(n, A, val, B, w),
         NEW c \in A, n \in ClosestIn(A, val, c), n \notin ClosestIn(B, w, c)
  PROVE  ClosestIn(B, w, c) = ClosestIn(A, val, n)
  <1>0. n \in AroundIn(A, val, c) /\ n # c /\ \A q \in AroundIn(A, val, c) : val[q].len <= val[n].len
    BY AroundFacts DEF ClosestIn
  <1>1. AroundIn(B, w, c) \ {n} = AroundIn(A, val, c) \ {n} /\ c \in B /\ \A p \in AroundIn(A, val, c) \ {n} : w[p] = val[p]
    BY <1>0, AroundOthers DEF Valued
  <1>2. AroundIn(A, val, n) = AroundIn(A, val, c) \ {n}
    BY <1>0, AroundNested
  <1>3. ClosestIn(B, w, c) = {p \in AroundIn(B, w, c) \ {n} : \A q \in AroundIn(B, w, c) \ {n} : w[q].len <= w[p].len}
    BY <1>1, ClosestOthers
  <1>. QED BY <1>1, <1>2, <1>3 DEF ClosestIn

(* What the query calls the new parents and the new children of n. *)
ParentsIn(B, w, n) ==
  LET maybe == {p \in (B \cap Prefix) \ {n} : MaybeParent(w[p], w[n], n \in Address)}
  IN  {p \in maybe : \A q \in maybe : w[q].len <= w[p].len}

ChildrenIn(B, w, n) ==
  LET maybe == {c \in B \ {n} : n \in Prefix /\ Within(w[c], w[n], c \in Address)}
  IN  {c \in maybe : ~ \E p \in (maybe \cap Prefix) \ {c} : Within(w[c], w[p], c \in Address)}

(* The new parents of the query are the most specific prefix, unless that  *)
(* has length zero.                                                        *)
LEMMA ParentsClosest ==
  ASSUME NEW B, NEW w, Valued(B, w), ~ Doubled(B, w), NEW n \in B
  PROVE  \/ ParentsIn(B, w, n) = ClosestIn(B, w, n)
         \/ ParentsIn(B, w, n) = {} /\ \A p \in ClosestIn(B, w, n) : w[p].len = 0
  <1> DEFINE maybe == {p \in (B \cap Prefix) \ {n} : MaybeParent(w[p], w[n], n \in Address)}
             D == AroundIn(B, w, n)
  <1>1. maybe \subseteq D
    BY MaybeWithin DEF AroundIn, Valued, Net
  <1>2. \A p \in D : w[p].len # 0 => p \in maybe
    BY AroundFacts, WithinMaybe
  <1>3. \A p \in D : w[p].len \in Nat
    BY AroundFacts
  <1> HIDE DEF maybe
  <1>4. ParentsIn(B, w, n) = {p \in maybe : \A q \in maybe : w[q].len <= w[p].len}
    BY DEF ParentsIn, maybe
  <1>5. ClosestIn(B, w, n) = {p \in D : \A q \in D : w[q].len <= w[p].len}
    BY DEF ClosestIn
  <1>6. \A p, q \in ClosestIn(B, w, n) : p = q
    BY ClosestUnique
  <1>7. D # {} => ClosestIn(B, w, n) # {}
    BY ClosestExists
  <1> HIDE DEF D
  <1>8. ASSUME NEW p \in ClosestIn(B, w, n), w[p].len # 0 PROVE ParentsIn(B, w, n) = ClosestIn(B, w, n)
    <2>1. p \in maybe /\ p \in ParentsIn(B, w, n)
      BY <1>1, <1>2, <1>4, <1>5, <1>8
    <2>2. ASSUME NEW q \in ParentsIn(B, w, n) PROVE q \in ClosestIn(B, w, n)
      <3>1. q \in D /\ w[p].len <= w[q].len
        BY <1>1, <1>4, <2>1
      <3>2. \A x \in D : w[x].len <= w[q].len
        BY <3>1, <1>3, <1>5
      <3>. QED BY <3>1, <3>2, <1>5
    <2>. QED BY <2>1, <2>2, <1>6
  <1>9. ASSUME \A p \in ClosestIn(B, w, n) : w[p].len = 0
        PROVE  ParentsIn(B, w, n) = ClosestIn(B, w, n) \/ ParentsIn(B, w, n) = {}
    <2>1. CASE ParentsIn(B, w, n) = {}
      BY <2>1
    <2>2. ASSUME NEW p \in ParentsIn(B, w, n) PROVE ParentsIn(B, w, n) = ClosestIn(B, w, n)
      <3>1. p \in maybe /\ p \in D
        BY <1>1, <1>4
      <3>2. PICK z \in ClosestIn(B, w, n) : TRUE
        BY <3>1, <1>7
      <3>3. \A q \in D : w[q].len = 0
        BY <3>2, <1>9, <1>5, <1>3
      <3>4. ClosestIn(B, w, n) = D
        BY <3>3, <1>5, <1>3
      <3>. QED BY <3>1, <3>4, <1>1, <1>4, <1>6
    <2>. QED BY <2>1, <2>2
  <1>. QED BY <1>8, <1>9

(* The new children of the query are the nodes that n is closest to.       *)
LEMMA ChildrenClosest ==
  ASSUME NEW B, NEW w, Valued(B, w), ~ Doubled(B, w), NEW n \in B, NEW c \in B, c # n
  PROVE  c \in ChildrenIn(B, w, n) <=> n \in ClosestIn(B, w, c)
  <1> DEFINE maybe == {x \in B \ {n} : n \in Prefix /\ Within(w[x], w[n], x \in Address)}
  <1>1. c \in ChildrenIn(B, w, n) <=> c \in maybe /\ ~ \E p \in (maybe \cap Prefix) \ {c} : Within(w[c], w[p], c \in Address)
    BY DEF ChildrenIn
  <1>2. c \in maybe <=> n \in AroundIn(B, w, c)
    BY DEF AroundIn
  <1>3. ASSUME n \in AroundIn(B, w, c), NEW p \in (maybe \cap Prefix) \ {c}, Within(w[c], w[p], c \in Address)
        PROVE  n \notin ClosestIn(B, w, c)
    <2>1. p \in AroundIn(B, w, c)
      BY <1>3 DEF AroundIn
    <2>3. Within(w[p], w[n], FALSE) /\ w[p] \in Value /\ w[n] \in Value
      BY <1>3, WithinPrefix DEF Valued
    <2>4. w[n].len < w[p].len /\ w[n].len \in Nat /\ w[p].len \in Nat
      BY <2>3, WithinShorter, ValueFields
    <2>. QED BY <2>1, <2>4 DEF ClosestIn
  <1>4. ASSUME n \in AroundIn(B, w, c), n \notin ClosestIn(B, w, c)
        PROVE  \E p \in (maybe \cap Prefix) \ {c} : Within(w[c], w[p], c \in Address)
    <2>1. PICK q \in AroundIn(B, w, c) : ~ (w[q].len <= w[n].len)
      BY <1>4 DEF ClosestIn
    <2>2. w[n].len \in Nat /\ w[q].len \in Nat /\ w[c] \in Value /\ w[n] \in Net /\ w[q] \in Net
          /\ Within(w[c], w[n], c \in Address) /\ Within(w[c], w[q], c \in Address) /\ q \in Prefix /\ q \in B /\ q # c /\ n \in Prefix
      BY <1>4, AroundFacts
    <2>3. w[n].len < w[q].len /\ q # n
      BY <2>1, <2>2
    <2>4. Within(w[q], w[n], FALSE)
      BY <2>2, <2>3, WithinNested
    <2>5. Within(w[q], w[n], q \in Address)
      BY <2>2, <2>4, WithinPrefix
    <2>. QED BY <2>2, <2>3, <2>5
  <1>5. n \in ClosestIn(B, w, c) => n \in AroundIn(B, w, c)
    BY DEF ClosestIn
  <1>. QED BY <1>1, <1>2, <1>3, <1>4, <1>5

-----------------------------------------------------------------------------
(* Reconciliation repairs the tree.                                        *)

(* A node has the parent that containment asks for. *)
PlacedIn(A, val, par, n) ==
  \/ par[n] = ClosestIn(A, val, n)
  \/ par[n] = {} /\ \A p \in ClosestIn(A, val, n) : val[p].len = 0

(* The tree, up to the nodes E, that have not been placed, and the         *)
(* children of U, which have not all been moved there.                     *)
TreeIn(A, val, par, E, U) ==
  /\ ~ Doubled(A, val)
  /\ \A n \in Node \ A : par[n] = {}
  /\ \A n \in A : par[n] \subseteq AroundIn(A, val, n)
  /\ \A n \in A : \A p, q \in par[n] : p = q
  /\ \A n \in A : n \in E \/ PlacedIn(A, val, par, n) \/ \E u \in U : ClosestIn(A, val, n) = {u}

(* One row is the first row.                                               *)
LEMMA FirstOfOne ==
  ASSUME NEW S, \A p, q \in S : p = q, NEW x \in FirstOf(S)
  PROVE  x = S
  BY DEF FirstOf

LEMMA ParentsOne ==
  ASSUME NEW B, NEW w, Valued(B, w), ~ Doubled(B, w), NEW n \in B
  PROVE  ParentsIn(B, w, n) \subseteq AroundIn(B, w, n) /\ \A p, q \in ParentsIn(B, w, n) : p = q
  <1>1. ParentsIn(B, w, n) \subseteq ClosestIn(B, w, n)
    BY ParentsClosest
  <1>2. ClosestIn(B, w, n) \subseteq AroundIn(B, w, n)
    BY DEF ClosestIn
  <1>. QED BY <1>1, <1>2, ClosestUnique

(* The closest is one. *)
LEMMA ClosestOne ==
  ASSUME NEW A, NEW val, Valued(A, val), ~ Doubled(A, val), NEW c \in A, NEW n
  PROVE  n \in ClosestIn(A, val, c) <=> ClosestIn(A, val, c) = {n}
  BY ClosestUnique

(* A node that does not gain or lose n keeps its place. *)
LEMMA KeepsPlace ==
  ASSUME NEW A, NEW val, NEW par, NEW E, NEW U, NEW B, NEW w, NEW par2, NEW n,
         TreeIn(A, val, par, E, U), Valued(A, val), Valued(B, w), ~ Doubled(B, w), OnlyMoves(n, A, val, B, w),
         n \notin U, NEW d \in A, d # n, n \notin par[d], n \notin ClosestIn(B, w, d), par2[d] = par[d]
  PROVE  d \in E \/ PlacedIn(B, w, par2, d) \/ \E u \in U : ClosestIn(B, w, d) = {u}
  <1>1. CASE n \notin ClosestIn(A, val, d)
    <2>1. ClosestIn(B, w, d) = ClosestIn(A, val, d)
      BY <1>1, ClosestUnaffected
    <2>2. \A p \in ClosestIn(A, val, d) : w[p] = val[p]
      <3>1. \A p \in ClosestIn(A, val, d) : p \in AroundIn(A, val, d) \ {n}
        BY <1>1 DEF ClosestIn
      <3>. QED BY <3>1, AroundOthers DEF Valued
    <2>3. PlacedIn(A, val, par, d) => PlacedIn(B, w, par2, d)
      BY <2>1, <2>2 DEF PlacedIn
    <2>. QED BY <2>1, <2>3 DEF TreeIn
  <1>2. CASE n \in ClosestIn(A, val, d)
    <2>1. ClosestIn(A, val, d) = {n}
      BY <1>2, ClosestOne DEF TreeIn
    <2>2. ~ \E u \in U : ClosestIn(A, val, d) = {u}
      BY <2>1
    <2>3. d \in E \/ (par[d] = {} /\ val[n].len = 0)
      BY <2>1, <2>2 DEF TreeIn, PlacedIn
    <2>4. ASSUME par[d] = {}, val[n].len = 0 PROVE PlacedIn(B, w, par2, d)
      <3>1. AroundIn(A, val, n) = {}
        <4>1. SUFFICES ASSUME NEW p \in AroundIn(A, val, n) PROVE FALSE
          OBVIOUS
        <4>2. n \in A /\ n \in Prefix
          BY <1>2, AroundFacts DEF ClosestIn
        <4>3. Within(val[n], val[p], FALSE) /\ val[n] \in Value /\ val[p] \in Value /\ val[p].len \in Nat
          BY <4>1, <4>2, AroundFacts, WithinPrefix
        <4>4. val[p].len < val[n].len
          BY <4>3, WithinShorter
        <4>. QED BY <4>3, <4>4, <2>4
      <3>2. ClosestIn(B, w, d) = ClosestIn(A, val, n)
        BY <1>2, ClosestLost DEF TreeIn
      <3>3. ClosestIn(A, val, n) = {}
        BY <3>1 DEF ClosestIn
      <3>. QED BY <3>2, <3>3, <2>4 DEF PlacedIn
    <2>. QED BY <2>3, <2>4
  <1>. QED BY <1>1, <1>2

(* A node that loses n, which takes it to the parent of n, is at its place *)
(* if n was.                                                               *)
LEMMA LosesPlace ==
  ASSUME NEW A, NEW val, NEW par, NEW E, NEW U, NEW B, NEW w, NEW par2, NEW n,
         TreeIn(A, val, par, E, U), Valued(A, val), Valued(B, w), ~ Doubled(B, w), OnlyMoves(n, A, val, B, w),
         E \subseteq U, n \notin U, NEW c \in A, n \in par[c], n \notin ClosestIn(B, w, c), par2[c] = par[n]
  PROVE  /\ par2[c] \subseteq AroundIn(B, w, c) \ {n}
         /\ \A p, q \in par2[c] : p = q
         /\ c \in E \/ PlacedIn(B, w, par2, c) \/ \E u \in U : ClosestIn(B, w, c) = {u}
  <1>1. n \in AroundIn(A, val, c) /\ n \in A /\ n # c
    BY AroundFacts DEF TreeIn
  <1>2. AroundIn(B, w, c) \ {n} = AroundIn(A, val, c) \ {n} /\ \A p \in AroundIn(A, val, c) \ {n} : w[p] = val[p]
    BY <1>1, AroundOthers DEF Valued
  <1>3. AroundIn(A, val, n) \subseteq AroundIn(A, val, c) \ {n}
    BY <1>1, AroundNested DEF TreeIn
  <1>4. par2[c] \subseteq AroundIn(B, w, c) \ {n} /\ \A p, q \in par2[c] : p = q
    BY <1>1, <1>2, <1>3 DEF TreeIn
  <1>5. par[c] = {n}
    BY DEF TreeIn
  <1>6. CASE n \in ClosestIn(A, val, c)
    <2>1. ClosestIn(B, w, c) = ClosestIn(A, val, n)
      BY <1>6, ClosestLost DEF TreeIn
    <2>2. \A p \in ClosestIn(A, val, n) : w[p] = val[p]
      BY <1>2, <1>3 DEF ClosestIn
    <2>3. PlacedIn(A, val, par, n) => PlacedIn(B, w, par2, c)
      BY <2>1, <2>2 DEF PlacedIn
    <2>. QED BY <1>1, <1>4, <2>1, <2>3 DEF TreeIn
  <1>7. CASE n \notin ClosestIn(A, val, c)
    <2>1. ClosestIn(B, w, c) = ClosestIn(A, val, c)
      BY <1>1, <1>7, ClosestUnaffected
    <2>2. c \in E \/ \E u \in U : ClosestIn(A, val, c) = {u}
      BY <1>5, <1>7 DEF TreeIn, PlacedIn
    <2>. QED BY <1>4, <2>1, <2>2
  <1>. QED BY <1>6, <1>7

(* A node n comes or moves, and all is written that the query asks for. *)
LEMMA Reconciles ==
  ASSUME NEW A, NEW val, NEW par, NEW E, NEW U, NEW B, NEW w, NEW par2, NEW n \in Node,
         TreeIn(A, val, par, E, U), Valued(A, val), Valued(B, w), ~ Doubled(B, w), OnlyMoves(n, A, val, B, w),
         E \subseteq U, n \notin U, n \in B,
         par2[n] = ParentsIn(B, w, n),
         \A m \in Node \ {n} :
           par2[m] = IF m \in ChildrenIn(B, w, n) THEN {n}
                     ELSE IF m \in A /\ n \in par[m] THEN par[n] ELSE par[m]
  PROVE  TreeIn(B, w, par2, E, U)
  <1>0. n \in B /\ A \subseteq Node /\ B \subseteq Node
    BY DEF Valued
  <1>1. \A m \in ChildrenIn(B, w, n) : m \in B /\ m # n
    BY DEF ChildrenIn
  <1>2. ASSUME NEW m \in Node \ B PROVE par2[m] = {}
    <2>1. m # n /\ m \notin A /\ m \notin ChildrenIn(B, w, n)
      BY <1>1 DEF OnlyMoves
    <2>2. par2[m] = par[m]
      BY <2>1
    <2>. QED BY <2>1, <2>2 DEF TreeIn
  <1>3. PlacedIn(B, w, par2, n) /\ par2[n] \subseteq AroundIn(B, w, n) /\ \A p, q \in par2[n] : p = q
    BY <1>0, ParentsClosest, ParentsOne DEF PlacedIn
  <1>4. ASSUME NEW m \in B, m # n
        PROVE  /\ par2[m] \subseteq AroundIn(B, w, m) /\ \A p, q \in par2[m] : p = q
               /\ m \in E \/ PlacedIn(B, w, par2, m) \/ \E u \in U : ClosestIn(B, w, m) = {u}
    <2>0. m \in A /\ m \in Node
      BY <1>0, <1>4 DEF OnlyMoves
    <2>1. m \in ChildrenIn(B, w, n) <=> n \in ClosestIn(B, w, m)
      BY <1>0, <1>4, ChildrenClosest
    <2>2. CASE n \in ClosestIn(B, w, m)
      <3>1. par2[m] = {n}
        BY <1>4, <2>0, <2>1, <2>2
      <3>2. ClosestIn(B, w, m) = {n} /\ n \in AroundIn(B, w, m)
        BY <2>2, <1>4, ClosestOne DEF ClosestIn
      <3>3. par2[m] \subseteq AroundIn(B, w, m) /\ \A p, q \in par2[m] : p = q
        BY <3>1, <3>2
      <3>4. PlacedIn(B, w, par2, m)
        BY <3>1, <3>2 DEF PlacedIn
      <3>. QED BY <3>3, <3>4
    <2>3. CASE n \notin ClosestIn(B, w, m) /\ n \in par[m]
      <3>1. par2[m] = par[n]
        BY <1>4, <2>0, <2>1, <2>3
      <3>. QED BY <3>1, <2>0, <2>3, LosesPlace
    <2>4. CASE n \notin ClosestIn(B, w, m) /\ n \notin par[m]
      <3>1. par2[m] = par[m]
        BY <1>4, <2>0, <2>1, <2>4
      <3>2. par[m] \subseteq AroundIn(A, val, m) \ {n} /\ \A p, q \in par[m] : p = q
        BY <2>0, <2>4 DEF TreeIn
      <3>3. AroundIn(B, w, m) \ {n} = AroundIn(A, val, m) \ {n}
        BY <1>0, <1>4, <2>0, AroundOthers
      <3>4. m \in E \/ PlacedIn(B, w, par2, m) \/ \E u \in U : ClosestIn(B, w, m) = {u}
        BY <3>1, <2>0, <2>4, <1>4, KeepsPlace
      <3>. QED BY <3>1, <3>2, <3>3, <3>4
    <2>. QED BY <2>2, <2>3, <2>4
  <1>. QED BY <1>2, <1>3, <1>4 DEF TreeIn

(* A prefix n goes, and its children go to its parent. *)
LEMMA Removes ==
  ASSUME NEW A, NEW val, NEW par, NEW E, NEW U, NEW par2, NEW n \in Node,
         TreeIn(A, val, par, E, U), Valued(A, val), E \subseteq U, n \notin U, par2[n] = {},
         \A m \in Node \ {n} : par2[m] = IF m \in A /\ n \in par[m] THEN par[n] ELSE par[m]
  PROVE  TreeIn(A \ {n}, val, par2, E, U)
  <1> DEFINE B == A \ {n}
  <1>1. Valued(B, val) /\ ~ Doubled(B, val) /\ OnlyMoves(n, A, val, B, val) /\ A \subseteq Node
    BY DEF Valued, Doubled, OnlyMoves, TreeIn
  <1>2. n \notin B
    OBVIOUS
  <1>3. \A m \in B : m \in A /\ m # n /\ m \in Node
    BY <1>1
  <1>4. \A m \in Node \ B : m = n \/ m \notin A
    OBVIOUS
  <1> HIDE DEF B
  <1>5. \A m \in Node \ B : par2[m] = {}
    BY <1>4 DEF TreeIn
  <1>6. ASSUME NEW m \in B
        PROVE  /\ par2[m] \subseteq AroundIn(B, val, m) /\ \A p, q \in par2[m] : p = q
               /\ m \in E \/ PlacedIn(B, val, par2, m) \/ \E u \in U : ClosestIn(B, val, m) = {u}
    <2>0. m \in A /\ m # n /\ m \in Node
      BY <1>3
    <2>1. n \notin ClosestIn(B, val, m)
      BY <1>2 DEF ClosestIn, AroundIn
    <2>2. CASE n \in par[m]
      <3>1. par2[m] = par[n]
        BY <2>0, <2>2
      <3>. QED BY <3>1, <2>0, <2>1, <2>2, <1>1, LosesPlace
    <2>3. CASE n \notin par[m]
      <3>1. par2[m] = par[m]
        BY <2>0, <2>3
      <3>2. par[m] \subseteq AroundIn(A, val, m) \ {n} /\ \A p, q \in par[m] : p = q
        BY <2>0, <2>3 DEF TreeIn
      <3>3. AroundIn(B, val, m) \ {n} = AroundIn(A, val, m) \ {n}
        BY <1>1, <2>0, AroundOthers DEF Valued
      <3>4. m \in E \/ PlacedIn(B, val, par2, m) \/ \E u \in U : ClosestIn(B, val, m) = {u}
        BY <3>1, <2>0, <2>1, <2>3, <1>1, KeepsPlace
      <3>. QED BY <3>1, <3>2, <3>3, <3>4
    <2>. QED BY <2>2, <2>3
  <1>7. TreeIn(B, val, par2, E, U)
    BY <1>1, <1>5, <1>6 DEF TreeIn
  <1>. QED BY <1>7 DEF B

(* A node n comes that has no place yet. *)
LEMMA Appears ==
  ASSUME NEW A, NEW val, NEW par, NEW E, NEW U, NEW w, NEW n \in Node, n \notin A,
         TreeIn(A, val, par, E, U), Valued(A, val), Valued(A \cup {n}, w), ~ Doubled(A \cup {n}, w),
         OnlyMoves(n, A, val, A \cup {n}, w)
  PROVE  TreeIn(A \cup {n}, w, par, E \cup {n}, U \cup {n})
  <1> DEFINE B == A \cup {n}
  <1>1. n \in B /\ A \subseteq B /\ \A m \in B : m = n \/ (m # n /\ m \in A)
    OBVIOUS
  <1>2. Valued(B, w) /\ ~ Doubled(B, w) /\ OnlyMoves(n, A, val, B, w) /\ A \subseteq Node /\ B \subseteq Node
    BY DEF Valued
  <1> HIDE DEF B
  <1>3. par[n] = {} /\ \A m \in Node \ B : par[m] = {}
    BY <1>1 DEF TreeIn
  <1>4. ASSUME NEW m \in A, m # n
        PROVE  /\ par[m] \subseteq AroundIn(B, w, m) /\ \A p, q \in par[m] : p = q
               /\ m \in E \cup {n} \/ PlacedIn(B, w, par, m) \/ \E u \in U \cup {n} : ClosestIn(B, w, m) = {u}
    <2>1. n \notin AroundIn(A, val, m) /\ n \notin ClosestIn(A, val, m)
      BY DEF ClosestIn, AroundIn
    <2>2. AroundIn(B, w, m) \ {n} = AroundIn(A, val, m) \ {n} /\ m \in B /\ \A p \in AroundIn(A, val, m) \ {n} : w[p] = val[p]
      BY <1>2, <1>4, AroundOthers
    <2>3. par[m] \subseteq AroundIn(B, w, m) /\ \A p, q \in par[m] : p = q
      BY <2>1, <2>2 DEF TreeIn
    <2>4. CASE n \in ClosestIn(B, w, m)
      BY <2>2, <2>3, <2>4, <1>2, ClosestOne
    <2>5. CASE n \notin ClosestIn(B, w, m)
      <3>1. ClosestIn(B, w, m) = ClosestIn(A, val, m)
        BY <2>1, <2>5, <1>2, <1>4, ClosestUnaffected
      <3>2. \A p \in ClosestIn(A, val, m) : w[p] = val[p]
        BY <2>1, <2>2 DEF ClosestIn
      <3>3. PlacedIn(A, val, par, m) => PlacedIn(B, w, par, m)
        BY <3>1, <3>2 DEF PlacedIn
      <3>. QED BY <2>3, <3>1, <3>3 DEF TreeIn
    <2>. QED BY <2>4, <2>5
  <1>5. TreeIn(B, w, par, E \cup {n}, U \cup {n})
    BY <1>1, <1>2, <1>3, <1>4 DEF TreeIn
  <1>. QED BY <1>5 DEF B

-----------------------------------------------------------------------------
(* Blocks of a pool and what they meet.                                    *)

(* Two networks agree on the bits that both have. *)
Agree(v, w) == \A i \in 1 .. v.len : i <= w.len => v.bits[i] = w.bits[i]

(* Two networks overlap when they agree on the bits that both have.        *)
LEMMA OverlapAgree ==
  ASSUME NEW v \in Value, NEW w \in Value
  PROVE  Overlap(v, w) <=> Agree(v, w)
  <1>1. Overlap(v, w) <=> Matches(v, w) \/ Matches(w, v)
    BY HostPrefix DEF Overlap
  <1>2. v.len \in Nat /\ w.len \in Nat
    BY ValueFields
  <1>3. Matches(v, w) => Agree(v, w)
    BY DEF Matches, Agree
  <1>4. Matches(w, v) => Agree(v, w)
    BY <1>2 DEF Matches, Agree
  <1>5. Agree(v, w) /\ v.len <= w.len => Matches(v, w)
    BY <1>2 DEF Matches, Agree
  <1>6. Agree(v, w) /\ w.len <= v.len => Matches(w, v)
    BY <1>2 DEF Matches, Agree
  <1>7. v.len <= w.len \/ w.len <= v.len
    BY <1>2
  <1>. QED BY <1>1, <1>3, <1>4, <1>5, <1>6, <1>7

LEMMA AgreeSymmetric ==
  ASSUME NEW v \in Value, NEW w \in Value
  PROVE  Agree(v, w) <=> Agree(w, v)
  <1>1. v.len \in Nat /\ w.len \in Nat
    BY ValueFields
  <1>. QED BY <1>1 DEF Agree

(* Containment of blocks, as the pool looks for it. *)
LEMMA BlockAround ==
  ASSUME NEW b \in Value, NEW v \in Value
  PROVE  IsPrefix(HostBits(b), HostBits(v)) <=> b.len <= v.len /\ Matches(b, v)
  <1>1. HostBits(b) \in Seq({0, 1}) /\ HostBits(v) \in Seq({0, 1}) /\ Len(HostBits(b)) = b.len /\ Len(HostBits(v)) = v.len
        /\ b.len \in Nat /\ v.len \in Nat
    BY HostBitsSeq, ValueFields
  <1>2. \A i \in 1 .. b.len : HostBits(b)[i] = b.bits[i]
    BY HostBitsSeq
  <1>3. \A i \in 1 .. v.len : HostBits(v)[i] = v.bits[i]
    BY HostBitsSeq
  <1>4. IsPrefix(HostBits(b), HostBits(v)) <=> b.len <= v.len /\ \A i \in 1 .. b.len : HostBits(b)[i] = HostBits(v)[i]
    BY <1>1, PrefixOf
  <1>5. b.len <= v.len => \A i \in 1 .. b.len : i \in 1 .. v.len
    BY <1>1
  <1>. QED BY <1>2, <1>3, <1>4, <1>5 DEF Matches

(* What a block agrees with. *)
LEMMA AgreeInside ==
  ASSUME NEW b \in Value, NEW c \in Value, NEW v \in Value, c.len <= b.len, Matches(c, b), Agree(b, v)
  PROVE  Agree(c, v)
  <1>1. b.len \in Nat /\ c.len \in Nat /\ v.len \in Nat
    BY ValueFields
  <1>. QED BY <1>1 DEF Agree, Matches

LEMMA BlockRecord == ASSUME NEW bits PROVE Block(bits).bits = Padded(bits) /\ Block(bits).len = Len(bits) /\ Block(bits) = [bits |-> Padded(bits), len |-> Len(bits)]
  BY DEF Block

LEMMA BlockNet ==
  ASSUME NEW s \in Seq({0, 1}), Len(s) <= Width
  PROVE  /\ Block(s) \in Net /\ Block(s).len = Len(s)
         /\ \A i \in 1 .. Width : Block(s).bits[i] = IF i <= Len(s) THEN s[i] ELSE 0
  <1>1. Padded(s) \in [1 .. Width -> {0, 1}] /\ \A i \in 1 .. Width : Padded(s)[i] = IF i <= Len(s) THEN s[i] ELSE 0
    BY WidthNat DEF Padded
  <1>2. Len(s) \in 0 .. Width
    BY WidthNat
  <1>3. Block(s) \in Value
    BY <1>1, <1>2, BlockRecord DEF Value
  <1>4. IsNetwork(Block(s))
    BY <1>1, <1>2, BlockRecord, WidthNat DEF IsNetwork
  <1>. QED BY <1>1, <1>3, <1>4, BlockRecord DEF Net

(* The block that differs from v first in bit d. *)
LEMMA FlippedBlock ==
  ASSUME NEW v \in Value, NEW d \in 1 .. v.len
  PROVE  LET b == Block(Flipped(v.bits, d))
         IN  /\ b \in Net /\ b.len = d
             /\ \A i \in 1 .. (d - 1) : b.bits[i] = v.bits[i]
             /\ b.bits[d] = 1 - v.bits[d] /\ b.bits[d] # v.bits[d]
  <1> DEFINE b == v.bits
             s == Flipped(b, d)
  <1>1. b \in Seq({0, 1}) /\ Len(b) = Width /\ d \in 1 .. Width
    BY ValueFields, BitsSeq, WidthNat
  <1> HIDE DEF b
  <1>2. SubSeq(b, 1, d) \in Seq({0, 1}) /\ Len(SubSeq(b, 1, d)) = d /\ \A i \in 1 .. d : SubSeq(b, 1, d)[i] = b[i]
    BY <1>1, WidthNat
  <1>3. b[d] \in {0, 1} /\ 1 - b[d] \in {0, 1} /\ 1 - b[d] # b[d]
    BY <1>1
  <1>4. s \in Seq({0, 1}) /\ Len(s) = d /\ s[d] = 1 - b[d] /\ \A i \in 1 .. (d - 1) : s[i] = b[i]
    <2> DEFINE t == SubSeq(b, 1, d)
               y == 1 - b[d]
    <2>1. t \in Seq({0, 1}) /\ Len(t) = d /\ (\A i \in 1 .. d : t[i] = b[i]) /\ y \in {0, 1} /\ d \in Nat /\ d >= 1
      BY <1>1, <1>2, <1>3, WidthNat
    <2>2. s = [t EXCEPT ![d] = y]
      BY DEF Flipped
    <2> HIDE DEF t, y, s
    <2>3. [t EXCEPT ![d] = y] \in Seq({0, 1}) /\ Len([t EXCEPT ![d] = y]) = d
      BY <2>1
    <2>4. [t EXCEPT ![d] = y][d] = y /\ \A i \in 1 .. (d - 1) : [t EXCEPT ![d] = y][i] = b[i]
      BY <2>1
    <2>. QED BY <2>2, <2>3, <2>4 DEF y
  <1> HIDE DEF s
  <1>5. Len(s) <= Width
    BY <1>1, <1>4, WidthNat
  <1>6. Block(s) \in Net /\ Block(s).len = d /\ \A i \in 1 .. Width : Block(s).bits[i] = IF i <= d THEN s[i] ELSE 0
    BY <1>4, <1>5, BlockNet
  <1>7. Block(s).bits[d] = 1 - b[d] /\ Block(s).bits[d] # b[d]
    BY <1>1, <1>3, <1>4, <1>6, WidthNat
  <1>8. \A i \in 1 .. (d - 1) : Block(s).bits[i] = b[i]
    BY <1>1, <1>4, <1>6, WidthNat
  <1>. QED BY <1>6, <1>7, <1>8 DEF b, s

(* A block that is one bit longer than a network.                          *)
LEMMA HalfBlock ==
  ASSUME NEW res \in Value, res.len < Width, NEW x \in {0, 1}
  PROVE  LET b == Block(Append(HostBits(res), x))
         IN  b \in Net /\ b.len = res.len + 1 /\ Matches(res, b) /\ b.bits[res.len + 1] = x
  <1> DEFINE h == HostBits(res)
             s == Append(h, x)
             l == res.len
  <1>1. h \in Seq({0, 1}) /\ Len(h) = l /\ l \in Nat /\ \A i \in 1 .. l : h[i] = res.bits[i]
    BY HostBitsSeq, ValueFields
  <1> HIDE DEF h, l
  <1>2. s \in Seq({0, 1}) /\ Len(s) = l + 1 /\ s[l + 1] = x /\ \A i \in 1 .. l : s[i] = h[i]
    BY <1>1
  <1>3. l < Width
    BY DEF l
  <1> HIDE DEF s
  <1>4. Block(s) \in Net /\ Block(s).len = l + 1 /\ \A i \in 1 .. Width : Block(s).bits[i] = IF i <= l + 1 THEN s[i] ELSE 0
    BY <1>1, <1>2, <1>3, BlockNet, WidthNat
  <1>5. Block(s).bits[l + 1] = x
    BY <1>1, <1>2, <1>3, <1>4, WidthNat
  <1>6. \A i \in 1 .. l : res.bits[i] = Block(s).bits[i]
    BY <1>1, <1>2, <1>3, <1>4, WidthNat
  <1>. QED BY <1>4, <1>5, <1>6 DEF h, l, s, Matches

-----------------------------------------------------------------------------
(* One reservation: a block is replaced by its other halves.               *)

(* How reserve rewrites the blocks: it drops the closest one around the    *)
(* subnet, at i, and appends the halves that are left of it.               *)
SplitAt(i, av, sub, r) ==
  /\ r \in Seq(Net) /\ Len(r) = (Len(av) - 1) + (sub.len - av[i].len)
  /\ \A j \in 1 .. (Len(av) - 1) : r[j] = av[IF j < i THEN j ELSE j + 1]
  /\ \A t \in 1 .. (sub.len - av[i].len) : r[(Len(av) - 1) + t] = Block(Flipped(sub.bits, av[i].len + t))

LEMMA JoinSeq ==
  ASSUME NEW T, NEW s \in Seq(T), NEW t \in Seq(T)
  PROVE  /\ s \o t \in Seq(T) /\ Len(s \o t) = Len(s) + Len(t)
         /\ \A j \in 1 .. Len(s) : (s \o t)[j] = s[j]
         /\ \A j \in 1 .. Len(t) : (s \o t)[Len(s) + j] = t[j]
  OBVIOUS

LEMMA RemoveSeq ==
  ASSUME NEW T, NEW s \in Seq(T), NEW i \in 1 .. Len(s)
  PROVE  /\ RemoveAt(s, i) \in Seq(T) /\ Len(RemoveAt(s, i)) = Len(s) - 1
         /\ \A j \in 1 .. (Len(s) - 1) : RemoveAt(s, i)[j] = s[IF j < i THEN j ELSE j + 1]
  <1> DEFINE a == SubSeq(s, 1, i - 1)
             b == SubSeq(s, i + 1, Len(s))
  <1>1. a \in Seq(T) /\ Len(a) = i - 1 /\ \A j \in 1 .. (i - 1) : a[j] = s[j]
    OBVIOUS
  <1>2. b \in Seq(T) /\ Len(b) = Len(s) - i /\ \A j \in 1 .. (Len(s) - i) : b[j] = s[i + j]
    OBVIOUS
  <1>3. RemoveAt(s, i) = a \o b
    BY DEF RemoveAt
  <1> HIDE DEF a, b
  <1>4. a \o b \in Seq(T) /\ Len(a \o b) = Len(s) - 1
    <2>1. a \o b \in Seq(T) /\ Len(a \o b) = Len(a) + Len(b)
      BY <1>1, <1>2, JoinSeq
    <2>. QED BY <1>1, <1>2, <2>1
  <1>5. ASSUME NEW j \in 1 .. (Len(s) - 1) PROVE (a \o b)[j] = s[IF j < i THEN j ELSE j + 1]
    <2>1. CASE j < i
      <3>1. (a \o b)[j] = a[j]
        BY <1>1, <1>2, <2>1
      <3>. QED BY <3>1, <1>1, <2>1
    <2>2. CASE ~ (j < i)
      <3>1. j - (i - 1) \in 1 .. Len(b) /\ j = Len(a) + (j - (i - 1))
        BY <1>1, <1>2, <2>2
      <3>2. (a \o b)[Len(a) + (j - (i - 1))] = b[j - (i - 1)]
        BY <1>1, <1>2, <3>1, JoinSeq
      <3>3. b[j - (i - 1)] = s[i + (j - (i - 1))]
        BY <1>2, <3>1
      <3>. QED BY <2>2, <3>1, <3>2, <3>3
    <2>. QED BY <2>1, <2>2
  <1>. QED BY <1>3, <1>4, <1>5

(* What reserve does: the closest block around the subnet is split.        *)
LEMMA ReserveSplits ==
  ASSUME NEW av \in Seq(Net), NEW sub \in Net, BlocksAround(av, sub) # {}
  PROVE  \E i \in BlocksAround(av, sub) : SplitAt(i, av, sub, reserve(av, sub))
  <1> DEFINE around == BlocksAround(av, sub)
             i == CHOOSE x \in around : \A j \in around : av[j].len <= av[x].len
             S == {Width - av[x].len : x \in around}
  <1>1. around \subseteq 1 .. Len(av)
    BY DEF BlocksAround
  <1>2. \A x \in 1 .. Len(av) : av[x] \in Net /\ av[x] \in Value /\ av[x].len \in 0 .. Width
    BY ValueFields DEF Net
  <1>3. i \in around
    <2> HIDE DEF i, around
    <2>1. S \subseteq Nat /\ S # {}
      BY <1>1, <1>2, WidthNat DEF around
    <2>2. PICK y \in S : \A z \in S : y <= z
      BY <2>1, LeastNumber
    <2>3. PICK x \in around : y = Width - av[x].len
      OBVIOUS
    <2>4. \A j \in around : Width - av[x].len <= Width - av[j].len
      BY <2>2, <2>3
    <2>5. \A j \in around : av[j].len <= av[x].len
      BY <1>1, <1>2, <2>4, WidthNat
    <2>. QED BY <2>5 DEF i
  <1>4. reserve(av, sub) = RemoveAt(av, i) \o [t \in 1 .. (sub.len - av[i].len) |-> Block(Flipped(sub.bits, av[i].len + t))]
    BY DEF reserve
  <1> HIDE DEF i
  <1>5. i \in 1 .. Len(av) /\ IsPrefix(HostBits(av[i]), HostBits(sub))
    BY <1>3 DEF BlocksAround
  <1>6. sub \in Value /\ sub.len \in 0 .. Width /\ av[i] \in Value /\ av[i].len \in 0 .. Width
    BY <1>2, <1>5, ValueFields DEF Net
  <1>7. av[i].len <= sub.len
    BY <1>5, <1>6, BlockAround
  <1> DEFINE l == av[i].len
             n == sub.len - l
             q == [t \in 1 .. n |-> Block(Flipped(sub.bits, l + t))]
  <1>8. n \in Nat /\ l \in Nat /\ \A t \in 1 .. n : l + t \in 1 .. sub.len
    BY <1>6, <1>7, WidthNat
  <1>9. \A t \in 1 .. n : Block(Flipped(sub.bits, l + t)) \in Net
    BY <1>6, <1>8, FlippedBlock
  <1> HIDE DEF n, l
  <1>10. q \in Seq(Net) /\ Len(q) = n /\ \A t \in 1 .. n : q[t] = Block(Flipped(sub.bits, l + t))
    BY <1>8, <1>9
  <1> DEFINE p == RemoveAt(av, i)
  <1>11. p \in Seq(Net) /\ Len(p) = Len(av) - 1 /\ \A j \in 1 .. (Len(av) - 1) : p[j] = av[IF j < i THEN j ELSE j + 1]
    BY <1>5, RemoveSeq
  <1> HIDE DEF p, q
  <1>12. /\ p \o q \in Seq(Net) /\ Len(p \o q) = (Len(av) - 1) + n
         /\ \A j \in 1 .. (Len(av) - 1) : (p \o q)[j] = p[j]
         /\ \A t \in 1 .. n : (p \o q)[(Len(av) - 1) + t] = q[t]
    <2>1. /\ p \o q \in Seq(Net) /\ Len(p \o q) = Len(p) + Len(q)
          /\ \A j \in 1 .. Len(p) : (p \o q)[j] = p[j]
          /\ \A j \in 1 .. Len(q) : (p \o q)[Len(p) + j] = q[j]
      <3>1. p \in Seq(Net) /\ q \in Seq(Net)
        BY <1>10, <1>11
      <3>. QED BY <3>1, JoinSeq
    <2>2. Len(p) = Len(av) - 1 /\ Len(q) = n
      BY <1>10, <1>11
    <2>. QED BY <2>1, <2>2
  <1>13. reserve(av, sub) = p \o q
    BY <1>4 DEF p, q, n, l
  <1>14. SplitAt(i, av, sub, p \o q)
    BY <1>10, <1>11, <1>12 DEF SplitAt, n, l
  <1>. QED BY <1>3, <1>13, <1>14

LEMMA ReserveType ==
  ASSUME NEW av \in Seq(Net), NEW sub \in Net
  PROVE  reserve(av, sub) \in Seq(Net)
  <1>1. CASE BlocksAround(av, sub) = {}
    BY <1>1 DEF reserve
  <1>2. CASE BlocksAround(av, sub) # {}
    BY <1>2, ReserveSplits DEF SplitAt
  <1>. QED BY <1>1, <1>2

(* The recursion of Reserved has a value at every step. *)
LEMMA ReservedSteps ==
  ASSUME NEW res, NEW s, Len(s) \in Nat
  PROVE  \E g : /\ Reserved(res, s) = g[Len(s)] /\ g[0] = Halves(res)
                /\ \A k \in 1 .. Len(s) : g[k] = reserve(g[k - 1], s[k])
  <1> DEFINE Ok(k) == \E g : g = [j \in 0 .. k |-> IF j = 0 THEN Halves(res) ELSE reserve(g[j - 1], s[j])]
             Bad == {k \in 0 .. Len(s) : ~ Ok(k)}
  <1>1. Ok(0)
    <2> DEFINE g == [j \in 0 .. 0 |-> Halves(res)]
    <2>1. g = [j \in 0 .. 0 |-> IF j = 0 THEN Halves(res) ELSE reserve(g[j - 1], s[j])]
      OBVIOUS
    <2>. QED BY <2>1
  <1>2. ASSUME NEW k \in 1 .. Len(s), Ok(k - 1) PROVE Ok(k)
    <2>1. PICK g : g = [j \in 0 .. (k - 1) |-> IF j = 0 THEN Halves(res) ELSE reserve(g[j - 1], s[j])]
      BY <1>2
    <2> DEFINE h == [j \in 0 .. k |-> IF j < k THEN g[j] ELSE reserve(g[k - 1], s[k])]
    <2>2. \A j \in 0 .. (k - 1) : h[j] = g[j] /\ g[j] = IF j = 0 THEN Halves(res) ELSE reserve(g[j - 1], s[j])
      BY <2>1
    <2>3. h[k] = reserve(g[k - 1], s[k])
      OBVIOUS
    <2>4. DOMAIN h = 0 .. k /\ h = [j \in 0 .. k |-> h[j]]
      OBVIOUS
    <2> HIDE DEF h
    <2>5. ASSUME NEW j \in 0 .. k PROVE h[j] = IF j = 0 THEN Halves(res) ELSE reserve(h[j - 1], s[j])
      <3>1. CASE j = 0
        BY <3>1, <2>2
      <3>2. CASE j # 0 /\ j < k
        <4>1. j - 1 \in 0 .. (k - 1) /\ j \in 0 .. (k - 1)
          BY <3>2
        <4>2. h[j] = g[j] /\ h[j - 1] = g[j - 1] /\ g[j] = reserve(g[j - 1], s[j])
          BY <4>1, <3>2, <2>2
        <4>. QED BY <4>2, <3>2
      <3>3. CASE j = k
        <4>1. k - 1 \in 0 .. (k - 1) /\ k # 0
          OBVIOUS
        <4>2. h[k - 1] = g[k - 1]
          BY <4>1, <2>2
        <4>. QED BY <4>1, <4>2, <3>3, <2>3
      <3>. QED BY <3>1, <3>2, <3>3
    <2>6. [j \in 0 .. k |-> h[j]] = [j \in 0 .. k |-> IF j = 0 THEN Halves(res) ELSE reserve(h[j - 1], s[j])]
      BY <2>5, Zenon
    <2>7. h = [j \in 0 .. k |-> IF j = 0 THEN Halves(res) ELSE reserve(h[j - 1], s[j])]
      BY <2>4, <2>6
    <2>. QED BY <2>7
  <1>3. Bad = {}
    <2>1. SUFFICES ASSUME Bad # {} PROVE FALSE
      OBVIOUS
    <2> HIDE DEF Ok
    <2>0. Bad \subseteq Nat
      OBVIOUS
    <2>2. PICK k \in Bad : \A y \in Bad : k <= y
      <3> HIDE DEF Bad
      <3>. QED BY <2>0, <2>1, LeastNumber
    <2>3. k # 0 /\ k \in 1 .. Len(s)
      BY <1>1
    <2>4. k - 1 \in 0 .. Len(s) /\ k - 1 \notin Bad
      BY <2>2, <2>3
    <2>5. Ok(k - 1)
      BY <2>4
    <2>. QED BY <2>3, <2>5, <1>2
  <1>4. Ok(Len(s))
    <2> HIDE DEF Ok
    <2>. QED BY <1>3
  <1> DEFINE left == CHOOSE g : g = [j \in 0 .. Len(s) |-> IF j = 0 THEN Halves(res) ELSE reserve(g[j - 1], s[j])]
  <1>5. left = [j \in 0 .. Len(s) |-> IF j = 0 THEN Halves(res) ELSE reserve(left[j - 1], s[j])]
    BY <1>4
  <1>6. Reserved(res, s) = left[Len(s)]
    BY DEF Reserved
  <1> HIDE DEF left
  <1>7. left[0] = Halves(res)
    BY <1>5
  <1>8. \A k \in 1 .. Len(s) : left[k] = reserve(left[k - 1], s[k])
    BY <1>5
  <1>. QED BY <1>6, <1>7, <1>8

-----------------------------------------------------------------------------
(* What a reservation keeps.                                               *)

(* Blocks that do not meet; a block around v; no block that meets v; all   *)
(* blocks inside v.                                                        *)
Apart(av) == \A x, y \in 1 .. Len(av) : x # y => ~ Agree(av[x], av[y])
Covers(av, v) == \E x \in 1 .. Len(av) : av[x].len <= v.len /\ Matches(av[x], v)
Clear(av, v) == \A x \in 1 .. Len(av) : ~ Agree(av[x], v)
Inside(av, v) == \A x \in 1 .. Len(av) : Within(av[x], v, FALSE)

(* The half of a block that is left when sub takes the other one.          *)
Half(sub, d) == Block(Flipped(sub.bits, d))

LEMMA HalfBits ==
  ASSUME NEW sub \in Net, NEW d \in 1 .. sub.len
  PROVE  /\ Half(sub, d) \in Net /\ Half(sub, d) \in Value /\ Half(sub, d).len = d
         /\ \A i \in 1 .. (d - 1) : Half(sub, d).bits[i] = sub.bits[i]
         /\ Half(sub, d).bits[d] = 1 - sub.bits[d]
         /\ Half(sub, d).bits[d] # sub.bits[d]
  <1>1. sub \in Value
    BY DEF Net
  <1>. QED BY <1>1, FlippedBlock DEF Half, Net

LEMMA HalfFacts ==
  ASSUME NEW b \in Net, NEW sub \in Net, b.len <= sub.len, Matches(b, sub), NEW d \in (b.len + 1) .. sub.len
  PROVE  /\ Half(sub, d) \in Value /\ d \in 1 .. sub.len
         /\ Matches(b, Half(sub, d)) /\ b.len <= Half(sub, d).len /\ Within(Half(sub, d), b, FALSE)
  <1>1. b \in Value /\ sub \in Value /\ b.len \in Nat /\ sub.len \in Nat
    BY ValueFields DEF Net
  <1>2. d \in 1 .. sub.len /\ d \in Nat /\ b.len < d
    BY <1>1
  <1>3. Half(sub, d) \in Value /\ Half(sub, d).len = d /\ \A i \in 1 .. (d - 1) : Half(sub, d).bits[i] = sub.bits[i]
    BY <1>2, HalfBits
  <1>4. \A i \in 1 .. b.len : i \in 1 .. (d - 1)
    BY <1>1, <1>2
  <1>5. Matches(b, Half(sub, d))
    BY <1>3, <1>4 DEF Matches
  <1>7. Within(Half(sub, d), b, FALSE)
    BY <1>1, <1>2, <1>3, <1>5, HostPrefix DEF Within
  <1>8. b.len <= Half(sub, d).len
    BY <1>1, <1>2, <1>3
  <1>. QED BY <1>2, <1>3, <1>5, <1>7, <1>8

(* The blocks after a split: those that were not split, at their places,   *)
(* and the halves.                                                         *)
LEMMA SplitIndex ==
  ASSUME NEW av \in Seq(Net), NEW sub \in Net, NEW i \in BlocksAround(av, sub), NEW r, SplitAt(i, av, sub, r), NEW j \in 1 .. Len(r)
  PROVE  \/ \E x \in 1 .. Len(av) : x # i /\ r[j] = av[x] /\ j < Len(av) /\ x = IF j < i THEN j ELSE j + 1
         \/ \E d \in (av[i].len + 1) .. sub.len : r[j] = Half(sub, d) /\ j = (Len(av) - 1) + (d - av[i].len)
  <1>1. i \in 1 .. Len(av)
    BY DEF BlocksAround
  <1>2. av[i].len \in Nat /\ sub.len \in Nat
    BY <1>1, ValueFields DEF Net
  <1> DEFINE l == av[i].len
             n == sub.len
             k == Len(av)
  <1>3. l \in Nat /\ n \in Nat /\ k \in Nat /\ j \in 1 .. ((k - 1) + (n - l)) /\ i \in 1 .. k
    BY <1>1, <1>2 DEF SplitAt
  <1>4. \A x \in 1 .. (k - 1) : r[x] = av[IF x < i THEN x ELSE x + 1]
    BY DEF SplitAt
  <1>5. \A t \in 1 .. (n - l) : r[(k - 1) + t] = Half(sub, l + t)
    BY DEF SplitAt, Half
  <1> HIDE DEF l, n, k
  <1>6. CASE j <= k - 1
    <2> DEFINE x == IF j < i THEN j ELSE j + 1
    <2>1. x \in 1 .. k /\ x # i /\ j < k /\ j \in 1 .. (k - 1)
      BY <1>3, <1>6
    <2>2. r[j] = av[x]
      BY <1>4, <2>1
    <2>. QED BY <2>1, <2>2 DEF k
  <1>7. CASE ~ (j <= k - 1)
    <2> DEFINE t == j - (k - 1)
               d == l + t
    <2>1. t \in 1 .. (n - l) /\ j = (k - 1) + t /\ d \in (l + 1) .. n /\ t = d - l
      BY <1>3, <1>7
    <2>2. r[j] = Half(sub, d)
      <3> HIDE DEF t
      <3>. QED BY <1>5, <2>1
    <2>3. j = (k - 1) + (d - l)
      BY <2>1
    <2> HIDE DEF d
    <2>. QED BY <2>1, <2>2, <2>3 DEF k, l, n
  <1>. QED BY <1>6, <1>7

(* Every unsplit block and every half has a place. *)
LEMMA SplitPlaces ==
  ASSUME NEW av \in Seq(Net), NEW sub \in Net, NEW i \in BlocksAround(av, sub), NEW r, SplitAt(i, av, sub, r)
  PROVE  /\ \A x \in 1 .. Len(av) : x # i => \E j \in 1 .. Len(r) : r[j] = av[x]
         /\ \A d \in (av[i].len + 1) .. sub.len : \E j \in 1 .. Len(r) : r[j] = Half(sub, d)
  <1>1. i \in 1 .. Len(av) /\ av[i] \in Value /\ sub \in Value
    BY DEF BlocksAround, Net
  <1>0. av[i].len <= sub.len
    BY <1>1, BlockAround DEF BlocksAround
  <1>2. av[i].len \in Nat /\ sub.len \in Nat
    BY <1>1, ValueFields
  <1> DEFINE l == av[i].len
             n == sub.len
             k == Len(av)
  <1>3. l \in Nat /\ n \in Nat /\ k \in Nat /\ Len(r) = (k - 1) + (n - l) /\ i \in 1 .. k /\ l <= n
    BY <1>0, <1>1, <1>2 DEF SplitAt
  <1>4. \A x \in 1 .. (k - 1) : r[x] = av[IF x < i THEN x ELSE x + 1]
    BY DEF SplitAt
  <1>5. \A t \in 1 .. (n - l) : r[(k - 1) + t] = Half(sub, l + t)
    BY DEF SplitAt, Half
  <1> HIDE DEF l, n, k
  <1>6. ASSUME NEW x \in 1 .. k, x # i PROVE \E j \in 1 .. Len(r) : r[j] = av[x]
    <2>1. CASE x < i
      <3>1. x \in 1 .. (k - 1) /\ x \in 1 .. Len(r)
        BY <1>3, <2>1
      <3>2. r[x] = av[x]
        BY <1>4, <2>1, <3>1
      <3>. QED BY <3>1, <3>2
    <2>2. CASE ~ (x < i)
      <3>1. x - 1 \in 1 .. (k - 1) /\ x - 1 \in 1 .. Len(r) /\ ~ (x - 1 < i) /\ (x - 1) + 1 = x
        BY <1>3, <1>6, <2>2
      <3>2. r[x - 1] = av[x]
        BY <1>4, <3>1
      <3>. QED BY <3>1, <3>2
    <2>. QED BY <2>1, <2>2
  <1>7. ASSUME NEW d \in (l + 1) .. n PROVE \E j \in 1 .. Len(r) : r[j] = Half(sub, d)
    <2>1. d - l \in 1 .. (n - l) /\ l + (d - l) = d /\ (k - 1) + (d - l) \in 1 .. Len(r)
      BY <1>3
    <2>2. r[(k - 1) + (d - l)] = Half(sub, d)
      BY <1>5, <2>1
    <2>. QED BY <2>1, <2>2
  <1>. QED BY <1>6, <1>7 DEF k, l, n

LEMMA AroundBlock ==
  ASSUME NEW av \in Seq(Net), NEW sub \in Net, NEW i \in BlocksAround(av, sub)
  PROVE  /\ i \in 1 .. Len(av) /\ av[i] \in Net /\ av[i] \in Value /\ sub \in Value
         /\ av[i].len <= sub.len /\ Matches(av[i], sub)
  <1>1. i \in 1 .. Len(av) /\ av[i] \in Net /\ av[i] \in Value /\ sub \in Value
    BY DEF BlocksAround, Net
  <1>. QED BY <1>1, BlockAround DEF BlocksAround

(* What is clear of the blocks is clear of what is left of them. *)
LEMMA SplitClear ==
  ASSUME NEW av \in Seq(Net), NEW sub \in Net, NEW i \in BlocksAround(av, sub), NEW r, SplitAt(i, av, sub, r),
         NEW v \in Value, Clear(av, v)
  PROVE  Clear(r, v)
  <1>1. SUFFICES ASSUME NEW j \in 1 .. Len(r) PROVE ~ Agree(r[j], v)
    BY DEF Clear
  <1>2. ASSUME NEW x \in 1 .. Len(av), r[j] = av[x] PROVE ~ Agree(r[j], v)
    BY <1>2 DEF Clear
  <1>3. ASSUME NEW d \in (av[i].len + 1) .. sub.len, r[j] = Half(sub, d) PROVE ~ Agree(r[j], v)
    <2>1. /\ i \in 1 .. Len(av) /\ av[i] \in Net /\ av[i] \in Value /\ av[i].len <= sub.len /\ Matches(av[i], sub)
      BY AroundBlock
    <2>2. Half(sub, d) \in Value /\ Matches(av[i], Half(sub, d)) /\ av[i].len <= Half(sub, d).len
      BY <2>1, HalfFacts
    <2>3. Agree(Half(sub, d), v) => Agree(av[i], v)
      BY <2>1, <2>2, AgreeInside
    <2>. QED BY <1>3, <2>1, <2>3 DEF Clear
  <1>. QED BY <1>2, <1>3, SplitIndex

(* The halves lie where the block did.                                     *)
LEMMA SplitInside ==
  ASSUME NEW av \in Seq(Net), NEW sub \in Net, NEW i \in BlocksAround(av, sub), NEW r, SplitAt(i, av, sub, r),
         NEW v \in Value, Inside(av, v)
  PROVE  Inside(r, v)
  <1>1. SUFFICES ASSUME NEW j \in 1 .. Len(r) PROVE Within(r[j], v, FALSE)
    BY DEF Inside
  <1>2. ASSUME NEW x \in 1 .. Len(av), r[j] = av[x] PROVE Within(r[j], v, FALSE)
    BY <1>2 DEF Inside
  <1>3. ASSUME NEW d \in (av[i].len + 1) .. sub.len, r[j] = Half(sub, d) PROVE Within(r[j], v, FALSE)
    <2>1. /\ i \in 1 .. Len(av) /\ av[i] \in Net /\ av[i] \in Value /\ av[i].len <= sub.len /\ Matches(av[i], sub)
      BY AroundBlock
    <2>2. Half(sub, d) \in Value /\ Within(Half(sub, d), av[i], FALSE)
      BY <2>1, HalfFacts
    <2>3. Within(av[i], v, FALSE)
      BY <2>1 DEF Inside
    <2>4. Within(Half(sub, d), v, FALSE)
      BY <2>1, <2>2, <2>3, WithinTransitive
    <2>. QED BY <1>3, <2>4
  <1>4. (\E x \in 1 .. Len(av) : r[j] = av[x]) \/ (\E d \in (av[i].len + 1) .. sub.len : r[j] = Half(sub, d))
    BY SplitIndex
  <1>. QED BY <1>2, <1>3, <1>4

(* What is left does not meet the subnet that was reserved. *)
LEMMA SplitFree ==
  ASSUME NEW av \in Seq(Net), Apart(av), NEW sub \in Net, NEW i \in BlocksAround(av, sub), NEW r, SplitAt(i, av, sub, r)
  PROVE  Clear(r, sub)
  <1>0. /\ i \in 1 .. Len(av) /\ av[i] \in Net /\ av[i] \in Value /\ sub \in Value /\ av[i].len <= sub.len /\ Matches(av[i], sub)
    BY AroundBlock
  <1>1. SUFFICES ASSUME NEW j \in 1 .. Len(r) PROVE ~ Agree(r[j], sub)
    BY DEF Clear
  <1>2. ASSUME NEW x \in 1 .. Len(av), x # i, r[j] = av[x] PROVE ~ Agree(r[j], sub)
    <2>1. av[x] \in Value
      BY DEF Net
    <2>2. Agree(av[x], sub) => Agree(sub, av[x])
      BY <1>0, <2>1, AgreeSymmetric
    <2>3. Agree(sub, av[x]) => Agree(av[i], av[x])
      BY <1>0, <2>1, AgreeInside
    <2>. QED BY <1>0, <1>2, <2>2, <2>3 DEF Apart
  <1>3. ASSUME NEW d \in (av[i].len + 1) .. sub.len, r[j] = Half(sub, d) PROVE ~ Agree(r[j], sub)
    <2>0. d \in 1 .. sub.len
      BY <1>0, HalfFacts
    <2>1. Half(sub, d).len = d /\ Half(sub, d).bits[d] # sub.bits[d]
      BY <2>0, HalfBits
    <2>2. sub.len \in Nat
      BY <1>0, ValueFields
    <2>3. d \in 1 .. Half(sub, d).len /\ d <= sub.len
      BY <2>0, <2>1, <2>2
    <2>. QED BY <1>3, <2>1, <2>3 DEF Agree
  <1>. QED BY <1>2, <1>3, SplitIndex

(* Halves of different lengths do not meet.                                *)
LEMMA HalvesApart ==
  ASSUME NEW b \in Net, NEW sub \in Net, b.len <= sub.len, Matches(b, sub),
         NEW d \in (b.len + 1) .. sub.len, NEW e \in (b.len + 1) .. sub.len, d < e
  PROVE  ~ Agree(Half(sub, d), Half(sub, e)) /\ ~ Agree(Half(sub, e), Half(sub, d))
  <1>0. d \in 1 .. sub.len /\ e \in 1 .. sub.len /\ sub.len \in Nat
    BY HalfFacts, ValueFields DEF Net
  <1>1. Half(sub, d).len = d /\ Half(sub, d).bits[d] # sub.bits[d] /\ Half(sub, d) \in Value
    BY <1>0, HalfBits
  <1>2. Half(sub, e).len = e /\ (\A i \in 1 .. (e - 1) : Half(sub, e).bits[i] = sub.bits[i]) /\ Half(sub, e) \in Value
    BY <1>0, HalfBits
  <1>3. d \in 1 .. (e - 1) /\ d \in 1 .. d /\ d <= e
    BY <1>0
  <1>4. Half(sub, d).bits[d] # Half(sub, e).bits[d]
    BY <1>1, <1>2, <1>3
  <1>5. ~ Agree(Half(sub, d), Half(sub, e))
    BY <1>1, <1>2, <1>3, <1>4 DEF Agree
  <1>. QED BY <1>1, <1>2, <1>5, AgreeSymmetric

(* After a split the blocks still do not meet.                             *)
LEMMA SplitApart ==
  ASSUME NEW av \in Seq(Net), Apart(av), NEW sub \in Net, NEW i \in BlocksAround(av, sub), NEW r, SplitAt(i, av, sub, r)
  PROVE  Apart(r)
  <1>0. /\ i \in 1 .. Len(av) /\ av[i] \in Net /\ av[i] \in Value /\ sub \in Value /\ av[i].len <= sub.len /\ Matches(av[i], sub)
        /\ av[i].len \in Nat /\ sub.len \in Nat
    BY AroundBlock, ValueFields
  <1>1. SUFFICES ASSUME NEW j \in 1 .. Len(r), NEW k \in 1 .. Len(r), j < k PROVE ~ Agree(r[j], r[k]) /\ ~ Agree(r[k], r[j])
    <2>1. Len(r) \in Nat
      BY DEF SplitAt
    <2>2. \A x, y \in 1 .. Len(r) : x # y => x < y \/ y < x
      BY <2>1
    <2>. QED BY <1>1, <2>2 DEF Apart
  <1>2. j \in Nat /\ k \in Nat /\ Len(av) \in Nat /\ i \in Nat
    BY <1>0 DEF SplitAt
  <1>3. ASSUME NEW x \in 1 .. Len(av), x # i, NEW d \in (av[i].len + 1) .. sub.len
        PROVE  ~ Agree(av[x], Half(sub, d)) /\ ~ Agree(Half(sub, d), av[x])
    <2>1. av[x] \in Value
      BY DEF Net
    <2>2. Half(sub, d) \in Value /\ Matches(av[i], Half(sub, d)) /\ av[i].len <= Half(sub, d).len
      BY <1>0, HalfFacts
    <2>3. Agree(Half(sub, d), av[x]) => Agree(av[i], av[x])
      BY <1>0, <2>1, <2>2, AgreeInside
    <2>4. ~ Agree(av[i], av[x])
      BY <1>0, <1>3 DEF Apart
    <2>. QED BY <2>1, <2>2, <2>3, <2>4, AgreeSymmetric
  <1>4. ASSUME NEW x \in 1 .. Len(av), x # i, r[j] = av[x], x = IF j < i THEN j ELSE j + 1,
               NEW y \in 1 .. Len(av), y # i, r[k] = av[y], y = IF k < i THEN k ELSE k + 1
        PROVE  ~ Agree(r[j], r[k]) /\ ~ Agree(r[k], r[j])
    <2>1. x # y
      BY <1>1, <1>2, <1>4
    <2>. QED BY <1>4, <2>1 DEF Apart
  <1>5. ASSUME NEW d \in (av[i].len + 1) .. sub.len, r[j] = Half(sub, d), j = (Len(av) - 1) + (d - av[i].len),
               NEW e \in (av[i].len + 1) .. sub.len, r[k] = Half(sub, e), k = (Len(av) - 1) + (e - av[i].len)
        PROVE  ~ Agree(r[j], r[k]) /\ ~ Agree(r[k], r[j])
    <2>1. d < e
      BY <1>0, <1>1, <1>2, <1>5
    <2>. QED BY <1>0, <1>5, <2>1, HalvesApart
  <1>6. \/ \E x \in 1 .. Len(av) : x # i /\ r[j] = av[x] /\ j < Len(av) /\ x = IF j < i THEN j ELSE j + 1
        \/ \E d \in (av[i].len + 1) .. sub.len : r[j] = Half(sub, d) /\ j = (Len(av) - 1) + (d - av[i].len)
    BY SplitIndex
  <1>7. \/ \E x \in 1 .. Len(av) : x # i /\ r[k] = av[x] /\ k < Len(av) /\ x = IF k < i THEN k ELSE k + 1
        \/ \E d \in (av[i].len + 1) .. sub.len : r[k] = Half(sub, d) /\ k = (Len(av) - 1) + (d - av[i].len)
    BY SplitIndex
  <1>. QED BY <1>3, <1>4, <1>5, <1>6, <1>7

(* A subnet in a block, clear of the reserved one, lies in what is left. *)
LEMMA SplitCovers ==
  ASSUME NEW av \in Seq(Net), NEW sub \in Net, NEW i \in BlocksAround(av, sub), NEW r, SplitAt(i, av, sub, r),
         NEW v \in Net, Covers(av, v), ~ Agree(sub, v)
  PROVE  Covers(r, v)
  <1>0. /\ i \in 1 .. Len(av) /\ av[i] \in Net /\ av[i] \in Value /\ sub \in Value /\ av[i].len <= sub.len /\ Matches(av[i], sub)
    BY AroundBlock
  <1>1. PICK x \in 1 .. Len(av) : av[x].len <= v.len /\ Matches(av[x], v)
    BY DEF Covers
  <1>2. CASE x # i
    <2>1. PICK j \in 1 .. Len(r) : r[j] = av[x]
      BY <1>2, SplitPlaces
    <2>. QED BY <1>1, <2>1 DEF Covers
  <1>3. CASE x = i
    <2>0. v \in Value /\ v.len \in Nat /\ sub.len \in Nat /\ av[i].len \in Nat /\ v.bits \in [1 .. Width -> {0, 1}]
          /\ sub.bits \in [1 .. Width -> {0, 1}] /\ v.len <= Width
      BY <1>0, ValueFields DEF Net
    <2> DEFINE S == {d \in 1 .. sub.len : d <= v.len /\ sub.bits[d] # v.bits[d]}
    <2>1. S \subseteq Nat /\ S # {}
      BY <2>0 DEF Agree
    <2>2. PICK d \in S : \A e \in S : d <= e
      BY <2>1, LeastNumber
    <2>3. d \in 1 .. sub.len /\ d <= v.len /\ sub.bits[d] # v.bits[d] /\ d \in Nat /\ d \in 1 .. Width
      BY <2>0, WidthNat
    <2>4. \A e \in 1 .. (d - 1) : sub.bits[e] = v.bits[e]
      BY <2>0, <2>2, <2>3
    <2> HIDE DEF S
    <2>5. av[i].len < d
      <3>1. ~ (d <= av[i].len)
        BY <1>0, <1>1, <1>3, <2>3 DEF Matches
      <3>. QED BY <3>1, <2>0, <2>3
    <2>6. d \in (av[i].len + 1) .. sub.len
      BY <2>0, <2>3, <2>5
    <2>7. /\ Half(sub, d).len = d /\ (\A e \in 1 .. (d - 1) : Half(sub, d).bits[e] = sub.bits[e])
          /\ Half(sub, d).bits[d] = 1 - sub.bits[d]
      BY <2>3, HalfBits
    <2>8. Half(sub, d).bits[d] = v.bits[d]
      <3>1. sub.bits[d] \in {0, 1} /\ v.bits[d] \in {0, 1}
        BY <2>0, <2>3
      <3>. QED BY <3>1, <2>3, <2>7
    <2>9. Matches(Half(sub, d), v)
      <3>1. \A e \in 1 .. d : e = d \/ e \in 1 .. (d - 1)
        BY <2>3
      <3>. QED BY <3>1, <2>4, <2>7, <2>8 DEF Matches
    <2>10. PICK j \in 1 .. Len(r) : r[j] = Half(sub, d)
      BY <2>6, SplitPlaces
    <2>. QED BY <2>3, <2>7, <2>9, <2>10 DEF Covers
  <1>. QED BY <1>2, <1>3

-----------------------------------------------------------------------------
(* All reservations, one after the other.                                  *)

(* The two halves that a pool starts with are the whole resource.          *)
LEMMA HalvesFacts ==
  ASSUME NEW res \in Net, res.len < Width
  PROVE  /\ Halves(res) \in Seq(Net) /\ Len(Halves(res)) = 2 /\ Apart(Halves(res)) /\ Inside(Halves(res), res)
         /\ \A v \in Net : Within(v, res, FALSE) => Covers(Halves(res), v)
  <1>0. res \in Value /\ res.len \in Nat
    BY ValueFields DEF Net
  <1> DEFINE B(x) == Block(Append(HostBits(res), x))
             l == res.len
  <1>1. \A x \in {0, 1} : B(x) \in Net /\ B(x).len = l + 1 /\ Matches(res, B(x)) /\ B(x).bits[l + 1] = x
    BY <1>0, HalfBlock
  <1>2. Halves(res) = [i \in 1 .. 2 |-> B(i - 1)]
    BY DEF Halves
  <1>3. l \in Nat
    BY <1>0
  <1>10. l < Width
    OBVIOUS
  <1> HIDE DEF B, l
  <1>4. Halves(res) \in Seq(Net) /\ Len(Halves(res)) = 2 /\ Halves(res)[1] = B(0) /\ Halves(res)[2] = B(1)
    BY <1>1, <1>2
  <1>5. \A x \in 1 .. Len(Halves(res)) : Halves(res)[x] = B(0) \/ Halves(res)[x] = B(1)
    BY <1>4
  <1>6. \A x \in {0, 1} : Within(B(x), res, FALSE)
    <2>1. \A x \in {0, 1} : B(x) \in Value /\ B(x).len > res.len
      BY <1>1, <1>3 DEF l, Net
    <2>. QED BY <1>0, <1>1, <2>1, HostPrefix DEF Within
  <1>7. Inside(Halves(res), res)
    BY <1>5, <1>6 DEF Inside
  <1>8. ~ Agree(B(0), B(1)) /\ ~ Agree(B(1), B(0))
    <2>1. l + 1 \in 1 .. (l + 1) /\ l + 1 <= l + 1
      BY <1>3
    <2>. QED BY <1>1, <2>1 DEF Agree
  <1>9. Apart(Halves(res))
    BY <1>4, <1>8 DEF Apart
  <1>11. ASSUME NEW v \in Net, Within(v, res, FALSE) PROVE Covers(Halves(res), v)
    <2>1. v \in Value /\ v.len \in Nat /\ v.bits \in [1 .. Width -> {0, 1}] /\ v.len <= Width
      BY ValueFields DEF Net
    <2>2. Matches(res, v) /\ l < v.len
      BY <1>0, <1>11, <2>1, HostPrefix DEF Within, l
    <2> DEFINE x == v.bits[l + 1]
    <2>3. x \in {0, 1} /\ l + 1 <= v.len
      BY <1>3, <1>10, <2>1, <2>2, WidthNat
    <2>4. Matches(B(x), v)
      <3>1. \A i \in 1 .. (l + 1) : i = l + 1 \/ i \in 1 .. l
        BY <1>3
      <3>2. \A i \in 1 .. l : B(x).bits[i] = v.bits[i]
        BY <1>1, <2>2, <2>3 DEF Matches, l
      <3>. QED BY <1>1, <2>3, <3>1, <3>2 DEF Matches
    <2>5. B(x).len <= v.len
      BY <1>1, <2>3
    <2>6. x = 0 \/ x = 1
      BY <2>3
    <2> HIDE DEF x
    <2>. QED BY <1>4, <2>4, <2>5, <2>6 DEF Covers
  <1>. QED BY <1>4, <1>7, <1>9, <1>11

(* After k subnets: the blocks lie in the resource, do not meet each other *)
(* or what was reserved, and every subnet that is left lies in one.        *)
LeftAfter(av, k, res, s) ==
  /\ av \in Seq(Net) /\ Inside(av, res)
  /\ (\A x, y \in 1 .. Len(s) : x # y => ~ Agree(s[x], s[y])) =>
       /\ Apart(av)
       /\ \A x \in 1 .. k : Clear(av, s[x])
       /\ \A x \in (k + 1) .. Len(s) : Covers(av, s[x])

(* One more subnet is reserved.                                            *)
LEMMA LeftStep ==
  ASSUME NEW res \in Net, NEW s \in Seq(Net), NEW k \in 1 .. Len(s), NEW av, LeftAfter(av, k - 1, res, s)
  PROVE  LeftAfter(reserve(av, s[k]), k, res, s)
  <1>0. av \in Seq(Net) /\ Inside(av, res) /\ s[k] \in Net /\ res \in Value /\ s[k] \in Value
    BY DEF LeftAfter, Net
  <1>1. CASE BlocksAround(av, s[k]) = {}
    <2>1. reserve(av, s[k]) = av
      BY <1>1 DEF reserve
    <2>2. ~ Covers(av, s[k])
      <3>1. \A x \in 1 .. Len(av) : av[x] \in Value /\ (x \in BlocksAround(av, s[k]) <=> av[x].len <= s[k].len /\ Matches(av[x], s[k]))
        BY <1>0, BlockAround DEF BlocksAround, Net
      <3>. QED BY <1>1, <3>1 DEF Covers
    <2>3. k \in (k - 1 + 1) .. Len(s)
      OBVIOUS
    <2>4. ~ (\A x, y \in 1 .. Len(s) : x # y => ~ Agree(s[x], s[y]))
      BY <2>2, <2>3 DEF LeftAfter
    <2>. QED BY <1>0, <2>1, <2>4 DEF LeftAfter
  <1>2. CASE BlocksAround(av, s[k]) # {}
    <2>1. PICK i \in BlocksAround(av, s[k]) : SplitAt(i, av, s[k], reserve(av, s[k]))
      BY <1>0, <1>2, ReserveSplits
    <2> DEFINE r == reserve(av, s[k])
    <2>2. SplitAt(i, av, s[k], r)
      BY <2>1
    <2> HIDE DEF r
    <2>3. r \in Seq(Net)
      BY <2>2 DEF SplitAt
    <2>4. Inside(r, res)
      BY <1>0, <2>2, SplitInside
    <2>5. ASSUME \A x, y \in 1 .. Len(s) : x # y => ~ Agree(s[x], s[y])
          PROVE  /\ Apart(r)
                 /\ \A x \in 1 .. k : Clear(r, s[x])
                 /\ \A x \in (k + 1) .. Len(s) : Covers(r, s[x])
      <3>1. /\ Apart(av) /\ \A x \in 1 .. (k - 1) : Clear(av, s[x])
            /\ \A x \in (k - 1 + 1) .. Len(s) : Covers(av, s[x])
        BY <2>5 DEF LeftAfter
      <3>2. Apart(r)
        BY <1>0, <2>2, <3>1, SplitApart
      <3>3. Clear(r, s[k])
        BY <1>0, <2>2, <3>1, SplitFree
      <3>4. ASSUME NEW x \in 1 .. (k - 1) PROVE Clear(r, s[x])
        <4>1. s[x] \in Value
          BY DEF Net
        <4>. QED BY <1>0, <2>2, <3>1, <4>1, SplitClear
      <3>5. ASSUME NEW x \in (k + 1) .. Len(s) PROVE Covers(r, s[x])
        <4>1. x \in 1 .. Len(s) /\ x # k /\ x \in (k - 1 + 1) .. Len(s)
          OBVIOUS
        <4>2. s[x] \in Net /\ ~ Agree(s[k], s[x])
          BY <2>5, <4>1
        <4>3. Covers(av, s[x])
          BY <3>1, <4>1
        <4>. QED BY <1>0, <2>2, <4>2, <4>3, SplitCovers
      <3>6. \A x \in 1 .. k : x = k \/ x \in 1 .. (k - 1)
        OBVIOUS
      <3>. QED BY <3>2, <3>3, <3>4, <3>5, <3>6
    <2>6. LeftAfter(r, k, res, s)
      BY <2>3, <2>4, <2>5 DEF LeftAfter
    <2>. QED BY <2>6 DEF r
  <1>. QED BY <1>1, <1>2

(* All subnets are reserved.                                               *)
LEMMA LeftAtEnd ==
  ASSUME NEW res \in Net, res.len < Width, NEW s \in Seq(Net), \A x \in 1 .. Len(s) : Within(s[x], res, FALSE)
  PROVE  LeftAfter(Reserved(res, s), Len(s), res, s)
  <1>1. PICK g : /\ Reserved(res, s) = g[Len(s)] /\ g[0] = Halves(res)
                 /\ \A k \in 1 .. Len(s) : g[k] = reserve(g[k - 1], s[k])
    BY ReservedSteps
  <1> DEFINE Bad == {k \in 0 .. Len(s) : ~ LeftAfter(g[k], k, res, s)}
  <1>2. LeftAfter(g[0], 0, res, s)
    <2>1. \A x \in 1 .. Len(s) : s[x] \in Net
      OBVIOUS
    <2>2. Halves(res) \in Seq(Net) /\ Apart(Halves(res)) /\ Inside(Halves(res), res)
      BY HalvesFacts
    <2>3. \A x \in 1 .. Len(s) : Covers(Halves(res), s[x])
      BY <2>1, HalvesFacts
    <2>4. 0 + 1 = 1 /\ \A x \in 1 .. 0 : FALSE
      OBVIOUS
    <2>. QED BY <1>1, <2>2, <2>3, <2>4 DEF LeftAfter
  <1>3. Bad = {}
    <2>1. SUFFICES ASSUME Bad # {} PROVE FALSE
      OBVIOUS
    <2>2. Bad \subseteq Nat
      OBVIOUS
    <2>3. PICK k \in Bad : \A y \in Bad : k <= y
      <3> HIDE DEF Bad
      <3>. QED BY <2>1, <2>2, LeastNumber
    <2>4. k # 0 /\ k \in 1 .. Len(s)
      BY <1>2
    <2>5. k - 1 \in 0 .. Len(s) /\ k - 1 \notin Bad
      BY <2>3, <2>4
    <2>6. LeftAfter(g[k - 1], k - 1, res, s)
      BY <2>5
    <2>7. LeftAfter(g[k], k, res, s)
      BY <2>4, <2>6, <1>1, LeftStep
    <2>. QED BY <2>7
  <1>. QED BY <1>1, <1>3

(* The order in which subnets are reserved leaves none out. *)
LEMMA OrderAll ==
  ASSUME NEW S, IsFiniteSet(S), NEW s \in InOrder(S)
  PROVE  s \in Seq(S) /\ \A x \in S : \E i \in 1 .. Len(s) : s[i] = x
  <1> DEFINE n == Cardinality(S)
  <1>1. n \in Nat
    BY FS_CardinalityType
  <1>2. s \in [1 .. n -> S] /\ \A i, j \in 1 .. n : i # j => s[i] # s[j]
    BY DEF InOrder, SetToSeqs
  <1> HIDE DEF n
  <1>3. s \in Injection(1 .. n, S)
    BY <1>2 DEF Injection, IsInjective
  <1>4. IsFiniteSet(1 .. n) /\ Cardinality(1 .. n) = n
    <2>1. IsFiniteSet(1 .. n) /\ Cardinality(1 .. n) = IF 1 > n THEN 0 ELSE n - 1 + 1
      BY <1>1, FS_Interval
    <2>. QED BY <1>1, <2>1
  <1>5. s \in Surjection(1 .. n, S)
    BY <1>3, <1>4, FS_Injection DEF n
  <1>6. s \in Seq(S) /\ Len(s) = n
    BY <1>1, <1>2
  <1>. QED BY <1>5, <1>6 DEF Surjection

-----------------------------------------------------------------------------
(* Types.                                                                  *)

(* A value that the code may write for the node n.                         *)
ValueFor(n, v) == v \in Value /\ (n \in Prefix => v \in Net)

(* What a request carries from its reads to its writes.                    *)
JobTyped(j) ==
  /\ j.stage = "save" => j.value \in Value /\ (j.kind = Prefix => j.value \in Net)
  /\ j.stage = "commit" =>
       /\ ValueFor(j.node, j.value)
       /\ j.op \in {"create", "update", "delete"}
       /\ j.op # "delete" => j.node \in DOMAIN j.todo
       /\ j.op = "delete" => j.node \in Prefix
  /\ j.stage \in {"commit", "write"} => \A m \in DOMAIN j.todo : j.todo[m] \subseteq Prefix

(* The values and parents of the nodes.                                    *)
Typed ==
  /\ \A n \in Node : value[n] = <<>> \/ ValueFor(n, value[n])
  /\ parent \in [Node -> SUBSET Prefix] /\ past \in [Node -> SUBSET Prefix]
  /\ \A r \in Request : JobTyped(job[r])

LEMMA GivenValue == ASSUME Typed, NEW n \in Node, value[n] # <<>> PROVE value[n] \in Value /\ (n \in Prefix => value[n] \in Net)
  BY DEF Typed, ValueFor

LEMMA AliveValue == ASSUME Typed, Given, NEW n \in alive PROVE n \in Node /\ value[n] \in Value /\ (n \in Prefix => value[n] \in Net)
  BY GivenValue DEF Given

(* The subnets of a resource are networks inside it, and finitely many.    *)
LEMMA SubnetFacts ==
  ASSUME Typed, NEW res
  PROVE  /\ Subnets(res) \subseteq Net /\ IsFiniteSet(Subnets(res))
         /\ \A v \in Subnets(res) : Within(v, res, FALSE)
  <1> DEFINE all == {p \in Prefix : value[p] # <<>> /\ Within(value[p], res, FALSE)}
             Q == {q \in all : past[q] \cap all = {}}
  <1>1. Subnets(res) = {value[p] : p \in Q}
    BY DEF Subnets
  <1>2. Q \subseteq Prefix /\ \A p \in Q : value[p] \in Net /\ Within(value[p], res, FALSE)
    BY GivenValue DEF Node
  <1> HIDE DEF Q
  <1>3. IsFiniteSet(Q)
    BY <1>2, IpamAssumption, FS_Subset
  <1> DEFINE f == [p \in Q |-> value[p]]
  <1>4. f \in Surjection(Q, Subnets(res))
    BY <1>1 DEF Surjection
  <1>5. IsFiniteSet(Subnets(res))
    <2> HIDE DEF f
    <2>. QED BY <1>3, <1>4, FS_Surjection
  <1>. QED BY <1>1, <1>2, <1>5

LEMMA SeqIn == ASSUME NEW S, NEW T, S \subseteq T, NEW s \in Seq(S) PROVE s \in Seq(T) /\ \A x \in 1 .. Len(s) : s[x] \in S
  OBVIOUS

(* What the pool of prefixes gives: the start of a block that is left. *)
LEMMA NextPrefixIs ==
  ASSUME Typed, Given, NEW v \in NextPrefix
  PROVE  \E p \in Resource \cap alive : \E s \in InOrder(Subnets(value[p])) : \E i \in 1 .. Len(Reserved(value[p], s)) :
           LET b == Reserved(value[p], s)[i]
           IN  /\ value[p] \in Net /\ value[p].len < Width /\ s \in Seq(Net)
               /\ LeftAfter(Reserved(value[p], s), Len(s), value[p], s)
               /\ b \in Net /\ b.len <= PoolLength /\ v = [bits |-> b.bits, len |-> PoolLength]
  <1>1. PICK p \in {q \in Resource \cap alive : value[q].len < Width} :
          \E available \in Available(value[p]) : v \in get(available, PoolLength)
    BY DEF NextPrefix
  <1>2. PICK s \in InOrder(Subnets(value[p])) : v \in get(Reserved(value[p], s), PoolLength)
    BY <1>1 DEF Available
  <1>3. p \in Resource \cap alive /\ value[p].len < Width
    BY <1>1
  <1>4. value[p] \in Net
    BY <1>3, AliveValue, IpamAssumption
  <1>5. s \in Seq(Subnets(value[p]))
    BY <1>2, SubnetFacts, OrderAll
  <1>6. s \in Seq(Net) /\ \A x \in 1 .. Len(s) : Within(s[x], value[p], FALSE)
    BY <1>5, SubnetFacts, SeqIn
  <1> DEFINE av == Reserved(value[p], s)
  <1>7. LeftAfter(av, Len(s), value[p], s)
    BY <1>3, <1>4, <1>6, LeftAtEnd
  <1>8. PICK i \in DOMAIN av : av[i].len <= PoolLength /\ v = [bits |-> av[i].bits, len |-> PoolLength]
    <2>1. v \in get(av, PoolLength)
      BY <1>2
    <2> HIDE DEF av
    <2>. QED BY <2>1 DEF get
  <1>9. av \in Seq(Net)
    BY <1>7 DEF LeftAfter
  <1>10. i \in 1 .. Len(av) /\ av[i] \in Net
    <2> HIDE DEF av
    <2>. QED BY <1>8, <1>9
  <1>. QED BY <1>2, <1>3, <1>4, <1>6, <1>7, <1>8, <1>10

(* The first part of a block.                                              *)
LEMMA PartNet ==
  ASSUME NEW b \in Net, b.len <= PoolLength, NEW v, v = [bits |-> b.bits, len |-> PoolLength]
  PROVE  v \in Net /\ b.len <= v.len /\ Matches(b, v) /\ v.len = PoolLength
  <1>1. b.bits \in [1 .. Width -> {0, 1}] /\ b.len \in 0 .. Width /\ IsNetwork(b)
    BY ValueFields DEF Net
  <1>2. PoolLength \in 1 .. Width
    BY IpamAssumption
  <1>3. v.bits = b.bits /\ v.len = PoolLength
    OBVIOUS
  <1>4. v \in Value
    BY <1>1, <1>2, WidthNat DEF Value
  <1>5. IsNetwork(v)
    BY <1>1, <1>2, <1>3, WidthNat DEF IsNetwork
  <1>6. Matches(b, v)
    BY <1>3 DEF Matches
  <1>. QED BY <1>3, <1>4, <1>5, <1>6 DEF Net

(* What the pool of addresses gives: an address of a resource that is not  *)
(* used.                                                                   *)
LEMMA NextAddressIs ==
  ASSUME Typed, Given, NEW v \in NextAddress
  PROVE  v \in Value /\ \E p \in Resource \cap alive :
           /\ v.len = value[p].len /\ value[p] \in Net
           /\ IsPrefix(HostBits(value[p]), v.bits) /\ v.bits \notin UsedAddresses(value[p])
  <1>1. PICK p \in Resource \cap alive : \E b \in [1 .. Width -> {0, 1}] :
          /\ IsPrefix(HostBits(value[p]), b) /\ b \notin UsedAddresses(value[p])
          /\ v = [bits |-> b, len |-> value[p].len]
    BY DEF NextAddress
  <1>2. PICK b \in [1 .. Width -> {0, 1}] :
          /\ IsPrefix(HostBits(value[p]), b) /\ b \notin UsedAddresses(value[p])
          /\ v = [bits |-> b, len |-> value[p].len]
    BY <1>1
  <1>3. value[p] \in Net
    BY <1>1, AliveValue, IpamAssumption
  <1>4. value[p].len \in 0 .. Width
    BY <1>3, ValueFields DEF Net
  <1>5. v \in Value /\ v.bits = b /\ v.len = value[p].len
    BY <1>2, <1>4 DEF Value
  <1>. QED BY <1>1, <1>2, <1>3, <1>5

LEMMA NextTyped ==
  ASSUME Typed, Given, NEW S \in {Prefix, Address}, NEW v \in NextOf(S)
  PROVE  v \in Value /\ (S = Prefix => v \in Net)
  <1>1. CASE S = Prefix
    <2>1. v \in NextPrefix
      BY <1>1 DEF NextOf
    <2>2. PICK b \in Net : b.len <= PoolLength /\ v = [bits |-> b.bits, len |-> PoolLength]
      BY <2>1, NextPrefixIs
    <2>3. v \in Net
      BY <2>2, PartNet
    <2>. QED BY <2>3 DEF Net
  <1>2. CASE S # Prefix
    <2>1. v \in NextAddress
      BY <1>2 DEF NextOf
    <2>. QED BY <1>2, <2>1, NextAddressIs
  <1>. QED BY <1>1, <1>2

LEMMA AskedTyped == ASSUME NEW n \in Node, NEW v \in Asked(n) PROVE ValueFor(n, v)
  BY IpamAssumption DEF Asked, ValueFor, Net

(* The writes of a reconciliation. *)
PlanOf(p, n, v, calculated, current) ==
  /\ DOMAIN p = {n} \cup (CurrentChildren(n) \ NewChildren(n, v)) \cup (NewChildren(n, v) \ CurrentChildren(n))
  /\ \A m \in DOMAIN p : p[m] = IF m = n THEN calculated ELSE IF m \in CurrentChildren(n) THEN current ELSE {n}

LEMMA PlanIs ==
  ASSUME NEW n, NEW v, NEW p \in Reconciled(n, v)
  PROVE  \E calculated \in FirstOf(NewParents(n, v)), current \in FirstOf(parent[n]) : PlanOf(p, n, v, calculated, current)
  BY DEF Reconciled, PlanOf

LEMMA FirstSubset == ASSUME NEW S, NEW x \in FirstOf(S) PROVE x \subseteq S
  BY DEF FirstOf

(* A plan writes the node itself, and prefixes as parents.                 *)
LEMMA PlanTyped ==
  ASSUME Typed, NEW n \in Node, NEW v, NEW p \in Reconciled(n, v)
  PROVE  n \in DOMAIN p /\ \A m \in DOMAIN p : p[m] \subseteq Prefix
  <1>1. PICK calculated \in FirstOf(NewParents(n, v)), current \in FirstOf(parent[n]) :
           PlanOf(p, n, v, calculated, current)
    BY PlanIs
  <1>2. calculated \subseteq Prefix
    <2>1. calculated \subseteq NewParents(n, v)
      BY FirstSubset
    <2>2. NewParents(n, v) \subseteq Prefix
      BY DEF NewParents
    <2>. QED BY <2>1, <2>2
  <1>3. current \subseteq Prefix
    BY FirstSubset DEF Typed
  <1>4. \A m \in NewChildren(n, v) : n \in Prefix
    BY DEF NewChildren
  <1>. QED BY <1>1, <1>2, <1>3, <1>4 DEF PlanOf

LEMMA TypedStep ==
  ASSUME PInv, Typed, NEW r \in Request, NEW j, job' = [job EXCEPT ![r] = j], JobTyped(j),
         \A n \in Node : value'[n] = <<>> \/ ValueFor(n, value'[n]),
         parent' \in [Node -> SUBSET Prefix], past' \in [Node -> SUBSET Prefix]
  PROVE  Typed'
  <1>1. DOMAIN job' = Request /\ job'[r] = j /\ \A q \in Request : q # r => job'[q] = job[q]
    BY OneJob DEF PInv
  <1>2. \A q \in Request : JobTyped(job'[q])
    BY <1>1 DEF Typed
  <1>. QED BY <1>2 DEF Typed, JobTyped, ValueFor

LEMMA IdleTyped == JobTyped(Idle)
  BY DEF Idle, JobTyped

LEMMA TransactTyped ==
  ASSUME PInv, Typed, NEW r \in Request, NEW op \in {"create", "update", "delete"}, NEW n \in Node, NEW v, ValueFor(n, v),
         NEW plans, Transaction(r, op, n, v, plans), \A p \in plans : \A m \in DOMAIN p : p[m] \subseteq Prefix,
         op # "delete" => \A p \in plans : n \in DOMAIN p, op = "delete" => n \in Prefix
  PROVE  Typed'
  <1>1. PICK todo \in plans : job' = [job EXCEPT ![r] = [stage |-> "commit", op |-> op, node |-> n, value |-> v, todo |-> todo]]
    BY DEF Transaction
  <1> DEFINE j == [stage |-> "commit", op |-> op, node |-> n, value |-> v, todo |-> todo]
  <1>2. j.stage = "commit" /\ j.op = op /\ j.node = n /\ j.value = v /\ j.todo = todo
    OBVIOUS
  <1>3. job' = [job EXCEPT ![r] = j]
    BY <1>1
  <1> HIDE DEF j
  <1>4. JobTyped(j)
    BY <1>2 DEF JobTyped
  <1>5. value' = value /\ parent' = parent /\ past' = past
    BY DEF Transaction, tree
  <1>. QED BY <1>3, <1>4, <1>5, TypedStep DEF Typed

LEMMA WrittenTyped ==
  ASSUME Typed, NEW todo, NEW A, \A m \in DOMAIN todo : todo[m] \subseteq Prefix
  PROVE  Written(todo, A) \in [Node -> SUBSET Prefix] /\ Remembered(Written(todo, A)) \in [Node -> SUBSET Prefix]
  <1>1. \A m \in Node : Written(todo, A)[m] \subseteq Prefix
    BY DEF Written, Typed
  <1>2. Written(todo, A) \in [Node -> SUBSET Prefix]
    BY <1>1 DEF Written
  <1> DEFINE new == Written(todo, A)
  <1> HIDE DEF new
  <1>3. new \in [Node -> SUBSET Prefix]
    BY <1>2 DEF new
  <1>4. Remembered(new) \in [Node -> SUBSET Prefix]
    BY <1>3 DEF Remembered, Typed
  <1>. QED BY <1>2, <1>4 DEF new

(* One of the saves of a reconciliation.                                   *)
LEMMA WriteFacts ==
  ASSUME PInv, NEW r \in Request, Write(r)
  PROVE  \E m \in DOMAIN job[r].todo :
           LET n == job[r].node
               todo == job[r].todo
               rest == [k \in DOMAIN todo \ {m} |-> todo[k]]
               one == [k \in {m} |-> todo[m]]
               j == IF DOMAIN rest # {} THEN [stage |-> "write", node |-> n, id |-> job[r].id, todo |-> rest]
                    ELSE AfterWrites(n, job[r].id)
           IN  /\ parent' = Written(one, alive)
               /\ past' = Remembered(Written(one, alive))
               /\ clean' = (clean /\ n \in alive /\ UpToDate(todo, Reconciled(n, value[n]), n))
               /\ job' = [job EXCEPT ![r] = j]
  <1>1. job[r].stage = "write" /\ job[r] = [stage |-> "write", node |-> job[r].node, id |-> job[r].id, todo |-> job[r].todo]
    BY DEF Write, PInv, Shape
  <1>2. \A rest : [job[r] EXCEPT !.todo = rest] = [stage |-> "write", node |-> job[r].node, id |-> job[r].id, todo |-> rest]
    BY <1>1
  <1>3. DOMAIN job = Request
    BY DEF PInv, Shape
  <1>. QED BY <1>2, <1>3 DEF Write

(* Every step keeps the types.                                             *)
LEMMA NextTypedInv == PInv /\ Typed /\ [Next]_vars => Typed'
  <1> SUFFICES ASSUME PInv, Typed, [Next]_vars PROVE Typed'
    OBVIOUS
  <1>0. Given /\ Shape
    BY DEF PInv
  <1>1. CASE UNCHANGED vars
    BY <1>1 DEF vars, Typed, JobTyped, ValueFor
  <1>2. CASE DeleteAddress
    <2>1. PICK a \in alive \cap Address : parent' = [parent EXCEPT ![a] = {}]
      BY <1>2 DEF DeleteAddress
    <2>2. value' = value /\ job' = job /\ past' = past
      BY <1>2 DEF DeleteAddress
    <2>3. parent' \in [Node -> SUBSET Prefix]
      BY <2>1 DEF Typed
    <2>. QED BY <2>2, <2>3 DEF Typed, JobTyped, ValueFor
  <1>3. ASSUME NEW r \in Request, Create(r) PROVE Typed'
    <2>1. PICK n \in Fresh(Prefix) \cup Fresh(Address) : \E v \in Asked(n) : Transaction(r, "create", n, v, Reconciled(n, v))
      BY <1>3 DEF Create
    <2>2. PICK v \in Asked(n) : Transaction(r, "create", n, v, Reconciled(n, v))
      BY <2>1
    <2>3. n \in Node
      BY <2>1, FreshFacts DEF Node
    <2>4. \A p \in Reconciled(n, v) : n \in DOMAIN p /\ \A m \in DOMAIN p : p[m] \subseteq Prefix
      BY <2>3, PlanTyped
    <2>. QED BY <2>2, <2>3, <2>4, AskedTyped, TransactTyped
  <1>4. ASSUME NEW r \in Request, Update(r) PROVE Typed'
    <2>1. PICK n \in alive : \E v \in Asked(n) \ {value[n]} : Transaction(r, "update", n, v, Reconciled(n, v))
      BY <1>4 DEF Update
    <2>2. PICK v \in Asked(n) : Transaction(r, "update", n, v, Reconciled(n, v))
      BY <2>1
    <2>3. n \in Node
      BY <1>0, <2>1 DEF Given
    <2>4. \A p \in Reconciled(n, v) : n \in DOMAIN p /\ \A m \in DOMAIN p : p[m] \subseteq Prefix
      BY <2>3, PlanTyped
    <2>. QED BY <2>2, <2>3, <2>4, AskedTyped, TransactTyped
  <1>5. ASSUME NEW r \in Request, Delete(r) PROVE Typed'
    <2>1. PICK n \in alive \cap Prefix : Transaction(r, "delete", n, value[n], ReconciledForDelete(n))
      BY <1>5 DEF Delete
    <2>2. n \in Node /\ ValueFor(n, value[n])
      BY <1>0, <2>1, AliveValue DEF ValueFor
    <2>3. \A p \in ReconciledForDelete(n) : \A m \in DOMAIN p : p[m] \subseteq Prefix
      <3>1. \A x \in FirstOf(parent[n]) : x \subseteq Prefix
        BY <2>2, FirstSubset DEF Typed
      <3>. QED BY <3>1 DEF ReconciledForDelete
    <2>. QED BY <2>1, <2>2, <2>3, TransactTyped
  <1>6. ASSUME NEW r \in Request, CommitSave(r) PROVE Typed'
    <2>1. /\ job[r].stage = "commit" /\ value' = [value EXCEPT ![job[r].node] = job[r].value] /\ job' = [job EXCEPT ![r] = Idle]
          /\ parent' = Written(job[r].todo, alive') /\ past' = Remembered(Written(job[r].todo, alive'))
      BY <1>6 DEF CommitSave
    <2>2. ValueFor(job[r].node, job[r].value) /\ \A m \in DOMAIN job[r].todo : job[r].todo[m] \subseteq Prefix
      BY <2>1 DEF Typed, JobTyped
    <2>3. parent' \in [Node -> SUBSET Prefix] /\ past' \in [Node -> SUBSET Prefix]
      BY <2>1, <2>2, WrittenTyped
    <2>4. \A n \in Node : value'[n] = <<>> \/ ValueFor(n, value'[n])
      <3>1. \A n \in Node : value'[n] = IF n = job[r].node THEN job[r].value ELSE value[n]
        BY <1>0, <2>1 DEF Shape
      <3>. QED BY <3>1, <2>2 DEF Typed
    <2>. QED BY <2>1, <2>3, <2>4, IdleTyped, TypedStep
  <1>7. ASSUME NEW r \in Request, CommitDelete(r) PROVE Typed'
    <2> DEFINE moved == Written(job[r].todo, alive)
    <2>1. /\ job[r].stage = "commit" /\ value' = value /\ job' = [job EXCEPT ![r] = Idle]
          /\ parent' = [m \in Node |-> IF m = job[r].node THEN {} ELSE moved[m] \ {job[r].node}] /\ past' = Remembered(moved)
      BY <1>7 DEF CommitDelete
    <2>2. \A m \in DOMAIN job[r].todo : job[r].todo[m] \subseteq Prefix
      BY <2>1 DEF Typed, JobTyped
    <2>3. moved \in [Node -> SUBSET Prefix] /\ past' \in [Node -> SUBSET Prefix]
      BY <2>1, <2>2, WrittenTyped
    <2> HIDE DEF moved
    <2>4. parent' \in [Node -> SUBSET Prefix]
      BY <2>1, <2>3
    <2>5. \A n \in Node : value'[n] = <<>> \/ ValueFor(n, value'[n])
      BY <2>1 DEF Typed
    <2>. QED BY <2>1, <2>3, <2>4, <2>5, IdleTyped, TypedStep
  <1>8. ASSUME NEW r \in Request, NEW j, job' = [job EXCEPT ![r] = j], JobTyped(j), UNCHANGED tree PROVE Typed'
    BY <1>8, TypedStep DEF tree, Typed
  <1>9. ASSUME NEW r \in Request, GetResource(r) PROVE Typed'
    <2>1. PICK S, id : job' = [job EXCEPT ![r] = [stage |-> "pick", kind |-> S, id |-> id]]
      BY <1>9 DEF GetResource
    <2> DEFINE j == [stage |-> "pick", kind |-> S, id |-> id]
    <2>2. JobTyped(j)
      BY DEF JobTyped
    <2>3. UNCHANGED tree /\ job' = [job EXCEPT ![r] = j]
      BY <1>9, <2>1 DEF GetResource
    <2> HIDE DEF j
    <2>. QED BY <2>2, <2>3, <1>8
  <1>10. ASSUME NEW r \in Request, Pick(r) PROVE Typed'
    <2>1. job[r].stage = "pick" /\ UNCHANGED tree /\ job[r].kind \in {Prefix, Address}
      BY <1>0, <1>10 DEF Pick, Shape
    <2>2. CASE job' = [job EXCEPT ![r] = Idle]
      BY <2>1, <2>2, <1>8, IdleTyped
    <2>3. ASSUME NEW v \in NextOf(job[r].kind),
                 job' = [job EXCEPT ![r] = [stage |-> "save", kind |-> job[r].kind, id |-> job[r].id, value |-> v]]
          PROVE  Typed'
      <3> DEFINE j == [stage |-> "save", kind |-> job[r].kind, id |-> job[r].id, value |-> v]
      <3>1. j.stage = "save" /\ j.kind = job[r].kind /\ j.value = v
        OBVIOUS
      <3>2. v \in Value /\ (job[r].kind = Prefix => v \in Net)
        BY <1>0, <2>1, NextTyped
      <3>3. job' = [job EXCEPT ![r] = j]
        BY <2>3
      <3> HIDE DEF j
      <3>4. JobTyped(j)
        BY <3>1, <3>2 DEF JobTyped
      <3>. QED BY <2>1, <3>3, <3>4, <1>8
    <2>. QED BY <1>10, <2>2, <2>3 DEF Pick
  <1>11. ASSUME NEW r \in Request, Save(r) PROVE Typed'
    <2>1. PICK n \in Fresh(job[r].kind) :
            /\ value' = [value EXCEPT ![n] = job[r].value]
            /\ job' = [job EXCEPT ![r] = [stage |-> "query", node |-> n, id |-> job[r].id]]
      BY <1>11 DEF Save
    <2>2. job[r].stage = "save" /\ parent' = parent /\ past' = past
      BY <1>11 DEF Save
    <2>3. job[r].kind \in {Prefix, Address} /\ job[r].value \in Value /\ (job[r].kind = Prefix => job[r].value \in Net)
      BY <1>0, <2>2 DEF Shape, Typed, JobTyped
    <2>4. n \in job[r].kind
      BY <2>1, FreshFacts
    <2>5. ValueFor(n, job[r].value)
      BY <2>3, <2>4, IpamAssumption DEF ValueFor
    <2>6. \A m \in Node : value'[m] = <<>> \/ ValueFor(m, value'[m])
      <3>1. \A m \in Node : value'[m] = IF m = n THEN job[r].value ELSE value[m]
        BY <1>0, <2>1 DEF Shape
      <3>. QED BY <3>1, <2>5 DEF Typed
    <2> DEFINE j == [stage |-> "query", node |-> n, id |-> job[r].id]
    <2>7. JobTyped(j) /\ job' = [job EXCEPT ![r] = j]
      BY <2>1 DEF JobTyped
    <2> HIDE DEF j
    <2>. QED BY <2>2, <2>6, <2>7, TypedStep DEF Typed
  <1>12. ASSUME NEW r \in Request, Query(r) PROVE Typed'
    <2>1. job[r].stage = "query" /\ UNCHANGED tree
      BY <1>12 DEF Query
    <2>2. CASE job' = [job EXCEPT ![r] = Idle]
      BY <2>1, <2>2, <1>8, IdleTyped
    <2>3. ASSUME NEW todo \in Reconciled(job[r].node, value[job[r].node]),
                 job' = [job EXCEPT ![r] = [stage |-> "write", node |-> job[r].node, id |-> job[r].id, todo |-> todo]]
          PROVE  Typed'
      <3> DEFINE n == job[r].node
                 j == [stage |-> "write", node |-> n, id |-> job[r].id, todo |-> todo]
      <3>1. j.stage = "write" /\ j.todo = todo
        OBVIOUS
      <3>2. n \in Node
        BY <1>0, <2>1 DEF Given, Placing
      <3>3. job' = [job EXCEPT ![r] = j]
        BY <2>3
      <3> HIDE DEF j, n
      <3>4. \A m \in DOMAIN todo : todo[m] \subseteq Prefix
        BY <3>2, PlanTyped DEF n
      <3>5. JobTyped(j)
        BY <3>1, <3>4 DEF JobTyped
      <3>. QED BY <2>1, <3>3, <3>5, <1>8
    <2>. QED BY <1>12, <2>2, <2>3 DEF Query
  <1>13. ASSUME NEW r \in Request, Write(r) PROVE Typed'
    <2> DEFINE n == job[r].node
               todo == job[r].todo
    <2>1. job[r].stage = "write" /\ value' = value
      BY <1>13 DEF Write
    <2>2. \A m \in DOMAIN todo : todo[m] \subseteq Prefix
      BY <2>1 DEF Typed, JobTyped
    <2>3. PICK m \in DOMAIN todo :
            LET rest == [k \in DOMAIN todo \ {m} |-> todo[k]]
                one == [k \in {m} |-> todo[m]]
                j == IF DOMAIN rest # {} THEN [stage |-> "write", node |-> n, id |-> job[r].id, todo |-> rest]
                     ELSE AfterWrites(n, job[r].id)
            IN  /\ parent' = Written(one, alive)
                /\ past' = Remembered(Written(one, alive))
                /\ job' = [job EXCEPT ![r] = j]
      BY <1>13, WriteFacts
    <2> DEFINE rest == [k \in DOMAIN todo \ {m} |-> todo[k]]
               one == [k \in {m} |-> todo[m]]
               j == IF DOMAIN rest # {} THEN [stage |-> "write", node |-> n, id |-> job[r].id, todo |-> rest]
                    ELSE AfterWrites(n, job[r].id)
    <2>4. parent' = Written(one, alive) /\ past' = Remembered(Written(one, alive)) /\ job' = [job EXCEPT ![r] = j]
      BY <2>3
    <2>5. (\A k \in DOMAIN one : one[k] \subseteq Prefix) /\ (\A k \in DOMAIN rest : rest[k] \subseteq Prefix)
      BY <2>2
    <2>6. JobTyped(j)
      <3>1. CASE j = AfterWrites(n, job[r].id)
        <4>1. JobTyped([stage |-> "reserve", node |-> n, id |-> job[r].id])
          BY DEF JobTyped
        <4>. QED BY <3>1, <4>1, IdleTyped DEF AfterWrites
      <3>2. CASE j = [stage |-> "write", node |-> n, id |-> job[r].id, todo |-> rest]
        <4> HIDE DEF rest, n
        <4>1. j.stage = "write" /\ j.todo = rest
          BY <3>2
        <4> HIDE DEF j
        <4>. QED BY <4>1, <2>5 DEF JobTyped
      <3>. QED BY <3>1, <3>2
    <2>7. parent' \in [Node -> SUBSET Prefix] /\ past' \in [Node -> SUBSET Prefix]
      <3> HIDE DEF one
      <3>. QED BY <2>4, <2>5, WrittenTyped
    <2>8. \A k \in Node : value'[k] = <<>> \/ ValueFor(k, value'[k])
      BY <2>1 DEF Typed
    <2> HIDE DEF j
    <2>. QED BY <2>4, <2>6, <2>7, <2>8, TypedStep
  <1>14. ASSUME NEW r \in Request, Reserve(r) PROVE Typed'
    BY <1>14, <1>8, IdleTyped DEF Reserve
  <1>15. ASSUME NEW r \in Request, Fail(r) PROVE Typed'
    BY <1>15, <1>8, IdleTyped DEF Fail
  <1>. QED
    BY <1>1, <1>2, <1>3, <1>4, <1>5, <1>6, <1>7, <1>9, <1>10, <1>11, <1>12, <1>13, <1>14, <1>15 DEF Next

LEMMA InitTyped == Init => Typed
  <1> SUFFICES ASSUME Init PROVE Typed
    OBVIOUS
  <1>1. \A n \in Resource : ValueFor(n, Start[n])
    BY IpamAssumption DEF ValueFor, Net
  <1>2. \A n \in Node : value[n] = <<>> \/ ValueFor(n, value[n])
    BY <1>1 DEF Init
  <1>. QED BY <1>2, IdleTyped DEF Init, Typed

-----------------------------------------------------------------------------
(* Nodes that a pool saved and has not placed.                             *)

(* Requests whose node a pool saved and has not placed. *)
Unsaved(r) == job[r].stage = "query" \/ (job[r].stage = "write" /\ job[r].node \in DOMAIN job[r].todo)
Exempt == {job[r].node : r \in {q \in Request : Unsaved(q)}}

(* The tree follows containment until the first incident, but for what a   *)
(* pool has still to place.                                                *)
Tree == clean => TreeIn(alive, value, parent, Exempt, Unplaced)

LEMMA ExemptUnplaced == Exempt \subseteq Unplaced
  BY DEF Exempt, Unplaced, Unsaved

LEMMA MoreExempt ==
  ASSUME NEW A, NEW val, NEW par, NEW E, NEW U, NEW E2, NEW U2, TreeIn(A, val, par, E, U), E \subseteq E2, U \subseteq U2
  PROVE  TreeIn(A, val, par, E2, U2)
  BY DEF TreeIn

(* A node that is gone needs no exemption.                                 *)
LEMMA DeadExempt ==
  ASSUME NEW A, NEW val, NEW par, NEW E, NEW U, NEW E2, NEW U2, NEW n, n \notin A,
         TreeIn(A, val, par, E, U), E \ {n} \subseteq E2, U \ {n} \subseteq U2
  PROVE  TreeIn(A, val, par, E2, U2)
  <1>1. ASSUME NEW d \in A PROVE d \in E2 \/ PlacedIn(A, val, par, d) \/ \E u \in U2 : ClosestIn(A, val, d) = {u}
    <2>1. n \notin ClosestIn(A, val, d)
      BY DEF ClosestIn, AroundIn
    <2>2. d \in E \/ PlacedIn(A, val, par, d) \/ \E u \in U : ClosestIn(A, val, d) = {u}
      BY DEF TreeIn
    <2>. QED BY <2>1, <2>2
  <1>. QED BY <1>1 DEF TreeIn

(* An address goes: it is in nobody's place. *)
LEMMA AddressGoes ==
  ASSUME NEW A, NEW val, NEW par, NEW par2, NEW E, NEW U, TreeIn(A, val, par, E, U), A \subseteq Node, NEW a \in Address,
         \A m \in Node : par2[m] = IF m = a THEN {} ELSE par[m]
  PROVE  TreeIn(A \ {a}, val, par2, E, U)
  <1> DEFINE B == A \ {a}
  <1>1. a \notin Prefix
    BY IpamAssumption
  <1>2. ASSUME NEW d \in B PROVE AroundIn(B, val, d) = AroundIn(A, val, d) /\ par2[d] = par[d] /\ d \in A
    BY <1>1 DEF AroundIn
  <1>3. ASSUME NEW d \in B PROVE ClosestIn(B, val, d) = ClosestIn(A, val, d)
    BY <1>2 DEF ClosestIn
  <1>4. ~ Doubled(B, val)
    BY DEF TreeIn, Doubled
  <1>5. \A m \in Node \ B : par2[m] = {}
    BY DEF TreeIn
  <1>6. ASSUME NEW d \in B
        PROVE  /\ par2[d] \subseteq AroundIn(B, val, d) /\ \A p, q \in par2[d] : p = q
               /\ d \in E \/ PlacedIn(B, val, par2, d) \/ \E u \in U : ClosestIn(B, val, d) = {u}
    <2> HIDE DEF B
    <2>1. PlacedIn(A, val, par, d) => PlacedIn(B, val, par2, d)
      BY <1>2, <1>3 DEF PlacedIn
    <2>. QED BY <1>2, <1>3, <2>1 DEF TreeIn
  <1> HIDE DEF B
  <1>7. TreeIn(B, val, par2, E, U)
    BY <1>4, <1>5, <1>6 DEF TreeIn
  <1>. QED BY <1>7 DEF B

(* One of the saves of a reconciliation that runs in no transaction: m is  *)
(* written, n is the node it is for, E and U become E2 and U2.             *)
SavesOne(A, val, par, par2, n, m) ==
  /\ n \in A /\ m \in A
  /\ \A k \in Node : par2[k] = IF k # m THEN par[k]
                                ELSE IF m = n THEN ParentsIn(A, val, n)
                                ELSE IF n \in par[m] THEN par[n] ELSE {n}
  /\ m # n => (n \in par[m] <=> m \notin ChildrenIn(A, val, n))

(* The exemptions of n end when it is written, those of its children with  *)
(* the last save.                                                          *)
LeavesOpen(A, val, par, n, m, E, U, E2, U2) ==
  /\ E \ {n} \subseteq E2 /\ (n \in E => n \in E2 \/ m = n)
  /\ U \ {n} \subseteq U2
  /\ U \subseteq U2 \/ \A d \in A \ {n} : d \in ChildrenIn(A, val, n) /\ n \notin par[d] => d = m

LEMMA PlacesOne ==
  ASSUME NEW A, NEW val, NEW par, NEW par2, NEW E, NEW U, NEW E2, NEW U2, NEW n, NEW m,
         TreeIn(A, val, par, E, U), Valued(A, val),
         SavesOne(A, val, par, par2, n, m), LeavesOpen(A, val, par, n, m, E, U, E2, U2)
  PROVE  TreeIn(A, val, par2, E2, U2)
  <1>0. ~ Doubled(A, val) /\ A \subseteq Node
    BY DEF TreeIn, Valued
  <1> USE DEF SavesOne, LeavesOpen
  <1>1. \A k \in Node \ A : par2[k] = {}
    BY DEF TreeIn
  <1>2. ASSUME NEW d \in A
        PROVE  /\ par2[d] \subseteq AroundIn(A, val, d) /\ \A p, q \in par2[d] : p = q
               /\ d \in E2 \/ PlacedIn(A, val, par2, d) \/ \E u \in U2 : ClosestIn(A, val, d) = {u}
    <2>0. d \in Node
      BY <1>0
    <2>1. CASE d = m /\ m = n
      <3>1. par2[d] = ParentsIn(A, val, n)
        BY <2>0, <2>1
      <3>. QED BY <3>1, <2>1, <1>0, ParentsClosest, ParentsOne DEF PlacedIn
    <2>2. CASE d = m /\ m # n /\ n \in par[m]
      <3>1. par2[d] = par[n]
        BY <2>0, <2>2
      <3>2. n \in AroundIn(A, val, d)
        BY <2>2 DEF TreeIn
      <3>3. AroundIn(A, val, n) \subseteq AroundIn(A, val, d)
        BY <3>2, <1>0, AroundNested
      <3>4. n \notin ClosestIn(A, val, d)
        BY <2>2, <1>0, ChildrenClosest
      <3>5. ~ PlacedIn(A, val, par, d)
        BY <2>2, <3>4 DEF PlacedIn
      <3>6. d \in E \/ \E u \in U : ClosestIn(A, val, d) = {u}
        BY <3>5 DEF TreeIn
      <3>7. d \in E2 \/ \E u \in U2 : ClosestIn(A, val, d) = {u}
        BY <3>4, <3>6, <2>2
      <3>. QED BY <3>1, <3>3, <3>7 DEF TreeIn
    <2>3. CASE d = m /\ m # n /\ n \notin par[m]
      <3>1. par2[d] = {n}
        BY <2>0, <2>3
      <3>2. n \in ClosestIn(A, val, d)
        BY <2>3, <1>0, ChildrenClosest
      <3>3. ClosestIn(A, val, d) = {n}
        BY <3>2, <1>0, ClosestOne
      <3>. QED BY <3>1, <3>2, <3>3 DEF PlacedIn, ClosestIn
    <2>4. CASE d # m
      <3>1. par2[d] = par[d]
        BY <2>0, <2>4
      <3>2. PlacedIn(A, val, par, d) => PlacedIn(A, val, par2, d)
        BY <3>1 DEF PlacedIn
      <3>3. d \in E => d \in E2
        BY <2>4
      <3>4. ASSUME ClosestIn(A, val, d) = {n}, ~ (U \subseteq U2) PROVE PlacedIn(A, val, par, d)
        <4>1. d # n
          BY <3>4 DEF ClosestIn, AroundIn
        <4>2. d \in ChildrenIn(A, val, n)
          BY <3>4, <4>1, <1>0, ChildrenClosest
        <4>3. n \in par[d]
          BY <3>4, <4>1, <4>2, <2>4
        <4>4. par[d] = {n}
          BY <4>3 DEF TreeIn
        <4>. QED BY <4>4, <3>4 DEF PlacedIn
      <3>5. d \in E \/ PlacedIn(A, val, par, d) \/ \E u \in U : ClosestIn(A, val, d) = {u}
        BY DEF TreeIn
      <3>. QED BY <3>1, <3>2, <3>3, <3>4, <3>5 DEF TreeIn
    <2>. QED BY <2>1, <2>2, <2>3, <2>4
  <1>. QED BY <1>0, <1>1, <1>2 DEF TreeIn

-----------------------------------------------------------------------------
(* The query of a reconciliation, and the plan it makes.                   *)

LEMMA ClosestIs == \A n : Closest(n) = ClosestIn(alive, value, n)
  BY DEF Closest, ClosestIn, AroundIn

LEMMA AliveValued == ASSUME Typed, Given PROVE Valued(alive, value)
  BY AliveValue DEF Valued

(* The query of a reconciliation reads what will be there when its         *)
(* transaction commits.                                                    *)
LEMMA NewIs ==
  ASSUME NEW n, NEW v, NEW B, NEW w, OnlyMoves(n, alive, value, B, w), w[n] = v, alive \subseteq Node, B \subseteq Node
  PROVE  NewParents(n, v) = ParentsIn(B, w, n) /\ NewChildren(n, v) = ChildrenIn(B, w, n)
  <1>1. \A m : m # n => (m \in alive <=> m \in B) /\ (m \in alive => w[m] = value[m])
    BY DEF OnlyMoves
  <1> DEFINE mp == {p \in (alive \cap Prefix) \ {n} : MaybeParent(value[p], v, n \in Address)}
             mp2 == {p \in (B \cap Prefix) \ {n} : MaybeParent(w[p], w[n], n \in Address)}
             mc == {c \in alive \ {n} : n \in Prefix /\ Within(value[c], v, c \in Address)}
             mc2 == {c \in B \ {n} : n \in Prefix /\ Within(w[c], w[n], c \in Address)}
  <1>2. mp = mp2
    BY <1>1
  <1>3. mc = mc2
    BY <1>1
  <1>4. (\A p \in mp : value[p] = w[p]) /\ (\A c \in mc : value[c] = w[c])
    BY <1>1
  <1> HIDE DEF mp, mp2, mc, mc2
  <1>5. NewParents(n, v) = {p \in mp : \A q \in mp : value[q].len <= value[p].len}
    BY DEF NewParents, mp
  <1>6. ParentsIn(B, w, n) = {p \in mp2 : \A q \in mp2 : w[q].len <= w[p].len}
    BY DEF ParentsIn, mp2
  <1>7. NewChildren(n, v) = {c \in mc : ~ \E p \in (mc \cap Prefix) \ {c} : Within(value[c], value[p], c \in Address)}
    BY DEF NewChildren, mc
  <1>8. ChildrenIn(B, w, n) = {c \in mc2 : ~ \E p \in (mc2 \cap Prefix) \ {c} : Within(w[c], w[p], c \in Address)}
    BY DEF ChildrenIn, mc2
  <1>9. NewParents(n, v) = ParentsIn(B, w, n)
    BY <1>2, <1>4, <1>5, <1>6
  <1>10. NewChildren(n, v) = ChildrenIn(B, w, n)
    BY <1>3, <1>4, <1>7, <1>8
  <1>. QED BY <1>9, <1>10

(* The parents of a node are one, and not itself. *)
LEMMA ParentOne ==
  ASSUME NEW E, NEW U, TreeIn(alive, value, parent, E, U), NEW n \in Node
  PROVE  (\A p, q \in parent[n] : p = q) /\ n \notin parent[n] /\ \A x \in FirstOf(parent[n]) : x = parent[n]
  <1>1. (\A p, q \in parent[n] : p = q) /\ n \notin parent[n]
    BY DEF TreeIn, AroundIn
  <1>. QED BY <1>1, FirstOfOne

(* A plan that is up to date, for a node n that comes, stays or moves. *)
LEMMA PlanNow ==
  ASSUME NEW E, NEW U, TreeIn(alive, value, parent, E, U), NEW n \in Node, NEW v, NEW B, NEW w,
         OnlyMoves(n, alive, value, B, w), w[n] = v, alive \subseteq Node, Valued(B, w), ~ Doubled(B, w), n \in B,
         NEW todo, UpToDate(todo, Reconciled(n, v), n)
  PROVE  /\ DOMAIN todo \ {n} = {m \in alive \ {n} : n \in parent[m] <=> m \notin ChildrenIn(B, w, n)}
         /\ \A m \in DOMAIN todo : todo[m] = IF m = n THEN ParentsIn(B, w, n)
                                             ELSE IF n \in parent[m] THEN parent[n] ELSE {n}
  <1> DEFINE old == CurrentChildren(n)
             new == ChildrenIn(B, w, n)
  <1>0. B \subseteq Node
    BY DEF Valued
  <1>1. PICK p \in Reconciled(n, v) : /\ DOMAIN p \ {n} = DOMAIN todo \ {n}
                                      /\ \A m \in DOMAIN todo : m \in DOMAIN p /\ p[m] = todo[m]
    BY DEF UpToDate
  <1>2. PICK calculated \in FirstOf(NewParents(n, v)), current \in FirstOf(parent[n]) : PlanOf(p, n, v, calculated, current)
    BY <1>1, PlanIs
  <1>3. NewParents(n, v) = ParentsIn(B, w, n) /\ NewChildren(n, v) = new
    BY <1>0, NewIs
  <1>4. \A x, y \in ParentsIn(B, w, n) : x = y
    BY ParentsOne
  <1>5. calculated = ParentsIn(B, w, n)
    BY <1>2, <1>3, <1>4, FirstOfOne
  <1>6. current = parent[n]
    BY <1>2, ParentOne
  <1>7. DOMAIN p = {n} \cup (old \ new) \cup (new \ old)
        /\ \A m \in DOMAIN p : p[m] = IF m = n THEN calculated ELSE IF m \in old THEN current ELSE {n}
    BY <1>2, <1>3 DEF PlanOf
  <1>8. \A m \in alive : m \in old <=> n \in parent[m]
    BY DEF CurrentChildren
  <1>9. old \subseteq alive /\ n \notin new /\ new \subseteq alive
    <2>1. new \subseteq B \ {n}
      BY DEF ChildrenIn
    <2>. QED BY <2>1, <1>0 DEF CurrentChildren, OnlyMoves
  <1> HIDE DEF old, new
  <1>10. DOMAIN todo \ {n} = {m \in alive \ {n} : n \in parent[m] <=> m \notin new}
    BY <1>1, <1>7, <1>8, <1>9
  <1>11. ASSUME NEW m \in DOMAIN todo
         PROVE  todo[m] = IF m = n THEN ParentsIn(B, w, n) ELSE IF n \in parent[m] THEN parent[n] ELSE {n}
    <2>1. m \in DOMAIN p /\ p[m] = todo[m]
      BY <1>1
    <2>2. m # n => m \in alive
      BY <2>1, <1>7, <1>9
    <2>. QED BY <2>1, <2>2, <1>5, <1>6, <1>7, <1>8
  <1>. QED BY <1>10, <1>11 DEF new

(* The nodes of the other requests are as much in place as before. *)
LEMMA OtherJobs ==
  ASSUME Shape, NEW r \in Request, NEW j, job' = [job EXCEPT ![r] = j]
  PROVE  /\ Exempt \ {job[r].node} \subseteq Exempt' /\ Unplaced \ {job[r].node} \subseteq Unplaced'
         /\ job[r].stage \notin {"query", "write"} => Exempt \subseteq Exempt' /\ Unplaced \subseteq Unplaced'
         /\ ~ Unsaved(r) => Exempt \subseteq Exempt'
  <1>1. job'[r] = j /\ \A q \in Request : q # r => job'[q] = job[q]
    BY OneJob
  <1>2. \A q \in Request : q # r => (Unsaved(q)' <=> Unsaved(q))
    BY <1>1 DEF Unsaved
  <1>3. ASSUME NEW x \in Exempt, x # job[r].node \/ ~ Unsaved(r) PROVE x \in Exempt'
    <2>1. PICK q \in Request : Unsaved(q) /\ x = job[q].node
      BY DEF Exempt
    <2>2. q # r
      BY <2>1, <1>3
    <2>. QED BY <2>1, <2>2, <1>1, <1>2 DEF Exempt
  <1>4. ASSUME NEW x \in Unplaced, x # job[r].node \/ job[r].stage \notin {"query", "write"} PROVE x \in Unplaced'
    <2>1. PICK q \in Request : job[q].stage \in {"query", "write"} /\ x = job[q].node
      BY DEF Unplaced
    <2>2. q # r
      BY <2>1, <1>4
    <2>. QED BY <2>1, <2>2, <1>1 DEF Unplaced
  <1>5. Unsaved(r) => job[r].stage \in {"query", "write"}
    BY DEF Unsaved
  <1>. QED BY <1>3, <1>4, <1>5

(* A request that is not placing a node leaves the tree as it is. *)
LEMMA TreeKept ==
  ASSUME Shape, Tree, NEW r \in Request, NEW j, job' = [job EXCEPT ![r] = j], UNCHANGED tree, clean' => clean,
         job[r].stage \notin {"query", "write"}
  PROVE  Tree'
  <1>1. Exempt \subseteq Exempt' /\ Unplaced \subseteq Unplaced'
    BY OtherJobs
  <1> SUFFICES ASSUME clean' PROVE TreeIn(alive', value', parent', Exempt', Unplaced')
    BY DEF Tree
  <1>2. TreeIn(alive, value, parent, Exempt', Unplaced')
    BY <1>1, MoreExempt DEF Tree
  <1>. QED BY <1>2 DEF tree

-----------------------------------------------------------------------------
(* Every step keeps the tree.                                              *)

(* A create or an update commits.                                          *)
LEMMA CommitSaveTree ==
  ASSUME PInv, Typed, Typed', Given', Tree, NEW r \in Request, CommitSave(r)
  PROVE  Tree'
  <1> DEFINE n == job[r].node
             v == job[r].value
             todo == job[r].todo
  <1> SUFFICES ASSUME clean' PROVE TreeIn(alive', value', parent', Exempt', Unplaced')
    BY DEF Tree
  <1>0. Given /\ Shape
    BY DEF PInv
  <1>1. /\ job[r].stage = "commit" /\ job[r].op \in {"create", "update"}
        /\ alive' = IF job[r].op = "create" THEN alive \cup {n} ELSE alive
        /\ value' = [value EXCEPT ![n] = v]
        /\ parent' = Written(todo, alive')
        /\ job' = [job EXCEPT ![r] = Idle]
        /\ clean /\ n \in alive' \ Unplaced
        /\ UpToDate(todo, Reconciled(n, v), n)
        /\ ~ Doubled(alive', value')
    BY DEF CommitSave
  <1>2. n \in Node /\ n \in DOMAIN todo /\ DOMAIN value = Node /\ alive \subseteq Node
    BY <1>0, <1>1 DEF Given, Typed, JobTyped, Shape
  <1>3. Valued(alive, value) /\ Valued(alive', value')
    <2>1. Valued(alive, value)
      BY <1>0, AliveValued
    <2>2. \A m \in alive' : m \in Node /\ value'[m] # <<>>
      BY DEF Given
    <2>3. \A m \in alive' : value'[m] \in Value /\ (m \in Prefix => value'[m] \in Net)
      BY <2>2 DEF Typed, ValueFor
    <2>. QED BY <2>1, <2>2, <2>3 DEF Valued
  <1>4. TreeIn(alive, value, parent, Exempt, Unplaced)
    BY <1>1 DEF Tree
  <1> HIDE DEF n, v, todo
  <1>5. OnlyMoves(n, alive, value, alive', value') /\ value'[n] = v
    BY <1>1, <1>2 DEF OnlyMoves
  <1> DEFINE B == alive'
             w == value'
             new == ChildrenIn(B, w, n)
  <1>6. n \in B /\ n \notin Unplaced /\ Valued(B, w) /\ ~ Doubled(B, w) /\ OnlyMoves(n, alive, value, B, w) /\ w[n] = v
    BY <1>1, <1>3, <1>5
  <1>7. \A m \in Node : parent'[m] = IF m \in DOMAIN todo \cap B THEN todo[m] ELSE parent[m]
    BY <1>1 DEF Written
  <1> HIDE DEF B, w
  <1>8. /\ DOMAIN todo \ {n} = {m \in alive \ {n} : n \in parent[m] <=> m \notin new}
        /\ \A m \in DOMAIN todo : todo[m] = IF m = n THEN ParentsIn(B, w, n) ELSE IF n \in parent[m] THEN parent[n] ELSE {n}
    BY <1>1, <1>2, <1>4, <1>6, PlanNow
  <1>9. new \subseteq B \ {n}
    BY DEF ChildrenIn
  <1>10. \A m \in Node \ {n} : m \in alive <=> m \in B
    BY <1>6 DEF OnlyMoves
  <1> HIDE DEF new
  <1>11. parent'[n] = ParentsIn(B, w, n)
    BY <1>2, <1>6, <1>7, <1>8
  <1>12. ASSUME NEW m \in Node \ {n}
         PROVE  parent'[m] = IF m \in new THEN {n} ELSE IF m \in alive /\ n \in parent[m] THEN parent[n] ELSE parent[m]
    <2>1. CASE m \in DOMAIN todo
      <3>1. m \in alive /\ m \in B /\ (n \in parent[m] <=> m \notin new)
        BY <2>1, <1>8, <1>10
      <3>. QED BY <2>1, <3>1, <1>7, <1>8
    <2>2. CASE m \notin DOMAIN todo /\ m \in alive
      <3>1. (n \in parent[m] <=> m \in new) /\ parent'[m] = parent[m]
        BY <2>2, <1>7, <1>8
      <3>2. n \in parent[m] => parent[m] = {n}
        BY <1>4, ParentOne
      <3>. QED BY <3>1, <3>2
    <2>3. CASE m \notin alive
      BY <2>3, <1>7, <1>9, <1>10
    <2>. QED BY <2>1, <2>2, <2>3
  <1>13. TreeIn(B, w, parent', Exempt, Unplaced)
    BY <1>2, <1>3, <1>4, <1>6, <1>11, <1>12, ExemptUnplaced, Reconciles DEF new
  <1>14. Exempt \subseteq Exempt' /\ Unplaced \subseteq Unplaced'
    BY <1>0, <1>1, OtherJobs
  <1>. QED BY <1>13, <1>14, MoreExempt DEF B, w

(* A delete commits.                                                       *)
LEMMA CommitDeleteTree ==
  ASSUME PInv, Typed, Tree, NEW r \in Request, CommitDelete(r)
  PROVE  Tree'
  <1> DEFINE n == job[r].node
             todo == job[r].todo
             moved == Written(todo, alive)
  <1> SUFFICES ASSUME clean' PROVE TreeIn(alive', value', parent', Exempt', Unplaced')
    BY DEF Tree
  <1>0. Given /\ Shape /\ Valued(alive, value)
    BY AliveValued DEF PInv
  <1>1. /\ job[r].stage = "commit"
        /\ alive' = alive \ {n} /\ value' = value
        /\ parent' = [m \in Node |-> IF m = n THEN {} ELSE moved[m] \ {n}]
        /\ job' = [job EXCEPT ![r] = Idle]
        /\ clean /\ n \notin Unplaced
        /\ UpToDate(todo, ReconciledForDelete(n), n)
    BY DEF CommitDelete
  <1>2. n \in Node /\ alive \subseteq Node
    BY <1>0, <1>1 DEF Given
  <1>4. TreeIn(alive, value, parent, Exempt, Unplaced)
    BY <1>1 DEF Tree
  <1>5. \A m \in Node : moved[m] = IF m \in DOMAIN todo \cap alive THEN todo[m] ELSE parent[m]
    BY DEF Written
  <1> HIDE DEF n, todo, moved
  <1>6. PICK p \in ReconciledForDelete(n) : /\ DOMAIN p \ {n} = DOMAIN todo \ {n}
                                            /\ \A m \in DOMAIN todo : m \in DOMAIN p /\ p[m] = todo[m]
    BY <1>1 DEF UpToDate
  <1>7. PICK current \in FirstOf(parent[n]) : p = [m \in CurrentChildren(n) |-> current]
    BY <1>6 DEF ReconciledForDelete
  <1>8. current = parent[n] /\ n \notin parent[n]
    BY <1>2, <1>4, <1>7, ParentOne
  <1>9. \A m \in DOMAIN todo : m \in alive /\ n \in parent[m] /\ todo[m] = parent[n]
    BY <1>6, <1>7, <1>8 DEF CurrentChildren
  <1>10. \A m \in alive \ {n} : n \in parent[m] => m \in DOMAIN todo
    BY <1>6, <1>7 DEF CurrentChildren
  <1>11. ASSUME NEW m \in Node \ {n}
         PROVE  parent'[m] = IF m \in alive /\ n \in parent[m] THEN parent[n] ELSE parent[m]
    <2>1. parent'[m] = moved[m] \ {n}
      BY <1>1
    <2>2. CASE m \in DOMAIN todo
      BY <2>1, <2>2, <1>5, <1>8, <1>9
    <2>3. CASE m \notin DOMAIN todo /\ m \in alive
      BY <2>1, <2>3, <1>5, <1>10
    <2>4. CASE m \notin DOMAIN todo /\ m \notin alive
      <3>1. parent[m] = {}
        BY <2>4, <1>4 DEF TreeIn
      <3>. QED BY <2>1, <2>4, <3>1, <1>5
    <2>. QED BY <2>2, <2>3, <2>4
  <1>12. parent'[n] = {}
    BY <1>1, <1>2
  <1>13. TreeIn(alive \ {n}, value, parent', Exempt, Unplaced)
    BY <1>0, <1>1, <1>2, <1>4, <1>11, <1>12, ExemptUnplaced, Removes
  <1>14. Exempt \subseteq Exempt' /\ Unplaced \subseteq Unplaced'
    BY <1>0, <1>1, OtherJobs
  <1>. QED BY <1>1, <1>13, <1>14, MoreExempt

(* A pool saves its node.                                                  *)
LEMMA SaveTree ==
  ASSUME PInv, Typed, Typed', Given', Tree, NEW r \in Request, Save(r)
  PROVE  Tree'
  <1> SUFFICES ASSUME clean' PROVE TreeIn(alive', value', parent', Exempt', Unplaced')
    BY DEF Tree
  <1>0. Given /\ Shape /\ Valued(alive, value)
    BY AliveValued DEF PInv
  <1>1. PICK n \in Fresh(job[r].kind) :
          /\ alive' = alive \cup {n} /\ value' = [value EXCEPT ![n] = job[r].value]
          /\ job' = [job EXCEPT ![r] = [stage |-> "query", node |-> n, id |-> job[r].id]]
    BY DEF Save
  <1>2. job[r].stage = "save" /\ parent' = parent /\ clean /\ ~ Doubled(alive', value')
    BY DEF Save
  <1>3. value[n] = <<>> /\ n \in Node /\ n \notin alive
    <2>1. n \in job[r].kind /\ value[n] = <<>>
      BY <1>1, FreshFacts
    <2>2. job[r].kind \in {Prefix, Address}
      BY <1>0, <1>2 DEF Shape
    <2>3. n \in Node
      BY <2>1, <2>2 DEF Node
    <2>. QED BY <2>1, <2>3, <1>0 DEF Given
  <1>4. \A m \in Node \ {n} : value'[m] = value[m]
    BY <1>0, <1>1 DEF Shape
  <1>5. OnlyMoves(n, alive, value, alive \cup {n}, value')
    BY <1>4, <1>0 DEF OnlyMoves, Given
  <1>6. Valued(alive', value')
    <2>2. \A m \in alive' : m \in Node /\ value'[m] # <<>>
      BY DEF Given
    <2>3. \A m \in alive' : value'[m] \in Value /\ (m \in Prefix => value'[m] \in Net)
      BY <2>2 DEF Typed, ValueFor
    <2>. QED BY <2>2, <2>3 DEF Valued
  <1> DEFINE w == value'
             j == [stage |-> "query", node |-> n, id |-> job[r].id]
  <1>7. Valued(alive \cup {n}, w) /\ ~ Doubled(alive \cup {n}, w) /\ OnlyMoves(n, alive, value, alive \cup {n}, w)
    BY <1>1, <1>2, <1>5, <1>6
  <1>8. TreeIn(alive, value, parent, Exempt, Unplaced)
    BY <1>2 DEF Tree
  <1> HIDE DEF w
  <1>9. TreeIn(alive \cup {n}, w, parent, Exempt \cup {n}, Unplaced \cup {n})
    BY <1>0, <1>3, <1>7, <1>8, Appears
  <1>10. j.stage = "query" /\ j.node = n /\ job' = [job EXCEPT ![r] = j]
    BY <1>1
  <1> HIDE DEF j
  <1>11. Exempt \subseteq Exempt' /\ Unplaced \subseteq Unplaced'
    BY <1>0, <1>2, <1>10, OtherJobs
  <1>12. job'[r] = j
    BY <1>0, <1>10, OneJob
  <1>13. n \in Exempt' /\ n \in Unplaced'
    BY <1>10, <1>12 DEF Exempt, Unplaced, Unsaved
  <1>14. TreeIn(alive \cup {n}, w, parent, Exempt', Unplaced')
    BY <1>9, <1>11, <1>13, MoreExempt
  <1>. QED BY <1>1, <1>2, <1>14 DEF w

(* The reconciliation of a pool reads.                                     *)
LEMMA QueryTree ==
  ASSUME PInv, Typed, Tree, NEW r \in Request, Query(r)
  PROVE  Tree'
  <1> DEFINE n == job[r].node
  <1> SUFFICES ASSUME clean' PROVE TreeIn(alive', value', parent', Exempt', Unplaced')
    BY DEF Tree
  <1>0. Given /\ Shape
    BY DEF PInv
  <1>1. job[r].stage = "query" /\ alive' = alive /\ value' = value /\ parent' = parent /\ clean
    BY DEF Query, tree
  <1>2. TreeIn(alive, value, parent, Exempt, Unplaced)
    BY <1>1 DEF Tree
  <1>3. CASE n \notin alive
    <2>1. PICK j : job' = [job EXCEPT ![r] = j]
      BY DEF Query
    <2>2. Exempt \ {n} \subseteq Exempt' /\ Unplaced \ {n} \subseteq Unplaced'
      BY <1>0, <2>1, OtherJobs
    <2> HIDE DEF n
    <2>3. TreeIn(alive, value, parent, Exempt', Unplaced')
      BY <1>2, <1>3, <2>2, DeadExempt
    <2>. QED BY <1>1, <2>3
  <1>4. CASE n \in alive
    <2>1. PICK todo \in Reconciled(n, value[n]) :
            job' = [job EXCEPT ![r] = [stage |-> "write", node |-> n, id |-> job[r].id, todo |-> todo]]
      BY <1>4 DEF Query
    <2> DEFINE j == [stage |-> "write", node |-> n, id |-> job[r].id, todo |-> todo]
    <2>2. j.stage = "write" /\ j.node = n /\ j.todo = todo /\ job' = [job EXCEPT ![r] = j]
      BY <2>1
    <2>3. n \in Node
      BY <1>0, <1>4 DEF Given
    <2> HIDE DEF j
    <2>4. n \in DOMAIN todo
      BY <2>1, <2>3, PlanTyped
    <2>5. job'[r] = j
      BY <1>0, <2>2, OneJob
    <2>6. n \in Exempt' /\ n \in Unplaced'
      BY <2>2, <2>4, <2>5 DEF Exempt, Unplaced, Unsaved
    <2>7. Exempt \ {n} \subseteq Exempt' /\ Unplaced \ {n} \subseteq Unplaced'
      BY <1>0, <2>2, OtherJobs
    <2>8. TreeIn(alive, value, parent, Exempt', Unplaced')
      BY <1>2, <2>6, <2>7, MoreExempt
    <2>. QED BY <1>1, <2>8
  <1>. QED BY <1>3, <1>4

(* The reconciliation of a pool saves one node.                            *)
LEMMA WriteTree ==
  ASSUME PInv, Typed, Tree, NEW r \in Request, Write(r)
  PROVE  Tree'
  <1> DEFINE n == job[r].node
             todo == job[r].todo
  <1> SUFFICES ASSUME clean' PROVE TreeIn(alive', value', parent', Exempt', Unplaced')
    BY DEF Tree
  <1>0. Given /\ Shape /\ Valued(alive, value)
    BY AliveValued DEF PInv
  <1>1. job[r].stage = "write" /\ alive' = alive /\ value' = value
    BY DEF Write
  <1>2. PICK m \in DOMAIN todo :
            LET rest == [k \in DOMAIN todo \ {m} |-> todo[k]]
                one == [k \in {m} |-> todo[m]]
                j == IF DOMAIN rest # {} THEN [stage |-> "write", node |-> n, id |-> job[r].id, todo |-> rest]
                     ELSE AfterWrites(n, job[r].id)
            IN  /\ parent' = Written(one, alive)
                /\ clean' = (clean /\ n \in alive /\ UpToDate(todo, Reconciled(n, value[n]), n))
                /\ job' = [job EXCEPT ![r] = j]
    BY WriteFacts
  <1> DEFINE rest == [k \in DOMAIN todo \ {m} |-> todo[k]]
             one == [k \in {m} |-> todo[m]]
             j == IF DOMAIN rest # {} THEN [stage |-> "write", node |-> n, id |-> job[r].id, todo |-> rest]
                  ELSE AfterWrites(n, job[r].id)
  <1>3. parent' = Written(one, alive) /\ job' = [job EXCEPT ![r] = j]
        /\ clean /\ n \in alive /\ UpToDate(todo, Reconciled(n, value[n]), n)
    BY <1>2
  <1>4. TreeIn(alive, value, parent, Exempt, Unplaced)
    BY <1>3 DEF Tree
  <1>5. n \in Node /\ alive \subseteq Node /\ ~ Doubled(alive, value)
    BY <1>0, <1>3, <1>4 DEF Given, TreeIn
  <1>6. DOMAIN rest = DOMAIN todo \ {m} /\ DOMAIN one = {m} /\ one[m] = todo[m]
    OBVIOUS
  <1>7. Unsaved(r) <=> n \in DOMAIN todo
    BY <1>1 DEF Unsaved
  <1> HIDE DEF rest, one, n, todo
  <1>8. DOMAIN rest # {} => j.stage = "write" /\ j.node = n /\ j.todo = rest
    OBVIOUS
  <1> HIDE DEF j
  <1>9. OnlyMoves(n, alive, value, alive, value)
    BY DEF OnlyMoves
  <1> DEFINE new == ChildrenIn(alive, value, n)
  <1>10. /\ DOMAIN todo \ {n} = {k \in alive \ {n} : n \in parent[k] <=> k \notin new}
         /\ \A k \in DOMAIN todo : todo[k] = IF k = n THEN ParentsIn(alive, value, n) ELSE IF n \in parent[k] THEN parent[n] ELSE {n}
    BY <1>0, <1>3, <1>4, <1>5, <1>9, PlanNow
  <1> HIDE DEF new
  <1>11. m \in alive /\ (m # n => (n \in parent[m] <=> m \notin new))
    BY <1>2, <1>3, <1>10
  <1>12. \A k \in Node : parent'[k] = IF k # m THEN parent[k]
                                      ELSE IF m = n THEN ParentsIn(alive, value, n)
                                      ELSE IF n \in parent[m] THEN parent[n] ELSE {n}
    <2>1. \A k \in Node : parent'[k] = IF k = m THEN todo[m] ELSE parent[k]
      BY <1>3, <1>6, <1>11 DEF Written
    <2>. QED BY <2>1, <1>2, <1>10
  <1>13. job'[r] = j
    BY <1>0, <1>3, OneJob
  <1>14. Exempt \ {n} \subseteq Exempt' /\ Unplaced \ {n} \subseteq Unplaced' /\ (~ Unsaved(r) => Exempt \subseteq Exempt')
    BY <1>0, <1>3, OtherJobs DEF n
  <1>15. n \in Exempt => n \in Exempt' \/ m = n
    <2>1. CASE n \in DOMAIN todo /\ m # n
      <3>1. n \in DOMAIN rest
        BY <2>1, <1>6
      <3>2. j.stage = "write" /\ j.node = n /\ n \in DOMAIN j.todo
        BY <3>1, <1>8
      <3>. QED BY <3>2, <1>13 DEF Exempt, Unsaved
    <2>. QED BY <2>1, <1>7, <1>14
  <1>16. Unplaced \subseteq Unplaced' \/ \A d \in alive \ {n} : d \in new /\ n \notin parent[d] => d = m
    <2>1. CASE DOMAIN rest # {}
      <3>1. n \in Unplaced'
        BY <2>1, <1>8, <1>13 DEF Unplaced
      <3>. QED BY <3>1, <1>14
    <2>2. CASE DOMAIN rest = {}
      BY <2>2, <1>6, <1>10
    <2>. QED BY <2>1, <2>2
  <1>17. TreeIn(alive, value, parent', Exempt', Unplaced')
    <2> DEFINE E2 == Exempt'
               U2 == Unplaced'
               par2 == parent'
    <2>1. SavesOne(alive, value, parent, par2, n, m)
      BY <1>3, <1>11, <1>12 DEF SavesOne, new
    <2>2. LeavesOpen(alive, value, parent, n, m, Exempt, Unplaced, E2, U2)
      BY <1>14, <1>15, <1>16 DEF LeavesOpen, new
    <2> HIDE DEF E2, U2, par2
    <2>4. TreeIn(alive, value, par2, E2, U2)
      BY <2>1, <2>2, <1>0, <1>4, PlacesOne
    <2>. QED BY <2>4 DEF E2, U2, par2
  <1>. QED BY <1>1, <1>17

(* An address is deleted.                                                  *)
LEMMA DeleteAddressTree ==
  ASSUME PInv, Typed, Tree, DeleteAddress
  PROVE  Tree'
  <1> SUFFICES ASSUME clean' PROVE TreeIn(alive', value', parent', Exempt', Unplaced')
    BY DEF Tree
  <1>1. PICK a \in alive \cap Address : alive' = alive \ {a} /\ parent' = [parent EXCEPT ![a] = {}]
    BY DEF DeleteAddress
  <1>2. value' = value /\ job' = job /\ clean
    BY DEF DeleteAddress
  <1>3. TreeIn(alive, value, parent, Exempt, Unplaced)
    BY <1>2 DEF Tree
  <1>4. \A m \in Node : parent'[m] = IF m = a THEN {} ELSE parent[m]
    BY <1>1 DEF Typed
  <1>5. alive \subseteq Node
    BY DEF PInv, Given
  <1>6. TreeIn(alive \ {a}, value, parent', Exempt, Unplaced)
    BY <1>1, <1>3, <1>4, <1>5, AddressGoes
  <1>7. Exempt' = Exempt /\ Unplaced' = Unplaced
    BY <1>2 DEF Exempt, Unplaced, Unsaved
  <1>. QED BY <1>1, <1>2, <1>6, <1>7

(* Every step keeps the tree.                                              *)
LEMMA NextTree == PInv /\ Typed /\ Tree /\ [Next]_vars /\ PInv' /\ Typed' => Tree'
  <1> SUFFICES ASSUME PInv, Typed, Tree, [Next]_vars, PInv', Typed' PROVE Tree'
    OBVIOUS
  <1>0. Shape /\ Given /\ Given'
    BY DEF PInv
  <1>1. CASE UNCHANGED vars
    <2>1. alive' = alive /\ value' = value /\ parent' = parent /\ job' = job /\ clean' = clean
      BY <1>1 DEF vars
    <2>2. Exempt' = Exempt /\ Unplaced' = Unplaced
      BY <2>1 DEF Exempt, Unplaced, Unsaved
    <2>. QED BY <2>1, <2>2 DEF Tree
  <1>2. ASSUME NEW r \in Request, NEW op, NEW n, NEW v, NEW plans, Transaction(r, op, n, v, plans) PROVE Tree'
    <2>1. PICK j : job' = [job EXCEPT ![r] = j]
      BY <1>2 DEF Transaction
    <2>2. UNCHANGED tree /\ clean' = clean /\ job[r].stage = "idle"
      BY <1>2 DEF Transaction, Idle
    <2>. QED BY <2>1, <2>2, <1>0, TreeKept
  <1>3. ASSUME NEW r \in Request, Create(r) \/ Update(r) \/ Delete(r) PROVE Tree'
    BY <1>2, <1>3 DEF Create, Update, Delete
  <1>4. ASSUME NEW r \in Request, GetResource(r) PROVE Tree'
    <2>1. PICK j : job' = [job EXCEPT ![r] = j]
      BY <1>4 DEF GetResource
    <2>2. UNCHANGED tree /\ clean' = clean /\ job[r].stage = "idle"
      BY <1>4 DEF GetResource, Idle
    <2>. QED BY <2>1, <2>2, <1>0, TreeKept
  <1>5. ASSUME NEW r \in Request, Pick(r) PROVE Tree'
    <2>1. PICK j : job' = [job EXCEPT ![r] = j]
      BY <1>5 DEF Pick
    <2>2. UNCHANGED tree /\ clean' = clean /\ job[r].stage = "pick"
      BY <1>5 DEF Pick
    <2>. QED BY <2>1, <2>2, <1>0, TreeKept
  <1>6. ASSUME NEW r \in Request, Reserve(r) PROVE Tree'
    <2>1. job' = [job EXCEPT ![r] = Idle] /\ UNCHANGED tree /\ clean' = clean /\ job[r].stage = "reserve"
      BY <1>6 DEF Reserve
    <2>. QED BY <2>1, <1>0, TreeKept
  <1>7. ASSUME NEW r \in Request, Fail(r) PROVE Tree'
    <2>1. job' = [job EXCEPT ![r] = Idle] /\ UNCHANGED tree /\ clean' = (clean /\ job[r].stage = "reserve")
      BY <1>7 DEF Fail
    <2>2. CASE job[r].stage = "reserve"
      BY <2>1, <2>2, <1>0, TreeKept
    <2>3. CASE job[r].stage # "reserve"
      BY <2>1, <2>3 DEF Tree
    <2>. QED BY <2>2, <2>3
  <1>. QED
    BY <1>0, <1>1, <1>3, <1>4, <1>5, <1>6, <1>7, CommitSaveTree, CommitDeleteTree, SaveTree, QueryTree, WriteTree,
       DeleteAddressTree DEF Next

(* The resources do not lie in each other.                                 *)
LEMMA StartApart ==
  ASSUME NEW p \in Resource, NEW q \in Resource, p # q PROVE ~ IsPrefix(HostBits(Start[p]), Start[q].bits)
  BY IpamAssumption DEF HostBits

LEMMA InitTree == Init => Tree
  <1> SUFFICES ASSUME Init PROVE TreeIn(alive, value, parent, Exempt, Unplaced)
    BY DEF Tree
  <1>0. alive = Resource /\ Resource \subseteq Prefix /\ Resource \subseteq Node
    BY IpamAssumption DEF Init, Node
  <1>1. \A n \in Resource : value[n] = Start[n] /\ Start[n] \in Value
    BY <1>0, IpamAssumption DEF Init
  <1>2. \A n \in Node : parent[n] = {}
    BY DEF Init
  <1>3. ~ Doubled(alive, value)
    <2> SUFFICES ASSUME NEW p \in Resource, NEW q \in Resource, p # q, Start[p] = Start[q] PROVE FALSE
      BY <1>0, <1>1 DEF Doubled
    <2>1. Matches(Start[p], Start[q])
      BY DEF Matches
    <2>. QED BY <2>1, <1>1, HostPrefix, StartApart
  <1>4. ASSUME NEW n \in alive PROVE AroundIn(alive, value, n) = {}
    <2> SUFFICES ASSUME NEW p \in AroundIn(alive, value, n) PROVE FALSE
      OBVIOUS
    <2>1. p \in Resource /\ p # n /\ n \in Resource /\ Within(value[n], value[p], n \in Address)
      BY <1>0 DEF AroundIn
    <2>2. IsPrefix(HostBits(Start[p]), Start[n].bits)
      BY <2>1, <1>1 DEF Within
    <2>. QED BY <2>1, <2>2, StartApart
  <1>5. \A n \in alive : PlacedIn(alive, value, parent, n)
    BY <1>0, <1>2, <1>4 DEF PlacedIn, ClosestIn
  <1>. QED BY <1>0, <1>2, <1>3, <1>5 DEF TreeIn

(* Reconciliation keeps the tree: however many mutations and allocations   *)
(* run together, the parent of every node is the most specific live prefix *)
(* around it as long as no plan was out of date when it was written, no    *)
(* two live prefixes have one value and no allocation failed half way.     *)
THEOREM TreeFollowsContainmentAlways == Spec => []TreeFollowsContainment
  <1>1. Tree => TreeFollowsContainment
    <2> SUFFICES ASSUME Tree, clean, Unplaced = {}, NEW n \in alive
                 PROVE  parent[n] = Closest(n) \/ (parent[n] = {} /\ \A p \in Closest(n) : value[p].len = 0)
      BY DEF TreeFollowsContainment
    <2>1. n \notin Exempt
      BY ExemptUnplaced
    <2>2. PlacedIn(alive, value, parent, n)
      BY <2>1 DEF Tree, TreeIn
    <2>. QED BY <2>2, ClosestIs DEF PlacedIn
  <1>. QED BY <1>1, InitPInv, NextPInv, InitTyped, NextTypedInv, InitTree, NextTree, PTL DEF Spec

-----------------------------------------------------------------------------
(* Counts, and the history of a prefix.                                    *)

(* What the pools count and reserve. *)
Counts == reserved \subseteq [id: Identifier, node: Node] /\ requests \in 0 .. MaxRequests /\ shared \subseteq Identifier

LEMMA NextCounts == PInv /\ Counts /\ [Next]_vars => Counts'
  <1> SUFFICES ASSUME PInv, Counts, [Next]_vars PROVE Counts'
    OBVIOUS
  <1>0. MaxRequests \in Nat
    BY IpamAssumption
  <1>1. CASE UNCHANGED <<reserved, requests, shared>>
    BY <1>1 DEF Counts
  <1>2. ASSUME requests' = requests + 1, requests < MaxRequests PROVE requests' \in 0 .. MaxRequests
    BY <1>0, <1>2 DEF Counts
  <1>3. ASSUME NEW r \in Request, NEW op, NEW n, NEW v, NEW plans, Transaction(r, op, n, v, plans) PROVE Counts'
    <2>1. requests' \in 0 .. MaxRequests
      BY <1>2, <1>3 DEF Transaction
    <2>. QED BY <2>1, <1>3 DEF Transaction, Counts
  <1>4. ASSUME NEW r \in Request, Create(r) \/ Update(r) \/ Delete(r) PROVE Counts'
    BY <1>3, <1>4 DEF Create, Update, Delete
  <1>5. ASSUME NEW r \in Request, GetResource(r) PROVE Counts'
    <2>1. requests' \in 0 .. MaxRequests
      BY <1>2, <1>5 DEF GetResource
    <2>2. shared' \subseteq Identifier /\ reserved' = reserved
      BY <1>5 DEF GetResource, Counts
    <2>. QED BY <2>1, <2>2 DEF Counts
  <1>6. ASSUME NEW r \in Request, Reserve(r) PROVE Counts'
    <2>1. job[r].stage = "reserve" /\ reserved' = reserved \cup {[id |-> job[r].id, node |-> job[r].node]}
          /\ requests' = requests /\ shared' = shared
      BY <1>6 DEF Reserve
    <2>2. job[r].id \in Identifier /\ job[r].node \in Node
      BY <2>1 DEF PInv, Shape, Given, Placing, Allocating
    <2>. QED BY <2>1, <2>2 DEF Counts
  <1>7. ASSUME NEW r \in Request,
               CommitSave(r) \/ CommitDelete(r) \/ Pick(r) \/ Save(r) \/ Query(r) \/ Write(r) \/ Fail(r)
        PROVE  Counts'
    BY <1>1, <1>7 DEF CommitSave, CommitDelete, Pick, Save, Query, Write, Fail
  <1>8. CASE DeleteAddress
    BY <1>1, <1>8 DEF DeleteAddress
  <1>. QED BY <1>1, <1>4, <1>5, <1>6, <1>7, <1>8 DEF Next, vars

(* What the mutations and the pools write has the types the schema gives   *)
(* it: values with no host bits for prefixes, prefixes as parents,         *)
(* reservations under identifiers.                                         *)
THEOREM TypeOKAlways == Spec => []TypeOK
  <1>1. Init => Counts
    BY IpamAssumption DEF Init, Counts
  <1>2. PInv /\ Typed /\ Counts => TypeOK
    <2> SUFFICES ASSUME PInv, Typed, Counts PROVE TypeOK
      OBVIOUS
    <2>1. \A n \in Node : value[n] = <<>> \/ value[n] \in Value
      BY DEF Typed, ValueFor
    <2>2. \A p \in Prefix : value[p] = <<>> \/ IsNetwork(value[p])
      BY DEF Typed, ValueFor, Net, Node
    <2>3. alive \subseteq {n \in Node : value[n] # <<>>}
      BY DEF PInv, Given
    <2>. QED BY <2>1, <2>2, <2>3 DEF TypeOK, Counts, Typed
  <1>. QED BY <1>1, <1>2, InitPInv, NextPInv, InitTyped, NextTypedInv, NextCounts, PTL DEF Spec

(* Since no prefix was renumbered or deleted: the prefixes that were ever  *)
(* around a prefix still are, and include its parents.                     *)
History ==
  clean /\ ~ renumbered =>
    /\ \A p \in Prefix : value[p] # <<>> => p \in alive
    /\ \A p \in Prefix : parent[p] \subseteq past[p]
    /\ \A p \in Prefix : past[p] \subseteq IF p \in alive THEN AroundIn(alive, value, p) ELSE {}

(* A step that moves no live prefix and remembers the parents it writes.   *)
LEMMA HistoryKept ==
  ASSUME Tree', History,
         clean' /\ ~ renumbered' =>
           /\ clean /\ ~ renumbered
           /\ \A m \in alive \cap Prefix : m \in alive' /\ value'[m] = value[m]
           /\ \A p \in Prefix : past'[p] = past[p] \cup parent'[p]
           /\ \A p \in Prefix : value'[p] # <<>> => value[p] # <<>> \/ p \in alive'
  PROVE  History'
  <1> SUFFICES ASSUME clean', ~ renumbered', NEW p \in Prefix
               PROVE  /\ value'[p] # <<>> => p \in alive'
                      /\ parent'[p] \subseteq past'[p]
                      /\ past'[p] \subseteq IF p \in alive' THEN AroundIn(alive', value', p) ELSE {}
    BY DEF History
  <1>1. TreeIn(alive', value', parent', Exempt', Unplaced')
    BY DEF Tree
  <1>2. value'[p] # <<>> => p \in alive'
    BY DEF History
  <1>3. past'[p] = past[p] \cup parent'[p] /\ past[p] \subseteq IF p \in alive THEN AroundIn(alive, value, p) ELSE {}
    BY DEF History
  <1>4. CASE p \in alive'
    <2>1. parent'[p] \subseteq AroundIn(alive', value', p)
      BY <1>1, <1>4 DEF TreeIn
    <2>2. p \in alive => AroundIn(alive, value, p) \subseteq AroundIn(alive', value', p)
      BY DEF AroundIn
    <2>. QED BY <1>2, <1>3, <1>4, <2>1, <2>2
  <1>5. CASE p \notin alive'
    <2>1. parent'[p] = {}
      BY <1>1, <1>5 DEF TreeIn, Node
    <2>2. p \notin alive
      BY <1>5
    <2>. QED BY <1>2, <1>3, <1>5, <2>1, <2>2
  <1>. QED BY <1>4, <1>5

(* Every step keeps the history.                                           *)
LEMMA NextHistory == PInv /\ Typed /\ Tree /\ History /\ [Next]_vars /\ Tree' => History'
  <1> SUFFICES ASSUME PInv, Typed, Tree, History, [Next]_vars, Tree' PROVE History'
    OBVIOUS
  <1>0. Shape /\ Given
    BY DEF PInv
  <1>1. ASSUME UNCHANGED <<alive, value, parent, past, renumbered>>, clean' => clean PROVE History'
    BY <1>1 DEF History
  <1>2. CASE DeleteAddress
    <2>1. PICK a \in alive \cap Address : alive' = alive \ {a} /\ parent' = [parent EXCEPT ![a] = {}]
      BY <1>2 DEF DeleteAddress
    <2>2. value' = value /\ past' = past /\ clean' = clean /\ renumbered' = renumbered
      BY <1>2 DEF DeleteAddress
    <2>3. a \notin Prefix
      BY IpamAssumption
    <2>4. \A p \in Prefix : parent'[p] = parent[p]
      BY <2>1, <2>3 DEF Typed, Node
    <2>. QED BY <2>1, <2>2, <2>3, <2>4, HistoryKept DEF History
  <1>3. ASSUME NEW r \in Request, CommitSave(r) PROVE History'
    <2> DEFINE n == job[r].node
    <2>1. /\ job[r].stage = "commit" /\ job[r].op \in {"create", "update"}
          /\ alive' = IF job[r].op = "create" THEN alive \cup {n} ELSE alive
          /\ value' = [value EXCEPT ![n] = job[r].value]
          /\ past' = Remembered(parent')
          /\ renumbered' = (renumbered \/ (job[r].op = "update" /\ n \in Prefix))
          /\ clean' => clean /\ n \in alive'
      BY <1>3 DEF CommitSave
    <2>2. \A p \in Prefix : past'[p] = past[p] \cup parent'[p]
      BY <2>1 DEF Remembered, Node
    <2>3. \A m \in Node : m # n => value'[m] = value[m]
      BY <2>1, <1>0 DEF Shape
    <2>4. job[r].op = "create" => n \notin alive
      BY <2>1, <1>0 DEF Given
    <2>5. ~ renumbered' => n \notin alive \cap Prefix
      BY <2>1, <2>4
    <2>6. alive \subseteq alive' /\ alive \subseteq Node /\ Prefix \subseteq Node
      BY <2>1, <1>0 DEF Given, Node
    <2>7. clean' => n \in alive' /\ clean
      BY <2>1
    <2>8. ~ renumbered' => ~ renumbered
      BY <2>1
    <2> HIDE DEF n
    <2>9. clean' /\ ~ renumbered' => \A m \in alive \cap Prefix : m \in alive' /\ value'[m] = value[m]
      BY <2>3, <2>5, <2>6
    <2>10. clean' => \A p \in Prefix : value'[p] # <<>> => value[p] # <<>> \/ p \in alive'
      BY <2>3, <2>6, <2>7
    <2>. QED BY <2>2, <2>7, <2>8, <2>9, <2>10, HistoryKept
  <1>4. ASSUME NEW r \in Request, CommitDelete(r) PROVE History'
    BY <1>4 DEF CommitDelete, History
  <1>5. ASSUME NEW r \in Request, Save(r) PROVE History'
    <2>1. PICK n \in Fresh(job[r].kind) : alive' = alive \cup {n} /\ value' = [value EXCEPT ![n] = job[r].value]
      BY <1>5 DEF Save
    <2>2. parent' = parent /\ past' = past /\ renumbered' = renumbered /\ (clean' => clean)
      BY <1>5 DEF Save
    <2>3. n \notin alive
      BY <2>1, FreshFacts, <1>0 DEF Given
    <2>4. \A m \in Node : m # n => value'[m] = value[m]
      BY <2>1, <1>0 DEF Shape
    <2>5. alive \subseteq Node /\ Prefix \subseteq Node
      BY <1>0 DEF Given, Node
    <2>6. \A m \in alive \cap Prefix : m \in alive' /\ value'[m] = value[m]
      BY <2>1, <2>3, <2>4, <2>5
    <2>7. \A p \in Prefix : value'[p] # <<>> => value[p] # <<>> \/ p \in alive'
      BY <2>1, <2>4, <2>5
    <2>8. clean' /\ ~ renumbered' => \A p \in Prefix : past'[p] = past[p] \cup parent'[p]
      BY <2>2 DEF History
    <2>. QED BY <2>2, <2>6, <2>7, <2>8, HistoryKept
  <1>6. ASSUME NEW r \in Request, Write(r) PROVE History'
    <2>1. alive' = alive /\ value' = value /\ renumbered' = renumbered /\ past' = Remembered(parent') /\ (clean' => clean)
      BY <1>6 DEF Write
    <2>2. \A p \in Prefix : past'[p] = past[p] \cup parent'[p]
      BY <2>1 DEF Remembered, Node
    <2>. QED BY <2>1, <2>2, HistoryKept
  <1>7. ASSUME NEW r \in Request, Create(r) \/ Update(r) \/ Delete(r) \/ GetResource(r) \/ Pick(r) \/ Query(r) \/ Reserve(r) \/ Fail(r)
        PROVE  History'
    BY <1>1, <1>7 DEF Create, Update, Delete, Transaction, GetResource, Pick, Query, Reserve, Fail, tree
  <1>8. CASE UNCHANGED vars
    BY <1>1, <1>8 DEF vars
  <1>. QED BY <1>2, <1>3, <1>4, <1>5, <1>6, <1>7, <1>8 DEF Next

LEMMA InitHistory == Init => History
  <1> SUFFICES ASSUME Init PROVE History
    OBVIOUS
  <1>1. \A p \in Prefix : (value[p] # <<>> => p \in alive) /\ parent[p] = {} /\ past[p] = {}
    BY DEF Init, Node
  <1>. QED BY <1>1 DEF History

-----------------------------------------------------------------------------
(* What a pool hands out.                                                  *)

(* The prefixes inside a resource, as the pool finds them. *)
InResource(res) == {p \in Prefix : value[p] # <<>> /\ Within(value[p], res, FALSE)}
Outermost(res) == {q \in InResource(res) : past[q] \cap InResource(res) = {}}

(* IPPrefixSubnetFetch returns the outermost prefixes.                     *)
LEMMA SubnetsAre == ASSUME NEW res PROVE Subnets(res) = {value[p] : p \in Outermost(res)}
  BY DEF Subnets, Outermost, InResource

(* Networks that agree are nested or the same.                             *)
LEMMA AgreeNets ==
  ASSUME NEW v \in Net, NEW w \in Net, Agree(v, w)
  PROVE  /\ v.len < w.len => Within(w, v, FALSE)
         /\ v.len = w.len => v = w
  <1>1. v \in Value /\ w \in Value /\ v.len \in Nat /\ w.len \in Nat
    BY ValueFields DEF Net
  <1>2. v.len <= w.len => Matches(v, w)
    BY <1>1 DEF Agree, Matches
  <1>3. v.len < w.len => Within(w, v, FALSE)
    BY <1>1, <1>2, HostPrefix DEF Within
  <1>4. v.len = w.len => v = w
    BY <1>1, <1>2, NetEqual
  <1>. QED BY <1>3, <1>4

(* No two of the outermost prefixes meet. *)
LEMMA OutermostApart ==
  ASSUME Typed, Given, Tree, History, clean, Unplaced = {}, ~ renumbered, NEW res \in Net,
         NEW p \in Outermost(res), NEW q \in Outermost(res), Within(value[q], value[p], FALSE)
  PROVE  FALSE
  <1>1. p \in Prefix /\ q \in Prefix /\ p \in alive /\ q \in alive /\ Within(value[q], res, FALSE) /\ Within(value[p], res, FALSE)
        /\ past[q] \cap InResource(res) = {}
    BY DEF Outermost, InResource, History
  <1>2. Valued(alive, value) /\ TreeIn(alive, value, parent, Exempt, Unplaced) /\ res \in Value /\ res.len \in Nat
    BY AliveValued, ValueFields DEF Tree, Net
  <1>3. value[p] \in Net /\ value[q] \in Net /\ value[p] \in Value /\ value[q] \in Value /\ value[p].len \in Nat /\ value[q].len \in Nat
    BY <1>1, <1>2, ValueFields DEF Valued
  <1>4. p # q
    <2>1. value[p].len < value[q].len
      BY <1>3, WithinShorter
    <2>. QED BY <1>3, <2>1
  <1>5. p \in AroundIn(alive, value, q)
    BY <1>1, <1>4, WithinPrefix DEF AroundIn
  <1>6. PICK c \in ClosestIn(alive, value, q) : TRUE
    BY <1>1, <1>2, <1>5, ClosestExists
  <1>7. c \in AroundIn(alive, value, q) /\ value[p].len <= value[c].len
    BY <1>5, <1>6 DEF ClosestIn
  <1>8. c \in alive /\ c \in Prefix /\ value[c] \in Net /\ value[c] \in Value /\ value[c].len \in Nat /\ Within(value[q], value[c], FALSE)
    BY <1>1, <1>2, <1>7, AroundFacts, WithinPrefix
  <1>9. res.len < value[p].len
    BY <1>1, <1>2, <1>3, WithinShorter
  <1>10. res.len < value[c].len /\ value[c].len # 0
    BY <1>2, <1>3, <1>7, <1>8, <1>9
  <1>11. Within(value[c], res, FALSE)
    BY <1>1, <1>3, <1>8, <1>10, WithinNested
  <1>12. c \in InResource(res)
    BY <1>8, <1>11 DEF InResource, Given
  <1>13. q \notin Exempt
    BY ExemptUnplaced
  <1>14. PlacedIn(alive, value, parent, q)
    BY <1>1, <1>2, <1>13 DEF TreeIn
  <1>15. c \in parent[q]
    BY <1>6, <1>10, <1>14 DEF PlacedIn
  <1>16. c \in past[q]
    BY <1>1, <1>15 DEF History
  <1>. QED BY <1>1, <1>12, <1>16

(* The subnets that a pool reserves do not meet.                           *)
LEMMA SubnetsApart ==
  ASSUME Typed, Given, Tree, History, clean, Unplaced = {}, ~ renumbered, NEW res \in Net,
         NEW s \in InOrder(Subnets(res)), NEW x \in 1 .. Len(s), NEW y \in 1 .. Len(s), x # y
  PROVE  ~ Agree(s[x], s[y])
  <1> SUFFICES ASSUME Agree(s[x], s[y]) PROVE FALSE
    OBVIOUS
  <1>1. IsFiniteSet(Subnets(res)) /\ Subnets(res) \subseteq Net
    BY SubnetFacts
  <1>2. s[x] \in Subnets(res) /\ s[y] \in Subnets(res) /\ s[x] # s[y]
    <2> DEFINE n == Cardinality(Subnets(res))
    <2>1. s \in [1 .. n -> Subnets(res)] /\ \A i, j \in 1 .. n : i # j => s[i] # s[j]
      BY DEF InOrder, SetToSeqs
    <2>2. n \in Nat
      BY <1>1, FS_CardinalityType
    <2> HIDE DEF n
    <2>3. Len(s) = n
      BY <2>1, <2>2
    <2>. QED BY <2>1, <2>3
  <1>3. PICK p \in Outermost(res) : s[x] = value[p]
    BY <1>2, SubnetsAre
  <1>4. PICK q \in Outermost(res) : s[y] = value[q]
    BY <1>2, SubnetsAre
  <1>5. s[x] \in Net /\ s[y] \in Net /\ s[x] \in Value /\ s[y] \in Value
    BY <1>1, <1>2 DEF Net
  <1>6. Agree(s[y], s[x])
    BY <1>5, AgreeSymmetric
  <1>7. s[x].len \in Nat /\ s[y].len \in Nat
    BY <1>5, ValueFields
  <1>8. s[x].len # s[y].len
    BY <1>2, <1>5, AgreeNets
  <1>9. CASE s[x].len < s[y].len
    BY <1>3, <1>4, <1>5, <1>9, AgreeNets, OutermostApart
  <1>10. CASE s[y].len < s[x].len
    BY <1>3, <1>4, <1>5, <1>6, <1>10, AgreeNets, OutermostApart
  <1>. QED BY <1>7, <1>8, <1>9, <1>10

(* Every prefix inside a resource lies in an outermost one. *)
LEMMA OutermostAround ==
  ASSUME Typed, Given, History, clean, ~ renumbered, NEW res \in Net, NEW q \in InResource(res)
  PROVE  \E x \in Outermost(res) : value[x].len <= value[q].len /\ Matches(value[x], value[q])
  <1> DEFINE S == {x \in InResource(res) : x = q \/ Within(value[q], value[x], FALSE)}
             L == {value[x].len : x \in S}
  <1>1. \A x \in InResource(res) : x \in Prefix /\ x \in alive /\ value[x] \in Net /\ value[x] \in Value /\ value[x].len \in Nat
    BY AliveValue, ValueFields DEF InResource, History
  <1>2. L \subseteq Nat /\ L # {}
    BY <1>1
  <1>3. PICK l \in L : \A k \in L : l <= k
    <2> HIDE DEF L
    <2>. QED BY <1>2, LeastNumber
  <1>4. PICK x \in S : l = value[x].len
    OBVIOUS
  <1>5. \A y \in S : value[x].len <= value[y].len
    BY <1>3, <1>4
  <1>6. x \in InResource(res) /\ (x = q \/ Within(value[q], value[x], FALSE))
    OBVIOUS
  <1>7. ASSUME NEW y \in past[x], y \in InResource(res) PROVE FALSE
    <2>1. y \in AroundIn(alive, value, x)
      BY <1>1, <1>6 DEF History
    <2>2. Within(value[x], value[y], FALSE)
      BY <2>1, <1>1, <1>6, WithinPrefix DEF AroundIn
    <2>3. x # q => Within(value[q], value[y], FALSE)
      BY <2>2, <1>1, <1>6, <1>7, WithinTransitive
    <2>4. y \in S
      BY <2>2, <2>3, <1>7
    <2>5. value[y].len < value[x].len
      BY <2>2, <1>1, <1>6, <1>7, WithinShorter
    <2>6. value[x].len <= value[y].len /\ value[x].len \in Nat /\ value[y].len \in Nat
      BY <2>4, <1>1, <1>5, <1>6, <1>7
    <2>. QED BY <2>5, <2>6
  <1>8. x \in Outermost(res)
    BY <1>6, <1>7 DEF Outermost
  <1>9. x # q => value[x].len <= value[q].len /\ Matches(value[x], value[q])
    <2>1. ASSUME x # q PROVE Within(value[q], value[x], FALSE)
      BY <1>6, <2>1
    <2>2. ASSUME x # q PROVE value[x].len < value[q].len /\ Matches(value[x], value[q])
      BY <2>1, <2>2, <1>1, <1>6, WithinShorter, WithinBits
    <2>. QED BY <2>2, <1>1, <1>6
  <1>10. value[q].len <= value[q].len /\ Matches(value[q], value[q])
    BY <1>1 DEF Matches
  <1>. QED BY <1>8, <1>9, <1>10

(* What the pool of prefixes gives meets no live prefix but those around a *)
(* resource.                                                               *)
LEMMA PrefixFree ==
  ASSUME Typed, Given, Tree, History, clean, Unplaced = {}, ~ renumbered, NEW v \in NextPrefix,
         NEW q \in alive \cap Prefix, Overlap(value[q], v)
  PROVE  \E p \in Resource : q = p \/ Within(value[p], value[q], FALSE)
  <1>1. PICK p \in Resource \cap alive : \E s \in InOrder(Subnets(value[p])) : \E i \in 1 .. Len(Reserved(value[p], s)) :
           LET b == Reserved(value[p], s)[i]
           IN  /\ value[p] \in Net /\ value[p].len < Width /\ s \in Seq(Net)
               /\ LeftAfter(Reserved(value[p], s), Len(s), value[p], s)
               /\ b \in Net /\ b.len <= PoolLength /\ v = [bits |-> b.bits, len |-> PoolLength]
    BY NextPrefixIs
  <1> DEFINE res == value[p]
  <1>2. PICK s \in InOrder(Subnets(res)) : \E i \in 1 .. Len(Reserved(res, s)) :
           LET b == Reserved(res, s)[i]
           IN  /\ res \in Net /\ s \in Seq(Net)
               /\ LeftAfter(Reserved(res, s), Len(s), res, s)
               /\ b \in Net /\ b.len <= PoolLength /\ v = [bits |-> b.bits, len |-> PoolLength]
    BY <1>1
  <1> DEFINE av == Reserved(res, s)
  <1>3. PICK i \in 1 .. Len(av) : /\ res \in Net /\ s \in Seq(Net) /\ LeftAfter(av, Len(s), res, s)
                                  /\ av[i] \in Net /\ av[i].len <= PoolLength /\ v = [bits |-> av[i].bits, len |-> PoolLength]
    BY <1>2
  <1> DEFINE b == av[i]
  <1>4. b \in Net /\ b \in Value /\ v \in Net /\ v \in Value /\ b.len <= v.len /\ Matches(b, v) /\ res \in Value
    BY <1>3, PartNet DEF Net
  <1>5. q \in Prefix /\ value[q] \in Net /\ value[q] \in Value /\ value[q] # <<>>
    BY AliveValue DEF Given
  <1>6. Agree(b, value[q])
    <2>1. Agree(v, value[q])
      BY <1>4, <1>5, OverlapAgree, AgreeSymmetric
    <2> HIDE DEF b
    <2>. QED BY <2>1, <1>4, <1>5, AgreeInside
  <1>7. Within(b, res, FALSE)
    <2> HIDE DEF av, res
    <2>. QED BY <1>3 DEF LeftAfter, Inside
  <1>8. Agree(res, value[q])
    <2> HIDE DEF b, res
    <2>1. res.len < b.len /\ Matches(res, b)
      BY <1>4, <1>7, WithinShorter, WithinBits
    <2>2. res.len <= b.len
      BY <2>1, <1>4, ValueFields
    <2>. QED BY <2>1, <2>2, <1>4, <1>5, <1>6, AgreeInside
  <1>9. CASE value[q].len < res.len
    <2> HIDE DEF res
    <2>1. Agree(value[q], res)
      BY <1>4, <1>5, <1>8, AgreeSymmetric
    <2>2. Within(res, value[q], FALSE)
      BY <2>1, <1>3, <1>5, <1>9, AgreeNets
    <2>. QED BY <2>2, <1>1 DEF res
  <1>10. CASE value[q].len = res.len
    <2>1. value[q] = value[p]
      BY <1>3, <1>5, <1>8, <1>10, AgreeNets
    <2>2. p \in alive /\ p \in Prefix /\ ~ Doubled(alive, value)
      BY <1>1, IpamAssumption DEF Tree, TreeIn
    <2>3. q = p
      BY <2>1, <2>2, <1>5 DEF Doubled
    <2>. QED BY <2>3, <1>1
  <1>11. CASE res.len < value[q].len
    <2>1. Within(value[q], res, FALSE)
      BY <1>3, <1>5, <1>8, <1>11, AgreeNets
    <2>2. q \in InResource(res)
      BY <2>1, <1>5 DEF InResource
    <2> HIDE DEF b, av, res
    <2>3. PICK x \in Outermost(res) : value[x].len <= value[q].len /\ Matches(value[x], value[q])
      BY <2>2, <1>3, OutermostAround
    <2>4. value[x] \in Subnets(res)
      BY <2>3, SubnetsAre
    <2>5. PICK k \in 1 .. Len(s) : s[k] = value[x]
      <3> DEFINE S == Subnets(res)
      <3>1. IsFiniteSet(S) /\ s \in InOrder(S) /\ value[x] \in S
        BY <1>2, <2>4, SubnetFacts
      <3> HIDE DEF S
      <3>2. \A w \in S : \E j \in 1 .. Len(s) : s[j] = w
        BY <3>1, OrderAll
      <3>. QED BY <3>1, <3>2
    <2>6. \A y, z \in 1 .. Len(s) : y # z => ~ Agree(s[y], s[z])
      BY <1>2, <1>3, SubnetsApart
    <2>7. Clear(av, s[k])
      BY <2>5, <2>6, <1>3 DEF LeftAfter
    <2>8. ~ Agree(b, value[x])
      BY <2>5, <2>7, <1>3 DEF Clear, b
    <2>9. value[x] \in Value
      BY <2>4, SubnetFacts DEF Net
    <2>10. Agree(value[x], b)
      BY <2>3, <2>9, <1>4, <1>5, <1>6, AgreeSymmetric, AgreeInside
    <2>. QED BY <2>8, <2>9, <2>10, <1>4, AgreeSymmetric
  <1>12. value[q].len \in Nat /\ res.len \in Nat
    BY <1>4, <1>5, ValueFields
  <1>13. value[q].len < res.len \/ value[q].len = res.len \/ res.len < value[q].len
    <2> HIDE DEF res
    <2>. QED BY <1>12
  <1>. QED BY <1>9, <1>10, <1>11, <1>13

(* What the pool of addresses gives is no live address with that mask or a *)
(* longer one.                                                             *)
LEMMA AddressFree ==
  ASSUME Typed, Given, NEW v \in NextAddress, NEW a \in alive \cap Address, value[a].bits = v.bits
  PROVE  value[a].len < v.len
  <1>1. PICK p \in Resource \cap alive :
           /\ v.len = value[p].len /\ value[p] \in Net
           /\ IsPrefix(HostBits(value[p]), v.bits) /\ v.bits \notin UsedAddresses(value[p])
    BY NextAddressIs
  <1>2. value[a] \in Value /\ value[a] # <<>> /\ value[a].len \in Nat /\ v.len \in Nat
    BY <1>1, AliveValue, ValueFields DEF Given, Net
  <1>3. SUFFICES ASSUME value[a].len >= v.len PROVE FALSE
    BY <1>2
  <1>4. Within(value[a], value[p], TRUE)
    BY <1>1, <1>3 DEF Within
  <1>. QED BY <1>1, <1>2, <1>4 DEF UsedAddresses

(* What AllocationIsFree says of a step. *)
AllocationStep ==
  \A r \in Request :
    job[r].stage = "save" /\ job'[r].stage = "query" =>
      LET v == job[r].value
      IN  v \in NextOf(job[r].kind) =>
            IF job[r].kind = Prefix
            THEN clean /\ Unplaced = {} /\ ~ renumbered =>
                   \A q \in alive \cap Prefix :
                      Overlap(value[q], v) =>
                        \E p \in Resource : q = p \/ Within(value[p], value[q], FALSE)
            ELSE \A a \in alive \cap Address : value[a].bits = v.bits => value[a].len < v.len

(* What makes an allocation free.                                          *)
FreeInv == PInv /\ Typed /\ Tree /\ History

(* What the pools would give now is free now.                              *)
LEMMA NextAllocation == FreeInv => AllocationStep
  <1> SUFFICES ASSUME FreeInv, NEW r \in Request, job[r].value \in NextOf(job[r].kind)
               PROVE  IF job[r].kind = Prefix
                      THEN clean /\ Unplaced = {} /\ ~ renumbered =>
                             \A q \in alive \cap Prefix :
                                Overlap(value[q], job[r].value) =>
                                  \E p \in Resource : q = p \/ Within(value[p], value[q], FALSE)
                      ELSE \A a \in alive \cap Address : value[a].bits = job[r].value.bits => value[a].len < job[r].value.len
    BY DEF AllocationStep
  <1>1. Typed /\ Given /\ Tree /\ History
    BY DEF FreeInv, PInv
  <1>2. CASE job[r].kind = Prefix
    <2>1. job[r].value \in NextPrefix
      BY <1>2 DEF NextOf
    <2>. QED BY <1>1, <1>2, <2>1, PrefixFree
  <1>3. CASE job[r].kind # Prefix
    <2>1. job[r].value \in NextAddress
      BY <1>3 DEF NextOf
    <2>. QED BY <1>1, <1>3, <2>1, AddressFree
  <1>. QED BY <1>2, <1>3

(* What a pool saves is free: get_next of PrefixPool and of the pool of    *)
(* addresses, over what their queries return, never gives a prefix that    *)
(* overlaps a live one inside a resource, nor the bits of a live address,  *)
(* for any width, resources and prefix length.                             *)
THEOREM AllocationIsFreeAlways == Spec => AllocationIsFree
  <1>1. Init => FreeInv
    BY InitPInv, InitTyped, InitTree, InitHistory DEF FreeInv
  <1>2. FreeInv /\ [Next]_vars => FreeInv'
    BY NextPInv, NextTypedInv, NextTree, NextHistory DEF FreeInv
  <1>3. Spec => [][AllocationStep]_vars
    BY <1>1, <1>2, NextAllocation, PTL DEF Spec
  <1>4. AllocationStep <=>
          \A r \in Request :
            job[r].stage = "save" /\ job'[r].stage = "query" =>
              LET v == job[r].value
              IN  v \in NextOf(job[r].kind) =>
                    IF job[r].kind = Prefix
                    THEN clean /\ Unplaced = {} /\ ~ renumbered =>
                           \A q \in alive \cap Prefix :
                              Overlap(value[q], v) =>
                                \E p \in Resource :
                                  q = p \/ Within(value[p], value[q], FALSE)
                    ELSE \A a \in alive \cap Address :
                           value[a].bits = v.bits => value[a].len < v.len
    BY DEF AllocationStep
  <1>. QED BY <1>3, <1>4, PTL DEF AllocationIsFree

=============================================================================
