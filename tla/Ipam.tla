-------------------------------- MODULE Ipam --------------------------------
(***************************************************************************)
(* The tree of IP prefixes and addresses of one namespace, as seen on the  *)
(* default branch, and the pools that allocate from it.                    *)
(*                                                                         *)
(* Every mutation of a prefix or an address ends with a reconciliation,    *)
(* which reads the place of the node by one query and then rewrites the    *)
(* parents that the query says are wrong.  A mutation runs in a            *)
(* transaction: what it read may have changed when it commits.  A pool     *)
(* does the same without a transaction, one save at a time.                *)
(***************************************************************************)
EXTENDS Naturals, Sequences, FiniteSets, SequencesExt

CONSTANTS
    Prefix,       \* nodes of the kinds that inherit from BuiltinIPPrefix
    Address,      \* nodes of the kinds that inherit from BuiltinIPAddress
    Width,        \* bits of an address
    Network,      \* prefixes that requests ask for
    Host,         \* addresses that requests ask for
    Request,      \* requests that run at the same time
    Identifier,   \* identifiers that requests to a pool carry
    Anonymous,    \* a request to a pool without an identifier
    Resource,     \* prefix nodes that are the resources of the pools
    PoolLength,   \* prefix length asked of the pool of prefixes
    Start,        \* the value of each resource when the pools are made
    MaxRequests   \* bound: requests that are made

Node == Prefix \cup Address

(* An IP value is its bits and a prefix length; the bits of a network past *)
(* its length are zero.                                                    *)
Value == [bits: [1 .. Width -> {0, 1}], len: 0 .. Width]

IsNetwork(v) == \A i \in (v.len + 1) .. Width : v.bits[i] = 0

ASSUME IpamAssumption ==
    /\ Prefix \cap Address = {} /\ IsFiniteSet(Prefix)
    /\ Width \in Nat \ {0} /\ MaxRequests \in Nat
    /\ Network \subseteq {v \in Value : IsNetwork(v)}
    /\ Host \subseteq Value
    /\ Resource \subseteq Prefix
    /\ Start \in [Resource -> Network]
    /\ \A p, q \in Resource : p # q => ~ IsPrefix(SubSeq(Start[p].bits, 1, Start[p].len),
                                              Start[q].bits)
    /\ PoolLength \in 1 .. Width
    /\ Anonymous \notin Identifier

VARIABLES
    alive,     \* nodes that are part of the branch
    value,     \* prefix or address of each node, <<>> before it exists; the
               \* open edges of a deleted node still lead to it
    parent,    \* active parent__child and ip_prefix__ip_address relationships
    past,      \* prefixes a prefix ever had a parent__child relationship with
    reserved,  \* IS_RESERVED edges of the pools
    job,       \* what each request is doing
    requests,  \* requests made so far
    clean,     \* history: no incident so far: a write that was planned on what
               \* had changed, two live prefixes of one value, a mutation of a
               \* node a pool had not placed yet, an allocation that failed
               \* before it placed its node
    renumbered,\* history: a prefix was given another value or deleted
    shared     \* history: identifiers that two requests used at once

vars == <<alive, value, parent, past, reserved, job, requests, clean,
          renumbered, shared>>

tree == <<alive, value, parent, past>>

Idle == [stage |-> "idle"]

-----------------------------------------------------------------------------
(* Binary addresses, as convert_ip_to_binary_str writes them.              *)

HostBits(v) == SubSeq(v.bits, 1, v.len)

Padded(bits) == [i \in 1 .. Width |-> IF i <= Len(bits) THEN bits[i] ELSE 0]

(* May a prefix with value p be the parent of a node with value v: the     *)
(* list of possible prefixes of the query, each with the length up to      *)
(* which it is a match.  The shortest one has one bit.                     *)
MaybeParent(p, v, is_address) ==
    \E m \in 1 .. (IF is_address THEN v.len ELSE v.len - 1) :
        p.bits = Padded(SubSeq(v.bits, 1, m)) /\ p.len <= m

(* Is the value c of a prefix or an address inside the prefix p.           *)
Within(c, p, is_address) ==
    /\ IsPrefix(HostBits(p), c.bits)
    /\ IF is_address THEN c.len >= p.len ELSE c.len > p.len

-----------------------------------------------------------------------------
(* IPPrefixReconcileQuery, for a node n with value v that is, or will be   *)
(* when its transaction commits, part of the branch.                       *)

(* One of a set, as a set: a query that returns several rows is read by    *)
(* its first, whichever it is.                                             *)
FirstOf(S) == IF S = {} THEN {{}} ELSE {{x} : x \in S}

NewParents(n, v) ==
    LET maybe == {p \in (alive \cap Prefix) \ {n} :
                    MaybeParent(value[p], v, n \in Address)}
    IN  {p \in maybe : \A q \in maybe : value[q].len <= value[p].len}

NewChildren(n, v) ==
    LET maybe == {c \in alive \ {n} :
                    n \in Prefix /\ Within(value[c], v, c \in Address)}
    IN  {c \in maybe : ~ \E p \in (maybe \cap Prefix) \ {c} :
                           Within(value[c], value[p], c \in Address)}

CurrentChildren(n) == {c \in alive : n \in parent[c]}

(* Mutant: the children it loses go to the new parent of the node.         *)
Reconciled_calculated(n, v) ==
    LET old == CurrentChildren(n)
        new == NewChildren(n, v)
        changed == {n} \cup (old \ new) \cup (new \ old)
    IN  {[m \in changed |-> IF m \in {n} \cup old THEN calculated ELSE {n}] :
           calculated \in FirstOf(NewParents(n, v))}

(* The parents a reconciliation is about to write: those of the node, of   *)
(* the children it loses, which go to its current parent, and of those it  *)
(* gains.                                                                  *)
Reconciled(n, v) ==
    LET old == CurrentChildren(n)
        new == NewChildren(n, v)
        changed == {n} \cup (old \ new) \cup (new \ old)
    IN  {[m \in changed |-> IF m = n THEN calculated
                            ELSE IF m \in old THEN current ELSE {n}] :
           calculated \in FirstOf(NewParents(n, v)),
           current \in FirstOf(parent[n])}

(* The same for a prefix that is to be deleted.                            *)
ReconciledForDelete(n) ==
    {[m \in CurrentChildren(n) |-> current] : current \in FirstOf(parent[n])}

(* A plan of a reconciliation is up to date when the same query would ask  *)
(* for the same writes now; n itself may have been written already.        *)
UpToDate(todo, plans, n) ==
    \E p \in plans : /\ DOMAIN p \ {n} = DOMAIN todo \ {n}
                     /\ \A m \in DOMAIN todo : m \in DOMAIN p /\ p[m] = todo[m]

(* History: two live prefixes with one value.  No constraint forbids it.   *)
Doubled(nodes, val) ==
    \E p, q \in nodes \cap Prefix : p # q /\ val[p] = val[q]

(* Nodes that a pool saved and that have no place in the tree yet.         *)
Unplaced == {job[r].node : r \in {q \in Request : job[q].stage \in {"query", "write"}}}

(* A new node of a kind, if the bounds leave one; which one makes no       *)
(* difference.                                                             *)
Fresh(S) ==
    LET unused == {n \in S : value[n] = <<>> /\ \A r \in Request :
                                 job[r].stage = "commit" => job[r].node # n}
    IN  IF unused = {} THEN {} ELSE {CHOOSE n \in unused : TRUE}

-----------------------------------------------------------------------------
(* Mutations of prefixes and addresses: the reads of the transaction, and  *)
(* its commit.                                                             *)

Asked(n) == IF n \in Prefix THEN Network ELSE Host

Transaction(r, op, n, v, plans) ==
    /\ job[r] = Idle /\ requests < MaxRequests
    /\ requests' = requests + 1
    /\ \E todo \in plans :
          job' = [job EXCEPT ![r] = [stage |-> "commit", op |-> op, node |-> n,
                                     value |-> v, todo |-> todo]]
    /\ UNCHANGED <<tree, reserved, clean, renumbered, shared>>

Create(r) ==
    \E n \in Fresh(Prefix) \cup Fresh(Address) : \E v \in Asked(n) :
        Transaction(r, "create", n, v, Reconciled(n, v))

(* An update that keeps the value only reconciles once more; it is left    *)
(* out.                                                                    *)
Update(r) ==
    \E n \in alive : \E v \in Asked(n) \ {value[n]} :
        Transaction(r, "update", n, v, Reconciled(n, v))

Delete(r) ==
    \E n \in alive \cap Prefix :
        Transaction(r, "delete", n, value[n], ReconciledForDelete(n))

(* The parents after the writes of todo; nodes that are gone are not found *)
(* and keep what they have.                                                *)
Written(todo, nodes) ==
    [m \in Node |-> IF m \in DOMAIN todo \cap nodes THEN todo[m] ELSE parent[m]]

Remembered(new) ==
    [m \in Node |-> IF m \in Prefix THEN past[m] \cup new[m] ELSE past[m]]

(* A create or an update saves the node, then the parents.  A node that    *)
(* was deleted meanwhile stays deleted: the request fails, or it writes    *)
(* to what is left of it.                                                  *)
CommitSave(r) ==
    LET n == job[r].node
        new == Written(job[r].todo, alive')
    IN  /\ job[r].stage = "commit" /\ job[r].op \in {"create", "update"}
        /\ alive' = IF job[r].op = "create" THEN alive \cup {n} ELSE alive
        /\ value' = [value EXCEPT ![n] = job[r].value]
        /\ parent' = new
        /\ past' = Remembered(new)
        /\ job' = [job EXCEPT ![r] = Idle]
        /\ clean' = /\ clean
                    /\ n \in alive' \ Unplaced
                    /\ UpToDate(job[r].todo, Reconciled(n, job[r].value), n)
                    /\ ~ Doubled(alive', value')
        /\ renumbered' = (renumbered \/ (job[r].op = "update" /\ n \in Prefix))
        /\ UNCHANGED <<requests, reserved, shared>>

(* A delete moves the children, then deletes the node with all of its      *)
(* relationships.                                                          *)
CommitDelete(r) ==
    LET n == job[r].node
        moved == Written(job[r].todo, alive)
    IN  /\ job[r].stage = "commit" /\ job[r].op = "delete"
        /\ alive' = alive \ {n}
        /\ parent' = [m \in Node |-> IF m = n THEN {} ELSE moved[m] \ {n}]
        /\ past' = Remembered(moved)
        /\ job' = [job EXCEPT ![r] = Idle]
        /\ clean' = (clean /\ n \notin Unplaced
                          /\ UpToDate(job[r].todo, ReconciledForDelete(n), n))
        /\ renumbered' = TRUE
        /\ UNCHANGED <<requests, value, reserved, shared>>

(* The delete of an address is that of any node, without reconciliation.   *)
DeleteAddress ==
    \E a \in alive \cap Address :
        /\ alive' = alive \ {a}
        /\ parent' = [parent EXCEPT ![a] = {}]
        /\ UNCHANGED <<requests, value, past, reserved, job, clean, renumbered,
                       shared>>

-----------------------------------------------------------------------------
(* What a pool takes for used, and what it gives next.                     *)

(* IPPrefixSubnetFetch: the outermost prefixes in the resource.  Neither   *)
(* the status of an edge nor, for the children, its time is looked at: a   *)
(* deleted prefix counts, and a prefix that ever was a child of another    *)
(* one in the resource does not.                                           *)
Subnets(res) ==
    LET all == {p \in Prefix : value[p] # <<>> /\ Within(value[p], res, FALSE)}
    IN  {value[p] : p \in {q \in all : past[q] \cap all = {}}}

(* IPPrefixIPAddressFetch.                                                 *)
UsedAddresses(res) ==
    {value[a].bits : a \in {b \in Address : value[b] # <<>> /\
                                            Within(value[b], res, TRUE)}}

Block(bits) == [bits |-> Padded(bits), len |-> Len(bits)]

Flipped(bits, i) == [SubSeq(bits, 1, i) EXCEPT ![i] = 1 - bits[i]]

(* Mutant: no block is split.                                              *)
reserve_whole(available, sub) == SelectSeq(available, LAMBDA b : b # sub)

(* PrefixPool: the blocks that are left, in the order they became          *)
(* available.  A subnet is taken out of the closest block around it, of    *)
(* which the other halves are left; a subnet that lies in no block is not  *)
(* reserved.                                                               *)
BlocksAround(available, sub) ==
    {i \in DOMAIN available : IsPrefix(HostBits(available[i]), HostBits(sub))}

reserve(available, sub) ==
    LET around == BlocksAround(available, sub)
        block == CHOOSE i \in around : \A j \in around : available[j].len <= available[i].len
    IN  IF around = {} THEN available
        ELSE RemoveAt(available, block)
             \o [i \in 1 .. (sub.len - available[block].len) |->
                   Block(Flipped(sub.bits, available[block].len + i))]

(* Subnets are reserved in the order of their binary address.              *)
InOrder(S) ==
    {s \in SetToSeqs(S) : \A i, j \in DOMAIN s :
        i < j => s[i].bits = s[j].bits \/
                 \E k \in 1 .. Width : /\ s[i].bits[k] < s[j].bits[k]
                                       /\ \A h \in 1 .. (k - 1) :
                                            s[i].bits[h] = s[j].bits[h]}

(* What is left of a resource after its subnets s were reserved; the pool  *)
(* starts with its two halves.                                             *)
Halves(res) == [i \in 1 .. 2 |-> Block(Append(HostBits(res), i - 1))]

Reserved(res, s) ==
    LET left[k \in 0 .. Len(s)] ==
          IF k = 0 THEN Halves(res) ELSE reserve(left[k - 1], s[k])
    IN  left[Len(s)]

Available(res) == {Reserved(res, s) : s \in InOrder(Subnets(res))}

(* PrefixPool.get: the first block of that length, or else the first part  *)
(* of the first block of the next shorter length.                          *)
get(available, len) ==
    LET fit == {i \in DOMAIN available : available[i].len <= len}
    IN  {[bits |-> available[i].bits, len |-> len] :
           i \in {j \in fit : \A k \in fit : \/ available[k].len < available[j].len
                                             \/ available[k].len = available[j].len /\ j <= k}}

(* get_next of the two pools: the first resource that has anything left.   *)
NextPrefix ==
    UNION {UNION {get(available, PoolLength) : available \in Available(value[p])} :
             p \in {q \in Resource \cap alive : value[q].len < Width}}

(* pools/address.py: the lowest address left, the first and the last of    *)
(* the network apart (IPv4, and the resource is not marked is_pool).       *)
Number(bits) == FoldLeft(LAMBDA n, b : 2 * n + b, 0, bits)

NextAddress ==
    UNION {LET hosts == {bits \in [1 .. Width -> {0, 1}] :
                           IsPrefix(HostBits(value[p]), bits)}
               ends == {bits \in hosts : \A i, j \in (value[p].len + 1) .. Width :
                                           bits[i] = bits[j]}
               left == (hosts \ ends) \ UsedAddresses(value[p])
           IN  {[bits |-> b, len |-> value[p].len] :
                  b \in {c \in left : \A d \in left : Number(c) <= Number(d)}} :
             p \in Resource \cap alive}

NextOf(S) == IF S = Prefix THEN NextPrefix ELSE NextAddress

-----------------------------------------------------------------------------
(* get_resource of the two pools, which runs in no transaction.            *)

(* IPAddressPoolGetReserved and PrefixPoolGetReserved.                     *)
(* Mutant: the edges are looked up under the wrong pool.                   *)
Reservations_none(id, S) == {}

Reservations(id, S) ==
    {x.node : x \in {y \in reserved : y.id = id /\ y.node \in S}}

(* An identifier that has a resource gets it again, and nothing changes.   *)
(* The first edge found decides, whichever it is: when its node is gone    *)
(* the request goes on as if there were none.                              *)
GetResource(r) ==
    \E S \in {Prefix, Address}, id \in Identifier \cup {Anonymous} :
        /\ job[r] = Idle /\ requests < MaxRequests
        /\ requests' = requests + 1
        /\ Reservations(id, S) = {} \/ Reservations(id, S) \ alive # {}
        /\ job' = [job EXCEPT ![r] = [stage |-> "pick", kind |-> S, id |-> id]]
        /\ shared' = shared \cup
             {i \in {id} \cap Identifier : \E q \in Request :
                  job[q].stage \notin {"idle", "commit"} /\ job[q].id = i}
        /\ UNCHANGED <<tree, reserved, clean, renumbered>>

(* get_next; a pool that is exhausted ends the request with an error.      *)
Pick(r) ==
    /\ job[r].stage = "pick"
    /\ \/ \E v \in NextOf(job[r].kind) :
             job' = [job EXCEPT ![r] = [stage |-> "save", kind |-> job[r].kind,
                                        id |-> job[r].id, value |-> v]]
       \/ /\ NextOf(job[r].kind) = {}
          /\ job' = [job EXCEPT ![r] = Idle]
    /\ UNCHANGED <<requests, tree, reserved, clean, renumbered, shared>>

Save(r) ==
    /\ job[r].stage = "save"
    /\ \E n \in Fresh(job[r].kind) :
          /\ alive' = alive \cup {n}
          /\ value' = [value EXCEPT ![n] = job[r].value]
          /\ job' = [job EXCEPT ![r] = [stage |-> "query", node |-> n,
                                        id |-> job[r].id]]
    /\ clean' = (clean /\ ~ Doubled(alive', value'))
    /\ UNCHANGED <<requests, parent, past, reserved, renumbered, shared>>

(* The query of the reconciliation; a node that was deleted since is not   *)
(* found, which ends the request.                                          *)
Query(r) ==
    LET n == job[r].node
    IN  /\ job[r].stage = "query"
        /\ \/ /\ n \in alive
              /\ \E todo \in Reconciled(n, value[n]) :
                    job' = [job EXCEPT ![r] = [stage |-> "write", node |-> n,
                                               id |-> job[r].id, todo |-> todo]]
           \/ /\ n \notin alive
              /\ job' = [job EXCEPT ![r] = Idle]
        /\ UNCHANGED <<requests, tree, reserved, clean, renumbered, shared>>

(* An allocation without an identifier ends with its last save.            *)
(* Mutant: the edge is written for every allocation.                       *)
AfterWrites_always(n, id) == [stage |-> "reserve", node |-> n, id |-> id]

AfterWrites(n, id) ==
    IF id = Anonymous THEN Idle
    ELSE [stage |-> "reserve", node |-> n, id |-> id]

(* The saves of the reconciliation, one node after the other.              *)
Write(r) ==
    /\ job[r].stage = "write"
    /\ \E m \in DOMAIN job[r].todo :
          LET n == job[r].node
              todo == job[r].todo
              rest == [k \in DOMAIN todo \ {m} |-> todo[k]]
              new == Written([k \in {m} |-> todo[m]], alive)
          IN  /\ parent' = new
              /\ past' = Remembered(new)
              /\ clean' = /\ clean
                          /\ n \in alive
                          /\ UpToDate(todo, Reconciled(n, value[n]), n)
              /\ job' = [job EXCEPT ![r] =
                           IF DOMAIN rest # {} THEN [@ EXCEPT !.todo = rest]
                           ELSE AfterWrites(n, @.id)]
    /\ UNCHANGED <<requests, alive, value, reserved, renumbered, shared>>

Reserve(r) ==
    /\ job[r].stage = "reserve"
    /\ reserved' = reserved \cup {[id |-> job[r].id, node |-> job[r].node]}
    /\ job' = [job EXCEPT ![r] = Idle]
    /\ UNCHANGED <<requests, tree, clean, renumbered, shared>>

(* A request fails or its worker dies after the pool saved the node, which *)
(* stays.  One that fails earlier, or a mutation whose transaction is      *)
(* rolled back, leaves nothing behind: it is a request that was not made.  *)
Fail(r) ==
    /\ job[r].stage \in {"query", "write", "reserve"}
    /\ job' = [job EXCEPT ![r] = Idle]
    /\ clean' = (clean /\ job[r].stage = "reserve")
    /\ UNCHANGED <<requests, tree, reserved, renumbered, shared>>

-----------------------------------------------------------------------------

Init ==
    /\ alive = Resource
    /\ value = [n \in Node |-> IF n \in Resource THEN Start[n] ELSE <<>>]
    /\ parent = [n \in Node |-> {}]
    /\ past = [n \in Node |-> {}]
    /\ reserved = {}
    /\ job = [r \in Request |-> Idle]
    /\ requests = 0
    /\ clean = TRUE
    /\ renumbered = FALSE
    /\ shared = {}

Next ==
    \/ DeleteAddress
    \/ \E r \in Request :
          \/ Create(r) \/ Update(r) \/ Delete(r)
          \/ CommitSave(r) \/ CommitDelete(r)
          \/ GetResource(r) \/ Pick(r) \/ Save(r) \/ Query(r) \/ Write(r)
          \/ Reserve(r)
          \/ Fail(r)

Spec == Init /\ [][Next]_vars

-----------------------------------------------------------------------------

(* Every value is one that the code may write, networks have no host bits, *)
(* and only identifiers are reserved.                                      *)
TypeOK ==
    /\ alive \subseteq {n \in Node : value[n] # <<>>}
    /\ \A n \in Node : value[n] = <<>> \/ value[n] \in Value
    /\ \A p \in Prefix : value[p] = <<>> \/ IsNetwork(value[p])
    /\ parent \in [Node -> SUBSET Prefix]
    /\ past \in [Node -> SUBSET Prefix]
    /\ reserved \subseteq [id: Identifier, node: Node]
    /\ requests \in 0 .. MaxRequests
    /\ shared \subseteq Identifier

(* The most specific live prefix around a node, by the definition of       *)
(* containment.                                                            *)
Closest(n) ==
    LET around == {p \in (alive \cap Prefix) \ {n} :
                     Within(value[n], value[p], n \in Address)}
    IN  {p \in around : \A q \in around : value[q].len <= value[p].len}

(* The parent of every node is the most specific prefix around it, however *)
(* many creations, moves, resizings and deletions came before: the         *)
(* reconciliation of one node repairs all that its change made wrong, also *)
(* when other requests committed in between, as long as none of them       *)
(* changed what it had read.  The parents a node loses its children to are *)
(* its old ones, those it gains them from are never asked.  The prefix of  *)
(* length zero is looked for by its first bit only and may be missing as a *)
(* parent.                                                                 *)
TreeFollowsContainment ==
    clean /\ Unplaced = {} => \A n \in alive :
        \/ parent[n] = Closest(n)
        \/ parent[n] = {} /\ \A p \in Closest(n) : value[p].len = 0

Overlap(v, w) == IsPrefix(HostBits(v), w.bits) \/ IsPrefix(HostBits(w), v.bits)

(* What a pool hands out is not in use when it is saved, unless somebody   *)
(* took it since the pool looked: no live prefix overlaps it, other than   *)
(* those around a resource, while no prefix was renumbered or deleted; no  *)
(* live address has its bits, unless its mask is shorter than that of the  *)
(* resource.                                                               *)
AllocationIsFree ==
    [][\A r \in Request :
         job[r].stage = "save" /\ job'[r].stage = "query" =>
           LET v == job[r].value
           IN  v \in NextOf(job[r].kind) =>
                 IF job[r].kind = Prefix
                 THEN clean /\ Unplaced = {} /\ ~ renumbered =>
                        \A q \in alive \cap Prefix :
                           Overlap(value[q], v) =>
                             \E p \in Resource :
                               q = p \/ Within(value[p], value[q], FALSE)
                 ELSE \A a \in alive \cap Address :
                        value[a].bits = v.bits => value[a].len < v.len]_vars

(* An identifier stands for one resource of a pool: however often it is    *)
(* asked for, no second one is allocated, unless two requests asked at the *)
(* same time or one of its resources was deleted.                          *)
OnePerIdentifier ==
    \A x, y \in reserved :
        /\ x.id = y.id /\ x.id \notin shared
        /\ x.node # y.node /\ (x.node \in Prefix <=> y.node \in Prefix)
        => \E z \in reserved : /\ z.id = x.id /\ z.node \notin alive
                               /\ z.node \in Prefix <=> x.node \in Prefix

=============================================================================
