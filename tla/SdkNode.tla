------------------------------- MODULE SdkNode -------------------------------
(***************************************************************************)
(* Objects of the Python SDK.  A client reads a node into an object, changes *)
(* fields of the object and saves it.  The object keeps the data it was read *)
(* with and sends what differs; the data are not read again after a save.    *)
(* A request may be refused because its token has expired, or may be lost    *)
(* before or after the server has carried it out.                            *)
(*                                                                          *)
(* The content of a field is a set: of at most one value for an attribute,   *)
(* of at most one peer for a relationship of cardinality one.                *)
(***************************************************************************)
EXTENDS Naturals, FiniteSets

CONSTANTS
    Client,
    Attribute,     \* fields of a node: attributes,
    RelatedNode,   \* relationships of cardinality one,
    Prefetched,    \* of cardinality many that every query asks for (of kind Attribute or Parent),
    Lazy,          \* and others, which have to be fetched
    Content,       \* values and peers
    Node,          \* ids of nodes
    First,         \* the node that is there
    NoId,          \* id of an object that is not saved
    Retrying,      \* clients with retry_on_failure
    Fields,        \* bound: the fields that one behaviour is about
    MaxSaves, MaxEdits, MaxFaults   \* bounds on mutations, changes of objects and faults

RelationshipManager == Prefetched \cup Lazy
Single == Attribute \cup RelatedNode
Field == Single \cup RelationshipManager

ASSUME SdkNodeAssumption ==
    /\ First \in Node /\ NoId \notin Node
    /\ Attribute \cap (RelatedNode \cup RelationshipManager) = {}
    /\ RelatedNode \cap RelationshipManager = {} /\ Prefetched \cap Lazy = {}
    /\ Retrying \subseteq Client
    /\ \A F \in Fields : F \subseteq Field
    /\ MaxSaves \in Nat /\ MaxEdits \in Nat /\ MaxFaults \in Nat

VARIABLES
    fields,     \* the fields this behaviour is about
    server,     \* the nodes there are, with the content of their fields
    object,     \* the object that each client has
    request,    \* the request that each client waits for
    abandoned,  \* requests that no client waits for and the server may still carry out
    origin,     \* history: the object that each node was created from
    touched,    \* history: the fields of its object that a client has set
    lost,       \* history: a client gave up a request, or sent it again
    edits, saves, faults

sdkVars == <<fields, server, object, request, abandoned, origin, touched, lost,
             edits, saves, faults>>

None == [op |-> "none"]
Idle(c) == request[c] = None

-----------------------------------------------------------------------------
(* Objects.  `data` has what was read for the fields in `read`; `initialized` *)
(* and `has_update` are those of its relationship managers; `properties` has  *)
(* the related nodes that carry the properties they were read with.          *)

(* What a field can hold. *)
Contents(f) == {S \in SUBSET Content : f \in Single => Cardinality(S) <= 1}

(* The fields that a query asks for. *)
generate_query_data == fields \ Lazy

from_graphql(id, content) ==
    LET got == [f \in fields |-> IF f \in generate_query_data THEN content[f] ELSE {}] IN
    [id |-> id, tag |-> None, read |-> generate_query_data, data |-> got, now |-> got,
     initialized |-> RelationshipManager \cap generate_query_data,
     has_update |-> RelationshipManager \cap generate_query_data,
     properties |-> {f \in fields \cap RelatedNode : content[f] # {}}]

Becomes(c, o, cost) ==
    /\ Idle(c)
    /\ object' = [object EXCEPT ![c] = o]
    /\ edits + cost <= MaxEdits /\ edits' = edits + cost
    /\ UNCHANGED <<fields, server, request, abandoned, origin, lost, saves, faults>>

Get(c) ==
    \E n \in DOMAIN server :
        /\ Becomes(c, from_graphql(n, server[n]), 0)
        /\ touched' = [touched EXCEPT ![c] = {}]

(* client.create: the data of a new object are never equal to what it sends. *)
New(c) ==
    \E content \in [fields -> SUBSET Content] :
        /\ \A f \in fields : content[f] \in Contents(f)
        /\ Becomes(c, [id |-> NoId, tag |-> <<c, edits>>,
                       read |-> {}, data |-> content, now |-> content,
                       initialized |-> {f \in fields \cap RelationshipManager : content[f] # {}},
                       has_update |-> {f \in fields \cap RelationshipManager : content[f] # {}},
                       properties |-> {}], 1)
        /\ touched' = [touched EXCEPT ![c] = {f \in fields : content[f] # {}}]

Assign(c) ==
    \E f \in fields \cap Single : \E content \in Contents(f) :
        LET o == object[c] IN
        /\ o # None /\ content # o.now[f]
        /\ Becomes(c, [o EXCEPT !.now[f] = content, !.properties = @ \ {f}], 1)
        /\ touched' = [touched EXCEPT ![c] = @ \cup {f}]

Fetch(c) ==
    \E f \in fields \cap RelationshipManager :
        LET o == object[c] IN
        /\ o # None /\ o.id \in DOMAIN server /\ f \notin o.initialized
        /\ Becomes(c, [o EXCEPT !.now[f] = server[o.id][f], !.initialized = @ \cup {f}], 0)
        /\ UNCHANGED touched

(* Mutant: a change of the peers does not count as an update.                *)
Changed_not(o, f, peers) == [o EXCEPT !.now[f] = peers]

Changed(o, f, peers) == [o EXCEPT !.now[f] = peers, !.has_update = @ \cup {f}]

(* add and remove. *)
ChangePeer(c) ==
    \E f \in fields \cap RelationshipManager, p \in Content :
        LET o == object[c] IN
        /\ o # None /\ f \in o.initialized
        /\ Becomes(c, Changed(o, f, IF p \in o.now[f] THEN o.now[f] \ {p} ELSE o.now[f] \cup {p}), 1)
        /\ touched' = [touched EXCEPT ![c] = @ \cup {f}]

-----------------------------------------------------------------------------
(* Saving an object.                                                        *)

(* An attribute without a value and a relationship without a peer are left   *)
(* out, so that neither can be taken away.                                   *)
_generate_input_data(o) ==
    {f \in fields : IF f \in Single THEN o.now[f] # {} ELSE f \in o.initialized}

(* Mutant: what is like the data that were read is sent all the same.        *)
_strip_unmodified_not(o, F) == F

(* A related node that carries its properties is not like the data it was    *)
(* read from, and a relationship that was read with its node has an update.  *)
_strip_unmodified(o, F) ==
    {f \in F : \/ f \in RelationshipManager /\ f \in o.has_update
               \/ f \in o.properties
               \/ f \in Single /\ (f \in o.read => o.data[f] # o.now[f])}

Send(c, r) ==
    /\ Idle(c)
    /\ request' = [request EXCEPT ![c] = r]
    /\ saves < MaxSaves /\ saves' = saves + 1
    /\ UNCHANGED <<fields, server, object, abandoned, origin, touched, lost, edits, faults>>

(* The fields in `sent` are sent with what the object holds now. *)
Mutation(op, c, full, sent) ==
    [op |-> op, id |-> object[c].id, tag |-> object[c].tag, full |-> full,
     touched |-> touched[c], sent |-> sent, payload |-> object[c].now,
     status |-> "sent", relogin |-> FALSE]

Save(c) ==
    \E full \in BOOLEAN :
        LET o == object[c]
            all == _generate_input_data(o)
        IN  /\ o # None
            /\ o.id = NoId => full
            /\ Send(c, Mutation(IF o.id = NoId THEN "create" ELSE "update", c, full,
                                IF full THEN all ELSE _strip_unmodified(o, all)))

Delete(c) ==
    /\ object[c] # None /\ object[c].id # NoId
    /\ Send(c, Mutation("delete", c, FALSE, {}))

-----------------------------------------------------------------------------
(* The server and the connection.                                           *)

Written(r, content) == [f \in fields |-> IF f \in r.sent THEN r.payload[f] ELSE content[f]]

(* What the server does for a request, and the id it answers with. *)
Perform(r, id) ==
    \/ /\ r.op = "update" /\ r.id \in DOMAIN server /\ id = r.id
       /\ server' = [server EXCEPT ![id] = Written(r, @)]
       /\ UNCHANGED origin
    \/ /\ r.op = "create" /\ id \in Node \ DOMAIN origin
       /\ server' = [n \in DOMAIN server \cup {id} |->
                       IF n = id THEN Written(r, [f \in fields |-> {}]) ELSE server[n]]
       /\ origin' = [n \in DOMAIN origin \cup {id} |-> IF n = id THEN r.tag ELSE origin[n]]
    \/ /\ r.op = "delete" /\ r.id \in DOMAIN server /\ id = r.id
       /\ server' = [n \in DOMAIN server \ {id} |-> server[n]]
       /\ UNCHANGED origin
    \/ /\ r.op # "create" /\ r.id \notin DOMAIN server /\ id = NoId
       /\ UNCHANGED <<server, origin>>

Handle(c) ==
    \E id \in Node \cup {NoId} :
        /\ ~ Idle(c) /\ request[c].status = "sent"
        /\ Perform(request[c], id)
        /\ request' = [request EXCEPT ![c].status = "done", ![c].id = id]
        /\ UNCHANGED <<fields, object, abandoned, touched, lost, edits, saves, faults>>

HandleLate(r) ==
    \E id \in Node \cup {NoId} :
        /\ r \in abandoned
        /\ Perform(r, id)
        /\ abandoned' = abandoned \ {r}
        /\ UNCHANGED <<fields, object, request, touched, lost, edits, saves, faults>>

(* Mutant: the id of a node that was created is not kept.                    *)
_process_mutation_result_dropped(o, r) == o

_process_mutation_result(o, r) == [o EXCEPT !.id = r.id]

(* An error of the server raises and leaves the object as it is. *)
Answer(c) ==
    LET r == request[c] IN
    /\ ~ Idle(c) /\ r.status = "done"
    /\ object' = [object EXCEPT ![c] =
                    IF r.op = "delete" \/ r.id = NoId THEN @ ELSE _process_mutation_result(@, r)]
    /\ request' = [request EXCEPT ![c] = None]
    /\ UNCHANGED <<fields, server, abandoned, origin, touched, lost, edits, saves, faults>>

(* A request whose token has expired is sent once again after a login. *)
handle_relogin(r) == IF r.relogin THEN None ELSE [r EXCEPT !.relogin = TRUE]

Refuse(c) ==
    /\ ~ Idle(c) /\ request[c].status = "sent"
    /\ faults < MaxFaults /\ faults' = faults + 1
    /\ request' = [request EXCEPT ![c] = handle_relogin(@)]
    /\ UNCHANGED <<fields, server, object, abandoned, origin, touched, lost, edits, saves>>

(* The same request once more, of an object that has not changed since. *)
Again(r, id) == [r EXCEPT !.status = "sent", !.relogin = FALSE, !.id = id]

(* execute_graphql: a client may try again when the connection breaks; it     *)
(* does not when the answer is late.                                         *)
Fail(c) ==
    \E again \in BOOLEAN :
        LET r == request[c] IN
        /\ ~ Idle(c)
        /\ again => c \in Retrying
        /\ faults < MaxFaults /\ faults' = faults + 1
        /\ abandoned' = IF r.status = "sent" THEN abandoned \cup {r} ELSE abandoned
        /\ request' = [request EXCEPT ![c] =
             IF again THEN Again(r, object[c].id) ELSE None]
        /\ lost' = TRUE
        /\ UNCHANGED <<fields, server, object, origin, touched, edits, saves>>

-----------------------------------------------------------------------------

SdkInit ==
    /\ fields \in Fields
    /\ \E v \in Content : server = [n \in {First} |-> [f \in fields |-> {v}]]
    /\ object = [c \in Client |-> None]
    /\ request = [c \in Client |-> None]
    /\ abandoned = {} /\ lost = FALSE
    /\ origin = [n \in {First} |-> None]
    /\ touched = [c \in Client |-> {}]
    /\ edits = 0 /\ saves = 0 /\ faults = 0

SdkNext ==
    \/ \E c \in Client :
          \/ Get(c) \/ New(c) \/ Assign(c) \/ Fetch(c) \/ ChangePeer(c)
          \/ Save(c) \/ Delete(c)
          \/ Handle(c) \/ Answer(c) \/ Refuse(c) \/ Fail(c)
    \/ \E r \in abandoned : HandleLate(r)

SdkSpec == SdkInit /\ [][SdkNext]_sdkVars

-----------------------------------------------------------------------------

(* A step that carries out the request of a client. *)
CarriedOut(c) ==
    /\ ~ Idle(c) /\ request[c].status = "sent"
    /\ request'[c] # None /\ request'[c].status = "done"

(* Saving an object leaves alone what its client has not set, even if another *)
(* client has changed it since it was read: all attributes, and the           *)
(* relationships that were not read with the node.                           *)
OthersKept ==
    [][\A n \in DOMAIN server \cap DOMAIN server' : \A f \in fields :
         server'[n][f] # server[n][f] =>
           \E r \in {request[c] : c \in {d \in Client : CarriedOut(d)}} \cup (abandoned \ abandoned') :
              /\ r.op = "update" /\ r.id = n
              /\ r.full \/ f \in r.touched \cup RelatedNode \cup Prefetched]_sdkVars

(* What a client has set in its object is on the server when its save was    *)
(* carried out, unless it took something away or went back to what it had    *)
(* read.                                                                     *)
SetIsSaved ==
    [][\A c \in Client :
         LET o == object[c] IN
         CarriedOut(c) /\ request[c].op # "delete" /\ request'[c].id # NoId =>
            \A f \in touched[c] :
               \/ server'[request'[c].id][f] = o.now[f]
               \/ f \in Single /\ o.now[f] = {}
               \/ f \in o.read /\ o.now[f] = o.data[f]]_sdkVars

(* A save writes what its client has set, and nothing else. *)
SaveExact == OthersKept /\ SetIsSaved

(* An object makes one node, however often it is saved and its token refused, *)
(* unless a request was given up or sent again.                              *)
CreatedOnce ==
    ~ lost => \A m, n \in DOMAIN origin \ {First} : origin[m] = origin[n] => m = n
=============================================================================
