---------------------------- MODULE NodeProfiles ----------------------------
(***************************************************************************)
(* The attributes of the nodes of a kind, and the profiles that give values  *)
(* to those that are left at their default.  A branch is looked at: what it  *)
(* has changed hides what it found when it was branched off, but stays in    *)
(* the graph beside it.  A request reads the node, applies its input to the  *)
(* object in memory and saves all attributes of the object.  Profiles are    *)
(* taken into account twice: in Python when a node is read, and in the query *)
(* that filters the nodes of a kind.                                         *)
(***************************************************************************)
EXTENDS Naturals, FiniteSets

CONSTANTS
    Object,      \* the nodes
    Profile,     \* the profiles, numbers that are ordered like their ids
    Attribute, Value,
    NoValue,        \* no value
    Missing,       \* a field that an input does not have
    Default,     \* the default value of each attribute, NoValue if there is none
    Mandatory,   \* the attributes that are not optional
    Hashed,      \* those of kind HashedPassword
    Profiled,    \* those that a profile has as well
    Key,         \* the attribute of the human friendly id and the default filter
    Payload,     \* the inputs of mutations
    MaxPriority, \* bound: priorities
    Client,      \* the requests that are handled at a time
    MaxChanges, MaxLookups, MaxRounds   \* bounds: changes; updates; hashes of a password

Input == [value : Value \cup {NoValue, Missing}, is_default : BOOLEAN \cup {Missing},
          is_protected : BOOLEAN \cup {Missing}]

ASSUME ProfilesAssumption ==
    /\ Profile \subseteq Nat \ {0}
    /\ NoValue \notin Value /\ Missing \notin Value /\ Missing \notin BOOLEAN
    /\ NoValue # Missing
    /\ Default \in [Attribute -> Value \cup {NoValue}]
    /\ Mandatory \subseteq Attribute /\ Hashed \subseteq Attribute /\ Key \in Attribute
    /\ Profiled \subseteq Attribute \ Mandatory
    /\ \A d \in Payload :
          /\ DOMAIN d.attrs \subseteq Attribute /\ \A a \in DOMAIN d.attrs : d.attrs[a] \in Input
          /\ d.profiles \in (SUBSET Profile) \cup {Missing}
    /\ MaxPriority \in Nat /\ MaxChanges \in Nat /\ MaxLookups \in Nat /\ MaxRounds \in Nat \ {0}

(* The AttributeValue of an attribute; a password is hashed once or more.    *)
Content == [value : Value \cup {NoValue}, is_default : BOOLEAN, rounds : 0 .. MaxRounds]
NoContent == [value |-> Missing, is_default |-> FALSE, rounds |-> 0]

VARIABLES
    state,      \* of each node: it is not there yet, there, or deleted
    base,       \* the contents that the branch found
    own,        \* the contents that it wrote
    props,      \* the flags and the sources of the attributes
    inherited,  \* the profiles that the branch found attached to a node
    attached,   \* those that are attached on the branch
    profile,    \* the profiles
    pending,    \* the requests that update a node
    claimed,    \* history: attributes of a new node whose value was said to be the default
    chosen,     \* history: the value of its own that a user gave an attribute, if it was kept
    changes, lookups   \* so far

profileVars == <<state, base, own, props, inherited, attached, profile, pending, claimed,
                 chosen, changes, lookups>>

LiveObjects == {n \in Object : state[n] = "live"}

(* The content that counts on the branch. *)
Stored(n, a) == IF own[n][a] # NoContent THEN own[n][a] ELSE base[n][a]

-----------------------------------------------------------------------------
(* Reading a node.                                                          *)

(* NodeListGetInfoQuery takes every active path to a profile, also one that   *)
(* the branch has deleted: it hides nothing that was found.  A profile that   *)
(* is deleted on the branch has no attributes left there, and is passed over. *)
ProfilesRead(n) == {p \in inherited[n] \cup attached[n] : profile[p].live}

(* The lowest priority goes first, then the lowest id. *)
Before(p, q) ==
    \/ profile[p].priority < profile[q].priority
    \/ profile[p].priority = profile[q].priority /\ p < q

Giving(profiles, a) == {p \in profiles : a \in Profiled /\ profile[p].values[a] # NoValue}
Winner(profiles, a) ==
    CHOOSE p \in Giving(profiles, a) : \A q \in Giving(profiles, a) \ {p} : Before(p, q)

(* A priority without a value is no number to sort by, and the read fails.    *)
Readable(n) == \A p \in ProfilesRead(n) : profile[p].priority # NoValue

(* A value that is missing is replaced by the default when it is loaded.      *)
Loaded(c, a) ==
    IF c.value = NoValue /\ Default[a] # NoValue
    THEN [c EXCEPT !.value = Default[a], !.is_default = TRUE] ELSE c

apply_profiles(n, a) ==
    LET c == Stored(n, a)
        from_profile == c.is_default /\ Giving(ProfilesRead(n), a) # {}
        p == Winner(ProfilesRead(n), a)
        shown == IF from_profile
                 THEN [value |-> profile[p].values[a], is_default |-> FALSE,
                       rounds |-> IF a \in Hashed THEN 1 ELSE 0]
                 ELSE Loaded(c, a)
    IN [value |-> shown.value, is_default |-> shown.is_default, rounds |-> shown.rounds,
        is_from_profile |-> from_profile, is_protected |-> props[n][a].is_protected,
        source |-> IF from_profile THEN p ELSE props[n][a].source]

get_one(n) == [a \in Attribute |-> apply_profiles(n, a)]

-----------------------------------------------------------------------------
(* Filtering and ordering nodes by the value of an attribute.               *)

(* For the query the last path to a profile decides.  It compares a missing   *)
(* priority as the text NULL, which comes before the numbers.                 *)
ProfilesQueried(n) == {p \in attached[n] : profile[p].live}

Rank(p) == IF profile[p].priority = NoValue THEN 0 ELSE profile[p].priority + 1
QueriedBefore(p, q) == Rank(p) < Rank(q) \/ (Rank(p) = Rank(q) /\ p < q)
QueriedWinner(profiles, a) ==
    CHOOSE p \in Giving(profiles, a) : \A q \in Giving(profiles, a) \ {p} : QueriedBefore(p, q)

(* The values have to match before the last of them is taken, unless a        *)
(* profile may still replace them; in a partial match also then.              *)
Matching(n, a, values, partial) ==
    {c \in {base[n][a], own[n][a]} \ {NoContent} :
        c.value \in values \/ (~ partial /\ c.is_default)}

NodeValue(n, a, values, partial) ==
    IF own[n][a] \in Matching(n, a, values, partial) THEN own[n][a] ELSE base[n][a]

FinalValue(n, a, c) ==
    IF c.is_default /\ Giving(ProfilesQueried(n), a) # {}
    THEN profile[QueriedWinner(ProfilesQueried(n), a)].values[a]
    ELSE c.value

Selected(n, a, values, partial) ==
    /\ n \in LiveObjects
    /\ Matching(n, a, values, partial) # {}
    /\ FinalValue(n, a, NodeValue(n, a, values, partial)) \in values

(* Nodes are ordered by an attribute that is not filtered. *)
OrderValue(n, a) == FinalValue(n, a, Stored(n, a))

query(a, v) == {n \in Object : Selected(n, a, {v}, FALSE)}

(* A key stands for a node only if no other has it. *)
get_one_by_hfid(v) == IF Cardinality(query(Key, v)) = 1 THEN query(Key, v) ELSE {}

get_node(by) == IF by \in Value THEN get_one_by_hfid(by) ELSE {by} \cap LiveObjects

(* Without a key in the input there is nothing to search for, and an error.   *)
NoneWithKey(d) ==
    /\ Key \in DOMAIN d.attrs /\ d.attrs[Key].value # Missing
    /\ d.attrs[Key].value \in Value => query(Key, d.attrs[Key].value) = {}

-----------------------------------------------------------------------------
(* A mutation.                                                              *)

clear_source(o) == [o EXCEPT !.source = NoValue]

(* The input of an attribute is applied to the object in memory; is_default   *)
(* resets it, even if it is false.                                            *)
from_graphql(o, d, a) ==
    LET changed == d.value # Missing /\ (d.value # o.value \/ o.rounds > 0)
        valued == IF changed
                  THEN [(IF o.is_from_profile THEN clear_source(o) ELSE o) EXCEPT
                           !.value = d.value, !.is_from_profile = FALSE, !.rounds = 0]
                  ELSE o
        reset == IF d.is_default # Missing /\ ~ valued.is_default
                 THEN [valued EXCEPT !.is_default = TRUE,
                                     !.value = IF d.value = Missing THEN Default[a] ELSE @,
                                     !.rounds = IF d.value = Missing THEN 0 ELSE @]
                 ELSE valued
    IN [reset EXCEPT !.is_protected = IF d.is_protected = Missing THEN @ ELSE d.is_protected]

Applied(object, d) ==
    [a \in Attribute |->
        IF a \in DOMAIN d.attrs THEN from_graphql(object[a], d.attrs[a], a) ELSE object[a]]

validate(o, a) == o.value = NoValue => a \notin Mandatory

(* What to_db makes of a value: a password is hashed, also if what was read   *)
(* is the hash.                                                               *)
serialize_value(o, a) == IF a \in Hashed /\ o.value # NoValue THEN o.rounds + 1 ELSE 0

to_db(o, a) ==
    [value |-> o.value, is_default |-> o.is_default, rounds |-> serialize_value(o, a)]

(* Mutant: the flag of the object is believed. *)
StillDefaultUnchecked(o, a) == o.is_default

(* Before an update a default that is none is found out. *)
StillDefault(o, a) ==
    /\ ~ (o.is_default /\ Default[a] # NoValue /\ Default[a] # o.value)
    /\ ~ (Default[a] = NoValue /\ o.value # NoValue)
    /\ o.is_default

Updated(o, a) == to_db([o EXCEPT !.is_default = StillDefault(o, a)], a)

(* Mutant: what comes from a profile is saved as well. *)
SaveProfileValue(o, a, c) == Updated(o, a)

(* A value that comes from a profile is not saved, and neither is anything    *)
(* else of its attribute.                                                     *)
save(o, a, c) == IF o.is_from_profile THEN c ELSE Updated(o, a)

SavedProps(o, stored) ==
    IF o.is_from_profile THEN stored
    ELSE [is_protected |-> o.is_protected,
          source |-> IF o.source # NoValue THEN o.source ELSE stored.source]

NoRequest == [open |-> FALSE]

(* The input says what the value is to be: one of its own, or the default.   *)
Names(d, a) ==
    a \in DOMAIN d.attrs /\ (d.attrs[a].value # Missing \/ d.attrs[a].is_default # Missing)

Chosen(d, a) ==
    IF a \in DOMAIN d.attrs /\ d.attrs[a].is_default = Missing
       /\ d.attrs[a].value \notin {NoValue, Default[a]}
    THEN d.attrs[a].value ELSE Missing

Change == changes < MaxChanges /\ changes' = changes + 1 /\ UNCHANGED lookups

(* _process_fields and _generate_attribute_default: an attribute that is not  *)
(* mentioned, or has no value, takes its default.  Here is_default is taken   *)
(* at its word.                                                               *)
New(d, a) ==
    LET given == a \in DOMAIN d.attrs
        v == IF given /\ d.attrs[a].value # Missing THEN d.attrs[a].value ELSE NoValue
        is_default == ~ given \/ d.attrs[a].is_default = TRUE
        c == Loaded([value |-> v, is_default |-> is_default, rounds |-> 0], a)
    IN [value |-> c.value, is_default |-> c.is_default, rounds |-> 0, is_from_profile |-> FALSE,
        is_protected |-> given /\ d.attrs[a].is_protected = TRUE, source |-> NoValue]

ProfilesExist(d) == d.profiles # Missing => \A p \in d.profiles : profile[p].live

Complete(d) == Mandatory \subseteq DOMAIN d.attrs
Creatable(d) == Complete(d) /\ \A a \in Attribute : validate(New(d, a), a)

(* The input of a create has no is_default, that of an upsert may have it.    *)
CreateInput(d) == Complete(d) /\ \A a \in DOMAIN d.attrs : d.attrs[a].is_default = Missing

CreatedContent(d) == [a \in Attribute |-> to_db(New(d, a), a)]
CreatedProps(d) ==
    [a \in Attribute |-> [is_protected |-> New(d, a).is_protected, source |-> NoValue]]
CreatedProfiles(d) == IF d.profiles = Missing THEN {} ELSE d.profiles

mutate_create_object(n, d) ==
    /\ state[n] = "absent" /\ Change
    /\ Creatable(d) /\ ProfilesExist(d)
    /\ state' = [state EXCEPT ![n] = "live"]
    /\ own' = [own EXCEPT ![n] = CreatedContent(d)]
    /\ props' = [props EXCEPT ![n] = CreatedProps(d)]
    /\ attached' = [attached EXCEPT ![n] = CreatedProfiles(d)]
    /\ claimed' = claimed \cup ({n} \X {a \in DOMAIN d.attrs : d.attrs[a].is_default = TRUE})
    /\ chosen' = [chosen EXCEPT ![n] = [a \in Attribute |-> Chosen(d, a)]]
    /\ UNCHANGED <<base, inherited, profile, pending>>

mutate_create(n, d) == CreateInput(d) /\ mutate_create_object(n, d)

(* An upsert that finds no node with the key in its input creates one. *)
mutate_upsert(n, d) == NoneWithKey(d) /\ mutate_create_object(n, d)

(* The node of an update is looked up by its id or by its key, which must be  *)
(* that of one node; it is read before the transaction starts.                *)
find_object(r, by, d, upsert) ==
    /\ ~ pending[r].open
    /\ lookups < MaxLookups /\ lookups' = lookups + 1
    /\ upsert => Complete(d)
    /\ \E n \in get_node(by) :
        /\ Readable(n)
        /\ pending' = [pending EXCEPT ![r] =
              [open |-> TRUE, node |-> n, data |-> d, upsert |-> upsert, object |-> get_one(n),
               seen |-> [a \in Attribute |-> Stored(n, a)], chosen |-> chosen[n]]]
    /\ UNCHANGED <<state, base, own, props, inherited, attached, profile, claimed, chosen, changes>>

(* The transaction of an update.  It fails if the node has been deleted: its  *)
(* attributes are not found.                                                  *)
mutate_update(r) ==
    /\ pending[r].open
    /\ LET n == pending[r].node
           d == pending[r].data
           object == Applied(pending[r].object, d)
           saved == [a \in Attribute |-> save(object[a], a, Stored(n, a))]
       IN /\ n \in LiveObjects /\ ProfilesExist(d) /\ Change
          /\ \A a \in Attribute : object[a].is_from_profile \/ validate(object[a], a)
          /\ \A a \in Attribute : saved[a].rounds <= MaxRounds
          /\ own' = [own EXCEPT ![n] = [a \in Attribute |->
                        IF saved[a] # Stored(n, a) THEN saved[a] ELSE own[n][a]]]
          /\ props' = [props EXCEPT ![n] = [a \in Attribute |-> SavedProps(object[a], props[n][a])]]
          /\ attached' = [attached EXCEPT ![n] = IF d.profiles = Missing THEN @ ELSE d.profiles]
          /\ chosen' = [chosen EXCEPT ![n] = [a \in Attribute |->
                           IF object[a].is_from_profile THEN @[a]
                           ELSE IF Names(d, a) THEN Chosen(d, a) ELSE pending[r].chosen[a]]]
    /\ pending' = [pending EXCEPT ![r] = NoRequest]
    /\ UNCHANGED <<state, base, inherited, profile, claimed>>

(* The input or the object violates a constraint, or the node is gone.        *)
Refused(r) ==
    /\ pending[r].open
    /\ pending' = [pending EXCEPT ![r] = NoRequest]
    /\ UNCHANGED <<state, base, own, props, inherited, attached, profile, claimed, chosen, changes,
                   lookups>>

(* A transient error of the database makes mutate_update start over: it reads *)
(* the node again, but an upsert has passed it the object that it has         *)
(* changed already.                                                           *)
retry_db_transaction(r) ==
    /\ pending[r].open /\ pending[r].node \in LiveObjects
    /\ LET n == pending[r].node IN
       IF pending[r].upsert
       THEN pending' = [pending EXCEPT ![r].object = Applied(@, pending[r].data)]
       ELSE /\ Readable(n)
            /\ pending' = [pending EXCEPT ![r].object = get_one(n),
                                          ![r].seen = [a \in Attribute |-> Stored(n, a)],
                                          ![r].chosen = chosen[n]]
    /\ UNCHANGED <<state, base, own, props, inherited, attached, profile, claimed, chosen, changes,
                   lookups>>

mutate_delete(n) ==
    /\ n \in LiveObjects /\ Change
    /\ state' = [state EXCEPT ![n] = "deleted"]
    /\ attached' = [attached EXCEPT ![n] = {}]
    /\ UNCHANGED <<base, own, props, inherited, profile, pending, claimed, chosen>>

(* A profile is a node as well; of its updates only the effect is kept. *)
UpdateProfile(p) ==
    /\ profile[p].live /\ Change
    /\ \/ \E x \in 1 .. MaxPriority : profile' = [profile EXCEPT ![p].priority = x]
       \/ profile' = [profile EXCEPT ![p].priority = NoValue]
       \/ \E a \in Profiled, v \in Value \cup {NoValue} :
             profile' = [profile EXCEPT ![p].values[a] = v]
    /\ UNCHANGED <<state, base, own, props, inherited, attached, pending, claimed, chosen>>

DeleteProfile(p) ==
    /\ profile[p].live /\ Change
    /\ profile' = [profile EXCEPT ![p].live = FALSE]
    /\ attached' = [n \in Object |-> attached[n] \ {p}]
    /\ UNCHANGED <<state, base, own, props, inherited, pending, claimed, chosen>>

-----------------------------------------------------------------------------
(* Nodes that were created with an input: before the branch or on it.        *)
Absent == [a \in Attribute |-> NoContent]

ProfilesInit ==
    /\ profile \in [Profile -> [live : {TRUE}, priority : 1 .. MaxPriority,
                                values : [Profiled -> Value \cup {NoValue}]]]
    /\ \E where \in [Object -> {"absent", "before", "branch"}],
          data \in [Object -> {d \in Payload : CreateInput(d) /\ Creatable(d)}] :
        /\ state = [n \in Object |-> IF where[n] = "absent" THEN "absent" ELSE "live"]
        /\ base = [n \in Object |-> IF where[n] = "before" THEN CreatedContent(data[n]) ELSE Absent]
        /\ own = [n \in Object |-> IF where[n] = "branch" THEN CreatedContent(data[n]) ELSE Absent]
        /\ props = [n \in Object |-> CreatedProps(data[n])]
        /\ attached = [n \in Object |->
                          IF where[n] = "absent" THEN {} ELSE CreatedProfiles(data[n])]
        /\ inherited = [n \in Object |->
                           IF where[n] = "before" THEN CreatedProfiles(data[n]) ELSE {}]
        /\ chosen = [n \in Object |-> [a \in Attribute |->
                        IF where[n] = "absent" THEN Missing ELSE Chosen(data[n], a)]]
    /\ pending = [r \in Client |-> NoRequest] /\ claimed = {}
    /\ changes = 0 /\ lookups = 0

ProfilesNext ==
    \/ \E n \in Object, d \in Payload : mutate_create(n, d) \/ mutate_upsert(n, d)
    \/ \E r \in Client, by \in Object \cup Value, d \in Payload, upsert \in BOOLEAN :
          find_object(r, by, d, upsert)
    \/ \E r \in Client : mutate_update(r) \/ Refused(r) \/ retry_db_transaction(r)
    \/ \E n \in Object : mutate_delete(n)
    \/ \E p \in Profile : UpdateProfile(p) \/ DeleteProfile(p)

ProfilesSpec == ProfilesInit /\ [][ProfilesNext]_profileVars

-----------------------------------------------------------------------------
(* Types of the state.                                                      *)
AttributeObject == [value : Value \cup {NoValue}, is_default : BOOLEAN, rounds : 0 .. MaxRounds,
                    is_from_profile : BOOLEAN, is_protected : BOOLEAN,
                    source : Profile \cup {NoValue}]
Props == [is_protected : BOOLEAN, source : Profile \cup {NoValue}]
OpenRequest == [open : {TRUE}, node : Object, data : Payload, upsert : BOOLEAN,
                object : [Attribute -> AttributeObject], seen : [Attribute -> Content],
                chosen : [Attribute -> Value \cup {Missing}]]

ProfilesTypeOK ==
    /\ state \in [Object -> {"absent", "live", "deleted"}]
    /\ base \in [Object -> [Attribute -> Content \cup {NoContent}]]
    /\ own \in [Object -> [Attribute -> Content \cup {NoContent}]]
    /\ props \in [Object -> [Attribute -> Props]]
    /\ inherited \in [Object -> SUBSET Profile] /\ attached \in [Object -> SUBSET Profile]
    /\ profile \in [Profile -> [live : BOOLEAN, priority : 1 .. MaxPriority \cup {NoValue},
                                values : [Profiled -> Value \cup {NoValue}]]]
    /\ pending \in [Client -> {NoRequest} \cup OpenRequest]
    /\ claimed \subseteq Object \X Attribute
    /\ chosen \in [Object -> [Attribute -> Value \cup {Missing}]]
    /\ changes \in 0 .. MaxChanges /\ lookups \in 0 .. MaxLookups

(* A value other than the default that a user gave an attribute, and that was *)
(* kept, is shown until another is given, whatever profiles are attached,     *)
(* changed or reordered; a request that overlaps may only put back what it    *)
(* has read.  A value equal to the one that the profiles gave the attribute   *)
(* when the request read it is not kept: it changes with them.  (A password   *)
(* is another matter.)                                                        *)
OwnValueShown ==
    \A n \in LiveObjects, a \in Attribute \ Hashed :
        chosen[n][a] # Missing => apply_profiles(n, a).value = chosen[n][a]

(* The query that lists nodes and the read of a node look up profiles on      *)
(* their own, and agree: a node is ordered by the value that it shows, and    *)
(* selected exactly if this value is asked for.  Not so on a branch that has  *)
(* detached a profile it found attached, which the read still applies, nor    *)
(* for a value that was removed although there is a default; and a content    *)
(* that the branch has replaced may select the node as well.                  *)
ListAgrees ==
    \A n \in LiveObjects : Readable(n) /\ ProfilesRead(n) = ProfilesQueried(n) =>
        \A a \in Attribute \ Hashed :
            LET shown == apply_profiles(n, a).value
            IN Stored(n, a).value # NoValue \/ Default[a] = NoValue =>
                /\ OrderValue(n, a) = shown
                /\ \A values \in SUBSET Value :
                    /\ shown \in values => Selected(n, a, values, FALSE)
                    /\ NoContent \in {base[n][a], own[n][a]} =>
                          \A partial \in BOOLEAN :
                              Selected(n, a, values, partial) => shown \in values

(* What a node shows is the value of its own that was kept, if there is one,  *)
(* and what a filter finds it by.                                             *)
ValuesShown == OwnValueShown /\ ListAgrees

(* A request that saves an attribute which its input does not name puts back  *)
(* what was stored when it read the node, and nothing else: not the value, or *)
(* the id as source, that the object had from a profile.  If nobody changed   *)
(* the attribute since, it stays as it is, but for a value that was removed   *)
(* although there is a default, or was said to be the default when it is not. *)
(* (A password is another matter.)                                            *)
Restores(r, n, a) ==
    /\ pending[r].open /\ ~ pending'[r].open /\ pending[r].node = n
    /\ \/ Names(pending[r].data, a)
       \/ Stored(n, a)' = Loaded(pending[r].seen[a], a)

UpdateExact ==
    [][\A n \in LiveObjects, a \in Attribute \ Hashed :
        n \in LiveObjects' /\ <<n, a>> \notin claimed =>
            /\ Stored(n, a)' # Stored(n, a) => \E r \in Client : Restores(r, n, a)
            /\ props'[n][a].source = props[n][a].source]_profileVars

=============================================================================
