----------------------------- MODULE SdkListing ------------------------------
(***************************************************************************)
(* A client of the Python SDK lists the nodes of a kind, a page at a time,   *)
(* while nodes are created and deleted.  Every page is a query of its own;   *)
(* if the listing has a time, all of them read the nodes there were then.    *)
(***************************************************************************)
EXTENDS Naturals, Sequences, FiniteSets, SequencesExt

CONSTANTS
    Sorted,           \* all the nodes, in the order in which the server returns them
    pagination_size,
    MaxChanges        \* bound: nodes created and deleted

ASSUME SdkListingAssumption ==
    /\ Sorted \in Seq(Range(Sorted)) /\ IsInjective(Sorted)
    /\ pagination_size \in Nat \ {0} /\ MaxChanges \in Nat

VARIABLES
    stored,     \* the nodes there are
    listing,    \* what the client has of its listing
    steady,     \* history: the nodes there have been since the listing began,
    created,    \* and whether a node was created
    deleted,    \* or deleted since
    changes

listingVars == <<stored, listing, steady, created, deleted, changes>>

NoListing == [active |-> FALSE, nodes |-> <<>>]

(* Creating or deleting a node shifts the pages behind it. *)
Change(S) ==
    /\ changes < MaxChanges /\ changes' = changes + 1
    /\ stored' = S
    /\ steady' = steady \cap S
    /\ created' = (created \/ ~ S \subseteq stored)
    /\ deleted' = (deleted \/ ~ stored \subseteq S)
    /\ UNCHANGED listing

CreateNode == \E n \in Range(Sorted) \ stored : Change(stored \cup {n})
DeleteNode == \E n \in stored : Change(stored \ {n})

(* all and filters: `offset` and `limit` ask for one page only. *)
Begin ==
    \E at, one \in BOOLEAN :
        /\ ~ listing.active
        /\ listing' = [active |-> TRUE, nodes |-> <<>>, page_number |-> 1, one |-> one,
                       at |-> IF at THEN {stored} ELSE {}]
        /\ steady' = stored /\ created' = FALSE /\ deleted' = FALSE
        /\ UNCHANGED <<stored, changes>>

(* Mutant: a page that is not full is taken for the last one to come. *)
remaining_items_full(count, page_offset) == count >= page_offset + 2 * pagination_size

remaining_items(count, page_offset) == count >= page_offset + pagination_size

(* The nodes of S in that order: the k-th has k of them up to it. *)
Upto(i, S) == Cardinality({j \in 1 .. i : Sorted[j] \in S})

Found(S) ==
    [k \in 1 .. Upto(Len(Sorted), S) |->
       Sorted[CHOOSE i \in 1 .. Len(Sorted) : Sorted[i] \in S /\ Upto(i, S) = k]]

PageOf(found, page_offset) ==
    SubSeq(found, page_offset + 1,
           IF Len(found) < page_offset + pagination_size
           THEN Len(found) ELSE page_offset + pagination_size)

Page ==
    LET now == IF listing.at = {} THEN stored ELSE CHOOSE S \in listing.at : TRUE
        found == Found(now)
        page_offset == (listing.page_number - 1) * pagination_size
    IN  /\ listing.active
        /\ listing' = [listing EXCEPT
             !.nodes = @ \o PageOf(found, page_offset),
             !.page_number = @ + 1,
             !.active = remaining_items(Len(found), page_offset) /\ ~ listing.one]
        /\ UNCHANGED <<stored, steady, created, deleted, changes>>

ListingInit ==
    /\ stored \in SUBSET Range(Sorted)
    /\ listing = NoListing
    /\ steady = {} /\ created = FALSE /\ deleted = FALSE /\ changes = 0

ListingNext == CreateNode \/ DeleteNode \/ Begin \/ Page

ListingSpec == ListingInit /\ [][ListingNext]_listingVars

-----------------------------------------------------------------------------

(* A listing of all pages that ends has every node that was there all the     *)
(* time unless one was deleted while it went on, and none twice unless one    *)
(* was created; with a time it has what there was then, whatever happens.     *)
ListingComplete ==
    [][listing.active /\ ~ listing'.active /\ ~ listing.one =>
         LET nodes == listing'.nodes IN
         /\ ~ deleted => steady \subseteq Range(nodes)
         /\ ~ created => IsInjective(nodes)
         /\ \A S \in listing.at : nodes = Found(S)]_listingVars
=============================================================================
