--------------------------- MODULE MCBranchGraph ----------------------------
(* Small instances of BranchGraph and of the modules on the Python SDK, which   *)
(* share no state: a behaviour is about one part of the system.                *)
EXTENDS BranchGraph, SdkNode, SdkListing, GeneratorRuns, TLC

VARIABLE part   \* "graph", "object", "listing" or "generator"

MCFields == {{}, {"a"}, {"o"}, {"m"}, {"l"}}
MCSorted == <<"n1", "n2", "n3", "n4", "n5">>

Symmetry == Permutations(Content) \cup Permutations(Node \ {First}) \cup Permutations(Output)

MCInit ==
    /\ part \in {"graph", "object", "listing", "generator"}
    /\ Init /\ SdkInit /\ ListingInit /\ GeneratorInit
    /\ part = "object" <=> fields # {}
    /\ part # "listing" => stored = {}
    /\ part # "generator" => wish = {}

MCNext ==
    /\ UNCHANGED part
    /\ \/ part = "graph" /\ Next /\ UNCHANGED <<sdkVars, listingVars, generatorVars>>
       \/ part = "object" /\ SdkNext /\ UNCHANGED <<vars, listingVars, generatorVars>>
       \/ part = "listing" /\ ListingNext /\ UNCHANGED <<vars, sdkVars, generatorVars>>
       \/ part = "generator" /\ GeneratorNext /\ UNCHANGED <<vars, sdkVars, listingVars>>

MCSpec == MCInit /\ [][MCNext]_<<part, vars, sdkVars, listingVars, generatorVars>>
=============================================================================
