SPECIFICATION Spec
CONSTANTS
  Worker = {w1, w2}
  Editor = {w1}
  Merger = {w1}
  Rebaser = {w2}
  Main = main
  Branch = {b}
  Kind = {k1}
  MaxRebases = 1
  MaxLost = 1
  MaxFaults = 1
CONSTRAINT FewDisturbances
INVARIANTS MainSchemaStored
 
