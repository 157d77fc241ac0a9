SPECIFICATION MCSpec
CONSTANTS
  Branch = {b1, b2}
  Main = main
  Attr = {a}
  Value = {v0, v1}
  FirstValue = v0
  MaxTime = 7
  MaxCrashes = 1
  Client = {c1, c2}
  Attribute = {"a"}
  RelatedNode = {"o"}
  Prefetched = {"m"}
  Lazy = {"l"}
  Content = {x1, x2}
  Node = {n1, n2, n3}
  First = n1
  NoId = noid
  Retrying = {c1}
  Fields <- MCFields
  MaxSaves = 2
  MaxEdits = 2
  MaxFaults = 1
  Sorted <- MCSorted
  pagination_size = 2
  MaxChanges = 3
  Output = {o1, o2}
  MaxRuns = 3
  MaxWishes = 1
  MaxRaised = 1
INVARIANTS   CreatedOnce
PROPERTIES  RebaseKeepsChanges CleanMergeVisibleInMain  SaveExact ListingComplete ReadyMatches
SYMMETRY Symmetry
CHECK_DEADLOCK FALSE
