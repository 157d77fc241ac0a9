CONSTANTS
  Node = {"n1", "n2"}
  Peer = {"p1", "p2"}
  Foreign = {"p2"}
  Main = "main"
  Branch = "branch"
  MaxTime = 5
  MaxPending = 2
  Changes = {"attribute.regex.update", "attribute.enum.update", "attribute.choices.update", "attribute.kind.update", "attribute.max_length.update", "attribute.optional.update", "attribute.unique.update", "node.uniqueness_constraints.update", "relationship.peer.update", "relationship.cardinality.update", "relationship.min_count.update", "relationship.optional.update", "node.parent.update", "node.generate_profile.update", "node.attribute.add", "node.attribute.remove", "attribute.name.update", "node.remove", "node.name.update"}
SPECIFICATION Spec
INVARIANTS AcceptedConforms
 
CHECK_DEADLOCK FALSE
