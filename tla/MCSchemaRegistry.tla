-------------------------- MODULE MCSchemaRegistry --------------------------
(* SchemaRegistry with few things that go wrong in one behaviour. *)
EXTENDS SchemaRegistry

(* Bound: rebases and failures together. *)
FewDisturbances == rebases + faults <= 1
=============================================================================
