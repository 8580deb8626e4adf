---------------------------- MODULE MCFeishuSync ----------------------------
(***************************************************************************)
(* Two processes, two keys and two items; two bindings over one selection  *)
(* of documents, and one of tables.                                        *)
(***************************************************************************)
EXTENDS FeishuSync, TLC

CONSTANTS first, renewed, tables, documents, base

MCSelectionOf == (first :> documents) @@ (renewed :> documents) @@ (tables :> base)

Interchangeable == Permutations(Process) \cup Permutations(Item) \cup Permutations(Key)
=============================================================================
