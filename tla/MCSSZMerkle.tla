----------------------------- MODULE MCSSZMerkle -----------------------------
(* Small beacon states: partly filled and full lists, the source 0 (whose    *)
(* leaf is zero), a source beyond the registry, and validators of each kind. *)
EXTENDS ClaimVectors

validator(n, prefix, epoch) ==
  [withdrawal_credentials |-> <<prefix, 0, n, n>>, activation_epoch |-> epoch]
consolidation(s) == [source_index |-> s, target_index |-> 1]
State(v0, v1, p, fresh) == [validators |-> <<v0, v1>>, pending |-> p, fresh |-> fresh]

Worlds ==
  {State(validator(1, 1, 7), validator(2, 1, 10), <<consolidation(1), consolidation(0)>>, FALSE),
   State(validator(1, 0, 7), validator(2, 2, 8), <<consolidation(1)>>, TRUE),
   State(validator(1, 0, 7), validator(2, 1, 7), <<consolidation(3), consolidation(0)>>, FALSE)}
==============================================================================
