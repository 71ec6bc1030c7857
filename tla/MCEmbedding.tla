----------------------------- MODULE MCEmbedding -----------------------------
(***************************************************************************)
(* The limits of the organization in the embedding run: the estimates of   *)
(* two calls at once exceed the budget, and a day allows fewer requests    *)
(* than the month does.                                                    *)
(***************************************************************************)
EXTENDS EmbeddingProperties

MCLimit == [cost |-> 3, month |-> 3, day |-> 2]
==============================================================================
