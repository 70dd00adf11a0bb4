----------------------------- MODULE MCPayment -----------------------------
(***************************************************************************)
(* Payment on small instances.                                             *)
(***************************************************************************)
EXTENDS PaymentPromises, TLC

CONSTANTS a, b, h1, h2

Symmetry == Permutations(Handler)
=============================================================================
