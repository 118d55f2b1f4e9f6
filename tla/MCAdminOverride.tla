--------------------------- MODULE MCAdminOverride ---------------------------
(***************************************************************************)
(* The instance of AdminOverride for TLC: the opener's messages are alike. *)
(***************************************************************************)
EXTENDS AdminOverride, TLC

MCSymmetry == Permutations(Opened)
=============================================================================
