--------------------------- MODULE MCRollingViews ---------------------------
(* RollingViews for TLC: the targets are interchangeable.                  *)
EXTENDS RollingViews, TLC

TargetSymmetry == Permutations(Target)

=============================================================================
