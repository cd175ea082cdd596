------------------------------ MODULE MCOverlay ------------------------------
(* Small instances of Overlay: two texts, two corners.                     *)
EXTENDS Overlay

CONSTANTS sunny, stormy, left, right
=============================================================================
