--------------------------- MODULE MCFormatMount ---------------------------
(* Blocks of 512 bytes; the image that is mounted has 16. *)
EXTENDS FormatMount

CONSTANTS abc, xyz, pqr

ThreeNames == {abc, xyz, pqr}
RootOnly   == {<<>>}
OneOffset  == {0}
\* So few that no block is left, and around one block of table.
Sizes      == {1, 2, 3, 16, 127, 128, 129, 130}
=============================================================================
