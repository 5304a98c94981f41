----------------------------- MODULE FatLayout -----------------------------
(***************************************************************************)
(* The layout of asgn4's disk, shared by the formatter and the file system: *)
(* block 0 is the superblock, blocks 1 .. k hold the allocation table with  *)
(* one word per block, block k+1 is the root directory.                     *)
(***************************************************************************)
EXTENDS Integers

CONSTANTS block_size   \* in bytes; 512 or 8192 in the code

BLOCK_PTR_SIZE == 4
DIR_SIZE       == 64

ASSUME LayoutAssumption ==
  block_size \in Nat /\ block_size > 0 /\ block_size % BLOCK_PTR_SIZE = 0

FREE_BLOCK == 0
NO_BLOCK   == -1
FLAG_LAST  == -2

pointers_per_block == block_size \div BLOCK_PTR_SIZE

\* k: the blocks that a table of n entries takes, rounded up.
FatBlocks(n) ==
  n \div pointers_per_block + (IF n % pointers_per_block > 0 THEN 1 ELSE 0)

\* The table that design.txt asks of a disk of n blocks: the superblock, the
\* table itself and the entries that stand for no block cannot be used.
FatTable(n) ==
  [b \in 0 .. FatBlocks(n) * pointers_per_block - 1 |->
     IF b > FatBlocks(n) /\ b < n THEN FREE_BLOCK ELSE NO_BLOCK]
=============================================================================
