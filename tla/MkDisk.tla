------------------------------- MODULE MkDisk -------------------------------
(***************************************************************************)
(* mk_disk, the formatter: one action for the data blocks, one for the      *)
(* superblock, then one for each word that the three loops over the table   *)
(* write.  The image is a sequence of words; writing at its end extends it. *)
(***************************************************************************)
EXTENDS FatLayout, Sequences

CONSTANTS NumBlocks,      \* the values of argv[1]
          MAGIC_NUMBER

VARIABLES num_blocks, image,
          phase,     \* the loop that runs
          i,         \* its counter
          offset     \* the file offset, in words

vars == <<num_blocks, image, phase, i, offset>>

k == FatBlocks(num_blocks)

Phase == {"data", "superblock", "reserved", "usable", "unusable", "done"}

Init ==
  /\ num_blocks \in NumBlocks
  /\ image = <<>> /\ phase = "data" /\ i = 0 /\ offset = 0

WriteWord(img, at, word) ==
  IF at < Len(img) THEN [img EXCEPT ![at + 1] = word] ELSE Append(img, word)

InitializeData ==
  /\ phase = "data"
  /\ image' = [w \in 1 .. num_blocks * pointers_per_block |-> 0]
  /\ phase' = "superblock"
  /\ UNCHANGED <<num_blocks, i, offset>>

\* Mutant for Handover: the root directory is said to be in the table's last block.
superblock_RootInTable == <<MAGIC_NUMBER, num_blocks, k, block_size, k>>

superblock == <<MAGIC_NUMBER, num_blocks, k, block_size, k + 1>>

CreateSuperblock ==
  /\ phase = "superblock"
  /\ image' = [w \in DOMAIN image |-> IF w <= 5 THEN superblock[w] ELSE image[w]]
  /\ phase' = "reserved" /\ i' = 0
  /\ offset' = pointers_per_block
  /\ UNCHANGED num_blocks

unusable_blocks == k * pointers_per_block - num_blocks

\* Mutant for TableCorrect: the root directory's block is counted as reserved.
Rounds_Inclusive(p) ==
  IF p = "reserved" THEN k + 2
  ELSE IF p = "usable" THEN k * pointers_per_block - unusable_blocks - (k + 2)
  ELSE unusable_blocks

\* Mutant for SizeKept: the reserved entries are not taken off the usable ones.
Rounds_AllUsable(p) ==
  IF p = "reserved" THEN k + 1
  ELSE IF p = "usable" THEN k * pointers_per_block - unusable_blocks
  ELSE unusable_blocks

\* How often each loop over the table runs (never, when this is negative).
Rounds(p) ==
  IF p = "reserved" THEN k + 1
  ELSE IF p = "usable" THEN k * pointers_per_block - unusable_blocks - (k + 1)
  ELSE unusable_blocks

Mark(p) == IF p = "usable" THEN FREE_BLOCK ELSE NO_BLOCK

Following(p) ==
  CASE p = "reserved" -> "usable" [] p = "usable" -> "unusable" [] OTHER -> "done"

WriteEntry ==
  /\ phase \in {"reserved", "usable", "unusable"}
  /\ i < Rounds(phase)
  /\ image' = WriteWord(image, offset, Mark(phase))
  /\ i' = i + 1 /\ offset' = offset + 1
  /\ UNCHANGED <<num_blocks, phase>>

EndLoop ==
  /\ phase \in {"reserved", "usable", "unusable"}
  /\ i >= Rounds(phase)
  /\ phase' = Following(phase) /\ i' = 0
  /\ UNCHANGED <<num_blocks, image, offset>>

Next == InitializeData \/ CreateSuperblock \/ WriteEntry \/ EndLoop

Spec == Init /\ [][Next]_vars
-----------------------------------------------------------------------------
\* When the formatter ends, the table on the disk (blocks 1 .. k) marks as
\* free exactly the blocks after the table that exist, for every number of
\* blocks: a multiple of the pointers in a block, one more, one less, and so
\* few that no block is left (design.txt, "mk_disk.c").
TableCorrect ==
  phase = "done" =>
    \A b \in DOMAIN FatTable(num_blocks) :
      image[pointers_per_block + b + 1] = FatTable(num_blocks)[b]

\* The loops over the table never run into the root directory, so that the
\* image has as many blocks as were asked for and the superblock still says
\* so: true for two blocks or more.  (With one block the last loop writes a
\* word after the table.)
SizeKept ==
  (phase = "done" /\ num_blocks > k) =>
    /\ Len(image) = num_blocks * pointers_per_block
    /\ SubSeq(image, 1, 5) = superblock
    /\ \A w \in (k + 1) * pointers_per_block + 1 .. Len(image) : image[w] = 0
=============================================================================
