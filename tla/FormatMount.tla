---------------------------- MODULE FormatMount ----------------------------
(***************************************************************************)
(* asgn4 from the empty file to the mounted file system: mk_disk writes the *)
(* image, of one of several sizes, and the file system is then mounted on   *)
(* the image of num_blocks blocks.  The formatter is MkDisk, the mounted    *)
(* file system is FatFs: its disk and fat are the image from the mount on.  *)
(***************************************************************************)
EXTENDS FatFs

CONSTANTS NumBlocks,     \* the values of argv[1]
          MAGIC_NUMBER

ASSUME FormatMountAssumption ==
  /\ NumBlocks \subseteq Nat \ {0} /\ num_blocks \in NumBlocks
  /\ pointers_per_block >= 5        \* the superblock's words fit its block
  /\ MAGIC_NUMBER \in Int

VARIABLES blocks,                  \* argv[1]
          image, phase, i, offset, \* of MkDisk
          mounted

mkVars == <<blocks, image, phase, i, offset>>
allVars == <<mkVars, mounted, vars>>

Disk == INSTANCE MkDisk WITH num_blocks <- blocks

\* The words that main reads from the superblock: magic_number, total_blocks,
\* k, block_size, starting_block.
SuperblockRead == SubSeq(image, 1, 5)

FormatInit ==
  /\ Disk!Init /\ mounted = FALSE
  /\ disk = Formatted /\ fat = FatTable(num_blocks) /\ fh = -1 /\ made = 0

Format == Disk!Next /\ UNCHANGED <<mounted, vars>>

\* main, the first time and again.
MountDisk ==
  /\ phase = "done" /\ blocks = num_blocks
  /\ Mount
  /\ mounted' = TRUE
  /\ UNCHANGED mkVars

Callback ==
  /\ mounted
  /\ (\E parent \in Parents, name \in Name : f32_mkdir(parent, name)) \/ f32_open \/ (\E at \in Offsets : f32_write(at))
  /\ UNCHANGED <<mounted, mkVars>>

FormatMountSpec == FormatInit /\ [][Format \/ MountDisk \/ Callback]_allVars
-----------------------------------------------------------------------------
\* What main reads is what FatFs is written for, and the table that mk_disk left is
\* the one in which FatFs looks for a free block, but for the three blocks that
\* initroot takes and for what a mkdir past a full sub_dir writes over.
Handover ==
  mounted =>
    /\ SuperblockRead = <<MAGIC_NUMBER, num_blocks, k, block_size, starting_block>>
    /\ \A b \in DOMAIN fat :
         b \notin (starting_block .. starting_block + 2) \cup Overwritten =>
           image[pointers_per_block + b + 1] = fat[b]

\* What MkDisk checks by itself, of every size.
TableCorrect == Disk!TableCorrect
SizeKept == Disk!SizeKept

\* The tree that a user sees, from the first mount on.
Seen(paths) == IF mounted THEN paths ELSE Example

SeenByLookup  == INSTANCE DirTree WITH tree <- Seen(FoundPaths), Files <- {<<"hello">>}
SeenByReaddir == INSTANCE DirTree WITH tree <- Seen(ListedPaths), Files <- {<<"hello">>}

\* While directories are made in the root and its block has room, the paths
\* that path_to_addr finds are those of DirTree: one more by each mkdir, and no
\* old one comes back, though the headers of earlier mounts are still there.
TreeByLookup == SeenByLookup!Spec

\* The same of the paths that readdir lists.
TreeByReaddir == SeenByReaddir!Spec

\* A mount leaves the example tree and nothing else, whatever was on the disk:
\* initroot overwrites only some headers and ends the root after four.
MountIsExample ==
  [][MountDisk => FoundPaths' = Example /\ ListedPaths' = Example]_allVars
=============================================================================
