------------------------------- MODULE FatFs -------------------------------
(***************************************************************************)
(* The file system of asgn4 (fuse_routines.c) over a disk that mk_disk has  *)
(* formatted: what mounting writes, and the callbacks that change the disk. *)
(* The callbacks are atomic here; FatRace interleaves their system calls.   *)
(*                                                                         *)
(* The disk is a function from byte addresses to the 64-byte headers there. *)
(* Data of a file is the header Text, whose name field is not empty.        *)
(* Addresses are multiples of DIR_SIZE, except those below block 1 that     *)
(* mkdir reaches when it follows the table entry -2 of a full root as if it *)
(* were an address: the next header is then looked for at -2 + DIR_SIZE.    *)
(* For a full sub_dir the same entry makes mkdir write into the table.      *)
(*                                                                         *)
(* Times are left out.  The kernel in front of FUSE asks for a directory to *)
(* be made only in a directory that it found, under a name it did not find. *)
(***************************************************************************)
EXTENDS FatLayout, Sequences, SequencesExt, FiniteSetsExt

CONSTANTS
  Name,        \* names of new directories, 3 to 23 characters long
  num_blocks,  \* what the formatter was asked for
  Parents,     \* the directories, as paths, in which users make others
  Offsets,     \* where users write in hello, in units of DIR_SIZE
  MaxMade,     \* bound on the directories made after a mount
  MaxOverrun,  \* bound on the headers below block 1
  MaxLen       \* bound on the length of hello

Reserved == {"root", "hello", "empty_sub_dir", "sub_dir", "..", "sub_sub_dir",
             "", "text", "superblock", "tail"}

FLAG_F == 0
FLAG_D == 1

Slots == block_size \div DIR_SIZE     \* headers in a block

k == FatBlocks(num_blocks)

starting_block == k + 1

ASSUME FatFsAssumption ==
  /\ block_size % DIR_SIZE = 0
  /\ Slots >= 6                       \* the root takes 4 headers and an end
  /\ num_blocks \in Nat /\ num_blocks > k + 4
  /\ Name \cap Reserved = {}
  /\ \A parent \in Parents : parent \in Seq(Name \cup Reserved)
  /\ Offsets \subseteq 0 .. 3 * Slots - 1 \* up to the last of the modelled blocks
  /\ MaxMade \in Nat
  /\ MaxOverrun \in Nat /\ MaxOverrun + 1 < Slots
  /\ MaxLen \in Nat

VARIABLES
  disk,     \* the headers
  fat,      \* the table, a function from the entries to what they hold
  fh,       \* what open left in fi->fh of hello, or -1
  made      \* how many directories were made since the mount

vars == <<disk, fat, fh, made>>

\* The three entries that initroot writes.
Marked(table) ==
  [b \in DOMAIN table |-> IF b \in k + 1 .. k + 3 THEN FLAG_LAST ELSE table[b]]

\* The first free block.  Nothing marks it, so it stays free.
new_block == Min({b \in DOMAIN fat : b >= starting_block /\ fat[b] = FREE_BLOCK})

At(b, slot) == b * block_size + slot * DIR_SIZE

BlockOf(addr) == addr \div block_size

\* Where mkdir and readdir go on after a full block.
Overrun == {FLAG_LAST + n * DIR_SIZE : n \in 1 .. MaxOverrun + 1}

Addr == {At(b, n) : b \in {0} \cup k + 1 .. k + 4, n \in 0 .. Slots - 1} \cup Overrun

Header(name, flen, sblock, flag) ==
  [name |-> name, flen |-> flen, sblock |-> sblock, flag |-> flag]

Directory(name, sblock) == Header(name, DIR_SIZE, sblock, FLAG_D)
Blank == Header("", 0, 0, FLAG_F)
Text  == Header("text", 0, 0, FLAG_F)
HelloLength == 18

\* A header at an odd address covers the name of the aligned one after it,
\* which then reads as the tail of the new name.
Covered(addr) == IF addr \in Overrun THEN {addr + 2} ELSE {}

WriteHeader(d, addr, h) ==
  [x \in Addr |-> IF x = addr THEN h
                  ELSE IF x \in Covered(addr) THEN [d[x] EXCEPT !.name = "tail"]
                  ELSE d[x]]

\* A zeroed name marks the end of a directory.
WriteEnd(d, addr) ==
  [x \in Addr |-> IF x \in {addr} \cup Covered(addr)
                  THEN [d[x] EXCEPT !.name = ""] ELSE d[x]]

\* The example tree's headers.  Of hello's block the code sets all bytes, most
\* of them to what follows its array in memory.
WriteExample(d) ==
  [x \in Addr |->
     CASE x = At(k + 1, 0)    -> Directory("root", k + 1)
       [] x = At(k + 1, 1)    -> Header("hello", HelloLength, k + 2, FLAG_F)
       [] x = At(k + 1, 2)    -> Directory("empty_sub_dir", 0)
       [] x = At(k + 1, 3)    -> Directory("sub_dir", k + 3)
       [] BlockOf(x) = k + 2  -> Text
       [] x = At(k + 3, 0)    -> Directory("..", k + 1)
       [] x = At(k + 3, 1)    -> Directory("sub_sub_dir", 0)
       [] OTHER               -> d[x]]

\* Mutant for MountIsExample: the root's end mark is not written.
initroot_NoEnd(d) == WriteEnd(WriteExample(d), At(k + 3, 2))

\* What main does at every mount.
initroot(d) == WriteEnd(WriteEnd(WriteExample(d), At(k + 1, 4)), At(k + 3, 2))

\* What the formatter left: the superblock's words read as a name.
Formatted == [x \in Addr |-> IF x = 0 THEN [Blank EXCEPT !.name = "superblock"]
                             ELSE Blank]

Init ==
  /\ disk = initroot(Formatted) /\ fat = Marked(FatTable(num_blocks))
  /\ fh = -1 /\ made = 0

\* The header called name in block b, or 0.  The first header's name is
\* compared before emptiness is looked at.  Past the block the code takes the
\* table entry for an address; none is beyond starting_block, so it ends.
Find(b, name) ==
  LET hit == {n \in 0 .. Slots - 1 :
                /\ disk[At(b, n)].name = name
                /\ \A m \in 1 .. n : disk[At(b, m)].name # ""}
  IN  IF hit = {} THEN 0 ELSE At(b, Min(hit))

Root == [addr |-> At(starting_block, 0), block |-> starting_block]

Descend(at, name) ==
  LET addr == IF at.addr = 0 THEN 0 ELSE Find(at.block, name)
  IN  [addr |-> addr, block |-> IF addr = 0 THEN 0 ELSE disk[addr].sblock]

path_to_addr(path) ==
  LET reached[n \in 0 .. Len(path)] ==
        IF n = 0 THEN Root ELSE Descend(reached[n - 1], path[n])
  IN  reached[Len(path)].addr

IsDirectory(path) ==
  path = <<>> \/ (path_to_addr(path) # 0 /\ disk[path_to_addr(path)].flag = FLAG_D)

\* The headers that a walk from addr visits: the rest of the block, then, if
\* what follows the table entry reads as a name, the addresses after -2.
Walk(addr) ==
  {At(BlockOf(addr), n) : n \in (addr % block_size) \div DIR_SIZE .. Slots - 1}

Empty(where) == {x \in where : disk[x].name = ""}

WalkGoesOn(addr) == Empty(Walk(addr)) = {} /\ fat[BlockOf(addr) + 1] # 0

\* No file can be positioned at -2, so what is read there is the table's next
\* entries.  If the first is zero, as after sub_dir's, the walk ends there ...
WalkStops(addr) == Empty(Walk(addr)) = {} /\ fat[BlockOf(addr) + 1] = 0

\* The headers that come before the first empty one.
BeforeEnd(where) == {x \in where : \A e \in Empty(where) : x < e}

Passed(addr) ==
  BeforeEnd(Walk(addr)) \cup (IF WalkGoesOn(addr) THEN BeforeEnd(Overrun) ELSE {})

\* Mutant for MkdirListed: the walk ends at the last header, not after it.
EndOf_Last(addr) == {Max(Passed(addr))}

\* Where the walk finds the end in the directories: at one address, or none if it
\* stops in the table or needs more than MaxOverrun headers below block 1.
EndOf(addr) ==
  IF Empty(Walk(addr)) # {} THEN {Min(Empty(Walk(addr)))}
  ELSE {e \in Overrun : /\ WalkGoesOn(addr) /\ e + DIR_SIZE \in Overrun
                        /\ Empty(Overrun) # {} /\ e = Min(Empty(Overrun))}

\* Where mkdir starts: the root, or the header of the parent.
ParentSeek(parent) ==
  IF parent = <<>> THEN At(starting_block, 0) ELSE path_to_addr(parent)

\* Mutant for TreeByLookup, TreeByReaddir: no end mark is written after the new header.
mkdir_disk_NoEnd(seeki, name) ==
  WriteHeader(disk, seeki, Directory(name, new_block))

\* Mutant for DataKept: the end mark is written one header too far.
mkdir_disk_Far(seeki, name) ==
  WriteEnd(WriteHeader(disk, seeki, Directory(name, new_block)), seeki + 2 * DIR_SIZE)

mkdir_disk(seeki, name) ==
  WriteEnd(WriteHeader(disk, seeki, Directory(name, new_block)), seeki + DIR_SIZE)

\* ... and the header is written over the entries that follow those read: six words
\* of name and six of times, which the callbacks never look at, then length, block
\* and flag, one word that is skipped, and the end mark.
NameWords   == 6
HeaderWords == DIR_SIZE \div BLOCK_PTR_SIZE
NameOrTime  == 1

mkdir_table(b) ==
  [e \in DOMAIN fat |->
     LET w == e - (b + 1 + NameWords)
     IN  CASE w \in 0 .. 2 * NameWords - 1 -> NameOrTime
           [] w = HeaderWords - 4 -> DIR_SIZE
           [] w = HeaderWords - 3 -> new_block
           [] w = HeaderWords - 2 -> FLAG_D
           [] w \in HeaderWords .. HeaderWords + NameWords - 1 -> 0
           [] OTHER -> fat[e]]

f32_mkdir(parent, name) ==
  /\ made < MaxMade
  /\ IsDirectory(parent)
  /\ path_to_addr(Append(parent, name)) = 0
  /\ \/ /\ \E seeki \in EndOf(ParentSeek(parent)) : disk' = mkdir_disk(seeki, name)
        /\ UNCHANGED fat
     \/ /\ WalkStops(ParentSeek(parent))
        /\ fat' = mkdir_table(BlockOf(ParentSeek(parent)))
        /\ UNCHANGED disk
  /\ made' = made + 1
  /\ UNCHANGED fh

\* readdir skips the root's own header; other directories have none.
ReaddirSeek(path) ==
  IF path = <<>> THEN At(starting_block, 1)
  ELSE At(disk[path_to_addr(path)].sblock, 0)

f32_readdir(path) == {disk[x].name : x \in Passed(ReaddirSeek(path))}

\* Mutant for ExampleKept: the handle is the address after the header.
f32_open_Next ==
  /\ fh = -1 /\ path_to_addr(<<"hello">>) # 0
  /\ fh' = path_to_addr(<<"hello">>) + DIR_SIZE
  /\ UNCHANGED <<disk, fat, made>>

\* hello is the one file: the file system has no create.
f32_open ==
  /\ fh = -1 /\ path_to_addr(<<"hello">>) # 0
  /\ fh' = path_to_addr(<<"hello">>)
  /\ UNCHANGED <<disk, fat, made>>

\* Of one header's size, at an offset; the length grows by what is written.
f32_write(offset) ==
  /\ fh # -1
  /\ disk[fh].flen + DIR_SIZE <= MaxLen
  /\ disk' = [WriteHeader(disk, At(disk[fh].sblock, offset), Text)
                EXCEPT ![fh].flen = disk[fh].flen + DIR_SIZE]
  /\ UNCHANGED <<fat, fh, made>>

\* The file system is unmounted and mounted again: main.
Mount ==
  /\ disk' = initroot(disk) /\ fat' = Marked(fat)
  /\ fh' = -1 /\ made' = 0

Next ==
  \/ \E parent \in Parents, name \in Name : f32_mkdir(parent, name)
  \/ f32_open
  \/ \E offset \in Offsets : f32_write(offset)
  \/ Mount

Spec == Init /\ [][Next]_vars
-----------------------------------------------------------------------------
\* The entries of the table that a mkdir past a full sub_dir may write over.
Overwritten ==
  {k + 4 + NameWords + w : w \in 0 .. HeaderWords + NameWords - 1}

\* All others, among them all that the callbacks read, are as mk_disk and initroot
\* left them.
TableKept ==
  LET left == Marked(FatTable(num_blocks))
  IN  DOMAIN fat = DOMAIN left /\ \A b \in DOMAIN fat \ Overwritten : fat[b] = left[b]

\* Whatever is made and written inside hello's block, the headers that the
\* mount wrote stay (all but the length of hello), the superblock stays, also
\* when mkdir has run out of the root into block 0, so do the entries of the table
\* that are read, also when mkdir has run out of sub_dir into the table, and the
\* handle of hello still points to hello's header (f32_open keeps an address, not a
\* path).
ExampleKept ==
  /\ \A x \in {At(k + 1, n) : n \in 0 .. 3} \cup {At(k + 3, n) : n \in 0 .. 1} :
       disk[x] = [WriteExample(disk)[x] EXCEPT !.flen = disk[x].flen]
  /\ disk[0].name = "superblock"
  /\ TableKept
  /\ fh # -1 => disk[fh].name = "hello" /\ disk[fh].flag = FLAG_F

\* As long as the root's block has an empty header left, no mkdir has written
\* on the data of hello, whose block follows the root's.  (The mkdir that
\* takes the last header puts its end mark there.)
DataKept ==
  Empty(Walk(At(starting_block, 0))) # {} =>
    \A x \in Addr : BlockOf(x) = k + 2 => disk[x] = Text

\* The headers that readdir passes in the root and in sub_dir.
Listed == Passed(At(starting_block, 1)) \cup Passed(At(k + 3, 0))

\* Every mkdir leaves every header listed before listed and unchanged, and a new one
\* that readdir lists in the root or in sub_dir: also under a parent whose header is
\* searched instead of its block, also past a full root, but not past a full
\* sub_dir, where nothing is made although the call returns 0.
MkdirListed ==
  [][\A parent \in Parents, name \in Name :
       f32_mkdir(parent, name) =>
         /\ Listed \subseteq Listed' /\ \A x \in Listed : disk'[x] = disk[x]
         /\ WalkStops(ParentSeek(parent))
            \/ \E x \in Listed' \ Listed : disk'[x].name = name]_vars

Visible == Name \cup {"hello", "empty_sub_dir", "sub_dir", "..", "sub_sub_dir"}

Directories == {<<>>} \cup {p \in {<<n>> : n \in Visible} : IsDirectory(p)}

Under(dir, names) == {Append(dir, n) : n \in names}

FoundPaths ==
  UNION {{p \in Under(d, Visible) : path_to_addr(p) # 0} : d \in Directories}

ListedPaths ==
  UNION {Under(d, f32_readdir(d) \cap Visible) : d \in Directories}

Example == {<<"hello">>, <<"empty_sub_dir">>, <<"sub_dir">>,
            <<"sub_dir", "..">>, <<"sub_dir", "sub_sub_dir">>}

=============================================================================
