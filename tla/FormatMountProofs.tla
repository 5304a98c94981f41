------------------------ MODULE FormatMountProofs ------------------------
(***************************************************************************)
(* The image that mk_disk writes and what the mounted file system keeps of  *)
(* it, for every size of a block and of a disk.                             *)
(***************************************************************************)
EXTENDS FormatMount, TLAPS, SequenceTheorems, FiniteSetTheorems,
        WellFoundedInduction

\* The table's blocks, its entries, and the blocks that are free.
Table == FatBlocks(blocks)
Span  == Table * pointers_per_block
Free  == IF blocks > Table + 1 THEN blocks - (Table + 1) ELSE 0

\* The entries written when a loop begins.
Before(p) ==
  CASE p = "reserved" -> 0
    [] p = "usable"   -> Table + 1
    [] p = "unusable" -> Table + 1 + Free
    [] OTHER          -> Table + 1 + Free + Span - blocks

\* What entry e is in the end.
Entry(e) == IF e > Table /\ e < blocks THEN FREE_BLOCK ELSE NO_BLOCK

Loops == {"reserved", "usable", "unusable", "done"}

\* In the loops over the table: the superblock is written, the entries up to
\* the offset are, and on a disk that has a block after the table nothing is
\* written from there on.
Looping ==
  /\ image \in Seq(Int) /\ i \in Nat
  /\ offset = pointers_per_block + Before(phase) + i
  /\ offset <= pointers_per_block + Before(Disk!Following(phase))
  /\ offset <= Len(image)
  /\ \A w \in 1 .. 5 : image[w] = Disk!superblock[w]
  /\ \A e \in 0 .. offset - pointers_per_block - 1 :
       image[pointers_per_block + e + 1] = Entry(e)
  /\ blocks > Table =>
       /\ Len(image) = blocks * pointers_per_block
       /\ \A w \in pointers_per_block + Span + 1 .. Len(image) : image[w] = 0

ImageInv ==
  /\ blocks \in NumBlocks
  /\ phase \in {"data", "superblock"} \cup Loops
  /\ phase = "superblock" =>
       image = [w \in 1 .. blocks * pointers_per_block |-> 0]
  /\ phase \in Loops => Looping
  /\ mounted => phase = "done" /\ blocks = num_blocks
-----------------------------------------------------------------------------
\* A product grows with its first factor.
LEMMA Grows ==
  ASSUME NEW a \in Nat, NEW b \in Nat, NEW p \in Nat, a <= b
  PROVE  a * p <= b * p /\ a * p \in Nat
OBVIOUS

\* k blocks hold n entries, and k - 1 blocks would not.
LEMMA Blocks ==
  ASSUME NEW n \in Nat \ {0}
  PROVE  /\ pointers_per_block \in Nat /\ pointers_per_block >= 5
         /\ FatBlocks(n) \in Nat \ {0}
         /\ FatBlocks(n) * pointers_per_block \in Nat
         /\ n <= FatBlocks(n) * pointers_per_block
<1>1. pointers_per_block \in Nat /\ pointers_per_block >= 5
  BY LayoutAssumption, FormatMountAssumption DEF pointers_per_block, BLOCK_PTR_SIZE
<1> DEFINE p == pointers_per_block
           q == n \div pointers_per_block
           r == n % pointers_per_block
<1>2. q \in Nat /\ r \in 0 .. p - 1 /\ n = p * q + r
  BY <1>1
<1>3. FatBlocks(n) = q + (IF r > 0 THEN 1 ELSE 0)
  BY DEF FatBlocks
<1> HIDE DEF q, r, p
<1>4. CASE r > 0
  <2>1. FatBlocks(n) = q + 1 /\ (q + 1) * p = p * q + p
    BY <1>1, <1>2, <1>3, <1>4 DEF p
  <2> QED
    BY <1>1, <1>2, <1>4, <2>1 DEF p
<1>5. CASE ~(r > 0)
  <2>1. FatBlocks(n) = q /\ q * p = p * q /\ n = p * q
    BY <1>1, <1>2, <1>3, <1>5 DEF p
  <2>2. q # 0
    BY <1>1, <2>1 DEF p
  <2> QED
    BY <1>1, <1>2, <2>1, <2>2 DEF p
<1> QED
  BY <1>4, <1>5

\* The formatter and the file system share one layout.
LEMMA SameLayout ==
  /\ Disk!pointers_per_block = pointers_per_block
  /\ \A n : Disk!FatBlocks(n) = FatBlocks(n)
  /\ \A n : Disk!FatTable(n) = FatTable(n)
<1>1. Disk!pointers_per_block = pointers_per_block
  BY DEF Disk!pointers_per_block, pointers_per_block, Disk!BLOCK_PTR_SIZE, BLOCK_PTR_SIZE
<1>2. ASSUME NEW n
      PROVE  Disk!FatBlocks(n) = FatBlocks(n)
  BY <1>1 DEF Disk!FatBlocks, FatBlocks
<1>3. ASSUME NEW n
      PROVE  Disk!FatTable(n) = FatTable(n)
  <2>1. Disk!FatBlocks(n) = FatBlocks(n)
    BY <1>2
  <2> QED
    BY <1>1, <2>1 DEF Disk!FatTable, FatTable, Disk!FREE_BLOCK, FREE_BLOCK,
                      Disk!NO_BLOCK, NO_BLOCK
<1> QED
  BY <1>1, <1>2, <1>3

\* How the three loops share the table.
LEMMA Sizes ==
  ASSUME blocks \in NumBlocks
  PROVE  /\ blocks \in Nat \ {0} /\ Table \in Nat \ {0} /\ Span \in Nat /\ Free \in Nat
         /\ pointers_per_block \in Nat /\ pointers_per_block >= 5
         /\ blocks <= Span
         /\ blocks > Table => pointers_per_block + Span <= blocks * pointers_per_block
<1>1. blocks \in Nat \ {0}
  BY FormatMountAssumption
<1>2. /\ Table \in Nat \ {0} /\ Span \in Nat /\ blocks <= Span
      /\ pointers_per_block \in Nat /\ pointers_per_block >= 5
  BY <1>1, Blocks DEF Table, Span
<1>3. Free \in Nat
  BY <1>1, <1>2 DEF Free
<1>4. ASSUME blocks > Table
      PROVE  pointers_per_block + Span <= blocks * pointers_per_block
  <2>1. (Table + 1) * pointers_per_block <= blocks * pointers_per_block
    BY <1>1, <1>2, <1>4, Grows
  <2>2. (Table + 1) * pointers_per_block = Span + pointers_per_block
    BY <1>2 DEF Span
  <2>3. blocks * pointers_per_block \in Nat
    BY <1>1, <1>2, Grows
  <2> QED
    BY <1>2, <2>1, <2>2, <2>3
<1> QED
  BY <1>1, <1>2, <1>3, <1>4

\* Where each loop begins, how long it runs and what it writes.
LEMMA Turns ==
  ASSUME blocks \in NumBlocks
  PROVE  /\ Before("reserved") = 0 /\ Before("usable") = Table + 1
         /\ Before("unusable") = Table + 1 + Free
         /\ Before("done") = Table + 1 + Free + Span - blocks
         /\ Before("done") >= Span
         /\ blocks > Table => Before("done") = Span
         /\ Disk!Rounds("reserved") = Table + 1
         /\ Disk!Rounds("usable") = blocks - (Table + 1)
         /\ Disk!Rounds("unusable") = Span - blocks
         /\ Disk!Following("reserved") = "usable" /\ Disk!Following("usable") = "unusable"
         /\ Disk!Following("unusable") = "done" /\ Disk!Following("done") = "done"
<1>1. /\ blocks \in Nat \ {0} /\ Table \in Nat \ {0} /\ Span \in Nat /\ Free \in Nat
      /\ blocks <= Span
  BY Sizes
<1>2. /\ Before("reserved") = 0 /\ Before("usable") = Table + 1
      /\ Before("unusable") = Table + 1 + Free
      /\ Before("done") = Table + 1 + Free + Span - blocks
  BY DEF Before
<1>3. Before("done") >= Span /\ (blocks > Table => Before("done") = Span)
  BY <1>1, <1>2 DEF Free
<1>4. /\ Disk!Rounds("reserved") = Table + 1
      /\ Disk!Rounds("usable") = Span - (Span - blocks) - (Table + 1)
      /\ Disk!Rounds("unusable") = Span - blocks
  <2>1. Disk!k = Table /\ Disk!unusable_blocks = Span - blocks
    BY SameLayout DEF Disk!unusable_blocks, Disk!k, Span, Table
  <2> QED
    BY <2>1, SameLayout DEF Disk!Rounds, Span
<1>5. /\ Disk!Following("reserved") = "usable" /\ Disk!Following("usable") = "unusable"
      /\ Disk!Following("unusable") = "done" /\ Disk!Following("done") = "done"
  BY DEF Disk!Following
<1> QED
  BY <1>1, <1>2, <1>3, <1>4, <1>5

\* A write at an offset up to the end of the image changes one word.
LEMMA WriteWordFacts ==
  ASSUME NEW img \in Seq(Int), NEW at \in 0 .. Len(img), NEW word \in Int,
         NEW r, r = Disk!WriteWord(img, at, word)
  PROVE  /\ r \in Seq(Int) /\ Len(r) >= at + 1 /\ Len(r) \in Nat
         /\ at < Len(img) => Len(r) = Len(img)
         /\ r[at + 1] = word
         /\ \A w \in 1 .. Len(img) : w # at + 1 => r[w] = img[w]
<1>1. Len(img) \in Nat /\ at \in Nat
  BY LenProperties
<1>2. CASE at < Len(img)
  <2>1. r = [img EXCEPT ![at + 1] = word] /\ at + 1 \in 1 .. Len(img)
    BY <1>1, <1>2 DEF Disk!WriteWord
  <2>2. r \in Seq(Int) /\ Len(r) = Len(img)
    BY <2>1, ExceptSeq
  <2>3. DOMAIN img = 1 .. Len(img)
    BY LenProperties
  <2> QED
    BY <1>1, <1>2, <2>1, <2>2, <2>3
<1>3. CASE ~(at < Len(img))
  <2>1. r = Append(img, word) /\ at = Len(img)
    BY <1>1, <1>3 DEF Disk!WriteWord
  <2>2. /\ r \in Seq(Int) /\ Len(r) = Len(img) + 1 /\ r[Len(img) + 1] = word
        /\ \A w \in 1 .. Len(img) : r[w] = img[w]
    BY <2>1, AppendProperties
  <2> QED
    BY <1>1, <1>3, <2>1, <2>2
<1> QED
  BY <1>2, <1>3
-----------------------------------------------------------------------------
(* The steps of mk_disk.                                                    *)

LEMMA FormatInitInv == FormatInit => ImageInv
BY DEF FormatInit, Disk!Init, ImageInv, Loops

\* The loops see the same disk as long as argv[1] is the same.
LEMMA SameSize ==
  ASSUME blocks' = blocks
  PROVE  /\ Table' = Table /\ Span' = Span /\ Free' = Free
         /\ \A p : Before(p)' = Before(p)
         /\ \A e : Entry(e)' = Entry(e)
         /\ Disk!superblock' = Disk!superblock
<1>1. Table' = Table /\ Span' = Span /\ Free' = Free
  BY DEF Table, Span, Free
<1>2. Disk!k' = Disk!k
  BY DEF Disk!k
<1> QED
  BY <1>1, <1>2 DEF Before, Entry, Disk!superblock

\* The superblock's words are numbers, and there are five of them.
LEMMA SuperblockWords ==
  ASSUME blocks \in NumBlocks
  PROVE  \A w \in 1 .. 5 : Disk!superblock[w] \in Int
<1>1. blocks \in Nat /\ Table \in Nat
  BY Sizes
<1>2. Disk!superblock = <<MAGIC_NUMBER, blocks, Table, block_size, Table + 1>>
  BY SameLayout DEF Disk!superblock, Disk!k, Table
<1> QED
  BY <1>1, <1>2, FormatMountAssumption, LayoutAssumption

\* initialize_data and create_superblock.
LEMMA HeadInv ==
  ASSUME ImageInv, Disk!InitializeData \/ Disk!CreateSuperblock, mounted' = mounted
  PROVE  ImageInv'
<1>1. CASE Disk!InitializeData
  <2>1. phase = "data" /\ phase' = "superblock" /\ blocks' = blocks
        /\ image' = [w \in 1 .. blocks * pointers_per_block |-> 0]
    BY <1>1, SameLayout DEF Disk!InitializeData
  <2> QED
    BY <2>1 DEF ImageInv, Loops
<1>2. CASE Disk!CreateSuperblock
  <2>1. /\ phase = "superblock" /\ phase' = "reserved" /\ blocks' = blocks /\ i' = 0
        /\ offset' = pointers_per_block
        /\ image' = [w \in DOMAIN image |-> IF w <= 5 THEN Disk!superblock[w] ELSE image[w]]
    BY <1>2, SameLayout DEF Disk!CreateSuperblock
  <2>2. blocks \in NumBlocks /\ image = [w \in 1 .. blocks * pointers_per_block |-> 0]
    BY <2>1 DEF ImageInv
  <2>3. /\ blocks \in Nat \ {0} /\ Table \in Nat \ {0} /\ Span \in Nat /\ Free \in Nat
        /\ pointers_per_block \in Nat /\ pointers_per_block >= 5
    BY <2>2, Sizes
  <2>4. blocks * pointers_per_block \in Nat /\ blocks * pointers_per_block >= pointers_per_block
    <3>1. 1 * pointers_per_block <= blocks * pointers_per_block
          /\ blocks * pointers_per_block \in Nat
      BY <2>3, Grows
    <3> QED
      BY <2>3, <3>1
  <2>5. /\ image' = [w \in 1 .. blocks * pointers_per_block |->
                       IF w <= 5 THEN Disk!superblock[w] ELSE 0]
    BY <2>1, <2>2
  <2>6. /\ image' \in Seq(Int) /\ Len(image') = blocks * pointers_per_block
        /\ \A w \in 1 .. 5 : image'[w] = Disk!superblock[w]
        /\ \A w \in 6 .. Len(image') : image'[w] = 0
    <3> DEFINE n == blocks * pointers_per_block
    <3>1. n \in Nat /\ n >= 5
      BY <2>3, <2>4
    <3> HIDE DEF n
    <3>2. image' = [w \in 1 .. n |-> IF w <= 5 THEN Disk!superblock[w] ELSE 0]
      BY <2>5 DEF n
    <3>3. image' \in [1 .. n -> Int]
      <4>1. ASSUME NEW w \in 1 .. n
            PROVE  (IF w <= 5 THEN Disk!superblock[w] ELSE 0) \in Int
        BY <2>2, <3>1, SuperblockWords
      <4> QED
        BY <3>2, <4>1
    <3>4. image' \in Seq(Int) /\ Len(image') = n
      BY <3>1, <3>3
    <3> QED
      BY <3>1, <3>2, <3>4 DEF n
  <2>7. Before("reserved") = 0 /\ Disk!Following("reserved") = "usable" /\ Before("usable") = Table + 1
    BY <2>2, Turns
  <2>8. Looping'
    <3>1. /\ image' \in Seq(Int) /\ i' \in Nat
          /\ offset' = pointers_per_block + Before("reserved") + i'
          /\ offset' <= pointers_per_block + Before("usable")
          /\ offset' <= Len(image')
      BY <2>1, <2>3, <2>4, <2>6, <2>7
    <3>2. \A e \in 0 .. offset' - pointers_per_block - 1 : FALSE
      BY <2>1, <2>3
    <3>3. \A w \in pointers_per_block + Span + 1 .. Len(image') : image'[w] = 0
      BY <2>3, <2>6
    <3> QED
      BY <2>1, <2>6, <2>7, <3>1, <3>2, <3>3, SameSize DEF Looping
  <2> QED
    BY <2>1, <2>8 DEF ImageInv, Loops
<1> QED
  BY <1>1, <1>2

\* One round of a loop writes the entry that belongs there.
LEMMA WriteEntryInv ==
  ASSUME ImageInv, Disk!WriteEntry, mounted' = mounted
  PROVE  ImageInv'
<1>1. /\ phase \in {"reserved", "usable", "unusable"} /\ i < Disk!Rounds(phase)
      /\ image' = Disk!WriteWord(image, offset, Disk!Mark(phase))
      /\ i' = i + 1 /\ offset' = offset + 1 /\ blocks' = blocks /\ phase' = phase
  BY DEF Disk!WriteEntry
<1>2. blocks \in NumBlocks /\ Looping /\ ~mounted
  BY <1>1 DEF ImageInv, Loops
<1>3. /\ blocks \in Nat \ {0} /\ Table \in Nat \ {0} /\ Span \in Nat /\ Free \in Nat
      /\ pointers_per_block \in Nat /\ pointers_per_block >= 5 /\ blocks <= Span
      /\ blocks > Table => pointers_per_block + Span <= blocks * pointers_per_block
  BY <1>2, Sizes
<1>4. PICK m \in Int : m = Disk!Mark(phase)
  BY DEF Disk!Mark, Disk!FREE_BLOCK, Disk!NO_BLOCK
<1>5. /\ image \in Seq(Int) /\ i \in Nat /\ Len(image) \in Nat
      /\ offset = pointers_per_block + Before(phase) + i /\ offset <= Len(image)
      /\ DOMAIN image = 1 .. Len(image)
  BY <1>2, LenProperties DEF Looping
<1>6. PICK b, f : b = Before(phase) /\ f = Before(Disk!Following(phase))
  OBVIOUS
<1>7. b \in Nat /\ f \in Int /\ b + i + 1 <= f /\ Span + pointers_per_block \in Nat
  <2>1. CASE phase = "reserved"
    <3>1. b = 0 /\ f = Table + 1 /\ i < Table + 1
      BY <1>1, <1>2, <1>6, <2>1, Turns
    <3> QED
      BY <1>3, <1>5, <3>1
  <2>2. CASE phase = "usable"
    <3>1. b = Table + 1 /\ f = Table + 1 + Free /\ i < blocks - (Table + 1)
      BY <1>1, <1>2, <1>6, <2>2, Turns
    <3>2. Free = blocks - (Table + 1)
      BY <1>3, <1>5, <3>1 DEF Free
    <3> QED
      BY <1>3, <1>5, <3>1, <3>2
  <2>3. CASE phase = "unusable"
    <3>1. b = Table + 1 + Free /\ f = Table + 1 + Free + Span - blocks /\ i < Span - blocks
      BY <1>1, <1>2, <1>6, <2>3, Turns
    <3> QED
      BY <1>3, <1>5, <3>1
  <2> QED
    BY <1>1, <2>1, <2>2, <2>3
<1>8. PICK e \in Nat : e = b + i
  BY <1>5, <1>7
<1>9. offset = pointers_per_block + e
  BY <1>3, <1>5, <1>7, <1>8, <1>6
<1>10. offset \in 0 .. Len(image)
  BY <1>3, <1>5, <1>9
<1>11. offset = pointers_per_block + e /\ Entry(e) = m
  <2>1. offset = pointers_per_block + e
    BY <1>9
  <2>2. CASE phase = "reserved"
    <3>1. b = 0 /\ i < Table + 1
      BY <1>1, <1>2, <1>6, <2>2, Turns
    <3>2. e <= Table
      BY <1>3, <1>5, <1>8, <3>1
    <3>3. m = -1
      BY <1>4, <2>2 DEF Disk!Mark, Disk!NO_BLOCK
    <3> QED
      BY <1>3, <2>1, <3>2, <3>3 DEF Entry, NO_BLOCK
  <2>3. CASE phase = "usable"
    <3>1. b = Table + 1 /\ i < blocks - (Table + 1)
      BY <1>1, <1>2, <1>6, <2>3, Turns
    <3>2. e > Table /\ e < blocks
      BY <1>3, <1>5, <1>8, <3>1
    <3>3. m = 0
      BY <1>4, <2>3 DEF Disk!Mark, Disk!FREE_BLOCK
    <3> QED
      BY <2>1, <3>2, <3>3 DEF Entry, FREE_BLOCK
  <2>4. CASE phase = "unusable"
    <3>1. e = Table + 1 + Free + i
      BY <1>2, <1>8, <1>6, <2>4, Turns
    <3>2. e >= blocks
      BY <1>3, <1>5, <3>1 DEF Free
    <3>3. m = -1
      BY <1>4, <2>4 DEF Disk!Mark, Disk!NO_BLOCK
    <3> QED
      BY <1>3, <2>1, <3>2, <3>3 DEF Entry, NO_BLOCK
  <2> QED
    BY <1>1, <2>2, <2>3, <2>4
<1>12. image' = Disk!WriteWord(image, offset, m)
  BY <1>1, <1>4
<1>13. /\ image' \in Seq(Int) /\ Len(image') >= offset + 1 /\ Len(image') \in Nat
       /\ offset < Len(image) => Len(image') = Len(image)
       /\ image'[offset + 1] = m
       /\ \A w \in 1 .. Len(image) : w # offset + 1 => image'[w] = image[w]
  <2>1. image \in Seq(Int) /\ m \in Int
    BY <1>4, <1>5
  <2> QED
    BY <1>10, <1>12, <2>1, WriteWordFacts
<1>14. \A w \in 1 .. 5 : image'[w] = Disk!superblock[w]
  <2>1. \A w \in 1 .. 5 : w \in 1 .. Len(image) /\ w # offset + 1
    BY <1>3, <1>5, <1>9
  <2> QED
    BY <1>2, <1>13, <2>1 DEF Looping
<1>15. \A x \in 0 .. e : image'[pointers_per_block + x + 1] = Entry(x)
  <2> TAKE x \in 0 .. e
  <2>1. CASE x = e
    BY <1>11, <1>13, <2>1
  <2>2. CASE x # e
    <3>1. x \in 0 .. offset - pointers_per_block - 1
      BY <1>3, <1>8, <1>11, <2>2
    <3>2. pointers_per_block + x + 1 \in 1 .. Len(image) /\ pointers_per_block + x + 1 # offset + 1
      BY <1>3, <1>5, <1>11, <2>2
    <3> QED
      BY <1>2, <1>13, <3>1, <3>2 DEF Looping
  <2> QED
    BY <2>1, <2>2
<1>16. ASSUME blocks > Table
       PROVE  /\ Len(image') = blocks * pointers_per_block
              /\ \A w \in pointers_per_block + Span + 1 .. Len(image') : image'[w] = 0
  <2>1. /\ Len(image) = blocks * pointers_per_block
        /\ \A w \in pointers_per_block + Span + 1 .. Len(image) : image[w] = 0
    BY <1>2, <1>16 DEF Looping
  <2>2. e < Span
    <3>1. Table + 1 + Free + Span - blocks = Span
      BY <1>3, <1>16 DEF Free
    <3>2. f \in {Table + 1, Table + 1 + Free, Table + 1 + Free + Span - blocks}
      BY <1>1, <1>2, <1>6, Turns
    <3>3. f <= Span
      BY <1>3, <3>1, <3>2
    <3> QED
      BY <1>3, <1>5, <1>7, <1>8, <3>3
  <2>3. offset < Len(image)
    BY <1>3, <1>11, <1>16, <1>5, <2>1, <2>2
  <2>4. Len(image') = Len(image)
    BY <1>13, <2>3
  <2>5. \A w \in pointers_per_block + Span + 1 .. Len(image) :
           w \in 1 .. Len(image) /\ w # offset + 1
    BY <1>3, <1>5, <1>11, <2>2
  <2> QED
    BY <1>13, <2>1, <2>4, <2>5
<1>17. Looping'
  <2>1. /\ image' \in Seq(Int) /\ i' \in Nat
        /\ offset' = pointers_per_block + Before(phase) + i'
        /\ offset' <= pointers_per_block + Before(Disk!Following(phase))
        /\ offset' <= Len(image')
    <3>1. i' = i + 1 /\ offset' = offset + 1
      BY <1>1
    <3>2. /\ offset + 1 = pointers_per_block + b + (i + 1)
          /\ offset + 1 <= pointers_per_block + f
      <4>1. PICK q \in Nat : q = pointers_per_block
        BY <1>3
      <4> QED
        BY <1>5, <1>7, <1>8, <1>9, <4>1
    <3> QED
      BY <1>5, <1>13, <1>6, <3>1, <3>2
  <2>2. offset' - pointers_per_block - 1 = e
    BY <1>1, <1>3, <1>11
  <2>3. \A x \in 0 .. offset' - pointers_per_block - 1 :
           image'[pointers_per_block + x + 1] = Entry(x)
    BY <1>15, <2>2
  <2> QED
    BY <1>1, <1>14, <1>16, <2>1, <2>3, SameSize DEF Looping
<1> QED
  BY <1>1, <1>2, <1>17 DEF ImageInv, Loops

\* A loop that ends has written all its entries, also one that never ran.
LEMMA EndLoopInv ==
  ASSUME ImageInv, Disk!EndLoop, mounted' = mounted
  PROVE  ImageInv'
<1>1. /\ phase \in {"reserved", "usable", "unusable"} /\ i >= Disk!Rounds(phase)
      /\ phase' = Disk!Following(phase) /\ i' = 0
      /\ image' = image /\ offset' = offset /\ blocks' = blocks
  BY DEF Disk!EndLoop
<1>2. blocks \in NumBlocks /\ Looping /\ ~mounted
  BY <1>1 DEF ImageInv, Loops
<1>3. /\ blocks \in Nat \ {0} /\ Table \in Nat \ {0} /\ Span \in Nat /\ Free \in Nat
      /\ pointers_per_block \in Nat /\ blocks <= Span
  BY <1>2, Sizes
<1>4. /\ i \in Nat /\ offset = pointers_per_block + Before(phase) + i
      /\ offset <= pointers_per_block + Before(Disk!Following(phase))
  BY <1>2 DEF Looping
<1>5. /\ offset = pointers_per_block + Before(phase') + 0
      /\ offset <= pointers_per_block + Before(Disk!Following(phase'))
      /\ phase' \in Loops
  <2>1. CASE phase = "reserved"
    <3>1. /\ Before(phase) = 0 /\ Disk!Rounds(phase) = Table + 1 /\ phase' = "usable"
          /\ Before(phase') = Table + 1 /\ Before(Disk!Following(phase)) = Table + 1
          /\ Before(Disk!Following(phase')) = Table + 1 + Free
      BY <1>1, <1>2, <2>1, Turns
    <3> QED
      BY <1>1, <1>3, <1>4, <3>1 DEF Loops
  <2>2. CASE phase = "usable"
    <3>1. i >= blocks - (Table + 1) /\ i <= Free
      BY <1>1, <1>2, <1>3, <1>4, <2>2, Turns
    <3>2. i = Free
      BY <1>3, <1>4, <3>1 DEF Free
    <3>3. /\ Before(phase) = Table + 1 /\ phase' = "unusable"
          /\ Before(phase') = Table + 1 + Free
          /\ Before(Disk!Following(phase')) = Table + 1 + Free + Span - blocks
      BY <1>1, <1>2, <2>2, Turns
    <3> QED
      BY <1>3, <1>4, <3>2, <3>3 DEF Loops
  <2>3. CASE phase = "unusable"
    <3>1. /\ Before(phase) = Table + 1 + Free /\ Disk!Rounds(phase) = Span - blocks
          /\ phase' = "done" /\ Before(phase') = Table + 1 + Free + Span - blocks
          /\ Before(Disk!Following(phase)) = Table + 1 + Free + Span - blocks
          /\ Before(Disk!Following(phase')) = Table + 1 + Free + Span - blocks
      BY <1>1, <1>2, <2>3, Turns
    <3> QED
      BY <1>1, <1>3, <1>4, <3>1 DEF Loops
  <2> QED
    BY <1>1, <2>1, <2>2, <2>3
<1>6. Looping'
  BY <1>1, <1>2, <1>5, SameSize DEF Looping
<1> QED
  BY <1>1, <1>2, <1>5, <1>6 DEF ImageInv, Loops

\* Every step of the formatter, a mount, and the callbacks.
LEMMA ImageNextInv ==
  ImageInv /\ [Format \/ MountDisk \/ Callback]_allVars => ImageInv'
<1> SUFFICES ASSUME ImageInv, [Format \/ MountDisk \/ Callback]_allVars
    PROVE  ImageInv'
  OBVIOUS
<1>1. CASE Format
  <2>1. mounted' = mounted
    BY <1>1 DEF Format
  <2>2. Disk!InitializeData \/ Disk!CreateSuperblock \/ Disk!WriteEntry \/ Disk!EndLoop
    BY <1>1 DEF Format, Disk!Next
  <2> QED
    BY <2>1, <2>2, HeadInv, WriteEntryInv, EndLoopInv
<1>2. CASE UNCHANGED mkVars /\ (mounted' = mounted \/ MountDisk)
  <2>1. blocks' = blocks /\ image' = image /\ phase' = phase /\ i' = i /\ offset' = offset
    BY <1>2 DEF mkVars
  <2>2. Looping => Looping'
    BY <2>1, SameSize DEF Looping, Disk!Following
  <2>3. mounted' => phase = "done" /\ blocks = num_blocks
    BY <1>2 DEF ImageInv, MountDisk
  <2> QED
    BY <2>1, <2>2, <2>3 DEF ImageInv
<1>3. CASE MountDisk
  BY <1>2, <1>3 DEF MountDisk
<1>4. CASE Callback
  BY <1>2, <1>4 DEF Callback
<1>5. CASE UNCHANGED allVars
  BY <1>2, <1>5 DEF allVars
<1> QED
  BY <1>1, <1>3, <1>4, <1>5

\* The first five words of the image, once they are written.
LEMMA SuperblockReadOK ==
  ASSUME blocks \in NumBlocks, Looping
  PROVE  SubSeq(image, 1, 5) = <<MAGIC_NUMBER, blocks, Table, block_size, Table + 1>>
<1>1. /\ image \in Seq(Int) /\ Len(image) \in Nat /\ Table \in Nat
      /\ \A w \in 1 .. 5 : image[w] = Disk!superblock[w]
  BY Sizes, LenProperties DEF Looping
<1>2. Disk!superblock = <<MAGIC_NUMBER, blocks, Table, block_size, Table + 1>>
  BY SameLayout DEF Disk!superblock, Disk!k, Table
<1>3. \A w \in 1 .. 5 : image[w] \in Int
  BY <1>1, SuperblockWords
<1>4. /\ SubSeq(image, 1, 5) \in Seq(Int) /\ Len(SubSeq(image, 1, 5)) = 5
      /\ \A w \in 1 .. 5 : SubSeq(image, 1, 5)[w] = image[w]
  BY <1>3, SubSeqProperties
<1>5. PICK q \in Seq(Int) : q = SubSeq(image, 1, 5)
  BY <1>4
<1>6. /\ Len(q) = 5 /\ q[1] = MAGIC_NUMBER /\ q[2] = blocks /\ q[3] = Table
      /\ q[4] = block_size /\ q[5] = Table + 1
  BY <1>1, <1>2, <1>4, <1>5
<1>7. q = <<q[1], q[2], q[3], q[4], q[5]>>
  BY <1>6
<1> QED
  BY <1>5, <1>6, <1>7
-----------------------------------------------------------------------------
(* The theorems about the image.                                            *)

\* The invariant of the image: how much of it each loop has written.
THEOREM ImageInvariance == FormatMountSpec => []ImageInv
BY FormatInitInv, ImageNextInv, PTL DEF FormatMountSpec

\* For blocks of any size and disks of any, the three loops of mk_disk make the
\* table that design.txt describes, though their bounds are computed apart.
THEOREM TableIsRight == FormatMountSpec => []TableCorrect
<1>1. ImageInv => TableCorrect
  <2> SUFFICES ASSUME ImageInv, phase = "done", NEW b \in DOMAIN FatTable(blocks)
      PROVE  image[pointers_per_block + b + 1] = FatTable(blocks)[b]
    BY SameLayout DEF TableCorrect, Disk!TableCorrect
  <2>1. blocks \in NumBlocks /\ Looping
    BY DEF ImageInv, Loops
  <2>2. /\ blocks \in Nat \ {0} /\ Table \in Nat \ {0} /\ Span \in Nat
        /\ pointers_per_block \in Nat
    BY <2>1, Sizes
  <2>3. Before("done") >= Span /\ Before("done") \in Int
    BY <2>1, Sizes, Turns
  <2>4. b \in 0 .. Span - 1 /\ FatTable(blocks)[b] = Entry(b)
    BY DEF FatTable, Span, Table, Entry
  <2>5. offset = pointers_per_block + Before("done") + i /\ i \in Nat
    BY <2>1 DEF Looping
  <2>6. b \in 0 .. offset - pointers_per_block - 1
    BY <2>2, <2>3, <2>4, <2>5
  <2> QED
    BY <2>1, <2>4, <2>6 DEF Looping
<1> QED
  BY <1>1, ImageInvariance, PTL

\* On every disk with a block after the table, the loops stay inside the table:
\* the image has the length asked for, and nothing is written over the
\* superblock or the root directory.
THEOREM SizeIsKept == FormatMountSpec => []SizeKept
<1>1. ImageInv => SizeKept
  <2> SUFFICES ASSUME ImageInv, phase = "done", blocks > Table
      PROVE  /\ Len(image) = blocks * pointers_per_block
             /\ SubSeq(image, 1, 5) = Disk!superblock
             /\ \A w \in (Table + 1) * pointers_per_block + 1 .. Len(image) : image[w] = 0
    BY SameLayout DEF SizeKept, Disk!SizeKept, Disk!k, Table
  <2>1. blocks \in NumBlocks /\ Looping
    BY DEF ImageInv, Loops
  <2>2. /\ blocks \in Nat \ {0} /\ Table \in Nat \ {0} /\ Span \in Nat
        /\ pointers_per_block \in Nat /\ pointers_per_block >= 5
        /\ pointers_per_block + Span <= blocks * pointers_per_block
    BY <2>1, Sizes
  <2>3. (Table + 1) * pointers_per_block = pointers_per_block + Span
    BY <2>2 DEF Span
  <2>4. Disk!superblock = <<MAGIC_NUMBER, blocks, Table, block_size, Table + 1>>
    BY SameLayout DEF Disk!superblock, Disk!k, Table
  <2>5. SubSeq(image, 1, 5) = Disk!superblock
    BY <2>1, <2>4, SuperblockReadOK
  <2>6. /\ Len(image) = blocks * pointers_per_block
        /\ \A w \in pointers_per_block + Span + 1 .. Len(image) : image[w] = 0
    BY <2>1 DEF Looping
  <2> QED
    BY <2>3, <2>5, <2>6
<1> QED
  BY <1>1, ImageInvariance, PTL

-----------------------------------------------------------------------------
(* Where a header is.                                                       *)

\* A number has one quotient and one rest.
LEMMA OneQuotient ==
  ASSUME NEW n \in Nat \ {0}, NEW q \in Int, NEW b \in Int,
         NEW r \in 0 .. n - 1, NEW s \in 0 .. n - 1, n * q + r = n * b + s
  PROVE  q = b /\ r = s
<1>1. ASSUME NEW x \in Int, NEW y \in Int, x < y
      PROVE  n * x + n <= n * y
  <2>1. y - x - 1 \in Nat /\ n * (y - x - 1) \in Nat
    BY <1>1
  <2>2. n * y = n * x + n + n * (y - x - 1)
    OBVIOUS
  <2> QED
    BY <2>1, <2>2
<1>2. ~ q < b
  BY <1>1
<1>3. ~ b < q
  BY <1>1
<1>4. q = b
  BY <1>2, <1>3
<1> QED
  BY <1>4

\* The quotient and the rest of a number that is given by them.
LEMMA QuotientAndRest ==
  ASSUME NEW n \in Nat \ {0}, NEW b \in Nat, NEW w \in 0 .. n - 1,
         NEW x \in Nat, x = n * b + w
  PROVE  x \div n = b /\ (x % n) = w
<1> DEFINE q == x \div n
           r == x % n
<1>1. q \in Int /\ r \in 0 .. n - 1 /\ x = n * q + r
  OBVIOUS
<1> HIDE DEF q, r
<1>2. q = b /\ r = w
  <2>1. n * q + r = n * b + w /\ b \in Int
    BY <1>1
  <2> QED
    BY <1>1, <2>1, OneQuotient
<1> QED
  BY <1>2 DEF q, r

\* The blocks a header may be in.
Blocky == {0} \cup k + 1 .. k + 4

\* Sizes: a block holds whole headers, and the blocks are numbers.
LEMMA Geometry ==
  /\ block_size \in Nat \ {0} /\ Slots \in Nat /\ Slots >= 6 /\ k \in Nat \ {0}
  /\ block_size = Slots * DIR_SIZE
  /\ Blocky \subseteq Nat
<1>1. block_size \in Nat \ {0} /\ block_size % 64 = 0 /\ num_blocks \in Nat
  BY LayoutAssumption, FatFsAssumption DEF DIR_SIZE
<1>2. block_size = 64 * (block_size \div 64) /\ block_size \div 64 \in Nat
  BY <1>1
<1>3. Slots \in Nat /\ Slots >= 6 /\ block_size = Slots * DIR_SIZE
  BY <1>2, FatFsAssumption DEF Slots, DIR_SIZE
<1>4. k \in Nat \ {0}
  <2>1. num_blocks \in Nat \ {0}
    BY FormatMountAssumption
  <2> QED
    BY <2>1, Blocks DEF k
<1> QED
  BY <1>1, <1>3, <1>4 DEF Blocky

\* An address tells the block and the header in it.
LEMMA Place ==
  ASSUME NEW b \in Nat, NEW n \in 0 .. Slots - 1
  PROVE  /\ At(b, n) \in Nat /\ BlockOf(At(b, n)) = b
         /\ (At(b, n) % block_size) \div DIR_SIZE = n
         /\ At(b, n) = 0 => b = 0 /\ n = 0
         /\ n < Slots - 1 => At(b, n) + DIR_SIZE = At(b, n + 1)
         /\ n = Slots - 1 => At(b, n) + DIR_SIZE = At(b + 1, 0)
<1> DEFINE x == At(b, n)
           w == n * DIR_SIZE
<1>1. block_size \in Nat \ {0} /\ Slots \in Nat /\ block_size = Slots * DIR_SIZE
  BY Geometry
<1>2. w \in 0 .. block_size - 1 /\ block_size * b \in Nat /\ x = block_size * b + w
  BY <1>1 DEF At, DIR_SIZE
<1>3. x \in Nat
  BY <1>2
<1> HIDE DEF w, x
<1>4. x \div block_size = b /\ (x % block_size) = w
  BY <1>1, <1>2, <1>3, QuotientAndRest
<1>5. w \div DIR_SIZE = n
  BY DEF w, DIR_SIZE
<1>6. x = 0 => b = 0 /\ n = 0
  <2> HAVE x = 0
  <2>1. block_size * b = 0 /\ w = 0
    BY <1>2
  <2> QED
    BY <1>1, <2>1 DEF w, DIR_SIZE
<1>7. x + DIR_SIZE = b * block_size + (n + 1) * DIR_SIZE
  BY <1>1 DEF x, At, DIR_SIZE
<1>8. n < Slots - 1 => x + DIR_SIZE = At(b, n + 1)
  BY <1>7 DEF At
<1>9. n = Slots - 1 => x + DIR_SIZE = At(b + 1, 0)
  <2> HAVE n = Slots - 1
  <2>1. (n + 1) * DIR_SIZE = block_size
    BY <1>1
  <2>2. (b + 1) * block_size + 0 * DIR_SIZE = b * block_size + block_size
    BY <1>1 DEF DIR_SIZE
  <2> QED
    BY <1>7, <2>1, <2>2 DEF At
<1> QED
  BY <1>3, <1>4, <1>5, <1>6, <1>8, <1>9 DEF BlockOf, x

\* Two addresses of headers are the same only in the same place.
LEMMA OnePlace ==
  ASSUME NEW b \in Nat, NEW c \in Nat, NEW n \in 0 .. Slots - 1, NEW m \in 0 .. Slots - 1,
         At(b, n) = At(c, m)
  PROVE  b = c /\ n = m
BY Place

\* The addresses after -2 are in block 0 and are no multiple of DIR_SIZE; what a
\* header there covers is a header of block 0 that is not the superblock.
LEMMA OverrunPlace ==
  ASSUME NEW e \in Overrun
  PROVE  /\ e \in Nat \ {0} /\ BlockOf(e) = 0 /\ e \in Addr
         /\ \A b \in Nat, n \in 0 .. Slots - 1 : At(b, n) # e
         /\ \E n \in 1 .. Slots - 1 : Covered(e) = {At(0, n)}
<1>1. PICK n \in 1 .. MaxOverrun + 1 : e = FLAG_LAST + n * DIR_SIZE
  BY DEF Overrun
<1>2. /\ block_size \in Nat \ {0} /\ Slots \in Nat /\ block_size = Slots * DIR_SIZE
      /\ MaxOverrun \in Nat /\ MaxOverrun + 1 < Slots /\ n \in 1 .. Slots - 1
  BY Geometry, FatFsAssumption
<1>3. e = n * 64 - 2 /\ e \in Nat \ {0} /\ e \in 0 .. block_size - 1
  BY <1>1, <1>2 DEF FLAG_LAST, DIR_SIZE
<1>4. BlockOf(e) = 0
  BY <1>2, <1>3 DEF BlockOf
<1>5. ASSUME NEW b \in Nat, NEW m \in 0 .. Slots - 1, At(b, m) = e
      PROVE  FALSE
  <2>1. b = 0
    BY <1>4, <1>5, Place
  <2>2. At(b, m) = m * 64
    BY <1>2, <2>1 DEF At, DIR_SIZE
  <2> QED
    BY <1>3, <1>5, <2>2
<1>6. Covered(e) = {At(0, n)}
  <2>1. At(0, n) = e + 2
    BY <1>2, <1>3 DEF At, DIR_SIZE
  <2> QED
    BY <2>1 DEF Covered
<1> QED
  BY <1>2, <1>3, <1>4, <1>5, <1>6 DEF Addr
-----------------------------------------------------------------------------
(* The headers, and what writing one does.                                  *)

Headers == [name : Name \cup Reserved, flen : Nat, sblock : Blocky,
            flag : {FLAG_F, FLAG_D}]

LEMMA InAddr ==
  \A b \in Blocky, n \in 0 .. Slots - 1 : At(b, n) \in Addr
BY DEF Blocky, Addr

LEMMA AddrSplit ==
  ASSUME NEW x \in Addr, x \notin Overrun
  PROVE  \E b \in Blocky : \E n \in 0 .. Slots - 1 : x = At(b, n)
BY DEF Blocky, Addr

\* The superblock's address.
LEMMA ZeroAddr == 0 \in Addr /\ BlockOf(0) = 0
<1>1. 0 \in Nat /\ 0 \in Blocky /\ 0 \in 0 .. Slots - 1
  BY Geometry DEF Blocky
<1>2. At(0, 0) = 0
  BY Geometry DEF At, DIR_SIZE
<1> QED
  BY <1>1, <1>2, InAddr, Place

\* Only an address after -2 covers another header.
LEMMA CoveredAt ==
  \A b \in Nat, n \in 0 .. Slots - 1 : Covered(At(b, n)) = {}
BY OverrunPlace DEF Covered

\* A write changes the header at its address and the one that it covers, and
\* of the latter the name alone.
LEMMA WriteFacts ==
  ASSUME NEW d \in [Addr -> Headers], NEW a \in Addr, NEW h \in Headers
  PROVE  /\ WriteHeader(d, a, h) \in [Addr -> Headers]
         /\ WriteEnd(d, a) \in [Addr -> Headers]
         /\ WriteHeader(d, a, h)[a] = h
         /\ \A x \in Addr : x \notin {a} \cup Covered(a) =>
              WriteHeader(d, a, h)[x] = d[x] /\ WriteEnd(d, a)[x] = d[x]
         /\ \A x \in Addr : x # a => WriteHeader(d, a, h)[x].flag = d[x].flag
         /\ \A x \in Addr : WriteEnd(d, a)[x].flag = d[x].flag
<1> DEFINE w == WriteHeader(d, a, h)
           e == WriteEnd(d, a)
<1>1. "" \in Name \cup Reserved /\ "tail" \in Name \cup Reserved
  BY DEF Reserved
<1>2. \A x \in Addr, nm \in Name \cup Reserved :
        /\ [d[x] EXCEPT !.name = nm] \in Headers
        /\ [d[x] EXCEPT !.name = nm].flag = d[x].flag
        /\ [d[x] EXCEPT !.name = nm].name = nm
  BY DEF Headers
<1>3. \A x \in Addr : w[x] = IF x = a THEN h
                             ELSE IF x \in Covered(a) THEN [d[x] EXCEPT !.name = "tail"]
                             ELSE d[x]
  BY DEF WriteHeader
<1>4. \A x \in Addr : e[x] = IF x \in {a} \cup Covered(a)
                             THEN [d[x] EXCEPT !.name = ""] ELSE d[x]
  BY DEF WriteEnd
<1>5. DOMAIN w = Addr /\ w = [x \in Addr |-> w[x]] /\ e = [x \in Addr |-> e[x]]
  BY DEF WriteHeader, WriteEnd
<1> HIDE DEF w, e
<1>6. ASSUME NEW x \in Addr
      PROVE  /\ w[x] \in Headers /\ e[x] \in Headers
             /\ x # a => w[x].flag = d[x].flag
             /\ e[x].flag = d[x].flag
  <2>1. d[x] \in Headers
    OBVIOUS
  <2>2. PICK t \in Headers : t = [d[x] EXCEPT !.name = "tail"] /\ t.flag = d[x].flag
    BY <1>1, <1>2
  <2>3. PICK u \in Headers : u = [d[x] EXCEPT !.name = ""] /\ u.flag = d[x].flag
    BY <1>1, <1>2
  <2>4. w[x] \in {h, t, d[x]} /\ (x # a => w[x] \in {t, d[x]})
    BY <1>3, <2>2
  <2>5. e[x] \in {u, d[x]}
    BY <1>4, <2>3
  <2> QED
    BY <2>1, <2>2, <2>3, <2>4, <2>5
<1>7. w \in [Addr -> Headers] /\ e \in [Addr -> Headers]
  BY <1>5, <1>6
<1>8. w[a] = h
  BY <1>3
<1>9. \A x \in Addr : x \notin {a} \cup Covered(a) => w[x] = d[x] /\ e[x] = d[x]
  BY <1>3, <1>4
<1> QED
  BY <1>6, <1>7, <1>8, <1>9 DEF w, e

\* The same for an end mark at the address of a header.
LEMMA EndFacts ==
  ASSUME NEW d \in [Addr -> Headers], NEW a \in Addr, Covered(a) = {}
  PROVE  /\ WriteEnd(d, a) \in [Addr -> Headers]
         /\ WriteEnd(d, a)[a].name = ""
         /\ \A x \in Addr : x # a => WriteEnd(d, a)[x] = d[x]
         /\ \A x \in Addr : WriteEnd(d, a)[x].flag = d[x].flag
<1>1. d[a] \in Headers
  OBVIOUS
<1>2. PICK h \in Headers : h = d[a]
  BY <1>1
<1>3. WriteEnd(d, a) \in [Addr -> Headers]
  BY <1>2, WriteFacts
<1>4. \A x \in Addr : x # a => WriteEnd(d, a)[x] = d[x]
  BY DEF WriteEnd
<1>5. \A x \in Addr : WriteEnd(d, a)[x].flag = d[x].flag
  BY <1>2, WriteFacts
<1>6. WriteEnd(d, a)[a].name = ""
  <2>1. WriteEnd(d, a)[a] = [h EXCEPT !.name = ""]
    BY <1>2 DEF WriteEnd
  <2> QED
    BY <1>2, <2>1 DEF Headers
<1> QED
  BY <1>3, <1>4, <1>5, <1>6

\* The six headers of the example tree.
ExampleAddr == {At(k + 1, n) : n \in 0 .. 3} \cup {At(k + 3, n) : n \in 0 .. 1}

LEMMA SixHeaders ==
  ExampleAddr = {At(k + 1, 0), At(k + 1, 1), At(k + 1, 2), At(k + 1, 3),
                 At(k + 3, 0), At(k + 3, 1)}
<1>1. 0 .. 3 = {0, 1, 2, 3} /\ 0 .. 1 = {0, 1}
  OBVIOUS
<1> QED
  BY <1>1 DEF ExampleAddr

LEMMA ExampleFacts ==
  ASSUME NEW d
  PROVE  /\ WriteExample(d)[At(k + 1, 0)] = Directory("root", k + 1)
         /\ WriteExample(d)[At(k + 1, 1)] = Header("hello", HelloLength, k + 2, FLAG_F)
         /\ WriteExample(d)[At(k + 1, 2)] = Directory("empty_sub_dir", 0)
         /\ WriteExample(d)[At(k + 1, 3)] = Directory("sub_dir", k + 3)
         /\ WriteExample(d)[At(k + 3, 0)] = Directory("..", k + 1)
         /\ WriteExample(d)[At(k + 3, 1)] = Directory("sub_sub_dir", 0)
         /\ \A x \in Addr : BlockOf(x) = k + 2 => WriteExample(d)[x] = Text
         /\ \A x \in Addr : BlockOf(x) # k + 2 /\ x \notin ExampleAddr =>
              WriteExample(d)[x] = d[x]
<1> DEFINE a == At(k + 1, 0)
           b == At(k + 1, 1)
           c == At(k + 1, 2)
           e == At(k + 1, 3)
           f == At(k + 3, 0)
           g == At(k + 3, 1)
           two(x) == BlockOf(x) = k + 2
<1>1. /\ k \in Nat \ {0} /\ Slots \in Nat /\ Slots >= 6
      /\ {0, 1, 2, 3} \subseteq 0 .. Slots - 1
      /\ k + 1 \in Nat /\ k + 3 \in Nat /\ k + 1 # k + 3
      /\ k + 1 # k + 2 /\ k + 3 # k + 2
      /\ k + 1 \in Blocky /\ k + 3 \in Blocky
  BY Geometry DEF Blocky
<1>2. {a, b, c, e, f, g} \subseteq Addr
  BY <1>1, InAddr
<1>3. /\ a # b /\ a # c /\ a # e /\ a # f /\ a # g /\ b # c /\ b # e
      /\ b # f /\ b # g /\ c # e /\ c # f /\ c # g /\ e # f /\ e # g /\ f # g
  BY <1>1, OnePlace
<1>4. ~ two(a) /\ ~ two(b) /\ ~ two(c) /\ ~ two(e) /\ ~ two(f) /\ ~ two(g)
  BY <1>1, Place
<1>5. ExampleAddr = {a, b, c, e, f, g}
  BY SixHeaders
<1>6. \A x \in Addr :
        WriteExample(d)[x] =
          CASE x = a  -> Directory("root", k + 1)
            [] x = b  -> Header("hello", HelloLength, k + 2, FLAG_F)
            [] x = c  -> Directory("empty_sub_dir", 0)
            [] x = e  -> Directory("sub_dir", k + 3)
            [] two(x) -> Text
            [] x = f  -> Directory("..", k + 1)
            [] x = g  -> Directory("sub_sub_dir", 0)
            [] OTHER  -> d[x]
  BY DEF WriteExample
<1> HIDE DEF a, b, c, e, f, g, two
<1>7. WriteExample(d)[a] = Directory("root", k + 1)
  BY <1>2, <1>3, <1>4, <1>6
<1>8. WriteExample(d)[b] = Header("hello", HelloLength, k + 2, FLAG_F)
  BY <1>2, <1>3, <1>4, <1>6
<1>9. WriteExample(d)[c] = Directory("empty_sub_dir", 0)
  BY <1>2, <1>3, <1>4, <1>6
<1>10. WriteExample(d)[e] = Directory("sub_dir", k + 3)
  BY <1>2, <1>3, <1>4, <1>6
<1>11. WriteExample(d)[f] = Directory("..", k + 1)
  BY <1>2, <1>3, <1>4, <1>6
<1>12. WriteExample(d)[g] = Directory("sub_sub_dir", 0)
  BY <1>2, <1>3, <1>4, <1>6
<1>13. \A x \in Addr : two(x) => WriteExample(d)[x] = Text
  BY <1>4, <1>6
<1>14. \A x \in Addr : ~ two(x) /\ x \notin {a, b, c, e, f, g} =>
         WriteExample(d)[x] = d[x]
  BY <1>6
<1> QED
  BY <1>5, <1>7, <1>8, <1>9, <1>10, <1>11, <1>12, <1>13, <1>14
  DEF a, b, c, e, f, g, two

Same(h, g) == h.name = g.name /\ h.sblock = g.sblock /\ h.flag = g.flag

InTree(x) == \E b \in {k + 1, k + 3} : \E n \in 0 .. Slots - 1 : x = At(b, n)

\* Directories are in the blocks of the root and of sub_dir, or after -2.
FlagsOK(d) == \A x \in Addr : d[x].flag = FLAG_D => x \in Overrun \/ InTree(x)

\* The inductive invariant of a mounted disk: the example tree and the
\* superblock are there, and hello's data as long as the root has room.
DiskInv(d) ==
  /\ d \in [Addr -> Headers]
  /\ FlagsOK(d)
  /\ \A x \in ExampleAddr : Same(d[x], WriteExample(d)[x])
  /\ d[0].name = "superblock"
  /\ (\E n \in 0 .. Slots - 1 : d[At(k + 1, n)].name = "") =>
       \A x \in Addr : BlockOf(x) = k + 2 => d[x] = Text

\* The headers of the tree do not depend on the disk they are written to.
LEMMA ExampleSame ==
  \A d, e : \A x \in ExampleAddr : WriteExample(d)[x] = WriteExample(e)[x]
<1> SUFFICES ASSUME NEW d, NEW e, NEW x \in ExampleAddr
             PROVE  WriteExample(d)[x] = WriteExample(e)[x]
  OBVIOUS
<1>1. x \in {At(k + 1, 0), At(k + 1, 1), At(k + 1, 2), At(k + 1, 3),
             At(k + 3, 0), At(k + 3, 1)}
  BY SixHeaders
<1> QED
  BY <1>1, ExampleFacts

\* What the mount puts in the tree are headers, and only there directories.
LEMMA ExampleInv ==
  ASSUME NEW d \in [Addr -> Headers], FlagsOK(d), d[0].name = "superblock"
  PROVE  /\ WriteExample(d) \in [Addr -> Headers]
         /\ FlagsOK(WriteExample(d))
         /\ WriteExample(d)[0].name = "superblock"
<1> DEFINE e == WriteExample(d)
<1>1. e = [x \in Addr |-> e[x]]
  BY DEF WriteExample
<1>2. /\ {0, k + 1, k + 2, k + 3} \subseteq Blocky /\ k \in Nat \ {0}
      /\ k + 1 \in {k + 1, k + 3} /\ k + 3 \in {k + 1, k + 3}
      /\ {0, 1, 2, 3} \subseteq 0 .. Slots - 1
  BY Geometry DEF Blocky
<1>3. /\ Directory("root", k + 1) \in Headers /\ Directory("empty_sub_dir", 0) \in Headers
      /\ Directory("sub_dir", k + 3) \in Headers /\ Directory("..", k + 1) \in Headers
      /\ Directory("sub_sub_dir", 0) \in Headers /\ Text \in Headers /\ Text.flag = FLAG_F
      /\ Header("hello", HelloLength, k + 2, FLAG_F) \in Headers
  <2>1. /\ {"root", "empty_sub_dir", "sub_dir", "..", "sub_sub_dir", "text", "hello"}
             \subseteq Name \cup Reserved
        /\ DIR_SIZE \in Nat /\ HelloLength \in Nat
    BY DEF Reserved, DIR_SIZE, HelloLength
  <2> QED
    BY <1>2, <2>1 DEF Directory, Header, Headers, Text
<1>4. ASSUME NEW x \in ExampleAddr
      PROVE  e[x] \in Headers /\ InTree(x) /\ x # 0 /\ BlockOf(x) # k + 2 /\ x \in Addr
  <2>1. x \in {At(k + 1, 0), At(k + 1, 1), At(k + 1, 2), At(k + 1, 3),
               At(k + 3, 0), At(k + 3, 1)}
    BY SixHeaders
  <2>2. e[x] \in Headers
    BY <1>3, <2>1, ExampleFacts
  <2>3. PICK b \in {k + 1, k + 3}, n \in 0 .. Slots - 1 : x = At(b, n)
    BY <1>2, <2>1
  <2>4. b \in Nat /\ b \in Blocky /\ b # 0 /\ b # k + 2
    BY <1>2
  <2>5. x # 0 /\ BlockOf(x) = b
    BY <2>3, <2>4, Place
  <2> QED
    BY <2>2, <2>3, <2>4, <2>5, InAddr DEF InTree
<1>5. ASSUME NEW x \in Addr, x \notin ExampleAddr
      PROVE  \/ e[x] = Text /\ BlockOf(x) = k + 2
             \/ e[x] = d[x] /\ BlockOf(x) # k + 2
  <2>1. BlockOf(x) = k + 2 => e[x] = Text
    BY ExampleFacts
  <2>2. BlockOf(x) # k + 2 => e[x] = d[x]
    BY <1>5, ExampleFacts
  <2> QED
    BY <2>1, <2>2
<1>6. 0 \in Addr /\ BlockOf(0) = 0
  BY ZeroAddr
<1> HIDE DEF e
<1>7. \A x \in Addr : e[x] \in Headers
  BY <1>3, <1>4, <1>5
<1>8. e \in [Addr -> Headers]
  BY <1>1, <1>7
<1>9. FlagsOK(e)
  <2> SUFFICES ASSUME NEW x \in Addr, e[x].flag = FLAG_D
               PROVE  x \in Overrun \/ InTree(x)
    BY DEF FlagsOK
  <2>1. CASE x \in ExampleAddr
    BY <1>4, <2>1
  <2>2. CASE x \notin ExampleAddr
    <3>1. e[x] # Text
      BY <1>3 DEF FLAG_F, FLAG_D
    <3>2. d[x].flag = FLAG_D
      BY <1>5, <2>2, <3>1
    <3> QED
      BY <3>2 DEF FlagsOK
  <2> QED
    BY <2>1, <2>2
<1>10. e[0].name = "superblock"
  <2>1. 0 \notin ExampleAddr /\ BlockOf(0) # k + 2
    BY <1>2, <1>4, <1>6
  <2> QED
    BY <1>5, <1>6, <2>1
<1> QED
  BY <1>8, <1>9, <1>10 DEF e

\* Every mount leaves a disk that satisfies the invariant.
LEMMA MountInv ==
  ASSUME NEW d \in [Addr -> Headers], FlagsOK(d), d[0].name = "superblock"
  PROVE  DiskInv(initroot(d))
<1> DEFINE e == WriteExample(d)
           r == At(k + 1, 4)
           u == At(k + 3, 2)
           f == WriteEnd(e, r)
           g == WriteEnd(f, u)
<1>1. /\ e \in [Addr -> Headers] /\ FlagsOK(e) /\ e[0].name = "superblock"
  BY ExampleInv
<1>2. /\ {0, 1, 2, 3, 4} \subseteq 0 .. Slots - 1 /\ k \in Nat \ {0}
      /\ {0, k + 1, k + 3} \subseteq Blocky \cap Nat
  BY Geometry DEF Blocky
<1>3. /\ r \in Addr /\ u \in Addr /\ Covered(r) = {} /\ Covered(u) = {}
      /\ BlockOf(r) = k + 1 /\ BlockOf(u) = k + 3 /\ r # 0 /\ u # 0
  <2>1. r \in Addr /\ u \in Addr
    BY <1>2, InAddr
  <2>2. Covered(r) = {} /\ Covered(u) = {}
    BY <1>2, CoveredAt
  <2>3. BlockOf(r) = k + 1 /\ BlockOf(u) = k + 3 /\ r # 0 /\ u # 0
    BY <1>2, Place
  <2> QED
    BY <2>1, <2>2, <2>3
<1>4. r \notin ExampleAddr /\ u \notin ExampleAddr
  <2>1. ASSUME NEW b \in {k + 1, k + 3}, NEW n \in 0 .. 3,
               b = k + 3 => n \in 0 .. 1, At(b, n) \in {r, u}
        PROVE  FALSE
    <3>1. b \in Nat /\ n \in 0 .. Slots - 1
      BY <1>2
    <3>2. CASE At(b, n) = r
      <4>1. b = k + 1 /\ n = 4
        BY <1>2, <3>1, <3>2, OnePlace
      <4> QED
        BY <4>1
    <3>3. CASE At(b, n) = u
      <4>1. b = k + 3 /\ n = 2
        BY <1>2, <3>1, <3>3, OnePlace
      <4> QED
        BY <1>2, <2>1, <4>1
    <3> QED
      BY <2>1, <3>2, <3>3
  <2> QED
    BY <1>2, <2>1 DEF ExampleAddr
<1>5. 0 \in Addr
  BY ZeroAddr
<1>6. initroot(d) = g
  BY DEF initroot
<1> HIDE DEF e, r, u
<1>7. /\ f \in [Addr -> Headers]
      /\ \A x \in Addr : x # r => f[x] = e[x]
      /\ \A x \in Addr : f[x].flag = e[x].flag
  BY <1>1, <1>3, EndFacts
<1> HIDE DEF f
<1>8. /\ g \in [Addr -> Headers]
      /\ \A x \in Addr : x # u => g[x] = f[x]
      /\ \A x \in Addr : g[x].flag = f[x].flag
  BY <1>3, <1>7, EndFacts
<1> HIDE DEF g
<1>9. \A x \in Addr : x \notin {r, u} => g[x] = e[x]
  BY <1>7, <1>8
<1>10. FlagsOK(g)
  BY <1>1, <1>7, <1>8 DEF FlagsOK
<1>11. ASSUME NEW x \in ExampleAddr
       PROVE  Same(g[x], WriteExample(g)[x])
  <2>1. x \in Addr
    BY <1>2, InAddr DEF ExampleAddr
  <2>2. g[x] = e[x]
    BY <1>4, <1>9, <2>1
  <2>3. WriteExample(g)[x] = e[x]
    BY ExampleSame DEF e
  <2> QED
    BY <2>2, <2>3 DEF Same
<1>12. g[0].name = "superblock"
  BY <1>1, <1>3, <1>5, <1>9
<1>13. \A x \in Addr : BlockOf(x) = k + 2 => g[x] = Text
  <2> SUFFICES ASSUME NEW x \in Addr, BlockOf(x) = k + 2
               PROVE  g[x] = Text
    OBVIOUS
  <2>1. x # r /\ x # u
    BY <1>2, <1>3
  <2>2. e[x] = Text
    BY ExampleFacts DEF e
  <2> QED
    BY <1>9, <2>1, <2>2
<1> QED
  BY <1>6, <1>8, <1>10, <1>11, <1>12, <1>13 DEF DiskInv
-----------------------------------------------------------------------------
(* Finding: the block a new directory gets, and the header a path leads to. *)

\* Least elements exist: initial segments of the naturals are finite, so
\* strict inclusion of them is well-founded.
LEMMA MinOfNats ==
  ASSUME NEW T \in SUBSET Nat, T # {}
  PROVE  Min(T) \in T /\ \A y \in T : Min(T) <= y
<1> DEFINE U == {0 .. n : n \in T}
<1>1. U \subseteq FiniteSubsetsOf(Nat) /\ U # {}
  <2>1. \A n \in T : IsFiniteSet(0 .. n) /\ 0 .. n \in SUBSET Nat
    BY FS_Interval
  <2> QED
    BY <2>1 DEF FiniteSubsetsOf
<1>2. PICK u \in U : \A v \in U : ~ (<<v, u>> \in StrictSubsetOrdering(Nat))
  BY <1>1, FS_StrictSubsetOrderingWellFounded, WFMin
<1>3. PICK x \in T : u = 0 .. x
  OBVIOUS
<1>4. ASSUME NEW y \in T, y < x
      PROVE  FALSE
  <2>1. 0 .. y \subseteq 0 .. x /\ x \in 0 .. x /\ x \notin 0 .. y
    BY <1>4
  <2>2. <<0 .. y, 0 .. x>> \in StrictSubsetOrdering(Nat)
    BY <2>1 DEF StrictSubsetOrdering
  <2> QED
    BY <2>2, <1>2, <1>3
<1>5. \A y \in T : x <= y
  BY <1>4
<1> QED
  BY <1>5 DEF Min

\* The entries of the table that the callbacks look at, whatever was written over
\* the others.
LEMMA TableRead ==
  ASSUME TableKept
  PROVE  /\ DOMAIN fat = 0 .. k * pointers_per_block - 1
         /\ {k + 1, k + 2, k + 3, k + 4} \subseteq DOMAIN fat
         /\ \A b \in k + 1 .. k + 3 : fat[b] = FLAG_LAST
         /\ fat[k + 4] = FREE_BLOCK
<1> DEFINE left == Marked(FatTable(num_blocks))
<1>1. /\ k \in Nat \ {0} /\ num_blocks \in Nat /\ num_blocks > k + 4
      /\ pointers_per_block \in Nat \ {0} /\ num_blocks <= k * pointers_per_block
      /\ k * pointers_per_block \in Nat
  <2>1. num_blocks \in Nat \ {0} /\ num_blocks > k + 4 /\ k \in Nat \ {0}
    BY Geometry, FatFsAssumption
  <2> QED
    BY <2>1, Blocks DEF k
<1>2. DOMAIN left = 0 .. k * pointers_per_block - 1
  BY DEF Marked, FatTable, k
<1>3. \A b \in DOMAIN left :
        left[b] = IF b \in k + 1 .. k + 3 THEN FLAG_LAST
                  ELSE IF b > k /\ b < num_blocks THEN FREE_BLOCK ELSE NO_BLOCK
  BY DEF Marked, FatTable, k
<1>4. DOMAIN fat = DOMAIN left /\ \A b \in DOMAIN fat \ Overwritten : fat[b] = left[b]
  BY DEF TableKept
<1>5. \A b \in k + 1 .. k + 4 : b \notin Overwritten
  BY <1>1 DEF Overwritten, NameWords, HeaderWords, DIR_SIZE, BLOCK_PTR_SIZE
<1> HIDE DEF left
<1>6. \A b \in k + 1 .. k + 4 : b \in DOMAIN fat /\ fat[b] = left[b]
  BY <1>1, <1>2, <1>4, <1>5
<1>7. {k + 1, k + 2, k + 3, k + 4} \subseteq DOMAIN fat
  BY <1>1, <1>6
<1>8. \A b \in k + 1 .. k + 3 : fat[b] = FLAG_LAST
  BY <1>1, <1>3, <1>4, <1>6
<1>9. fat[k + 4] = FREE_BLOCK
  BY <1>1, <1>3, <1>4, <1>6
<1> QED
  BY <1>2, <1>4, <1>7, <1>8, <1>9

\* The first free block is the one after the example tree's.
LEMMA NewBlock ==
  ASSUME TableKept
  PROVE  new_block = k + 4
<1> DEFINE T == {b \in DOMAIN fat : b >= starting_block /\ fat[b] = FREE_BLOCK}
<1>1. k \in Nat \ {0} /\ pointers_per_block \in Nat /\ k * pointers_per_block \in Nat
  <2>1. num_blocks \in Nat \ {0} /\ k \in Nat \ {0}
    BY Geometry, FatFsAssumption, FormatMountAssumption
  <2> QED
    BY <2>1, Blocks DEF k
<1>2. k + 4 \in T
  BY <1>1, TableRead DEF starting_block
<1>3. \A b \in T : b >= k + 4 /\ b \in Nat
  <2> SUFFICES ASSUME NEW b \in DOMAIN fat, b >= k + 1, fat[b] = FREE_BLOCK
               PROVE  b >= k + 4 /\ b \in Nat
    BY DEF starting_block
  <2>1. b \in Nat
    BY <1>1, TableRead
  <2>2. b \notin k + 1 .. k + 3
    BY TableRead DEF FREE_BLOCK, FLAG_LAST
  <2> QED
    BY <1>1, <2>1, <2>2
<1>4. new_block = Min(T)
  BY DEF new_block
<1> HIDE DEF T
<1>5. T \in SUBSET Nat /\ T # {}
  BY <1>2, <1>3
<1>6. Min(T) \in T /\ Min(T) <= k + 4
  BY <1>2, <1>5, MinOfNats
<1>7. Min(T) >= k + 4 /\ Min(T) \in Nat
  BY <1>3, <1>6
<1> QED
  BY <1>1, <1>4, <1>6, <1>7

\* No header of block b from the second to the n-th ends the directory.
Unended(b, n) == \A m \in 1 .. n : disk[At(b, m)].name # ""

\* Where a lookup has come to: a block, and a header before the end mark of
\* the block that it is in.
Reached(r) ==
  /\ r.block \in Blocky
  /\ r.addr # 0 =>
       \E b \in Blocky : \E n \in 0 .. Slots - 1 :
         r.addr = At(b, n) /\ Unended(b, n)

\* A header that is found has the name, and no end mark before it.
LEMMA FindFacts ==
  ASSUME NEW b \in Nat, NEW name, Find(b, name) # 0
  PROVE  \E n \in 0 .. Slots - 1 :
           /\ Find(b, name) = At(b, n) /\ disk[At(b, n)].name = name
           /\ Unended(b, n)
           /\ \A j \in 0 .. n - 1 :
                disk[At(b, j)].name = name => ~ Unended(b, j)
<1> DEFINE hit == {n \in 0 .. Slots - 1 :
                     disk[At(b, n)].name = name /\ Unended(b, n)}
<1>1. Find(b, name) = IF hit = {} THEN 0 ELSE At(b, Min(hit))
  BY DEF Find, Unended
<1>2. Slots \in Nat
  BY Geometry
<1>3. hit \in SUBSET Nat /\ hit # {}
  <2>1. hit \subseteq 0 .. Slots - 1
    OBVIOUS
  <2> HIDE DEF hit
  <2> QED
    BY <1>1, <1>2, <2>1
<1>4. Min(hit) \in hit /\ \A y \in hit : Min(hit) <= y
  <2> HIDE DEF hit
  <2> QED
    BY <1>3, MinOfNats
<1>5. PICK n \in hit : n = Min(hit) /\ \A y \in hit : n <= y
  BY <1>4
<1>6. ASSUME NEW j \in 0 .. n - 1
      PROVE  j \notin hit /\ j \in 0 .. Slots - 1
  <2>1. n \in 0 .. Slots - 1
    BY <1>5
  <2> HIDE DEF hit
  <2>2. j < n /\ j \in 0 .. Slots - 1
    BY <1>2, <2>1
  <2> QED
    BY <1>5, <2>1, <2>2
<1>7. Find(b, name) = At(b, n)
  BY <1>1, <1>3, <1>5
<1> QED
  BY <1>5, <1>6, <1>7

\* One name more.
LEMMA DescendFacts ==
  ASSUME DiskInv(disk), NEW r, Reached(r), NEW name
  PROVE  Reached(Descend(r, name))
<1> DEFINE a == IF r.addr = 0 THEN 0 ELSE Find(r.block, name)
           t == IF a = 0 THEN 0 ELSE disk[a].sblock
<1>1. Descend(r, name).addr = a /\ Descend(r, name).block = t
  BY DEF Descend
<1>2. 0 \in Blocky /\ r.block \in Nat /\ r.block \in Blocky
  BY Geometry DEF Reached, Blocky
<1>3. CASE a = 0
  BY <1>1, <1>2, <1>3 DEF Reached
<1>4. CASE a # 0
  <2>1. PICK n \in 0 .. Slots - 1 :
          a = At(r.block, n) /\ Unended(r.block, n)
    <3>1. a = Find(r.block, name) /\ Find(r.block, name) # 0
      BY <1>4
    <3>2. PICK n \in 0 .. Slots - 1 :
            Find(r.block, name) = At(r.block, n) /\ Unended(r.block, n)
      <4>1. r.block \in Nat /\ Find(r.block, name) # 0
        BY <1>2, <3>1
      <4> HIDE DEF a
      <4> QED
        BY <4>1, FindFacts
    <3> HIDE DEF a
    <3> QED
      BY <3>1, <3>2
  <2>2. a \in Addr
    BY <1>2, <2>1, InAddr
  <2>3. t \in Blocky
    BY <1>4, <2>2 DEF DiskInv, Headers
  <2> HIDE DEF a, t
  <2> QED
    BY <1>1, <1>2, <2>1, <2>3 DEF Reached
<1> QED
  BY <1>3, <1>4

\* The steps of a lookup: the recursive function of path_to_addr exists.
LEMMA PathSteps ==
  ASSUME NEW S, NEW path \in Seq(S)
  PROVE  \E r : /\ path_to_addr(path) = r[Len(path)].addr
                /\ r[0] = Root
                /\ \A n \in 1 .. Len(path) : r[n] = Descend(r[n - 1], path[n])
<1> DEFINE L == Len(path)
           Step(f, n) == IF n = 0 THEN Root ELSE Descend(f[n - 1], path[n])
           Good(j) == \E f : f = [n \in 0 .. j |-> Step(f, n)]
           Bad == {j \in 0 .. L : ~ Good(j)}
           R == CHOOSE f : f = [n \in 0 .. L |-> Step(f, n)]
<1>1. L \in Nat
  OBVIOUS
<1>2. Good(0)
  <2>1. [n \in 0 .. 0 |-> Root] = [n \in 0 .. 0 |-> Step([m \in 0 .. 0 |-> Root], n)]
    OBVIOUS
  <2> QED
    BY <2>1
<1>3. ASSUME NEW j \in Nat, Good(j)
      PROVE  Good(j + 1)
  <2>1. PICK f : f = [n \in 0 .. j |-> Step(f, n)]
    BY <1>3
  <2> DEFINE g == [n \in 0 .. j + 1 |->
                     IF n = j + 1 THEN Descend(f[j], path[j + 1]) ELSE f[n]]
  <2>2. ASSUME NEW n \in 0 .. j + 1
        PROVE  g[n] = Step(g, n)
    <3>1. CASE n = j + 1
      <4>1. n # 0 /\ n - 1 = j /\ j \in 0 .. j + 1 /\ j # j + 1
        BY <3>1
      <4>2. g[j] = f[j]
        BY <4>1
      <4> QED
        BY <3>1, <4>1, <4>2
    <3>2. CASE n = 0
      <4>1. 0 \in 0 .. j /\ 0 # j + 1
        OBVIOUS
      <4>2. f[0] = Root
        BY <2>1, <4>1
      <4> QED
        BY <3>2, <4>1, <4>2
    <3>3. CASE n # 0 /\ n # j + 1
      <4>1. n \in 0 .. j /\ n - 1 \in 0 .. j /\ n - 1 \in 0 .. j + 1 /\ n - 1 # j + 1
        BY <3>3
      <4>2. f[n] = Descend(f[n - 1], path[n])
        BY <2>1, <3>3, <4>1
      <4>3. g[n] = f[n] /\ g[n - 1] = f[n - 1]
        BY <3>3, <4>1
      <4> QED
        BY <3>3, <4>2, <4>3
    <3> QED
      BY <3>1, <3>2, <3>3
  <2>3. g = [n \in 0 .. j + 1 |-> g[n]]
    OBVIOUS
  <2> HIDE DEF g
  <2>4. g = [n \in 0 .. j + 1 |-> Step(g, n)]
    BY <2>2, <2>3
  <2> QED
    BY <2>4
<1>4. Good(L)
  <2> SUFFICES ASSUME ~ Good(L) PROVE FALSE
    OBVIOUS
  <2> HIDE DEF Good
  <2>1. L \in Bad /\ Bad \in SUBSET Nat
    BY <1>1
  <2>2. PICK j \in Bad : \A y \in Bad : j <= y
    <3> HIDE DEF Bad
    <3> QED
      BY <2>1, MinOfNats
  <2>3. j # 0 /\ j \in 0 .. L
    BY <1>2, <2>2
  <2>4. j - 1 \in 0 .. L /\ j - 1 \in Nat /\ (j - 1) + 1 = j
    BY <1>1, <2>3
  <2>5. j - 1 \notin Bad
    <3> HIDE DEF Bad
    <3> QED
      BY <2>2, <2>3, <2>4
  <2>6. Good(j - 1)
    BY <2>4, <2>5
  <2>7. Good(j)
    BY <1>3, <2>4, <2>6
  <2> QED
    BY <2>2, <2>7
<1>5. R = [n \in 0 .. L |-> Step(R, n)]
  <2>1. PICK f : f = [n \in 0 .. L |-> Step(f, n)]
    BY <1>4
  <2> QED
    BY <2>1
<1>6. path_to_addr(path) = R[L].addr
  BY DEF path_to_addr
<1> HIDE DEF R
<1>7. R[0] = Root
  BY <1>1, <1>5
<1>8. \A n \in 1 .. L : R[n] = Descend(R[n - 1], path[n])
  BY <1>1, <1>5
<1> QED
  BY <1>6, <1>7, <1>8

\* A lookup that succeeds ends at a header of the tree, before the end mark.
LEMMA PathFound ==
  ASSUME DiskInv(disk), NEW S, NEW path \in Seq(S), path_to_addr(path) # 0
  PROVE  \E b \in Blocky : \E n \in 0 .. Slots - 1 :
           path_to_addr(path) = At(b, n) /\ Unended(b, n)
<1> DEFINE L == Len(path)
<1>1. L \in Nat
  OBVIOUS
<1>2. PICK r : /\ path_to_addr(path) = r[L].addr
               /\ r[0] = Root
               /\ \A n \in 1 .. L : r[n] = Descend(r[n - 1], path[n])
  BY PathSteps
<1> DEFINE Bad == {j \in 0 .. L : ~ Reached(r[j])}
<1>3. Reached(Root)
  <2>1. /\ k + 1 \in Blocky /\ 0 \in 0 .. Slots - 1
    BY Geometry DEF Blocky
  <2>2. Unended(k + 1, 0)
    <3>1. 1 .. 0 = {}
      OBVIOUS
    <3> QED
      BY <3>1 DEF Unended
  <2>3. Root.block = k + 1 /\ Root.addr = At(k + 1, 0)
    BY DEF Root, starting_block
  <2> QED
    BY <2>1, <2>2, <2>3 DEF Reached
<1>4. Bad = {}
  <2> SUFFICES ASSUME Bad # {} PROVE FALSE
    OBVIOUS
  <2>1. Bad \in SUBSET Nat
    BY <1>1
  <2>2. PICK j \in Bad : \A y \in Bad : j <= y
    <3> HIDE DEF Bad
    <3> QED
      BY <2>1, MinOfNats
  <2>3. j # 0 /\ j \in 0 .. L
    BY <1>2, <1>3, <2>2
  <2>4. j - 1 \in 0 .. L /\ j \in 1 .. L
    BY <1>1, <2>3
  <2>5. j - 1 \notin Bad
    <3> HIDE DEF Bad
    <3> QED
      BY <2>2, <2>3, <2>4
  <2>6. Reached(r[j - 1])
    BY <2>4, <2>5
  <2>7. Reached(r[j])
    BY <1>2, <2>4, <2>6, DescendFacts
  <2> QED
    BY <2>2, <2>7
<1>5. Reached(r[L])
  BY <1>1, <1>4
<1> QED
  BY <1>2, <1>5 DEF Reached

\* The handle that open gets is the address of hello's header.
LEMMA HelloFound ==
  ASSUME DiskInv(disk), path_to_addr(<<"hello">>) # 0
  PROVE  path_to_addr(<<"hello">>) = At(k + 1, 1)
<1> DEFINE path == <<"hello">>
<1>1. path \in Seq({"hello"}) /\ Len(path) = 1 /\ path[1] = "hello"
  OBVIOUS
<1>2. PICK r : /\ path_to_addr(path) = r[Len(path)].addr
               /\ r[0] = Root
               /\ \A n \in 1 .. Len(path) : r[n] = Descend(r[n - 1], path[n])
  BY <1>1, PathSteps
<1>3. path_to_addr(path) = Descend(Root, "hello").addr
  <2>1. r[1] = Descend(r[1 - 1], path[1])
    BY <1>1, <1>2
  <2>2. r[1 - 1] = Root
    BY <1>2
  <2> QED
    BY <1>1, <1>2, <2>1, <2>2
<1>4. path_to_addr(path) = Find(k + 1, "hello")
  BY <1>3 DEF Descend, Root, starting_block
<1>5. /\ {0, 1} \subseteq 0 .. Slots - 1 /\ k + 1 \in Nat
      /\ At(k + 1, 0) \in ExampleAddr /\ At(k + 1, 1) \in ExampleAddr
  BY Geometry DEF ExampleAddr
<1>6. PICK n \in 0 .. Slots - 1 :
        /\ path_to_addr(path) = At(k + 1, n) /\ disk[At(k + 1, n)].name = "hello"
        /\ \A j \in 0 .. n - 1 :
             disk[At(k + 1, j)].name = "hello" => ~ Unended(k + 1, j)
  <2>1. Find(k + 1, "hello") # 0
    BY <1>4
  <2> QED
    BY <1>4, <1>5, <2>1, FindFacts
<1>7. disk[At(k + 1, 0)].name = "root" /\ disk[At(k + 1, 1)].name = "hello"
  <2>1. /\ Same(disk[At(k + 1, 0)], WriteExample(disk)[At(k + 1, 0)])
        /\ Same(disk[At(k + 1, 1)], WriteExample(disk)[At(k + 1, 1)])
    BY <1>5 DEF DiskInv
  <2> QED
    BY <2>1, ExampleFacts DEF Same, Directory, Header
<1>8. n # 0
  BY <1>6, <1>7
<1>9. Unended(k + 1, 1)
  <2>1. 1 .. 1 = {1}
    OBVIOUS
  <2> QED
    BY <1>7, <2>1 DEF Unended
<1>10. ~ 1 \in 0 .. n - 1
  BY <1>6, <1>7, <1>9
<1>11. n = 1
  BY <1>5, <1>8, <1>10, Geometry
<1> QED
  BY <1>6, <1>11

\* Where mkdir starts: at a header of the root or of sub_dir, which no end
\* mark precedes.
LEMMA ParentFacts ==
  ASSUME DiskInv(disk), NEW parent \in Parents, IsDirectory(parent)
  PROVE  \E b \in {k + 1, k + 3} : \E n \in 0 .. Slots - 1 :
           ParentSeek(parent) = At(b, n) /\ Unended(b, n)
<1>1. CASE parent = <<>>
  <2>1. 0 \in 0 .. Slots - 1 /\ k + 1 \in {k + 1, k + 3}
    BY Geometry
  <2>2. Unended(k + 1, 0)
    <3>1. 1 .. 0 = {}
      OBVIOUS
    <3> QED
      BY <3>1 DEF Unended
  <2>3. ParentSeek(parent) = At(k + 1, 0)
    BY <1>1 DEF ParentSeek, starting_block
  <2> QED
    BY <2>1, <2>2, <2>3
<1>2. CASE parent # <<>>
  <2>1. /\ path_to_addr(parent) # 0 /\ disk[path_to_addr(parent)].flag = FLAG_D
        /\ ParentSeek(parent) = path_to_addr(parent)
    BY <1>2 DEF IsDirectory, ParentSeek
  <2>2. parent \in Seq(Name \cup Reserved)
    BY FatFsAssumption
  <2>3. PICK b \in Blocky, n \in 0 .. Slots - 1 :
          path_to_addr(parent) = At(b, n) /\ Unended(b, n)
    BY <2>1, <2>2, PathFound
  <2>4. b \in Nat /\ At(b, n) \in Addr
    BY InAddr, Geometry
  <2>5. At(b, n) \notin Overrun
    BY <2>4, OverrunPlace
  <2>6. InTree(At(b, n))
    BY <2>1, <2>3, <2>4, <2>5 DEF DiskInv, FlagsOK
  <2>7. PICK c \in {k + 1, k + 3}, m \in 0 .. Slots - 1 : At(b, n) = At(c, m)
    BY <2>6 DEF InTree
  <2>8. b = c
    <3>1. c \in Nat
      BY Geometry
    <3> QED
      BY <2>4, <2>7, <3>1, OnePlace
  <2> QED
    BY <2>1, <2>3, <2>7, <2>8
<1> QED
  BY <1>1, <1>2

\* A walk is through the rest of the block.
LEMMA WalkAt ==
  ASSUME NEW b \in Nat, NEW n \in 0 .. Slots - 1
  PROVE  Walk(At(b, n)) = {At(b, m) : m \in n .. Slots - 1}
<1>1. BlockOf(At(b, n)) = b /\ (At(b, n) % block_size) \div DIR_SIZE = n
  BY Place
<1> QED
  BY <1>1 DEF Walk

\* The first empty header after -2, with another address behind it.
OverrunEnd(a) ==
  /\ a \in Overrun /\ a + DIR_SIZE \in Overrun /\ disk[a].name = ""
  /\ \A e \in Overrun : disk[e].name = "" => a <= e

\* The end of a directory is the first empty header of the walk; past a full
\* block it is at an address after -2.
LEMMA EndOfFacts ==
  ASSUME NEW b \in Nat, NEW n \in 0 .. Slots - 1, NEW seeki \in EndOf(At(b, n))
  PROVE  \/ \E m \in n .. Slots - 1 :
              /\ seeki = At(b, m) /\ disk[seeki].name = ""
              /\ \A j \in n .. m - 1 : disk[At(b, j)].name # ""
         \/ OverrunEnd(seeki) /\ WalkGoesOn(At(b, n)) /\ Empty(Walk(At(b, n))) = {}
<1> DEFINE W == Walk(At(b, n))
           E == Empty(W)
<1>1. CASE E = {}
  <2>1. seeki \in {e \in Overrun : /\ WalkGoesOn(At(b, n)) /\ e + DIR_SIZE \in Overrun
                                   /\ Empty(Overrun) # {} /\ e = Min(Empty(Overrun))}
    BY <1>1 DEF EndOf
  <2>2. seeki \in Overrun /\ seeki + DIR_SIZE \in Overrun /\ seeki = Min(Empty(Overrun))
    BY <2>1
  <2>3. Empty(Overrun) \in SUBSET Nat /\ Empty(Overrun) # {}
    BY <2>1, OverrunPlace DEF Empty
  <2>4. seeki \in Empty(Overrun) /\ \A y \in Empty(Overrun) : seeki <= y
    BY <2>2, <2>3, MinOfNats
  <2>5. OverrunEnd(seeki)
    BY <2>2, <2>4 DEF OverrunEnd, Empty
  <2> QED
    BY <1>1, <2>1, <2>5
<1>2. CASE E # {}
  <2>1. seeki = Min(E)
    BY <1>2 DEF EndOf
  <2>2. W = {At(b, m) : m \in n .. Slots - 1}
    BY WalkAt
  <2>3. Slots \in Nat /\ n \in Nat
    BY Geometry
  <2>4. \A m \in n .. Slots - 1 : m \in 0 .. Slots - 1 /\ At(b, m) \in Nat
    BY <2>3, Place
  <2>5. E = {x \in W : disk[x].name = ""}
    BY DEF Empty
  <2>6. E \in SUBSET Nat
    BY <2>2, <2>4, <2>5
  <2>7. Min(E) \in E /\ \A y \in E : Min(E) <= y
    <3> HIDE DEF E
    <3> QED
      BY <1>2, <2>6, MinOfNats
  <2> HIDE DEF E, W
  <2>8. seeki \in W /\ disk[seeki].name = "" /\ \A y \in E : seeki <= y
    BY <2>1, <2>5, <2>7
  <2>9. PICK m \in n .. Slots - 1 : seeki = At(b, m)
    BY <2>2, <2>8
  <2>10. ASSUME NEW j \in n .. m - 1
         PROVE  disk[At(b, j)].name # ""
    <3>1. j \in n .. Slots - 1 /\ j < m /\ m \in Nat /\ j \in Nat
      BY <2>3
    <3>2. At(b, j) < At(b, m)
      <4>1. b * block_size \in Nat
        BY Geometry
      <4> QED
        BY <3>1, <4>1 DEF At, DIR_SIZE
    <3>3. At(b, j) \in W
      BY <2>2, <3>1
    <3>4. At(b, j) \in Nat /\ At(b, m) \in Nat
      BY <2>4, <3>1
    <3>5. At(b, j) \notin E
      <4>1. PICK y \in Nat, z \in Nat : y = At(b, j) /\ z = At(b, m) /\ y < z
        BY <3>2, <3>4
      <4>2. ~ z <= y
        BY <4>1
      <4> QED
        BY <2>8, <2>9, <4>1, <4>2
    <3> QED
      BY <2>5, <3>3, <3>5
  <2> QED
    BY <2>8, <2>9, <2>10
<1> QED
  BY <1>1, <1>2
-----------------------------------------------------------------------------
(* What the callbacks leave of the disk.                                    *)

\* A header of the example tree is not empty, and is in its two blocks.
LEMMA TreeHeader ==
  ASSUME DiskInv(disk), NEW x \in ExampleAddr
  PROVE  /\ x \in Addr /\ disk[x].name # "" /\ BlockOf(x) \in {k + 1, k + 3}
         /\ x \in Nat \ {0}
<1>1. x \in {At(k + 1, 0), At(k + 1, 1), At(k + 1, 2), At(k + 1, 3),
             At(k + 3, 0), At(k + 3, 1)}
  BY SixHeaders
<1>2. WriteExample(disk)[x].name # ""
  <2>1. PICK h : h = WriteExample(disk)[x]
    OBVIOUS
  <2>2. h \in {Directory("root", k + 1), Header("hello", HelloLength, k + 2, FLAG_F),
               Directory("empty_sub_dir", 0), Directory("sub_dir", k + 3),
               Directory("..", k + 1), Directory("sub_sub_dir", 0)}
    BY <1>1, <2>1, ExampleFacts
  <2>3. h.name \in {"root", "hello", "empty_sub_dir", "sub_dir", "..", "sub_sub_dir"}
    BY <2>2 DEF Directory, Header
  <2> QED
    BY <2>1, <2>3
<1>3. disk[x].name # ""
  BY <1>2 DEF DiskInv, Same
<1>4. PICK b \in {k + 1, k + 3}, n \in 0 .. Slots - 1 : x = At(b, n)
  <2>1. {0, 1, 2, 3} \subseteq 0 .. Slots - 1
    BY Geometry
  <2> QED
    BY <1>1, <2>1
<1>5. b \in Nat /\ b # 0 /\ b \in Blocky
  BY Geometry DEF Blocky
<1>6. BlockOf(x) = b /\ x \in Nat \ {0}
  BY <1>4, <1>5, Place
<1> QED
  BY <1>3, <1>4, <1>5, <1>6, InAddr

\* The tree stays when none of its headers is written.
LEMMA TreeStays ==
  ASSUME DiskInv(disk), NEW g, \A x \in ExampleAddr : Same(g[x], disk[x])
  PROVE  \A x \in ExampleAddr : Same(g[x], WriteExample(g)[x])
<1> SUFFICES ASSUME NEW x \in ExampleAddr
             PROVE  Same(g[x], WriteExample(g)[x])
  OBVIOUS
<1>1. Same(g[x], disk[x]) /\ Same(disk[x], WriteExample(disk)[x])
  BY DEF DiskInv
<1>2. WriteExample(g)[x] = WriteExample(disk)[x]
  BY ExampleSame
<1> QED
  BY <1>1, <1>2 DEF Same

LEMMA NewDirectory ==
  ASSUME TableKept, NEW name \in Name
  PROVE  Directory(name, new_block) \in Headers /\ name # ""
<1>1. new_block \in Blocky
  BY NewBlock, Geometry DEF Blocky
<1> QED
  BY <1>1, FatFsAssumption DEF Directory, Header, Headers, DIR_SIZE, Reserved

\* The m-th header of block b is its first empty one.
FirstEmpty(b, m) ==
  /\ disk[At(b, m)].name = ""
  /\ \A j \in 0 .. m - 1 : disk[At(b, j)].name # ""

\* The new header takes the end mark of the root or of sub_dir; the new end
\* mark is behind it, for the last header of a block in the next block.  That
\* is hello's when the root becomes full.
LEMMA MkdirInTree ==
  ASSUME DiskInv(disk), TableKept, NEW name \in Name, NEW b \in {k + 1, k + 3},
         NEW m \in 0 .. Slots - 1, FirstEmpty(b, m)
  PROVE  DiskInv(mkdir_disk(At(b, m), name))
<1> DEFINE a == At(b, m)
           h == Directory(name, new_block)
           w == WriteHeader(disk, a, h)
           e == a + DIR_SIZE
           g == WriteEnd(w, e)
<1>1. /\ k \in Nat \ {0} /\ Slots \in Nat /\ Slots >= 6 /\ b \in Nat \ {0} /\ b \in Blocky
      /\ k + 1 \in Blocky \cap Nat
      /\ b # k + 2 /\ (b + 1 = k + 2 => b = k + 1)
  BY Geometry DEF Blocky
<1>2. PICK c \in {b, b + 1}, j \in 0 .. Slots - 1 :
        /\ e = At(c, j)
        /\ c = b => j = m + 1
        /\ c # b => j = 0 /\ m = Slots - 1
  <2>1. CASE m < Slots - 1
    <3>1. e = At(b, m + 1) /\ m + 1 \in 0 .. Slots - 1
      BY <1>1, <2>1, Place
    <3> QED
      BY <3>1
  <2>2. CASE m = Slots - 1
    <3>1. e = At(b + 1, 0) /\ 0 \in 0 .. Slots - 1 /\ b + 1 # b
      BY <1>1, <2>2, Place
    <3> QED
      BY <2>2, <3>1
  <2> QED
    BY <1>1, <2>1, <2>2
<1>3. c \in Blocky /\ c \in Nat \ {0}
  BY <1>1 DEF Blocky
<1>4. /\ a \in Addr /\ Covered(a) = {} /\ BlockOf(a) = b /\ a # 0
      /\ e \in Addr /\ Covered(e) = {} /\ BlockOf(e) = c /\ e # 0
  <2>1. a \in Addr /\ e \in Addr
    BY <1>1, <1>2, <1>3, InAddr
  <2>2. Covered(a) = {}
    BY <1>1, CoveredAt
  <2>3. Covered(e) = {}
    BY <1>2, <1>3, CoveredAt
  <2>4. BlockOf(a) = b /\ a # 0
    BY <1>1, Place
  <2>5. BlockOf(e) = c /\ e # 0
    BY <1>2, <1>3, Place
  <2> QED
    BY <2>1, <2>2, <2>3, <2>4, <2>5
<1>5. a # e
  <2>1. a \in Nat
    BY <1>1, Place
  <2> QED
    BY <2>1 DEF DIR_SIZE
<1>6. h \in Headers /\ name # "" /\ h.name = name
  BY NewDirectory DEF Directory, Header
<1>7. disk \in [Addr -> Headers] /\ disk[a].name = ""
  BY DEF DiskInv, FirstEmpty
<1>8. mkdir_disk(a, name) = g
  BY DEF mkdir_disk
<1>9. /\ a \notin ExampleAddr /\ e \notin ExampleAddr
  <2>1. a \notin ExampleAddr
    BY <1>7, TreeHeader
  <2>2. ASSUME NEW d \in {k + 1, k + 3}, NEW n \in 0 .. 3,
               d = k + 3 => n \in 0 .. 1, e = At(d, n)
        PROVE  FALSE
    <3>1. d \in Nat /\ n \in 0 .. Slots - 1
      BY <1>1
    <3>2. d = c /\ n = j
      BY <1>2, <1>3, <2>2, <3>1, OnePlace
    <3>3. c = b /\ j = m + 1
      BY <1>1, <1>2, <3>2
    <3>4. m \in 0 .. 3 /\ (b = k + 3 => m \in 0 .. 1)
      BY <1>1, <2>2, <3>2, <3>3
    <3>5. a \in ExampleAddr
      BY <3>4 DEF ExampleAddr
    <3> QED
      BY <2>1, <3>5
  <2> QED
    BY <1>1, <2>1, <2>2 DEF ExampleAddr
<1>10. 0 \in Addr
  BY ZeroAddr
<1> HIDE DEF a, h, e
<1>11. /\ w \in [Addr -> Headers]
       /\ w[a] = h
       /\ \A x \in Addr : x # a => w[x] = disk[x]
  <2>1. w \in [Addr -> Headers]
    BY <1>4, <1>6, <1>7, WriteFacts
  <2>2. w[a] = h /\ \A x \in Addr : x # a => w[x] = disk[x]
    BY <1>4 DEF WriteHeader
  <2> QED
    BY <2>1, <2>2
<1> HIDE DEF w
<1>12. /\ g \in [Addr -> Headers]
       /\ \A x \in Addr : x # e => g[x] = w[x]
       /\ \A x \in Addr : g[x].flag = w[x].flag
  BY <1>4, <1>11, EndFacts
<1> HIDE DEF g
<1>13. \A x \in Addr : x \notin {a, e} => g[x] = disk[x]
  BY <1>11, <1>12
<1>14. FlagsOK(g)
  <2> SUFFICES ASSUME NEW x \in Addr, g[x].flag = FLAG_D
               PROVE  x \in Overrun \/ InTree(x)
    BY DEF FlagsOK
  <2>1. CASE x = a
    BY <2>1 DEF InTree, a
  <2>2. CASE x # a
    <3>1. disk[x].flag = FLAG_D
      BY <1>11, <1>12, <2>2
    <3> QED
      BY <3>1 DEF DiskInv, FlagsOK
  <2> QED
    BY <2>1, <2>2
<1>15. \A x \in ExampleAddr : Same(g[x], WriteExample(g)[x])
  <2>1. \A x \in ExampleAddr : g[x] = disk[x]
    BY <1>9, <1>13, TreeHeader
  <2> QED
    BY <2>1, TreeStays DEF Same
<1>16. g[0].name = "superblock"
  BY <1>4, <1>10, <1>13 DEF DiskInv
<1>17. ASSUME NEW n \in 0 .. Slots - 1, g[At(k + 1, n)].name = "",
              NEW x \in Addr, BlockOf(x) = k + 2
       PROVE  g[x] = Text
  <2>1. x # a
    <3>1. BlockOf(x) # b
      BY <1>1, <1>17
    <3> QED
      BY <1>4, <3>1
  <2>2. At(k + 1, n) \in Addr /\ BlockOf(At(k + 1, n)) = k + 1
    BY <1>1, InAddr, Place
  <2>3. \E y \in 0 .. Slots - 1 : disk[At(k + 1, y)].name = ""
    <3>1. CASE b = k + 1
      BY <1>7, <3>1 DEF a
    <3>2. CASE b # k + 1
      <4>1. At(k + 1, n) \notin {a, e}
        BY <1>1, <1>4, <2>2, <3>2
      <4> QED
        BY <1>13, <1>17, <2>2, <4>1
    <3> QED
      BY <3>1, <3>2
  <2>4. disk[x] = Text
    BY <1>17, <2>3 DEF DiskInv
  <2>5. x # e
    <3> SUFFICES ASSUME x = e PROVE FALSE
      OBVIOUS
    <3>1. b = k + 1 /\ c # b /\ m = Slots - 1
      <4>1. c = k + 2
        BY <1>4, <1>17
      <4> QED
        BY <1>1, <1>2, <4>1
    <3>2. CASE n = m
      <4>1. g[a] = h
        BY <1>4, <1>5, <1>11, <1>12
      <4> QED
        BY <1>6, <1>17, <3>1, <3>2, <4>1 DEF a
    <3>3. CASE n # m
      <4>1. n \in 0 .. m - 1
        BY <1>1, <3>1, <3>3
      <4>2. disk[At(k + 1, n)].name # ""
        BY <3>1, <4>1 DEF FirstEmpty
      <4>3. At(k + 1, n) # a
        BY <1>7, <4>2
      <4>4. At(k + 1, n) # e
        BY <1>4, <2>2, <3>1
      <4> QED
        BY <1>13, <1>17, <2>2, <4>2, <4>3, <4>4
    <3> QED
      BY <3>2, <3>3
  <2> QED
    BY <1>13, <2>1, <2>4, <2>5
<1> QED
  BY <1>8, <1>12, <1>14, <1>15, <1>16, <1>17 DEF DiskInv, a

\* What a write after -2 changes is in block 0, and not the superblock.
LEMMA OverrunWrites ==
  ASSUME NEW e \in Overrun
  PROVE  \A x \in {e} \cup Covered(e) : BlockOf(x) = 0 /\ x # 0
<1>1. e \in Nat \ {0} /\ BlockOf(e) = 0
  BY OverrunPlace
<1>2. PICK n \in 1 .. Slots - 1 : Covered(e) = {At(0, n)}
  BY OverrunPlace
<1>3. 0 \in Nat /\ n \in 0 .. Slots - 1 /\ n # 0
  BY Geometry
<1>4. BlockOf(At(0, n)) = 0 /\ At(0, n) # 0
  BY <1>3, Place
<1> QED
  BY <1>1, <1>2, <1>4

\* Past a full root mkdir writes over block 0, and spares the superblock.
LEMMA MkdirOverrun ==
  ASSUME DiskInv(disk), TableKept, NEW name \in Name, NEW a \in Overrun, a + DIR_SIZE \in Overrun
  PROVE  DiskInv(mkdir_disk(a, name))
<1> DEFINE h == Directory(name, new_block)
           w == WriteHeader(disk, a, h)
           e == a + DIR_SIZE
           g == WriteEnd(w, e)
<1>1. mkdir_disk(a, name) = g
  BY DEF mkdir_disk
<1>2. h \in Headers /\ disk \in [Addr -> Headers]
  BY NewDirectory DEF DiskInv
<1>3. a \in Addr /\ e \in Addr /\ e \in Overrun
  BY OverrunPlace
<1>4. /\ \A x \in {a} \cup Covered(a) : BlockOf(x) = 0 /\ x # 0
      /\ \A x \in {e} \cup Covered(e) : BlockOf(x) = 0 /\ x # 0
  BY <1>3, OverrunWrites
<1>5. 0 \in Addr /\ k \in Nat \ {0} /\ k + 1 # 0 /\ k + 2 # 0 /\ k + 3 # 0
      /\ k + 1 \in Blocky \cap Nat
  BY ZeroAddr, Geometry DEF Blocky
<1> HIDE DEF h, e
<1>6. /\ w \in [Addr -> Headers]
      /\ \A x \in Addr : x # a => w[x].flag = disk[x].flag
  <2>1. a \in Addr /\ h \in Headers /\ disk \in [Addr -> Headers]
    BY <1>2, <1>3
  <2> QED
    BY <2>1, WriteFacts
<1>7. \A x \in Addr : x \notin {a} \cup Covered(a) => w[x] = disk[x]
  BY DEF WriteHeader
<1> HIDE DEF w
<1>8. /\ g \in [Addr -> Headers]
      /\ \A x \in Addr : g[x].flag = w[x].flag
  BY <1>2, <1>3, <1>6, WriteFacts
<1>9. \A x \in Addr : x \notin {e} \cup Covered(e) => g[x] = w[x]
  BY DEF WriteEnd
<1> HIDE DEF g
<1>10. \A x \in Addr : BlockOf(x) # 0 \/ x = 0 => g[x] = disk[x]
  BY <1>4, <1>7, <1>9
<1>11. FlagsOK(g)
  <2> SUFFICES ASSUME NEW x \in Addr, g[x].flag = FLAG_D
               PROVE  x \in Overrun \/ InTree(x)
    BY DEF FlagsOK
  <2>1. CASE x = a
    BY <2>1
  <2>2. CASE x # a
    <3>1. disk[x].flag = FLAG_D
      BY <1>6, <1>8, <2>2
    <3> QED
      BY <3>1 DEF DiskInv, FlagsOK
  <2> QED
    BY <2>1, <2>2
<1>12. \A x \in ExampleAddr : Same(g[x], WriteExample(g)[x])
  <2>1. \A x \in ExampleAddr : g[x] = disk[x]
    <3> SUFFICES ASSUME NEW x \in ExampleAddr
                 PROVE  g[x] = disk[x]
      OBVIOUS
    <3>1. x \in Addr /\ BlockOf(x) \in {k + 1, k + 3}
      BY TreeHeader
    <3>2. BlockOf(x) # 0
      BY <1>5, <3>1
    <3> QED
      BY <1>10, <3>1, <3>2
  <2> QED
    BY <2>1, TreeStays DEF Same
<1>13. g[0].name = "superblock"
  BY <1>5, <1>10 DEF DiskInv
<1>14. ASSUME NEW n \in 0 .. Slots - 1, g[At(k + 1, n)].name = "",
              NEW x \in Addr, BlockOf(x) = k + 2
       PROVE  g[x] = Text
  <2>1. At(k + 1, n) \in Addr /\ BlockOf(At(k + 1, n)) = k + 1
    BY <1>5, InAddr, Place
  <2>2. disk[At(k + 1, n)].name = ""
    BY <1>5, <1>10, <1>14, <2>1
  <2>3. disk[x] = Text
    BY <1>14, <2>2 DEF DiskInv
  <2> QED
    BY <1>5, <1>10, <1>14, <2>3
<1> QED
  BY <1>1, <1>8, <1>11, <1>12, <1>13, <1>14 DEF DiskInv

\* The table tells a walk to go on after the root, and to end after sub_dir.
LEMMA AfterBlocks ==
  ASSUME TableKept
  PROVE  fat[k + 2] # 0 /\ fat[k + 4] = 0
<1>1. k + 2 \in k + 1 .. k + 3
  BY Geometry
<1> QED
  BY <1>1, TableRead DEF FREE_BLOCK, FLAG_LAST

\* Past a full sub_dir mkdir writes over entries that are not looked at.
LEMMA TableStays ==
  ASSUME TableKept, fat' = mkdir_table(k + 3)
  PROVE  TableKept'
<1>1. Overwritten' = Overwritten /\ Marked(FatTable(num_blocks))' = Marked(FatTable(num_blocks))
  BY DEF Overwritten, Marked
<1>2. DOMAIN fat' = DOMAIN fat
  BY DEF mkdir_table
<1>3. DOMAIN fat \subseteq Int /\ k \in Nat
  BY TableRead, Geometry
<1>4. ASSUME NEW e \in DOMAIN fat, e \notin Overwritten
      PROVE  fat'[e] = fat[e]
  <2>1. PICK w \in Int : w = e - (k + 3 + 1 + NameWords)
    BY <1>3 DEF NameWords
  <2>2. e = k + 4 + NameWords + w
    BY <1>3, <2>1 DEF NameWords
  <2>3. w \notin 0 .. HeaderWords + NameWords - 1
    BY <1>4, <2>2 DEF Overwritten
  <2>4. HeaderWords = 16 /\ NameWords = 6
    BY DEF HeaderWords, NameWords, DIR_SIZE, BLOCK_PTR_SIZE
  <2> QED
    BY <2>1, <2>3, <2>4 DEF mkdir_table
<1> QED
  BY <1>1, <1>2, <1>4 DEF TableKept

\* The table depends on nothing else.
LEMMA TableSame ==
  ASSUME TableKept, fat' = fat
  PROVE  TableKept'
BY DEF TableKept, Marked, Overwritten

\* A mount writes the same entries again.
LEMMA MarkedKept ==
  ASSUME TableKept \/ fat = FatTable(num_blocks), fat' = Marked(fat)
  PROVE  TableKept'
<1> DEFINE left == Marked(FatTable(num_blocks))
<1>1. Overwritten' = Overwritten /\ left' = left
  BY DEF Overwritten, Marked
<1>2. DOMAIN fat' = DOMAIN fat /\ DOMAIN left = DOMAIN FatTable(num_blocks)
  BY DEF Marked
<1>3. ASSUME NEW b \in DOMAIN fat
      PROVE  fat'[b] = IF b \in k + 1 .. k + 3 THEN FLAG_LAST ELSE fat[b]
  BY DEF Marked
<1>4. CASE TableKept
  <2>1. DOMAIN fat = DOMAIN left /\ \A b \in DOMAIN fat \ Overwritten : fat[b] = left[b]
    BY <1>4 DEF TableKept
  <2>2. \A b \in DOMAIN left : b \in k + 1 .. k + 3 => left[b] = FLAG_LAST
    BY DEF Marked
  <2> HIDE DEF left
  <2> QED
    BY <1>1, <1>2, <1>3, <2>1, <2>2 DEF TableKept, left
<1>5. CASE fat = FatTable(num_blocks)
  BY <1>1, <1>2, <1>5 DEF TableKept
<1> QED
  BY <1>4, <1>5

RootFull(d) == \A n \in 1 .. Slots - 1 : d[At(k + 1, n)].name # ""

\* mkdir has run out of sub_dir: it writes into the table and makes nothing.
IntoTable(parent) ==
  /\ WalkStops(ParentSeek(parent))
  /\ fat' = mkdir_table(k + 3) /\ disk' = disk

\* Where mkdir makes the directory: at the first empty header of the root or
\* of sub_dir, or past a full root; but not past a full sub_dir.
LEMMA MkdirPlace ==
  ASSUME DiskInv(disk), TableKept, NEW parent \in Parents, NEW name \in Name,
         f32_mkdir(parent, name)
  PROVE  \/ IntoTable(parent)
         \/ \E seeki :
              /\ disk' = mkdir_disk(seeki, name) /\ fat' = fat
              /\ \/ \E b \in {k + 1, k + 3} : \E m \in 1 .. Slots - 1 :
                      seeki = At(b, m) /\ FirstEmpty(b, m)
                 \/ OverrunEnd(seeki) /\ RootFull(disk)
<1>1. IsDirectory(parent)
  BY DEF f32_mkdir
<1>2. CASE /\ WalkStops(ParentSeek(parent)) /\ disk' = disk
           /\ fat' = mkdir_table(BlockOf(ParentSeek(parent)))
  <2>1. PICK b \in {k + 1, k + 3}, n \in 0 .. Slots - 1 : ParentSeek(parent) = At(b, n)
    BY <1>1, ParentFacts
  <2>2. b \in Nat /\ (k + 1) + 1 = k + 2
    BY Geometry
  <2>3. BlockOf(At(b, n)) = b
    BY <2>2, Place
  <2>4. fat[b + 1] = 0
    BY <1>2, <2>1, <2>3 DEF WalkStops
  <2>5. b = k + 3
    BY <2>2, <2>4, AfterBlocks
  <2> QED
    BY <1>2, <2>1, <2>3, <2>5 DEF IntoTable
<1>3. CASE \E seeki \in EndOf(ParentSeek(parent)) : disk' = mkdir_disk(seeki, name) /\ fat' = fat
  <2>1. PICK seeki \in EndOf(ParentSeek(parent)) : disk' = mkdir_disk(seeki, name) /\ fat' = fat
    BY <1>3
  <2>2. PICK b \in {k + 1, k + 3}, n \in 0 .. Slots - 1 :
          ParentSeek(parent) = At(b, n) /\ Unended(b, n)
    BY <1>1, ParentFacts
  <2>3. b \in Nat /\ Slots \in Nat
    BY Geometry
  <2>4. CASE OverrunEnd(seeki) /\ WalkGoesOn(At(b, n)) /\ Empty(Walk(At(b, n))) = {}
    <3>1. BlockOf(At(b, n)) = b
      BY <2>3, Place
    <3>2. b = k + 1
      <4>1. fat[b + 1] # 0
        BY <2>4, <3>1 DEF WalkGoesOn
      <4>2. (k + 3) + 1 = k + 4
        BY Geometry
      <4> QED
        BY <4>1, <4>2, AfterBlocks
    <3>3. Walk(At(b, n)) = {At(b, m) : m \in n .. Slots - 1}
      BY <2>3, WalkAt
    <3>4. \A m \in n .. Slots - 1 : disk[At(b, m)].name # ""
      BY <2>4, <3>3 DEF Empty
    <3>5. ASSUME NEW m \in 1 .. Slots - 1
          PROVE  disk[At(k + 1, m)].name # ""
      <4>1. m \in 1 .. n \/ m \in n .. Slots - 1
        BY <2>3
      <4> QED
        BY <2>2, <3>2, <3>4, <4>1 DEF Unended
    <3>6. RootFull(disk)
      BY <3>5 DEF RootFull
    <3> QED
      BY <2>1, <2>4, <3>6
  <2>5. ASSUME NEW m \in n .. Slots - 1, seeki = At(b, m), disk[seeki].name = "",
               \A j \in n .. m - 1 : disk[At(b, j)].name # ""
        PROVE  m \in 1 .. Slots - 1 /\ FirstEmpty(b, m)
    <3>1. m \in 0 .. Slots - 1 /\ n \in Nat /\ m \in Nat
      BY <2>3
    <3>2. disk[At(b, 0)].name # ""
      <4>1. At(b, 0) \in ExampleAddr
        BY DEF ExampleAddr
      <4> QED
        BY <4>1, TreeHeader
    <3>3. ASSUME NEW j \in 0 .. m - 1
          PROVE  disk[At(b, j)].name # ""
      <4>1. j = 0 \/ j \in 1 .. n \/ j \in n .. m - 1
        BY <3>1
      <4>2. CASE j \in 1 .. n
        BY <2>2, <4>2 DEF Unended
      <4> QED
        BY <2>5, <3>2, <4>1, <4>2
    <3>4. FirstEmpty(b, m)
      BY <2>5, <3>3 DEF FirstEmpty
    <3>5. m # 0
      BY <2>5, <3>2
    <3> QED
      BY <3>1, <3>4, <3>5
  <2>6. CASE \E m \in n .. Slots - 1 :
               /\ seeki = At(b, m) /\ disk[seeki].name = ""
               /\ \A j \in n .. m - 1 : disk[At(b, j)].name # ""
    <3>1. PICK m \in n .. Slots - 1 :
               /\ seeki = At(b, m) /\ disk[seeki].name = ""
               /\ \A j \in n .. m - 1 : disk[At(b, j)].name # ""
      BY <2>6
    <3>2. m \in 1 .. Slots - 1 /\ FirstEmpty(b, m)
      BY <2>5, <3>1
    <3> QED
      BY <2>1, <3>1, <3>2
  <2>7. seeki \in EndOf(At(b, n))
    BY <2>1, <2>2
  <2> QED
    BY <2>3, <2>4, <2>6, <2>7, EndOfFacts
<1> QED
  BY <1>2, <1>3 DEF f32_mkdir

\* Making a directory.
LEMMA MkdirInv ==
  ASSUME DiskInv(disk), TableKept, NEW parent \in Parents, NEW name \in Name,
         f32_mkdir(parent, name)
  PROVE  DiskInv(disk') /\ TableKept'
<1>1. CASE IntoTable(parent)
  BY <1>1, TableStays DEF IntoTable
<1>2. ASSUME NEW seeki, disk' = mkdir_disk(seeki, name), fat' = fat,
             \/ \E b \in {k + 1, k + 3} : \E m \in 1 .. Slots - 1 :
                  seeki = At(b, m) /\ FirstEmpty(b, m)
             \/ OverrunEnd(seeki) /\ RootFull(disk)
      PROVE  DiskInv(disk') /\ TableKept'
  <2>1. ASSUME OverrunEnd(seeki)
        PROVE  DiskInv(disk')
    BY <1>2, <2>1, MkdirOverrun DEF OverrunEnd
  <2>2. ASSUME NEW b \in {k + 1, k + 3}, NEW m \in 1 .. Slots - 1,
               seeki = At(b, m), FirstEmpty(b, m)
        PROVE  DiskInv(disk')
    <3>1. m \in 0 .. Slots - 1
      BY Geometry
    <3> QED
      BY <1>2, <2>2, <3>1, MkdirInTree
  <2>3. TableKept'
    BY <1>2, TableSame
  <2> QED
    BY <1>2, <2>1, <2>2, <2>3
<1> QED
  BY <1>1, <1>2, MkdirPlace

\* Users write inside hello's block: the code does not hold them to it.
InsideBlock == Offsets \subseteq 0 .. Slots - 1

\* A write inside hello's block is to its data and to the length in its header.
LEMMA WriteInv ==
  ASSUME InsideBlock, DiskInv(disk), fh \in {-1, At(k + 1, 1)},
         NEW slot \in Offsets, f32_write(slot)
  PROVE  DiskInv(disk')
<1> DEFINE a == At(k + 2, slot)
           r == At(k + 1, 1)
           w == WriteHeader(disk, a, Text)
           len == disk[r].flen + DIR_SIZE
           g == [w EXCEPT ![r].flen = len]
<1>1. /\ {0, k + 1, k + 2} \subseteq Blocky \cap Nat /\ k \in Nat \ {0}
      /\ 1 \in 0 .. Slots - 1 /\ slot \in 0 .. Slots - 1
      /\ At(k + 1, 1) \in ExampleAddr
  BY Geometry DEF Blocky, ExampleAddr, InsideBlock
<1>2. fh = r
  BY DEF f32_write
<1>3. disk \in [Addr -> Headers] /\ disk[r].sblock = k + 2
  <2>1. Same(disk[r], WriteExample(disk)[r])
    BY <1>1 DEF DiskInv
  <2>2. WriteExample(disk)[r].sblock = k + 2
    <3>1. WriteExample(disk)[r] = Header("hello", HelloLength, k + 2, FLAG_F)
      BY ExampleFacts
    <3> QED
      BY <3>1 DEF Header
  <2> QED
    BY <2>1, <2>2 DEF DiskInv, Same
<1>4. disk' = g
  BY <1>2, <1>3 DEF f32_write
<1>5. /\ a \in Addr /\ Covered(a) = {} /\ BlockOf(a) = k + 2 /\ a # 0
      /\ r \in Addr /\ BlockOf(r) = k + 1 /\ r # 0 /\ k + 1 # k + 2
  <2>1. a \in Addr /\ r \in Addr
    BY <1>1, InAddr
  <2>2. Covered(a) = {}
    BY <1>1, CoveredAt
  <2>3. BlockOf(a) = k + 2 /\ BlockOf(r) = k + 1 /\ a # 0 /\ r # 0
    BY <1>1, Place
  <2> QED
    BY <1>1, <2>1, <2>2, <2>3
<1>6. Text \in Headers /\ Text.flag = FLAG_F /\ FLAG_F # FLAG_D
  BY <1>1 DEF Text, Header, Headers, Reserved, FLAG_F, FLAG_D
<1>7. 0 \in Addr
  BY ZeroAddr
<1>8. len \in Nat
  BY <1>3, <1>5 DEF Headers, DIR_SIZE
<1> HIDE DEF a, r, len
<1>9. w \in [Addr -> Headers]
  BY <1>3, <1>5, <1>6, WriteFacts
<1>10. w[a] = Text /\ \A x \in Addr : x # a => w[x] = disk[x]
  BY <1>5 DEF WriteHeader
<1> HIDE DEF w
<1>11. /\ \A x \in Addr : x # r => g[x] = w[x]
       /\ g[r] = [w[r] EXCEPT !.flen = len]
       /\ g = [x \in Addr |-> g[x]]
  BY <1>5, <1>9
<1>12. PICK h \in Headers : h = w[r]
  BY <1>5, <1>9
<1>13. g[r] \in Headers /\ Same(g[r], w[r])
  <2>1. [h EXCEPT !.flen = len] \in Headers /\ Same([h EXCEPT !.flen = len], h)
    BY <1>8, <1>12 DEF Headers, Same
  <2> QED
    BY <1>11, <1>12, <2>1
<1> HIDE DEF g
<1>14. g \in [Addr -> Headers]
  <2>1. \A x \in Addr : g[x] \in Headers
    BY <1>9, <1>11, <1>13
  <2> QED
    BY <1>11, <2>1
<1>15. \A x \in Addr : x # a => Same(g[x], disk[x])
  BY <1>10, <1>11, <1>13 DEF Same
<1>16. g[a] = Text
  <2>1. a # r
    BY <1>5
  <2> QED
    BY <1>5, <1>10, <1>11, <2>1
<1>17. FlagsOK(g)
  <2> SUFFICES ASSUME NEW x \in Addr, g[x].flag = FLAG_D
               PROVE  x \in Overrun \/ InTree(x)
    BY DEF FlagsOK
  <2>1. x # a
    BY <1>6, <1>16
  <2> QED
    BY <1>15, <2>1 DEF DiskInv, FlagsOK, Same
<1>18. \A x \in ExampleAddr : Same(g[x], WriteExample(g)[x])
  <2>1. ASSUME NEW x \in ExampleAddr
        PROVE  Same(g[x], disk[x])
    <3>1. x \in Addr /\ BlockOf(x) \in {k + 1, k + 3}
      BY TreeHeader
    <3>2. k + 1 # k + 2 /\ k + 3 # k + 2
      BY <1>1
    <3> QED
      BY <1>5, <1>15, <3>1, <3>2
  <2> QED
    BY <2>1, TreeStays
<1>19. g[0].name = "superblock"
  BY <1>5, <1>7, <1>15 DEF DiskInv, Same
<1>20. ASSUME NEW n \in 0 .. Slots - 1, g[At(k + 1, n)].name = "",
              NEW x \in Addr, BlockOf(x) = k + 2
       PROVE  g[x] = Text
  <2>1. At(k + 1, n) \in Addr /\ BlockOf(At(k + 1, n)) = k + 1
    BY <1>1, InAddr, Place
  <2>2. At(k + 1, n) # a
    BY <1>5, <2>1
  <2>3. disk[At(k + 1, n)].name = ""
    BY <1>15, <1>20, <2>1, <2>2 DEF Same
  <2>4. disk[x] = Text
    BY <1>20, <2>3 DEF DiskInv
  <2>5. x # r
    BY <1>5, <1>20
  <2> QED
    BY <1>10, <1>11, <1>16, <2>4, <2>5
<1> QED
  BY <1>4, <1>14, <1>17, <1>18, <1>19, <1>20 DEF DiskInv

\* The invariant of the mounted file system.
FsInv == DiskInv(disk) /\ TableKept /\ fh \in {-1, At(k + 1, 1)}

\* What the formatter leaves for the first mount.
LEMMA FormattedFacts ==
  /\ Formatted \in [Addr -> Headers] /\ FlagsOK(Formatted)
  /\ Formatted[0].name = "superblock"
<1>1. [Blank EXCEPT !.name = "superblock"] \in Headers /\ Blank \in Headers
  <2>1. 0 \in Blocky /\ "superblock" \in Name \cup Reserved /\ "" \in Name \cup Reserved
    BY DEF Blocky, Reserved
  <2> QED
    BY <2>1 DEF Blank, Header, Headers, FLAG_F
<1>2. /\ [Blank EXCEPT !.name = "superblock"].flag = FLAG_F /\ Blank.flag = FLAG_F
      /\ [Blank EXCEPT !.name = "superblock"].name = "superblock"
  BY DEF Blank, Header
<1>3. 0 \in Addr
  BY ZeroAddr
<1>4. Formatted \in [Addr -> Headers]
  BY <1>1 DEF Formatted
<1>5. \A x \in Addr : Formatted[x].flag = FLAG_F
  BY <1>2 DEF Formatted
<1>6. Formatted[0].name = "superblock"
  BY <1>2, <1>3 DEF Formatted
<1>7. FlagsOK(Formatted)
  BY <1>5 DEF FlagsOK, FLAG_F, FLAG_D
<1> QED
  BY <1>4, <1>6, <1>7

LEMMA FsInitInv == Init => FsInv
<1> SUFFICES ASSUME Init PROVE FsInv
  OBVIOUS
<1>1. DiskInv(disk) /\ fh = -1
  BY FormattedFacts, MountInv DEF Init
<1>2. TableKept
  BY DEF Init, TableKept
<1> QED
  BY <1>1, <1>2 DEF FsInv

LEMMA FsNextInv ==
  ASSUME InsideBlock
  PROVE  FsInv /\ [Next]_vars => FsInv'
<1> SUFFICES ASSUME FsInv, [Next]_vars PROVE FsInv'
  OBVIOUS
<1>1. DiskInv(disk) /\ TableKept /\ fh \in {-1, At(k + 1, 1)}
  BY DEF FsInv
<1>2. ASSUME NEW parent \in Parents, NEW name \in Name, f32_mkdir(parent, name)
      PROVE  FsInv'
  <2>1. fh' = fh
    BY <1>2 DEF f32_mkdir
  <2>2. DiskInv(disk') /\ TableKept'
    BY <1>1, <1>2, MkdirInv
  <2>3. fh' \in {-1, At(k + 1, 1)}
    BY <1>1, <2>1
  <2> QED
    BY <2>2, <2>3 DEF FsInv
<1>3. CASE f32_open
  <2>1. fh' = At(k + 1, 1) /\ disk' = disk /\ fat' = fat
    BY <1>1, <1>3, HelloFound DEF f32_open
  <2> QED
    BY <1>1, <2>1, TableSame DEF FsInv
<1>4. ASSUME NEW slot \in Offsets, f32_write(slot)
      PROVE  FsInv'
  <2>1. fh' = fh /\ fat' = fat
    BY <1>4 DEF f32_write
  <2>2. DiskInv(disk')
    BY <1>1, <1>4, WriteInv
  <2> QED
    BY <1>1, <2>1, <2>2, TableSame DEF FsInv
<1>5. CASE Mount
  <2>1. DiskInv(initroot(disk))
    BY <1>1, MountInv DEF DiskInv
  <2>2. TableKept'
    BY <1>1, <1>5, MarkedKept DEF Mount
  <2> QED
    BY <1>5, <2>1, <2>2 DEF Mount, FsInv
<1>6. CASE UNCHANGED vars
  BY <1>1, <1>6, TableSame DEF vars, FsInv
<1> QED
  BY <1>2, <1>3, <1>4, <1>5, <1>6 DEF Next

THEOREM FsInvariance ==
  ASSUME InsideBlock
  PROVE  Spec => []FsInv
<1>1. Init => FsInv
  BY FsInitInv
<1>2. FsInv /\ [Next]_vars => FsInv'
  BY FsNextInv
<1> QED
  BY <1>1, <1>2, PTL DEF Spec

\* The headers that the mount wrote stay, the superblock stays, the entries of the
\* table that are read stay, and hello's handle points to hello: whatever is made,
\* also past a full root and past a full sub_dir, and written in hello's block.
THEOREM ExampleIsKept ==
  ASSUME InsideBlock
  PROVE  Spec => []ExampleKept
<1>1. FsInv => ExampleKept
  <2> SUFFICES ASSUME FsInv PROVE ExampleKept
    OBVIOUS
  <2>1. ASSUME NEW x \in ExampleAddr
        PROVE  disk[x] = [WriteExample(disk)[x] EXCEPT !.flen = disk[x].flen]
    <3>1. x \in Addr
      BY TreeHeader DEF FsInv
    <3>2. disk[x] \in Headers
      BY <3>1 DEF FsInv, DiskInv
    <3>3. WriteExample(disk)[x] \in Headers
      <4>1. disk \in [Addr -> Headers] /\ FlagsOK(disk) /\ disk[0].name = "superblock"
        BY DEF FsInv, DiskInv
      <4> QED
        BY <3>1, <4>1, ExampleInv
    <3>4. Same(disk[x], WriteExample(disk)[x])
      BY DEF FsInv, DiskInv
    <3>5. ASSUME NEW h \in Headers, NEW g \in Headers, Same(h, g)
          PROVE  h = [g EXCEPT !.flen = h.flen]
      BY <3>5 DEF Headers, Same
    <3> QED
      BY <3>2, <3>3, <3>4, <3>5
  <2>2. disk[0].name = "superblock"
    BY DEF FsInv, DiskInv
  <2>3. fh # -1 => disk[fh].name = "hello" /\ disk[fh].flag = FLAG_F
    <3> SUFFICES ASSUME fh # -1
                 PROVE  disk[fh].name = "hello" /\ disk[fh].flag = FLAG_F
      OBVIOUS
    <3>1. fh = At(k + 1, 1) /\ fh \in ExampleAddr
      BY DEF FsInv, ExampleAddr
    <3>2. Same(disk[fh], WriteExample(disk)[fh])
      BY <3>1 DEF FsInv, DiskInv
    <3>3. WriteExample(disk)[fh] = Header("hello", HelloLength, k + 2, FLAG_F)
      BY <3>1, ExampleFacts
    <3> QED
      BY <3>2, <3>3 DEF Same, Header
  <2> QED
    BY <2>1, <2>2, <2>3 DEF ExampleKept, ExampleAddr, FsInv
<1> QED
  BY <1>1, FsInvariance, PTL

\* As long as the root's block has an empty header, hello's data is there.
THEOREM DataIsKept ==
  ASSUME InsideBlock
  PROVE  Spec => []DataKept
<1>1. FsInv => DataKept
  <2> SUFFICES ASSUME FsInv, Empty(Walk(At(starting_block, 0))) # {},
                      NEW x \in Addr, BlockOf(x) = k + 2
               PROVE  disk[x] = Text
    BY DEF DataKept
  <2>1. Walk(At(k + 1, 0)) = {At(k + 1, m) : m \in 0 .. Slots - 1}
    <3>1. k + 1 \in Nat /\ 0 \in 0 .. Slots - 1
      BY Geometry
    <3> QED
      BY <3>1, WalkAt
  <2>2. PICK y \in Walk(At(k + 1, 0)) : disk[y].name = ""
    BY DEF Empty, starting_block
  <2>3. \E n \in 0 .. Slots - 1 : disk[At(k + 1, n)].name = ""
    BY <2>1, <2>2
  <2> QED
    BY <2>3 DEF FsInv, DiskInv
<1> QED
  BY <1>1, FsInvariance, PTL
-----------------------------------------------------------------------------
(* What readdir passes.                                                     *)

\* The headers of block b from slot n to before the first empty one.
Run(d, b, n) ==
  {At(b, m) : m \in {m \in n .. Slots - 1 : \A j \in n .. m : d[At(b, j)].name # ""}}

\* The addresses after -2 before the first empty one.
OverrunRun(d) == {x \in Overrun : \A e \in Overrun : d[e].name = "" => x < e}

\* The same as Listed, of a disk d: the root past its own header, what follows
\* a full root, and sub_dir, which nothing follows.
ListedOn(d) ==
  Run(d, k + 1, 1) \cup Run(d, k + 3, 0)
    \cup (IF RootFull(d) THEN OverrunRun(d) ELSE {})

\* Addresses in a block are in the order of the slots.
LEMMA AtOrder ==
  ASSUME NEW b \in Nat, NEW m \in 0 .. Slots - 1, NEW n \in 0 .. Slots - 1
  PROVE  m < n <=> At(b, m) < At(b, n)
<1>1. b * block_size \in Nat /\ Slots \in Nat
  BY Geometry
<1> QED
  BY <1>1 DEF At, DIR_SIZE

\* What a walk passes in its own block.
LEMMA BlockRun ==
  ASSUME NEW b \in Nat, NEW n \in 0 .. Slots - 1
  PROVE  BeforeEnd(Walk(At(b, n))) = Run(disk, b, n)
<1>1. Walk(At(b, n)) = {At(b, m) : m \in n .. Slots - 1}
  BY WalkAt
<1>2. \A m \in n .. Slots - 1 : m \in 0 .. Slots - 1
  BY Geometry
<1>3. Empty(Walk(At(b, n))) = {x \in Walk(At(b, n)) : disk[x].name = ""}
  BY DEF Empty
<1>4. ASSUME NEW m \in n .. Slots - 1
      PROVE  (\A e \in Empty(Walk(At(b, n))) : At(b, m) < e)
               <=> (\A j \in n .. m : disk[At(b, j)].name # "")
  <2>1. ASSUME \A e \in Empty(Walk(At(b, n))) : At(b, m) < e,
               NEW j \in n .. m, disk[At(b, j)].name = ""
        PROVE  FALSE
    <3>1. j \in n .. Slots - 1 /\ ~ m < j
      BY Geometry
    <3>2. At(b, j) \in Empty(Walk(At(b, n)))
      BY <1>1, <1>3, <2>1, <3>1
    <3>3. At(b, m) < At(b, j)
      BY <2>1, <3>2
    <3> QED
      BY <1>2, <3>1, <3>3, AtOrder
  <2>2. ASSUME \A j \in n .. m : disk[At(b, j)].name # "",
               NEW e \in Empty(Walk(At(b, n)))
        PROVE  At(b, m) < e
    <3>1. PICK j \in n .. Slots - 1 : e = At(b, j)
      BY <1>1, <1>3
    <3>2. disk[At(b, j)].name = ""
      BY <1>3, <3>1
    <3>3. j \notin n .. m
      BY <2>2, <3>2
    <3>4. m < j
      BY <3>3, Geometry
    <3> QED
      BY <1>2, <3>1, <3>4, AtOrder
  <2> QED
    BY <2>1, <2>2
<1>5. BeforeEnd(Walk(At(b, n)))
        = {x \in Walk(At(b, n)) : \A e \in Empty(Walk(At(b, n))) : x < e}
  BY DEF BeforeEnd
<1>6. ASSUME NEW x
      PROVE  x \in BeforeEnd(Walk(At(b, n))) <=> x \in Run(disk, b, n)
  BY <1>1, <1>4, <1>5 DEF Run
<1> QED
  BY <1>6

LEMMA ListedIs ==
  ASSUME TableKept
  PROVE  Listed = ListedOn(disk)
<1>1. /\ k + 1 \in Nat /\ k + 3 \in Nat /\ 0 \in 0 .. Slots - 1 /\ 1 \in 0 .. Slots - 1
      /\ (k + 1) + 1 = k + 2 /\ (k + 3) + 1 = k + 4 /\ starting_block = k + 1
      /\ \A n \in 1 .. Slots - 1 : n \in 0 .. Slots - 1
  BY Geometry DEF starting_block
<1> DEFINE r == At(k + 1, 1)
           u == At(k + 3, 0)
<1>2. BlockOf(r) = k + 1 /\ BlockOf(u) = k + 3
  BY <1>1, Place
<1>3. ~ WalkGoesOn(u)
  BY <1>1, <1>2, AfterBlocks DEF WalkGoesOn
<1>4. WalkGoesOn(r) <=> RootFull(disk)
  <2>1. Walk(r) = {At(k + 1, n) : n \in 1 .. Slots - 1}
    BY <1>1, WalkAt
  <2>2. Empty(Walk(r)) = {} <=> RootFull(disk)
    BY <2>1 DEF Empty, RootFull
  <2> QED
    BY <1>1, <1>2, <2>2, AfterBlocks DEF WalkGoesOn
<1>5. BeforeEnd(Walk(r)) = Run(disk, k + 1, 1) /\ BeforeEnd(Walk(u)) = Run(disk, k + 3, 0)
  BY <1>1, BlockRun
<1>6. BeforeEnd(Overrun) = OverrunRun(disk)
  BY DEF BeforeEnd, Empty, OverrunRun
<1>7. Listed = Passed(r) \cup Passed(u)
  BY <1>1 DEF Listed
<1> HIDE DEF r, u
<1> QED
  BY <1>3, <1>4, <1>5, <1>6, <1>7 DEF Passed, ListedOn

\* What a mkdir in the root or in sub_dir leaves of what a walk looks at: all
\* but the new header and the slot behind it.
LEMMA MkdirSlots ==
  ASSUME DiskInv(disk), TableKept, NEW name \in Name, NEW b \in {k + 1, k + 3},
         NEW m \in 0 .. Slots - 1, NEW g, g = mkdir_disk(At(b, m), name)
  PROVE  /\ g[At(b, m)].name = name
         /\ \A d \in {k + 1, k + 3}, n \in 0 .. Slots - 1 :
              d # b \/ n \notin {m, m + 1} => g[At(d, n)] = disk[At(d, n)]
         /\ \A x \in Overrun : g[x] = disk[x]
<1> DEFINE a == At(b, m)
           h == Directory(name, new_block)
           e == a + DIR_SIZE
<1>1. /\ Slots \in Nat /\ b \in Nat /\ b \in Blocky /\ b + 1 \in Nat /\ b + 1 \in Blocky
      /\ b + 1 \notin {k + 1, k + 3} /\ 0 \in 0 .. Slots - 1
      /\ {k + 1, k + 3} \subseteq Blocky \cap Nat
  BY Geometry DEF Blocky
<1>2. PICK c \in {b, b + 1}, j \in 0 .. Slots - 1 :
        e = At(c, j) /\ (c = b => j = m + 1)
  <2>1. CASE m < Slots - 1
    <3>1. e = At(b, m + 1) /\ m + 1 \in 0 .. Slots - 1
      BY <1>1, <2>1, Place
    <3> QED
      BY <3>1
  <2>2. CASE m = Slots - 1
    <3>1. e = At(b + 1, 0) /\ b + 1 # b
      BY <1>1, <2>2, Place
    <3> QED
      BY <1>1, <3>1
  <2> QED
    BY <1>1, <2>1, <2>2
<1>3. c \in Nat /\ c \in Blocky
  BY <1>1
<1>4. Covered(a) = {} /\ Covered(e) = {}
  <2>1. Covered(a) = {}
    BY <1>1, CoveredAt
  <2>2. Covered(e) = {}
    BY <1>2, <1>3, CoveredAt
  <2> QED
    BY <2>1, <2>2
<1>5. a \in Addr /\ e \in Addr /\ a # e
  <2>1. a \in Addr /\ a \in Nat
    BY <1>1, InAddr, Place
  <2>2. e \in Addr
    BY <1>2, <1>3, InAddr
  <2> QED
    BY <2>1, <2>2 DEF DIR_SIZE
<1>6. g = WriteEnd(WriteHeader(disk, a, h), e)
  BY DEF mkdir_disk
<1>7. \A x \in Addr : x \notin {a, e} => g[x] = disk[x]
  BY <1>4, <1>6 DEF WriteEnd, WriteHeader
<1>8. g[a].name = name
  <2>1. g[a] = h
    BY <1>4, <1>5, <1>6 DEF WriteEnd, WriteHeader
  <2> QED
    BY <2>1 DEF Directory, Header
<1>9. ASSUME NEW d \in {k + 1, k + 3}, NEW n \in 0 .. Slots - 1,
             d # b \/ n \notin {m, m + 1}
      PROVE  g[At(d, n)] = disk[At(d, n)]
  <2>1. d \in Nat /\ At(d, n) \in Addr
    BY <1>1, InAddr
  <2>2. At(d, n) # a
    BY <1>1, <1>9, <2>1, OnePlace
  <2>3. At(d, n) # e
    <3> SUFFICES ASSUME At(d, n) = At(c, j) PROVE FALSE
      BY <1>2
    <3>1. d = c /\ n = j
      BY <1>3, <2>1, OnePlace
    <3> QED
      BY <1>1, <1>2, <1>9, <3>1
  <2> QED
    BY <1>7, <2>1, <2>2, <2>3
<1>10. ASSUME NEW x \in Overrun
       PROVE  g[x] = disk[x]
  <2>1. x \in Addr
    BY OverrunPlace
  <2>2. x # a
    BY <1>1, OverrunPlace
  <2>3. x # e
    BY <1>2, <1>3, OverrunPlace
  <2> QED
    BY <1>7, <2>1, <2>2, <2>3
<1> QED
  BY <1>8, <1>9, <1>10

\* Two disks that agree on a block have the same run there.
LEMMA SameRun ==
  ASSUME NEW d, NEW g, NEW b, NEW n \in Nat,
         \A j \in 0 .. Slots - 1 : g[At(b, j)] = d[At(b, j)]
  PROVE  Run(g, b, n) = Run(d, b, n)
<1>1. ASSUME NEW m \in n .. Slots - 1
      PROVE  (\A j \in n .. m : g[At(b, j)].name # "")
               <=> (\A j \in n .. m : d[At(b, j)].name # "")
  <2>1. \A j \in n .. m : j \in 0 .. Slots - 1
    BY Geometry
  <2> QED
    BY <2>1
<1> QED
  BY <1>1 DEF Run

\* One header more is listed, and all that were stay.
OneMoreListed(g, name) ==
  /\ \A x \in ListedOn(disk) : x \in ListedOn(g) /\ g[x] = disk[x]
  /\ \E x \in ListedOn(g) \ ListedOn(disk) : g[x].name = name

LEMMA TreeListed ==
  ASSUME DiskInv(disk), TableKept, NEW name \in Name, NEW b \in {k + 1, k + 3},
         NEW m \in 1 .. Slots - 1, FirstEmpty(b, m)
  PROVE  OneMoreListed(mkdir_disk(At(b, m), name), name)
<1> DEFINE a == At(b, m)
<1>1. PICK g : g = mkdir_disk(a, name)
  OBVIOUS
<1>2. /\ Slots \in Nat /\ m \in 0 .. Slots - 1 /\ k \in Nat
      /\ {k + 1, k + 3} \subseteq Nat /\ k + 1 # k + 3
  BY Geometry
<1>3. name # ""
  BY NewDirectory
<1>4. g[a].name = name
  BY <1>1, <1>2, MkdirSlots
<1>5. \A d \in {k + 1, k + 3}, n \in 0 .. Slots - 1 :
        d # b \/ n \notin {m, m + 1} => g[At(d, n)] = disk[At(d, n)]
  BY <1>1, <1>2, MkdirSlots
<1>6. \A x \in Overrun : g[x] = disk[x]
  BY <1>1, <1>2, MkdirSlots
<1>7. disk[a].name = "" /\ \A j \in 0 .. m - 1 : disk[At(b, j)].name # ""
  BY DEF FirstEmpty
<1>8. \A j \in 0 .. m - 1 : g[At(b, j)] = disk[At(b, j)]
  <2>1. \A j \in 0 .. m - 1 : j \in 0 .. Slots - 1 /\ j \notin {m, m + 1}
    BY <1>2
  <2> QED
    BY <1>5, <2>1
<1> HIDE DEF a
<1>9. ASSUME NEW n \in {0, 1}, NEW x \in Run(disk, b, n)
      PROVE  x \in Run(g, b, n) /\ g[x] = disk[x] /\ x # a
  <2>1. PICK q \in n .. Slots - 1 :
          x = At(b, q) /\ \A j \in n .. q : disk[At(b, j)].name # ""
    BY DEF Run
  <2>2. q \in Nat /\ m \in Nat /\ n \in Nat
    BY <1>2
  <2>3. m \notin n .. q
    BY <1>7, <2>1 DEF a
  <2>4. q < m
    BY <2>2, <2>3
  <2>5. q \in 0 .. m - 1 /\ \A j \in n .. q : j \in 0 .. m - 1
    BY <2>2, <2>4
  <2>6. \A j \in n .. q : g[At(b, j)].name # ""
    BY <1>8, <2>1, <2>5
  <2>7. x \in Run(g, b, n)
    BY <2>1, <2>6 DEF Run
  <2>8. g[x] = disk[x] /\ disk[x].name # ""
    BY <1>7, <1>8, <2>1, <2>5
  <2> QED
    BY <1>7, <2>7, <2>8
<1>10. ASSUME NEW n \in {0, 1}
      PROVE  a \in Run(g, b, n)
  <2>1. m \in n .. Slots - 1 /\ \A j \in n .. m : j = m \/ j \in 0 .. m - 1
    BY <1>2
  <2>2. \A j \in n .. m : g[At(b, j)].name # ""
    BY <1>4, <1>7, <1>8, <1>3, <2>1 DEF a
  <2> QED
    BY <2>1, <2>2 DEF Run, a
<1>11. ASSUME NEW d \in {k + 1, k + 3}, d # b, NEW n \in {0, 1}
       PROVE  /\ Run(g, d, n) = Run(disk, d, n)
              /\ \A x \in Run(disk, d, n) : g[x] = disk[x] /\ x # a
  <2>1. \A j \in 0 .. Slots - 1 : g[At(d, j)] = disk[At(d, j)]
    BY <1>5, <1>11
  <2>2. Run(g, d, n) = Run(disk, d, n)
    BY <2>1, SameRun
  <2>3. ASSUME NEW x \in Run(disk, d, n)
        PROVE  g[x] = disk[x] /\ x # a
    <3>1. PICK q \in n .. Slots - 1 : x = At(d, q)
      BY DEF Run
    <3>2. q \in 0 .. Slots - 1
      BY <1>2
    <3>3. x # a
      BY <1>2, <1>11, <3>1, <3>2, OnePlace DEF a
    <3> QED
      BY <2>1, <3>1, <3>2, <3>3
  <2> QED
    BY <2>2, <2>3
<1>12. OverrunRun(g) = OverrunRun(disk)
  BY <1>6 DEF OverrunRun
<1>13. a \notin Overrun
  BY <1>2, OverrunPlace DEF a
<1>14. OverrunRun(disk) \subseteq Overrun
  BY DEF OverrunRun
<1>15. RootFull(disk) => RootFull(g)
  <2>1. CASE b = k + 1
    BY <1>7, <2>1 DEF RootFull, a
  <2>2. CASE b # k + 1
    <3>1. \A n \in 1 .. Slots - 1 : n \in 0 .. Slots - 1
      BY <1>2
    <3> QED
      BY <1>5, <2>2, <3>1 DEF RootFull
  <2> QED
    BY <2>1, <2>2
<1>16. ASSUME NEW d \in {k + 1, k + 3}, NEW n \in {0, 1}, NEW x \in Run(disk, d, n)
       PROVE  x \in Run(g, d, n) /\ g[x] = disk[x] /\ x # a
  <2>1. CASE d = b
    BY <1>9, <2>1
  <2>2. CASE d # b
    BY <1>11, <2>2
  <2> QED
    BY <2>1, <2>2
<1>17. ASSUME NEW x \in ListedOn(disk)
       PROVE  x \in ListedOn(g) /\ g[x] = disk[x] /\ x # a
  <2>1. CASE x \in Run(disk, k + 1, 1)
    BY <1>16, <2>1 DEF ListedOn
  <2>2. CASE x \in Run(disk, k + 3, 0)
    BY <1>16, <2>2 DEF ListedOn
  <2>3. CASE RootFull(disk) /\ x \in OverrunRun(disk)
    BY <1>6, <1>12, <1>13, <1>14, <1>15, <2>3 DEF ListedOn
  <2> QED
    BY <2>1, <2>2, <2>3 DEF ListedOn
<1>18. a \in ListedOn(g)
  <2>1. CASE b = k + 1
    BY <1>10, <2>1 DEF ListedOn
  <2>2. CASE b = k + 3
    BY <1>10, <2>2 DEF ListedOn
  <2> QED
    BY <2>1, <2>2
<1>19. OneMoreListed(g, name)
  BY <1>4, <1>17, <1>18 DEF OneMoreListed
<1> QED
  BY <1>1, <1>19 DEF a

LEMMA OverrunListed ==
  ASSUME DiskInv(disk), TableKept, NEW name \in Name, NEW a, OverrunEnd(a), RootFull(disk)
  PROVE  OneMoreListed(mkdir_disk(a, name), name)
<1> DEFINE h == Directory(name, new_block)
           e == a + DIR_SIZE
<1>1. PICK g : g = WriteEnd(WriteHeader(disk, a, h), e) /\ g = mkdir_disk(a, name)
  BY DEF mkdir_disk
<1>2. /\ a \in Overrun /\ e \in Overrun /\ disk[a].name = ""
      /\ \A x \in Overrun : disk[x].name = "" => a <= x
  BY DEF OverrunEnd
<1>3. a \in Addr /\ e \in Addr /\ a \in Nat /\ e \in Nat /\ Overrun \subseteq Nat
  BY <1>2, OverrunPlace
<1>4. a < e
  BY <1>3 DEF DIR_SIZE
<1>5. \A x \in Covered(a) \cup Covered(e) : x \notin Overrun /\ BlockOf(x) = 0
  <2>1. ASSUME NEW c \in Overrun, NEW x \in Covered(c)
        PROVE  x \notin Overrun
    <3>1. PICK n \in 1 .. Slots - 1 : x = At(0, n)
      BY OverrunPlace
    <3>2. 0 \in Nat /\ n \in 0 .. Slots - 1
      BY Geometry
    <3> QED
      BY <3>1, <3>2, OverrunPlace
  <2> QED
    BY <1>2, <2>1, OverrunWrites
<1>6. h.name = name /\ name # "" /\ h \in Headers
  BY NewDirectory DEF Directory, Header
<1>7. disk \in [Addr -> Headers]
  BY DEF DiskInv
<1> HIDE DEF h, e
<1> DEFINE w == WriteHeader(disk, a, h)
<1>8. /\ w \in [Addr -> Headers] /\ w[a] = h
      /\ \A x \in Addr : x \notin {a} \cup Covered(a) => w[x] = disk[x]
  <2>1. w \in [Addr -> Headers]
    BY <1>3, <1>6, <1>7, WriteFacts
  <2> QED
    BY <1>3, <2>1 DEF WriteHeader
<1>9. g[e].name = ""
  <2>1. g[e] = [w[e] EXCEPT !.name = ""]
    BY <1>1, <1>3 DEF WriteEnd
  <2>2. PICK u \in Headers : u = w[e]
    BY <1>3, <1>8
  <2> QED
    BY <2>1, <2>2 DEF Headers
<1>10. \A x \in Addr : x \notin {e} \cup Covered(e) => g[x] = w[x]
  BY <1>1 DEF WriteEnd
<1> HIDE DEF w
<1>11. g[a].name = name
  <2>1. a \notin {e} \cup Covered(e)
    <3>1. a # e
      BY <1>3, <1>4
    <3> QED
      BY <1>2, <1>5, <3>1
  <2> QED
    BY <1>3, <1>6, <1>8, <1>10, <2>1
<1>12. \A x \in Overrun : x \notin {a, e} => g[x] = disk[x]
  <2> SUFFICES ASSUME NEW x \in Overrun, x \notin {a, e}
               PROVE  g[x] = disk[x]
    OBVIOUS
  <2>1. x \in Addr
    BY OverrunPlace
  <2> QED
    BY <1>5, <1>8, <1>10, <2>1
<1>13. ASSUME NEW d \in {k + 1, k + 3}, NEW n \in 0 .. Slots - 1
       PROVE  At(d, n) # a /\ g[At(d, n)] = disk[At(d, n)]
  <2>1. d \in Nat /\ d # 0 /\ d \in Blocky
    BY Geometry DEF Blocky
  <2>2. At(d, n) \in Addr /\ BlockOf(At(d, n)) = d
    BY <2>1, InAddr, Place
  <2>3. At(d, n) # a /\ At(d, n) # e
    BY <1>2, <2>1, OverrunPlace
  <2>4. At(d, n) \notin Covered(a) \cup Covered(e)
    BY <1>5, <2>1, <2>2
  <2> QED
    BY <1>8, <1>10, <2>2, <2>3, <2>4
<1>14. /\ Run(g, k + 1, 1) = Run(disk, k + 1, 1)
       /\ Run(g, k + 3, 0) = Run(disk, k + 3, 0)
  BY <1>13, SameRun
<1>15. ASSUME NEW d \in {k + 1, k + 3}, NEW n \in {0, 1}, NEW x \in Run(disk, d, n)
       PROVE  g[x] = disk[x] /\ x # a
  <2>1. PICK m \in n .. Slots - 1 : x = At(d, m)
    BY DEF Run
  <2>2. m \in 0 .. Slots - 1
    BY Geometry
  <2> QED
    BY <1>13, <2>1, <2>2
<1>16. RootFull(g)
  <2>1. \A n \in 1 .. Slots - 1 : n \in 0 .. Slots - 1
    BY Geometry
  <2> QED
    BY <1>13, <2>1 DEF RootFull
<1>17. ASSUME NEW y \in Overrun, g[y].name = ""
       PROVE  a < y
  <2>1. CASE y = e
    BY <1>4, <2>1
  <2>2. CASE y # e
    <3>1. y # a
      BY <1>6, <1>11, <1>17
    <3>2. disk[y].name = ""
      BY <1>12, <1>17, <2>2, <3>1
    <3>3. a <= y
      BY <1>2, <3>2
    <3> QED
      BY <1>3, <3>1, <3>3
  <2> QED
    BY <2>1, <2>2
<1>18. a \in OverrunRun(g)
  BY <1>2, <1>17 DEF OverrunRun
<1>19. ASSUME NEW x \in OverrunRun(disk)
       PROVE  x \in OverrunRun(g) /\ g[x] = disk[x] /\ x # a
  <2>1. x \in Overrun /\ x < a /\ x \in Nat
    BY <1>2, <1>3 DEF OverrunRun
  <2>2. x # a /\ x # e
    BY <1>3, <1>4, <2>1
  <2>3. ASSUME NEW y \in Overrun, g[y].name = ""
        PROVE  x < y
    <3>1. a < y /\ y \in Nat
      BY <1>3, <1>17, <2>3
    <3> QED
      BY <1>3, <2>1, <3>1
  <2> QED
    BY <1>12, <2>1, <2>2, <2>3 DEF OverrunRun
<1>20. ASSUME NEW x \in ListedOn(disk)
       PROVE  x \in ListedOn(g) /\ g[x] = disk[x] /\ x # a
  <2>1. CASE x \in Run(disk, k + 1, 1)
    BY <1>14, <1>15, <2>1 DEF ListedOn
  <2>2. CASE x \in Run(disk, k + 3, 0)
    BY <1>14, <1>15, <2>2 DEF ListedOn
  <2>3. CASE x \in OverrunRun(disk)
    BY <1>16, <1>19, <2>3 DEF ListedOn
  <2> QED
    BY <2>1, <2>2, <2>3 DEF ListedOn
<1>21. a \in ListedOn(g)
  BY <1>16, <1>18 DEF ListedOn
<1>22. OneMoreListed(g, name)
  BY <1>11, <1>20, <1>21 DEF OneMoreListed
<1> QED
  BY <1>1, <1>22

\* Every mkdir leaves listed what readdir listed, and lists one header more, but
\* past a full sub_dir, where it makes nothing.
THEOREM MkdirIsListed ==
  ASSUME InsideBlock
  PROVE  Spec => MkdirListed
<1> DEFINE One(parent, name) ==
             f32_mkdir(parent, name) =>
               /\ Listed \subseteq Listed' /\ \A x \in Listed : disk'[x] = disk[x]
               /\ WalkStops(ParentSeek(parent))
                  \/ \E x \in Listed' \ Listed : disk'[x].name = name
<1>1. (TableKept => Listed = ListedOn(disk))'
  BY ListedIs, PTL
<1>2. ASSUME FsInv, NEW parent \in Parents, NEW name \in Name
      PROVE  One(parent, name)
  <2> SUFFICES ASSUME f32_mkdir(parent, name)
               PROVE  /\ Listed \subseteq Listed' /\ \A x \in Listed : disk'[x] = disk[x]
                      /\ WalkStops(ParentSeek(parent))
                         \/ \E x \in Listed' \ Listed : disk'[x].name = name
    OBVIOUS
  <2>1. DiskInv(disk) /\ TableKept
    BY <1>2 DEF FsInv
  <2>2. TableKept'
    BY <2>1, MkdirInv
  <2>3. Listed = ListedOn(disk) /\ Listed' = ListedOn(disk')
    <3>1. Listed' = ListedOn(disk)'
      BY <1>1, <2>2
    <3>2. ListedOn(disk)' = ListedOn(disk')
      BY DEF ListedOn, Run, OverrunRun, RootFull
    <3> QED
      BY <2>1, <3>1, <3>2, ListedIs
  <2>4. CASE IntoTable(parent)
    BY <2>3, <2>4 DEF IntoTable
  <2>5. ASSUME NEW seeki, disk' = mkdir_disk(seeki, name),
               \/ \E b \in {k + 1, k + 3} : \E m \in 1 .. Slots - 1 :
                    seeki = At(b, m) /\ FirstEmpty(b, m)
               \/ OverrunEnd(seeki) /\ RootFull(disk)
        PROVE  OneMoreListed(disk', name)
    BY <2>1, <2>5, TreeListed, OverrunListed
  <2>6. CASE OneMoreListed(disk', name)
    BY <2>3, <2>6 DEF OneMoreListed
  <2> QED
    BY <2>1, <2>4, <2>5, <2>6, MkdirPlace
<1>3. FsInv /\ [Next]_vars =>
        [\A parent \in Parents, name \in Name : One(parent, name)]_vars
  BY <1>2
<1>4. Spec => [][\A parent \in Parents, name \in Name : One(parent, name)]_vars
  BY <1>3, FsInvariance, PTL DEF Spec
<1> QED
  BY <1>4 DEF MkdirListed
-----------------------------------------------------------------------------
(* The tree that a user sees while the root has room.                       *)

\* The blocks that a directory without headers of its own leads to: in block 0
\* no name that a user could have given, in the block that new_block returns
\* nothing at all.
Spare(d) ==
  /\ d[At(0, 0)].name = "superblock"
  /\ \A n \in 1 .. Slots - 1 : d[At(0, n)].name \in {"", "tail"}
  /\ \E n \in 1 .. Slots - 1 : d[At(0, n)].name = ""
  /\ \A n \in 0 .. Slots - 1 : d[At(k + 4, n)].name = ""

\* The root has the example's four headers and c more, and then its end mark;
\* sub_dir has two.
Settled(d, c) ==
  /\ c \in 0 .. Slots - 5
  /\ \A j \in 4 .. 3 + c :
       /\ d[At(k + 1, j)].name \in Name
       /\ d[At(k + 1, j)].flag = FLAG_D /\ d[At(k + 1, j)].sblock = k + 4
  /\ d[At(k + 1, 4 + c)].name = ""
  /\ d[At(k + 3, 2)].name = ""

\* The paths of the example and of the c directories that were made.
TreeOn(d, c) == Example \cup {<<d[At(k + 1, j)].name>> : j \in 4 .. 3 + c}

\* The names of the root's headers.
RootName(d, c) == {d[At(k + 1, j)].name : j \in 4 .. 3 + c}

LEMMA NamesApart ==
  /\ "" \notin Visible /\ "root" \notin Visible /\ "tail" \notin Visible
  /\ "superblock" \notin Visible /\ "text" \notin Visible
  /\ \A v \in Name : v \in Visible /\ v \notin Reserved
BY FatFsAssumption DEF Visible, Reserved

\* What the headers of the example are.
LEMMA ExampleHeaders ==
  ASSUME DiskInv(disk)
  PROVE  /\ disk[At(k + 1, 0)].name = "root"
         /\ disk[At(k + 1, 1)].name = "hello" /\ disk[At(k + 1, 1)].flag = FLAG_F
         /\ disk[At(k + 1, 2)].name = "empty_sub_dir"
         /\ disk[At(k + 1, 2)].flag = FLAG_D /\ disk[At(k + 1, 2)].sblock = 0
         /\ disk[At(k + 1, 3)].name = "sub_dir"
         /\ disk[At(k + 1, 3)].flag = FLAG_D /\ disk[At(k + 1, 3)].sblock = k + 3
         /\ disk[At(k + 3, 0)].name = ".."
         /\ disk[At(k + 3, 1)].name = "sub_sub_dir"
<1>1. \A x \in ExampleAddr : Same(disk[x], WriteExample(disk)[x])
  BY DEF DiskInv
<1>2. /\ Same(disk[At(k + 1, 0)], Directory("root", k + 1))
      /\ Same(disk[At(k + 1, 1)], Header("hello", HelloLength, k + 2, FLAG_F))
      /\ Same(disk[At(k + 1, 2)], Directory("empty_sub_dir", 0))
      /\ Same(disk[At(k + 1, 3)], Directory("sub_dir", k + 3))
      /\ Same(disk[At(k + 3, 0)], Directory("..", k + 1))
      /\ Same(disk[At(k + 3, 1)], Directory("sub_sub_dir", 0))
  BY <1>1, SixHeaders, ExampleFacts
<1> QED
  BY <1>2 DEF Same, Directory, Header

\* Which slot of the root has which header.
LEMMA RootSlots ==
  ASSUME DiskInv(disk), NEW c, Settled(disk, c)
  PROVE  /\ FirstEmpty(k + 1, 4 + c) /\ 4 + c \in 4 .. Slots - 1
         /\ FirstEmpty(k + 3, 2)
         /\ \A j \in 0 .. 3 + c : j \in {0, 1, 2, 3} \/ j \in 4 .. 3 + c
<1>1. Slots \in Nat /\ Slots >= 6 /\ c \in 0 .. Slots - 5
  BY Geometry DEF Settled
<1>2. 4 + c \in 4 .. Slots - 1 /\ (4 + c) - 1 = 3 + c
  BY <1>1
<1>3. \A j \in 0 .. 3 + c : j \in {0, 1, 2, 3} \/ j \in 4 .. 3 + c
  BY <1>1
<1>4. ASSUME NEW j \in 0 .. 3 + c
      PROVE  disk[At(k + 1, j)].name # ""
  <2>1. CASE j \in {0, 1, 2, 3}
    BY <2>1, ExampleHeaders
  <2>2. CASE j \in 4 .. 3 + c
    BY <2>2, NamesApart DEF Settled, Reserved
  <2> QED
    BY <1>3, <2>1, <2>2
<1>5. FirstEmpty(k + 1, 4 + c)
  BY <1>2, <1>4 DEF FirstEmpty, Settled
<1>6. FirstEmpty(k + 3, 2)
  <2>1. 0 .. 2 - 1 = {0, 1}
    OBVIOUS
  <2> QED
    BY <2>1, ExampleHeaders DEF FirstEmpty, Settled
<1> QED
  BY <1>2, <1>3, <1>5, <1>6

\* Lookup in a block that has a name: before the end mark, or nowhere.
LEMMA FindIn ==
  ASSUME NEW b \in Nat \ {0}, NEW l \in 1 .. Slots - 1, FirstEmpty(b, l), NEW v \in Visible
  PROVE  \/ /\ Find(b, v) = 0
            /\ \A n \in 0 .. l - 1 : disk[At(b, n)].name # v
         \/ \E n \in 0 .. l - 1 :
              /\ Find(b, v) = At(b, n) /\ At(b, n) # 0
              /\ disk[At(b, n)].name = v
<1>1. /\ Slots \in Nat /\ l \in Nat /\ l \in 1 .. Slots - 1 /\ 0 .. Slots - 1 \subseteq Nat
      /\ \A n \in 0 .. l - 1 : n \in 0 .. Slots - 1 /\ \A m \in 1 .. n : m \in 0 .. l - 1
      /\ \A n \in 0 .. Slots - 1 : n \notin 0 .. l - 1 => l \in 1 .. n
  BY Geometry
<1>2. CASE Find(b, v) = 0
  <2> SUFFICES ASSUME NEW n \in 0 .. l - 1, disk[At(b, n)].name = v
               PROVE  FALSE
    BY <1>2
  <2> DEFINE hit == {y \in 0 .. Slots - 1 :
                      disk[At(b, y)].name = v /\ Unended(b, y)}
  <2>1. Find(b, v) = IF hit = {} THEN 0 ELSE At(b, Min(hit))
    BY DEF Find, Unended
  <2>2. n \in 0 .. Slots - 1
    BY <1>1
  <2>3. Unended(b, n)
    BY <1>1 DEF Unended, FirstEmpty
  <2>4. hit # {} /\ hit \subseteq 0 .. Slots - 1
    BY <2>2, <2>3
  <2>5. hit \in SUBSET Nat
    <3> HIDE DEF hit
    <3> QED
      BY <1>1, <2>4
  <2>6. Min(hit) \in 0 .. Slots - 1
    <3> HIDE DEF hit
    <3> QED
      BY <2>4, <2>5, MinOfNats
  <2>7. At(b, Min(hit)) # 0
    <3> HIDE DEF hit
    <3> QED
      BY <2>6, Place
  <2> QED
    BY <1>2, <2>1, <2>4, <2>7
<1>3. CASE Find(b, v) # 0
  <2>1. PICK n \in 0 .. Slots - 1 :
          Find(b, v) = At(b, n) /\ disk[At(b, n)].name = v /\ Unended(b, n)
    BY <1>3, FindFacts
  <2>2. n \in 0 .. l - 1
    <3> SUFFICES ASSUME ~ n \in 0 .. l - 1 PROVE FALSE
      OBVIOUS
    <3>1. l \in 1 .. n
      BY <1>1
    <3> QED
      BY <3>1, <2>1 DEF Unended, FirstEmpty
  <2> QED
    BY <1>3, <2>1, <2>2
<1> QED
  BY <1>2, <1>3

LEMMA FindNone ==
  ASSUME NEW b, NEW v, \A n \in 0 .. Slots - 1 : disk[At(b, n)].name # v
  PROVE  Find(b, v) = 0
BY DEF Find

\* Lookup of paths of one name and of two.
LEMMA LookupOne ==
  ASSUME NEW v
  PROVE  path_to_addr(<<v>>) = Find(k + 1, v)
<1> DEFINE path == <<v>>
<1>1. path \in Seq({v}) /\ Len(path) = 1 /\ path[1] = v
  OBVIOUS
<1>2. PICK r : /\ path_to_addr(path) = r[Len(path)].addr
               /\ r[0] = Root
               /\ \A n \in 1 .. Len(path) : r[n] = Descend(r[n - 1], path[n])
  BY <1>1, PathSteps
<1>3. path_to_addr(path) = Descend(Root, v).addr
  <2>1. r[1] = Descend(r[1 - 1], path[1])
    BY <1>1, <1>2
  <2>2. r[1 - 1] = Root
    BY <1>2
  <2> QED
    BY <1>1, <1>2, <2>1, <2>2
<1>4. At(k + 1, 0) # 0
  BY Geometry, Place
<1> QED
  BY <1>3, <1>4 DEF Descend, Root, starting_block

LEMMA LookupTwo ==
  ASSUME NEW d, NEW v
  PROVE  path_to_addr(<<d, v>>) =
           IF Find(k + 1, d) = 0 THEN 0 ELSE Find(disk[Find(k + 1, d)].sblock, v)
<1> DEFINE path == <<d, v>>
<1>1. path \in Seq({d, v}) /\ Len(path) = 2 /\ path[1] = d /\ path[2] = v
  OBVIOUS
<1>2. PICK r : /\ path_to_addr(path) = r[Len(path)].addr
               /\ r[0] = Root
               /\ \A n \in 1 .. Len(path) : r[n] = Descend(r[n - 1], path[n])
  BY <1>1, PathSteps
<1>3. r[1] = Descend(Root, d)
  <2>1. r[1] = Descend(r[1 - 1], path[1])
    BY <1>1, <1>2
  <2>2. r[1 - 1] = Root
    BY <1>2
  <2> QED
    BY <1>1, <2>1, <2>2
<1>4. r[2] = Descend(r[1], v)
  <2>1. r[2] = Descend(r[2 - 1], path[2])
    BY <1>1, <1>2
  <2> QED
    BY <1>1, <2>1
<1>5. path_to_addr(path) = r[2].addr
  BY <1>1, <1>2
<1>6. At(k + 1, 0) # 0
  BY Geometry, Place
<1>7. /\ r[1].addr = Find(k + 1, d)
      /\ r[1].block = IF Find(k + 1, d) = 0 THEN 0 ELSE disk[Find(k + 1, d)].sblock
  BY <1>3, <1>6 DEF Descend, Root, starting_block
<1> QED
  BY <1>4, <1>5, <1>7 DEF Descend

\* What a walk passes that finds an end mark in its block.
LEMMA PassedIn ==
  ASSUME NEW b \in Nat, NEW n \in 0 .. Slots - 1,
         NEW l \in n .. Slots - 1, disk[At(b, l)].name = ""
  PROVE  Passed(At(b, n)) = Run(disk, b, n)
<1>1. Walk(At(b, n)) = {At(b, m) : m \in n .. Slots - 1}
  BY WalkAt
<1>2. Empty(Walk(At(b, n))) # {}
  BY <1>1 DEF Empty
<1>3. ~ WalkGoesOn(At(b, n))
  BY <1>2 DEF WalkGoesOn
<1>4. BeforeEnd(Walk(At(b, n))) = Run(disk, b, n)
  BY BlockRun
<1> QED
  BY <1>3, <1>4 DEF Passed

\* The run to the first empty header.
LEMMA RunTo ==
  ASSUME NEW b, NEW l \in 1 .. Slots - 1, FirstEmpty(b, l), NEW n \in {0, 1}
  PROVE  Run(disk, b, n) = {At(b, m) : m \in n .. l - 1}
<1>1. /\ Slots \in Nat
      /\ \A m \in n .. l - 1 : m \in n .. Slots - 1 /\ \A j \in n .. m : j \in 0 .. l - 1
      /\ \A m \in n .. Slots - 1 : m \notin n .. l - 1 => l \in n .. m
  BY Geometry
<1>2. ASSUME NEW m \in n .. l - 1
      PROVE  m \in n .. Slots - 1 /\ \A j \in n .. m : disk[At(b, j)].name # ""
  BY <1>1 DEF FirstEmpty
<1>3. ASSUME NEW m \in n .. Slots - 1, \A j \in n .. m : disk[At(b, j)].name # ""
      PROVE  m \in n .. l - 1
  BY <1>1, <1>3 DEF FirstEmpty
<1>4. {m \in n .. Slots - 1 : \A j \in n .. m : disk[At(b, j)].name # ""} = n .. l - 1
  BY <1>2, <1>3
<1> QED
  BY <1>4 DEF Run

\* The directories in the root: the example's two and those that were made.
DirName(d, c) == {"empty_sub_dir", "sub_dir"} \cup RootName(d, c)

\* The slots of the root that are taken.
LEMMA RootSize ==
  ASSUME NEW c, Settled(disk, c)
  PROVE  /\ c \in Nat /\ k + 1 \in Nat \ {0}
         /\ 4 + c \in 1 .. Slots - 1 /\ (4 + c) - 1 = 3 + c
         /\ \A j \in 0 .. 3 + c : j \in {0, 1, 2, 3} \/ j \in 4 .. 3 + c
         /\ {0, 1, 2, 3} \cup 4 .. 3 + c \subseteq 0 .. 3 + c
         /\ 0 .. 3 + c \subseteq 0 .. Slots - 1
<1>1. c \in 0 .. Slots - 5
  BY DEF Settled
<1>2. k \in Nat /\ Slots \in Nat /\ Slots >= 6
  BY Geometry
<1> QED
  BY <1>1, <1>2

\* Lookup of a name in the root.
LEMMA RootLookup ==
  ASSUME DiskInv(disk), NEW c, Settled(disk, c), NEW v \in Visible
  PROVE  /\ path_to_addr(<<v>>) # 0 <=> v = "hello" \/ v \in DirName(disk, c)
         /\ IsDirectory(<<v>>) <=> v \in DirName(disk, c)
         /\ v = "empty_sub_dir" => disk[path_to_addr(<<v>>)].sblock = 0
         /\ v = "sub_dir" => disk[path_to_addr(<<v>>)].sblock = k + 3
         /\ v \in RootName(disk, c) => disk[path_to_addr(<<v>>)].sblock = k + 4
<1>1. path_to_addr(<<v>>) = Find(k + 1, v)
  BY LookupOne
<1>2. k + 1 \in Nat \ {0} /\ 4 + c \in 1 .. Slots - 1 /\ (4 + c) - 1 = 3 + c
  BY RootSize
<1>3. \/ Find(k + 1, v) = 0 /\ \A n \in 0 .. 3 + c : disk[At(k + 1, n)].name # v
      \/ \E n \in 0 .. 3 + c : /\ Find(k + 1, v) = At(k + 1, n) /\ At(k + 1, n) # 0
                               /\ disk[At(k + 1, n)].name = v
  BY <1>2, RootSlots, FindIn
<1>4. /\ \A j \in 0 .. 3 + c : j \in {0, 1, 2, 3} \/ j \in 4 .. 3 + c
      /\ {0, 1, 2, 3} \cup 4 .. 3 + c \subseteq 0 .. 3 + c
  BY RootSize
<1>5. \A j \in 4 .. 3 + c :
        /\ disk[At(k + 1, j)].name \in RootName(disk, c) \cap Name
        /\ disk[At(k + 1, j)].flag = FLAG_D /\ disk[At(k + 1, j)].sblock = k + 4
  BY DEF Settled, RootName
<1>6. RootName(disk, c) \subseteq Name
  BY <1>5 DEF RootName
<1>7. \A w \in Name : w \notin {"root", "hello", "empty_sub_dir", "sub_dir"}
  BY NamesApart DEF Reserved
<1>8. <<v>> # <<>>
  OBVIOUS
<1>9. CASE Find(k + 1, v) = 0
  <2>1. \A n \in 0 .. 3 + c : disk[At(k + 1, n)].name # v
    BY <1>3, <1>9
  <2>2. v # "hello" /\ v # "empty_sub_dir" /\ v # "sub_dir"
    BY <1>4, <2>1, ExampleHeaders
  <2>3. v \notin RootName(disk, c)
    BY <1>4, <2>1 DEF RootName
  <2>4. ~ IsDirectory(<<v>>)
    BY <1>1, <1>8, <1>9 DEF IsDirectory
  <2> QED
    BY <1>1, <1>9, <2>2, <2>3, <2>4 DEF DirName
<1>10. ASSUME NEW n \in 0 .. 3 + c, Find(k + 1, v) = At(k + 1, n), At(k + 1, n) # 0,
              disk[At(k + 1, n)].name = v
       PROVE  /\ path_to_addr(<<v>>) # 0 /\ path_to_addr(<<v>>) = At(k + 1, n)
              /\ IsDirectory(<<v>>) <=> disk[At(k + 1, n)].flag = FLAG_D
  BY <1>1, <1>8, <1>10 DEF IsDirectory
<1>11. FLAG_F # FLAG_D
  BY DEF FLAG_F, FLAG_D
<1>12. ASSUME NEW n \in 0 .. 3 + c, Find(k + 1, v) = At(k + 1, n), At(k + 1, n) # 0,
              disk[At(k + 1, n)].name = v
       PROVE  /\ v = "hello" \/ v \in DirName(disk, c)
              /\ IsDirectory(<<v>>) <=> v \in DirName(disk, c)
              /\ v = "empty_sub_dir" => disk[At(k + 1, n)].sblock = 0
              /\ v = "sub_dir" => disk[At(k + 1, n)].sblock = k + 3
              /\ v \in RootName(disk, c) => disk[At(k + 1, n)].sblock = k + 4
  <2>1. IsDirectory(<<v>>) <=> disk[At(k + 1, n)].flag = FLAG_D
    BY <1>10, <1>12
  <2>2. CASE n = 0
    BY <1>12, <2>2, ExampleHeaders, NamesApart
  <2>3. CASE n = 1
    <3>1. v = "hello" /\ v \notin RootName(disk, c)
      BY <1>6, <1>7, <1>12, <2>3, ExampleHeaders
    <3>2. ~ IsDirectory(<<v>>)
      BY <1>11, <2>1, <2>3, ExampleHeaders
    <3> QED
      BY <3>1, <3>2 DEF DirName
  <2>4. CASE n = 2
    <3>1. v = "empty_sub_dir" /\ v \notin RootName(disk, c)
      BY <1>6, <1>7, <1>12, <2>4, ExampleHeaders
    <3>2. IsDirectory(<<v>>) /\ disk[At(k + 1, n)].sblock = 0
      BY <2>1, <2>4, ExampleHeaders
    <3> QED
      BY <3>1, <3>2 DEF DirName
  <2>5. CASE n = 3
    <3>1. v = "sub_dir" /\ v \notin RootName(disk, c)
      BY <1>6, <1>7, <1>12, <2>5, ExampleHeaders
    <3>2. IsDirectory(<<v>>) /\ disk[At(k + 1, n)].sblock = k + 3
      BY <2>1, <2>5, ExampleHeaders
    <3> QED
      BY <3>1, <3>2 DEF DirName
  <2>6. CASE n \in 4 .. 3 + c
    <3>1. v \in RootName(disk, c) /\ v \in Name
      BY <1>5, <1>12, <2>6
    <3>2. IsDirectory(<<v>>) /\ disk[At(k + 1, n)].sblock = k + 4
      BY <1>5, <2>1, <2>6
    <3>3. v # "empty_sub_dir" /\ v # "sub_dir"
      BY <1>7, <3>1
    <3> QED
      BY <3>1, <3>2, <3>3 DEF DirName
  <2> QED
    BY <1>4, <2>2, <2>3, <2>4, <2>5, <2>6
<1>13. CASE \E n \in 0 .. 3 + c : /\ Find(k + 1, v) = At(k + 1, n) /\ At(k + 1, n) # 0
                                  /\ disk[At(k + 1, n)].name = v
  <2>1. PICK n \in 0 .. 3 + c : /\ Find(k + 1, v) = At(k + 1, n) /\ At(k + 1, n) # 0
                                /\ disk[At(k + 1, n)].name = v
    BY <1>13
  <2> QED
    BY <1>10, <1>12, <2>1
<1> QED
  BY <1>3, <1>9, <1>13

\* No name that users see is in block 0 or in the block of a new directory.
LEMMA SpareFind ==
  ASSUME Spare(disk), NEW v \in Visible
  PROVE  Find(0, v) = 0 /\ Find(k + 4, v) = 0
<1>1. v # "" /\ v # "tail" /\ v # "superblock"
  BY NamesApart
<1>2. \A n \in 0 .. Slots - 1 : n = 0 \/ n \in 1 .. Slots - 1
  BY Geometry
<1>3. \A n \in 0 .. Slots - 1 : disk[At(0, n)].name # v
  <2>1. disk[At(0, 0)].name # v
    BY <1>1 DEF Spare
  <2>2. \A n \in 1 .. Slots - 1 : disk[At(0, n)].name # v
    BY <1>1 DEF Spare
  <2> QED
    BY <1>2, <2>1, <2>2
<1>4. \A n \in 0 .. Slots - 1 : disk[At(k + 4, n)].name # v
  BY <1>1 DEF Spare
<1> QED
  BY <1>3, <1>4, FindNone

\* In sub_dir's block are the two of the example.
LEMMA SubFind ==
  ASSUME DiskInv(disk), NEW c, Settled(disk, c), NEW v \in Visible
  PROVE  Find(k + 3, v) # 0 <=> v \in {"..", "sub_sub_dir"}
<1>1. k + 3 \in Nat \ {0} /\ 2 \in 1 .. Slots - 1 /\ 0 .. 2 - 1 = {0, 1}
  BY Geometry
<1>2. FirstEmpty(k + 3, 2)
  BY RootSlots
<1>3. \/ /\ Find(k + 3, v) = 0
         /\ \A n \in 0 .. 2 - 1 : disk[At(k + 3, n)].name # v
      \/ \E n \in 0 .. 2 - 1 :
           /\ Find(k + 3, v) = At(k + 3, n) /\ At(k + 3, n) # 0
           /\ disk[At(k + 3, n)].name = v
  BY <1>1, <1>2, FindIn
<1> QED
  BY <1>1, <1>3, ExampleHeaders

\* The paths of two names that lead somewhere.
LEMMA ChildLookup ==
  ASSUME DiskInv(disk), Spare(disk), NEW c, Settled(disk, c),
         NEW d \in DirName(disk, c), NEW v \in Visible
  PROVE  path_to_addr(<<d, v>>) # 0 <=> d = "sub_dir" /\ v \in {"..", "sub_sub_dir"}
<1>1. d \in Visible /\ (d \in RootName(disk, c) => d \in Name)
  <2>1. RootName(disk, c) \subseteq Name
    BY DEF Settled, RootName
  <2> QED
    BY <2>1, NamesApart DEF DirName, Visible
<1>2. path_to_addr(<<d>>) = Find(k + 1, d) /\ path_to_addr(<<d>>) # 0
  BY <1>1, LookupOne, RootLookup
<1>3. path_to_addr(<<d, v>>) = Find(disk[path_to_addr(<<d>>)].sblock, v)
  BY <1>2, LookupTwo
<1>4. CASE d = "empty_sub_dir"
  <2>1. disk[path_to_addr(<<d>>)].sblock = 0
    BY <1>1, <1>4, RootLookup
  <2> QED
    BY <1>3, <1>4, <2>1, SpareFind
<1>5. CASE d = "sub_dir"
  <2>1. disk[path_to_addr(<<d>>)].sblock = k + 3
    BY <1>1, <1>5, RootLookup
  <2> QED
    BY <1>3, <1>5, <2>1, SubFind
<1>6. CASE d \in RootName(disk, c)
  <2>1. disk[path_to_addr(<<d>>)].sblock = k + 4
    BY <1>1, <1>6, RootLookup
  <2>2. d # "sub_dir"
    BY <1>1, <1>6, NamesApart DEF Reserved
  <2> QED
    BY <1>3, <2>1, <2>2, SpareFind
<1> QED
  BY <1>4, <1>5, <1>6 DEF DirName

LEMMA DirectoriesAre ==
  ASSUME DiskInv(disk), NEW c, Settled(disk, c)
  PROVE  Directories = {<<>>} \cup {<<d>> : d \in DirName(disk, c)}
<1>1. DirName(disk, c) \subseteq Visible
  <2>1. RootName(disk, c) \subseteq Name
    BY DEF Settled, RootName
  <2> QED
    BY <2>1, NamesApart DEF DirName, Visible
<1>2. \A v \in Visible : IsDirectory(<<v>>) <=> v \in DirName(disk, c)
  BY RootLookup
<1>3. {p \in {<<n>> : n \in Visible} : IsDirectory(p)} = {<<d>> : d \in DirName(disk, c)}
  BY <1>1, <1>2
<1> QED
  BY <1>3 DEF Directories

\* Users find the example tree and what was made.
LEMMA FoundAre ==
  ASSUME DiskInv(disk), Spare(disk), NEW c, Settled(disk, c)
  PROVE  FoundPaths = TreeOn(disk, c)
<1>1. RootName(disk, c) \subseteq Name /\ DirName(disk, c) \subseteq Visible
  <2>1. RootName(disk, c) \subseteq Name
    BY DEF Settled, RootName
  <2> QED
    BY <2>1, NamesApart DEF DirName, Visible
<1>2. Under(<<>>, Visible) = {<<v>> : v \in Visible}
  BY DEF Under
<1>3. \A d : Under(<<d>>, Visible) = {<<d, v>> : v \in Visible}
  BY DEF Under
<1>4. ASSUME NEW p
      PROVE  p \in FoundPaths <=>
               \/ \E v \in Visible : p = <<v>> /\ path_to_addr(<<v>>) # 0
               \/ \E d \in DirName(disk, c), v \in Visible :
                    p = <<d, v>> /\ path_to_addr(<<d, v>>) # 0
  <2>1. p \in FoundPaths <=>
          \E t \in Directories : p \in Under(t, Visible) /\ path_to_addr(p) # 0
    BY DEF FoundPaths
  <2>2. Directories = {<<>>} \cup {<<d>> : d \in DirName(disk, c)}
    BY DirectoriesAre
  <2>3. p \in FoundPaths <=>
          \/ p \in Under(<<>>, Visible) /\ path_to_addr(p) # 0
          \/ \E d \in DirName(disk, c) : p \in Under(<<d>>, Visible) /\ path_to_addr(p) # 0
    BY <2>1, <2>2
  <2>4. p \in Under(<<>>, Visible) <=> \E v \in Visible : p = <<v>>
    BY <1>2
  <2>5. \A d : p \in Under(<<d>>, Visible) <=> \E v \in Visible : p = <<d, v>>
    BY <1>3
  <2> QED
    BY <2>3, <2>4, <2>5
<1>5. ASSUME NEW p
      PROVE  (\E v \in Visible : p = <<v>> /\ path_to_addr(<<v>>) # 0)
               <=> p = <<"hello">> \/ (\E d \in DirName(disk, c) : p = <<d>>)
  <2>1. \A v \in Visible : path_to_addr(<<v>>) # 0 <=> v = "hello" \/ v \in DirName(disk, c)
    BY RootLookup
  <2>2. "hello" \in Visible
    BY DEF Visible
  <2> QED
    BY <1>1, <2>1, <2>2
<1>6. ASSUME NEW p
      PROVE  (\E d \in DirName(disk, c), v \in Visible :
                p = <<d, v>> /\ path_to_addr(<<d, v>>) # 0)
               <=> p \in {<<"sub_dir", "..">>, <<"sub_dir", "sub_sub_dir">>}
  <2>1. "sub_dir" \in DirName(disk, c) /\ {"..", "sub_sub_dir"} \subseteq Visible
    BY DEF DirName, Visible
  <2>2. \A d \in DirName(disk, c), v \in Visible :
          path_to_addr(<<d, v>>) # 0 <=> d = "sub_dir" /\ v \in {"..", "sub_sub_dir"}
    BY ChildLookup
  <2> QED
    BY <2>1, <2>2
<1>7. ASSUME NEW p
      PROVE  p \in TreeOn(disk, c) <=>
               \/ p = <<"hello">> \/ (\E d \in DirName(disk, c) : p = <<d>>)
               \/ p \in {<<"sub_dir", "..">>, <<"sub_dir", "sub_sub_dir">>}
  <2>1. {<<disk[At(k + 1, j)].name>> : j \in 4 .. 3 + c} = {<<d>> : d \in RootName(disk, c)}
    BY DEF RootName
  <2> QED
    BY <2>1 DEF TreeOn, Example, DirName
<1>8. \A p : p \in FoundPaths <=> p \in TreeOn(disk, c)
  BY <1>4, <1>5, <1>6, <1>7
<1> QED
  BY <1>8

\* A block with no name that users see, and with an end mark.
Unseen(b) ==
  /\ \A n \in 0 .. Slots - 1 : disk[At(b, n)].name \in {"superblock", "tail", ""}
  /\ \E l \in 0 .. Slots - 1 : disk[At(b, l)].name = ""

\* readdir lists nothing of it.
LEMMA BlockLists ==
  ASSUME NEW b \in Nat, Unseen(b)
  PROVE  {disk[x].name : x \in Passed(At(b, 0))} \cap Visible = {}
<1>1. 0 \in 0 .. Slots - 1
  BY Geometry
<1>2. PICK l \in 0 .. Slots - 1 : disk[At(b, l)].name = ""
  BY DEF Unseen
<1>3. Passed(At(b, 0)) = Run(disk, b, 0)
  BY <1>1, <1>2, PassedIn
<1>4. \A x \in Run(disk, b, 0) : disk[x].name \in {"superblock", "tail", ""}
  BY DEF Run, Unseen
<1> QED
  BY <1>3, <1>4, NamesApart

LEMMA SpareLists ==
  ASSUME Spare(disk)
  PROVE  /\ {disk[x].name : x \in Passed(At(0, 0))} \cap Visible = {}
         /\ {disk[x].name : x \in Passed(At(k + 4, 0))} \cap Visible = {}
<1>1. /\ 0 \in Nat /\ k + 4 \in Nat /\ 0 \in 0 .. Slots - 1
      /\ \A n \in 0 .. Slots - 1 : n = 0 \/ n \in 1 .. Slots - 1
      /\ \A n \in 1 .. Slots - 1 : n \in 0 .. Slots - 1
  BY Geometry
<1>2. PICK l \in 1 .. Slots - 1 : disk[At(0, l)].name = ""
  BY DEF Spare
<1>3. \A n \in 0 .. Slots - 1 : disk[At(0, n)].name \in {"superblock", "tail", ""}
  <2>1. disk[At(0, 0)].name = "superblock"
    BY DEF Spare
  <2>2. \A n \in 1 .. Slots - 1 : disk[At(0, n)].name \in {"", "tail"}
    BY DEF Spare
  <2> QED
    BY <1>1, <2>1, <2>2
<1>4. {disk[x].name : x \in Passed(At(0, 0))} \cap Visible = {}
  BY <1>1, <1>2, <1>3, BlockLists DEF Unseen
<1>5. Unseen(k + 4)
  BY <1>1 DEF Spare, Unseen
<1>6. {disk[x].name : x \in Passed(At(k + 4, 0))} \cap Visible = {}
  BY <1>1, <1>5, BlockLists
<1> QED
  BY <1>4, <1>6

LEMMA TreeLists ==
  ASSUME DiskInv(disk), NEW c, Settled(disk, c)
  PROVE  /\ {disk[x].name : x \in Passed(At(k + 1, 1))} = {"hello"} \cup DirName(disk, c)
         /\ {disk[x].name : x \in Passed(At(k + 3, 0))} = {"..", "sub_sub_dir"}
<1>1. /\ k + 1 \in Nat /\ k + 3 \in Nat /\ 0 \in 0 .. Slots - 1 /\ 1 \in 0 .. Slots - 1
      /\ 2 \in 0 .. Slots - 1 /\ 2 \in 1 .. Slots - 1 /\ 0 .. 2 - 1 = {0, 1}
  BY Geometry
<1>2. /\ 4 + c \in 1 .. Slots - 1 /\ (4 + c) - 1 = 3 + c /\ c \in Nat
  BY RootSize
<1>3. FirstEmpty(k + 1, 4 + c) /\ FirstEmpty(k + 3, 2)
  BY RootSlots
<1>4. disk[At(k + 1, 4 + c)].name = "" /\ disk[At(k + 3, 2)].name = ""
  BY DEF Settled
<1>5. Passed(At(k + 1, 1)) = {At(k + 1, m) : m \in 1 .. 3 + c}
  <2>1. Passed(At(k + 1, 1)) = Run(disk, k + 1, 1)
    BY <1>1, <1>2, <1>4, PassedIn
  <2>2. Run(disk, k + 1, 1) = {At(k + 1, m) : m \in 1 .. (4 + c) - 1}
    BY <1>2, <1>3, RunTo
  <2> QED
    BY <1>2, <2>1, <2>2
<1>6. Passed(At(k + 3, 0)) = {At(k + 3, m) : m \in {0, 1}}
  <2>1. Passed(At(k + 3, 0)) = Run(disk, k + 3, 0)
    BY <1>1, <1>4, PassedIn
  <2>2. Run(disk, k + 3, 0) = {At(k + 3, m) : m \in 0 .. 2 - 1}
    BY <1>1, <1>3, RunTo
  <2> QED
    BY <1>1, <2>1, <2>2
<1>7. 1 .. 3 + c = {1, 2, 3} \cup 4 .. 3 + c
  BY <1>2
<1>8. {disk[x].name : x \in Passed(At(k + 1, 1))}
        = {disk[At(k + 1, m)].name : m \in {1, 2, 3}} \cup RootName(disk, c)
  BY <1>5, <1>7 DEF RootName
<1>9. {disk[At(k + 1, m)].name : m \in {1, 2, 3}} = {"hello", "empty_sub_dir", "sub_dir"}
  BY ExampleHeaders
<1>10. {disk[x].name : x \in Passed(At(k + 3, 0))}
        = {disk[At(k + 3, m)].name : m \in {0, 1}}
  BY <1>6
<1>11. {disk[At(k + 3, m)].name : m \in {0, 1}} = {"..", "sub_sub_dir"}
  BY ExampleHeaders
<1> QED
  BY <1>8, <1>9, <1>10, <1>11 DEF DirName

\* readdir lists the example tree and what was made.
LEMMA ListedAre ==
  ASSUME DiskInv(disk), Spare(disk), NEW c, Settled(disk, c)
  PROVE  ListedPaths = TreeOn(disk, c)
<1>1. RootName(disk, c) \subseteq Name /\ DirName(disk, c) \subseteq Visible
  <2>1. RootName(disk, c) \subseteq Name
    BY DEF Settled, RootName
  <2> QED
    BY <2>1, NamesApart DEF DirName, Visible
<1>2. f32_readdir(<<>>) \cap Visible = {"hello"} \cup DirName(disk, c)
  <2>1. f32_readdir(<<>>) = {"hello"} \cup DirName(disk, c)
    BY TreeLists DEF f32_readdir, ReaddirSeek, starting_block
  <2>2. "hello" \in Visible
    BY DEF Visible
  <2> QED
    BY <1>1, <2>1, <2>2
<1>3. ASSUME NEW d \in DirName(disk, c)
      PROVE  f32_readdir(<<d>>) \cap Visible =
               IF d = "sub_dir" THEN {"..", "sub_sub_dir"} ELSE {}
  <2>1. <<d>> # <<>>
    OBVIOUS
  <2>2. f32_readdir(<<d>>) =
          {disk[x].name : x \in Passed(At(disk[path_to_addr(<<d>>)].sblock, 0))}
    BY <2>1 DEF f32_readdir, ReaddirSeek
  <2>3. CASE d = "empty_sub_dir"
    <3>1. disk[path_to_addr(<<d>>)].sblock = 0
      BY <1>1, <2>3, RootLookup
    <3> QED
      BY <2>2, <2>3, <3>1, SpareLists
  <2>4. CASE d = "sub_dir"
    <3>1. disk[path_to_addr(<<d>>)].sblock = k + 3
      BY <1>1, <2>4, RootLookup
    <3>2. f32_readdir(<<d>>) = {"..", "sub_sub_dir"}
      BY <2>2, <3>1, TreeLists
    <3>3. {"..", "sub_sub_dir"} \subseteq Visible
      BY DEF Visible
    <3> QED
      BY <2>4, <3>2, <3>3
  <2>5. CASE d \in RootName(disk, c)
    <3>1. disk[path_to_addr(<<d>>)].sblock = k + 4
      BY <1>1, <2>5, RootLookup
    <3>2. d # "sub_dir"
      BY <1>1, <2>5, NamesApart DEF Reserved
    <3> QED
      BY <2>2, <3>1, <3>2, SpareLists
  <2> QED
    BY <2>3, <2>4, <2>5 DEF DirName
<1>4. ASSUME NEW p
      PROVE  p \in ListedPaths <=>
               \/ \E v \in f32_readdir(<<>>) \cap Visible : p = <<v>>
               \/ \E d \in DirName(disk, c) : \E v \in f32_readdir(<<d>>) \cap Visible :
                    p = <<d, v>>
  <2>1. p \in ListedPaths <=>
          \E t \in Directories : p \in Under(t, f32_readdir(t) \cap Visible)
    BY DEF ListedPaths
  <2>2. Directories = {<<>>} \cup {<<d>> : d \in DirName(disk, c)}
    BY DirectoriesAre
  <2>3. p \in ListedPaths <=>
          \/ p \in Under(<<>>, f32_readdir(<<>>) \cap Visible)
          \/ \E d \in DirName(disk, c) : p \in Under(<<d>>, f32_readdir(<<d>>) \cap Visible)
    BY <2>1, <2>2
  <2>4. \A N : p \in Under(<<>>, N) <=> \E v \in N : p = <<v>>
    BY DEF Under
  <2>5. \A d, N : p \in Under(<<d>>, N) <=> \E v \in N : p = <<d, v>>
    BY DEF Under
  <2> QED
    BY <2>3, <2>4, <2>5
<1>5. ASSUME NEW p
      PROVE  (\E v \in f32_readdir(<<>>) \cap Visible : p = <<v>>)
               <=> p = <<"hello">> \/ (\E d \in DirName(disk, c) : p = <<d>>)
  BY <1>2
<1>6. ASSUME NEW p
      PROVE  (\E d \in DirName(disk, c) : \E v \in f32_readdir(<<d>>) \cap Visible :
                p = <<d, v>>)
               <=> p \in {<<"sub_dir", "..">>, <<"sub_dir", "sub_sub_dir">>}
  <2>1. "sub_dir" \in DirName(disk, c)
    BY DEF DirName
  <2> QED
    BY <1>3, <2>1
<1>7. ASSUME NEW p
      PROVE  p \in TreeOn(disk, c) <=>
               \/ p = <<"hello">> \/ (\E d \in DirName(disk, c) : p = <<d>>)
               \/ p \in {<<"sub_dir", "..">>, <<"sub_dir", "sub_sub_dir">>}
  <2>1. {<<disk[At(k + 1, j)].name>> : j \in 4 .. 3 + c} = {<<d>> : d \in RootName(disk, c)}
    BY DEF RootName
  <2> QED
    BY <2>1 DEF TreeOn, Example, DirName
<1>8. \A p : p \in ListedPaths <=> p \in TreeOn(disk, c)
  BY <1>4, <1>5, <1>6, <1>7
<1> QED
  BY <1>8

\* What of the disk these depend on.
LEMMA KeepsSpare ==
  ASSUME NEW d, NEW g, Spare(d),
         \A b \in {0, k + 4}, n \in 0 .. Slots - 1 : g[At(b, n)].name = d[At(b, n)].name
  PROVE  Spare(g)
<1>1. 0 \in 0 .. Slots - 1 /\ \A n \in 1 .. Slots - 1 : n \in 0 .. Slots - 1
  BY Geometry
<1>2. \A n \in 0 .. Slots - 1 : g[At(0, n)].name = d[At(0, n)].name
  OBVIOUS
<1>3. \A n \in 0 .. Slots - 1 : g[At(k + 4, n)].name = d[At(k + 4, n)].name
  OBVIOUS
<1> QED
  BY <1>1, <1>2, <1>3 DEF Spare

LEMMA KeepsSettled ==
  ASSUME NEW d, NEW g, NEW c, Settled(d, c),
         \A b \in {k + 1, k + 3}, n \in 0 .. Slots - 1 : Same(g[At(b, n)], d[At(b, n)])
  PROVE  Settled(g, c) /\ TreeOn(g, c) = TreeOn(d, c)
<1>1. c \in 0 .. Slots - 5
  BY DEF Settled
<1>2. /\ 2 \in 0 .. Slots - 1 /\ 4 + c \in 0 .. Slots - 1
      /\ \A j \in 4 .. 3 + c : j \in 0 .. Slots - 1
  BY <1>1, Geometry
<1>3. \A n \in 0 .. Slots - 1 : Same(g[At(k + 1, n)], d[At(k + 1, n)])
  OBVIOUS
<1>4. \A n \in 0 .. Slots - 1 : Same(g[At(k + 3, n)], d[At(k + 3, n)])
  OBVIOUS
<1>5. \A j \in 4 .. 3 + c : g[At(k + 1, j)].name = d[At(k + 1, j)].name
  BY <1>2, <1>3 DEF Same
<1>6. Settled(g, c)
  BY <1>2, <1>3, <1>4 DEF Settled, Same
<1>7. TreeOn(g, c) = TreeOn(d, c)
  BY <1>5 DEF TreeOn
<1> QED
  BY <1>6, <1>7

LEMMA FormattedSpare == Spare(Formatted)
<1>1. /\ 0 \in Nat /\ 0 \in Blocky /\ k + 4 \in Blocky /\ k + 4 \in Nat /\ k + 4 # 0
      /\ 0 \in 0 .. Slots - 1 /\ 1 \in 1 .. Slots - 1
      /\ \A n \in 1 .. Slots - 1 : n \in 0 .. Slots - 1 /\ n # 0
  BY Geometry DEF Blocky
<1>2. At(0, 0) = 0
  BY Geometry DEF At, DIR_SIZE
<1>3. \A n \in 0 .. Slots - 1 : At(0, n) \in Addr /\ At(k + 4, n) \in Addr
  BY <1>1, InAddr
<1>4. \A n \in 1 .. Slots - 1 : At(0, n) # 0
  BY <1>1, Place
<1>5. \A n \in 0 .. Slots - 1 : At(k + 4, n) # 0
  BY <1>1, Place
<1>6. \A x \in Addr : Formatted[x].name = IF x = 0 THEN "superblock" ELSE ""
  BY DEF Formatted, Blank, Header
<1>7. Formatted[At(0, 0)].name = "superblock"
  BY <1>1, <1>2, <1>3, <1>6
<1>8. \A n \in 1 .. Slots - 1 : Formatted[At(0, n)].name = ""
  BY <1>1, <1>3, <1>4, <1>6
<1>9. \A n \in 0 .. Slots - 1 : Formatted[At(k + 4, n)].name = ""
  BY <1>3, <1>5, <1>6
<1> QED
  BY <1>1, <1>7, <1>8, <1>9 DEF Spare

\* A mount leaves the example tree, and the other blocks as they are.
LEMMA MountSettles ==
  ASSUME NEW d \in [Addr -> Headers], FlagsOK(d), d[0].name = "superblock", Spare(d)
  PROVE  Spare(initroot(d)) /\ Settled(initroot(d), 0)
<1> DEFINE e == WriteExample(d)
           r == At(k + 1, 4)
           u == At(k + 3, 2)
           f == WriteEnd(e, r)
           g == WriteEnd(f, u)
<1>1. /\ {0, 1, 2, 3, 4} \subseteq 0 .. Slots - 1 /\ k \in Nat \ {0} /\ k + 4 # k + 1
      /\ {0, k + 1, k + 3, k + 4} \subseteq Blocky \cap Nat /\ Slots \in Nat /\ Slots >= 6
      /\ \A b \in {0, k + 4} : b \notin {k + 1, k + 2, k + 3}
  BY Geometry DEF Blocky
<1>2. g = initroot(d)
  BY DEF initroot
<1>3. /\ r \in Addr /\ u \in Addr /\ Covered(r) = {} /\ Covered(u) = {}
      /\ BlockOf(r) = k + 1 /\ BlockOf(u) = k + 3 /\ r # u
  <2>1. r \in Addr /\ u \in Addr
    BY <1>1, InAddr
  <2>2. Covered(r) = {} /\ Covered(u) = {}
    BY <1>1, CoveredAt
  <2>3. BlockOf(r) = k + 1 /\ BlockOf(u) = k + 3 /\ k + 1 # k + 3
    BY <1>1, Place
  <2> QED
    BY <2>1, <2>2, <2>3
<1>4. ASSUME NEW x \in Addr, BlockOf(x) \notin {k + 1, k + 2, k + 3}
      PROVE  g[x] = d[x]
  <2>1. \A y \in ExampleAddr : BlockOf(y) \in {k + 1, k + 3}
    <3>1. \A n \in 0 .. 3 : BlockOf(At(k + 1, n)) = k + 1
      BY <1>1, Place
    <3>2. \A n \in 0 .. 1 : BlockOf(At(k + 3, n)) = k + 3
      BY <1>1, Place
    <3> QED
      BY <3>1, <3>2 DEF ExampleAddr
  <2>2. e[x] = d[x]
    BY <1>4, <2>1, ExampleFacts
  <2>3. x # r /\ x # u
    BY <1>3, <1>4
  <2> HIDE DEF e, r, u
  <2> QED
    BY <1>3, <2>2, <2>3 DEF WriteEnd
<1>5. ASSUME NEW b \in {0, k + 4}, NEW n \in 0 .. Slots - 1
      PROVE  g[At(b, n)].name = d[At(b, n)].name
  <2>1. At(b, n) \in Addr /\ BlockOf(At(b, n)) = b
    BY <1>1, InAddr, Place
  <2> QED
    BY <1>1, <1>4, <2>1
<1>6. Spare(g)
  <2> HIDE DEF g
  <2> QED
    BY <1>5, KeepsSpare
<1>7. g[r].name = "" /\ g[u].name = ""
  <2>1. e \in [Addr -> Headers]
    BY ExampleInv
  <2> HIDE DEF e, r, u
  <2>2. f \in [Addr -> Headers] /\ f[r].name = ""
    BY <1>3, <2>1, EndFacts
  <2>3. f[r] \in Headers
    BY <1>3, <2>2
  <2> HIDE DEF f
  <2>4. /\ g[u].name = ""
        /\ \A x \in Addr : x # u => g[x] = f[x]
    BY <1>3, <2>2, EndFacts
  <2> QED
    BY <1>3, <2>2, <2>4
<1>8. 0 \in 0 .. Slots - 5 /\ 4 .. 3 + 0 = {} /\ 4 + 0 = 4
  BY <1>1
<1>9. Settled(g, 0)
  BY <1>7, <1>8 DEF Settled
<1> QED
  BY <1>2, <1>6, <1>9

\* A write inside hello's block leaves the names, kinds and blocks of the rest.
LEMMA WriteSame ==
  ASSUME InsideBlock, DiskInv(disk), fh \in {-1, At(k + 1, 1)},
         NEW slot \in Offsets, f32_write(slot)
  PROVE  \A b \in {0, k + 1, k + 3, k + 4}, n \in 0 .. Slots - 1 :
           Same(disk'[At(b, n)], disk[At(b, n)])
<1> DEFINE a == At(k + 2, slot)
           r == At(k + 1, 1)
           w == WriteHeader(disk, a, Text)
           len == disk[r].flen + DIR_SIZE
           g == [w EXCEPT ![r].flen = len]
<1>1. /\ {0, k + 1, k + 2, k + 3, k + 4} \subseteq Blocky \cap Nat /\ k \in Nat \ {0}
      /\ \A b \in {0, k + 1, k + 3, k + 4} : b # k + 2
      /\ 1 \in 0 .. Slots - 1 /\ slot \in 0 .. Slots - 1
      /\ At(k + 1, 1) \in ExampleAddr
  BY Geometry DEF Blocky, ExampleAddr, InsideBlock
<1>2. fh = r
  BY DEF f32_write
<1>3. disk \in [Addr -> Headers] /\ disk[r].sblock = k + 2
  <2>1. Same(disk[r], WriteExample(disk)[r])
    BY <1>1 DEF DiskInv
  <2>2. WriteExample(disk)[r].sblock = k + 2
    <3>1. WriteExample(disk)[r] = Header("hello", HelloLength, k + 2, FLAG_F)
      BY ExampleFacts
    <3> QED
      BY <3>1 DEF Header
  <2> QED
    BY <2>1, <2>2 DEF DiskInv, Same
<1>4. disk' = g
  BY <1>2, <1>3 DEF f32_write
<1>5. Covered(a) = {} /\ BlockOf(a) = k + 2 /\ r \in Addr
  <2>1. r \in Addr
    BY <1>1, InAddr
  <2>2. Covered(a) = {}
    BY <1>1, CoveredAt
  <2>3. BlockOf(a) = k + 2
    BY <1>1, Place
  <2> QED
    BY <2>1, <2>2, <2>3
<1> HIDE DEF a, r, len
<1>6. DOMAIN w = Addr /\ \A x \in Addr : x # a => w[x] = disk[x]
  BY <1>5 DEF WriteHeader
<1> HIDE DEF w
<1>7. ASSUME NEW x \in Addr, x # a
      PROVE  Same(g[x], disk[x])
  <2>1. CASE x = r
    <3>1. w[r] = disk[r] /\ disk[r] \in Headers
      BY <1>3, <1>5, <1>6, <1>7, <2>1
    <3>2. PICK h \in Headers : h = w[r] /\ h = disk[r]
      BY <3>1
    <3>3. g[r] = [h EXCEPT !.flen = len]
      BY <1>5, <1>6, <3>2
    <3>4. Same([h EXCEPT !.flen = len], h)
      BY <3>2 DEF Headers, Same
    <3> QED
      BY <2>1, <3>2, <3>3, <3>4
  <2>2. CASE x # r
    <3>1. g[x] = disk[x]
      BY <1>6, <1>7, <2>2
    <3> QED
      BY <3>1 DEF Same
  <2> QED
    BY <2>1, <2>2
<1> HIDE DEF g
<1>8. ASSUME NEW b \in {0, k + 1, k + 3, k + 4}, NEW n \in 0 .. Slots - 1
      PROVE  Same(disk'[At(b, n)], disk[At(b, n)])
  <2>1. b \in Blocky /\ b \in Nat
    BY <1>1
  <2>2. At(b, n) \in Addr /\ BlockOf(At(b, n)) = b
    BY <2>1, InAddr, Place
  <2>3. At(b, n) # a
    BY <1>1, <1>5, <2>2
  <2> QED
    BY <1>4, <1>7, <2>2, <2>3
<1> QED
  BY <1>8

\* No mkdir puts a name that users see into the other blocks: the end mark of a
\* full sub_dir is an empty name, and past a full root the new header covers
\* half of a header of block 0 and the end mark half of the next.
LEMMA MkdirSpareIn ==
  ASSUME DiskInv(disk), TableKept, Spare(disk), NEW name \in Name, NEW b \in {k + 1, k + 3},
         NEW m \in 0 .. Slots - 1
  PROVE  Spare(mkdir_disk(At(b, m), name))
<1> DEFINE a == At(b, m)
           h == Directory(name, new_block)
           w == WriteHeader(disk, a, h)
           e == a + DIR_SIZE
           g == WriteEnd(w, e)
<1>1. /\ Slots \in Nat /\ b \in Nat \ {0} /\ b \in Blocky /\ b + 1 \in Nat /\ b + 1 \in Blocky
      /\ b \notin {0, k + 4} /\ b + 1 # 0 /\ 0 # k + 4
      /\ {0, k + 4} \subseteq Blocky \cap Nat /\ 0 \in 0 .. Slots - 1
      /\ \A n \in 1 .. Slots - 1 : n \in 0 .. Slots - 1
      /\ \A n \in 0 .. Slots - 1 : n = 0 \/ n \in 1 .. Slots - 1
  BY Geometry DEF Blocky
<1>2. PICK c \in {b, b + 1}, j \in 0 .. Slots - 1 : e = At(c, j)
  <2>1. CASE m < Slots - 1
    <3>1. e = At(b, m + 1) /\ m + 1 \in 0 .. Slots - 1
      BY <1>1, <2>1, Place
    <3> QED
      BY <3>1
  <2>2. CASE m = Slots - 1
    <3>1. e = At(b + 1, 0)
      BY <1>1, <2>2, Place
    <3> QED
      BY <1>1, <3>1
  <2> QED
    BY <1>1, <2>1, <2>2
<1>3. c \in Nat \ {0} /\ c \in Blocky
  BY <1>1
<1>4. /\ a \in Addr /\ e \in Addr /\ Covered(a) = {} /\ Covered(e) = {}
      /\ BlockOf(a) = b /\ BlockOf(e) = c
  <2>1. a \in Addr /\ e \in Addr
    BY <1>1, <1>2, <1>3, InAddr
  <2>2. Covered(a) = {}
    BY <1>1, CoveredAt
  <2>3. Covered(e) = {}
    BY <1>2, <1>3, CoveredAt
  <2>4. BlockOf(a) = b
    BY <1>1, Place
  <2>5. BlockOf(e) = c
    BY <1>2, <1>3, Place
  <2> QED
    BY <2>1, <2>2, <2>3, <2>4, <2>5
<1>5. g = mkdir_disk(At(b, m), name)
  BY DEF mkdir_disk
<1>6. w \in [Addr -> Headers]
  <2>1. h \in Headers /\ disk \in [Addr -> Headers]
    BY NewDirectory DEF DiskInv
  <2> HIDE DEF h
  <2> QED
    BY <1>4, <2>1, WriteFacts
<1> HIDE DEF a, e, h
<1>7. \A x \in Addr : x # a => w[x] = disk[x]
  BY <1>4 DEF WriteHeader
<1> HIDE DEF w
<1>8. g[e].name = "" /\ \A x \in Addr : x # e => g[x] = w[x]
  BY <1>4, <1>6, EndFacts
<1> HIDE DEF g
<1>9. ASSUME NEW d \in {0, k + 4}, NEW n \in 0 .. Slots - 1
      PROVE  \/ g[At(d, n)].name = disk[At(d, n)].name
             \/ d = k + 4 /\ g[At(d, n)].name = ""
  <2>1. At(d, n) \in Addr /\ BlockOf(At(d, n)) = d
    BY <1>1, InAddr, Place
  <2>2. At(d, n) # a
    BY <1>1, <1>4, <2>1
  <2>3. At(d, n) = e => d # 0
    BY <1>3, <1>4, <2>1
  <2>4. CASE At(d, n) = e
    <3>1. d = k + 4
      BY <2>3, <2>4
    <3> QED
      BY <1>8, <2>4, <3>1
  <2>5. CASE At(d, n) # e
    <3>1. g[At(d, n)] = disk[At(d, n)]
      BY <1>7, <1>8, <2>1, <2>2, <2>5
    <3> QED
      BY <3>1
  <2> QED
    BY <2>4, <2>5
<1>10. \A n \in 0 .. Slots - 1 : g[At(0, n)].name = disk[At(0, n)].name
  BY <1>1, <1>9, Zenon
<1>11. \A n \in 0 .. Slots - 1 : g[At(k + 4, n)].name = ""
  BY <1>9 DEF Spare
<1>12. Spare(g)
  BY <1>1, <1>10, <1>11 DEF Spare
<1> QED
  BY <1>5, <1>12

LEMMA MkdirSpareOver ==
  ASSUME DiskInv(disk), TableKept, Spare(disk), NEW name \in Name, NEW a, OverrunEnd(a)
  PROVE  Spare(mkdir_disk(a, name))
<1> DEFINE h == Directory(name, new_block)
           w == WriteHeader(disk, a, h)
           e == a + DIR_SIZE
           g == WriteEnd(w, e)
<1>1. mkdir_disk(a, name) = g
  BY DEF mkdir_disk
<1>2. a \in Overrun /\ e \in Overrun /\ a \in Addr /\ e \in Addr
  BY OverrunPlace DEF OverrunEnd
<1>3. h \in Headers /\ disk \in [Addr -> Headers]
  BY NewDirectory DEF DiskInv
<1>4. /\ {0, k + 4} \subseteq Blocky \cap Nat /\ k + 4 # 0 /\ 0 \in 0 .. Slots - 1
      /\ \A n \in 1 .. Slots - 1 : n \in 0 .. Slots - 1 /\ n # 0
  BY Geometry DEF Blocky
<1> HIDE DEF h, e
<1>5. PICK i1 \in 1 .. Slots - 1, i2 \in 1 .. Slots - 1 :
        Covered(a) = {At(0, i1)} /\ Covered(e) = {At(0, i2)}
  BY <1>2, OverrunPlace
<1>6. w \in [Addr -> Headers]
  BY <1>2, <1>3, WriteFacts
<1>7. ASSUME NEW b \in {0, k + 4}, NEW n \in 0 .. Slots - 1
      PROVE  /\ At(b, n) \in Addr /\ At(b, n) # a /\ At(b, n) # e
             /\ At(b, n) = At(0, i1) => b = 0 /\ n = i1
             /\ At(b, n) = At(0, i2) => b = 0 /\ n = i2
  <2>1. At(b, n) \in Addr /\ b \in Nat
    BY <1>4, InAddr
  <2>2. At(b, n) # a /\ At(b, n) # e
    BY <1>2, <2>1, OverrunPlace
  <2>3. i1 \in 0 .. Slots - 1 /\ i2 \in 0 .. Slots - 1 /\ 0 \in Nat
    BY <1>4
  <2> QED
    BY <2>1, <2>2, <2>3, OnePlace
<1>8. ASSUME NEW b \in {0, k + 4}, NEW n \in 0 .. Slots - 1
      PROVE  w[At(b, n)].name = IF b = 0 /\ n = i1 THEN "tail" ELSE disk[At(b, n)].name
  <2>1. CASE At(b, n) = At(0, i1)
    <3>1. w[At(b, n)] = [disk[At(b, n)] EXCEPT !.name = "tail"]
      BY <1>5, <1>7, <2>1 DEF WriteHeader
    <3>2. PICK u \in Headers : u = disk[At(b, n)]
      BY <1>3, <1>7
    <3>3. [u EXCEPT !.name = "tail"].name = "tail"
      BY <3>2 DEF Headers
    <3> QED
      BY <1>7, <2>1, <3>1, <3>2, <3>3
  <2>2. CASE At(b, n) # At(0, i1)
    <3>1. w[At(b, n)] = disk[At(b, n)]
      BY <1>5, <1>7, <2>2 DEF WriteHeader
    <3>2. ~ (b = 0 /\ n = i1)
      BY <2>2
    <3> QED
      BY <3>1, <3>2
  <2> QED
    BY <2>1, <2>2
<1> HIDE DEF w
<1>9. ASSUME NEW b \in {0, k + 4}, NEW n \in 0 .. Slots - 1
      PROVE  g[At(b, n)].name = IF b = 0 /\ n = i2 THEN "" ELSE w[At(b, n)].name
  <2>1. CASE At(b, n) = At(0, i2)
    <3>1. g[At(b, n)] = [w[At(b, n)] EXCEPT !.name = ""]
      BY <1>5, <1>7, <2>1 DEF WriteEnd
    <3>2. PICK u \in Headers : u = w[At(b, n)]
      BY <1>6, <1>7
    <3>3. [u EXCEPT !.name = ""].name = ""
      BY <3>2 DEF Headers
    <3> QED
      BY <1>7, <2>1, <3>1, <3>2, <3>3
  <2>2. CASE At(b, n) # At(0, i2)
    <3>1. g[At(b, n)] = w[At(b, n)]
      BY <1>5, <1>7, <2>2 DEF WriteEnd
    <3>2. ~ (b = 0 /\ n = i2)
      BY <2>2
    <3> QED
      BY <3>1, <3>2
  <2> QED
    BY <2>1, <2>2
<1> HIDE DEF g
<1>10. g[At(0, 0)].name = "superblock"
  <2>1. 0 \in 0 .. Slots - 1 /\ 0 \in {0, k + 4} /\ 0 # i1 /\ 0 # i2
    BY <1>4
  <2>2. g[At(0, 0)].name = disk[At(0, 0)].name
    BY <1>8, <1>9, <2>1
  <2> QED
    BY <2>2 DEF Spare
<1>11. \A n \in 1 .. Slots - 1 : g[At(0, n)].name \in {"", "tail"}
  BY <1>4, <1>8, <1>9 DEF Spare
<1>12. g[At(0, i2)].name = ""
  BY <1>4, <1>9
<1>13. \A n \in 0 .. Slots - 1 : g[At(k + 4, n)].name = ""
  BY <1>4, <1>8, <1>9 DEF Spare
<1> QED
  BY <1>1, <1>10, <1>11, <1>12, <1>13 DEF Spare

LEMMA MkdirSpare ==
  ASSUME DiskInv(disk), TableKept, Spare(disk), NEW parent \in Parents, NEW name \in Name,
         f32_mkdir(parent, name)
  PROVE  Spare(disk')
<1>1. CASE IntoTable(parent)
  BY <1>1 DEF IntoTable
<1>2. ASSUME NEW seeki, disk' = mkdir_disk(seeki, name),
             \/ \E b \in {k + 1, k + 3} : \E m \in 1 .. Slots - 1 :
                  seeki = At(b, m) /\ FirstEmpty(b, m)
             \/ OverrunEnd(seeki) /\ RootFull(disk)
      PROVE  Spare(disk')
  <2>1. \A m \in 1 .. Slots - 1 : m \in 0 .. Slots - 1
    BY Geometry
  <2> QED
    BY <1>2, <2>1, MkdirSpareIn, MkdirSpareOver
<1> QED
  BY <1>1, <1>2, MkdirPlace

\* A mkdir in a root that has room takes the end mark's place and moves it on:
\* the tree has one path more.
LEMMA MkdirSettles ==
  ASSUME DiskInv(disk), TableKept, NEW c \in Nat, Settled(disk, c), c + 1 <= Slots - 5,
         NEW name \in Name, f32_mkdir(<<>>, name)
  PROVE  /\ Settled(disk', c + 1)
         /\ TreeOn(disk', c + 1) = TreeOn(disk, c) \cup {<<name>>}
<1> DEFINE s == 4 + c
           a == At(k + 1, s)
           h == Directory(name, new_block)
           w == WriteHeader(disk, a, h)
           e == a + DIR_SIZE
           g == WriteEnd(w, e)
<1>1. /\ k + 1 \in Nat /\ k + 3 \in Nat /\ k + 1 # k + 3 /\ k + 1 \in Blocky
      /\ 0 \in 0 .. Slots - 1 /\ 2 \in 0 .. Slots - 1
      /\ s \in 0 .. Slots - 1 /\ s + 1 \in 0 .. Slots - 1 /\ s < Slots - 1
      /\ s - 1 = 3 + c /\ 3 + (c + 1) = s /\ 4 + (c + 1) = s + 1
      /\ c + 1 \in 0 .. Slots - 5
      /\ \A j \in 4 .. 3 + c : j \in 0 .. Slots - 1 /\ j \notin {s, s + 1}
      /\ 4 .. s = (4 .. 3 + c) \cup {s}
  <2>1. /\ k \in Nat /\ Slots \in Nat /\ Slots >= 6 /\ s \in Nat
        /\ s + 1 <= Slots - 1 /\ s >= 4 /\ s - 1 = 3 + c
    BY Geometry
  <2>2. k + 1 \in Nat /\ k + 3 \in Nat /\ k + 1 # k + 3 /\ k + 1 \in Blocky
    BY <2>1 DEF Blocky
  <2>3. 3 + (c + 1) = s /\ 4 + (c + 1) = s + 1 /\ c + 1 \in 0 .. Slots - 5
    BY <2>1
  <2>4. \A j \in 4 .. 3 + c : j \in 0 .. Slots - 1 /\ j \notin {s, s + 1}
    BY <2>1
  <2>5. 4 .. s = (4 .. s - 1) \cup {s}
    <3> HIDE DEF s
    <3> QED
      BY <2>1
  <2> HIDE DEF s
  <2>6. /\ 0 \in 0 .. Slots - 1 /\ 2 \in 0 .. Slots - 1
        /\ s \in 0 .. Slots - 1 /\ s + 1 \in 0 .. Slots - 1 /\ s < Slots - 1
    BY <2>1
  <2> QED
    BY <2>1, <2>2, <2>3, <2>4, <2>5, <2>6
<1>2. disk' = g
  <2>1. ParentSeek(<<>>) = At(k + 1, 0)
    BY DEF ParentSeek, starting_block
  <2>2. FirstEmpty(k + 1, s)
    BY RootSlots
  <2>3. Empty(Walk(At(k + 1, 0))) # {}
    <3>1. Walk(At(k + 1, 0)) = {At(k + 1, m) : m \in 0 .. Slots - 1}
      BY <1>1, WalkAt
    <3>2. a \in Walk(At(k + 1, 0))
      BY <1>1, <3>1
    <3> QED
      BY <2>2, <3>2 DEF Empty, FirstEmpty
  <2>4. PICK seeki \in EndOf(At(k + 1, 0)) : disk' = mkdir_disk(seeki, name)
    BY <2>1, <2>3 DEF f32_mkdir, WalkStops
  <2>5. \/ \E m \in 0 .. Slots - 1 :
             /\ seeki = At(k + 1, m) /\ disk[seeki].name = ""
             /\ \A j \in 0 .. m - 1 : disk[At(k + 1, j)].name # ""
        \/ OverrunEnd(seeki) /\ WalkGoesOn(At(k + 1, 0)) /\ Empty(Walk(At(k + 1, 0))) = {}
    BY <1>1, <2>4, EndOfFacts
  <2>6. PICK m \in 0 .. Slots - 1 :
          seeki = At(k + 1, m) /\ FirstEmpty(k + 1, m)
    BY <2>5, <2>3 DEF FirstEmpty
  <2>7. m = s
    <3>1. m \notin 0 .. s - 1 /\ s \notin 0 .. m - 1
      BY <2>2, <2>6 DEF FirstEmpty
    <3>2. m \in Nat /\ s \in Nat
      BY Geometry
    <3> HIDE DEF s
    <3> QED
      BY <3>1, <3>2
  <2>8. seeki = a
    BY <2>6, <2>7
  <2>9. mkdir_disk(a, name) = g
    BY DEF mkdir_disk
  <2> HIDE DEF a, g
  <2> QED
    BY <2>4, <2>8, <2>9
<1>3. e = At(k + 1, s + 1)
  BY <1>1, Place
<1>4. /\ a \in Addr /\ e \in Addr /\ a # e /\ Covered(a) = {} /\ Covered(e) = {}
  <2>1. a \in Addr /\ At(k + 1, s + 1) \in Addr
    BY <1>1, InAddr
  <2>2. Covered(a) = {}
    BY <1>1, CoveredAt
  <2>3. Covered(At(k + 1, s + 1)) = {}
    BY <1>1, CoveredAt
  <2>4. a # At(k + 1, s + 1)
    <3>1. s # s + 1
      BY <1>1
    <3> HIDE DEF s
    <3> QED
      BY <1>1, <3>1, OnePlace
  <2> QED
    BY <1>3, <2>1, <2>2, <2>3, <2>4
<1>5. h \in Headers /\ disk \in [Addr -> Headers]
  BY NewDirectory DEF DiskInv
<1>6. /\ h.name = name /\ h.flag = FLAG_D /\ h.sblock = k + 4
  BY NewBlock DEF Directory, Header
<1>7. \A d \in {k + 1, k + 3}, n \in 0 .. Slots - 1 :
        d # k + 1 \/ n \notin {s, s + 1} => g[At(d, n)] = disk[At(d, n)]
  <2>1. g = mkdir_disk(At(k + 1, s), name)
    BY DEF mkdir_disk
  <2>2. s \in 0 .. Slots - 1 /\ k + 1 \in {k + 1, k + 3}
    BY <1>1
  <2> HIDE DEF g, s
  <2> QED
    BY <2>1, <2>2, MkdirSlots
<1> HIDE DEF a, e, h, s
<1>8. w \in [Addr -> Headers] /\ w[a] = h
  <2>1. w \in [Addr -> Headers]
    BY <1>4, <1>5, WriteFacts
  <2> QED
    BY <1>4, <2>1 DEF WriteHeader
<1> HIDE DEF w
<1>9. /\ g[e].name = ""
      /\ \A x \in Addr : x # e => g[x] = w[x]
  BY <1>4, <1>8, EndFacts
<1>10. g[a] = h
  BY <1>4, <1>8, <1>9
<1> HIDE DEF g
<1>11. /\ g[At(k + 1, s)] = h /\ g[At(k + 1, s + 1)].name = ""
  BY <1>3, <1>9, <1>10 DEF a
<1>12. \A j \in 4 .. 3 + c : g[At(k + 1, j)] = disk[At(k + 1, j)]
  BY <1>1, <1>7
<1>13. g[At(k + 3, 2)] = disk[At(k + 3, 2)]
  BY <1>1, <1>7
<1>14. ASSUME NEW j \in 4 .. s
       PROVE  /\ g[At(k + 1, j)].name \in Name
              /\ g[At(k + 1, j)].flag = FLAG_D /\ g[At(k + 1, j)].sblock = k + 4
  <2>1. CASE j = s
    BY <1>6, <1>11, <2>1
  <2>2. CASE j \in 4 .. 3 + c
    BY <1>12, <2>2 DEF Settled
  <2> QED
    BY <1>1, <2>1, <2>2
<1>15. Settled(g, c + 1)
  <2>1. \A j \in 4 .. 3 + (c + 1) :
          /\ g[At(k + 1, j)].name \in Name
          /\ g[At(k + 1, j)].flag = FLAG_D /\ g[At(k + 1, j)].sblock = k + 4
    BY <1>1, <1>14, Zenon
  <2>2. g[At(k + 1, 4 + (c + 1))].name = ""
    BY <1>1, <1>11, Zenon
  <2>3. g[At(k + 3, 2)].name = ""
    BY <1>13 DEF Settled
  <2> QED
    BY <1>1, <2>1, <2>2, <2>3, Zenon DEF Settled
<1>16. TreeOn(g, c + 1) = TreeOn(disk, c) \cup {<<name>>}
  <2>1. {<<g[At(k + 1, j)].name>> : j \in 4 .. s}
          = {<<g[At(k + 1, j)].name>> : j \in 4 .. 3 + c} \cup {<<g[At(k + 1, s)].name>>}
    BY <1>1
  <2>2. {<<g[At(k + 1, j)].name>> : j \in 4 .. 3 + c}
          = {<<disk[At(k + 1, j)].name>> : j \in 4 .. 3 + c}
    BY <1>12
  <2>3. g[At(k + 1, s)].name = name
    BY <1>6, <1>11
  <2> QED
    BY <1>1, <2>1, <2>2, <2>3 DEF TreeOn
<1> QED
  BY <1>2, <1>15, <1>16
-----------------------------------------------------------------------------
(* From the empty file to the mounted file system.                          *)

\* A disk that was never mounted is as the formatter left it, table and all.
MountedInv ==
  /\ mounted => FsInv /\ Spare(disk)
  /\ ~ mounted => disk = Formatted /\ fat = FatTable(num_blocks)

LEMMA MountedDisk ==
  ASSUME MountedInv
  PROVE  /\ disk \in [Addr -> Headers] /\ FlagsOK(disk) /\ disk[0].name = "superblock"
         /\ Spare(disk)
BY FormattedFacts, FormattedSpare DEF MountedInv, FsInv, DiskInv

LEMMA MountStep ==
  ASSUME MountedInv, Mount
  PROVE  /\ DiskInv(disk') /\ TableKept' /\ Spare(disk') /\ Settled(disk', 0)
         /\ made' = 0 /\ fh' = -1
<1>1. disk' = initroot(disk) /\ fat' = Marked(fat) /\ made' = 0 /\ fh' = -1
  BY DEF Mount
<1>2. DiskInv(initroot(disk))
  BY MountedDisk, MountInv
<1>3. Spare(initroot(disk)) /\ Settled(initroot(disk), 0)
  BY MountedDisk, MountSettles
<1>4. TableKept'
  <2>1. TableKept \/ fat = FatTable(num_blocks)
    BY DEF MountedInv, FsInv
  <2> QED
    BY <1>1, <2>1, MarkedKept
<1> QED
  BY <1>1, <1>2, <1>3, <1>4

LEMMA CallbackSpare ==
  ASSUME InsideBlock, FsInv, Spare(disk), Callback
  PROVE  Spare(disk')
<1>1. DiskInv(disk) /\ TableKept /\ fh \in {-1, At(k + 1, 1)}
  BY DEF FsInv
<1>2. ASSUME NEW parent \in Parents, NEW name \in Name, f32_mkdir(parent, name)
      PROVE  Spare(disk')
  BY <1>1, <1>2, MkdirSpare
<1>3. CASE f32_open
  BY <1>3 DEF f32_open
<1>4. ASSUME NEW at \in Offsets, f32_write(at)
      PROVE  Spare(disk')
  <2>1. \A b \in {0, k + 1, k + 3, k + 4}, n \in 0 .. Slots - 1 :
          Same(disk'[At(b, n)], disk[At(b, n)])
    BY <1>1, <1>4, WriteSame
  <2>2. \A b \in {0, k + 4}, n \in 0 .. Slots - 1 :
          disk'[At(b, n)].name = disk[At(b, n)].name
    BY <2>1 DEF Same
  <2> QED
    BY <2>2, KeepsSpare
<1> QED
  BY <1>2, <1>3, <1>4 DEF Callback

LEMMA MountedNextInv ==
  ASSUME InsideBlock
  PROVE  MountedInv /\ [Format \/ MountDisk \/ Callback]_allVars => MountedInv'
<1> SUFFICES ASSUME MountedInv, [Format \/ MountDisk \/ Callback]_allVars
             PROVE  MountedInv'
  OBVIOUS
<1>1. CASE Format \/ UNCHANGED allVars
  <2>1. /\ disk' = disk /\ fat' = fat /\ fh' = fh /\ mounted' = mounted
        /\ Spare(disk') = Spare(disk)
    BY <1>1 DEF Format, allVars, vars
  <2> QED
    BY <2>1, TableSame DEF MountedInv, FsInv
<1>2. CASE MountDisk
  <2>1. Mount /\ mounted'
    BY <1>2 DEF MountDisk
  <2> QED
    BY <2>1, MountStep DEF MountedInv, FsInv
<1>3. CASE Callback
  <2>1. mounted /\ mounted' /\ FsInv /\ Spare(disk)
    BY <1>3 DEF Callback, MountedInv
  <2>2. [Next]_vars
    BY <1>3 DEF Callback, Next
  <2>3. FsInv'
    BY <2>1, <2>2, FsNextInv
  <2> QED
    BY <1>3, <2>1, <2>3, CallbackSpare DEF MountedInv
<1> QED
  BY <1>1, <1>2, <1>3

\* From the first mount on the file system's invariant holds on the disk that
\* the formatter made, and no directory shows what others left behind.
THEOREM MountedInvariance ==
  ASSUME InsideBlock
  PROVE  FormatMountSpec => []MountedInv
<1>1. FormatInit => MountedInv
  BY DEF FormatInit, MountedInv
<1>2. MountedInv /\ [Format \/ MountDisk \/ Callback]_allVars => MountedInv'
  BY MountedNextInv
<1> QED
  BY <1>1, <1>2, PTL DEF FormatMountSpec

\* What main reads at a mount is what the file system is written for, and the
\* table on the disk is the one it looks for free blocks in, also after a mkdir
\* has written over entries that are never looked at.
THEOREM HandoverHolds ==
  ASSUME InsideBlock
  PROVE  FormatMountSpec => []Handover
<1>1. ImageInv /\ TableCorrect /\ MountedInv => Handover
  <2> SUFFICES ASSUME ImageInv, TableCorrect, MountedInv, mounted
      PROVE  /\ SubSeq(image, 1, 5) = <<MAGIC_NUMBER, num_blocks, k, block_size, starting_block>>
             /\ \A b \in DOMAIN fat :
                  b \notin (starting_block .. starting_block + 2) \cup Overwritten =>
                    image[pointers_per_block + b + 1] = fat[b]
    BY DEF Handover, SuperblockRead
  <2>1. phase = "done" /\ blocks = num_blocks /\ blocks \in NumBlocks /\ Looping
    BY DEF ImageInv, Loops
  <2>2. Table = k /\ Table + 1 = starting_block /\ k \in Nat
    BY <2>1, Sizes DEF Table, k, starting_block
  <2>3. SubSeq(image, 1, 5) = <<MAGIC_NUMBER, num_blocks, k, block_size, starting_block>>
    BY <2>1, <2>2, SuperblockReadOK
  <2>4. /\ DOMAIN fat = DOMAIN Marked(FatTable(num_blocks))
        /\ \A b \in DOMAIN fat \ Overwritten : fat[b] = Marked(FatTable(num_blocks))[b]
    BY DEF MountedInv, FsInv, TableKept
  <2>5. ASSUME NEW b \in DOMAIN fat,
               b \notin (starting_block .. starting_block + 2) \cup Overwritten
        PROVE  image[pointers_per_block + b + 1] = fat[b]
    <3>1. b \in DOMAIN FatTable(num_blocks)
      BY <2>4 DEF Marked
    <3>2. b \notin k + 1 .. k + 3
      BY <2>2, <2>5 DEF starting_block
    <3>3. fat[b] = FatTable(num_blocks)[b]
      BY <2>4, <2>5, <3>1, <3>2 DEF Marked
    <3>4. image[pointers_per_block + b + 1] = FatTable(blocks)[b]
      BY <2>1, <3>1, SameLayout DEF TableCorrect, Disk!TableCorrect
    <3> QED
      BY <2>1, <3>3, <3>4
  <2> QED
    BY <2>3, <2>5
<1> QED
  BY <1>1, ImageInvariance, TableIsRight, MountedInvariance, PTL

LEMMA FreshTree ==
  DiskInv(disk) /\ Spare(disk) /\ Settled(disk, 0) =>
    FoundPaths = Example /\ ListedPaths = Example
<1>1. TreeOn(disk, 0) = Example
  <2>1. 4 .. 3 + 0 = {}
    OBVIOUS
  <2> QED
    BY <2>1 DEF TreeOn
<1> QED
  BY <1>1, FoundAre, ListedAre

\* Every mount leaves the example tree and nothing else, both for who looks a
\* path up and for who lists the directories.
THEOREM MountLeavesExample ==
  ASSUME InsideBlock
  PROVE  FormatMountSpec => MountIsExample
<1>1. (DiskInv(disk) /\ Spare(disk) /\ Settled(disk, 0) =>
         FoundPaths = Example /\ ListedPaths = Example)'
  BY FreshTree, PTL
<1>2. MountedInv /\ MountDisk => FoundPaths' = Example /\ ListedPaths' = Example
  BY <1>1, MountStep DEF MountDisk
<1>3. MountedInv /\ [Format \/ MountDisk \/ Callback]_allVars =>
        [MountDisk => FoundPaths' = Example /\ ListedPaths' = Example]_allVars
  BY <1>2
<1> QED
  BY <1>3, MountedInvariance, PTL DEF FormatMountSpec, MountIsExample

\* Users make directories in the root alone, and no more than it has room for.
RootHasRoom == Parents \subseteq {<<>>} /\ MaxMade <= Slots - 5

\* The root has the directories made since the mount and then its end mark.
RoomInv == mounted => Settled(disk, made) /\ made \in 0 .. MaxMade

\* The tree of DirTree.
SeenTree == IF mounted THEN TreeOn(disk, made) ELSE Example

LEMMA SeenIs ==
  MountedInv /\ RoomInv => Seen(FoundPaths) = SeenTree /\ Seen(ListedPaths) = SeenTree
<1> SUFFICES ASSUME MountedInv, RoomInv
             PROVE  Seen(FoundPaths) = SeenTree /\ Seen(ListedPaths) = SeenTree
  OBVIOUS
<1>1. CASE mounted
  <2>1. DiskInv(disk) /\ Spare(disk) /\ Settled(disk, made)
    BY <1>1 DEF MountedInv, RoomInv, FsInv
  <2> QED
    BY <1>1, <2>1, FoundAre, ListedAre DEF Seen, SeenTree
<1>2. CASE ~ mounted
  BY <1>2 DEF Seen, SeenTree
<1> QED
  BY <1>1, <1>2

\* A directory that is made in the root: it was not there, and now it is.
OneMore(name) ==
  /\ mounted /\ mounted'
  /\ <<name>> \notin TreeOn(disk, made)
  /\ TreeOn(disk', made') = TreeOn(disk, made) \cup {<<name>>}

LEMMA MkdirRoom ==
  ASSUME RootHasRoom, MountedInv, RoomInv, mounted, mounted',
         NEW parent \in Parents, NEW name \in Name, f32_mkdir(parent, name)
  PROVE  RoomInv' /\ OneMore(name)
<1>1. DiskInv(disk) /\ TableKept /\ Settled(disk, made) /\ made \in Nat
  BY DEF MountedInv, RoomInv, FsInv
<1>2. parent = <<>> /\ MaxMade \in Nat /\ MaxMade <= Slots - 5 /\ Slots \in Nat
  BY Geometry, FatFsAssumption DEF RootHasRoom
<1>3. made < MaxMade /\ made' = made + 1
  BY DEF f32_mkdir
<1>4. made + 1 <= Slots - 5 /\ made' \in 0 .. MaxMade
  BY <1>1, <1>2, <1>3
<1>5. /\ Settled(disk', made + 1)
      /\ TreeOn(disk', made + 1) = TreeOn(disk, made) \cup {<<name>>}
  <2>1. f32_mkdir(<<>>, name)
    BY <1>2
  <2> QED
    BY <1>1, <1>4, <2>1, MkdirSettles
<1>6. <<name>> \notin TreeOn(disk, made)
  <2>1. Append(<<>>, name) = <<name>>
    OBVIOUS
  <2>2. path_to_addr(<<name>>) = 0
    BY <1>2, <2>1 DEF f32_mkdir
  <2>3. name \in Visible
    BY NamesApart
  <2>4. name # "hello" /\ name \notin DirName(disk, made)
    BY <1>1, <2>2, <2>3, RootLookup
  <2>5. ASSUME NEW j \in 4 .. 3 + made, <<name>> = <<disk[At(k + 1, j)].name>>
        PROVE  FALSE
    <3>1. name = disk[At(k + 1, j)].name
      BY <2>5
    <3> QED
      BY <2>4, <3>1 DEF DirName, RootName
  <2>6. <<name>> \notin Example
    BY <2>4 DEF Example, DirName
  <2> QED
    BY <2>5, <2>6 DEF TreeOn
<1> QED
  BY <1>3, <1>4, <1>5, <1>6 DEF RoomInv, OneMore

\* The other callbacks leave the tree as it is.
LEMMA CallbackRoom ==
  ASSUME InsideBlock, RootHasRoom, MountedInv, RoomInv, Callback
  PROVE  /\ RoomInv'
         /\ SeenTree' = SeenTree \/ \E name \in Name : OneMore(name)
<1>1. mounted /\ mounted' /\ DiskInv(disk) /\ Settled(disk, made)
      /\ made \in 0 .. MaxMade /\ fh \in {-1, At(k + 1, 1)}
  BY DEF Callback, MountedInv, RoomInv, FsInv
<1>2. ASSUME NEW parent \in Parents, NEW name \in Name, f32_mkdir(parent, name)
      PROVE  RoomInv' /\ OneMore(name)
  BY <1>1, <1>2, MkdirRoom
<1>3. CASE f32_open
  BY <1>1, <1>3 DEF f32_open, RoomInv, SeenTree
<1>4. ASSUME NEW at \in Offsets, f32_write(at)
      PROVE  RoomInv' /\ SeenTree' = SeenTree
  <2>1. \A b \in {0, k + 1, k + 3, k + 4}, n \in 0 .. Slots - 1 :
          Same(disk'[At(b, n)], disk[At(b, n)])
    BY <1>1, <1>4, WriteSame
  <2>2. Settled(disk', made) /\ TreeOn(disk', made) = TreeOn(disk, made)
    BY <1>1, <2>1, KeepsSettled
  <2>3. made' = made
    BY <1>4 DEF f32_write
  <2> QED
    BY <1>1, <2>2, <2>3 DEF RoomInv, SeenTree
<1> QED
  BY <1>2, <1>3, <1>4 DEF Callback

\* One step of the image and of the file system, as DirTree sees it.
LEMMA TreeStep ==
  ASSUME InsideBlock, RootHasRoom, MountedInv, RoomInv,
         [Format \/ MountDisk \/ Callback]_allVars
  PROVE  /\ RoomInv'
         /\ \/ SeenTree' = SeenTree
            \/ SeenTree' = Example
            \/ \E name \in Name : OneMore(name)
<1>1. CASE Format \/ UNCHANGED allVars
  BY <1>1 DEF Format, allVars, vars, RoomInv, SeenTree
<1>2. CASE MountDisk
  <2>1. mounted' /\ Mount
    BY <1>2 DEF MountDisk
  <2>2. Settled(disk', 0) /\ made' = 0
    BY <2>1, MountStep
  <2>3. 0 \in 0 .. MaxMade
    BY FatFsAssumption
  <2>4. TreeOn(disk', 0) = Example
    <3>1. 4 .. 3 + 0 = {}
      OBVIOUS
    <3> QED
      BY <3>1 DEF TreeOn
  <2> QED
    BY <2>1, <2>2, <2>3, <2>4 DEF RoomInv, SeenTree
<1>3. CASE Callback
  BY <1>3, CallbackRoom
<1> QED
  BY <1>1, <1>2, <1>3

LEMMA RoomInvariance ==
  ASSUME InsideBlock, RootHasRoom
  PROVE  FormatMountSpec => []RoomInv
<1>1. FormatInit => RoomInv
  BY DEF FormatInit, RoomInv
<1>2. MountedInv /\ RoomInv /\ [Format \/ MountDisk \/ Callback]_allVars => RoomInv'
  BY TreeStep
<1> QED
  BY <1>1, <1>2, MountedInvariance, PTL DEF FormatMountSpec

\* While users make directories in the root alone and it has room, the paths
\* that path_to_addr finds are those of DirTree: a mkdir adds its own, and a
\* mount goes back to the example.
THEOREM LookupImplementsDirTree ==
  ASSUME InsideBlock, RootHasRoom
  PROVE  FormatMountSpec => TreeByLookup
<1>1. FormatInit => SeenByLookup!Init
  BY DEF FormatInit, SeenByLookup!Init, Seen
<1>2. (MountedInv /\ RoomInv => Seen(FoundPaths) = SeenTree /\ Seen(ListedPaths) = SeenTree)'
  BY SeenIs, PTL
<1>3. ASSUME MountedInv, RoomInv, MountedInv', RoomInv',
             [Format \/ MountDisk \/ Callback]_allVars
      PROVE  [SeenByLookup!Next]_(Seen(FoundPaths))
  <2>1. Seen(FoundPaths) = SeenTree
    BY <1>3, SeenIs
  <2>2. Seen(FoundPaths)' = SeenTree'
    BY <1>2, <1>3
  <2>3. CASE SeenTree' = SeenTree
    BY <2>1, <2>2, <2>3
  <2>4. CASE SeenTree' = Example
    BY <2>2, <2>4 DEF SeenByLookup!Next, SeenByLookup!Mount
  <2>5. ASSUME NEW name \in Name, OneMore(name)
        PROVE  SeenByLookup!Mkdir
    <3>1. /\ SeenTree' = SeenTree \cup {<<name>>} /\ <<name>> \notin SeenTree
      BY <2>5 DEF OneMore, SeenTree
    <3>2. <<name>> \in Seen(FoundPaths)' \ Seen(FoundPaths)
      BY <2>1, <2>2, <3>1
    <3>3. Seen(FoundPaths)' = Seen(FoundPaths) \cup {<<name>>}
      BY <2>1, <2>2, <3>1
    <3>4. SeenByLookup!Front(<<name>>) = <<>> /\ SeenByLookup!Last(<<name>>) = name
      BY DEF SeenByLookup!Front, SeenByLookup!Last
    <3> QED
      BY <3>2, <3>3, <3>4 DEF SeenByLookup!Mkdir
  <2> QED
    BY <1>3, <2>3, <2>4, <2>5, TreeStep DEF SeenByLookup!Next
<1> QED
  BY <1>1, <1>3, MountedInvariance, RoomInvariance, PTL
  DEF FormatMountSpec, TreeByLookup, SeenByLookup!Spec

\* The same of the paths that readdir lists.
THEOREM ReaddirImplementsDirTree ==
  ASSUME InsideBlock, RootHasRoom
  PROVE  FormatMountSpec => TreeByReaddir
<1>1. FormatInit => SeenByReaddir!Init
  BY DEF FormatInit, SeenByReaddir!Init, Seen
<1>2. (MountedInv /\ RoomInv => Seen(FoundPaths) = SeenTree /\ Seen(ListedPaths) = SeenTree)'
  BY SeenIs, PTL
<1>3. ASSUME MountedInv, RoomInv, MountedInv', RoomInv',
             [Format \/ MountDisk \/ Callback]_allVars
      PROVE  [SeenByReaddir!Next]_(Seen(ListedPaths))
  <2>1. Seen(ListedPaths) = SeenTree
    BY <1>3, SeenIs
  <2>2. Seen(ListedPaths)' = SeenTree'
    BY <1>2, <1>3
  <2>3. CASE SeenTree' = SeenTree
    BY <2>1, <2>2, <2>3
  <2>4. CASE SeenTree' = Example
    BY <2>2, <2>4 DEF SeenByReaddir!Next, SeenByReaddir!Mount
  <2>5. ASSUME NEW name \in Name, OneMore(name)
        PROVE  SeenByReaddir!Mkdir
    <3>1. /\ SeenTree' = SeenTree \cup {<<name>>} /\ <<name>> \notin SeenTree
      BY <2>5 DEF OneMore, SeenTree
    <3>2. <<name>> \in Seen(ListedPaths)' \ Seen(ListedPaths)
      BY <2>1, <2>2, <3>1
    <3>3. Seen(ListedPaths)' = Seen(ListedPaths) \cup {<<name>>}
      BY <2>1, <2>2, <3>1
    <3>4. SeenByReaddir!Front(<<name>>) = <<>> /\ SeenByReaddir!Last(<<name>>) = name
      BY DEF SeenByReaddir!Front, SeenByReaddir!Last
    <3> QED
      BY <3>2, <3>3, <3>4 DEF SeenByReaddir!Mkdir
  <2> QED
    BY <1>3, <2>3, <2>4, <2>5, TreeStep DEF SeenByReaddir!Next
<1> QED
  BY <1>1, <1>3, MountedInvariance, RoomInvariance, PTL
  DEF FormatMountSpec, TreeByReaddir, SeenByReaddir!Spec
=============================================================================
