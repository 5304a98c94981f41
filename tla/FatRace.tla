------------------------------ MODULE FatRace ------------------------------
(***************************************************************************)
(* f32_getattr system call by system call.  fuse_main serves callbacks from *)
(* several threads unless it is told -s, which main and test.sh do not, all *)
(* of them through one descriptor, whose file offset every lseek, read and  *)
(* write moves.                                                             *)
(*                                                                         *)
(* The directory is the root, in its first block: header e describes the    *)
(* file called e, and an empty name follows the last.  Offsets are counted  *)
(* in words from the start of the block.  What matters of the words is      *)
(* which of them an access time was written over.                           *)
(***************************************************************************)
EXTENDS Integers

CONSTANTS Thread,
          Entries,    \* headers in the directory
          Slots       \* headers that fit the block, more than Entries

DIR_WORDS == 16       \* DIR_SIZE in words

Entry == 0 .. Entries - 1

\* What else a read of a name can give: the name that ends the directory, and
\* words that are no name.  Absent is a name that no header has.
Empty  == Entries
Other  == -1
Absent == -2

\* How many words the reads and the write of getattr move the offset.
Size == [name |-> 6, ctime |-> 2, mtime |-> 2, atime |-> 2,
         flen |-> 1, sblock |-> 1, flag |-> 1, null |-> 1]

Fields == DOMAIN Size

Following == [name |-> "ctime", ctime |-> "mtime", mtime |-> "atime",
              atime |-> "flen", flen |-> "sblock", sblock |-> "flag",
              flag |-> "null", null |-> "idle"]

\* The word of a header where a field begins.
Place == [name |-> 0, ctime |-> 6, mtime |-> 8, atime |-> 10,
          flen |-> 12, sblock |-> 13, flag |-> 14, null |-> 15]

VARIABLES
  stamped,   \* the words that hold an access time of getattr
  pos,       \* the file offset of fd
  pc,        \* the system call each thread makes next
  target,    \* the name it was asked for
  at         \* seeki: the header it has reached

vars == <<stamped, pos, pc, target, at>>

Init ==
  /\ stamped = {} /\ pos = 0
  /\ pc = [t \in Thread |-> "idle"]
  /\ target = [t \in Thread |-> Absent] /\ at = [t \in Thread |-> 0]

Goto(t, label) == pc' = [pc EXCEPT ![t] = label]

\* The kernel asks for the attributes of a name, which may be absent.
Call(t, e) ==
  /\ pc[t] = "idle"
  /\ target' = [target EXCEPT ![t] = e]
  /\ at' = [at EXCEPT ![t] = 0]
  /\ Goto(t, "lookup_seek")
  /\ UNCHANGED <<stamped, pos>>

\* path_to_addr: lseek to the header it looks at.
LookupSeek(t) ==
  /\ pc[t] = "lookup_seek"
  /\ pos' = at[t] * DIR_WORDS
  /\ Goto(t, "lookup_name")
  /\ UNCHANGED <<stamped, target, at>>

\* What a read of a name at word p gives.  The first byte of words that are
\* no name may be zero.
NamesAt(p) ==
  LET whole == p % DIR_WORDS = 0 /\ stamped \cap p .. p + Size.name - 1 = {}
  IN  IF whole /\ p \div DIR_WORDS \in Entry THEN {p \div DIR_WORDS}
      ELSE IF whole /\ p \div DIR_WORDS = Entries THEN {Empty}
      ELSE {Empty, Other}

\* Where the read of the root's table entry (block 2's, in block 1) leaves
\* the offset.
AfterFatEntry == 2 + 1 - Slots * DIR_WORDS

\* A name that is not the one ends the search when it is the empty name, which
\* the first name is not compared with, or the last of the block.
SearchEnds(t, name) == (at[t] # 0 /\ name = Empty) \/ at[t] + 1 >= Slots

\* path_to_addr: read a name; it is the one, or the search goes on, or ends.
\* The calls made at the end of the block, which only move the offset, are part
\* of the step.
LookupName(t) ==
  /\ pc[t] = "lookup_name"
  /\ \E name \in NamesAt(pos) :
       \/ /\ name = target[t]
          /\ pos' = pos + Size.name
          /\ Goto(t, "skip")
          /\ UNCHANGED at
       \/ /\ name # target[t]
          /\ ~SearchEnds(t, name)
          /\ pos' = pos + Size.name
          /\ at' = [at EXCEPT ![t] = at[t] + 1]
          /\ Goto(t, "lookup_seek")
       \/ /\ name # target[t]
          /\ SearchEnds(t, name)
          /\ pos' = IF at[t] # 0 /\ name = Empty THEN pos + Size.name ELSE AfterFatEntry
          /\ Goto(t, "idle")
          /\ UNCHANGED at
  /\ UNCHANGED <<stamped, target>>

\* path_to_addr: lseek over seven words from where the name ended ...
Skip(t) ==
  /\ pc[t] = "skip"
  /\ pos' = pos + 7
  /\ Goto(t, "start")
  /\ UNCHANGED <<stamped, target, at>>

\* ... and read the starting block, which the last name of a path ignores.
Start(t) ==
  /\ pc[t] = "start"
  /\ pos' = pos + 1
  /\ Goto(t, "seek")
  /\ UNCHANGED <<stamped, target, at>>

\* f32_getattr: back to the header that was found.
Seek(t) ==
  /\ pc[t] = "seek"
  /\ pos' = at[t] * DIR_WORDS
  /\ Goto(t, "name")
  /\ UNCHANGED <<stamped, target, at>>

\* f32_getattr: one field after the other is read.
ReadField(t) ==
  /\ pc[t] \in Fields \ {"atime"}
  /\ pos' = pos + Size[pc[t]]
  /\ Goto(t, Following[pc[t]])
  /\ UNCHANGED <<stamped, target, at>>

\* f32_getattr: the access time is written instead of read.
WriteAtime(t) ==
  /\ pc[t] = "atime"
  /\ stamped' = stamped \cup {pos, pos + 1}
  /\ pos' = pos + Size.atime
  /\ Goto(t, Following[pc[t]])
  /\ UNCHANGED <<target, at>>

Next ==
  \E t \in Thread :
    \/ \E e \in Entry \cup {Absent} : Call(t, e)
    \/ LookupSeek(t) \/ LookupName(t) \/ Skip(t) \/ Start(t)
    \/ Seek(t) \/ ReadField(t) \/ WriteAtime(t)

Spec == Init /\ [][Next]_vars
-----------------------------------------------------------------------------
\* "alter acess time in place of read" (fuse_routines.c:110): getattr writes over
\* the access time of a header and over nothing else; names, lengths, blocks and
\* flags stay.  Between the lseek to the header and the write, another thread's
\* calls may move the offset.
OnlyAccessTimes ==
  \A w \in stamped : /\ w \div DIR_WORDS \in Entry
                     /\ w % DIR_WORDS \in {Place.atime, Place.atime + 1}
=============================================================================
