------------------------------ MODULE OomVote ------------------------------
(***************************************************************************)
(* The vote of the page daemons for an out-of-memory kill:                  *)
(* vm_pageout_mightbe_oom of vm_pageout.c, once per scan and domain.        *)
(*                                                                         *)
(* Each page daemon writes only its own domain's vmd_oom_seq and vmd_oom.   *)
(* The count of votes is shared and only changed by atomic instructions, a  *)
(* step of their own here: between it and the write of vmd_oom the other    *)
(* page daemons go on.                                                      *)
(***************************************************************************)
EXTENDS Integers, FiniteSets, FiniteSetsExt

CONSTANTS Domain,   \* the memory domains, one page daemon each
          OomSeq    \* vm_pageout_oom_seq

ASSUME OomAssumption ==
  /\ IsFiniteSet(Domain) /\ Domain # {}
  /\ OomSeq \in Nat

VARIABLES
  oom_seq,  \* vmd_oom_seq: scans in a row that freed nothing
  oom,      \* vmd_oom: this domain has voted
  vote,     \* vm_pageout_oom_vote
  opc       \* where a page daemon is in vm_pageout_mightbe_oom

oomVars == <<oom_seq, oom, vote, opc>>

OomInit ==
  /\ oom_seq = [d \in Domain |-> 0]
  /\ oom = [d \in Domain |-> FALSE]
  /\ vote = 0
  /\ opc = [d \in Domain |-> "out"]

\* The scans in a row that freed nothing of what they had to free.
Hopeless(d, shortage, starting) ==
  IF starting <= 0 \/ starting # shortage THEN 0 ELSE oom_seq[d] + 1

\* What a domain in despair does next: it votes once.
\* Mutant for VotesExact: it votes again while its vote stands.
InDespair_Again(d) == "add"
InDespair(d) == IF oom[d] THEN "out" ELSE "add"

\* Entry, with the page shortage after the scan and before it: too few hopeless
\* scans take a vote back, enough of them cast one.
MightBeOom(d, shortage, starting) ==
  LET seq == Hopeless(d, shortage, starting)
  IN  /\ opc[d] = "out"
      /\ IF seq < OomSeq
         THEN /\ oom_seq' = [oom_seq EXCEPT ![d] = seq]
              /\ oom' = [oom EXCEPT ![d] = FALSE]
              /\ opc' = [opc EXCEPT ![d] = IF oom[d] THEN "subtract" ELSE "out"]
         ELSE /\ oom_seq' = [oom_seq EXCEPT ![d] = 0]
              /\ oom' = [oom EXCEPT ![d] = TRUE]
              /\ opc' = [opc EXCEPT ![d] = InDespair(d)]
      /\ UNCHANGED vote

\* The last of the quorum, from the count before its vote.
\* Mutant for KillUnanimous: the count with its vote is looked at.
Last_NewCount(old) == old + 1 >= Cardinality(Domain) - 1
Last(old) == old = Cardinality(Domain) - 1

\* atomic_fetchadd_int: the last one goes on to kill.
CastVote(d) ==
  /\ opc[d] = "add"
  /\ vote' = vote + 1
  /\ opc' = [opc EXCEPT ![d] = IF Last(vote) THEN "kill" ELSE "out"]
  /\ UNCHANGED <<oom_seq, oom>>

\* After one round of terror the daemon recalls its vote.
Recall(d) ==
  /\ opc[d] = "kill"
  /\ oom' = [oom EXCEPT ![d] = FALSE]
  /\ opc' = [opc EXCEPT ![d] = "subtract"]
  /\ UNCHANGED <<oom_seq, vote>>

\* atomic_subtract_int.
TakeBack(d) ==
  /\ opc[d] = "subtract"
  /\ vote' = vote - 1
  /\ opc' = [opc EXCEPT ![d] = "out"]
  /\ UNCHANGED <<oom_seq, oom>>

OomNext == \E d \in Domain :
  \/ \E shortage, starting \in Int : MightBeOom(d, shortage, starting)
  \/ CastVote(d) \/ Recall(d) \/ TakeBack(d)

OomSpec == OomInit /\ [][OomNext]_oomVars
-----------------------------------------------------------------------------
OomTypeOK ==
  /\ oom_seq \in [Domain -> Nat]
  /\ oom \in [Domain -> BOOLEAN]
  /\ vote \in Int
  /\ opc \in [Domain -> {"out", "add", "kill", "subtract"}]

\* The domains whose vote is in the count.
Counted == {d \in Domain : (oom[d] /\ opc[d] # "add") \/ opc[d] = "subtract"}

\* Every vote that was cast is in vm_pageout_oom_vote, once, until it is taken
\* back: no sequence of scans lets the count drift from the votes.
VotesExact == vote = Cardinality(Counted)

\* "Trying to kill processes before all pagedaemons failed to reach free target
\* is premature": when one starts to kill, each of the others has voted, and at
\* most is about to take that back.
KillUnanimous ==
  [][\A d \in Domain : opc[d] # "kill" /\ opc'[d] = "kill" =>
       \A e \in Domain \ {d} : (oom[e] /\ opc[e] # "add") \/ opc[e] = "subtract"]_oomVars
=============================================================================
