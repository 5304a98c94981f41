---------------------------- MODULE LaundryProofs ----------------------------
(***************************************************************************)
(* The vote for an out-of-memory kill and the laundry thread, for any       *)
(* number of memory domains, of scans to despair, of pages and of cycles.   *)
(*                                                                         *)
(* The vote: its count is exact and a kill is unanimous, by itself and in   *)
(* the system of Laundry, which implements OomVote.                         *)
(*                                                                         *)
(* The laundry thread: its local variables stay in their ranges, and it     *)
(* never breaks the promise of LaundryRequest that the page daemon relies   *)
(* on.  (That it keeps it in the end is a matter of fairness.)              *)
(***************************************************************************)
EXTENDS Laundry, TLAPS, FiniteSetTheorems

\* What vmd_oom is at the steps between the count and its writes.
Steps ==
  \A d \in Domain : /\ opc[d] \in {"add", "kill"} => oom[d]
                    /\ opc[d] = "subtract" => ~oom[d]

Inv == OomTypeOK /\ Steps /\ VotesExact

\* No vote is counted before the first scan.
LEMMA InitInv == OomInit => Inv
<1> SUFFICES ASSUME OomInit PROVE Inv
  OBVIOUS
<1>1. OomTypeOK /\ Steps
  BY DEF OomInit, OomTypeOK, Steps
<1>2. Counted = {}
  BY DEF OomInit, Counted
<1>3. VotesExact
  BY <1>2, FS_EmptySet DEF OomInit, VotesExact
<1> QED BY <1>1, <1>3 DEF Inv

\* The votes that count are finitely many.
LEMMA CountedFinite == IsFiniteSet(Counted) /\ Cardinality(Counted) \in Nat
<1>1. Counted \in SUBSET Domain
  BY DEF Counted
<1> QED BY <1>1, FS_Subset, FS_CardinalityType, OomAssumption

\* Deciding to vote or to take a vote back does not change which votes count:
\* that is left to the step that changes the number.
LEMMA MightBeOomInv ==
  ASSUME Inv, NEW d \in Domain, NEW shortage \in Int, NEW starting \in Int,
         MightBeOom(d, shortage, starting)
  PROVE  Inv'
<1> DEFINE seq == Hopeless(d, shortage, starting)
<1>1. opc[d] = "out" /\ vote' = vote
  BY DEF MightBeOom
<1>2. seq \in Nat
  BY DEF Hopeless, Inv, OomTypeOK
<1>3. CASE seq < OomSeq
  <2> USE <1>3 DEF MightBeOom, Inv, OomTypeOK
  <2>1. /\ oom_seq' = [oom_seq EXCEPT ![d] = seq]
        /\ oom' = [oom EXCEPT ![d] = FALSE]
        /\ opc' = [opc EXCEPT ![d] = IF oom[d] THEN "subtract" ELSE "out"]
    OBVIOUS
  <2>2. OomTypeOK'
    BY <1>1, <1>2, <2>1
  <2>3. Steps'
    BY <2>1 DEF Steps
  <2>4. Counted' = Counted
    BY <1>1, <2>1 DEF Counted
  <2> QED BY <1>1, <2>2, <2>3, <2>4 DEF VotesExact
<1>4. CASE ~(seq < OomSeq)
  <2> USE <1>4 DEF MightBeOom, Inv, OomTypeOK
  <2>1. /\ oom_seq' = [oom_seq EXCEPT ![d] = 0]
        /\ oom' = [oom EXCEPT ![d] = TRUE]
        /\ opc' = [opc EXCEPT ![d] = IF oom[d] THEN "out" ELSE "add"]
    BY DEF InDespair
  <2>2. OomTypeOK'
    BY <1>1, <2>1
  <2>3. Steps'
    BY <2>1 DEF Steps
  <2>4. Counted' = Counted
    BY <1>1, <2>1 DEF Counted
  <2> QED BY <1>1, <2>2, <2>3, <2>4 DEF VotesExact
<1> QED BY <1>3, <1>4

\* A vote is cast once: the domain was not in the count.
LEMMA CastVoteInv ==
  ASSUME Inv, NEW d \in Domain, CastVote(d)
  PROVE  Inv'
<1> DEFINE next == IF Last(vote) THEN "kill" ELSE "out"
<1>1. /\ opc[d] = "add" /\ oom[d]
      /\ vote' = vote + 1 /\ opc' = [opc EXCEPT ![d] = next]
      /\ oom_seq' = oom_seq /\ oom' = oom
  BY DEF CastVote, Inv, Steps
<1>2. next \in {"kill", "out"}
  OBVIOUS
<1> HIDE DEF next
<1>3. OomTypeOK'
  BY <1>1, <1>2 DEF Inv, OomTypeOK
<1>4. Steps'
  BY <1>1, <1>2 DEF Inv, OomTypeOK, Steps
<1>5. d \notin Counted /\ Counted' = Counted \cup {d}
  BY <1>1, <1>2 DEF Inv, OomTypeOK, Counted
<1>6. Cardinality(Counted') = Cardinality(Counted) + 1
  BY <1>5, CountedFinite, FS_AddElement
<1>7. VotesExact'
  BY <1>1, <1>6 DEF Inv, VotesExact
<1> QED BY <1>3, <1>4, <1>7 DEF Inv

\* After the kill the vote still counts until it is subtracted.
LEMMA RecallInv ==
  ASSUME Inv, NEW d \in Domain, Recall(d)
  PROVE  Inv'
<1>1. opc[d] = "kill" /\ oom[d]
  BY DEF Recall, Inv, Steps
<1>2. OomTypeOK' /\ Steps'
  BY DEF Recall, Inv, OomTypeOK, Steps
<1>3. Counted' = Counted
  BY <1>1 DEF Recall, Inv, OomTypeOK, Counted
<1> QED BY <1>2, <1>3 DEF Recall, Inv, VotesExact

\* A vote is taken back once: the domain was in the count.
LEMMA TakeBackInv ==
  ASSUME Inv, NEW d \in Domain, TakeBack(d)
  PROVE  Inv'
<1>1. opc[d] = "subtract" /\ ~oom[d] /\ vote' = vote - 1
  BY DEF TakeBack, Inv, Steps
<1>2. OomTypeOK' /\ Steps'
  BY DEF TakeBack, Inv, OomTypeOK, Steps
<1>3. d \in Counted /\ Counted' = Counted \ {d}
  BY <1>1 DEF TakeBack, Inv, OomTypeOK, Counted
<1>4. Cardinality(Counted') = Cardinality(Counted) - 1
  BY <1>3, CountedFinite, FS_RemoveElement
<1>5. VotesExact'
  BY <1>1, <1>4 DEF Inv, VotesExact
<1> QED BY <1>2, <1>5 DEF Inv

\* Every step of a page daemon keeps the invariant.
LEMMA NextInv == Inv /\ [OomNext]_oomVars => Inv'
<1> SUFFICES ASSUME Inv, [OomNext]_oomVars PROVE Inv'
  OBVIOUS
<1>1. CASE OomNext
  <2>1. PICK d \in Domain :
          \/ \E shortage, starting \in Int : MightBeOom(d, shortage, starting)
          \/ CastVote(d) \/ Recall(d) \/ TakeBack(d)
    BY <1>1 DEF OomNext
  <2> QED BY <2>1, MightBeOomInv, CastVoteInv, RecallInv, TakeBackInv
<1>2. CASE UNCHANGED oomVars
  BY <1>2 DEF oomVars, Inv, OomTypeOK, Steps, VotesExact, Counted
<1> QED BY <1>1, <1>2

\* A page daemon goes on to kill only from a count that is short of nobody but
\* itself, and then every other vote is in the count.
LEMMA KillStep ==
  ASSUME Inv, [OomNext]_oomVars, NEW d \in Domain, opc[d] # "kill", opc'[d] = "kill"
  PROVE  Counted = Domain \ {d}
<1>1. CastVote(d) /\ Last(vote)
  <2>1. OomNext
    BY DEF oomVars
  <2>2. PICK e \in Domain :
          \/ \E shortage, starting \in Int : MightBeOom(e, shortage, starting)
          \/ CastVote(e) \/ Recall(e) \/ TakeBack(e)
    BY <2>1 DEF OomNext
  <2>3. CastVote(e) /\ e = d
    BY <2>2 DEF MightBeOom, InDespair, CastVote, Recall, TakeBack, Inv, OomTypeOK
  <2> QED BY <2>3 DEF CastVote, Inv, OomTypeOK
<1>2. Counted \in SUBSET (Domain \ {d})
  BY <1>1 DEF CastVote, Inv, Steps, Counted
<1>3. IsFiniteSet(Domain \ {d}) /\ Cardinality(Domain \ {d}) = Cardinality(Domain) - 1
  BY FS_RemoveElement, OomAssumption
<1>4. Cardinality(Counted) = Cardinality(Domain \ {d})
  BY <1>1, <1>3 DEF Inv, VotesExact, Last
<1> QED BY <1>2, <1>3, <1>4, FS_Subset

\* The inductive invariant of the vote.
THEOREM VoteInvariance == OomSpec => []Inv
BY InitInv, NextInv, PTL DEF OomSpec

\* vm_pageout_oom_vote is the number of votes that stand.
THEOREM VotesCounted == OomSpec => []VotesExact
<1>1. Inv => VotesExact
  BY DEF Inv
<1> QED BY <1>1, VoteInvariance, PTL

\* The daemon that kills is the last to despair.
THEOREM KillIsUnanimous == OomSpec => KillUnanimous
<1> DEFINE Unanimous ==
      \A d \in Domain : opc[d] # "kill" /\ opc'[d] = "kill" =>
        \A e \in Domain \ {d} : (oom[e] /\ opc[e] # "add") \/ opc[e] = "subtract"
<1>1. Inv /\ [OomNext]_oomVars => [Unanimous]_oomVars
  BY KillStep DEF Counted
<1> QED BY <1>1, VoteInvariance, PTL DEF OomSpec, KillUnanimous

\* The page daemons of Laundry vote as OomVote says, whatever the laundry thread
\* and the other users of pages do in between.
THEOREM LaundryVotes == Spec => OomSpec
<1>1. Init => OomInit
  BY DEF Init
<1>2. [Next]_vars => [OomNext]_oomVars
  <2> SUFFICES ASSUME [Next]_vars PROVE [OomNext]_oomVars
    OBVIOUS
  <2>1. CASE \E d \in Domain : Vote(d)
    <3>1. PICK d \in Domain : Vote(d)
      BY <2>1
    <3>2. 0 \in Int /\ 1 \in Int /\ 2 \in Int
      OBVIOUS
    <3>3. (\E shortage, starting \in Int : MightBeOom(d, shortage, starting))
            \/ CastVote(d) \/ Recall(d) \/ TakeBack(d)
      BY <3>1, <3>2, Zenon DEF Vote
    <3> QED BY <3>3 DEF OomNext
  <2>2. CASE UNCHANGED oomVars
    BY <2>2
  <2>3. CASE UNCHANGED vars
    BY <2>3 DEF vars
  <2> QED BY <2>1, <2>2, <2>3 DEF Next
<1> QED BY <1>1, <1>2, PTL DEF Spec, OomSpec

\* In the whole system the count is the number of votes that stand ...
THEOREM LaundryVotesCounted == Spec => []VotesExact
BY LaundryVotes, VotesCounted, PTL

\* ... and the daemon that kills is the last to despair.
THEOREM LaundryKillIsUnanimous == Spec => KillUnanimous
BY LaundryVotes, KillIsUnanimous, PTL
-----------------------------------------------------------------------------
(* The laundry thread.                                                      *)

\* Every page is in one place.
Paged(p) ==
  /\ p \in [Promise!Place -> Nat]
  /\ p["free"] + p["active"] + p["inactive"] + p["laundry"] = Pages

Locals == [target : Nat, last_target : Int, shortfall : Int,
           in_shortfall : BOOLEAN, cycle : Nat, launder : Nat]

\* The local variables: no target, cycle or launder below 0, something to
\* launder exactly when it launders, and a target in the background is
\* remembered in last_target from when it is set to when it is met.
Turning ==
  /\ l \in Locals
  /\ l.launder > 0 <=> lpc = "launder"
  /\ l.target > 0 /\ ~l.in_shortfall => l.last_target # Unset

LaundryTyped ==
  /\ touch \in 0 .. MaxTouch
  /\ request \in {"idle", "background", "shortfall"}
  /\ lpc \in {"top", "launder", "lock", "launds", "woken"}
  /\ since \in 0 .. MaxWakeups

LaundryInv == Paged(page) /\ Turning /\ LaundryTyped

\* Min and Max of two numbers are among them.
LEMMA MinOfTwo ==
  ASSUME NEW i \in Int, NEW j \in Int
  PROVE  Min({i, j}) \in {i, j} /\ Min({i, j}) <= i /\ Min({i, j}) <= j
<1>1. \E x \in {i, j} : \A y \in {i, j} : x <= y
  OBVIOUS
<1>2. Min({i, j}) \in {i, j} /\ \A y \in {i, j} : Min({i, j}) <= y
  BY <1>1 DEF Min
<1> QED BY <1>2

\* A share of a target is a number of pages, and the last share is the whole.
LEMMA Share ==
  ASSUME NEW t \in Nat, NEW n \in Nat \ {0}
  PROVE  t \div n \in Nat /\ (n = 1 => t \div n = t)
OBVIOUS

\* Pages that are there can be moved, and none is lost.
LEMMA MovedKeeps ==
  ASSUME NEW p, Paged(p), NEW from \in Promise!Place, NEW to \in Promise!Place,
         from # to, NEW k \in Nat, k <= p[from]
  PROVE  Paged(Promise!Moved(p, from, to, k))
<1> DEFINE r == Promise!Moved(p, from, to, k)
<1>1. \A x \in Promise!Place :
        r[x] = IF x = from THEN p[x] - k ELSE IF x = to THEN p[x] + k ELSE p[x]
  BY DEF Paged, Promise!Moved
<1>2. r = [x \in Promise!Place |-> r[x]]
  BY DEF Paged, Promise!Moved
<1> HIDE DEF r
<1>3. r \in [Promise!Place -> Nat]
  BY <1>1, <1>2 DEF Paged
<1>4. r["free"] + r["active"] + r["inactive"] + r["laundry"] = Pages
  BY <1>1 DEF Paged, Promise!Place
<1> QED BY <1>3, <1>4 DEF Paged, r

\* All pages are free, and the locals are clear.
LEMMA LaundryInitInv == Init => LaundryInv
<1> SUFFICES ASSUME Init PROVE LaundryInv
  OBVIOUS
<1>1. Paged(page)
  BY LaundryAssumption DEF Init, Promise!QueueInit, Paged, Promise!Place
<1>2. Turning
  BY DEF Init, Turning, Locals, Unset
<1>3. touch \in 0 .. MaxTouch /\ since \in 0 .. MaxWakeups
  BY LaundryAssumption DEF Init, Promise!QueueInit
<1>4. request = "idle" /\ lpc = "top"
  BY DEF Init
<1> QED BY <1>1, <1>2, <1>3, <1>4 DEF LaundryInv, LaundryTyped

\* An assignment to both.
Sets(x, t, n) == [x EXCEPT !.target = t, !.launder = n]

\* It leaves the other local variables alone.
LEMMA LocalsSet ==
  ASSUME NEW x \in Locals, NEW t \in Nat, NEW n \in Nat
  PROVE  LET y == Sets(x, t, n)
         IN  /\ y \in Locals /\ y.target = t /\ y.launder = n
             /\ y.last_target = x.last_target /\ y.shortfall = x.shortfall
             /\ y.in_shortfall = x.in_shortfall /\ y.cycle = x.cycle
<1> DEFINE z == [x EXCEPT !.target = t]
           y == [z EXCEPT !.launder = n]
<1>1. /\ z \in Locals /\ z.target = t /\ z.last_target = x.last_target
      /\ z.shortfall = x.shortfall /\ z.in_shortfall = x.in_shortfall /\ z.cycle = x.cycle
  BY DEF Locals
<1> HIDE DEF z
<1>2. /\ y \in Locals /\ y.target = t /\ y.launder = n
      /\ y.last_target = x.last_target /\ y.shortfall = x.shortfall
      /\ y.in_shortfall = x.in_shortfall /\ y.cycle = x.cycle
  BY <1>1 DEF Locals
<1> QED BY <1>2 DEF y, z, Sets

\* The background run of a thread that is in no shortfall.
LEMMA BackgroundKeeps ==
  ASSUME NEW x \in Locals, ~x.in_shortfall, x.target > 0 => x.last_target # Unset
  PROVE  LET y == Background(x)
         IN  /\ y \in Locals /\ ~y.in_shortfall
             /\ y.shortfall = x.shortfall /\ y.cycle = x.cycle
             /\ y.target > 0 => y.last_target # Unset
<1> DEFINE begins == /\ x.target = 0 /\ since # 0
                     /\ page["laundry"] * isqrt(since) >= page["inactive"] + page["free"]
           target == IF begins THEN BackgroundTarget ELSE x.target
           goal   == IF since = 0 /\ x.last_target - target >= BackgroundMax THEN 0 ELSE target
           m      == Min({BackgroundRate, goal})
           last   == IF since # 0 THEN target ELSE x.last_target
           none   == Sets(x, 0, 0)
           some   == Sets(x, goal, m)
           y      == [some EXCEPT !.last_target = last]
<1>1. BackgroundTarget \in Nat /\ BackgroundMax \in Nat /\ BackgroundRate \in Nat
  BY LaundryAssumption
<1>2. begins => x.target = 0 /\ since # 0
  OBVIOUS
<1>3. Background(x) = IF target = 0 THEN none ELSE y
  BY Zenon DEF Background, Sets
<1> HIDE DEF begins
<1>4. target \in Nat /\ (begins => since # 0) /\ (~begins => target = x.target)
  BY <1>1, <1>2 DEF Locals
<1> HIDE DEF target
<1>5. goal = 0 \/ goal = target
  BY Zenon
<1>6. goal \in Nat /\ m \in Nat
  <2>1. goal \in Nat
    BY <1>4, <1>5
  <2> HIDE DEF goal
  <2>2. BackgroundRate \in Int /\ goal \in Int
    BY <1>1, <2>1
  <2>3. m \in {BackgroundRate, goal}
    BY <2>2, MinOfTwo
  <2> QED BY <1>1, <2>1, <2>3
<1>7. last \in Int /\ (target > 0 => last # Unset)
  BY <1>4 DEF Locals, Unset
<1> HIDE DEF goal, m, last
<1>8. /\ none \in Locals /\ none.target = 0 /\ none.shortfall = x.shortfall
      /\ none.in_shortfall = x.in_shortfall /\ none.cycle = x.cycle
  BY LocalsSet
<1>9. /\ some \in Locals /\ some.target = goal /\ some.shortfall = x.shortfall
      /\ some.in_shortfall = x.in_shortfall /\ some.cycle = x.cycle
  BY <1>6, LocalsSet
<1> HIDE DEF none, some
<1>10. /\ y \in Locals /\ y.target = goal /\ y.shortfall = x.shortfall
       /\ y.in_shortfall = x.in_shortfall /\ y.cycle = x.cycle /\ y.last_target = last
  BY <1>7, <1>9 DEF Locals
<1> HIDE DEF y
<1> QED BY <1>3, <1>4, <1>5, <1>7, <1>8, <1>10

\* The shortfall is over, with nothing left of its target.
LEMMA RelaxedKeeps ==
  ASSUME LaundryInv
  PROVE  LET y == Relaxed(l)
         IN  /\ y \in Locals /\ ~y.in_shortfall
             /\ y.shortfall = l.shortfall /\ y.cycle = l.cycle
             /\ y.target > 0 => y.last_target # Unset
<1> DEFINE z == [l EXCEPT !.in_shortfall = FALSE]
           y == [z EXCEPT !.target = 0]
<1>1. l \in Locals /\ (l.target > 0 /\ ~l.in_shortfall => l.last_target # Unset)
  BY DEF LaundryInv, Turning
<1>2. z \in Locals /\ ~z.in_shortfall /\ z.shortfall = l.shortfall /\ z.cycle = l.cycle
  BY <1>1 DEF Locals
<1>3. Relaxed(l) = IF l.in_shortfall THEN y ELSE l
  BY Zenon DEF Relaxed
<1> HIDE DEF z
<1>4. /\ y \in Locals /\ ~y.in_shortfall /\ y.shortfall = l.shortfall /\ y.cycle = l.cycle
      /\ y.target = 0
  BY <1>2 DEF Locals
<1> HIDE DEF y
<1> QED BY <1>1, <1>3, <1>4

\* A cycle of the shortfall: the last one launders all of the target.
LEMMA UrgentKeeps ==
  ASSUME NEW x \in Locals, x.cycle # 0
  PROVE  LET y == Urgent(x)
         IN  /\ y \in Locals /\ y.in_shortfall = x.in_shortfall
             /\ y.target = x.target /\ y.last_target = x.last_target
             /\ x.target > 0 => y.cycle > 0 \/ y.launder > 0
<1> DEFINE n == x.target \div x.cycle
           k == x.cycle - 1
           z == [x EXCEPT !.launder = n]
           y == [z EXCEPT !.cycle = k]
<1>1. x.target \in Nat /\ x.cycle \in Nat \ {0}
  BY DEF Locals
<1>2. n \in Nat /\ (x.cycle = 1 => n = x.target)
  BY <1>1, Share
<1>3. k \in Nat /\ (x.cycle # 1 => k > 0)
  BY <1>1
<1>4. Urgent(x) = [z EXCEPT !.cycle = @ - 1] /\ z.cycle = x.cycle
  <2> HIDE DEF n
  <2>1. z.cycle = x.cycle
    BY DEF Locals
  <2> QED BY <2>1, Zenon DEF Urgent, n
<1>5. Urgent(x) = y
  BY <1>4, Zenon
<1> HIDE DEF n, k
<1>6. /\ z \in Locals /\ z.launder = n /\ z.in_shortfall = x.in_shortfall
      /\ z.target = x.target /\ z.last_target = x.last_target
  BY <1>2 DEF Locals
<1> HIDE DEF z
<1>7. /\ y \in Locals /\ y.launder = n /\ y.cycle = k /\ y.in_shortfall = x.in_shortfall
      /\ y.target = x.target /\ y.last_target = x.last_target
  BY <1>3, <1>6 DEF Locals
<1> HIDE DEF y
<1> QED BY <1>2, <1>3, <1>5, <1>7

\* A shortfall begins.
LEMMA ShortfallKeeps ==
  ASSUME LaundryInv, l.shortfall > 0
  PROVE  LET x == [l EXCEPT !.in_shortfall = TRUE, !.cycle = ShortfallCycles,
                            !.target = l.shortfall]
         IN  /\ x \in Locals /\ x.in_shortfall /\ x.cycle = ShortfallCycles
             /\ x.target = l.shortfall
<1> DEFINE u == [l EXCEPT !.in_shortfall = TRUE]
           v == [u EXCEPT !.cycle = ShortfallCycles]
           t == l.shortfall
           x == [v EXCEPT !.target = t]
<1>1. l \in Locals /\ t \in Nat
  BY DEF LaundryInv, Turning, Locals
<1>2. u \in Locals /\ u.in_shortfall
  BY <1>1 DEF Locals
<1> HIDE DEF u
<1>3. v \in Locals /\ v.in_shortfall /\ v.cycle = ShortfallCycles
  BY <1>2, LaundryAssumption DEF Locals
<1> HIDE DEF v
<1> HIDE DEF t
<1>4. x \in Locals /\ x.in_shortfall /\ x.cycle = ShortfallCycles /\ x.target = t
  BY <1>1, <1>3 DEF Locals
<1> QED BY <1>4, Zenon DEF u, v, t

\* What a turn decides: a shortfall begins, or goes on with its target, or it is
\* over and what is to do is done in the background.
LEMMA Decides ==
  ASSUME LaundryInv, Decide
  PROVE  /\ l' \in Locals
         /\ l'.target > 0 /\ ~l'.in_shortfall => l'.last_target # Unset
         /\ since' \in {0, since}
         /\ \/ /\ l.shortfall > 0
               /\ l'.in_shortfall /\ l'.target > 0 /\ (l'.cycle > 0 \/ l'.launder > 0)
            \/ /\ l.shortfall <= 0 /\ l.in_shortfall /\ l.cycle > 0
               /\ l'.in_shortfall /\ l'.target = l.target
               /\ l.target > 0 => l'.cycle > 0 \/ l'.launder > 0
            \/ /\ l.shortfall <= 0
               /\ ~l.in_shortfall \/ l.cycle = 0 \/ vm_laundry_target <= 0
               /\ ~l'.in_shortfall
<1>1. CASE /\ l.shortfall > 0
           /\ l' = Urgent([l EXCEPT !.in_shortfall = TRUE, !.cycle = ShortfallCycles,
                                    !.target = l.shortfall])
           /\ since' = 0
  <2> DEFINE x == [l EXCEPT !.in_shortfall = TRUE, !.cycle = ShortfallCycles,
                            !.target = l.shortfall]
  <2>1. /\ x \in Locals /\ x.in_shortfall /\ x.cycle = ShortfallCycles
        /\ x.target = l.shortfall
    BY <1>1, ShortfallKeeps, Zenon
  <2>2. l' = Urgent(x) /\ l.shortfall > 0 /\ since' = 0
    BY <1>1, Zenon
  <2> HIDE DEF x
  <2> QED BY <2>1, <2>2, UrgentKeeps, LaundryAssumption
<1>2. CASE /\ l.shortfall <= 0 /\ l.in_shortfall
           /\ l.cycle # 0 /\ l' = Urgent(l) /\ since' = 0
  <2>1. l \in Locals /\ l.cycle > 0
    BY <1>2 DEF LaundryInv, Turning, Locals
  <2> QED BY <1>2, <2>1, UrgentKeeps
<1>3. CASE /\ l.shortfall <= 0
           /\ ~l.in_shortfall \/ l.cycle = 0 \/ vm_laundry_target <= 0
           /\ l' = Background(Relaxed(l)) /\ since' \in {0, since}
  BY <1>3, RelaxedKeeps, BackgroundKeeps
<1>4. \/ /\ l.shortfall > 0
         /\ l' = Urgent([l EXCEPT !.in_shortfall = TRUE, !.cycle = ShortfallCycles,
                                  !.target = l.shortfall])
         /\ since' = 0
      \/ /\ l.shortfall <= 0 /\ l.in_shortfall
         /\ l.cycle # 0 /\ l' = Urgent(l) /\ since' = 0
      \/ /\ l.shortfall <= 0
         /\ ~l.in_shortfall \/ l.cycle = 0 \/ vm_laundry_target <= 0
         /\ l' = Background(Relaxed(l)) /\ since' \in {0, since}
  BY Zenon DEF Decide
<1> QED BY <1>1, <1>2, <1>3, <1>4, Zenon

\* The first half of a turn keeps the invariant.
LEMMA DecideInv == ASSUME LaundryInv, Decide PROVE LaundryInv'
<1>1. /\ lpc = "top" /\ lpc' = IF l'.launder > 0 THEN "launder" ELSE "lock"
      /\ UNCHANGED <<page, touch, request>>
  BY Zenon DEF Decide
<1>2. /\ l' \in Locals /\ (l'.target > 0 /\ ~l'.in_shortfall => l'.last_target # Unset)
      /\ since' \in {0, since}
  BY Decides
<1>3. Turning'
  BY <1>1, <1>2 DEF Turning
<1>4. LaundryTyped'
  BY <1>1, <1>2, LaundryAssumption DEF LaundryInv, LaundryTyped
<1> QED BY <1>1, <1>3, <1>4 DEF LaundryInv

\* Laundering takes from the target, at most all of it.
LEMMA LaunderLocals ==
  ASSUME LaundryInv, NEW done \in Nat,
         l' = Sets(l, l.target - Min({done, l.target}), 0)
  PROVE  /\ l' \in Locals /\ l'.launder = 0 /\ l'.target <= l.target
         /\ l'.shortfall = l.shortfall /\ l'.in_shortfall = l.in_shortfall
         /\ l'.cycle = l.cycle /\ l'.last_target = l.last_target
<1> DEFINE n == l.target - Min({done, l.target})
           y == Sets(l, n, 0)
<1>1. l \in Locals /\ l.target \in Nat
  BY DEF LaundryInv, Turning, Locals
<1>2. n \in Nat /\ n <= l.target
  <2>1. l.target \in Int /\ done \in Int
    BY <1>1
  <2>2. LET k == Min({done, l.target}) IN k \in {done, l.target} /\ k <= done /\ k <= l.target
    BY <2>1, MinOfTwo, Zenon
  <2> QED BY <1>1, <2>2
<1>3. l' = y
  BY Zenon
<1> HIDE DEF n
<1>4. /\ y \in Locals /\ y.target = n /\ y.launder = 0
      /\ y.last_target = l.last_target /\ y.shortfall = l.shortfall
      /\ y.in_shortfall = l.in_shortfall /\ y.cycle = l.cycle
  BY <1>1, <1>2, LocalsSet
<1> HIDE DEF y
<1> QED BY <1>2, <1>3, <1>4

\* What a launder does: pages leave the laundry, one at least if there is one.
LEMMA Launders ==
  ASSUME LaundryInv, Launder
  PROVE  /\ \E written, back, skipped \in Nat :
              /\ Promise!Laundered(written, back, skipped)
              /\ written + back + skipped > 0 \/ page["laundry"] = 0
         /\ l' \in Locals /\ l'.launder = 0 /\ l'.target <= l.target
         /\ l'.shortfall = l.shortfall /\ l'.in_shortfall = l.in_shortfall
         /\ l'.cycle = l.cycle /\ l'.last_target = l.last_target
<1>1. page["laundry"] \in Nat /\ touch \in Nat /\ l.launder \in Nat /\ l.launder > 0
  <2>1. lpc = "launder"
    BY DEF Launder
  <2>2. page["laundry"] \in Nat /\ touch \in Nat
    BY LaundryAssumption DEF LaundryInv, Paged, Promise!Place, LaundryTyped
  <2> QED BY <2>1, <2>2 DEF LaundryInv, Turning, Locals
<1>2. PICK written \in 0 .. page["laundry"], back \in 0 .. touch, skipped \in 0 .. touch :
        LET done == written + (IF l.in_shortfall THEN 0 ELSE back)
        IN  /\ Promise!Laundered(written, back, skipped)
            /\ done >= l.launder \/ written + back + skipped = page["laundry"]
            /\ l' = [l EXCEPT !.target = @ - Min({done, @}), !.launder = 0]
  BY Zenon DEF Launder
<1> DEFINE done == written + (IF l.in_shortfall THEN 0 ELSE back)
<1>3. /\ Promise!Laundered(written, back, skipped)
      /\ done >= l.launder \/ written + back + skipped = page["laundry"]
      /\ l' = [l EXCEPT !.target = @ - Min({done, @}), !.launder = 0]
  BY <1>2, Zenon
<1>4. written \in Nat /\ back \in Nat /\ skipped \in Nat /\ done \in Nat
      /\ done <= written + back + skipped
  BY <1>1
<1> HIDE DEF done
<1>5. /\ l' \in Locals /\ l'.launder = 0 /\ l'.target <= l.target
      /\ l'.shortfall = l.shortfall /\ l'.in_shortfall = l.in_shortfall
      /\ l'.cycle = l.cycle /\ l'.last_target = l.last_target
  <2>1. l' = Sets(l, l.target - Min({done, l.target}), 0)
    BY <1>3, Zenon DEF Sets
  <2> QED BY <1>4, <2>1, LaunderLocals, Zenon
<1>6. written + back + skipped > 0 \/ page["laundry"] = 0
  <2>1. done >= l.launder \/ written + back + skipped = page["laundry"]
    BY <1>3, Zenon
  <2> QED BY <1>1, <1>4, <2>1
<1>7. \E w, b, s \in Nat :
        /\ Promise!Laundered(w, b, s)
        /\ w + b + s > 0 \/ page["laundry"] = 0
  BY <1>3, <1>4, <1>6, Zenon
<1> QED BY <1>5, <1>7, Zenon

\* The pages that are laundered are in one place again.
LEMMA LaunderedKeeps ==
  ASSUME LaundryInv, NEW written \in Nat, NEW back \in Nat, NEW skipped \in Nat,
         Promise!Laundered(written, back, skipped)
  PROVE  Paged(page') /\ touch' \in 0 .. MaxTouch
<1> DEFINE q == Promise!Moved(page, "laundry", "inactive", written)
<1>1. /\ written + back + skipped <= page["laundry"] /\ back + skipped <= touch
      /\ page' = Promise!Moved(q, "laundry", "active", back)
      /\ touch' = touch - back - skipped
  BY DEF Promise!Laundered
<1>2. page["laundry"] \in Nat
  BY DEF LaundryInv, Paged, Promise!Place
<1>3. Paged(q)
  BY <1>1, <1>2, MovedKeeps DEF LaundryInv, Promise!Place
<1>4. q["laundry"] = page["laundry"] - written
  BY DEF Promise!Moved, LaundryInv, Paged, Promise!Place
<1> HIDE DEF q
<1>5. Paged(page')
  BY <1>1, <1>2, <1>3, <1>4, MovedKeeps DEF Promise!Place
<1>6. touch' \in 0 .. MaxTouch
  BY <1>1, LaundryAssumption DEF LaundryInv, LaundryTyped
<1> QED BY <1>5, <1>6

\* Laundering and the pause after it.
LEMMA LaunderInv == ASSUME LaundryInv, Launder PROVE LaundryInv'
<1>1. lpc = "launder" /\ lpc' = "lock" /\ UNCHANGED <<request, since>>
  BY DEF Launder
<1>2. Paged(page') /\ touch' \in 0 .. MaxTouch
  BY Launders, LaunderedKeeps
<1>3. Turning'
  <2>1. /\ l' \in Locals /\ l'.launder = 0 /\ l'.target <= l.target
        /\ l'.in_shortfall = l.in_shortfall /\ l'.last_target = l.last_target
    BY Launders
  <2>2. l \in Locals /\ (l.target > 0 /\ ~l.in_shortfall => l.last_target # Unset)
    BY DEF LaundryInv, Turning
  <2>3. l'.target > 0 => l.target > 0
    BY <2>1, <2>2 DEF Locals
  <2> QED BY <1>1, <2>1, <2>2, <2>3 DEF Turning
<1> QED BY <1>1, <1>2, <1>3 DEF LaundryInv, LaundryTyped

\* The second half of a turn: with nothing to launder, a target is cleared when
\* a request is taken.
LEMMA Answers ==
  ASSUME LaundryInv, Answer
  PROVE  LET takes == request = "shortfall" /\ (~l.in_shortfall \/ l.cycle = 0)
         IN  /\ \E deficit \in Promise!Deficit :
                  l'.shortfall = IF takes THEN vm_laundry_target + deficit ELSE 0
             /\ l' \in Locals /\ l'.launder = l.launder
             /\ l'.target = (IF takes THEN 0 ELSE l.target)
             /\ l'.last_target = l.last_target /\ l'.in_shortfall = l.in_shortfall
             /\ l'.cycle = l.cycle
             /\ request' = Answered(l'.target)
<1> DEFINE takes == request = "shortfall" /\ (~l.in_shortfall \/ l.cycle = 0)
           target == IF takes THEN 0 ELSE l.target
<1>1. PICK deficit \in Promise!Deficit :
        l' = [l EXCEPT !.shortfall = IF takes THEN vm_laundry_target + deficit ELSE 0,
                       !.target = target]
  BY Zenon DEF Answer
<1>2. request' = Answered(target)
  BY Zenon DEF Answer
<1> DEFINE s == IF takes THEN vm_laundry_target + deficit ELSE 0
           z == [l EXCEPT !.shortfall = s]
           y == [z EXCEPT !.target = target]
<1>3. deficit \in Nat /\ vm_laundry_target \in Int
  BY LaundryAssumption DEF Promise!Deficit, vm_laundry_target, Promise!vm_laundry_target,
     Promise!vm_paging_target, LaundryInv, Paged, Promise!Place
<1>4. l' = y
  BY <1>1, Zenon
<1>5. s \in Int
  BY <1>3
<1>6. target \in Nat /\ l \in Locals
  BY DEF LaundryInv, Turning, Locals
<1> HIDE DEF s, target
<1>7. /\ z \in Locals /\ z.shortfall = s /\ z.launder = l.launder
      /\ z.last_target = l.last_target /\ z.in_shortfall = l.in_shortfall /\ z.cycle = l.cycle
  BY <1>5, <1>6 DEF Locals
<1> HIDE DEF z
<1>8. /\ y \in Locals /\ y.shortfall = s /\ y.launder = l.launder /\ y.target = target
      /\ y.last_target = l.last_target /\ y.in_shortfall = l.in_shortfall /\ y.cycle = l.cycle
  BY <1>6, <1>7 DEF Locals
<1> HIDE DEF y
<1>9. \E k \in Promise!Deficit :
        l'.shortfall = IF takes THEN vm_laundry_target + k ELSE 0
  BY <1>4, <1>8, Zenon DEF s
<1>10. l'.target = (IF takes THEN 0 ELSE l.target)
  BY <1>4, <1>8, Zenon DEF target
<1>11. request' = Answered(l'.target)
  BY <1>2, <1>4, <1>8
<1> QED BY <1>4, <1>8, <1>9, <1>10, <1>11, Zenon

\* The second half of a turn keeps the invariant.
LEMMA AnswerInv == ASSUME LaundryInv, Answer PROVE LaundryInv'
<1>1. lpc \in {"woken", "lock"} /\ lpc' = "top" /\ UNCHANGED <<page, touch, since>>
  BY Zenon DEF Answer
<1>2. /\ l' \in Locals /\ l'.launder = l.launder /\ l'.target \in {0, l.target}
      /\ l'.last_target = l.last_target /\ l'.in_shortfall = l.in_shortfall
      /\ request' = Answered(l'.target)
  BY Answers
<1>3. l.launder > 0 <=> lpc = "launder"
  BY DEF LaundryInv, Turning
<1>4. l'.target > 0 /\ ~l'.in_shortfall => l'.last_target # Unset
  BY <1>2 DEF LaundryInv, Turning
<1>5. Turning'
  BY <1>1, <1>2, <1>3, <1>4 DEF Turning
<1>6. LaundryTyped'
  BY <1>1, <1>2 DEF LaundryInv, LaundryTyped, Answered
<1> QED BY <1>1, <1>5, <1>6 DEF LaundryInv

\* Sleep, the wakeups and the requests do not touch the local variables.
LEMMA LaundryOthersInv ==
  ASSUME LaundryInv, Sleep \/ Woken \/ Post \/ Others
  PROVE  LaundryInv'
<1>1. l' = l /\ touch' = touch
  BY DEF Sleep, Woken, Post, Others
<1>2. Paged(page')
  <2>1. CASE Others
    <3>1. PICK from \in Promise!Place, to \in Promise!Place :
            page[from] > 0 /\ page' = Promise!Moved(page, from, to, 1)
      BY <2>1 DEF Others
    <3>2. page[from] \in Nat
      BY DEF LaundryInv, Paged
    <3>3. CASE from # to
      BY <3>1, <3>2, <3>3, MovedKeeps DEF LaundryInv
    <3>4. CASE from = to
      <4>1. page' = page
        BY <3>1, <3>2, <3>4 DEF Promise!Moved, LaundryInv, Paged
      <4> QED BY <4>1 DEF LaundryInv
    <3> QED BY <3>3, <3>4
  <2>2. CASE Sleep \/ Woken \/ Post
    BY <2>2 DEF Sleep, Woken, Post, LaundryInv
  <2> QED BY <2>1, <2>2
<1>3. since' \in 0 .. MaxWakeups
  <2>1. CASE Woken
    <3>1. since + 1 \in Int /\ MaxWakeups \in Int /\ since \in Nat
      BY LaundryAssumption DEF LaundryInv, LaundryTyped
    <3>2. Min({since + 1, MaxWakeups}) \in {since + 1, MaxWakeups}
          /\ Min({since + 1, MaxWakeups}) <= MaxWakeups
      BY <3>1, MinOfTwo
    <3>3. since' = Min({since + 1, MaxWakeups})
      BY <2>1 DEF Woken
    <3> QED BY <3>1, <3>2, <3>3, LaundryAssumption
  <2>2. CASE Sleep \/ Post \/ Others
    BY <2>2 DEF Sleep, Post, Others, LaundryInv, LaundryTyped
  <2> QED BY <2>1, <2>2
<1>4. /\ request' \in {request, "shortfall", "background"}
      /\ \/ lpc' = lpc
         \/ lpc' = "launds" /\ lpc = "lock"
         \/ lpc' = "woken" /\ lpc = "launds"
  BY DEF Sleep, Woken, Post, Others
<1>5. LaundryTyped'
  BY <1>1, <1>3, <1>4 DEF LaundryInv, LaundryTyped
<1>6. Turning'
  BY <1>1, <1>4 DEF LaundryInv, Turning
<1> QED BY <1>2, <1>5, <1>6 DEF LaundryInv

\* Every step of the system keeps the invariant of the laundry thread.
LEMMA LaundryNextInv == LaundryInv /\ [Next]_vars => LaundryInv'
<1> SUFFICES ASSUME LaundryInv, [Next]_vars PROVE LaundryInv'
  OBVIOUS
<1>1. CASE LaundryNext \/ Woken \/ Post \/ Others
  BY <1>1, DecideInv, LaunderInv, AnswerInv, LaundryOthersInv DEF LaundryNext
<1>2. CASE UNCHANGED laundryVars
  BY <1>2 DEF laundryVars, LaundryInv, Turning, LaundryTyped
<1>3. (LaundryNext \/ Woken \/ Post \/ Others) \/ UNCHANGED laundryVars
  BY Zenon DEF Next, Vote, vars
<1> QED BY <1>1, <1>2, <1>3

\* The inductive invariant of the laundry thread.
THEOREM LaundryInvariant == Spec => []LaundryInv
BY LaundryInitInv, LaundryNextInv, PTL DEF Spec

\* Targets, cycles and shares never drop below 0, a share is left only to be
\* laundered, and last_target is set before a background run reads it.
THEOREM LocalsHold == Spec => []LaundryLocals
<1>1. LaundryInv => LaundryLocals
  BY DEF LaundryInv, Turning, Locals, LaundryLocals
<1> QED BY <1>1, LaundryInvariant, PTL

-----------------------------------------------------------------------------
(* The promise: what the laundry thread never does.  Every step of the      *)
(* system is a step of LaundryRequest or leaves its variables alone.        *)

Asleep == lpc = "launds"

Due == \/ lpc = "top" /\ l.shortfall > 0
       \/ l.in_shortfall /\ (l.cycle > 0 \/ l.launder > 0) /\ l.target > 0

\* Two truth values that imply each other are equal.
LEMMA SameTruth == ASSUME NEW a \in BOOLEAN, NEW b \in BOOLEAN, a <=> b PROVE a = b
OBVIOUS

\* The variables of LaundryRequest stay as they are.
Stays == UNCHANGED <<page, touch, request>> /\ Asleep' = Asleep /\ Due' = Due

\* Nothing of the promise is touched.
LEMMA StaysIsStutter == Stays => UNCHANGED Promise!requestVars
BY DEF Stays, Asleep, Due, Promise!requestVars, Promise!queueVars

\* A turn in shortfall still owes; when it is over nothing was owed, or the
\* target was met.
LEMMA DecidePromise ==
  ASSUME LaundryInv, Decide
  PROVE  Stays \/ Promise!Rest
<1>1. /\ lpc = "top" /\ lpc' \in {"launder", "lock"}
      /\ UNCHANGED <<page, touch, request>>
  BY Zenon DEF Decide
<1>2. l \in Locals /\ l' \in Locals /\ ~(l.launder > 0)
  BY <1>1, Decides DEF LaundryInv, Turning
<1>3. CASE /\ l.shortfall > 0
           /\ l'.in_shortfall /\ l'.target > 0 /\ (l'.cycle > 0 \/ l'.launder > 0)
  <2>1. Due = TRUE /\ Due' = TRUE
    BY <1>1, <1>3 DEF Due
  <2> QED BY <1>1, <2>1 DEF Stays, Asleep
<1>4. CASE /\ l.shortfall <= 0 /\ l.in_shortfall /\ l.cycle > 0
           /\ l'.in_shortfall /\ l'.target = l.target
           /\ l.target > 0 => l'.cycle > 0 \/ l'.launder > 0
  <2>1. l.shortfall \in Int /\ l.target \in Nat
    BY <1>2 DEF Locals
  <2>2. Due <=> l.target > 0
    BY <1>4, <2>1 DEF Due
  <2>3. Due' <=> l.target > 0
    BY <1>1, <1>4 DEF Due
  <2> QED BY <1>1, <2>2, <2>3 DEF Stays, Asleep, Due
<1>5. CASE /\ l.shortfall <= 0
           /\ ~l.in_shortfall \/ l.cycle = 0 \/ vm_laundry_target <= 0
           /\ ~l'.in_shortfall
  <2>1. ~(lpc = "launds") /\ ~(lpc' = "launds") /\ ~Due'
    BY <1>1, <1>5 DEF Due
  <2>2. ~(l.shortfall > 0)
    BY <1>2, <1>5 DEF Locals
  <2>3. ~(Due /\ vm_laundry_target > 0)
    <3>1. vm_laundry_target \in Int
      BY LaundryAssumption DEF vm_laundry_target, Promise!vm_laundry_target,
         Promise!vm_paging_target, LaundryInv, Paged, Promise!Place
    <3> QED BY <1>2, <1>5, <2>2, <3>1 DEF Due, Locals
  <2>4. ~Promise!Owed
    BY <2>3 DEF Promise!Owed, Due, vm_laundry_target
  <2> QED BY <1>1, <2>1, <2>4 DEF Promise!Rest, Promise!queueVars, Due
<1> QED BY <1>3, <1>4, <1>5, Decides

\* Laundering is an attempt to launder, and does not make anything owed.
LEMMA LaunderPromise ==
  ASSUME LaundryInv, Launder
  PROVE  Promise!Launder
<1>1. lpc = "launder" /\ lpc' = "lock" /\ request' = request
  BY DEF Launder
<1>2. PICK written \in Nat, back \in Nat, skipped \in Nat :
        /\ Promise!Laundered(written, back, skipped)
        /\ written + back + skipped > 0 \/ page["laundry"] = 0
  BY Launders
<1>3. written \in 0 .. Pages /\ back \in 0 .. MaxTouch /\ skipped \in 0 .. MaxTouch
  <2>1. written + back + skipped <= page["laundry"] /\ back + skipped <= touch
    BY <1>2 DEF Promise!Laundered
  <2>2. page["laundry"] \in Nat /\ page["laundry"] <= Pages /\ touch \in 0 .. MaxTouch
    BY LaundryAssumption DEF LaundryInv, Paged, Promise!Place, LaundryTyped
  <2> QED BY <2>1, <2>2, LaundryAssumption
<1>4. Due' \in {FALSE, Due}
  <2>1. /\ l' \in Locals /\ l'.launder = 0 /\ l'.target <= l.target
        /\ l'.in_shortfall = l.in_shortfall /\ l'.cycle = l.cycle
    BY Launders
  <2>2. l \in Locals
    BY DEF LaundryInv, Turning
  <2>3. Due' => Due
    BY <1>1, <2>1, <2>2 DEF Due, Locals
  <2> QED BY <2>3 DEF Due
<1>5. ~(lpc = "launds") /\ (lpc' = "launds") = (lpc = "launds")
  BY <1>1
<1> QED BY <1>1, <1>2, <1>3, <1>4, <1>5, Zenon DEF Promise!Launder, Due

\* It sleeps with no target, so nothing is owed.
LEMMA SleepPromise ==
  ASSUME LaundryInv, Sleep
  PROVE  Promise!Sleep
<1>1. /\ lpc = "lock" /\ lpc' = "launds" /\ l.target = 0 /\ request = "idle"
      /\ UNCHANGED <<page, touch, request, l>>
  BY DEF Sleep, NothingToDo
<1>2. ~Due /\ ~Due'
  BY <1>1 DEF Due
<1>3. ~Promise!Owed
  BY <1>2 DEF Promise!Owed, Due
<1> QED BY <1>1, <1>2, <1>3 DEF Promise!Sleep, Promise!queueVars, Due

\* A request in shortfall is taken when nothing is owed; any other answer is
\* given without a target, or leaves everything as it is.
LEMMA AnswerPromise ==
  ASSUME LaundryInv, Answer
  PROVE  Stays \/ Promise!Take \/ Promise!Rest
<1> DEFINE takes == request = "shortfall" /\ (~l.in_shortfall \/ l.cycle = 0)
<1>1. lpc \in {"woken", "lock"} /\ lpc' = "top" /\ UNCHANGED <<page, touch, since>>
  BY Zenon DEF Answer
<1>2. /\ \E deficit \in Promise!Deficit :
             l'.shortfall = IF takes THEN vm_laundry_target + deficit ELSE 0
      /\ l' \in Locals /\ l'.launder = l.launder
      /\ l'.target = (IF takes THEN 0 ELSE l.target)
      /\ l'.in_shortfall = l.in_shortfall /\ l'.cycle = l.cycle
      /\ request' = Answered(l'.target)
  BY Answers, Zenon
<1>3. l \in Locals /\ l.launder = 0
  BY <1>1 DEF LaundryInv, Turning, Locals
<1>4. Due <=> l.in_shortfall /\ l.cycle > 0 /\ l.target > 0
  BY <1>1, <1>3 DEF Due
<1>5. lpc # "launds" /\ lpc' # "launds"
  BY <1>1
<1>6. CASE takes
  <2>1. ~Due
    BY <1>3, <1>4, <1>6 DEF Locals
  <2>2. ~Promise!Owed
    BY <2>1 DEF Promise!Owed, Due
  <2>3. PICK deficit \in Promise!Deficit : l'.shortfall = vm_laundry_target + deficit
    BY <1>2, <1>6
  <2>4. l'.target = 0 /\ request' = "idle"
    BY <1>2, <1>6 DEF Answered
  <2>5. vm_laundry_target + deficit \in Int /\ l'.shortfall \in Int
    BY <1>2, LaundryAssumption DEF Promise!Deficit, vm_laundry_target, Promise!vm_laundry_target,
       Promise!vm_paging_target, LaundryInv, Paged, Promise!Place, Locals
  <2>6. Due' <=> l'.shortfall > 0
    <3>1. lpc' = "top" /\ ~(l'.target > 0)
      BY <1>1, <2>4
    <3> QED BY <3>1, Zenon DEF Due
  <2>7. Due' <=> Promise!vm_laundry_target + deficit > 0
    BY <2>3, <2>6 DEF vm_laundry_target
  <2>8. Due' = (Promise!vm_laundry_target + deficit > 0)
    <3> DEFINE b == Promise!vm_laundry_target + deficit > 0
    <3>1. Due' \in BOOLEAN /\ b \in BOOLEAN
      BY DEF Due
    <3>2. Due' <=> b
      BY <2>7
    <3> HIDE DEF b
    <3>3. Due' = b
      BY <3>1, <3>2, SameTruth, Zenon
    <3> QED BY <3>3, Zenon DEF b
  <2> QED BY <1>1, <1>5, <1>6, <2>2, <2>4, <2>8 DEF Promise!Take, Promise!queueVars, Due
<1>7. CASE ~takes
  <2>1. l'.shortfall = 0 /\ l'.target = l.target
    BY <1>2, <1>7
  <2>2. Due' = Due
    BY <1>2, <1>3, <1>4, <2>1 DEF Due
  <2>3. CASE request' = request
    BY <1>1, <1>5, <2>2, <2>3 DEF Stays, Asleep
  <2>4. CASE l.target = 0 /\ request' = "idle"
    <3>1. ~Due /\ ~Due'
      BY <1>4, <2>2, <2>4
    <3>2. ~Promise!Owed
      BY <3>1 DEF Promise!Owed, Due
    <3> QED BY <1>1, <1>5, <2>4, <3>1, <3>2 DEF Promise!Rest, Promise!queueVars, Due
  <2> QED BY <1>2, <2>1, <2>3, <2>4 DEF Answered
<1> QED BY <1>6, <1>7

\* A request is one of the two kinds, and wakes the thread.
LEMMA PostPromise ==
  ASSUME LaundryInv, Post
  PROVE  \E s \in {0, 1} : Promise!Request(s) /\ UNCHANGED <<Promise!queueVars, Due>>
<1>1. PICK s \in {0, 1} :
        request' = IF s > 0 THEN "shortfall"
                   ELSE IF request # "shortfall" THEN "background" ELSE request
  BY DEF Post
<1>2. /\ lpc' = IF lpc = "launds" THEN "woken" ELSE lpc
      /\ UNCHANGED <<page, touch, l>>
  BY DEF Post
<1>3. (lpc' = "launds") = FALSE
  BY <1>2
<1>4. lpc' = "top" <=> lpc = "top"
  BY <1>2
<1>5. Due' = Due
  BY <1>2, <1>4 DEF Due
<1> QED BY <1>1, <1>2, <1>3, <1>5 DEF Promise!Request, Promise!queueVars

\* Every step of the system is one of LaundryRequest.
LEMMA NextPromise ==
  ASSUME LaundryInv, [Next]_vars
  PROVE  [Promise!RequestNext]_(Promise!requestVars)
<1>1. CASE Decide
  BY <1>1, DecidePromise, StaysIsStutter DEF Promise!RequestNext, Promise!LaundryNext
<1>2. CASE Launder
  BY <1>2, LaunderPromise DEF Promise!RequestNext, Promise!LaundryNext
<1>3. CASE Sleep
  BY <1>3, SleepPromise DEF Promise!RequestNext, Promise!LaundryNext
<1>4. CASE Answer
  BY <1>4, AnswerPromise, StaysIsStutter DEF Promise!RequestNext, Promise!LaundryNext
<1>5. CASE Post
  BY <1>5, PostPromise DEF Promise!RequestNext, Due
<1>6. CASE Others
  <2>1. UNCHANGED <<touch, request, lpc, l>>
    BY <1>6 DEF Others
  <2>2. Promise!Others
    BY <1>6, <2>1 DEF Others, Promise!Others
  <2> QED BY <2>2 DEF Promise!RequestNext
<1>7. CASE UNCHANGED <<page, touch, request, lpc, l>>
  <2>1. Stays
    BY <1>7 DEF Stays, Asleep, Due
  <2> QED BY <2>1, StaysIsStutter
<1>8. \/ Decide \/ Launder \/ Sleep \/ Answer \/ Post \/ Others
      \/ UNCHANGED <<page, touch, request, lpc, l>>
  BY DEF Next, LaundryNext, Woken, Vote, vars, laundryVars
<1> QED BY <1>1, <1>2, <1>3, <1>4, <1>5, <1>6, <1>7, <1>8

\* The laundry thread never breaks the promise that the page daemon relies on: it
\* does not sleep with a request or when it owes, nor rest from what it owes.
THEOREM PromiseKept == Spec => Promise!RequestSafety
<1>1. Init => Promise!RequestInit
  BY DEF Init, Promise!RequestInit
<1>2. LaundryInv /\ [Next]_vars => [Promise!RequestNext]_(Promise!requestVars)
  BY NextPromise
<1> QED BY <1>1, <1>2, LaundryInvariant, PTL DEF Spec, Promise!RequestSafety
=============================================================================
