------------------------------ MODULE FoldPlan ------------------------------
(***************************************************************************)
(* The compaction planner of the forge (fold::plan), and the ladder of     *)
(* packs it makes when its plans are carried out: pushes add tier packs, a *)
(* fold rolls the lightest ones into one, a base rebuild rolls everything  *)
(* into the base.  Packs are their sizes.  The planner is a pure function; *)
(* the disk and the cadence are the caller's (base_gate) and change at any *)
(* time here.                                                              *)
(***************************************************************************)
EXTENDS Naturals, Sequences

CONSTANTS
  Factor,          \* fold_factor: the ratio of the geometric progression
  BaseTierPercent, \* base_tier_percent
  BaseMinBytes,    \* base_min_bytes
  FoldMinBytes,    \* fold_min_bytes
  FoldMaxPacks,    \* fold_max_packs
  PushBytes,       \* the sizes a push pack may have
  MaxBytes,        \* bound: all bytes together
  MaxTiers         \* bound: tier packs before the planner runs again

ASSUME KnobAssumption ==
  /\ Factor \in Nat \ {0, 1} /\ FoldMaxPacks \in Nat
  /\ BaseTierPercent \in Nat /\ BaseMinBytes \in Nat /\ FoldMinBytes \in Nat
  /\ PushBytes \subseteq Nat \ {0}

VARIABLES
  tiers,    \* the sizes of the named packs but the base, ascending
  base,     \* the size of the base; 0: there is none
  disk,     \* base_allowed: the disk has room for a rebuild
  cadence   \* cadence_open: the base is old enough

planVars == <<tiers, base, disk, cadence>>

SumUpTo(s) == LET upTo[i \in 0..Len(s)] == IF i = 0 THEN 0 ELSE s[i] + upTo[i - 1]
              IN upTo
SumOf(s) == SumUpTo(s)[Len(s)]
FirstN(s, n) == SubSeq(s, 1, n)
After(s, n) == SubSeq(s, n + 1, Len(s))

\* The packs are kept sorted by size: b goes before the first larger one.
InsertSize(s, b) ==
  [i \in 1..(Len(s) + 1) |->
     IF i <= Len(s) /\ s[i] <= b THEN s[i]
     ELSE IF i = 1 \/ s[i - 1] <= b THEN b ELSE s[i - 1]]

Cap == IF FoldMaxPacks > 2 THEN FoldMaxPacks ELSE 2
Reference == IF base > 0 THEN base ELSE BaseMinBytes

\* A pack that meets the base rule alone is the base rule's.
Exempt(b) == b * 100 >= Reference * BaseTierPercent

\* The packs a fold may take: the lightest ones, since exemption is by size.
Eligible == [i \in {j \in 1..Len(tiers) : ~ Exempt(tiers[j])} |-> tiers[i]]

CapTripped == Len(tiers) >= Cap

\* Mutant: the cap buys a rebuild even while a fold would do.
BaseDueGreedy ==
  /\ tiers # <<>>
  /\ disk
  /\ cadence \/ CapTripped
  /\ IF base = 0 THEN SumOf(tiers) >= BaseMinBytes
     ELSE SumOf(tiers) * 100 >= base * BaseTierPercent

\* The base rule: a closed cadence yields to the pack cap when no fold could
\* bring the count down; the disk never does.
BaseDue ==
  /\ tiers # <<>>
  /\ disk
  /\ cadence \/ (CapTripped /\ Len(Eligible) < 2)
  /\ IF base = 0 THEN SumOf(tiers) >= BaseMinBytes
     ELSE SumOf(tiers) * 100 >= base * BaseTierPercent

\* The packs that do not dominate the one before them.
Breaks(s) == {i \in 2..Len(s) : s[i] < Factor * s[i - 1]}

\* What is above the first n packs dominates what they would become.
Dominates(s, n) == n = Len(s) \/ s[n + 1] >= Factor * SumOf(FirstN(s, n))

\* git's split_pack_geometry: the packs below the progression (up to the
\* last pair that breaks it), extended while the next pack does not dominate
\* what they would become.
SplitOf(s) ==
  LET low == CHOOSE i \in Breaks(s) : \A j \in Breaks(s) : j <= i
  IN IF Breaks(s) = {} THEN 0
     ELSE CHOOSE n \in low..Len(s) :
            Dominates(s, n) /\ \A m \in low..(n - 1) : ~ Dominates(s, m)

\* Mutant: only the packs a fold may take count towards the cap.
ForcedPostExemption == Len(Eligible) >= Cap

Forced == Len(Eligible) >= Cap \/ CapTripped

\* Mutant: half of a progression of two is one pack.
HalfByCountOne(n) == (n + 1) \div 2

\* The smallest half by count, never fewer than two.
HalfByCount(n) == IF (n + 1) \div 2 > 2 THEN (n + 1) \div 2 ELSE 2

\* How many of the lightest eligible packs a fold takes; 0: no fold.
FoldCount ==
  LET n == Len(Eligible)
      k == SplitOf(Eligible)
  IN IF n < 2 THEN 0
     ELSE IF k < 2 THEN (IF Forced THEN HalfByCount(n) ELSE 0)
     ELSE IF SumOf(FirstN(Eligible, k)) < FoldMinBytes /\ ~ Forced THEN 0
     ELSE k

Planned == BaseDue \/ FoldCount > 0

-----------------------------------------------------------------------------
(* The ladder. *)

PlanInit == tiers = <<>> /\ base = 0 /\ disk \in BOOLEAN /\ cadence \in BOOLEAN

\* A batch names one more push pack.
PushPack(b) ==
  /\ base + SumOf(tiers) + b <= MaxBytes /\ Len(tiers) < MaxTiers
  /\ tiers' = InsertSize(tiers, b)
  /\ UNCHANGED <<base, disk, cadence>>

\* The base rule goes first.  Everything is reachable here: the worst case.
BaseRebuild ==
  /\ BaseDue
  /\ base' = base + SumOf(tiers)
  /\ tiers' = <<>>
  /\ cadence' = FALSE
  /\ UNCHANGED disk

TierFold ==
  /\ ~ BaseDue /\ FoldCount > 0
  /\ \E n \in {FoldCount} : tiers' = InsertSize(After(tiers, n), SumOf(FirstN(tiers, n)))
  /\ UNCHANGED <<base, disk, cadence>>

\* The base grows old; the disk fills and empties.
CadenceOpens == ~ cadence /\ cadence' = TRUE /\ UNCHANGED <<tiers, base, disk>>
DiskChanges == disk' = ~ disk /\ UNCHANGED <<tiers, base, cadence>>

PlanNext ==
  \/ \E b \in PushBytes : PushPack(b)
  \/ BaseRebuild \/ TierFold \/ CadenceOpens \/ DiskChanges

\* The planner runs after every commit and on every tick.
PlanSpec == PlanInit /\ [][PlanNext]_planVars /\ WF_planVars(BaseRebuild \/ TierFold)

-----------------------------------------------------------------------------
\* The sizes are positive and ascending, as the sort leaves them.
PlanTypeOK ==
  /\ base \in Nat /\ disk \in BOOLEAN /\ cadence \in BOOLEAN
  /\ tiers \in Seq(Nat \ {0})
  /\ \A i, j \in 1..Len(tiers) : i <= j => tiers[i] <= tiers[j]

\* The cap bounds the ladder: with as many tiers as the cap allows something
\* is planned, unless no two packs may be folded and the disk has no room
\* for the rebuild they wait for.
CapPlans == CapTripped => Planned \/ (Len(Eligible) < 2 /\ ~ disk)

\* A closed cadence is a promise that nobody rewrites the repository, and
\* tiny packs that reach the cap do not buy it: while two packs can be
\* folded the count comes down by a fold.
CapBuysNoRewrite ==
  [][BaseRebuild => cadence \/ Len(Eligible) < 2]_planVars

\* A fold ends the rewriting: every fold takes at least two packs, and
\* unless the cap forced it what it leaves is a geometric progression from
\* the roll-up upwards, so the planner does not take the roll-up again
\* before more is pushed.
FoldSettles ==
  [][TierFold =>
       /\ Len(tiers') < Len(tiers)
       /\ FoldCount = SplitOf(Eligible) =>
            LET left == After(Eligible, FoldCount)
                roll == SumOf(FirstN(Eligible, FoldCount))
            IN /\ left # <<>> => left[1] >= Factor * roll
               /\ \A i \in 2..Len(left) : left[i] >= Factor * left[i - 1]]_planVars

\* Rewriting comes to rest: the planner finds nothing to do again and again,
\* whatever is pushed and however the disk and the cadence change.
ComesToRest == []<>(~ Planned)

\* The ladder stays sorted and the cap bounds it (plan).
PlanInv == PlanTypeOK /\ CapPlans

\* What a planned step may do: no rewrite that the cadence forbids, and no
\* fold that is taken up again before more is pushed (plan).
PlanSteps == CapBuysNoRewrite /\ FoldSettles

=============================================================================
