-------------------------- MODULE ForgeRepoProofs --------------------------
(***************************************************************************)
(* ForgeRepo for every set of pods, refs, commits and pushes and every     *)
(* bound: no acknowledged push is lost, the bucket restores the repository *)
(* and the server that holds the lease knows what is published, and it     *)
(* implements RefLog.  First the inductive invariant and the lemmas on the *)
(* operators it is made of, then the steps, part by part, and what follows *)
(* from them.                                                              *)
(*                                                                         *)
(* RepoIInv is inductive.  Its parts say what each snapshot that exists or *)
(* may still be written is (GoodOK), that they are numbered, so that a PUT *)
(* that lands leaves nothing else on the wire that matches (SeqOK), which  *)
(* of them a process wrote itself (OwnOK), and that nothing that would     *)
(* change the content can land behind the back of a server that claimed a  *)
(* released cell or has rotated (CalmOK).                                  *)
(***************************************************************************)
EXTENDS ForgeRepo, FiniteSetTheorems, SequenceTheorems, WellFoundedInduction, TLAPS

NoRefs == [r \in Ref |-> Absent]

\* Every snapshot a reader may come to see.
Bodies == {snap} \cup {w.body : w \in wire}

(* Epochs: none is held twice, and one on its way back is not held. *)
EpochsOK ==
  /\ \A p \in Pod : held[p] <= epoch
  /\ \A p \in Pod : held[p] = epoch /\ epoch # 0 => holder = p
  /\ \A p, q \in Pod : held[p] # 0 /\ held[p] = held[q] => p = q
  /\ \A e \in leaving : e # 0 /\ e <= epoch
  /\ \A p \in Pod : held[p] # 0 => held[p] \notin leaving

(* What a process knows of the lease where it is. *)
PlaceOK ==
  \A p \in Pod :
    /\ at[p] \in {"down", "claim"} => held[p] = 0
    /\ at[p] \in {"rotate", "rotating"} => held[p] # 0
    /\ at[p] \in {"commit", "reload", "landed", "report"} =>
         /\ batch[p].epoch # 0 /\ batch[p].epoch <= epoch
         /\ held[p] # 0 => held[p] = batch[p].epoch

(* Snapshots are numbered in the order they are written. *)
SeqOK ==
  /\ \A s \in Bodies : s.epoch <= epoch
  /\ \A p \in Pod : cell[p].seq <= snap.seq
  /\ \A w \in wire : w.match.seq <= snap.seq /\ w.body.seq = w.match.seq + 1

(* The epoch a process writes with. *)
Mine(p) == IF at[p] \in {"commit", "reload"} THEN batch[p].epoch ELSE held[p]

(* Of the snapshots a process wrote, only the one it does not know the     *)
(* fate of is newer than the one it works on.                              *)
OwnOK ==
  \A p \in Pod : \A s \in Bodies :
    Mine(p) # 0 /\ s.writer = p /\ s.epoch = Mine(p) =>
      /\ at[p] \notin {"rotate", "rotating", "load"}
      /\ s.seq <= cell[p].seq \/ (at[p] = "reload" /\ s = Publication(p).body)

Covers(s) == s.packs \subseteq store /\ Reachable(s.refs) \subseteq UNION s.packs
NamesNeeded(packs, hist) ==
  \A k \in packs : \E u \in Range1(hist) : k \cap History[u.new] # {}
Logged(rs, l) == Log!Legal(l) /\ rs = Log!RefsAfter(l)[Len(l)]

(* What every snapshot is: restorable, and the outcome of its log. *)
Good(s) == Covers(s) /\ NamesNeeded(s.packs, s.hist) /\ Logged(s.refs, s.hist)

Wide(p) == cell[p].hist \o batch[p].acc

GoodOK ==
  /\ \A s \in Bodies : Good(s)
  /\ \A p \in Pod : Good(cell[p])
  /\ \A w \in wire : Log!Extends(w.body.hist, w.match.hist)

(* What a batch works on, step by step. *)
BatchOK ==
  \A p \in Pod :
    /\ at[p] \in {"judge", "commit", "reload"} =>
         /\ Logged(batch[p].eff, Wide(p))
         /\ \A r \in Ref \ Touched(p) : batch[p].eff[r] = cell[p].refs[r]
         /\ \A r \in Touched(p) : \E u \in Range1(batch[p].acc) : u.new = batch[p].eff[r]
         /\ batch[p].up \subseteq store
    /\ at[p] \in {"commit", "reload"} =>
         /\ batch[p].acc # <<>>
         /\ Reachable(batch[p].eff) \subseteq UNION batch[p].named
         /\ NamesNeeded(batch[p].named, Wide(p))
    /\ at[p] = "reload" => ToUpload(p) = {}

(* The local refs follow the snapshot the process works on. *)
LocalOK ==
  /\ snap.seq = 0 => \A p \in Pod : refs[p] = NoRefs
  /\ \A p \in Pod :
       /\ cell[p].seq = 0 => cell[p].refs = NoRefs
       /\ at[p] \in {"rotating", "restore"} /\ cell[p].seq = 0 => refs[p] = NoRefs
       /\ at[p] \in {"idle", "judge", "commit", "reload", "report"} => refs[p] = cell[p].refs
       /\ at[p] = "landed" =>
            \A r \in Ref : cell[p].refs[r] = IF r \in Touched(p) THEN batch[p].eff[r]
                                             ELSE refs[p][r]
  /\ \A s \in Bodies : s.seq = 0 => s.refs = NoRefs

(* A claim without a rotation is safe, or was, or a server has rotated. *)
Settled(p) == Current(p) /\ at[p] \in Serving \cup {"load", "restore"}
Calm == epoch = 0 \/ released \/ epoch \in leaving \/ \E p \in Pod : Settled(p)

(* Then nothing changes the content but the holder's own publication. *)
CalmOK ==
  Calm =>
    /\ \A q \in Pod : at[q] \in {"commit", "reload"} /\ cell[q] = snap => Current(q)
    /\ \A w \in wire : w.match = snap =>
          \/ SameContent(w.match, w.body)
          \/ \E q \in Pod : Current(q) /\ at[q] = "reload" /\ w = Publication(q)

(* What the holder serves from is what is published. *)
HeldOK ==
  \A p \in Pod : Current(p) /\ at[p] \in Serving \cup {"restore"} =>
    \/ SameContent(snap, cell[p])
    \/ at[p] = "reload" /\ SameContent(snap, Publication(p).body)

(* What is about to be reported is in the published log. *)
AckOK ==
  /\ AckedIsDurable
  /\ \A p \in Pod : at[p] \in {"landed", "report"} =>
        Range1(batch[p].acc) \subseteq Range1(snap.hist)

(* A push waits at one door, for one verdict. *)
Waiting(p) == queue[p] \cup Members(batch[p])
WaitOK ==
  /\ \A p \in Pod : \A u \in Waiting(p) : told[u] = "waiting"
  /\ \A p \in Pod : queue[p] \cap Members(batch[p]) = {}
  /\ \A p, q \in Pod : p # q => Waiting(p) \cap Waiting(q) = {}

NgFinite == \A p \in Pod : IsFiniteSet(batch[p].ng)

RepoIInv ==
  /\ RepoTypeOK /\ NgFinite
  /\ EpochsOK /\ PlaceOK /\ SeqOK /\ OwnOK /\ GoodOK /\ BatchOK
  /\ LocalOK /\ CalmOK /\ HeldOK /\ AckOK /\ WaitOK

-----------------------------------------------------------------------------
(* The operators of the model. *)

\* Every nonempty set of numbers has a least one: the induction used here.
LEMMA LeastNumber ==
  ASSUME NEW T \in SUBSET Nat, T # {}
  PROVE  \E n \in T : \A m \in T : n <= m
<1> DEFINE R == OpToRel(<, Nat)
<1>1. PICK x \in T : \A y \in T : ~ (<<y, x>> \in R)
  <2>1. IsWellFoundedOn(R, Nat)
    BY NatLessThanWellFounded, Zenon
  <2> HIDE DEF R
  <2> QED
    BY <2>1, WFMin
<1>2. \A y \in T : ~ (y < x)
  BY <1>1, Zenon DEF OpToRel
<1> QED
  BY <1>2

\* f are the refs after the first updates of l, up to the m-th.
IsAfter(l, m, f) ==
  f = [n \in 0..m |-> IF n = 0 THEN NoRefs ELSE Log!Applied(f[n - 1], l[n])]

LEMMA IsAfterSteps ==
  ASSUME NEW l, NEW m \in Nat, NEW f, IsAfter(l, m, f)
  PROVE  /\ DOMAIN f = 0..m /\ f[0] = NoRefs
         /\ \A n \in 1..m : f[n] = Log!Applied(f[n - 1], l[n])
  BY DEF IsAfter

LEMMA AfterExists ==
  ASSUME NEW l, NEW m \in Nat
  PROVE  \E f : IsAfter(l, m, f)
<1> DEFINE T == {k \in Nat : ~ \E f : IsAfter(l, k, f)}
<1> SUFFICES ASSUME T # {} PROVE FALSE
  OBVIOUS
<1>1. PICK k \in T : \A j \in T : k <= j
  BY LeastNumber
<1>2. k # 0
  <2> DEFINE g == [n \in 0..0 |-> NoRefs]
  <2>1. IsAfter(l, 0, g)
    BY DEF IsAfter
  <2> QED
    BY <2>1
<1>3. k \in Nat /\ k - 1 \in Nat /\ ~ (k - 1 \in T)
  BY <1>1, <1>2
<1>4. PICK f : IsAfter(l, k - 1, f)
  BY <1>3
<1> HIDE DEF T
<1> DEFINE g == [n \in 0..k |-> IF n = k THEN Log!Applied(f[k - 1], l[k]) ELSE f[n]]
<1>5. f[0] = NoRefs /\ \A n \in 1..(k - 1) : f[n] = Log!Applied(f[n - 1], l[n])
  BY <1>3, <1>4, IsAfterSteps
<1>6. ASSUME NEW n \in 0..k
      PROVE  g[n] = IF n = 0 THEN NoRefs ELSE Log!Applied(g[n - 1], l[n])
  <2>1. CASE n = k
    BY <2>1, <1>2, <1>3
  <2>2. CASE n # k
    BY <2>2, <1>3, <1>5
  <2> QED
    BY <2>1, <2>2
<1>7. IsAfter(l, k, g)
  BY <1>6 DEF IsAfter
<1> QED
  BY <1>7, <1>1 DEF T

\* What RefsAfter computes, step by step.
LEMMA RefsAfterSteps ==
  ASSUME NEW l \in Seq(Push)
  PROVE  /\ Log!RefsAfter(l)[0] = NoRefs
         /\ \A n \in 1..Len(l) :
              Log!RefsAfter(l)[n] = Log!Applied(Log!RefsAfter(l)[n - 1], l[n])
<1>1. Len(l) \in Nat
  OBVIOUS
<1>2. \E f : IsAfter(l, Len(l), f)
  BY <1>1, AfterExists
<1>3. IsAfter(l, Len(l), Log!RefsAfter(l))
  BY <1>2 DEF IsAfter, Log!RefsAfter, NoRefs
<1> QED
  BY <1>1, <1>3, IsAfterSteps

\* A longer log starts with the same refs.
LEMMA RefsAfterPrefix ==
  ASSUME NEW l \in Seq(Push), NEW k \in Seq(Push), Len(l) <= Len(k),
         \A i \in 1..Len(l) : k[i] = l[i]
  PROVE  \A n \in 0..Len(l) : Log!RefsAfter(k)[n] = Log!RefsAfter(l)[n]
<1> DEFINE T == {n \in 0..Len(l) : Log!RefsAfter(k)[n] # Log!RefsAfter(l)[n]}
<1> SUFFICES ASSUME T # {} PROVE FALSE
  OBVIOUS
<1>0. Len(l) \in Nat /\ Len(k) \in Nat
  OBVIOUS
<1>1. PICK n \in T : \A m \in T : n <= m
  <2>1. T \in SUBSET Nat
    BY <1>0
  <2> QED
    BY <2>1, LeastNumber
<1>2. n # 0
  BY RefsAfterSteps
<1>3. n \in 1..Len(l) /\ n \in 1..Len(k) /\ n - 1 \in 0..Len(l) /\ ~ (n - 1 \in T)
  BY <1>0, <1>1, <1>2
<1>4. Log!RefsAfter(k)[n - 1] = Log!RefsAfter(l)[n - 1]
  BY <1>3
<1> QED
  BY <1>3, <1>4, RefsAfterSteps

\* One more update.
LEMMA LoggedAppend ==
  ASSUME NEW l \in Seq(Push), NEW rs, NEW u \in Push, Logged(rs, l), u.old = rs[u.ref]
  PROVE  Logged(Log!Applied(rs, u), Append(l, u))
<1> DEFINE k == Append(l, u)
<1>1. /\ k \in Seq(Push) /\ Len(k) = Len(l) + 1 /\ Len(l) \in Nat
      /\ \A i \in 1..Len(l) : k[i] = l[i]
      /\ k[Len(l) + 1] = u
  OBVIOUS
<1> HIDE DEF k
<1>2. \A n \in 0..Len(l) : Log!RefsAfter(k)[n] = Log!RefsAfter(l)[n]
  BY <1>1, RefsAfterPrefix
<1>3. rs = Log!RefsAfter(l)[Len(l)] /\ Log!Legal(l)
  BY DEF Logged
<1>4. Log!RefsAfter(k)[Len(l)] = rs
  BY <1>1, <1>2, <1>3
<1>5. Log!RefsAfter(k)[Len(k)] = Log!Applied(rs, u)
  <2>1. Len(k) \in 1..Len(k) /\ Len(k) - 1 = Len(l) /\ k[Len(k)] = u
    BY <1>1
  <2> QED
    BY <1>1, <1>4, <2>1, RefsAfterSteps
<1>6. Log!Legal(k)
  <2> SUFFICES ASSUME NEW n \in 1..Len(k)
               PROVE  k[n].old = Log!RefsAfter(k)[n - 1][k[n].ref]
    BY DEF Log!Legal
  <2>1. CASE n = Len(k)
    <3>1. n - 1 = Len(l) /\ k[n] = u
      BY <1>1, <2>1
    <3> QED
      BY <1>4, <3>1
  <2>2. CASE n # Len(k)
    <3>1. n \in 1..Len(l) /\ n - 1 \in 0..Len(l)
      BY <1>1, <2>2
    <3>2. l[n].old = Log!RefsAfter(l)[n - 1][l[n].ref]
      BY <1>3, <3>1 DEF Log!Legal
    <3> QED
      BY <1>1, <1>2, <3>1, <3>2
  <2> QED
    BY <2>1, <2>2
<1> QED
  BY <1>5, <1>6 DEF Logged, k

\* The empty log leaves no refs.
LEMMA LoggedEmpty == Logged(NoRefs, <<>>)
<1>1. <<>> \in Seq(Push) /\ Len(<<>>) = 0
  OBVIOUS
<1>2. Log!RefsAfter(<<>>)[0] = NoRefs
  BY <1>1, RefsAfterSteps
<1> QED
  BY <1>1, <1>2 DEF Logged, Log!Legal

IsHistory(m, f) ==
  f = [c \in 0..m |-> IF c \in Commit THEN {c} \cup f[Parent[c]] ELSE {}]

LEMMA ParentBefore ==
  ASSUME NEW c \in Commit
  PROVE  c \in Nat /\ Parent[c] \in Nat /\ Parent[c] < c
<1>1. Commit \subseteq Nat
  BY CommitAssumption
<1>2. c \in Nat
  BY <1>1
<1>3. Parent[c] \in Nat
  <2>1. Parent[c] \in Oid
    BY CommitAssumption
  <2>2. Oid \subseteq Nat
    BY <1>1 DEF Oid, Absent
  <2> QED
    BY <2>1, <2>2
<1>4. Parent[c] < c
  BY CommitAssumption
<1> QED
  BY <1>2, <1>3, <1>4

LEMMA IsHistorySteps ==
  ASSUME NEW m \in Nat, NEW f, IsHistory(m, f)
  PROVE  \A c \in 0..m : f[c] = IF c \in Commit THEN {c} \cup f[Parent[c]] ELSE {}
  BY DEF IsHistory

LEMMA HistoryExists ==
  ASSUME NEW m \in Nat
  PROVE  \E f : IsHistory(m, f)
<1> DEFINE T == {k \in Nat : ~ \E f : IsHistory(k, f)}
<1> SUFFICES ASSUME T # {} PROVE FALSE
  OBVIOUS
<1>1. PICK k \in T : \A j \in T : k <= j
  BY LeastNumber
<1>2. k # 0
  <2> DEFINE g == [c \in 0..0 |-> {}]
  <2>1. IsHistory(0, g)
    BY CommitAssumption DEF IsHistory
  <2> QED
    BY <2>1
<1>3. k \in Nat /\ k - 1 \in Nat /\ ~ (k - 1 \in T)
  BY <1>1, <1>2
<1>4. PICK f : IsHistory(k - 1, f)
  BY <1>3
<1> HIDE DEF T
<1> DEFINE g == [c \in 0..k |-> IF c = k THEN IF c \in Commit THEN {c} \cup f[Parent[c]] ELSE {}
                                ELSE f[c]]
<1>5. \A c \in 0..(k - 1) : f[c] = IF c \in Commit THEN {c} \cup f[Parent[c]] ELSE {}
  BY <1>3, <1>4, IsHistorySteps
<1>6. ASSUME NEW c \in 0..k
      PROVE  g[c] = IF c \in Commit THEN {c} \cup g[Parent[c]] ELSE {}
  <2>1. c \in Commit => Parent[c] \in 0..(k - 1) /\ Parent[c] # k
    BY <1>3, ParentBefore
  <2>2. c \in Commit => g[Parent[c]] = f[Parent[c]]
    BY <1>3, <2>1
  <2>3. CASE c = k
    BY <1>3, <2>2, <2>3
  <2>4. CASE c # k
    <3>1. c \in 0..(k - 1) /\ g[c] = f[c]
      BY <1>3, <2>4
    <3> QED
      BY <1>5, <2>2, <3>1
  <2> QED
    BY <2>3, <2>4
<1>7. IsHistory(k, g)
  BY <1>6 DEF IsHistory
<1> QED
  BY <1>7, <1>1 DEF T

LEMMA HistoryAgrees ==
  ASSUME NEW m \in Nat, NEW n \in Nat, NEW f, NEW g, IsHistory(m, f), IsHistory(n, g)
  PROVE  \A c \in 0..m : c <= n => f[c] = g[c]
<1> DEFINE T == {c \in 0..m : c <= n /\ f[c] # g[c]}
<1> SUFFICES ASSUME T # {} PROVE FALSE
  OBVIOUS
<1>1. PICK c \in T : \A d \in T : c <= d
  <2>1. T \in SUBSET Nat
    OBVIOUS
  <2> QED
    BY <2>1, LeastNumber
<1>2. /\ f[c] = IF c \in Commit THEN {c} \cup f[Parent[c]] ELSE {}
      /\ g[c] = IF c \in Commit THEN {c} \cup g[Parent[c]] ELSE {}
  <2>1. c \in 0..m /\ c \in 0..n
    OBVIOUS
  <2> QED
    BY <2>1, IsHistorySteps
<1>3. c \in Commit /\ f[Parent[c]] # g[Parent[c]]
  BY <1>2
<1>4. Parent[c] \in T
  BY <1>3, ParentBefore
<1> QED
  BY <1>1, <1>3, <1>4, ParentBefore

\* What History computes: a commit and the history of its parent.
LEMMA HistoryStep ==
  \A c \in Nat : History[c] = IF c \in Commit THEN {c} \cup History[Parent[c]] ELSE {}
<1> DEFINE h(c) == CHOOSE f : IsHistory(c, f)
           F == [c \in Nat |-> h(c)[c]]
<1>1. \A c \in Nat : IsHistory(c, h(c))
  BY HistoryExists
<1>2. ASSUME NEW c \in Nat
      PROVE  F[c] = IF c \in Commit THEN {c} \cup F[Parent[c]] ELSE {}
  <2>1. h(c)[c] = IF c \in Commit THEN {c} \cup h(c)[Parent[c]] ELSE {}
    <3>1. IsHistory(c, h(c)) /\ c \in 0..c
      BY <1>1
    <3> HIDE DEF h
    <3> QED
      BY <3>1, IsHistorySteps
  <2>2. c \in Commit => h(c)[Parent[c]] = h(Parent[c])[Parent[c]]
    <3> SUFFICES ASSUME c \in Commit
                 PROVE  h(c)[Parent[c]] = h(Parent[c])[Parent[c]]
      OBVIOUS
    <3>1. Parent[c] \in Nat /\ Parent[c] < c /\ Parent[c] \in 0..c
      BY ParentBefore
    <3>2. IsHistory(c, h(c)) /\ IsHistory(Parent[c], h(Parent[c]))
      BY <1>1, <3>1
    <3> HIDE DEF h
    <3> QED
      BY <3>1, <3>2, HistoryAgrees
  <2> HIDE DEF h
  <2> QED
    BY <2>1, <2>2, ParentBefore
<1>3. F = [c \in Nat |-> IF c \in Commit THEN {c} \cup F[Parent[c]] ELSE {}]
  BY <1>2
<1> HIDE DEF F
<1>4. \E f : f = [c \in Nat |-> IF c \in Commit THEN {c} \cup f[Parent[c]] ELSE {}]
  BY <1>3
<1>5. History = [c \in Nat |-> IF c \in Commit THEN {c} \cup History[Parent[c]] ELSE {}]
  BY <1>4 DEF History
<1> QED
  BY <1>5

LEMMA NothingReachable == Reachable(NoRefs) = {}
<1>1. History[Absent] = {}
  BY HistoryStep, CommitAssumption DEF Absent
<1> QED
  BY <1>1 DEF Reachable, NoRefs

\* Every pack needed_packs takes had something that was wanted.
LEMMA TakenIsWanted ==
  ASSUME NEW T \in SUBSET Pack, NEW want, ReadInOrder(T, want), NEW k \in T
  PROVE  k \cap want # {}
<1>1. IsFiniteSet(Pack)
  BY CommitAssumption, FS_SUBSET DEF Pack
<1>2. IsFiniteSet(T)
  BY <1>1, FS_Subset
<1> DEFINE n == Cardinality(T)
<1>3. n \in Nat
  BY <1>2, FS_CardinalityType
<1>4. PICK s \in [1..n -> T] :
         \A i \in DOMAIN s : (s[i] \cap want) \ UNION {s[h] : h \in 1..(i - 1)} # {}
  BY DEF ReadInOrder
<1> HIDE DEF n
<1>5. ASSUME NEW i \in 1..n, NEW j \in 1..n, i < j PROVE s[i] # s[j]
  <2>1. (s[j] \cap want) \ UNION {s[h] : h \in 1..(j - 1)} # {}
    BY <1>4
  <2>2. i \in 1..(j - 1)
    BY <1>3, <1>5
  <2> QED
    BY <2>1, <2>2
<1>6. s \in Injection(1..n, T)
  <2>1. \A i, j \in 1..n : s[i] = s[j] => i = j
    BY <1>3, <1>5
  <2> QED
    BY <2>1 DEF Injection, IsInjective
<1>7. Cardinality(1..n) = n
  BY <1>3, FS_Interval
<1>8. s \in Surjection(1..n, T)
  BY <1>2, <1>6, <1>7, FS_Injection DEF n
<1>9. PICK i \in 1..n : s[i] = k
  BY <1>8 DEF Surjection
<1> QED
  BY <1>4, <1>9

\* The elements of a concatenation, and of a sequence with one more.
LEMMA RangeOfConcat ==
  ASSUME NEW s \in Seq(Push), NEW t \in Seq(Push)
  PROVE  Range1(s \o t) = Range1(s) \cup Range1(t)
<1>1. /\ Len(s) \in Nat /\ Len(t) \in Nat /\ Len(s \o t) = Len(s) + Len(t)
      /\ \A i \in 1..(Len(s) + Len(t)) :
           (s \o t)[i] = IF i <= Len(s) THEN s[i] ELSE t[i - Len(s)]
  BY ConcatProperties
<1>2. Range1(s \o t) \subseteq Range1(s) \cup Range1(t)
  BY <1>1 DEF Range1
<1>3. Range1(s) \subseteq Range1(s \o t)
  BY <1>1 DEF Range1
<1>4. ASSUME NEW u \in Range1(t) PROVE u \in Range1(s \o t)
  <2>1. PICK i \in 1..Len(t) : u = t[i]
    BY DEF Range1
  <2>2. i + Len(s) \in 1..(Len(s) + Len(t)) /\ (s \o t)[i + Len(s)] = u
    BY <1>1, <2>1
  <2> QED
    BY <1>1, <2>2 DEF Range1
<1> QED
  BY <1>2, <1>3, <1>4

LEMMA RangeOfAppend ==
  ASSUME NEW s \in Seq(Push), NEW u \in Push
  PROVE  Range1(Append(s, u)) = Range1(s) \cup {u}
<1>1. /\ Len(s) \in Nat /\ Len(Append(s, u)) = Len(s) + 1
      /\ \A i \in 1..Len(s) : Append(s, u)[i] = s[i]
      /\ Append(s, u)[Len(s) + 1] = u
  OBVIOUS
<1> QED
  BY <1>1 DEF Range1

LEMMA RangeIsPushes ==
  ASSUME NEW s \in Seq(Push)
  PROVE  Range1(s) \subseteq Push
  BY DEF Range1

\* A log extended by a batch.
LEMMA ConcatExtends ==
  ASSUME NEW s \in Seq(Push), NEW t \in Seq(Push)
  PROVE  Log!Extends(s \o t, s)
<1>1. /\ Len(s) \in Nat /\ Len(t) \in Nat /\ Len(s \o t) = Len(s) + Len(t)
      /\ \A i \in 1..(Len(s) + Len(t)) :
           (s \o t)[i] = IF i <= Len(s) THEN s[i] ELSE t[i - Len(s)]
      /\ s \o t \in Seq(Push)
  BY ConcatProperties
<1> DEFINE k == SubSeq(s \o t, 1, Len(s))
<1>2. k \in Seq(Push) /\ Len(k) = Len(s) /\ \A i \in 1..Len(s) : k[i] = s[i]
  BY <1>1
<1>3. k = s
  BY <1>2, SeqEqual
<1> QED
  BY <1>1, <1>3 DEF Log!Extends

\* What a log extends, it contains.
LEMMA ExtendsContains ==
  ASSUME NEW s \in Seq(Push), NEW t \in Seq(Push), Log!Extends(t, s)
  PROVE  Range1(s) \subseteq Range1(t)
<1>1. Len(s) \in Nat /\ Len(t) \in Nat /\ Len(t) >= Len(s) /\ SubSeq(t, 1, Len(s)) = s
  BY DEF Log!Extends
<1>2. \A i \in 1..Len(s) : SubSeq(t, 1, Len(s))[i] = t[i]
  BY <1>1
<1> QED
  BY <1>1, <1>2 DEF Range1

-----------------------------------------------------------------------------
(* The two PUTs of a process, spelled out. *)

LEMMA RotationIs ==
  ASSUME RepoTypeOK, NEW p \in Pod
  PROVE  /\ Rotation(p).match = cell[p]
         /\ Rotation(p).body = [seq |-> cell[p].seq + 1, epoch |-> held[p], writer |-> p,
                                refs |-> cell[p].refs, packs |-> cell[p].packs,
                                hist |-> cell[p].hist]
         /\ Rotation(p) \in SnapshotPut
<1>1. cell[p] \in Snapshot /\ held[p] \in Nat
  BY DEF RepoTypeOK, EpochTypeOK
<1>2. Rotation(p).match = cell[p]
  BY DEF Rotation
<1>3. Rotation(p).body = [seq |-> cell[p].seq + 1, epoch |-> held[p], writer |-> p,
                          refs |-> cell[p].refs, packs |-> cell[p].packs,
                          hist |-> cell[p].hist]
  BY <1>1 DEF Rotation, Stamped, Snapshot
<1>4. Rotation(p).body \in Snapshot
  BY <1>1, <1>3 DEF Snapshot
<1> QED
  BY <1>1, <1>2, <1>3, <1>4 DEF Rotation, SnapshotPut

LEMMA PublicationIs ==
  ASSUME RepoTypeOK, NEW p \in Pod
  PROVE  /\ Publication(p).match = cell[p]
         /\ Publication(p).body = [seq |-> cell[p].seq + 1, epoch |-> batch[p].epoch,
                                   writer |-> p, refs |-> Moved(p),
                                   packs |-> batch[p].named, hist |-> Wide(p)]
         /\ Moved(p) \in [Ref -> Oid]
         /\ Wide(p) \in Seq(Push)
         /\ Publication(p) \in SnapshotPut
<1>1. cell[p] \in Snapshot /\ batch[p] \in Batch
  BY DEF RepoTypeOK
<1>2. Publication(p).match = cell[p]
  BY DEF Publication
<1>3. Publication(p).body = [seq |-> cell[p].seq + 1, epoch |-> batch[p].epoch,
                             writer |-> p, refs |-> Moved(p),
                             packs |-> batch[p].named, hist |-> Wide(p)]
  BY <1>1 DEF Publication, Stamped, Snapshot, Wide
<1>4. Moved(p) \in [Ref -> Oid]
  BY <1>1 DEF Moved, Snapshot, Batch
<1>5. Wide(p) \in Seq(Push)
  BY <1>1, ConcatProperties DEF Wide, Snapshot, Batch
<1>6. Publication(p).body \in Snapshot
  BY <1>1, <1>3, <1>4, <1>5 DEF Snapshot, Batch
<1> QED
  BY <1>1, <1>2, <1>3, <1>4, <1>5, <1>6 DEF Publication, SnapshotPut

\* A history is made of commits.
LEMMA HistoryCommits ==
  \A c \in Nat : History[c] \subseteq Commit
<1> DEFINE T == {c \in Nat : ~ (History[c] \subseteq Commit)}
<1> SUFFICES ASSUME T # {} PROVE FALSE
  OBVIOUS
<1>1. PICK c \in T : \A d \in T : c <= d
  BY LeastNumber
<1>2. c \in Commit /\ ~ (History[Parent[c]] \subseteq Commit)
  BY HistoryStep
<1>3. Parent[c] \in T
  BY <1>2, ParentBefore
<1> QED
  BY <1>1, <1>2, <1>3, ParentBefore

\* The same, field by field.
LEMMA RotationFields ==
  ASSUME RepoTypeOK, NEW p \in Pod
  PROVE  /\ Rotation(p) \in SnapshotPut /\ Rotation(p).match = cell[p]
         /\ Rotation(p).body.seq = cell[p].seq + 1 /\ Rotation(p).body.epoch = held[p]
         /\ Rotation(p).body.writer = p
         /\ Rotation(p).body.refs = cell[p].refs /\ Rotation(p).body.packs = cell[p].packs
         /\ Rotation(p).body.hist = cell[p].hist
<1> DEFINE s == Rotation(p).body
<1>1. s = [seq |-> cell[p].seq + 1, epoch |-> held[p], writer |-> p, refs |-> cell[p].refs,
           packs |-> cell[p].packs, hist |-> cell[p].hist]
  BY RotationIs
<1> HIDE DEF s
<1>2. /\ s.seq = cell[p].seq + 1 /\ s.epoch = held[p] /\ s.writer = p
      /\ s.refs = cell[p].refs /\ s.packs = cell[p].packs /\ s.hist = cell[p].hist
  BY <1>1
<1> QED
  BY <1>2, RotationIs DEF s

LEMMA PublicationFields ==
  ASSUME RepoTypeOK, NEW p \in Pod
  PROVE  /\ Publication(p) \in SnapshotPut /\ Publication(p).match = cell[p]
         /\ Publication(p).body.seq = cell[p].seq + 1
         /\ Publication(p).body.epoch = batch[p].epoch
         /\ Publication(p).body.writer = p
         /\ Publication(p).body.refs = Moved(p)
         /\ Publication(p).body.packs = batch[p].named
         /\ Publication(p).body.hist = Wide(p)
<1> DEFINE s == Publication(p).body
<1>1. s = [seq |-> cell[p].seq + 1, epoch |-> batch[p].epoch, writer |-> p,
           refs |-> Moved(p), packs |-> batch[p].named, hist |-> Wide(p)]
  BY PublicationIs
<1> HIDE DEF s
<1>2. /\ s.seq = cell[p].seq + 1 /\ s.epoch = batch[p].epoch /\ s.writer = p
      /\ s.refs = Moved(p) /\ s.packs = batch[p].named /\ s.hist = Wide(p)
  BY <1>1
<1> QED
  BY <1>2, PublicationIs DEF s


(***************************************************************************)
(* Types.                                                                  *)
(***************************************************************************)
LEMMA EpochTypeStep ==
  ASSUME RepoTypeOK, RepoNext
  PROVE  EpochTypeOK'
<1>0. EpochTypeOK
  BY DEF RepoTypeOK
<1> USE DEF EpochTypeOK
<1>1. CASE UNCHANGED epochVars
  BY <1>0, <1>1 DEF epochVars
<1>2. ASSUME NEW p \in Pod, ClaimRepo(p) PROVE EpochTypeOK'
  <2>1. /\ epoch' = epoch + 1 /\ holder' = p /\ released' = FALSE
        /\ held' = [held EXCEPT ![p] = epoch + 1] /\ leaving' = leaving
    BY <1>2 DEF ClaimRepo, Claim, Grant
  <2>2. released' \in BOOLEAN
    BY <2>1, Zenon
  <2>3. epoch' \in Nat /\ holder' \in Pod /\ held' \in [Pod -> Nat] /\ leaving' \subseteq Nat
    BY <1>0, <2>1
  <2> QED
    BY <2>2, <2>3
<1>3. ASSUME NEW p \in Pod, ClaimRepoUnheard(p) PROVE EpochTypeOK'
  <2>1. /\ epoch' = epoch + 1 /\ holder' = p /\ released' = FALSE
        /\ held' = held /\ leaving' = leaving
    BY <1>3 DEF ClaimRepoUnheard, ClaimUnheard, Grant
  <2>2. released' \in BOOLEAN
    BY <2>1, Zenon
  <2>3. epoch' \in Nat /\ holder' \in Pod /\ held' \in [Pod -> Nat] /\ leaving' \subseteq Nat
    BY <1>0, <2>1
  <2> QED
    BY <2>2, <2>3
<1>4. ASSUME NEW p \in Pod, CasRefused(p) \/ Stop(p) \/ Fenced(p) \/ Release(p)
      PROVE  EpochTypeOK'
  <2>1. /\ epoch' = epoch /\ holder' = holder /\ released' \in {released, TRUE}
        /\ held' = [held EXCEPT ![p] = 0] /\ leaving' \in {leaving, leaving \cup {held[p]}}
    <3>1. CASE CasRefused(p)
      BY <3>1 DEF CasRefused, Ends
    <3>2. CASE Stop(p)
      BY <3>2 DEF Stop, Ends
    <3>3. CASE Fenced(p)
      BY <3>3 DEF Fenced, Lose
    <3>4. CASE Release(p)
      BY <3>4 DEF Release, Yield, Leave
    <3> QED
      BY <1>4, <3>1, <3>2, <3>3, <3>4
  <2> QED
    BY <1>0, <2>1
<1>5. ASSUME LateRelease PROVE EpochTypeOK'
  BY <1>0, <1>5 DEF LateRelease, LateYield
<1>6. ASSUME NEW w \in wire, WireArrives(w) PROVE UNCHANGED epochVars
  BY <1>6 DEF WireArrives
<1>7. ASSUME NEW p \in Pod,
             \/ Start(p) \/ RotateLoad(p) \/ Rotate(p) \/ Load(p) \/ Restore(p)
             \/ NothingAccepted(p) \/ Renew(p) \/ CasOk(p) \/ CasAmbiguous(p)
             \/ Reload(p) \/ UpdateRefs(p) \/ Report(p)
      PROVE  UNCHANGED epochVars
  BY <1>7 DEF Start, RotateLoad, Rotate, Load, Restore, NothingAccepted, Renew, CasOk,
              CasAmbiguous, Reload, UpdateRefs, Report
<1>8. ASSUME NEW p \in Pod, NEW u \in Push, Arrive(p, u) \/ Judge(p, u)
      PROVE  UNCHANGED epochVars
  BY <1>8 DEF Arrive, Judge
<1>9. ASSUME NEW p \in Pod, NEW k \in Pack, Upload(p, k) PROVE UNCHANGED epochVars
  BY <1>9 DEF Upload
<1> QED
  BY <1>1, <1>2, <1>3, <1>4, <1>5, <1>6, <1>7, <1>8, <1>9 DEF RepoNext

\* A landed PUT of a well-typed snapshot.
LEMMA PutTyped ==
  ASSUME RepoTypeOK, NEW w \in SnapshotPut, PutLands(w) \/ PutRefused(w)
  PROVE  snap' \in Snapshot
  BY DEF RepoTypeOK, PutLands, PutRefused, SnapshotPut

LEMMA EmptyTyped == Empty \in Snapshot
<1>1. <<>> \in Seq(Push)
  OBVIOUS
<1> QED
  BY <1>1 DEF Empty, Snapshot, Oid

LEMMA NoBatchTyped == NoBatch \in Batch /\ IsFiniteSet(NoBatch.ng) /\ Size(NoBatch) = 0
<1>1. <<>> \in Seq(Push) /\ Len(<<>>) = 0
  OBVIOUS
<1>2. NoBatch \in Batch
  BY <1>1 DEF NoBatch, Batch, Oid
<1> QED
  BY <1>1, <1>2, FS_EmptySet DEF NoBatch, Size

LEMMA NewIsNumber ==
  ASSUME NEW u \in Push
  PROVE  u.new \in Oid /\ u.new \in Nat
<1>1. u.new \in Oid
  BY PushAssumption
<1>2. Oid \subseteq Nat
  BY CommitAssumption DEF Oid, Absent
<1> QED
  BY <1>1, <1>2

\* The types of everything but the batch and the epochs.
LoopTypeOK ==
  /\ snap \in Snapshot
  /\ store \subseteq Pack
  /\ wire \subseteq SnapshotPut
  /\ at \in [Pod -> At]
  /\ cell \in [Pod -> Snapshot]
  /\ refs \in [Pod -> [Ref -> Oid]]
  /\ disk \in [Pod -> SUBSET Pack]
  /\ queue \in [Pod -> SUBSET Push]
  /\ told \in [Push -> {"nothing", "waiting", "ok", "ng"}]

LEMMA LoopTypeStep ==
  ASSUME RepoTypeOK, RepoNext
  PROVE  LoopTypeOK'
<1>0. LoopTypeOK
  BY DEF RepoTypeOK, LoopTypeOK
<1>1. ASSUME NEW w \in wire, WireArrives(w) PROVE LoopTypeOK'
  <2>1. snap' \in Snapshot
    BY <1>1, PutTyped DEF RepoTypeOK, WireArrives
  <2> QED
    BY <1>0, <1>1, <2>1 DEF LoopTypeOK, WireArrives
<1>2. ASSUME LateRelease PROVE LoopTypeOK'
  BY <1>0, <1>2 DEF LoopTypeOK, LateRelease, repoVars
<1>3. ASSUME NEW p \in Pod,
             Start(p) \/ ClaimRepo(p) \/ ClaimRepoUnheard(p) \/ RotateLoad(p) \/ Load(p)
               \/ Fenced(p)
      PROVE  LoopTypeOK'
  BY <1>0, <1>3 DEF LoopTypeOK, Start, ClaimRepo, ClaimRepoUnheard, RotateLoad, Load,
                    Fenced, Go, At, repoVars
<1>4. ASSUME NEW p \in Pod, Rotate(p) PROVE LoopTypeOK'
  <2>1. snap' \in Snapshot /\ Rotation(p).body \in Snapshot
    BY <1>4, RotationIs, PutTyped DEF Rotate, SnapshotPut
  <2> QED
    BY <1>0, <1>4, <2>1 DEF LoopTypeOK, Rotate, Go, At
<1>5. ASSUME NEW p \in Pod, Restore(p) PROVE LoopTypeOK'
  <2>1. cell[p] \in Snapshot
    BY <1>0 DEF LoopTypeOK
  <2>2. cell[p].refs \in [Ref -> Oid] /\ cell[p].packs \subseteq Pack
    BY <2>1 DEF Snapshot
  <2> QED
    BY <1>0, <1>5, <2>2 DEF LoopTypeOK, Restore, RestoredRefs, Go, At
<1>6. ASSUME NEW p \in Pod, NothingAccepted(p) \/ Renew(p) \/ Report(p) PROVE LoopTypeOK'
  <2>1. told' \in [Push -> {"nothing", "waiting", "ok", "ng"}]
    BY <1>0, <1>6 DEF LoopTypeOK, NothingAccepted, Renew, Report, Tell
  <2> QED
    BY <1>0, <1>6, <2>1 DEF LoopTypeOK, NothingAccepted, Renew, Report, Go, At
<1>7. ASSUME NEW p \in Pod, CasOk(p) PROVE LoopTypeOK'
  <2>1. snap' \in Snapshot /\ Publication(p).body \in Snapshot
    BY <1>7, PublicationIs, PutTyped DEF CasOk, SnapshotPut
  <2> QED
    BY <1>0, <1>7, <2>1 DEF LoopTypeOK, CasOk, Go, At
<1>8. ASSUME NEW p \in Pod, CasAmbiguous(p) PROVE LoopTypeOK'
  <2>1. snap' \in Snapshot /\ Publication(p) \in SnapshotPut
    BY <1>0, <1>8, PublicationIs, PutTyped DEF CasAmbiguous, LoopTypeOK
  <2> QED
    BY <1>0, <1>8, <2>1 DEF LoopTypeOK, CasAmbiguous, Go, At
<1>9. ASSUME NEW p \in Pod, CasRefused(p) \/ Stop(p) PROVE LoopTypeOK'
  <2>1. InFlight(p) \subseteq SnapshotPut
    BY RotationIs, PublicationIs DEF InFlight
  <2>2. snap' \in Snapshot
    BY <1>0, <1>9, <2>1, PutTyped DEF CasRefused, Stop, LoopTypeOK
  <2>3. wire' \subseteq SnapshotPut
    BY <1>0, <1>9, <2>1 DEF CasRefused, Stop, LoopTypeOK
  <2>4. told' \in [Push -> {"nothing", "waiting", "ok", "ng"}]
    BY <1>0, <1>9 DEF LoopTypeOK, CasRefused, Stop, Ends, Tell
  <2>5. Ends(p)
    BY <1>9 DEF CasRefused, Stop
  <2> QED
    BY <1>0, <2>2, <2>3, <2>4, <2>5, EmptyTyped DEF LoopTypeOK, Ends, Go, At
<1>10. ASSUME NEW p \in Pod, Reload(p) PROVE LoopTypeOK'
  BY <1>0, <1>10 DEF LoopTypeOK, Reload, Go, At
<1>11. ASSUME NEW p \in Pod, UpdateRefs(p) PROVE LoopTypeOK'
  <2>1. batch[p].eff \in [Ref -> Oid] /\ refs[p] \in [Ref -> Oid]
    BY DEF RepoTypeOK, Batch
  <2> DEFINE new == [r \in Ref |-> IF r \in Touched(p) THEN batch[p].eff[r] ELSE refs[p][r]]
  <2>2. new \in [Ref -> Oid]
    BY <2>1
  <2>3. refs' = [refs EXCEPT ![p] = new]
    BY <1>11 DEF UpdateRefs
  <2> HIDE DEF new
  <2> QED
    BY <1>0, <1>11, <2>2, <2>3 DEF LoopTypeOK, UpdateRefs, Go, At
<1>12. ASSUME NEW p \in Pod, Release(p) PROVE LoopTypeOK'
  <2>1. told' \in [Push -> {"nothing", "waiting", "ok", "ng"}]
    BY <1>0, <1>12 DEF LoopTypeOK, Release, Tell
  <2> QED
    BY <1>0, <1>12, <2>1, EmptyTyped DEF LoopTypeOK, Release, Go, At
<1>13. ASSUME NEW p \in Pod, NEW u \in Push, Arrive(p, u) PROVE LoopTypeOK'
  <2>1. u.new \in Nat
    BY NewIsNumber
  <2>2. Sent(p, u) \subseteq Pack
    BY <2>1, HistoryCommits DEF Sent, Pack
  <2> QED
    BY <1>0, <1>13, <2>2 DEF LoopTypeOK, Arrive
<1>14. ASSUME NEW p \in Pod, NEW u \in Push, Judge(p, u) PROVE LoopTypeOK'
  BY <1>0, <1>14 DEF LoopTypeOK, Judge, Go, At
<1>15. ASSUME NEW p \in Pod, NEW k \in Pack, Upload(p, k) PROVE LoopTypeOK'
  BY <1>0, <1>15 DEF LoopTypeOK, Upload
<1> QED
  BY <1>1, <1>2, <1>3, <1>4, <1>5, <1>6, <1>7, <1>8, <1>9, <1>10, <1>11, <1>12, <1>13,
     <1>14, <1>15 DEF RepoNext

LEMMA BatchTypeStep ==
  ASSUME RepoTypeOK, NgFinite, RepoNext
  PROVE  /\ batch' \in [Pod -> Batch]
         /\ \A q \in Pod : Size(batch'[q]) <= MaxBatch /\ IsFiniteSet(batch'[q].ng)
<1> DEFINE B(b) == b \in Batch /\ Size(b) <= MaxBatch /\ IsFiniteSet(b.ng)
<1>0. batch \in [Pod -> Batch] /\ \A q \in Pod : B(batch[q])
  BY DEF RepoTypeOK, NgFinite
<1> SUFFICES batch' \in [Pod -> Batch] /\ \A q \in Pod : B(batch'[q])
  OBVIOUS
<1>a. CASE UNCHANGED batch
  BY <1>0, <1>a
<1>b. ASSUME NEW p \in Pod, NEW b, batch' = [batch EXCEPT ![p] = b], B(b)
      PROVE  batch' \in [Pod -> Batch] /\ \A q \in Pod : B(batch'[q])
  <2>1. \A q \in Pod : batch'[q] = IF q = p THEN b ELSE batch[q]
    BY <1>0, <1>b
  <2>2. batch' \in [Pod -> Batch]
    BY <1>0, <1>b
  <2> HIDE DEF B
  <2> QED
    BY <1>0, <1>b, <2>1, <2>2
<1>c. B(NoBatch)
  BY NoBatchTyped, RepoBoundAssumption
<1>1. ASSUME NEW w \in wire, WireArrives(w) PROVE UNCHANGED batch
  BY <1>1 DEF WireArrives
<1>2. ASSUME LateRelease PROVE UNCHANGED batch
  BY <1>2 DEF LateRelease, repoVars
<1>3. ASSUME NEW p \in Pod,
             \/ Start(p) \/ ClaimRepo(p) \/ ClaimRepoUnheard(p) \/ RotateLoad(p) \/ Rotate(p)
             \/ Load(p) \/ Restore(p) \/ CasOk(p) \/ CasAmbiguous(p) \/ Reload(p)
             \/ UpdateRefs(p) \/ Fenced(p) \/ Release(p)
      PROVE  UNCHANGED batch
  BY <1>3 DEF Start, ClaimRepo, ClaimRepoUnheard, RotateLoad, Rotate, Load, Restore, CasOk,
              CasAmbiguous, Reload, UpdateRefs, Fenced, Release, repoVars
<1>4. ASSUME NEW p \in Pod, NothingAccepted(p) \/ Report(p) \/ CasRefused(p) \/ Stop(p)
      PROVE  batch' = [batch EXCEPT ![p] = NoBatch]
  BY <1>4 DEF NothingAccepted, Report, CasRefused, Stop, Ends
<1>5. ASSUME NEW p \in Pod, NEW u \in Push, Arrive(p, u) PROVE UNCHANGED batch
  BY <1>5 DEF Arrive
<1>6. ASSUME NEW p \in Pod, Renew(p)
      PROVE  \E b : batch' = [batch EXCEPT ![p] = b] /\ B(b)
  <2>1. PICK named \in NeededPacks(p) :
           batch' = [batch EXCEPT ![p].named = named, ![p].epoch = held[p]]
    BY <1>6 DEF Renew
  <2> DEFINE b == [batch[p] EXCEPT !.named = named, !.epoch = held[p]]
  <2>2. batch' = [batch EXCEPT ![p] = b]
    BY <1>0, <2>1
  <2>3. named \subseteq Pack
    <3>1. cell[p].packs \subseteq Pack /\ disk[p] \subseteq Pack
      BY DEF RepoTypeOK, Snapshot
    <3> QED
      BY <3>1 DEF NeededPacks, Unnamed
  <2>4. held[p] \in Nat /\ batch[p] \in Batch
    BY <1>0 DEF RepoTypeOK, EpochTypeOK
  <2>5. b \in Batch /\ b.acc = batch[p].acc /\ b.ng = batch[p].ng
    BY <2>3, <2>4 DEF Batch
  <2> HIDE DEF b
  <2>6. B(b)
    BY <1>0, <2>5 DEF Size
  <2> HIDE DEF B
  <2> QED
    BY <2>2, <2>6
<1>7. ASSUME NEW p \in Pod, NEW k \in Pack, Upload(p, k)
      PROVE  \E b : batch' = [batch EXCEPT ![p] = b] /\ B(b)
  <2> DEFINE b == [batch[p] EXCEPT !.up = @ \cup {k}]
  <2>2. batch' = [batch EXCEPT ![p] = b]
    BY <1>7 DEF Upload
  <2>4. batch[p] \in Batch
    BY <1>0
  <2>5. b \in Batch /\ b.acc = batch[p].acc /\ b.ng = batch[p].ng
    BY <2>4 DEF Batch
  <2> HIDE DEF b
  <2>6. B(b)
    BY <1>0, <2>5 DEF Size
  <2> HIDE DEF B
  <2> QED
    BY <2>2, <2>6
<1>8. ASSUME NEW p \in Pod, NEW u \in Push, Judge(p, u)
      PROVE  \E b : batch' = [batch EXCEPT ![p] = b] /\ B(b)
  <2> DEFINE a == IF at[p] = "idle" THEN [NoBatch EXCEPT !.eff = cell[p].refs] ELSE batch[p]
             b == IF Accepts(p, u, a.eff)
                    THEN [a EXCEPT !.acc = Append(@, u), !.eff[u.ref] = u.new]
                    ELSE [a EXCEPT !.ng = @ \cup {u}]
  <2>1. batch' = [batch EXCEPT ![p] = b]
    BY <1>8 DEF Judge
  <2>2. a \in Batch /\ Size(a) < MaxBatch /\ IsFiniteSet(a.ng)
    <3>1. CASE at[p] = "idle"
      <4>1. cell[p].refs \in [Ref -> Oid]
        BY DEF RepoTypeOK, Snapshot
      <4>2. a = [NoBatch EXCEPT !.eff = cell[p].refs]
        BY <3>1
      <4> HIDE DEF a
      <4>3. a \in Batch /\ a.acc = NoBatch.acc /\ a.ng = NoBatch.ng
        BY <4>1, <4>2, NoBatchTyped DEF Batch
      <4> QED
        BY <4>3, NoBatchTyped, RepoBoundAssumption DEF Size
    <3>2. CASE at[p] # "idle"
      <4>1. a = batch[p] /\ Room(batch[p])
        BY <1>8, <3>2 DEF Judge
      <4> QED
        BY <1>0, <4>1 DEF Room
    <3> QED
      BY <3>1, <3>2
  <2> HIDE DEF a
  <2>a. Cardinality(a.ng) \in Nat /\ Len(a.acc) \in Nat /\ a.acc \in Seq(Push) /\ MaxBatch \in Nat
    BY <2>2, FS_CardinalityType, RepoBoundAssumption DEF Batch
  <2>3. CASE Accepts(p, u, a.eff)
    <3>1. b = [a EXCEPT !.acc = Append(a.acc, u), !.eff = [a.eff EXCEPT ![u.ref] = u.new]]
      BY <2>3
    <3>2. Append(a.acc, u) \in Seq(Push) /\ Len(Append(a.acc, u)) = Len(a.acc) + 1
      BY <2>a
    <3>3. [a.eff EXCEPT ![u.ref] = u.new] \in [Ref -> Oid]
      BY <2>2, NewIsNumber DEF Batch
    <3> HIDE DEF b
    <3>4. b \in Batch /\ b.acc = Append(a.acc, u) /\ b.ng = a.ng
      BY <2>2, <3>1, <3>2, <3>3 DEF Batch
    <3>5. B(b)
      BY <2>2, <2>a, <3>2, <3>4 DEF Size
    <3> HIDE DEF B
    <3> QED
      BY <2>1, <3>5 DEF b
  <2>4. CASE ~ Accepts(p, u, a.eff)
    <3>1. b = [a EXCEPT !.ng = a.ng \cup {u}]
      BY <2>4
    <3> HIDE DEF b
    <3>4. b \in Batch /\ b.acc = a.acc /\ b.ng = a.ng \cup {u}
      BY <2>2, <3>1 DEF Batch
    <3>5. /\ IsFiniteSet(b.ng)
          /\ Cardinality(b.ng) = Cardinality(a.ng) \/ Cardinality(b.ng) = Cardinality(a.ng) + 1
      BY <2>2, <3>4, FS_AddElement
    <3>6. B(b)
      BY <2>2, <2>a, <3>4, <3>5 DEF Size
    <3> HIDE DEF B
    <3> QED
      BY <2>1, <3>6 DEF b
  <2> QED
    BY <2>3, <2>4
<1> HIDE DEF B
<1>9. CASE \E p \in Pod : \E b : batch' = [batch EXCEPT ![p] = b] /\ B(b)
  BY <1>9, <1>b
<1> QED
  BY <1>a, <1>c, <1>1, <1>2, <1>3, <1>4, <1>5, <1>6, <1>7, <1>8, <1>9 DEF RepoNext

\* Every step keeps the types.
LEMMA TypeStep ==
  ASSUME RepoTypeOK, NgFinite, [RepoNext]_vars
  PROVE  RepoTypeOK' /\ NgFinite'
<1>1. CASE RepoNext
  <2>1. EpochTypeOK' /\ LoopTypeOK'
    BY <1>1, EpochTypeStep, LoopTypeStep
  <2>2. /\ batch' \in [Pod -> Batch]
        /\ \A q \in Pod : Size(batch'[q]) <= MaxBatch /\ IsFiniteSet(batch'[q].ng)
    BY <1>1, BatchTypeStep
  <2> QED
    BY <2>1, <2>2 DEF RepoTypeOK, LoopTypeOK, NgFinite
<1>2. CASE UNCHANGED vars
  BY <1>2 DEF vars, epochVars, repoVars, RepoTypeOK, EpochTypeOK, NgFinite
<1> QED
  BY <1>1, <1>2

(***************************************************************************)
(* What each step does, pod by pod.  Nothing else is expanded below.       *)
(***************************************************************************)
Same(q) ==
  /\ at'[q] = at[q] /\ cell'[q] = cell[q] /\ batch'[q] = batch[q]
  /\ refs'[q] = refs[q] /\ held'[q] = held[q]
Others(p) == \A q \in Pod \ {p} : Same(q)

\* The functions a step updates are functions on the pods.
LEMMA Shapes ==
  ASSUME RepoTypeOK
  PROVE  /\ at \in [Pod -> At] /\ cell \in [Pod -> Snapshot] /\ batch \in [Pod -> Batch]
         /\ refs \in [Pod -> [Ref -> Oid]] /\ held \in [Pod -> Nat]
  BY DEF RepoTypeOK, EpochTypeOK

LEMMA WireArrivesIs ==
  ASSUME RepoTypeOK, NEW w \in wire, WireArrives(w)
  PROVE  /\ \A q \in Pod : Same(q)
         /\ wire' = wire \ {w}
         /\ (w.match = snap /\ snap' = w.body) \/ snap' = snap
         /\ UNCHANGED <<epoch, holder, released, leaving, store, queue, told>>
  BY DEF WireArrives, Same, epochVars, PutLands, PutRefused

LEMMA LateReleaseIs ==
  ASSUME RepoTypeOK, LateRelease
  PROVE  /\ \A q \in Pod : Same(q)
         /\ leaving' \subseteq leaving
         /\ (epoch \in leaving /\ released') \/ released' = released
         /\ UNCHANGED <<epoch, holder, snap, wire, store, queue, told>>
  BY DEF LateRelease, LateYield, Same, repoVars

LEMMA StartIs ==
  ASSUME RepoTypeOK, NEW p \in Pod, Start(p)
  PROVE  /\ Others(p)
         /\ at[p] = "down" /\ at'[p] = "claim"
         /\ cell'[p] = cell[p] /\ batch'[p] = batch[p] /\ refs'[p] = refs[p] /\ held'[p] = held[p]
         /\ UNCHANGED <<epoch, holder, released, leaving, snap, wire, store, queue, told>>
  BY Shapes DEF Start, Go, Others, Same, epochVars

LEMMA ClaimIs ==
  ASSUME RepoTypeOK, NEW p \in Pod, ClaimRepo(p)
  PROVE  /\ Others(p)
         /\ at[p] = "claim"
         /\ at'[p] = IF epoch # 0 /\ ~ released THEN "rotate" ELSE "load"
         /\ cell'[p] = cell[p] /\ batch'[p] = batch[p] /\ refs'[p] = refs[p]
         /\ held'[p] = epoch + 1 /\ epoch' = epoch + 1 /\ holder' = p /\ ~ released'
         /\ UNCHANGED <<leaving, snap, wire, store, queue, told>>
  BY Shapes DEF ClaimRepo, Claim, Grant, Rotates, Go, Others, Same

LEMMA UnheardIs ==
  ASSUME RepoTypeOK, NEW p \in Pod, ClaimRepoUnheard(p)
  PROVE  /\ \A q \in Pod : Same(q)
         /\ epoch' = epoch + 1 /\ holder' = p /\ ~ released'
         /\ UNCHANGED <<leaving, snap, wire, store, queue, told>>
  BY DEF ClaimRepoUnheard, ClaimUnheard, Grant, Same, repoVars

LEMMA RotateLoadIs ==
  ASSUME RepoTypeOK, NEW p \in Pod, RotateLoad(p)
  PROVE  /\ Others(p)
         /\ at[p] = "rotate" /\ at'[p] = "rotating"
         /\ cell'[p] = snap /\ batch'[p] = batch[p] /\ refs'[p] = refs[p] /\ held'[p] = held[p]
         /\ UNCHANGED <<epoch, holder, released, leaving, snap, wire, store, queue, told>>
  BY Shapes DEF RotateLoad, Go, Others, Same, epochVars

LEMMA RotateIs ==
  ASSUME RepoTypeOK, NEW p \in Pod, Rotate(p)
  PROVE  /\ Others(p)
         /\ at[p] = "rotating" /\ at'[p] = "restore"
         /\ snap = cell[p] /\ snap' = Rotation(p).body /\ cell'[p] = snap'
         /\ batch'[p] = batch[p] /\ refs'[p] = refs[p] /\ held'[p] = held[p]
         /\ UNCHANGED <<epoch, holder, released, leaving, wire, store, queue, told>>
<1>1. snap = cell[p] /\ snap' = Rotation(p).body
  BY RotationIs DEF Rotate, PutLands
<1> QED
  BY <1>1, Shapes DEF Rotate, Go, Others, Same, epochVars

LEMMA LoadIs ==
  ASSUME RepoTypeOK, NEW p \in Pod, Load(p)
  PROVE  /\ Others(p)
         /\ at[p] = "load" /\ at'[p] = "restore"
         /\ cell'[p] = snap /\ batch'[p] = batch[p] /\ refs'[p] = refs[p] /\ held'[p] = held[p]
         /\ UNCHANGED <<epoch, holder, released, leaving, snap, wire, store, queue, told>>
  BY Shapes DEF Load, Go, Others, Same, epochVars

LEMMA RestoreIs ==
  ASSUME RepoTypeOK, NEW p \in Pod, Restore(p)
  PROVE  /\ Others(p)
         /\ at[p] = "restore" /\ at'[p] = "idle"
         /\ cell'[p] = cell[p] /\ batch'[p] = batch[p] /\ held'[p] = held[p]
         /\ refs'[p] = IF cell[p].seq = 0 THEN refs[p] ELSE cell[p].refs
         /\ UNCHANGED <<epoch, holder, released, leaving, snap, wire, store, queue, told>>
  BY Shapes DEF Restore, RestoredRefs, Go, Others, Same, epochVars

LEMMA ArriveIs ==
  ASSUME RepoTypeOK, NEW p \in Pod, NEW u \in Push, Arrive(p, u)
  PROVE  /\ \A q \in Pod : Same(q)
         /\ told[u] \in {"nothing", "ng"} /\ told' = [told EXCEPT ![u] = "waiting"]
         /\ queue' = [queue EXCEPT ![p] = @ \cup {u}]
         /\ UNCHANGED <<epoch, holder, released, leaving, snap, wire, store>>
  BY DEF Arrive, Same, epochVars

\* The batch a push is judged into.
Begun(p) == IF at[p] = "idle" THEN [NoBatch EXCEPT !.eff = cell[p].refs] ELSE batch[p]

LEMMA BegunIs ==
  ASSUME RepoTypeOK, NEW p \in Pod
  PROVE  /\ Begun(p) \in Batch
         /\ at[p] = "idle" => /\ Begun(p).acc = <<>> /\ Begun(p).eff = cell[p].refs
                              /\ Begun(p).ng = {} /\ Begun(p).up = {}
         /\ at[p] # "idle" => Begun(p) = batch[p]
<1>1. CASE at[p] # "idle"
  BY <1>1, Shapes DEF Begun
<1>2. CASE at[p] = "idle"
  <2>1. cell[p].refs \in [Ref -> Oid]
    BY Shapes DEF Snapshot
  <2>2. Begun(p) = [acc |-> <<>>, eff |-> cell[p].refs, ng |-> {}, named |-> {},
                    epoch |-> 0, up |-> {}]
    BY <1>2 DEF Begun, NoBatch
  <2>3. <<>> \in Seq(Push)
    OBVIOUS
  <2> QED
    BY <1>2, <2>1, <2>2, <2>3 DEF Batch
<1> QED
  BY <1>1, <1>2

LEMMA JudgeIs ==
  ASSUME RepoTypeOK, NEW p \in Pod, NEW u \in Push, Judge(p, u)
  PROVE  /\ Others(p)
         /\ at[p] \in {"idle", "judge"} /\ at'[p] = "judge"
         /\ cell'[p] = cell[p] /\ refs'[p] = refs[p] /\ held'[p] = held[p]
         /\ batch'[p].up = Begun(p).up
         /\ \/ /\ u.old = Begun(p).eff[u.ref]
               /\ batch'[p].acc = Append(Begun(p).acc, u)
               /\ batch'[p].eff = Log!Applied(Begun(p).eff, u)
               /\ batch'[p].ng = Begun(p).ng
            \/ /\ batch'[p].acc = Begun(p).acc
               /\ batch'[p].eff = Begun(p).eff
               /\ batch'[p].ng = Begun(p).ng \cup {u}
         /\ u \in queue[p] /\ queue' = [queue EXCEPT ![p] = @ \ {u}]
         /\ UNCHANGED <<epoch, holder, released, leaving, snap, wire, store, told>>
<1> DEFINE b == IF Accepts(p, u, Begun(p).eff)
                  THEN [Begun(p) EXCEPT !.acc = Append(@, u), !.eff[u.ref] = u.new]
                  ELSE [Begun(p) EXCEPT !.ng = @ \cup {u}]
<1>1. batch' = [batch EXCEPT ![p] = b]
  BY DEF Judge, Begun
<1>2. Begun(p) \in Batch
  BY BegunIs
<1>3. CASE Accepts(p, u, Begun(p).eff)
  <2>1. b = [Begun(p) EXCEPT !.acc = Append(Begun(p).acc, u),
                            !.eff = Log!Applied(Begun(p).eff, u)]
    BY <1>2, <1>3 DEF Batch, Log!Applied
  <2> HIDE DEF b
  <2>2. /\ b.up = Begun(p).up /\ b.acc = Append(Begun(p).acc, u)
        /\ b.eff = Log!Applied(Begun(p).eff, u) /\ b.ng = Begun(p).ng
    BY <1>2, <2>1 DEF Batch
  <2>3. u.old = Begun(p).eff[u.ref]
    BY <1>3 DEF Accepts
  <2>4. batch'[p] = b /\ \A q \in Pod \ {p} : batch'[q] = batch[q]
    BY <1>1, Shapes
  <2> QED
    BY <2>2, <2>3, <2>4, Shapes DEF Judge, Go, Others, Same, epochVars
<1>4. CASE ~ Accepts(p, u, Begun(p).eff)
  <2>1. b = [Begun(p) EXCEPT !.ng = Begun(p).ng \cup {u}]
    BY <1>4
  <2> HIDE DEF b
  <2>2. /\ b.up = Begun(p).up /\ b.acc = Begun(p).acc
        /\ b.eff = Begun(p).eff /\ b.ng = Begun(p).ng \cup {u}
    BY <1>2, <2>1 DEF Batch
  <2>4. batch'[p] = b /\ \A q \in Pod \ {p} : batch'[q] = batch[q]
    BY <1>1, Shapes
  <2> QED
    BY <2>2, <2>4, Shapes DEF Judge, Go, Others, Same, epochVars
<1> QED
  BY <1>3, <1>4

LEMMA NothingAcceptedIs ==
  ASSUME RepoTypeOK, NEW p \in Pod, NothingAccepted(p)
  PROVE  /\ Others(p)
         /\ at[p] = "judge" /\ at'[p] = "idle"
         /\ cell'[p] = cell[p] /\ batch'[p] = NoBatch /\ refs'[p] = refs[p] /\ held'[p] = held[p]
         /\ UNCHANGED <<epoch, holder, released, leaving, snap, wire, store, queue>>
         /\ Tell(batch[p].ng, "ng")
  BY Shapes DEF NothingAccepted, Go, Others, Same, epochVars

LEMMA RenewIs ==
  ASSUME RepoTypeOK, NEW p \in Pod, Renew(p)
  PROVE  /\ Others(p)
         /\ at[p] = "judge" /\ at'[p] = "commit" /\ Current(p)
         /\ cell'[p] = cell[p] /\ refs'[p] = refs[p] /\ held'[p] = held[p]
         /\ batch[p].acc # <<>>
         /\ batch'[p].acc = batch[p].acc /\ batch'[p].eff = batch[p].eff
         /\ batch'[p].ng = batch[p].ng /\ batch'[p].up = batch[p].up
         /\ batch'[p].epoch = held[p]
         /\ batch'[p].named \in NeededPacks(p) /\ Wanted(p) \subseteq UNION batch'[p].named
         /\ UNCHANGED <<epoch, holder, released, leaving, snap, wire, store, queue, told>>
<1>1. PICK named \in NeededPacks(p) :
         /\ Wanted(p) \subseteq UNION named
         /\ batch' = [batch EXCEPT ![p].named = named, ![p].epoch = held[p]]
  BY DEF Renew
<1> DEFINE b == [batch[p] EXCEPT !.named = named, !.epoch = held[p]]
<1>2. batch'[p] = b /\ \A q \in Pod \ {p} : batch'[q] = batch[q]
  BY <1>1, Shapes
<1>3. /\ b.acc = batch[p].acc /\ b.eff = batch[p].eff /\ b.ng = batch[p].ng
      /\ b.up = batch[p].up /\ b.epoch = held[p] /\ b.named = named
  BY Shapes DEF Batch
<1> HIDE DEF b
<1>4. /\ \A q \in Pod \ {p} : at'[q] = at[q] /\ cell'[q] = cell[q] /\ refs'[q] = refs[q]
                              /\ held'[q] = held[q]
      /\ at[p] = "judge" /\ at'[p] = "commit" /\ Current(p)
      /\ cell'[p] = cell[p] /\ refs'[p] = refs[p] /\ held'[p] = held[p]
      /\ batch[p].acc # <<>>
      /\ UNCHANGED <<epoch, holder, released, leaving, snap, wire, store, queue, told>>
  BY Shapes DEF Renew, Renewed, Go, epochVars
<1>5. Others(p)
  BY <1>2, <1>4 DEF Others, Same
<1> QED
  BY <1>1, <1>2, <1>3, <1>4, <1>5

LEMMA UploadIs ==
  ASSUME RepoTypeOK, NEW p \in Pod, NEW k \in Pack, Upload(p, k)
  PROVE  /\ Others(p)
         /\ at[p] = "commit" /\ at'[p] = "commit"
         /\ cell'[p] = cell[p] /\ refs'[p] = refs[p] /\ held'[p] = held[p]
         /\ batch'[p].acc = batch[p].acc /\ batch'[p].eff = batch[p].eff
         /\ batch'[p].ng = batch[p].ng /\ batch'[p].epoch = batch[p].epoch
         /\ batch'[p].named = batch[p].named /\ batch'[p].up = batch[p].up \cup {k}
         /\ store' = store \cup {k}
         /\ UNCHANGED <<epoch, holder, released, leaving, snap, wire, queue, told>>
<1> DEFINE b == [batch[p] EXCEPT !.up = @ \cup {k}]
<1>2. batch'[p] = b /\ \A q \in Pod \ {p} : batch'[q] = batch[q]
  BY Shapes DEF Upload
<1>3. /\ b.acc = batch[p].acc /\ b.eff = batch[p].eff /\ b.ng = batch[p].ng
      /\ b.up = batch[p].up \cup {k} /\ b.epoch = batch[p].epoch /\ b.named = batch[p].named
  BY Shapes DEF Batch
<1> HIDE DEF b
<1> QED
  BY <1>2, <1>3, Shapes DEF Upload, Others, Same, epochVars

LEMMA CasOkIs ==
  ASSUME RepoTypeOK, NEW p \in Pod, CasOk(p)
  PROVE  /\ Others(p)
         /\ Committing(p) /\ at[p] = "commit" /\ at'[p] = "landed"
         /\ snap = cell[p] /\ snap' = Publication(p).body /\ cell'[p] = snap'
         /\ batch'[p] = batch[p] /\ refs'[p] = refs[p] /\ held'[p] = held[p]
         /\ UNCHANGED <<epoch, holder, released, leaving, wire, store, queue, told>>
<1>1. snap = cell[p] /\ snap' = Publication(p).body
  BY PublicationIs DEF CasOk, PutLands
<1> QED
  BY <1>1, Shapes DEF CasOk, Committing, Go, Others, Same, epochVars

LEMMA CasAmbiguousIs ==
  ASSUME RepoTypeOK, NEW p \in Pod, CasAmbiguous(p)
  PROVE  /\ Others(p)
         /\ Committing(p) /\ at[p] = "commit" /\ at'[p] = "reload"
         /\ \/ snap = cell[p] /\ snap' = Publication(p).body /\ wire' = wire
            \/ snap' = snap /\ wire' = wire \cup {Publication(p)}
         /\ cell'[p] = cell[p]
         /\ batch'[p] = batch[p] /\ refs'[p] = refs[p] /\ held'[p] = held[p]
         /\ UNCHANGED <<epoch, holder, released, leaving, store, queue, told>>
<1>1. \/ snap = cell[p] /\ snap' = Publication(p).body /\ wire' = wire
      \/ snap' = snap /\ wire' = wire \cup {Publication(p)}
  BY PublicationIs DEF CasAmbiguous, PutLands
<1> QED
  BY <1>1, Shapes DEF CasAmbiguous, Committing, Go, Others, Same, epochVars

LEMMA ReloadIs ==
  ASSUME RepoTypeOK, NEW p \in Pod, Reload(p)
  PROVE  /\ Others(p)
         /\ Adopts(p) /\ at[p] = "reload" /\ at'[p] = "landed"
         /\ cell'[p] = snap /\ batch'[p] = batch[p] /\ refs'[p] = refs[p] /\ held'[p] = held[p]
         /\ UNCHANGED <<epoch, holder, released, leaving, snap, wire, store, queue, told>>
  BY Shapes DEF Reload, Go, Others, Same, epochVars

LEMMA UpdateRefsIs ==
  ASSUME RepoTypeOK, NEW p \in Pod, UpdateRefs(p)
  PROVE  /\ Others(p)
         /\ at[p] = "landed" /\ at'[p] = "report"
         /\ cell'[p] = cell[p] /\ batch'[p] = batch[p] /\ held'[p] = held[p]
         /\ refs'[p] = [r \in Ref |-> IF r \in Touched(p) THEN batch[p].eff[r] ELSE refs[p][r]]
         /\ UNCHANGED <<epoch, holder, released, leaving, snap, wire, store, queue, told>>
<1>1. /\ refs'[p] = [r \in Ref |-> IF r \in Touched(p) THEN batch[p].eff[r] ELSE refs[p][r]]
      /\ \A q \in Pod \ {p} : refs'[q] = refs[q]
  BY Shapes DEF UpdateRefs
<1> QED
  BY <1>1, Shapes DEF UpdateRefs, Go, Others, Same, epochVars

LEMMA ReportIs ==
  ASSUME RepoTypeOK, NEW p \in Pod, Report(p)
  PROVE  /\ Others(p)
         /\ at[p] = "report" /\ at'[p] = "idle"
         /\ cell'[p] = cell[p] /\ batch'[p] = NoBatch /\ refs'[p] = refs[p] /\ held'[p] = held[p]
         /\ told' = [u \in Push |-> IF u \in Range1(batch[p].acc) THEN "ok"
                                    ELSE IF u \in batch[p].ng THEN "ng" ELSE told[u]]
         /\ UNCHANGED <<epoch, holder, released, leaving, snap, wire, store, queue>>
  BY Shapes DEF Report, Go, Others, Same, epochVars

\* The ways down: a 412, an error, a crash.
LEMMA EndsIs ==
  ASSUME RepoTypeOK, NEW p \in Pod, CasRefused(p) \/ Stop(p)
  PROVE  /\ Others(p)
         /\ at'[p] = "down" /\ held'[p] = 0
         /\ cell'[p] = Empty /\ batch'[p] = NoBatch /\ refs'[p] = refs[p]
         /\ \/ snap' = snap /\ wire' \in {wire, wire \cup InFlight(p)}
            \/ wire' = wire /\ \E w \in InFlight(p) : w.match = snap /\ snap' = w.body
         /\ queue' = [queue EXCEPT ![p] = {}]
         /\ Tell(Members(batch[p]) \cup queue[p], "ng")
         /\ UNCHANGED <<epoch, holder, released, leaving, store>>
<1>1. \/ snap' = snap /\ wire' \in {wire, wire \cup InFlight(p)}
      \/ wire' = wire /\ \E w \in InFlight(p) : w.match = snap /\ snap' = w.body
  BY DEF CasRefused, Stop, PutRefused, PutLands
<1>2. Ends(p)
  BY DEF CasRefused, Stop
<1> QED
  BY <1>1, <1>2, Shapes DEF Ends, Go, Others, Same

LEMMA FencedIs ==
  ASSUME RepoTypeOK, NEW p \in Pod, Fenced(p)
  PROVE  /\ Others(p)
         /\ at[p] \in Serving \cup {"load", "restore"} /\ held[p] # 0 /\ held'[p] = 0
         /\ at'[p] = at[p] /\ cell'[p] = cell[p] /\ batch'[p] = batch[p] /\ refs'[p] = refs[p]
         /\ UNCHANGED <<epoch, holder, released, leaving, snap, wire, store, queue, told>>
  BY Shapes DEF Fenced, Lose, Others, Same, repoVars

LEMMA ReleaseIs ==
  ASSUME RepoTypeOK, NEW p \in Pod, Release(p)
  PROVE  /\ Others(p)
         /\ at[p] = "idle" /\ at'[p] = "down" /\ held[p] # 0 /\ held'[p] = 0
         /\ cell'[p] = Empty /\ batch'[p] = batch[p] /\ refs'[p] = refs[p]
         /\ \/ Current(p) /\ released' /\ leaving' = leaving
            \/ released' = released /\ leaving' = leaving \cup {held[p]}
         /\ queue' = [queue EXCEPT ![p] = {}]
         /\ Tell(queue[p], "ng")
         /\ UNCHANGED <<epoch, holder, snap, wire, store>>
<1>1. held[p] # 0 /\ held' = [held EXCEPT ![p] = 0]
  BY Shapes DEF Release, Yield, Leave, Current, RepoTypeOK, EpochTypeOK
<1>2. \/ Current(p) /\ released' /\ leaving' = leaving
      \/ released' = released /\ leaving' = leaving \cup {held[p]}
  BY DEF Release, Yield, Leave
<1> QED
  BY <1>1, <1>2, Shapes DEF Release, Yield, Leave, Go, Others, Same

(***************************************************************************)
(* A step is a step of one pod at most.                                    *)
(***************************************************************************)
Moves(p) ==
  \/ Start(p) \/ ClaimRepo(p) \/ RotateLoad(p) \/ Rotate(p) \/ Load(p) \/ Restore(p)
  \/ \E u \in Push : Judge(p, u)
  \/ NothingAccepted(p) \/ Renew(p)
  \/ \E k \in Pack : Upload(p, k)
  \/ CasOk(p) \/ CasAmbiguous(p) \/ Reload(p) \/ UpdateRefs(p) \/ Report(p)
  \/ Fenced(p) \/ Release(p)
  \/ CasRefused(p) \/ Stop(p)

LEMMA OneMoves ==
  ASSUME RepoTypeOK, RepoNext
  PROVE  (\A q \in Pod : Same(q)) \/ \E p \in Pod : Others(p) /\ Moves(p)
<1>1. ASSUME NEW p \in Pod, Moves(p) PROVE Others(p)
  <2>1. CASE Start(p) \/ ClaimRepo(p) \/ RotateLoad(p) \/ Rotate(p) \/ Load(p) \/ Restore(p)
    BY <2>1, StartIs, ClaimIs, RotateLoadIs, RotateIs, LoadIs, RestoreIs
  <2>2. CASE NothingAccepted(p) \/ Renew(p) \/ CasOk(p) \/ CasAmbiguous(p) \/ Reload(p)
    BY <2>2, NothingAcceptedIs, RenewIs, CasOkIs, CasAmbiguousIs, ReloadIs
  <2>3. CASE \/ UpdateRefs(p) \/ Report(p) \/ Fenced(p) \/ Release(p)
             \/ CasRefused(p) \/ Stop(p)
    BY <2>3, UpdateRefsIs, ReportIs, FencedIs, ReleaseIs, EndsIs
  <2>4. CASE \E u \in Push : Judge(p, u)
    BY <2>4, JudgeIs
  <2>5. CASE \E k \in Pack : Upload(p, k)
    BY <2>5, UploadIs
  <2> QED
    BY <1>1, <2>1, <2>2, <2>3, <2>4, <2>5 DEF Moves
<1>2. ASSUME NEW w \in wire, WireArrives(w) PROVE \A q \in Pod : Same(q)
  BY <1>2, WireArrivesIs
<1>3. ASSUME NEW p \in Pod, ClaimRepoUnheard(p) \/ \E u \in Push : Arrive(p, u)
      PROVE  \A q \in Pod : Same(q)
  BY <1>3, UnheardIs, ArriveIs
<1>4. ASSUME LateRelease PROVE \A q \in Pod : Same(q)
  BY <1>4, LateReleaseIs
<1> QED
  BY <1>1, <1>2, <1>3, <1>4 DEF RepoNext, Moves

\* What a step does to the lease.
LEMMA LeaseStep ==
  ASSUME RepoTypeOK, RepoNext
  PROVE  \/ /\ epoch' = epoch /\ holder' = holder
            /\ \A q \in Pod : held'[q] \in {held[q], 0}
            /\ \A e \in leaving' : \/ e \in leaving
                                   \/ \E p \in Pod : held[p] = e /\ e # 0 /\ held'[p] = 0
         \/ \E p \in Pod : /\ epoch' = epoch + 1 /\ holder' = p /\ leaving' = leaving
                           /\ \A q \in Pod \ {p} : held'[q] = held[q]
                           /\ held'[p] \in {held[p], epoch + 1}
<1> DEFINE K == /\ epoch' = epoch /\ holder' = holder
                /\ \A q \in Pod : held'[q] \in {held[q], 0}
                /\ \A e \in leaving' : \/ e \in leaving
                                       \/ \E p \in Pod : held[p] = e /\ e # 0 /\ held'[p] = 0
           G(p) == /\ epoch' = epoch + 1 /\ holder' = p /\ leaving' = leaving
                   /\ \A q \in Pod \ {p} : held'[q] = held[q]
                   /\ held'[p] \in {held[p], epoch + 1}
<1>1. ASSUME NEW w \in wire, WireArrives(w) PROVE K
  BY <1>1, WireArrivesIs DEF Same
<1>2. ASSUME LateRelease PROVE K
  BY <1>2, LateReleaseIs DEF Same
<1>3. ASSUME NEW p \in Pod, ClaimRepo(p) PROVE G(p)
  BY <1>3, ClaimIs DEF Others, Same
<1>4. ASSUME NEW p \in Pod, ClaimRepoUnheard(p) PROVE G(p)
  BY <1>4, UnheardIs DEF Same
<1>5. ASSUME NEW p \in Pod, Start(p) \/ RotateLoad(p) \/ Rotate(p) \/ Load(p) \/ Restore(p) PROVE K
  BY <1>5, StartIs, RotateLoadIs, RotateIs, LoadIs, RestoreIs DEF Others, Same
<1>6. ASSUME NEW p \in Pod, NothingAccepted(p) \/ Renew(p) \/ CasOk(p) \/ CasAmbiguous(p) PROVE K
  BY <1>6, NothingAcceptedIs, RenewIs, CasOkIs, CasAmbiguousIs DEF Others, Same
<1>7. ASSUME NEW p \in Pod, Reload(p) \/ UpdateRefs(p) \/ Report(p) PROVE K
  BY <1>7, ReloadIs, UpdateRefsIs, ReportIs DEF Others, Same
<1>8. ASSUME NEW p \in Pod, NEW u \in Push, Arrive(p, u) \/ Judge(p, u) PROVE K
  BY <1>8, ArriveIs, JudgeIs DEF Others, Same
<1>9. ASSUME NEW p \in Pod, NEW k \in Pack, Upload(p, k) PROVE K
  BY <1>9, UploadIs DEF Others, Same
<1>10. ASSUME NEW p \in Pod, Fenced(p) \/ CasRefused(p) \/ Stop(p) PROVE K
  BY <1>10, FencedIs, EndsIs DEF Others, Same
<1>11. ASSUME NEW p \in Pod, Release(p) PROVE K
  BY <1>11, ReleaseIs DEF Others, Same
<1> HIDE DEF K, G
<1>12. K \/ \E p \in Pod : G(p)
  BY <1>1, <1>2, <1>3, <1>4, <1>5, <1>6, <1>7, <1>8, <1>9, <1>10, <1>11 DEF RepoNext
<1> QED
  BY <1>12 DEF K, G

\* The PUTs that may still land: on the wire, or in a process's hands.
Puts == wire \cup UNION {InFlight(p) : p \in Pod}

\* What a step does to the snapshot, the wire and what the processes know.
LEMMA SnapshotStep ==
  ASSUME RepoTypeOK, RepoNext
  PROVE  /\ snap' = snap \/ \E w \in Puts : w.match = snap /\ snap' = w.body
         /\ wire' \subseteq Puts
         /\ \A q \in Pod : cell'[q] \in {cell[q], snap', Empty}
         /\ store \subseteq store'
<1> DEFINE K == /\ snap' = snap \/ \E w \in Puts : w.match = snap /\ snap' = w.body
                /\ wire' \subseteq Puts
                /\ \A q \in Pod : cell'[q] \in {cell[q], snap', Empty}
                /\ store \subseteq store'
<1>0. wire \subseteq Puts /\ \A p \in Pod : InFlight(p) \subseteq Puts
  BY DEF Puts
<1>1. ASSUME NEW w \in wire, WireArrives(w) PROVE K
  BY <1>0, <1>1, WireArrivesIs DEF Same
<1>2. ASSUME LateRelease PROVE K
  BY <1>0, <1>2, LateReleaseIs DEF Same
<1>3. ASSUME NEW p \in Pod, Start(p) \/ ClaimRepo(p) \/ ClaimRepoUnheard(p) \/ Fenced(p) PROVE K
  BY <1>0, <1>3, StartIs, ClaimIs, UnheardIs, FencedIs DEF Others, Same
<1>4. ASSUME NEW p \in Pod, RotateLoad(p) \/ Load(p) \/ Restore(p) \/ Reload(p) PROVE K
  BY <1>0, <1>4, RotateLoadIs, LoadIs, RestoreIs, ReloadIs DEF Others, Same
<1>5. ASSUME NEW p \in Pod, Rotate(p) PROVE K
  <2>1. Rotation(p) \in Puts
    BY <1>0, <1>5, RotateIs DEF InFlight
  <2>2. Rotation(p).match = cell[p]
    BY RotationIs
  <2> QED
    BY <1>0, <1>5, <2>1, <2>2, RotateIs DEF Others, Same
<1>6. ASSUME NEW p \in Pod, CasOk(p) \/ CasAmbiguous(p) PROVE K
  <2>1. Publication(p) \in Puts
    BY <1>0, <1>6, CasOkIs, CasAmbiguousIs DEF InFlight
  <2>2. Publication(p).match = cell[p]
    BY PublicationIs
  <2>3. CASE CasOk(p)
    BY <1>0, <2>1, <2>2, <2>3, CasOkIs DEF Others, Same
  <2>4. CASE CasAmbiguous(p)
    BY <1>0, <2>1, <2>2, <2>4, CasAmbiguousIs DEF Others, Same
  <2> QED
    BY <1>6, <2>3, <2>4
<1>7. ASSUME NEW p \in Pod, NothingAccepted(p) \/ Renew(p) \/ UpdateRefs(p) \/ Report(p) PROVE K
  BY <1>0, <1>7, NothingAcceptedIs, RenewIs, UpdateRefsIs, ReportIs DEF Others, Same
<1>8. ASSUME NEW p \in Pod, NEW u \in Push, Arrive(p, u) \/ Judge(p, u) PROVE K
  BY <1>0, <1>8, ArriveIs, JudgeIs DEF Others, Same
<1>9. ASSUME NEW p \in Pod, NEW k \in Pack, Upload(p, k) PROVE K
  BY <1>0, <1>9, UploadIs DEF Others, Same
<1>10. ASSUME NEW p \in Pod, CasRefused(p) \/ Stop(p) PROVE K
  <2>1. CASE CasRefused(p) BY <1>0, <2>1, EndsIs DEF Others, Same
  <2>2. CASE Stop(p) BY <1>0, <2>2, EndsIs DEF Others, Same
  <2> QED BY <1>10, <2>1, <2>2
<1>11. ASSUME NEW p \in Pod, Release(p) PROVE K
  BY <1>0, <1>11, ReleaseIs DEF Others, Same
<1> HIDE DEF K
<1>12. K
  BY <1>1, <1>2, <1>3, <1>4, <1>5, <1>6, <1>7, <1>8, <1>9, <1>10, <1>11 DEF RepoNext
<1> QED
  BY <1>12 DEF K

(***************************************************************************)
(* Epochs.                                                                 *)
(***************************************************************************)
LEMMA EpochsStep ==
  ASSUME RepoTypeOK, EpochsOK, RepoNext
  PROVE  EpochsOK' /\ epoch' >= epoch
<1>0. epoch \in Nat /\ \A q \in Pod : held[q] \in Nat
  BY DEF RepoTypeOK, EpochTypeOK
<1>1. CASE /\ epoch' = epoch /\ holder' = holder
           /\ \A q \in Pod : held'[q] \in {held[q], 0}
           /\ \A e \in leaving' : \/ e \in leaving
                                  \/ \E p \in Pod : held[p] = e /\ e # 0 /\ held'[p] = 0
  BY <1>0, <1>1 DEF EpochsOK
<1>2. ASSUME NEW p \in Pod, epoch' = epoch + 1, holder' = p, leaving' = leaving,
             \A q \in Pod \ {p} : held'[q] = held[q], held'[p] \in {held[p], epoch + 1}
      PROVE  EpochsOK' /\ epoch' >= epoch
  <2>1. \A q \in Pod : held'[q] \in Nat /\ held'[q] <= epoch'
    BY <1>0, <1>2 DEF EpochsOK
  <2>2. \A q \in Pod : held'[q] = epoch' => q = p
    BY <1>0, <1>2 DEF EpochsOK
  <2>3. \A q, r \in Pod : held'[q] # 0 /\ held'[q] = held'[r] => q = r
    BY <1>0, <1>2, <2>2 DEF EpochsOK
  <2>4. \A e \in leaving' : e # 0 /\ e <= epoch
    BY <1>2 DEF EpochsOK
  <2>5. \A q \in Pod : held'[q] # 0 => held'[q] \notin leaving'
    BY <1>0, <1>2, <2>4 DEF EpochsOK
  <2>6. \A e \in leaving' : e \in Nat
    BY <1>2 DEF RepoTypeOK, EpochTypeOK
  <2> QED
    BY <1>0, <1>2, <2>1, <2>2, <2>3, <2>4, <2>5, <2>6 DEF EpochsOK
<1> QED
  BY <1>1, <1>2, LeaseStep

LEMMA PlaceStep ==
  ASSUME RepoTypeOK, EpochsOK, PlaceOK, RepoNext
  PROVE  PlaceOK'
<1> DEFINE P(q) ==
      /\ at[q] \in {"down", "claim"} => held[q] = 0
      /\ at[q] \in {"rotate", "rotating"} => held[q] # 0
      /\ at[q] \in {"commit", "reload", "landed", "report"} =>
           /\ batch[q].epoch # 0 /\ batch[q].epoch <= epoch
           /\ held[q] # 0 => held[q] = batch[q].epoch
<1>0. epoch \in Nat /\ epoch' \in Nat /\ epoch' >= epoch
  BY EpochsStep, EpochTypeStep DEF RepoTypeOK, EpochTypeOK
<1>1. \A q \in Pod : P(q) /\ held[q] \in Nat /\ batch[q].epoch \in Nat
  BY Shapes DEF PlaceOK, Batch
<1>2. ASSUME NEW q \in Pod, Same(q) PROVE P(q)'
  BY <1>0, <1>1, <1>2 DEF Same
<1>3. ASSUME NEW p \in Pod, Moves(p) PROVE P(p)'
  <2>1. CASE Start(p) \/ ClaimRepo(p) \/ RotateLoad(p) \/ Rotate(p) \/ Load(p) \/ Restore(p)
    BY <1>0, <1>1, <2>1, StartIs, ClaimIs, RotateLoadIs, RotateIs, LoadIs, RestoreIs
  <2>2. CASE NothingAccepted(p) \/ Report(p) \/ Release(p) \/ CasRefused(p) \/ Stop(p)
    BY <2>2, NothingAcceptedIs, ReportIs, ReleaseIs, EndsIs
  <2>3. CASE Renew(p)
    BY <1>0, <2>3, RenewIs DEF Current
  <2>4. CASE CasOk(p) \/ CasAmbiguous(p) \/ Reload(p) \/ UpdateRefs(p)
    <3>1. CASE CasOk(p) BY <1>0, <1>1, <3>1, CasOkIs
    <3>2. CASE CasAmbiguous(p) BY <1>0, <1>1, <3>2, CasAmbiguousIs
    <3>3. CASE Reload(p) BY <1>0, <1>1, <3>3, ReloadIs
    <3>4. CASE UpdateRefs(p) BY <1>0, <1>1, <3>4, UpdateRefsIs
    <3> QED BY <2>4, <3>1, <3>2, <3>3, <3>4
  <2>7. CASE Fenced(p)
    BY <1>0, <1>1, <2>7, FencedIs DEF Serving
  <2>5. ASSUME NEW u \in Push, Judge(p, u) PROVE P(p)'
    BY <2>5, JudgeIs
  <2>6. ASSUME NEW k \in Pack, Upload(p, k) PROVE P(p)'
    BY <1>0, <1>1, <2>6, UploadIs
  <2> HIDE DEF P
  <2> QED
    BY <1>3, <2>1, <2>2, <2>3, <2>4, <2>5, <2>6, <2>7 DEF Moves
<1> HIDE DEF P
<1>4. \A q \in Pod : P(q)'
  BY <1>2, <1>3, OneMoves DEF Others
<1> QED
  BY <1>4 DEF P, PlaceOK

(***************************************************************************)
(* Every snapshot that is or may be written is good.                       *)
(***************************************************************************)
LEMMA EmptyGood == Good(Empty)
<1>1. /\ Empty.refs = NoRefs /\ Empty.packs = {} /\ Empty.hist = <<>>
  BY DEF Empty, NoRefs
<1>2. Covers(Empty) /\ NamesNeeded(Empty.packs, Empty.hist)
  BY <1>1, NothingReachable DEF Covers, NamesNeeded
<1>3. Logged(Empty.refs, Empty.hist)
  BY <1>1, LoggedEmpty
<1> QED
  BY <1>2, <1>3 DEF Good

LEMMA GoodStays ==
  ASSUME NEW s, Good(s), store \subseteq store'
  PROVE  Good(s)'
<1>1. Covers(s)'
  BY DEF Good, Covers
<1> QED
  BY <1>1 DEF Good

\* A snapshot is as good as its content.
LEMMA GoodContent ==
  ASSUME NEW s, NEW t, Good(s), SameContent(s, t)
  PROVE  Good(t)
  BY DEF Good, Covers, SameContent

LEMMA ExtendsItself ==
  ASSUME NEW l \in Seq(Push)
  PROVE  Log!Extends(l, l)
<1>1. Len(l) \in Nat
  OBVIOUS
<1> DEFINE k == SubSeq(l, 1, Len(l))
<1>2. k \in Seq(Push) /\ Len(k) = Len(l) /\ \A i \in 1..Len(l) : k[i] = l[i]
  BY <1>1
<1>3. k = l
  BY <1>2, SeqEqual
<1> QED
  BY <1>1, <1>3 DEF Log!Extends

\* The refs a batch publishes are the ones it has judged against.
LEMMA MovedIs ==
  ASSUME RepoTypeOK, BatchOK, NEW p \in Pod, at[p] \in {"judge", "commit", "reload"}
  PROVE  Moved(p) = batch[p].eff
<1>1. batch[p].eff \in [Ref -> Oid]
  BY Shapes DEF Batch
<1>2. \A r \in Ref \ Touched(p) : batch[p].eff[r] = cell[p].refs[r]
  BY DEF BatchOK
<1> QED
  BY <1>1, <1>2 DEF Moved

\* What a batch publishes when its uploads are done.
LEMMA PublicationGood ==
  ASSUME RepoTypeOK, GoodOK, BatchOK, NEW p \in Pod,
         at[p] \in {"commit", "reload"}, ToUpload(p) = {}
  PROVE  Good(Publication(p).body)
<1> DEFINE s == Publication(p).body
<1>1. s.refs = batch[p].eff /\ s.packs = batch[p].named /\ s.hist = Wide(p)
  <2>1. s.refs = Moved(p) /\ s.packs = batch[p].named /\ s.hist = Wide(p)
    BY PublicationFields
  <2> QED
    BY <2>1, MovedIs
<1> HIDE DEF s
<1>2. /\ Logged(batch[p].eff, Wide(p)) /\ batch[p].up \subseteq store
      /\ Reachable(batch[p].eff) \subseteq UNION batch[p].named
      /\ NamesNeeded(batch[p].named, Wide(p))
  BY DEF BatchOK
<1>3. cell[p].packs \subseteq store
  BY DEF GoodOK, Good, Covers
<1>4. batch[p].named \subseteq store
  BY <1>2, <1>3 DEF ToUpload
<1>5. Covers(s)
  BY <1>1, <1>2, <1>4 DEF Covers
<1> QED
  BY <1>1, <1>2, <1>5 DEF Good, s

LEMMA PutsAre ==
  ASSUME RepoTypeOK, EpochsOK, PlaceOK, SeqOK, GoodOK, BatchOK, NEW w \in Puts
  PROVE  /\ w \in SnapshotPut
         /\ w.match.seq <= snap.seq /\ w.body.seq = w.match.seq + 1 /\ w.body.epoch <= epoch
         /\ Good(w.body) /\ Log!Extends(w.body.hist, w.match.hist)
<1>1. CASE w \in wire
  BY <1>1 DEF RepoTypeOK, SeqOK, GoodOK, Bodies
<1>2. ASSUME NEW p \in Pod, at[p] = "rotating", w = Rotation(p)
      PROVE  /\ w \in SnapshotPut
             /\ w.match.seq <= snap.seq /\ w.body.seq = w.match.seq + 1 /\ w.body.epoch <= epoch
             /\ Good(w.body) /\ Log!Extends(w.body.hist, w.match.hist)
  <2>1. /\ w \in SnapshotPut /\ w.match = cell[p]
        /\ w.body.seq = cell[p].seq + 1 /\ w.body.epoch = held[p]
        /\ w.body.refs = cell[p].refs /\ w.body.packs = cell[p].packs /\ w.body.hist = cell[p].hist
    BY <1>2, RotationFields
  <2>2. cell[p].hist \in Seq(Push) /\ cell[p].seq <= snap.seq /\ held[p] <= epoch /\ Good(cell[p])
    BY Shapes DEF Snapshot, SeqOK, EpochsOK, GoodOK
  <2>3. Good(w.body)
    BY <2>1, <2>2, GoodContent DEF SameContent
  <2> QED
    BY <2>1, <2>2, <2>3, ExtendsItself
<1>3. ASSUME NEW p \in Pod, Committing(p), w = Publication(p)
      PROVE  /\ w \in SnapshotPut
             /\ w.match.seq <= snap.seq /\ w.body.seq = w.match.seq + 1 /\ w.body.epoch <= epoch
             /\ Good(w.body) /\ Log!Extends(w.body.hist, w.match.hist)
  <2>1. /\ w \in SnapshotPut /\ w.match = cell[p]
        /\ w.body.seq = cell[p].seq + 1 /\ w.body.epoch = batch[p].epoch
        /\ w.body.hist = cell[p].hist \o batch[p].acc
    BY <1>3, PublicationFields DEF Wide
  <2>2. /\ cell[p].hist \in Seq(Push) /\ batch[p].acc \in Seq(Push)
        /\ cell[p].seq <= snap.seq /\ batch[p].epoch <= epoch
    BY <1>3, Shapes DEF Snapshot, Batch, SeqOK, PlaceOK, Committing
  <2>3. Good(w.body)
    BY <1>3, PublicationGood DEF Committing
  <2> QED
    BY <2>1, <2>2, <2>3, ConcatExtends
<1>4. w \in wire \/ \E p \in Pod : \/ at[p] = "rotating" /\ w = Rotation(p)
                                   \/ Committing(p) /\ w = Publication(p)
  BY DEF Puts, InFlight
<1> QED
  BY <1>1, <1>2, <1>3, <1>4

\* Whatever is to be read after a step was, or was on its way.
LEMMA BodiesStep ==
  ASSUME RepoTypeOK, RepoNext, NEW s \in Bodies'
  PROVE  s \in Bodies \/ \E w \in Puts : s = w.body
  BY SnapshotStep DEF Bodies

LEMMA SnapGrows ==
  ASSUME RepoTypeOK, EpochsOK, PlaceOK, SeqOK, GoodOK, BatchOK, RepoNext
  PROVE  /\ snap' = snap \/ snap'.seq = snap.seq + 1
         /\ Log!Extends(snap'.hist, snap.hist)
<1>1. CASE snap' = snap
  BY <1>1, ExtendsItself DEF RepoTypeOK, Snapshot
<1>2. CASE \E w \in Puts : w.match = snap /\ snap' = w.body
  BY <1>2, PutsAre
<1> QED
  BY <1>1, <1>2, SnapshotStep

LEMMA SeqStep ==
  ASSUME RepoTypeOK, EpochsOK, PlaceOK, SeqOK, GoodOK, BatchOK, RepoNext
  PROVE  SeqOK'
<1>0. /\ epoch \in Nat /\ epoch' \in Nat /\ epoch' >= epoch
      /\ snap.seq \in Nat /\ snap'.seq \in Nat /\ snap'.seq >= snap.seq
  <2>1. epoch \in Nat /\ epoch' \in Nat /\ epoch' >= epoch
    BY EpochsStep, EpochTypeStep DEF RepoTypeOK, EpochTypeOK
  <2>2. snap \in Snapshot /\ snap' \in Snapshot
    BY LoopTypeStep DEF RepoTypeOK, LoopTypeOK
  <2>3. snap.seq \in Nat /\ snap'.seq \in Nat
    BY <2>2 DEF Snapshot
  <2> QED
    BY <2>1, <2>3, SnapGrows
<1>1. ASSUME NEW s \in Bodies' PROVE s.epoch <= epoch'
  <2>1. s.epoch <= epoch
    BY BodiesStep, PutsAre DEF SeqOK
  <2>2. s \in Snapshot
    BY LoopTypeStep DEF Bodies, LoopTypeOK, SnapshotPut
  <2> QED
    BY <1>0, <2>1, <2>2 DEF Snapshot
<1>2. ASSUME NEW q \in Pod PROVE cell'[q].seq <= snap'.seq
  <2>1. cell[q] \in Snapshot /\ cell[q].seq <= snap.seq
    BY Shapes DEF SeqOK
  <2>2. CASE cell'[q] = cell[q]
    BY <1>0, <2>1, <2>2 DEF Snapshot
  <2>3. CASE cell'[q] = snap'
    BY <1>0, <2>3
  <2>4. CASE cell'[q] = Empty
    BY <1>0, <2>4 DEF Empty
  <2> QED
    BY <2>2, <2>3, <2>4, SnapshotStep
<1>3. ASSUME NEW w \in wire' PROVE w.match.seq <= snap'.seq /\ w.body.seq = w.match.seq + 1
  <2>1. w \in Puts
    BY SnapshotStep
  <2>2. w.match.seq <= snap.seq /\ w.body.seq = w.match.seq + 1 /\ w.match.seq \in Nat
    BY <2>1, PutsAre DEF SnapshotPut, Snapshot
  <2> QED
    BY <1>0, <2>2
<1> QED
  BY <1>1, <1>2, <1>3 DEF SeqOK

LEMMA GoodStep ==
  ASSUME RepoTypeOK, EpochsOK, PlaceOK, SeqOK, GoodOK, BatchOK, RepoNext
  PROVE  GoodOK'
<1>0. store \subseteq store'
  BY SnapshotStep
<1>1. ASSUME NEW s \in Bodies' PROVE Good(s)'
  <2>1. Good(s)
    BY BodiesStep, PutsAre DEF GoodOK
  <2> QED
    BY <1>0, <2>1, GoodStays
<1>2. ASSUME NEW q \in Pod PROVE Good(cell[q])'
  <2>1. cell'[q] \in {cell[q], snap', Empty}
    BY SnapshotStep
  <2>2. ASSUME NEW s, s = cell'[q] PROVE Good(s)'
    <3>1. CASE s = cell[q]
      BY <1>0, <3>1, GoodStays DEF GoodOK
    <3>2. CASE s = snap'
      BY <1>1, <3>2 DEF Bodies
    <3>3. CASE s = Empty
      BY <1>0, <3>3, GoodStays, EmptyGood
    <3> QED
      BY <2>1, <2>2, <3>1, <3>2, <3>3
  <2> QED
    BY <2>2
<1>3. ASSUME NEW w \in wire' PROVE Log!Extends(w.body.hist, w.match.hist)
  BY SnapshotStep, PutsAre
<1> QED
  BY <1>1, <1>2, <1>3 DEF GoodOK

(***************************************************************************)
(* A batch, step by step.                                                  *)
(***************************************************************************)
\* What is made of the state of one pod only.
LEMMA SameMakes ==
  ASSUME NEW q \in Pod, at'[q] = at[q], cell'[q] = cell[q], batch'[q] = batch[q]
  PROVE  /\ Publication(q)' = Publication(q) /\ Wide(q)' = Wide(q) /\ Touched(q)' = Touched(q)
         /\ ToUpload(q)' = ToUpload(q) /\ Committing(q)' = Committing(q)
<1>1. Wide(q)' = Wide(q) /\ Touched(q)' = Touched(q) /\ ToUpload(q)' = ToUpload(q)
  BY DEF Wide, Touched, ToUpload
<1>2. Moved(q)' = Moved(q)
  BY <1>1 DEF Moved
<1>3. Publication(q)' = Publication(q)
  BY <1>2 DEF Publication
<1> QED
  BY <1>1, <1>3 DEF Committing

LEMMA ConcatAppend ==
  ASSUME NEW s \in Seq(Push), NEW t \in Seq(Push), NEW u \in Push
  PROVE  s \o Append(t, u) = Append(s \o t, u)
<1> DEFINE a == s \o Append(t, u)
           b == Append(s \o t, u)
<1>1. /\ Append(t, u) \in Seq(Push) /\ Len(Append(t, u)) = Len(t) + 1
      /\ Len(s) \in Nat /\ Len(t) \in Nat
      /\ \A i \in 1..Len(t) : Append(t, u)[i] = t[i]
      /\ Append(t, u)[Len(t) + 1] = u
  OBVIOUS
<1>2. /\ a \in Seq(Push) /\ Len(a) = Len(s) + Len(t) + 1
      /\ \A i \in 1..(Len(s) + Len(t) + 1) :
           a[i] = IF i <= Len(s) THEN s[i] ELSE Append(t, u)[i - Len(s)]
  BY <1>1, ConcatProperties
<1>3. /\ s \o t \in Seq(Push) /\ Len(s \o t) = Len(s) + Len(t)
      /\ \A i \in 1..(Len(s) + Len(t)) :
           (s \o t)[i] = IF i <= Len(s) THEN s[i] ELSE t[i - Len(s)]
  BY <1>1, ConcatProperties
<1>4. /\ b \in Seq(Push) /\ Len(b) = Len(s) + Len(t) + 1
      /\ \A i \in 1..(Len(s) + Len(t)) : b[i] = (s \o t)[i]
      /\ b[Len(s) + Len(t) + 1] = u
  BY <1>1, <1>3
<1> HIDE DEF a, b
<1>5. ASSUME NEW i \in 1..(Len(s) + Len(t) + 1) PROVE a[i] = b[i]
  <2>1. CASE i <= Len(s)
    <3>1. i \in 1..(Len(s) + Len(t)) /\ i \in 1..Len(s)
      BY <1>1, <2>1
    <3>2. a[i] = s[i]
      BY <1>2, <2>1
    <3>3. b[i] = (s \o t)[i]
      BY <1>4, <3>1
    <3>4. (s \o t)[i] = s[i]
      BY <1>3, <2>1, <3>1
    <3> QED
      BY <3>2, <3>3, <3>4
  <2>2. CASE i > Len(s) /\ i <= Len(s) + Len(t)
    <3>1. i - Len(s) \in 1..Len(t) /\ i \in 1..(Len(s) + Len(t)) /\ ~ (i <= Len(s))
      BY <1>1, <2>2
    <3>2. a[i] = Append(t, u)[i - Len(s)]
      BY <1>2, <3>1
    <3>3. b[i] = (s \o t)[i]
      BY <1>4, <3>1
    <3>4. (s \o t)[i] = t[i - Len(s)]
      BY <1>3, <3>1
    <3> QED
      BY <1>1, <3>1, <3>2, <3>3, <3>4
  <2>3. CASE i = Len(s) + Len(t) + 1
    BY <1>1, <1>2, <1>4, <2>3
  <2> QED
    BY <1>1, <2>1, <2>2, <2>3
<1>6. a = b
  BY <1>1, <1>2, <1>4, <1>5, SeqEqual
<1> QED
  BY <1>6 DEF a, b

LEMMA ConcatEmpty ==
  ASSUME NEW s \in Seq(Push)
  PROVE  s \o <<>> = s
  OBVIOUS

BatchTouched(acc) == {v.ref : v \in Range1(acc)}

\* What holds of the accepted pushes and of the refs they leave, from the
\* first push judged.
Judged(c, acc, eff) ==
  /\ Logged(eff, c.hist \o acc)
  /\ \A r \in Ref \ BatchTouched(acc) : eff[r] = c.refs[r]
  /\ \A r \in BatchTouched(acc) : \E u \in Range1(acc) : u.new = eff[r]

LEMMA JudgedMore ==
  ASSUME NEW c \in Snapshot, NEW acc \in Seq(Push), NEW eff \in [Ref -> Oid], NEW u \in Push,
         Judged(c, acc, eff), u.old = eff[u.ref]
  PROVE  Judged(c, Append(acc, u), Log!Applied(eff, u))
<1>1. c.hist \in Seq(Push) /\ c.hist \o acc \in Seq(Push)
  BY ConcatProperties DEF Snapshot
<1>2. Logged(Log!Applied(eff, u), c.hist \o Append(acc, u))
  <2>1. Logged(Log!Applied(eff, u), Append(c.hist \o acc, u))
    BY <1>1, LoggedAppend DEF Judged
  <2> QED
    BY <1>1, <2>1, ConcatAppend
<1>3. Range1(Append(acc, u)) = Range1(acc) \cup {u}
  BY RangeOfAppend
<1>4. u.ref \in Ref
  BY PushAssumption
<1>5. /\ Log!Applied(eff, u)[u.ref] = u.new
      /\ \A r \in Ref \ {u.ref} : Log!Applied(eff, u)[r] = eff[r]
  BY <1>4 DEF Log!Applied
<1>6. BatchTouched(acc) \subseteq Ref
  BY RangeIsPushes, PushAssumption DEF BatchTouched
<1>7. BatchTouched(Append(acc, u)) = BatchTouched(acc) \cup {u.ref}
  BY <1>3 DEF BatchTouched
<1> QED
  BY <1>2, <1>3, <1>5, <1>6, <1>7 DEF Judged

LEMMA BegunJudged ==
  ASSUME RepoTypeOK, GoodOK, BatchOK, NEW p \in Pod, at[p] \in {"idle", "judge"}
  PROVE  Judged(cell[p], Begun(p).acc, Begun(p).eff) /\ Begun(p).up \subseteq store
<1>1. CASE at[p] = "idle"
  <2>1. Begun(p).acc = <<>> /\ Begun(p).eff = cell[p].refs /\ Begun(p).up = {}
    BY <1>1, BegunIs
  <2>2. cell[p].hist \in Seq(Push) /\ Logged(cell[p].refs, cell[p].hist)
    BY Shapes DEF Snapshot, GoodOK, Good
  <2>3. cell[p].hist \o <<>> = cell[p].hist
    BY <2>2, ConcatEmpty
  <2>4. Range1(<<>>) = {}
    BY DEF Range1
  <2> QED
    BY <2>1, <2>2, <2>3, <2>4 DEF Judged, BatchTouched
<1>2. CASE at[p] = "judge"
  <2>1. Begun(p) = batch[p]
    BY <1>2, BegunIs
  <2> QED
    BY <1>2, <2>1 DEF BatchOK, Judged, BatchTouched, Touched, Wide
<1> QED
  BY <1>1, <1>2

\* The set a batch names covers what its refs reach, with packs that some
\* published push needed.
LEMMA NamedCovers ==
  ASSUME RepoTypeOK, GoodOK, BatchOK, NEW p \in Pod, at[p] = "judge",
         NEW named \in NeededPacks(p), Wanted(p) \subseteq UNION named
  PROVE  /\ Reachable(batch[p].eff) \subseteq UNION named
         /\ NamesNeeded(named, Wide(p))
<1>1. PICK T \in SUBSET Unnamed(p) : named = cell[p].packs \cup T /\ ReadInOrder(T, Wanted(p))
  BY DEF NeededPacks
<1>2. /\ Reachable(cell[p].refs) \subseteq UNION cell[p].packs
      /\ NamesNeeded(cell[p].packs, cell[p].hist)
  BY DEF GoodOK, Good, Covers
<1>3. cell[p].hist \in Seq(Push) /\ batch[p].acc \in Seq(Push) /\ disk[p] \subseteq Pack
  BY Shapes DEF Snapshot, Batch, RepoTypeOK
<1>4. Range1(Wide(p)) = Range1(cell[p].hist) \cup Range1(batch[p].acc)
  BY <1>3, RangeOfConcat DEF Wide
<1>5. ASSUME NEW r \in Ref, NEW c \in History[batch[p].eff[r]] PROVE c \in UNION named
  <2>1. CASE r \in Touched(p)
    <3>1. PICK u \in Range1(batch[p].acc) : u.new = batch[p].eff[r]
      BY <2>1 DEF BatchOK
    <3>2. c \in Reachable(cell[p].refs) \/ c \in Wanted(p)
      BY <3>1 DEF Wanted
    <3> QED
      BY <1>1, <1>2, <3>2
  <2>2. CASE r \notin Touched(p)
    <3>1. batch[p].eff[r] = cell[p].refs[r]
      BY <2>2 DEF BatchOK
    <3>2. c \in Reachable(cell[p].refs)
      BY <3>1 DEF Reachable
    <3> QED
      BY <1>1, <1>2, <3>2
  <2> QED
    BY <2>1, <2>2
<1>6. ASSUME NEW k \in named PROVE \E u \in Range1(Wide(p)) : k \cap History[u.new] # {}
  <2>1. CASE k \in cell[p].packs
    BY <1>2, <1>4, <2>1 DEF NamesNeeded
  <2>2. CASE k \in T
    <3>1. T \in SUBSET Pack
      BY <1>3 DEF Unnamed
    <3>2. k \cap Wanted(p) # {}
      BY <1>1, <2>2, <3>1, TakenIsWanted
    <3> QED
      BY <1>4, <3>2 DEF Wanted
  <2> QED
    BY <1>1, <2>1, <2>2
<1> QED
  BY <1>5, <1>6 DEF Reachable, NamesNeeded

LEMMA BatchStep ==
  ASSUME RepoTypeOK, GoodOK, BatchOK, RepoNext
  PROVE  BatchOK'
<1> DEFINE P(q) ==
      /\ at[q] \in {"judge", "commit", "reload"} =>
           Judged(cell[q], batch[q].acc, batch[q].eff) /\ batch[q].up \subseteq store
      /\ at[q] \in {"commit", "reload"} =>
           /\ batch[q].acc # <<>>
           /\ Reachable(batch[q].eff) \subseteq UNION batch[q].named
           /\ NamesNeeded(batch[q].named, Wide(q))
      /\ at[q] = "reload" => ToUpload(q) = {}
<1>0. store \subseteq store' /\ \A q \in Pod : P(q)
  BY SnapshotStep DEF BatchOK, Judged, BatchTouched, Touched, Wide
<1>2. ASSUME NEW q \in Pod, at'[q] = at[q], cell'[q] = cell[q], batch'[q] = batch[q] PROVE P(q)'
  BY <1>0, <1>2, SameMakes
<1>3. ASSUME NEW p \in Pod, Moves(p) PROVE P(p)'
  <2>1. CASE Start(p) \/ ClaimRepo(p) \/ RotateLoad(p) \/ Rotate(p) \/ Load(p) \/ Restore(p)
    BY <2>1, StartIs, ClaimIs, RotateLoadIs, RotateIs, LoadIs, RestoreIs
  <2>2. CASE NothingAccepted(p) \/ Report(p) \/ Release(p) \/ CasRefused(p) \/ Stop(p)
    BY <2>2, NothingAcceptedIs, ReportIs, ReleaseIs, EndsIs
  <2>3. CASE CasOk(p) \/ Reload(p) \/ UpdateRefs(p)
    BY <2>3, CasOkIs, ReloadIs, UpdateRefsIs
  <2>4. CASE Fenced(p)
    BY <1>2, <2>4, FencedIs
  <2>5. ASSUME NEW u \in Push, Judge(p, u) PROVE P(p)'
    <3>1. at[p] \in {"idle", "judge"} /\ at'[p] = "judge" /\ cell'[p] = cell[p]
      BY <2>5, JudgeIs
    <3>2. Judged(cell[p], Begun(p).acc, Begun(p).eff) /\ Begun(p).up \subseteq store
      BY <3>1, BegunJudged
    <3>3. /\ cell[p] \in Snapshot /\ Begun(p).acc \in Seq(Push) /\ Begun(p).eff \in [Ref -> Oid]
      BY Shapes, BegunIs DEF Batch
    <3>4. Judged(cell[p], batch'[p].acc, batch'[p].eff)
      <4>1. CASE /\ u.old = Begun(p).eff[u.ref]
                 /\ batch'[p].acc = Append(Begun(p).acc, u)
                 /\ batch'[p].eff = Log!Applied(Begun(p).eff, u)
        BY <3>2, <3>3, <4>1, JudgedMore
      <4>2. CASE batch'[p].acc = Begun(p).acc /\ batch'[p].eff = Begun(p).eff
        BY <3>2, <4>2
      <4> QED
        BY <2>5, <4>1, <4>2, JudgeIs
    <3>5. batch'[p].up \subseteq store
      BY <2>5, <3>2, JudgeIs
    <3> QED
      BY <1>0, <3>1, <3>4, <3>5
  <2>6. CASE Renew(p)
    <3>1. /\ at[p] = "judge" /\ at'[p] = "commit" /\ cell'[p] = cell[p]
          /\ batch'[p].acc = batch[p].acc /\ batch'[p].eff = batch[p].eff
          /\ batch'[p].up = batch[p].up /\ batch[p].acc # <<>>
          /\ batch'[p].named \in NeededPacks(p) /\ Wanted(p) \subseteq UNION batch'[p].named
      BY <2>6, RenewIs
    <3>2. /\ Reachable(batch[p].eff) \subseteq UNION batch'[p].named
          /\ NamesNeeded(batch'[p].named, Wide(p))
      BY <3>1, NamedCovers
    <3>3. Wide(p)' = Wide(p)
      BY <3>1 DEF Wide
    <3> QED
      BY <1>0, <3>1, <3>2, <3>3
  <2>7. ASSUME NEW k \in Pack, Upload(p, k) PROVE P(p)'
    <3>1. /\ at[p] = "commit" /\ at'[p] = "commit" /\ cell'[p] = cell[p]
          /\ batch'[p].acc = batch[p].acc /\ batch'[p].eff = batch[p].eff
          /\ batch'[p].named = batch[p].named /\ batch'[p].up = batch[p].up \cup {k}
          /\ store' = store \cup {k}
      BY <2>7, UploadIs
    <3>2. Wide(p)' = Wide(p)
      BY <3>1 DEF Wide
    <3> QED
      BY <1>0, <3>1, <3>2
  <2>8. CASE CasAmbiguous(p)
    <3>1. /\ ToUpload(p) = {} /\ at[p] = "commit" /\ at'[p] = "reload"
          /\ cell'[p] = cell[p] /\ batch'[p] = batch[p]
      BY <2>8, CasAmbiguousIs DEF Committing
    <3>2. Wide(p)' = Wide(p) /\ ToUpload(p)' = ToUpload(p)
      BY <3>1 DEF Wide, ToUpload
    <3> QED
      BY <1>0, <3>1, <3>2
  <2> HIDE DEF P
  <2> QED
    BY <1>3, <2>1, <2>2, <2>3, <2>4, <2>5, <2>6, <2>7, <2>8 DEF Moves
<1> HIDE DEF P
<1>4. \A q \in Pod : P(q)'
  BY <1>2, <1>3, OneMoves DEF Others, Same
<1> QED
  BY <1>4 DEF P, BatchOK, Judged, BatchTouched, Touched, Wide

(***************************************************************************)
(* A process recognises the snapshot it wrote.                             *)
(***************************************************************************)
\* p writes s: it lands, or it is on the wire from now on.
Writes(p, s) ==
  \/ Rotate(p) /\ s = Rotation(p).body
  \/ (CasOk(p) \/ CasAmbiguous(p)) /\ s = Publication(p).body
  \/ (CasRefused(p) \/ Stop(p)) /\ \E w \in InFlight(p) : s = w.body

LEMMA NewBody ==
  ASSUME RepoTypeOK, RepoNext, NEW s \in Bodies', s \notin Bodies
  PROVE  \E p \in Pod : Writes(p, s) /\ s.writer = p
<1>1. ASSUME NEW p \in Pod, Writes(p, s) PROVE s.writer = p
  BY <1>1, RotationFields, PublicationFields DEF Writes, InFlight
<1>2. s = snap' \/ \E w \in wire' : s = w.body
  BY DEF Bodies
<1>3. ~ (snap' = snap /\ wire' \subseteq wire)
  BY <1>2 DEF Bodies
<1>4. ASSUME NEW p \in Pod, Rotate(p) \/ CasOk(p) \/ CasAmbiguous(p) \/ CasRefused(p) \/ Stop(p)
      PROVE  Writes(p, s)
  <2>1. CASE Rotate(p)
    BY <1>2, <2>1, RotateIs DEF Bodies, Writes
  <2>2. CASE CasOk(p)
    BY <1>2, <2>2, CasOkIs DEF Bodies, Writes
  <2>3. CASE CasAmbiguous(p)
    BY <1>2, <2>3, CasAmbiguousIs DEF Bodies, Writes
  <2>4. CASE CasRefused(p) \/ Stop(p)
    BY <1>2, <2>4, EndsIs DEF Bodies, Writes
  <2> QED
    BY <1>4, <2>1, <2>2, <2>3, <2>4
<1>5. ASSUME NEW w \in wire, WireArrives(w) PROVE FALSE
  BY <1>2, <1>5, WireArrivesIs DEF Bodies
<1>6. ASSUME LateRelease PROVE FALSE
  BY <1>3, <1>6, LateReleaseIs
<1>7. ASSUME NEW p \in Pod,
             \/ Start(p) \/ ClaimRepo(p) \/ ClaimRepoUnheard(p) \/ RotateLoad(p) \/ Load(p)
             \/ Restore(p) \/ NothingAccepted(p)
      PROVE  FALSE
  BY <1>3, <1>7, StartIs, ClaimIs, UnheardIs, RotateLoadIs, LoadIs, RestoreIs, NothingAcceptedIs
<1>8. ASSUME NEW p \in Pod,
             Renew(p) \/ Reload(p) \/ UpdateRefs(p) \/ Report(p) \/ Fenced(p) \/ Release(p)
      PROVE  FALSE
  BY <1>3, <1>8, RenewIs, ReloadIs, UpdateRefsIs, ReportIs, FencedIs, ReleaseIs
<1>9. ASSUME NEW p \in Pod, NEW u \in Push, Arrive(p, u) \/ Judge(p, u) PROVE FALSE
  BY <1>3, <1>9, ArriveIs, JudgeIs
<1>10. ASSUME NEW p \in Pod, NEW k \in Pack, Upload(p, k) PROVE FALSE
  BY <1>3, <1>10, UploadIs
<1> QED
  BY <1>1, <1>4, <1>5, <1>6, <1>7, <1>8, <1>9, <1>10 DEF RepoNext

Owns(q, s) ==
  Mine(q) # 0 /\ s.writer = q /\ s.epoch = Mine(q) =>
    /\ at[q] \notin {"rotate", "rotating", "load"}
    /\ s.seq <= cell[q].seq \/ (at[q] = "reload" /\ s = Publication(q).body)

\* The snapshot a batch adopts after an ambiguous CAS is its own.
LEMMA OwnAdopted ==
  ASSUME RepoTypeOK, PlaceOK, OwnOK, NEW p \in Pod, at[p] = "reload", Adopts(p)
  PROVE  snap = Publication(p).body
<1>1. snap.seq = cell[p].seq + 1 /\ snap.epoch = batch[p].epoch /\ snap.writer = p
  BY DEF Adopts
<1>2. Mine(p) = batch[p].epoch /\ batch[p].epoch # 0
  BY DEF Mine, PlaceOK
<1>3. snap \in Bodies /\ cell[p].seq \in Nat
  BY Shapes DEF Bodies, Snapshot
<1>4. snap.seq <= cell[p].seq \/ snap = Publication(p).body
  BY <1>1, <1>2, <1>3 DEF OwnOK
<1> QED
  BY <1>1, <1>3, <1>4

LEMMA OwnStep ==
  ASSUME RepoTypeOK, EpochsOK, PlaceOK, SeqOK, GoodOK, BatchOK, OwnOK, RepoNext
  PROVE  OwnOK'
<1>0. /\ epoch \in Nat /\ \A q \in Pod : held[q] \in Nat /\ cell[q].seq \in Nat
      /\ \A q \in Pod : batch[q].epoch \in Nat
  BY Shapes DEF RepoTypeOK, EpochTypeOK, Snapshot, Batch
<1>1. \A q \in Pod, s \in Bodies : Owns(q, s) /\ s.epoch <= epoch /\ s.epoch \in Nat /\ s.seq \in Nat
  BY DEF OwnOK, SeqOK, Owns, Bodies, RepoTypeOK, Snapshot, SnapshotPut
<1>2. ASSUME NEW q \in Pod, NEW s \in Bodies, Same(q) PROVE Owns(q, s)'
  <2>1. Mine(q)' = Mine(q) /\ Publication(q)' = Publication(q)
    BY <1>2, SameMakes DEF Same, Mine
  <2> QED
    BY <1>1, <1>2, <2>1 DEF Same, Owns
<1>3. ASSUME NEW p \in Pod, NEW s \in Bodies, Moves(p) PROVE Owns(p, s)'
  <2>0. Owns(p, s) /\ s.epoch <= epoch /\ s.epoch \in Nat /\ s.seq \in Nat
    BY <1>1
  <2>1. CASE Start(p) \/ Release(p) \/ CasRefused(p) \/ Stop(p)
    <3>1. at[p] = "down" => held[p] = 0
      BY DEF PlaceOK
    <3>2. held'[p] = 0 /\ at'[p] \in {"down", "claim"}
      BY <2>1, <3>1, StartIs, ReleaseIs, EndsIs
    <3>3. Mine(p)' = 0
      BY <3>2 DEF Mine
    <3> QED
      BY <3>3 DEF Owns
  <2>2. CASE ClaimRepo(p)
    <3>1. Mine(p)' = epoch + 1
      BY <2>2, ClaimIs DEF Mine
    <3> QED
      BY <1>0, <2>0, <3>1 DEF Owns
  <2>3. CASE RotateLoad(p) \/ Rotate(p) \/ Load(p)
    <3>1. Mine(p)' = Mine(p) /\ at[p] \in {"rotate", "rotating", "load"}
      BY <2>3, RotateLoadIs, RotateIs, LoadIs DEF Mine
    <3> QED
      BY <2>0, <3>1 DEF Owns
  <2>4. CASE Restore(p) \/ NothingAccepted(p) \/ UpdateRefs(p) \/ Report(p)
    <3>1. /\ Mine(p)' = Mine(p) /\ at[p] # "reload" /\ cell'[p] = cell[p]
          /\ at'[p] \in {"idle", "report"}
      BY <2>4, RestoreIs, NothingAcceptedIs, UpdateRefsIs, ReportIs DEF Mine
    <3> QED
      BY <2>0, <3>1 DEF Owns
  <2>5. ASSUME NEW u \in Push, Judge(p, u) PROVE Owns(p, s)'
    <3>1. /\ Mine(p)' = Mine(p) /\ at[p] # "reload" /\ cell'[p] = cell[p] /\ at'[p] = "judge"
      BY <2>5, JudgeIs DEF Mine
    <3> QED
      BY <2>0, <3>1 DEF Owns
  <2>6. CASE Renew(p)
    <3>1. /\ Mine(p)' = Mine(p) /\ at[p] # "reload" /\ cell'[p] = cell[p] /\ at'[p] = "commit"
      BY <2>6, RenewIs DEF Mine
    <3> QED
      BY <2>0, <3>1 DEF Owns
  <2>7. ASSUME NEW k \in Pack, Upload(p, k) PROVE Owns(p, s)'
    <3>1. /\ Mine(p)' = Mine(p) /\ at[p] # "reload" /\ cell'[p] = cell[p] /\ at'[p] = "commit"
      BY <2>7, UploadIs DEF Mine
    <3> QED
      BY <2>0, <3>1 DEF Owns
  <2>8. CASE CasOk(p)
    <3>1. /\ at[p] = "commit" /\ at'[p] = "landed" /\ held'[p] = held[p]
          /\ cell'[p].seq = cell[p].seq + 1
      BY <2>8, CasOkIs, PublicationFields
    <3>2. Mine(p)' # 0 => Mine(p)' = Mine(p)
      BY <3>1 DEF Mine, PlaceOK
    <3> QED
      BY <1>0, <2>0, <3>1, <3>2 DEF Owns
  <2>9. CASE CasAmbiguous(p)
    <3>1. /\ at[p] = "commit" /\ at'[p] = "reload" /\ cell'[p] = cell[p] /\ batch'[p] = batch[p]
      BY <2>9, CasAmbiguousIs
    <3>2. Mine(p)' = Mine(p)
      BY <3>1 DEF Mine
    <3> QED
      BY <2>0, <3>1, <3>2 DEF Owns
  <2>10. CASE Reload(p)
    <3>1. /\ at[p] = "reload" /\ at'[p] = "landed" /\ held'[p] = held[p]
          /\ cell'[p].seq = cell[p].seq + 1
      BY <2>10, ReloadIs DEF Adopts
    <3>2. Mine(p)' # 0 => Mine(p)' = Mine(p)
      BY <3>1 DEF Mine, PlaceOK
    <3>3. Publication(p).body.seq = cell[p].seq + 1
      BY PublicationFields
    <3> QED
      BY <1>0, <2>0, <3>1, <3>2, <3>3 DEF Owns
  <2>11. CASE Fenced(p)
    <3>1. /\ held'[p] = 0 /\ at'[p] = at[p] /\ cell'[p] = cell[p] /\ batch'[p] = batch[p]
      BY <2>11, FencedIs
    <3>2. (Mine(p)' # 0 => Mine(p)' = Mine(p)) /\ Publication(p)' = Publication(p)
      BY <3>1, SameMakes DEF Mine
    <3> QED
      BY <2>0, <3>1, <3>2 DEF Owns
  <2> QED
    BY <1>3, <2>1, <2>2, <2>3, <2>4, <2>5, <2>6, <2>7, <2>8, <2>9, <2>10, <2>11 DEF Moves
<1>4. ASSUME NEW p \in Pod, NEW s, Writes(p, s) PROVE Owns(p, s)'
  <2>1. CASE Rotate(p) /\ s = Rotation(p).body
    <3>1. at'[p] = "restore" /\ cell'[p] = s
      BY <2>1, RotateIs
    <3>2. s.seq \in Nat
      BY <1>0, <2>1, RotationFields
    <3> QED
      BY <3>1, <3>2 DEF Owns
  <2>2. CASE CasOk(p) /\ s = Publication(p).body
    <3>1. at'[p] = "landed" /\ cell'[p] = s
      BY <2>2, CasOkIs
    <3>2. s.seq \in Nat
      BY <1>0, <2>2, PublicationFields
    <3> QED
      BY <3>1, <3>2 DEF Owns
  <2>3. CASE CasAmbiguous(p) /\ s = Publication(p).body
    <3>1. at'[p] = "reload" /\ cell'[p] = cell[p] /\ batch'[p] = batch[p]
      BY <2>3, CasAmbiguousIs
    <3>2. Publication(p)' = Publication(p)
      BY <3>1 DEF Publication, Moved, Touched
    <3> QED
      BY <2>3, <3>1, <3>2 DEF Owns
  <2>4. CASE CasRefused(p) \/ Stop(p)
    <3>1. Mine(p)' = 0
      BY <2>4, EndsIs DEF Mine
    <3> QED
      BY <3>1 DEF Owns
  <2> QED
    BY <1>4, <2>1, <2>2, <2>3, <2>4 DEF Writes
<1>5. ASSUME NEW q \in Pod, NEW s \in Bodies' PROVE Owns(q, s)'
  <2>1. CASE s \in Bodies
    BY <1>2, <1>3, <2>1, OneMoves DEF Others
  <2>2. CASE s \notin Bodies
    <3>1. PICK p \in Pod : Writes(p, s) /\ s.writer = p
      BY <2>2, NewBody
    <3>2. CASE q = p
      BY <1>4, <3>1, <3>2
    <3>3. CASE q # p
      BY <3>1, <3>3 DEF Owns
    <3> QED
      BY <3>2, <3>3
  <2> QED
    BY <2>1, <2>2
<1> QED
  BY <1>5 DEF OwnOK, Owns

(***************************************************************************)
(* The local refs.                                                         *)
(***************************************************************************)
LEMMA LocalStep ==
  ASSUME RepoTypeOK, EpochsOK, PlaceOK, SeqOK, GoodOK, BatchOK, OwnOK, LocalOK, RepoNext
  PROVE  LocalOK'
<1> DEFINE P(q) ==
      /\ at[q] \in {"rotating", "restore"} /\ cell[q].seq = 0 => refs[q] = NoRefs
      /\ at[q] \in {"idle", "judge", "commit", "reload", "report"} => refs[q] = cell[q].refs
      /\ at[q] = "landed" =>
           \A r \in Ref : cell[q].refs[r] = IF r \in Touched(q) THEN batch[q].eff[r]
                                            ELSE refs[q][r]
<1>0. /\ \A q \in Pod : P(q) /\ (cell[q].seq = 0 => cell[q].refs = NoRefs)
      /\ \A q \in Pod : cell[q] \in Snapshot /\ cell[q].seq \in Nat /\ cell[q].seq <= snap.seq
      /\ snap.seq \in Nat
      /\ snap.seq = 0 => \A q \in Pod : refs[q] = NoRefs
  BY Shapes DEF LocalOK, SeqOK, RepoTypeOK, Snapshot
<1>1. ASSUME NEW s \in Bodies', s.seq = 0 PROVE s.refs = NoRefs
  <2>1. CASE s \in Bodies
    BY <1>1, <2>1 DEF LocalOK
  <2>2. ASSUME NEW w \in Puts, s = w.body PROVE FALSE
    BY <1>1, <2>2, PutsAre DEF SnapshotPut, Snapshot
  <2> QED
    BY <2>1, <2>2, BodiesStep
<1>2. ASSUME NEW q \in Pod, cell'[q].seq = 0 PROVE cell'[q].refs = NoRefs
  <2>1. cell'[q] \in {cell[q], snap', Empty}
    BY SnapshotStep
  <2>2. snap' \in Bodies'
    BY DEF Bodies
  <2>3. Empty.refs = NoRefs
    BY DEF Empty, NoRefs
  <2> QED
    BY <1>0, <1>1, <1>2, <2>1, <2>2, <2>3
<1>3. ASSUME NEW q \in Pod, Same(q) PROVE P(q)' /\ refs'[q] = refs[q]
  <2>1. Touched(q)' = Touched(q)
    BY <1>3, SameMakes DEF Same
  <2> QED
    BY <1>0, <1>3, <2>1 DEF Same
<1>4. ASSUME NEW p \in Pod, Moves(p)
      PROVE  P(p)' /\ (refs'[p] = refs[p] \/ (refs'[p] = cell[p].refs /\ snap' = snap))
  <2>1. CASE Start(p) \/ ClaimRepo(p) \/ Release(p) \/ CasRefused(p) \/ Stop(p)
    BY <2>1, StartIs, ClaimIs, ReleaseIs, EndsIs
  <2>2. CASE RotateLoad(p) \/ Load(p)
    BY <1>0, <2>2, RotateLoadIs, LoadIs
  <2>3. CASE Rotate(p)
    <3>1. cell'[p].seq # 0
      BY <1>0, <2>3, RotateIs, RotationFields
    <3> QED
      BY <2>3, <3>1, RotateIs
  <2>4. CASE Restore(p)
    BY <1>0, <2>4, RestoreIs
  <2>5. CASE NothingAccepted(p) \/ Renew(p) \/ CasAmbiguous(p)
    BY <1>0, <2>5, NothingAcceptedIs, RenewIs, CasAmbiguousIs
  <2>6. ASSUME NEW u \in Push, Judge(p, u) PROVE P(p)' /\ refs'[p] = refs[p]
    BY <1>0, <2>6, JudgeIs
  <2>7. ASSUME NEW k \in Pack, Upload(p, k) PROVE P(p)' /\ refs'[p] = refs[p]
    BY <1>0, <2>7, UploadIs
  <2>8. CASE CasOk(p) \/ Reload(p)
    <3>1. /\ cell'[p] = Publication(p).body /\ at'[p] = "landed" /\ at[p] \in {"commit", "reload"}
          /\ batch'[p] = batch[p] /\ refs'[p] = refs[p]
      BY <2>8, CasOkIs, ReloadIs, OwnAdopted
    <3>2. refs[p] = cell[p].refs
      BY <1>0, <3>1
    <3>3. cell'[p].refs = Moved(p) /\ Touched(p)' = Touched(p)
      BY <3>1, PublicationFields DEF Touched
    <3>4. \A r \in Ref : Moved(p)[r] = IF r \in Touched(p) THEN batch[p].eff[r] ELSE refs[p][r]
      BY <3>2 DEF Moved
    <3> QED
      BY <3>1, <3>3, <3>4
  <2>9. CASE UpdateRefs(p)
    <3>1. /\ at[p] = "landed" /\ at'[p] = "report" /\ cell'[p] = cell[p] /\ snap' = snap
          /\ refs'[p] = [r \in Ref |-> IF r \in Touched(p) THEN batch[p].eff[r] ELSE refs[p][r]]
      BY <2>9, UpdateRefsIs
    <3>2. cell[p].refs \in [Ref -> Oid]
      BY <1>0 DEF Snapshot
    <3>3. \A r \in Ref : cell[p].refs[r] = refs'[p][r]
      BY <1>0, <3>1
    <3>4. refs'[p] = cell[p].refs
      BY <3>1, <3>2, <3>3
    <3> QED
      BY <3>1, <3>4
  <2>10. CASE Report(p)
    BY <1>0, <2>10, ReportIs
  <2>11. CASE Fenced(p)
    <3>1. /\ at'[p] = at[p] /\ cell'[p] = cell[p] /\ batch'[p] = batch[p] /\ refs'[p] = refs[p]
      BY <2>11, FencedIs
    <3>2. Touched(p)' = Touched(p)
      BY <3>1, SameMakes
    <3> QED
      BY <1>0, <3>1, <3>2
  <2> HIDE DEF P
  <2> QED
    BY <1>4, <2>1, <2>2, <2>3, <2>4, <2>5, <2>6, <2>7, <2>8, <2>9, <2>10, <2>11 DEF Moves
<1> HIDE DEF P
<1>5. ASSUME NEW q \in Pod
      PROVE  P(q)' /\ (refs'[q] = refs[q] \/ (refs'[q] = cell[q].refs /\ snap' = snap))
  BY <1>3, <1>4, OneMoves DEF Others
<1>6. ASSUME snap'.seq = 0, NEW q \in Pod PROVE refs'[q] = NoRefs
  <2>1. snap' = snap /\ snap.seq = 0
    BY <1>0, <1>6, SnapGrows
  <2>2. refs[q] = NoRefs /\ cell[q].refs = NoRefs
    BY <1>0, <2>1
  <2> QED
    BY <1>5, <2>2
<1> QED
  BY <1>1, <1>2, <1>5, <1>6 DEF P, LocalOK

(***************************************************************************)
(* Verdicts.                                                               *)
(***************************************************************************)
\* A push is acknowledged by the report of the batch that accepted it.
LEMMA NewlyAcked ==
  ASSUME RepoTypeOK, RepoNext, NEW u \in Push, told'[u] = "ok"
  PROVE  told[u] = "ok" \/ \E p \in Pod : Report(p) /\ u \in Range1(batch[p].acc)
<1>0. told \in [Push -> {"nothing", "waiting", "ok", "ng"}]
  BY DEF RepoTypeOK
<1>1. ASSUME told' = told PROVE told[u] = "ok"
  BY <1>1
<1>2. ASSUME NEW S, Tell(S, "ng") PROVE told[u] = "ok"
  BY <1>2 DEF Tell
<1>3. ASSUME NEW p \in Pod, NothingAccepted(p) \/ Release(p) \/ CasRefused(p) \/ Stop(p)
      PROVE  told[u] = "ok"
  BY <1>2, <1>3, NothingAcceptedIs, ReleaseIs, EndsIs
<1>4. ASSUME NEW p \in Pod, Report(p) PROVE told[u] = "ok" \/ u \in Range1(batch[p].acc)
  BY <1>4, ReportIs
<1>5. ASSUME NEW p \in Pod, NEW v \in Push, Arrive(p, v) PROVE told[u] = "ok"
  BY <1>0, <1>5, ArriveIs
<1>6. ASSUME NEW p \in Pod,
             \/ Start(p) \/ ClaimRepo(p) \/ ClaimRepoUnheard(p) \/ RotateLoad(p) \/ Rotate(p)
             \/ Load(p) \/ Restore(p)
      PROVE  told' = told
  BY <1>6, StartIs, ClaimIs, UnheardIs, RotateLoadIs, RotateIs, LoadIs, RestoreIs
<1>7. ASSUME NEW p \in Pod,
             \/ Renew(p) \/ CasOk(p) \/ CasAmbiguous(p) \/ Reload(p) \/ UpdateRefs(p)
             \/ Fenced(p)
      PROVE  told' = told
  BY <1>7, RenewIs, CasOkIs, CasAmbiguousIs, ReloadIs, UpdateRefsIs, FencedIs
<1>8. ASSUME NEW p \in Pod, (\E v \in Push : Judge(p, v)) \/ \E k \in Pack : Upload(p, k)
      PROVE  told' = told
  BY <1>8, JudgeIs, UploadIs
<1>9. ASSUME LateRelease \/ \E w \in wire : WireArrives(w) PROVE told' = told
  BY <1>9, LateReleaseIs, WireArrivesIs
<1> QED
  BY <1>1, <1>3, <1>4, <1>5, <1>6, <1>7, <1>8, <1>9 DEF RepoNext

LEMMA AckStep ==
  ASSUME RepoTypeOK, EpochsOK, PlaceOK, SeqOK, GoodOK, BatchOK, OwnOK, AckOK, RepoNext
  PROVE  AckOK'
<1>0. told \in [Push -> {"nothing", "waiting", "ok", "ng"}]
  BY DEF RepoTypeOK
<1>1. Range1(snap.hist) \subseteq Range1(snap'.hist)
  <2>1. snap.hist \in Seq(Push) /\ snap'.hist \in Seq(Push)
    BY LoopTypeStep DEF LoopTypeOK, RepoTypeOK, Snapshot
  <2> QED
    BY <2>1, SnapGrows, ExtendsContains
<1>2. ASSUME NEW q \in Pod, at'[q] = at[q], batch'[q] = batch[q], at'[q] \in {"landed", "report"}
      PROVE  Range1(batch'[q].acc) \subseteq Range1(snap'.hist)
  BY <1>1, <1>2 DEF AckOK
<1>3. ASSUME NEW p \in Pod, Moves(p), at'[p] \in {"landed", "report"}
      PROVE  Range1(batch'[p].acc) \subseteq Range1(snap'.hist)
  <2>1. CASE \/ Start(p) \/ ClaimRepo(p) \/ RotateLoad(p) \/ Rotate(p) \/ Load(p) \/ Restore(p)
             \/ NothingAccepted(p)
    BY <1>3, <2>1, StartIs, ClaimIs, RotateLoadIs, RotateIs, LoadIs, RestoreIs, NothingAcceptedIs
  <2>2. CASE \/ Renew(p) \/ CasAmbiguous(p) \/ Report(p) \/ Release(p) \/ CasRefused(p) \/ Stop(p)
             \/ (\E u \in Push : Judge(p, u)) \/ \E k \in Pack : Upload(p, k)
    BY <1>3, <2>2, RenewIs, CasAmbiguousIs, ReportIs, ReleaseIs, EndsIs, JudgeIs, UploadIs
  <2>3. CASE UpdateRefs(p)
    BY <1>1, <2>3, UpdateRefsIs DEF AckOK
  <2>4. CASE Fenced(p)
    BY <1>2, <1>3, <2>4, FencedIs
  <2>5. CASE CasOk(p) \/ Reload(p)
    <3>1. snap' = Publication(p).body /\ batch'[p] = batch[p]
      BY <2>5, CasOkIs, ReloadIs, OwnAdopted
    <3>2. snap'.hist = cell[p].hist \o batch[p].acc
      BY <3>1, PublicationFields DEF Wide
    <3>3. cell[p].hist \in Seq(Push) /\ batch[p].acc \in Seq(Push)
      BY Shapes DEF Snapshot, Batch
    <3> QED
      BY <3>1, <3>2, <3>3, RangeOfConcat
  <2> QED
    BY <1>3, <2>1, <2>2, <2>3, <2>4, <2>5 DEF Moves
<1>4. ASSUME NEW q \in Pod, at'[q] \in {"landed", "report"}
      PROVE  Range1(batch'[q].acc) \subseteq Range1(snap'.hist)
  BY <1>2, <1>3, <1>4, OneMoves DEF Others, Same
<1>5. ASSUME NEW u \in Push, told'[u] = "ok"
      PROVE  told[u] = "ok" \/ \E p \in Pod : Report(p) /\ u \in Range1(batch[p].acc)
  BY <1>5, NewlyAcked
<1>6. ASSUME NEW u \in Push, told'[u] = "ok" PROVE u \in Range1(snap'.hist)
  <2>1. CASE told[u] = "ok"
    BY <1>1, <2>1 DEF AckOK, AckedIsDurable
  <2>2. ASSUME NEW p \in Pod, Report(p), u \in Range1(batch[p].acc) PROVE u \in Range1(snap'.hist)
    BY <1>1, <2>2, ReportIs DEF AckOK
  <2> QED
    BY <1>5, <1>6, <2>1, <2>2
<1> QED
  BY <1>4, <1>6 DEF AckOK, AckedIsDurable

(***************************************************************************)
(* The content does not change under the holder.                           *)
(***************************************************************************)
LEMMA OneCurrent ==
  ASSUME NEW p \in Pod, NEW q \in Pod, Current(p), Current(q)
  PROVE  p = q
  BY DEF Current

\* The lease of a pod is the same, and so is whether it is current.
LEMMA SameCurrent ==
  ASSUME NEW q \in Pod, held'[q] = held[q], UNCHANGED <<epoch, holder, released>>
  PROVE  Current(q)' <=> Current(q)
  BY DEF Current

\* The holder that loses its epoch leaves no calm behind.
LEMMA LostIsNotCalm ==
  ASSUME EpochsOK, NEW p \in Pod, Current(p), Others(p), held'[p] = 0,
         UNCHANGED <<epoch, holder, released, leaving>>
  PROVE  ~ Calm'
<1>1. epoch # 0 /\ epoch > 0 /\ held[p] = epoch /\ holder = p /\ ~ released
  BY DEF Current
<1>2. epoch \notin leaving
  BY <1>1 DEF EpochsOK
<1>3. ASSUME NEW q \in Pod, Current(q)' PROVE FALSE
  <2>1. CASE q = p
    BY <1>1, <1>3, <2>1 DEF Current
  <2>2. CASE q # p
    BY <1>1, <1>3, <2>2 DEF Current
  <2> QED
    BY <2>1, <2>2
<1> QED
  BY <1>1, <1>2, <1>3 DEF Calm, Settled

\* Nothing that is not a claim makes calm.
LEMMA CalmBefore ==
  ASSUME NEW p \in Pod, Others(p), UNCHANGED <<epoch, holder, released, leaving>>,
         Settled(p)' => Settled(p), Calm'
  PROVE  Calm
<1>1. ASSUME NEW q \in Pod, Settled(q)' PROVE Settled(q)
  <2>1. CASE q = p
    BY <1>1, <2>1
  <2>2. CASE q # p
    BY <1>1, <2>2, SameCurrent DEF Others, Same, Settled
  <2> QED
    BY <2>1, <2>2
<1> QED
  BY <1>1 DEF Calm

\* A step of p that leaves the lease and the bucket alone.
LEMMA CalmQuiet ==
  ASSUME CalmOK, NEW p \in Pod, Others(p),
         UNCHANGED <<epoch, holder, released, leaving, snap, wire>>,
         Settled(p)' => Settled(p),
         at'[p] \in {"commit", "reload"} /\ cell'[p] = snap => Current(p)',
         at[p] = "reload" => cell[p] # snap,
         Publication(p).match = cell[p]
  PROVE  CalmOK'
<1> SUFFICES ASSUME Calm' PROVE CalmOK'
  BY DEF CalmOK
<1>1. Calm
  BY CalmBefore
<1>2. \A q \in Pod \ {p} : (Current(q)' <=> Current(q)) /\ Same(q)
  BY SameCurrent DEF Others, Same
<1>3. ASSUME NEW q \in Pod, at'[q] \in {"commit", "reload"}, cell'[q] = snap' PROVE Current(q)'
  <2>1. CASE q = p
    BY <1>3, <2>1
  <2>2. CASE q # p
    BY <1>1, <1>2, <1>3, <2>2 DEF CalmOK, Same
  <2> QED
    BY <2>1, <2>2
<1>4. ASSUME NEW w \in wire', w.match = snap', ~ SameContent(w.match, w.body)
      PROVE  \E q \in Pod : Current(q)' /\ at'[q] = "reload" /\ w = Publication(q)'
  <2>1. PICK q \in Pod : Current(q) /\ at[q] = "reload" /\ w = Publication(q)
    BY <1>1, <1>4 DEF CalmOK
  <2>2. q # p
    BY <1>4, <2>1
  <2>3. Publication(q)' = Publication(q)
    BY <1>2, <2>2, SameMakes DEF Same
  <2> QED
    BY <1>2, <2>1, <2>2, <2>3 DEF Same
<1> QED
  BY <1>3, <1>4 DEF CalmOK

\* A step by which a snapshot lands: nobody has seen the new one yet.
LEMMA CalmLanding ==
  ASSUME RepoTypeOK, EpochsOK, PlaceOK, SeqOK, GoodOK, BatchOK, RepoNext,
         snap'.seq = snap.seq + 1,
         \A q \in Pod : cell'[q] = cell[q] \/ at'[q] \notin {"commit", "reload"}
  PROVE  CalmOK'
<1>0. snap.seq \in Nat /\ snap'.seq # snap.seq /\ snap'.seq > snap.seq
  BY DEF RepoTypeOK, Snapshot
<1>1. ASSUME NEW q \in Pod, at'[q] \in {"commit", "reload"}, cell'[q] = snap' PROVE FALSE
  <2>1. cell[q] = snap' /\ cell[q].seq <= snap.seq /\ cell[q].seq \in Nat
    BY <1>1, Shapes DEF SeqOK, Snapshot
  <2> QED
    BY <1>0, <2>1
<1>2. ASSUME NEW w \in wire', w.match = snap' PROVE FALSE
  <2>1. w.match.seq <= snap.seq
    BY PutsAre, SnapshotStep
  <2> QED
    BY <1>0, <1>2, <2>1
<1> QED
  BY <1>1, <1>2 DEF CalmOK

LEMMA CalmStep ==
  ASSUME RepoTypeOK, EpochsOK, PlaceOK, SeqOK, GoodOK, BatchOK, CalmOK, RepoNext
  PROVE  CalmOK'
<1>0. /\ epoch \in Nat /\ snap.seq \in Nat
      /\ \A q \in Pod : held[q] \in Nat /\ cell[q].seq \in Nat /\ cell[q].seq <= snap.seq
      /\ \A q \in Pod : Publication(q).match = cell[q]
  BY Shapes, PublicationFields DEF RepoTypeOK, EpochTypeOK, Snapshot, SeqOK
<1>1. ASSUME NEW w \in wire, WireArrives(w) PROVE CalmOK'
  <2>1. CASE snap' = snap
    <3>1. wire' \subseteq wire /\ UNCHANGED <<epoch, holder, released, leaving>>
      BY <1>1, WireArrivesIs
    <3>2. \A q \in Pod : Same(q) /\ (Current(q)' <=> Current(q)) /\ Publication(q)' = Publication(q)
      BY <1>1, <3>1, WireArrivesIs, SameCurrent, SameMakes DEF Same
    <3>3. Calm' <=> Calm
      BY <3>1, <3>2 DEF Calm, Settled, Same
    <3> QED
      BY <2>1, <3>1, <3>2, <3>3 DEF CalmOK, Same
  <2>2. CASE w.match = snap /\ snap' = w.body
    <3>1. snap'.seq = snap.seq + 1
      BY <2>2 DEF SeqOK
    <3> QED
      BY <1>1, <3>1, CalmLanding, WireArrivesIs DEF Same
  <2> QED
    BY <1>1, <2>1, <2>2, WireArrivesIs
<1>2. ASSUME LateRelease PROVE CalmOK'
  <2>1. /\ leaving' \subseteq leaving /\ UNCHANGED <<epoch, holder, snap, wire>>
        /\ (epoch \in leaving /\ released') \/ released' = released
    BY <1>2, LateReleaseIs
  <2>2. \A q \in Pod : Same(q) /\ Publication(q)' = Publication(q)
    BY <1>2, LateReleaseIs, SameMakes DEF Same
  <2>3. CASE released' = released
    <3>1. \A q \in Pod : Current(q)' <=> Current(q)
      BY <2>1, <2>2, <2>3, SameCurrent DEF Same
    <3>2. Calm' => Calm
      BY <2>1, <2>2, <2>3, <3>1 DEF Calm, Settled, Same
    <3> QED
      BY <2>1, <2>2, <3>1, <3>2 DEF CalmOK, Same
  <2>4. CASE epoch \in leaving /\ released'
    <3>1. Calm
      BY <2>4 DEF Calm
    <3>2. ASSUME NEW q \in Pod, Current(q) PROVE FALSE
      BY <2>4, <3>2 DEF Current, EpochsOK
    <3> QED
      BY <2>1, <2>2, <3>1, <3>2 DEF CalmOK, Same
  <2> QED
    BY <2>1, <2>3, <2>4
<1>3. ASSUME NEW p \in Pod, ClaimRepo(p) PROVE CalmOK'
  <2>1. /\ Others(p) /\ epoch' = epoch + 1 /\ holder' = p /\ ~ released'
        /\ at'[p] = IF epoch # 0 /\ ~ released THEN "rotate" ELSE "load"
        /\ UNCHANGED <<leaving, snap, wire>>
    BY <1>3, ClaimIs
  <2>2. epoch' # 0 /\ epoch' \notin leaving
    BY <1>0, <2>1 DEF EpochsOK, RepoTypeOK, EpochTypeOK
  <2>3. ASSUME NEW q \in Pod, Settled(q)' PROVE q = p
    <3>1. held'[q] = epoch + 1 /\ held[q] <= epoch
      BY <2>1, <2>3 DEF Settled, Current, EpochsOK
    <3>2. q # p => held'[q] = held[q]
      BY <2>1 DEF Others, Same
    <3> QED
      BY <1>0, <3>1, <3>2
  <2>4. Calm' => at'[p] = "load"
    BY <2>1, <2>2, <2>3 DEF Calm, Settled, Serving
  <2>5. CASE at'[p] = "load"
    <3>1. epoch = 0 \/ released
      BY <2>1, <2>5
    <3>2. \A q \in Pod : ~ Current(q)
      BY <3>1 DEF Current
    <3>3. Calm
      BY <3>1 DEF Calm
    <3> QED
      BY <2>1, <2>5, <3>2, <3>3 DEF CalmOK, Others, Same
  <2> QED
    BY <2>4, <2>5 DEF CalmOK
<1>4. ASSUME NEW p \in Pod, ClaimRepoUnheard(p) PROVE CalmOK'
  <2>1. /\ \A q \in Pod : Same(q)
        /\ epoch' = epoch + 1 /\ ~ released' /\ leaving' = leaving
    BY <1>4, UnheardIs
  <2>2. epoch' # 0 /\ epoch' \notin leaving
    BY <1>0, <2>1 DEF EpochsOK, RepoTypeOK, EpochTypeOK
  <2>3. ASSUME NEW q \in Pod, Settled(q)' PROVE FALSE
    <3>1. held'[q] = epoch + 1 /\ held[q] <= epoch /\ held'[q] = held[q]
      BY <2>1, <2>3 DEF Settled, Current, EpochsOK, Same
    <3> QED
      BY <1>0, <3>1
  <2> QED
    BY <2>1, <2>2, <2>3 DEF CalmOK, Calm
<1>5. ASSUME NEW p \in Pod, Start(p) \/ RotateLoad(p) \/ Load(p) \/ Restore(p) PROVE CalmOK'
  <2>1. /\ Others(p) /\ UNCHANGED <<epoch, holder, released, leaving, snap, wire>>
        /\ at'[p] \notin {"commit", "reload"} /\ at[p] # "reload" /\ held'[p] = held[p]
        /\ at'[p] \in {"claim", "rotating"} \/ at[p] \in {"load", "restore"}
    BY <1>5, StartIs, RotateLoadIs, LoadIs, RestoreIs
  <2>2. Settled(p)' => Settled(p)
    BY <2>1, SameCurrent DEF Settled, Serving
  <2> QED
    BY <1>0, <2>1, <2>2, CalmQuiet
<1>6. ASSUME NEW p \in Pod, NothingAccepted(p) \/ UpdateRefs(p) \/ Report(p) PROVE CalmOK'
  <2>1. /\ Others(p) /\ UNCHANGED <<epoch, holder, released, leaving, snap, wire>>
        /\ at'[p] \notin {"commit", "reload"} /\ at[p] # "reload" /\ held'[p] = held[p]
        /\ at[p] \in Serving
    BY <1>6, NothingAcceptedIs, UpdateRefsIs, ReportIs DEF Serving
  <2>2. Settled(p)' => Settled(p)
    BY <2>1, SameCurrent DEF Settled
  <2> QED
    BY <1>0, <2>1, <2>2, CalmQuiet
<1>7. ASSUME NEW p \in Pod, NEW u \in Push, Judge(p, u) PROVE CalmOK'
  <2>1. /\ Others(p) /\ UNCHANGED <<epoch, holder, released, leaving, snap, wire>>
        /\ at'[p] = "judge" /\ at[p] # "reload" /\ held'[p] = held[p] /\ at[p] \in Serving
    BY <1>7, JudgeIs DEF Serving
  <2>2. Settled(p)' => Settled(p)
    BY <2>1, SameCurrent DEF Settled
  <2> QED
    BY <1>0, <2>1, <2>2, CalmQuiet
<1>8. ASSUME NEW p \in Pod, Renew(p) PROVE CalmOK'
  <2>1. /\ Others(p) /\ UNCHANGED <<epoch, holder, released, leaving, snap, wire>>
        /\ at'[p] = "commit" /\ at[p] # "reload" /\ held'[p] = held[p] /\ at[p] \in Serving
        /\ Current(p)
    BY <1>8, RenewIs DEF Serving
  <2>2. (Settled(p)' => Settled(p)) /\ Current(p)'
    BY <2>1, SameCurrent DEF Settled
  <2> QED
    BY <1>0, <2>1, <2>2, CalmQuiet
<1>9. ASSUME NEW p \in Pod, NEW k \in Pack, Upload(p, k) PROVE CalmOK'
  <2>1. /\ Others(p) /\ UNCHANGED <<epoch, holder, released, leaving, snap, wire>>
        /\ at'[p] = "commit" /\ at[p] = "commit" /\ held'[p] = held[p] /\ at[p] \in Serving
        /\ cell'[p] = cell[p]
    BY <1>9, UploadIs DEF Serving
  <2>2. (Settled(p)' => Settled(p)) /\ (Current(p)' <=> Current(p))
    BY <2>1, SameCurrent DEF Settled
  <2>3. CASE Calm
    <3>1. cell'[p] = snap => Current(p)'
      BY <2>1, <2>2, <2>3 DEF CalmOK
    <3> QED
      BY <1>0, <2>1, <2>2, <3>1, CalmQuiet
  <2>4. CASE ~ Calm
    BY <2>1, <2>2, <2>4, CalmBefore DEF CalmOK
  <2> QED
    BY <2>3, <2>4
<1>10. ASSUME NEW p \in Pod, Reload(p) PROVE CalmOK'
  <2>1. /\ Others(p) /\ UNCHANGED <<epoch, holder, released, leaving, snap, wire>>
        /\ at'[p] = "landed" /\ held'[p] = held[p] /\ at[p] \in Serving
        /\ snap.seq = cell[p].seq + 1
    BY <1>10, ReloadIs DEF Serving, Adopts
  <2>2. Settled(p)' => Settled(p)
    BY <2>1, SameCurrent DEF Settled
  <2>3. cell[p] # snap
    BY <1>0, <2>1
  <2> QED
    BY <1>0, <2>1, <2>2, <2>3, CalmQuiet
<1>11. ASSUME NEW p \in Pod, Rotate(p) PROVE CalmOK'
  <2>1. Others(p) /\ at'[p] = "restore" /\ snap'.seq = snap.seq + 1
    BY <1>11, RotateIs, RotationFields
  <2> QED
    BY <2>1, CalmLanding DEF Others, Same
<1>12. ASSUME NEW p \in Pod, CasOk(p) PROVE CalmOK'
  <2>1. Others(p) /\ at'[p] = "landed" /\ snap'.seq = snap.seq + 1
    BY <1>12, CasOkIs, PublicationFields
  <2> QED
    BY <2>1, CalmLanding DEF Others, Same
<1>13. ASSUME NEW p \in Pod, CasAmbiguous(p) PROVE CalmOK'
  <2>1. /\ Others(p) /\ at[p] = "commit" /\ at'[p] = "reload" /\ held'[p] = held[p]
        /\ cell'[p] = cell[p] /\ batch'[p] = batch[p]
        /\ UNCHANGED <<epoch, holder, released, leaving>>
    BY <1>13, CasAmbiguousIs
  <2>2. CASE snap = cell[p] /\ snap' = Publication(p).body
    <3>1. snap'.seq = snap.seq + 1
      BY <2>2, PublicationFields
    <3> QED
      BY <2>1, <3>1, CalmLanding DEF Others, Same
  <2>3. CASE snap' = snap /\ wire' = wire \cup {Publication(p)}
    <3> SUFFICES ASSUME Calm' PROVE CalmOK'
      BY DEF CalmOK
    <3>1. \A q \in Pod : /\ Current(q)' <=> Current(q)
                         /\ (cell'[q] = cell[q] /\ at'[q] = at[q]) \/ q = p
      BY <2>1, SameCurrent DEF Others, Same
    <3>2. Settled(p)' => Settled(p)
      BY <2>1, <3>1 DEF Settled, Serving
    <3>3. Calm
      BY <2>1, <3>2, CalmBefore
    <3>4. Publication(p)' = Publication(p)
      BY <2>1 DEF Publication, Moved, Touched
    <3>5. \A q \in Pod : Publication(q)' = Publication(q)
      BY <2>1, <3>4, SameMakes DEF Others, Same
    <3>6. ASSUME NEW q \in Pod, at'[q] \in {"commit", "reload"}, cell'[q] = snap' PROVE Current(q)'
      <4>1. at[q] \in {"commit", "reload"} /\ cell[q] = snap
        BY <2>1, <2>3, <3>1, <3>6
      <4> QED
        BY <3>1, <3>3, <4>1 DEF CalmOK
    <3>7. ASSUME NEW w \in wire', w.match = snap', ~ SameContent(w.match, w.body)
          PROVE  \E q \in Pod : Current(q)' /\ at'[q] = "reload" /\ w = Publication(q)'
      <4>1. CASE w \in wire
        <5>1. PICK q \in Pod : Current(q) /\ at[q] = "reload" /\ w = Publication(q)
          BY <2>3, <3>3, <3>7, <4>1 DEF CalmOK
        <5> QED
          BY <2>1, <3>1, <3>5, <5>1
      <4>2. CASE w = Publication(p)
        <5>1. cell[p] = snap /\ at[p] = "commit"
          BY <1>0, <2>1, <2>3, <3>7, <4>2
        <5>2. Current(p)
          BY <3>3, <5>1 DEF CalmOK
        <5> QED
          BY <2>1, <3>1, <3>5, <4>2, <5>2
      <4> QED
        BY <2>3, <4>1, <4>2
    <3> QED
      BY <3>6, <3>7 DEF CalmOK
  <2> QED
    BY <1>13, <2>2, <2>3, CasAmbiguousIs
<1>14. ASSUME NEW p \in Pod, Fenced(p) PROVE CalmOK'
  <2>1. /\ Others(p) /\ held'[p] = 0 /\ at'[p] = at[p] /\ cell'[p] = cell[p] /\ batch'[p] = batch[p]
        /\ UNCHANGED <<epoch, holder, released, leaving, snap, wire>>
    BY <1>14, FencedIs
  <2> SUFFICES ASSUME Calm' PROVE CalmOK'
    BY DEF CalmOK
  <2>2. ~ Current(p)
    BY <2>1, LostIsNotCalm
  <2>3. ~ Settled(p)'
    BY <1>0, <2>1 DEF Settled, Current
  <2>4. Calm
    BY <2>1, <2>3, CalmBefore
  <2>5. \A q \in Pod : /\ Current(q) => Current(q)'
                       /\ at'[q] = at[q] /\ cell'[q] = cell[q] /\ Publication(q)' = Publication(q)
    BY <2>1, <2>2, SameCurrent, SameMakes DEF Others, Same
  <2> QED
    BY <2>1, <2>4, <2>5 DEF CalmOK
<1>15. ASSUME NEW p \in Pod, Release(p) PROVE CalmOK'
  <2>1. /\ Others(p) /\ at[p] = "idle" /\ at'[p] = "down" /\ held[p] # 0 /\ held'[p] = 0
        /\ UNCHANGED <<epoch, holder, snap, wire>>
        /\ \/ Current(p) /\ released' /\ leaving' = leaving
           \/ released' = released /\ leaving' = leaving \cup {held[p]}
    BY <1>15, ReleaseIs
  <2> SUFFICES ASSUME Calm' PROVE CalmOK'
    BY DEF CalmOK
  <2>2. CASE held[p] = epoch
    <3>1. holder = p
      BY <2>1, <2>2 DEF EpochsOK
    <3>2. Calm
      <4>1. CASE released
        BY <4>1 DEF Calm
      <4>2. CASE ~ released
        <5>1. Current(p)
          BY <1>0, <2>1, <2>2, <3>1, <4>2 DEF Current
        <5> QED
          BY <2>1, <5>1 DEF Calm, Settled, Serving
      <4> QED
        BY <4>1, <4>2
    <3>3. ASSUME NEW q \in Pod, Current(q), at[q] \in {"commit", "reload"} PROVE FALSE
      BY <2>1, <3>1, <3>3 DEF Current
    <3>4. \A q \in Pod : at'[q] \in {"commit", "reload"} => at[q] = at'[q] /\ cell'[q] = cell[q]
      BY <2>1 DEF Others, Same
    <3> QED
      BY <2>1, <3>2, <3>3, <3>4 DEF CalmOK
  <2>3. CASE held[p] # epoch
    <3>1. released' = released /\ leaving' = leaving \cup {held[p]}
      BY <2>1, <2>3 DEF Current
    <3>2. ASSUME NEW q \in Pod, Settled(q)' PROVE Settled(q)
      <4>1. CASE q = p
        BY <1>0, <2>1, <3>2, <4>1 DEF Settled, Current
      <4>2. CASE q # p
        BY <2>1, <3>1, <3>2, <4>2, SameCurrent DEF Others, Same, Settled
      <4> QED
        BY <4>1, <4>2
    <3>3. Calm
      BY <2>1, <2>3, <3>1, <3>2 DEF Calm
    <3>4. \A q \in Pod : q # p => /\ Current(q)' <=> Current(q)
                                  /\ at'[q] = at[q] /\ cell'[q] = cell[q]
                                  /\ Publication(q)' = Publication(q)
      BY <2>1, <3>1, SameCurrent, SameMakes DEF Others, Same
    <3> QED
      BY <2>1, <3>3, <3>4 DEF CalmOK
  <2> QED
    BY <2>2, <2>3
<1>16. ASSUME NEW p \in Pod, CasRefused(p) \/ Stop(p) PROVE CalmOK'
  <2>1. /\ Others(p) /\ at'[p] = "down" /\ held'[p] = 0
        /\ UNCHANGED <<epoch, holder, released, leaving>>
    BY <1>16, EndsIs
  <2>2. CASE wire' = wire /\ \E w \in InFlight(p) : w.match = snap /\ snap' = w.body
    <3>1. snap'.seq = snap.seq + 1
      BY <1>0, <2>2, RotationFields, PublicationFields DEF InFlight
    <3> QED
      BY <2>1, <3>1, CalmLanding DEF Others, Same
  <2>3. CASE snap' = snap /\ wire' \in {wire, wire \cup InFlight(p)}
    <3> SUFFICES ASSUME Calm' PROVE CalmOK'
      BY DEF CalmOK
    <3>1. ~ Current(p)
      BY <2>1, LostIsNotCalm
    <3>2. ~ Settled(p)'
      BY <1>0, <2>1 DEF Settled, Current
    <3>3. Calm
      BY <2>1, <3>2, CalmBefore
    <3>4. \A q \in Pod : q # p => /\ Current(q)' <=> Current(q)
                                  /\ at'[q] = at[q] /\ cell'[q] = cell[q]
                                  /\ Publication(q)' = Publication(q)
      BY <2>1, SameCurrent, SameMakes DEF Others, Same
    <3>5. ASSUME NEW q \in Pod, at'[q] \in {"commit", "reload"}, cell'[q] = snap' PROVE Current(q)'
      <4>1. q # p
        BY <2>1, <3>5
      <4> QED
        BY <2>3, <3>3, <3>4, <3>5, <4>1 DEF CalmOK
    <3>6. ASSUME NEW w \in wire', w.match = snap', ~ SameContent(w.match, w.body)
          PROVE  \E q \in Pod : Current(q)' /\ at'[q] = "reload" /\ w = Publication(q)'
      <4>1. CASE w \in wire
        <5>1. PICK q \in Pod : Current(q) /\ at[q] = "reload" /\ w = Publication(q)
          BY <2>3, <3>3, <3>6, <4>1 DEF CalmOK
        <5> QED
          BY <3>1, <3>4, <5>1
      <4>2. CASE at[p] = "rotating" /\ w = Rotation(p)
        BY <3>6, <4>2, RotationFields DEF SameContent
      <4>3. CASE Committing(p) /\ w = Publication(p)
        <5>1. cell[p] = snap /\ at[p] = "commit"
          BY <1>0, <2>3, <3>6, <4>3 DEF Committing
        <5> QED
          BY <3>1, <3>3, <5>1 DEF CalmOK
      <4> QED
        BY <2>3, <4>1, <4>2, <4>3 DEF InFlight
    <3> QED
      BY <3>5, <3>6 DEF CalmOK
  <2> QED
    BY <1>16, <2>2, <2>3, EndsIs
<1>17. ASSUME NEW p \in Pod, NEW u \in Push, Arrive(p, u) PROVE CalmOK'
  <2>1. /\ \A q \in Pod : Same(q)
        /\ UNCHANGED <<epoch, holder, released, leaving, snap, wire>>
    BY <1>17, ArriveIs
  <2>2. \A q \in Pod : (Current(q)' <=> Current(q)) /\ Publication(q)' = Publication(q)
    BY <2>1, SameCurrent, SameMakes DEF Same
  <2>3. Calm' <=> Calm
    BY <2>1, <2>2 DEF Calm, Settled, Same
  <2> QED
    BY <2>1, <2>2, <2>3 DEF CalmOK, Same
<1> QED
  BY <1>1, <1>2, <1>3, <1>4, <1>5, <1>6, <1>7, <1>8, <1>9, <1>10, <1>11, <1>12, <1>13, <1>14,
     <1>15, <1>16, <1>17 DEF RepoNext

LEMMA ContentTrans ==
  ASSUME NEW s, NEW t, NEW v, SameContent(s, t), SameContent(s, v)
  PROVE  SameContent(t, v)
  BY DEF SameContent

Serves(q) == at[q] \in Serving \cup {"restore"}
Knows(q) ==
  \/ SameContent(snap, cell[q])
  \/ at[q] = "reload" /\ SameContent(snap, Publication(q).body)

\* What lands under a server that holds the lease changes nothing for it,
\* unless it is what that server wrote.
LEMMA LandsUnder ==
  ASSUME CalmOK, NEW q \in Pod, Current(q), Serves(q),
         NEW w \in wire, w.match = snap, ~ SameContent(snap, w.body)
  PROVE  at[q] = "reload" /\ w = Publication(q)
<1>1. Calm
  BY DEF Calm, Settled, Serves
<1>2. PICK p \in Pod : Current(p) /\ at[p] = "reload" /\ w = Publication(p)
  BY <1>1 DEF CalmOK
<1>3. p = q
  BY <1>2, OneCurrent
<1> QED
  BY <1>2, <1>3

LEMMA PublishesUnder ==
  ASSUME CalmOK, NEW q \in Pod, Current(q), Serves(q),
         NEW p \in Pod, at[p] = "commit", cell[p] = snap
  PROVE  p = q
<1>1. Calm
  BY DEF Calm, Settled, Serves
<1>2. Current(p)
  BY <1>1 DEF CalmOK
<1> QED
  BY <1>2, OneCurrent

LEMMA HeldStep ==
  ASSUME RepoTypeOK, EpochsOK, CalmOK, HeldOK, RepoNext
  PROVE  HeldOK'
<1>0. \A q \in Pod : Current(q) /\ Serves(q) => Knows(q)
  BY DEF HeldOK, Serves, Knows
<1> SUFFICES ASSUME NEW q \in Pod, Current(q)', Serves(q)' PROVE Knows(q)'
  BY DEF HeldOK, Serves, Knows
<1>a. ASSUME Same(q), snap' = snap, Current(q) PROVE Knows(q)'
  <2>1. Publication(q)' = Publication(q)
    BY <1>a, SameMakes DEF Same
  <2>2. Knows(q)
    BY <1>0, <1>a DEF Same, Serves
  <2> QED
    BY <1>a, <2>1, <2>2 DEF Knows, Same
\* Another pod's step, under which the content stays.
<1>b. ASSUME Same(q), SameContent(snap, snap'), Current(q) PROVE Knows(q)'
  <2>1. Publication(q)' = Publication(q)
    BY <1>b, SameMakes DEF Same
  <2>2. Knows(q)
    BY <1>0, <1>b DEF Same, Serves
  <2> QED
    BY <1>b, <2>1, <2>2, ContentTrans DEF Knows, Same
<1>1. ASSUME NEW w \in wire, WireArrives(w) PROVE Knows(q)'
  <2>1. Same(q) /\ Current(q) /\ Serves(q)
    BY <1>1, WireArrivesIs, SameCurrent DEF Same, Serves
  <2>2. CASE snap' = snap
    BY <1>a, <2>1, <2>2
  <2>3. CASE w.match = snap /\ snap' = w.body /\ SameContent(snap, w.body)
    BY <1>b, <2>1, <2>3
  <2>4. CASE w.match = snap /\ snap' = w.body /\ ~ SameContent(snap, w.body)
    <3>1. at[q] = "reload" /\ w = Publication(q)
      BY <2>1, <2>4, LandsUnder
    <3>2. Publication(q)' = Publication(q)
      BY <2>1, SameMakes DEF Same
    <3>3. SameContent(snap', Publication(q)'.body)
      BY <2>4, <3>1, <3>2 DEF SameContent
    <3> QED
      BY <2>1, <3>1, <3>3 DEF Knows, Same
  <2> QED
    BY <1>1, <2>2, <2>3, <2>4, WireArrivesIs
<1>2. ASSUME LateRelease PROVE Knows(q)'
  <2>1. /\ Same(q) /\ UNCHANGED <<snap, epoch, holder>>
        /\ (epoch \in leaving /\ released') \/ released' = released
    BY <1>2, LateReleaseIs
  <2>2. released' = released
    BY <2>1 DEF Current
  <2>3. Current(q)
    BY <2>1, <2>2, SameCurrent DEF Same
  <2> QED
    BY <1>a, <2>1, <2>3
<1>3. ASSUME NEW p \in Pod, ClaimRepo(p) \/ ClaimRepoUnheard(p) PROVE Knows(q)'
  <2>1. held'[q] = epoch + 1 /\ held[q] <= epoch /\ epoch \in Nat /\ held[q] \in Nat
    BY <1>3, ClaimIs, UnheardIs DEF Current, EpochsOK, RepoTypeOK, EpochTypeOK
  <2>2. q = p /\ ClaimRepo(p)
    BY <1>3, <2>1, ClaimIs, UnheardIs DEF Others, Same
  <2>3. at'[q] \in {"rotate", "load"}
    BY <2>2, ClaimIs
  <2> QED
    BY <2>3 DEF Serves, Serving
<1>4. ASSUME NEW p \in Pod, p # q, Others(p), UNCHANGED <<epoch, holder, released, snap>>
      PROVE  Knows(q)'
  BY <1>4, <1>a, SameCurrent DEF Others, Same
<1>5. ASSUME UNCHANGED <<epoch, holder, released, snap>>, held'[q] = held[q], at[q] # "reload",
             Serves(q), cell'[q] = cell[q]
      PROVE  Knows(q)'
  <2>1. Current(q)
    BY <1>5, SameCurrent
  <2> QED
    BY <1>0, <1>5, <2>1 DEF Knows
<1>6. ASSUME cell'[q] = snap' PROVE Knows(q)'
  BY <1>6 DEF Knows, SameContent
<1>7. ASSUME NEW p \in Pod, Start(p) \/ RotateLoad(p) \/ Load(p) \/ Restore(p) PROVE Knows(q)'
  <2>1. Others(p) /\ UNCHANGED <<epoch, holder, released, snap>>
    BY <1>7, StartIs, RotateLoadIs, LoadIs, RestoreIs
  <2>2. CASE p = q /\ (Start(p) \/ RotateLoad(p))
    <3>1. at'[q] \in {"claim", "rotating"}
      BY <2>2, StartIs, RotateLoadIs
    <3> QED
      BY <3>1 DEF Serves, Serving
  <2>3. CASE p = q /\ Load(p)
    BY <1>6, <2>3, LoadIs
  <2>4. CASE p = q /\ Restore(p)
    <3>1. at[q] = "restore" /\ cell'[q] = cell[q] /\ held'[q] = held[q]
      BY <2>4, RestoreIs
    <3> QED
      BY <1>5, <2>1, <3>1 DEF Serves
  <2> QED
    BY <1>4, <1>7, <2>1, <2>2, <2>3, <2>4
<1>8. ASSUME NEW p \in Pod, NothingAccepted(p) \/ UpdateRefs(p) \/ Report(p) \/ Renew(p)
      PROVE  Knows(q)'
  <2>1. /\ Others(p) /\ UNCHANGED <<epoch, holder, released, snap>>
        /\ at[p] \in Serving /\ at[p] # "reload" /\ cell'[p] = cell[p] /\ held'[p] = held[p]
    BY <1>8, NothingAcceptedIs, UpdateRefsIs, ReportIs, RenewIs DEF Serving
  <2> QED
    BY <1>4, <1>5, <2>1 DEF Serves
<1>9. ASSUME NEW p \in Pod, (\E u \in Push : Judge(p, u)) \/ \E k \in Pack : Upload(p, k)
      PROVE  Knows(q)'
  <2>1. /\ Others(p) /\ UNCHANGED <<epoch, holder, released, snap>>
        /\ at[p] \in Serving /\ at[p] # "reload" /\ cell'[p] = cell[p] /\ held'[p] = held[p]
    BY <1>9, JudgeIs, UploadIs DEF Serving
  <2> QED
    BY <1>4, <1>5, <2>1 DEF Serves
<1>10. ASSUME NEW p \in Pod, Reload(p) PROVE Knows(q)'
  <2>1. /\ Others(p) /\ UNCHANGED <<epoch, holder, released, snap>> /\ cell'[p] = snap'
    BY <1>10, ReloadIs
  <2> QED
    BY <1>4, <1>6, <2>1
<1>11. ASSUME NEW p \in Pod, Rotate(p) PROVE Knows(q)'
  <2>1. /\ Others(p) /\ UNCHANGED <<epoch, holder, released>> /\ cell'[p] = snap'
        /\ snap = cell[p] /\ snap' = Rotation(p).body
    BY <1>11, RotateIs
  <2>2. SameContent(snap, snap')
    BY <2>1, RotationFields DEF SameContent
  <2> QED
    BY <1>b, <1>6, <2>1, <2>2, SameCurrent DEF Others, Same
<1>12. ASSUME NEW p \in Pod, CasOk(p) PROVE Knows(q)'
  <2>1. /\ Others(p) /\ UNCHANGED <<epoch, holder, released>> /\ cell'[p] = snap'
        /\ snap = cell[p] /\ at[p] = "commit"
    BY <1>12, CasOkIs
  <2>2. q # p => Current(q) /\ Serves(q)
    BY <2>1, SameCurrent DEF Others, Same, Serves
  <2>3. q = p
    BY <2>1, <2>2, PublishesUnder
  <2> QED
    BY <1>6, <2>1, <2>3
<1>13. ASSUME NEW p \in Pod, CasAmbiguous(p) PROVE Knows(q)'
  <2>1. /\ Others(p) /\ UNCHANGED <<epoch, holder, released>> /\ cell'[p] = cell[p]
        /\ batch'[p] = batch[p] /\ held'[p] = held[p] /\ at[p] = "commit" /\ at'[p] = "reload"
    BY <1>13, CasAmbiguousIs
  <2>2. Current(q) /\ Serves(q)
    BY <2>1, SameCurrent DEF Others, Same, Serves, Serving
  <2>3. CASE snap' = snap
    <3>1. CASE p = q
      BY <1>5, <2>1, <2>2, <2>3, <3>1
    <3>2. CASE p # q
      BY <1>4, <2>1, <2>3, <3>2
    <3> QED
      BY <3>1, <3>2
  <2>4. CASE snap = cell[p] /\ snap' = Publication(p).body
    <3>1. p = q
      BY <2>1, <2>2, <2>4, PublishesUnder
    <3>2. Publication(p)' = Publication(p)
      BY <2>1 DEF Publication, Moved, Touched
    <3>3. SameContent(snap', Publication(q)'.body)
      BY <2>4, <3>1, <3>2 DEF SameContent
    <3> QED
      BY <2>1, <3>1, <3>3 DEF Knows
  <2> QED
    BY <1>13, <2>3, <2>4, CasAmbiguousIs
<1>14. ASSUME NEW p \in Pod, Fenced(p) \/ Release(p) PROVE Knows(q)'
  <2>1. /\ Others(p) /\ UNCHANGED <<epoch, holder, snap>> /\ held'[p] = 0
        /\ (Current(p) /\ released') \/ released' = released
    BY <1>14, FencedIs, ReleaseIs
  <2>2. q # p
    BY <2>1 DEF Current, RepoTypeOK, EpochTypeOK
  <2>3. released' = released
    BY <2>1 DEF Current
  <2> QED
    BY <1>4, <2>1, <2>2, <2>3
<1>15. ASSUME NEW p \in Pod, CasRefused(p) \/ Stop(p) PROVE Knows(q)'
  <2>1. Others(p) /\ UNCHANGED <<epoch, holder, released>> /\ held'[p] = 0
    BY <1>15, EndsIs
  <2>2. q # p
    BY <2>1 DEF Current, RepoTypeOK, EpochTypeOK
  <2>3. Same(q) /\ Current(q) /\ Serves(q)
    BY <2>1, <2>2, SameCurrent DEF Others, Same, Serves
  <2>4. CASE snap' = snap
    BY <1>a, <2>3, <2>4
  <2>5. ASSUME NEW w \in InFlight(p), w.match = snap, snap' = w.body PROVE Knows(q)'
    <3>1. CASE at[p] = "rotating" /\ w = Rotation(p)
      <4>1. SameContent(snap, snap')
        BY <2>5, <3>1, RotationFields DEF SameContent
      <4> QED
        BY <1>b, <2>3, <4>1
    <3>2. CASE Committing(p) /\ w = Publication(p)
      <4>1. at[p] = "commit" /\ cell[p] = snap
        BY <2>5, <3>2, PublicationFields DEF Committing
      <4> QED
        BY <2>2, <2>3, <4>1, PublishesUnder
    <3> QED
      BY <2>5, <3>1, <3>2 DEF InFlight
  <2> QED
    BY <1>15, <2>4, <2>5, EndsIs
<1>16. ASSUME NEW p \in Pod, NEW u \in Push, Arrive(p, u) PROVE Knows(q)'
  BY <1>a, <1>16, ArriveIs, SameCurrent DEF Same
<1> QED
  BY <1>1, <1>2, <1>3, <1>7, <1>8, <1>9, <1>10, <1>11, <1>12, <1>13, <1>14, <1>15, <1>16
  DEF RepoNext

\* Steps in which nothing is told and nothing moves between the doors.
LEMMA NothingTold ==
  ASSUME WaitOK, queue' = queue, told' = told,
         \A q \in Pod : Members(batch'[q]) = Members(batch[q])
  PROVE  WaitOK'
  BY DEF WaitOK, Waiting

\* p tells those in S, and keeps the rest.
LEMMA TellsOwn ==
  ASSUME WaitOK, told \in [Push -> {"nothing", "waiting", "ok", "ng"}],
         NEW p \in Pod, NEW S \in SUBSET Waiting(p),
         \A q \in Pod \ {p} : queue'[q] = queue[q] /\ Members(batch'[q]) = Members(batch[q]),
         queue'[p] \subseteq queue[p] \ S, Members(batch'[p]) \subseteq Members(batch[p]) \ S,
         \A q \in Pod : Waiting(q) \subseteq Push,
         \A u \in Push \ S : told'[u] = told[u]
  PROVE  WaitOK' /\ \A u \in Push : told[u] = "ok" => told'[u] = "ok"
<1>1. \A q \in Pod : Waiting(q)' \subseteq Waiting(q) \ S
  BY DEF Waiting, WaitOK
<1>2. \A q \in Pod : \A u \in Waiting(q)' : told'[u] = "waiting"
  BY <1>1 DEF WaitOK
<1>3. \A q \in Pod : queue'[q] \cap Members(batch'[q]) = {}
  BY DEF WaitOK
<1>4. \A q, r \in Pod : q # r => Waiting(q)' \cap Waiting(r)' = {}
  BY <1>1 DEF WaitOK
<1>5. \A u \in S : told[u] = "waiting"
  BY DEF WaitOK
<1> QED
  BY <1>2, <1>3, <1>4, <1>5 DEF WaitOK, Waiting

LEMMA WaitingArePushes ==
  ASSUME RepoTypeOK, NEW q \in Pod
  PROVE  Waiting(q) \subseteq Push /\ Members(batch[q]) \subseteq Push
<1>1. queue[q] \subseteq Push /\ batch[q].acc \in Seq(Push) /\ batch[q].ng \subseteq Push
  BY Shapes DEF RepoTypeOK, Batch
<1> QED
  BY <1>1, RangeIsPushes DEF Waiting, Members

\* A push that was acknowledged stays so, and every push waits at one door.
LEMMA WaitStep ==
  ASSUME RepoTypeOK, WaitOK, RepoNext
  PROVE  WaitOK' /\ \A u \in Push : told[u] = "ok" => told'[u] = "ok"
<1> DEFINE K == WaitOK' /\ \A u \in Push : told[u] = "ok" => told'[u] = "ok"
<1>0. /\ told \in [Push -> {"nothing", "waiting", "ok", "ng"}] /\ queue \in [Pod -> SUBSET Push]
      /\ \A q \in Pod : Waiting(q) \subseteq Push /\ Members(batch[q]) \subseteq Push
  BY WaitingArePushes DEF RepoTypeOK
<1>a. ASSUME NEW p \in Pod, Others(p), batch'[p] = batch[p], UNCHANGED <<queue, told>> PROVE K
  BY <1>a, NothingTold DEF Others, Same
<1>b. Members(NoBatch) = {}
  BY DEF Members, NoBatch, Range1
<1>1. ASSUME (\E w \in wire : WireArrives(w)) \/ LateRelease PROVE K
  BY <1>1, WireArrivesIs, LateReleaseIs, NothingTold DEF Same
<1>2. ASSUME NEW p \in Pod, ClaimRepoUnheard(p) PROVE K
  BY <1>2, UnheardIs, NothingTold DEF Same
<1>3. ASSUME NEW p \in Pod,
             Start(p) \/ ClaimRepo(p) \/ RotateLoad(p) \/ Rotate(p) \/ Load(p) \/ Restore(p)
      PROVE  K
  BY <1>a, <1>3, StartIs, ClaimIs, RotateLoadIs, RotateIs, LoadIs, RestoreIs
<1>4. ASSUME NEW p \in Pod, CasOk(p) \/ CasAmbiguous(p) \/ Reload(p) \/ UpdateRefs(p) \/ Fenced(p)
      PROVE  K
  BY <1>a, <1>4, CasOkIs, CasAmbiguousIs, ReloadIs, UpdateRefsIs, FencedIs
<1>5. ASSUME NEW p \in Pod, Renew(p) \/ \E k \in Pack : Upload(p, k) PROVE K
  <2>1. /\ Others(p) /\ UNCHANGED <<queue, told>>
        /\ batch'[p].acc = batch[p].acc /\ batch'[p].ng = batch[p].ng
    BY <1>5, RenewIs, UploadIs
  <2> QED
    BY <2>1, NothingTold DEF Others, Same, Members
<1>6. ASSUME NEW p \in Pod, NEW u \in Push, Arrive(p, u) PROVE K
  <2>1. /\ told[u] \in {"nothing", "ng"} /\ told' = [told EXCEPT ![u] = "waiting"]
        /\ queue' = [queue EXCEPT ![p] = @ \cup {u}]
        /\ \A q \in Pod : batch'[q] = batch[q]
    BY <1>6, ArriveIs DEF Same
  <2>2. \A q \in Pod : u \notin Waiting(q)
    BY <2>1 DEF WaitOK
  <2>3. /\ queue'[p] = queue[p] \cup {u} /\ Waiting(p)' = Waiting(p) \cup {u}
        /\ \A q \in Pod \ {p} : queue'[q] = queue[q] /\ Waiting(q)' = Waiting(q)
    BY <1>0, <2>1 DEF Waiting
  <2>4. told'[u] = "waiting" /\ \A v \in Push \ {u} : told'[v] = told[v]
    BY <1>0, <2>1
  <2>5. \A q \in Pod : \A v \in Waiting(q)' : told'[v] = "waiting"
    BY <1>0, <2>3, <2>4 DEF WaitOK
  <2>6. \A q \in Pod : queue'[q] \cap Members(batch'[q]) = {}
    BY <2>1, <2>2, <2>3 DEF WaitOK, Waiting
  <2>7. \A q, r \in Pod : q # r => Waiting(q)' \cap Waiting(r)' = {}
    BY <2>2, <2>3 DEF WaitOK
  <2> QED
    BY <2>1, <2>4, <2>5, <2>6, <2>7 DEF WaitOK
<1>7. ASSUME NEW p \in Pod, NEW u \in Push, Judge(p, u) PROVE K
  <2>1. /\ Others(p) /\ told' = told /\ u \in queue[p] /\ queue' = [queue EXCEPT ![p] = @ \ {u}]
    BY <1>7, JudgeIs
  <2>2. Members(batch'[p]) \subseteq Members(batch[p]) \cup {u}
    <3>1. Members(Begun(p)) \subseteq Members(batch[p])
      <4>1. CASE at[p] = "idle"
        BY <4>1, BegunIs DEF Members, Range1
      <4>2. CASE at[p] # "idle"
        BY <4>2, BegunIs
      <4> QED
        BY <4>1, <4>2
    <3>2. Begun(p).acc \in Seq(Push)
      BY BegunIs DEF Batch
    <3>3. Range1(Append(Begun(p).acc, u)) = Range1(Begun(p).acc) \cup {u}
      BY <3>2, RangeOfAppend
    <3>4. \/ batch'[p].acc = Append(Begun(p).acc, u) /\ batch'[p].ng = Begun(p).ng
          \/ batch'[p].acc = Begun(p).acc /\ batch'[p].ng = Begun(p).ng \cup {u}
      BY <1>7, JudgeIs
    <3>5. Members(batch'[p]) \subseteq Members(Begun(p)) \cup {u}
      BY <3>3, <3>4 DEF Members
    <3> QED
      BY <3>1, <3>5
  <2>3. /\ queue'[p] = queue[p] \ {u}
        /\ \A q \in Pod \ {p} : queue'[q] = queue[q] /\ Waiting(q)' = Waiting(q)
        /\ \A q \in Pod \ {p} : batch'[q] = batch[q]
    BY <1>0, <2>1 DEF Others, Same, Waiting
  <2>4. Waiting(p)' \subseteq Waiting(p)
    BY <2>1, <2>2, <2>3 DEF Waiting
  <2>5. \A q \in Pod : \A v \in Waiting(q)' : told'[v] = "waiting"
    BY <2>1, <2>3, <2>4 DEF WaitOK
  <2>6. \A q \in Pod : queue'[q] \cap Members(batch'[q]) = {}
    BY <2>2, <2>3 DEF WaitOK
  <2>7. \A q, r \in Pod : q # r => Waiting(q)' \cap Waiting(r)' = {}
    BY <2>3, <2>4 DEF WaitOK
  <2> QED
    BY <2>1, <2>5, <2>6, <2>7 DEF WaitOK
<1>8. ASSUME NEW p \in Pod, NothingAccepted(p) PROVE K
  <2>1. Others(p) /\ queue' = queue /\ batch'[p] = NoBatch /\ Tell(batch[p].ng, "ng")
    BY <1>8, NothingAcceptedIs
  <2>2. queue[p] \subseteq queue[p] \ batch[p].ng /\ batch[p].ng \subseteq Waiting(p)
    BY DEF WaitOK, Members, Waiting
  <2>3. \A u \in Push \ batch[p].ng : told'[u] = told[u]
    BY <2>1 DEF Tell
  <2>4. \A q \in Pod \ {p} : queue'[q] = queue[q] /\ Members(batch'[q]) = Members(batch[q])
    BY <2>1 DEF Others, Same
  <2> QED
    BY <1>0, <1>b, <2>1, <2>2, <2>3, <2>4, TellsOwn
<1>9. ASSUME NEW p \in Pod, Report(p) PROVE K
  <2>1. /\ Others(p) /\ queue' = queue /\ batch'[p] = NoBatch
        /\ \A u \in Push \ Members(batch[p]) : told'[u] = told[u]
    BY <1>9, ReportIs DEF Members
  <2>2. queue[p] \subseteq queue[p] \ Members(batch[p]) /\ Members(batch[p]) \subseteq Waiting(p)
    BY DEF WaitOK, Waiting
  <2>4. \A q \in Pod \ {p} : queue'[q] = queue[q] /\ Members(batch'[q]) = Members(batch[q])
    BY <2>1 DEF Others, Same
  <2> QED
    BY <1>0, <1>b, <2>1, <2>2, <2>4, TellsOwn
<1>10. ASSUME NEW p \in Pod, CasRefused(p) \/ Stop(p) PROVE K
  <2>1. /\ Others(p) /\ queue' = [queue EXCEPT ![p] = {}] /\ batch'[p] = NoBatch
        /\ Tell(Members(batch[p]) \cup queue[p], "ng")
    BY <1>10, EndsIs
  <2>2. \A u \in Push \ Waiting(p) : told'[u] = told[u]
    BY <2>1 DEF Tell, Waiting
  <2>3. /\ queue'[p] = {}
        /\ \A q \in Pod \ {p} : queue'[q] = queue[q] /\ Members(batch'[q]) = Members(batch[q])
    BY <1>0, <2>1 DEF Others, Same
  <2> QED
    BY <1>0, <1>b, <2>1, <2>2, <2>3, TellsOwn
<1>11. ASSUME NEW p \in Pod, Release(p) PROVE K
  <2>1. /\ Others(p) /\ queue' = [queue EXCEPT ![p] = {}] /\ batch'[p] = batch[p]
        /\ Tell(queue[p], "ng")
    BY <1>11, ReleaseIs
  <2>2. \A u \in Push \ queue[p] : told'[u] = told[u]
    BY <2>1 DEF Tell
  <2>3. /\ queue'[p] = {}
        /\ \A q \in Pod \ {p} : queue'[q] = queue[q] /\ Members(batch'[q]) = Members(batch[q])
    BY <1>0, <2>1 DEF Others, Same
  <2>4. Members(batch'[p]) \subseteq Members(batch[p]) \ queue[p] /\ queue[p] \subseteq Waiting(p)
    BY <2>1 DEF WaitOK, Waiting
  <2> QED
    BY <1>0, <2>2, <2>3, <2>4, TellsOwn
<1> HIDE DEF K
<1>12. K
  BY <1>1, <1>2, <1>3, <1>4, <1>5, <1>6, <1>7, <1>8, <1>9, <1>10, <1>11 DEF RepoNext
<1> QED
  BY <1>12 DEF K

(***************************************************************************)
(* RepoIInv is inductive.                                                  *)
(***************************************************************************)
LEMMA RepoIInvInit == RepoInit => RepoIInv
<1> SUFFICES ASSUME RepoInit PROVE RepoIInv
  OBVIOUS
<1>0. /\ epoch = 0 /\ released = FALSE /\ leaving = {} /\ held = [p \in Pod |-> 0]
      /\ snap = Empty /\ store = {} /\ wire = {}
      /\ at = [p \in Pod |-> "down"] /\ cell = [p \in Pod |-> Empty]
      /\ refs = [p \in Pod |-> NoRefs] /\ disk = [p \in Pod |-> {}]
      /\ queue = [p \in Pod |-> {}] /\ batch = [p \in Pod |-> NoBatch]
      /\ told = [u \in Push |-> "nothing"]
  BY DEF RepoInit, EpochInit, NoRefs
<1>1. EpochTypeOK
  <2>1. released \in BOOLEAN
    BY <1>0, Zenon
  <2> QED
    BY <1>0, <2>1 DEF EpochTypeOK
<1>2. RepoTypeOK /\ NgFinite
  <2>1. batch \in [Pod -> Batch] /\ \A p \in Pod : Size(batch[p]) <= MaxBatch /\ IsFiniteSet(batch[p].ng)
    BY <1>0, NoBatchTyped, RepoBoundAssumption
  <2>2. refs \in [Pod -> [Ref -> Oid]] /\ at \in [Pod -> At]
    BY <1>0 DEF NoRefs, Oid, At
  <2> QED
    BY <1>0, <1>1, <2>1, <2>2, EmptyTyped DEF RepoTypeOK, NgFinite
<1>3. /\ \A p \in Pod : at[p] = "down" /\ held[p] = 0 /\ cell[p] = Empty /\ refs[p] = NoRefs
      /\ Bodies = {Empty}
  BY <1>0 DEF Bodies
<1>4. /\ Empty.seq = 0 /\ Empty.epoch = 0 /\ Empty.writer = "none" /\ Empty.refs = NoRefs
      /\ Empty.hist = <<>>
  BY DEF Empty, NoRefs
<1>5. EpochsOK /\ PlaceOK /\ SeqOK
  BY <1>0, <1>3, <1>4 DEF EpochsOK, PlaceOK, SeqOK
<1>6. OwnOK
  BY <1>3 DEF OwnOK, Mine
<1>7. GoodOK /\ BatchOK
  BY <1>0, <1>3, EmptyGood DEF GoodOK, BatchOK
<1>8. LocalOK
  BY <1>3, <1>4 DEF LocalOK
<1>9. CalmOK /\ HeldOK
  BY <1>0, <1>3 DEF CalmOK, HeldOK, Serving
<1>10. AckOK
  BY <1>0, <1>3 DEF AckOK, AckedIsDurable
<1>11. WaitOK
  BY <1>0 DEF WaitOK, Waiting, Members, NoBatch, Range1
<1> QED
  BY <1>2, <1>5, <1>6, <1>7, <1>8, <1>9, <1>10, <1>11 DEF RepoIInv

\* A step that changes nothing keeps everything.
LEMMA RepoIInvStutters ==
  ASSUME RepoIInv, UNCHANGED vars
  PROVE  RepoIInv'
<1>0. UNCHANGED <<epoch, holder, released, held, leaving, snap, store, wire, at, cell, refs,
                  disk, queue, batch, told>>
  BY DEF vars, epochVars, repoVars
<1>1. RepoTypeOK' /\ NgFinite'
  BY TypeStep DEF RepoIInv
<1>2. EpochsOK' /\ PlaceOK' /\ SeqOK'
  BY <1>0 DEF RepoIInv, EpochsOK, PlaceOK, SeqOK, Bodies
<1>3. \A q \in Pod : /\ Publication(q)' = Publication(q) /\ Wide(q)' = Wide(q)
                     /\ Touched(q)' = Touched(q) /\ ToUpload(q)' = ToUpload(q)
                     /\ (Current(q)' <=> Current(q))
  BY <1>0, SameMakes, SameCurrent
<1>4. OwnOK'
  BY <1>0, <1>3 DEF RepoIInv, OwnOK, Bodies, Mine
<1>5. GoodOK'
  BY <1>0, GoodStays DEF RepoIInv, GoodOK, Bodies
<1>6. BatchOK'
  BY <1>0, <1>3 DEF RepoIInv, BatchOK
<1>7. LocalOK'
  BY <1>0, <1>3 DEF RepoIInv, LocalOK, Bodies
<1>8. CalmOK' /\ HeldOK'
  <2>1. Calm' <=> Calm
    BY <1>0, <1>3 DEF Calm, Settled
  <2> QED
    BY <1>0, <1>3, <2>1 DEF RepoIInv, CalmOK, HeldOK
<1>9. AckOK' /\ WaitOK'
  BY <1>0 DEF RepoIInv, AckOK, AckedIsDurable, WaitOK, Waiting
<1> QED
  BY <1>1, <1>2, <1>4, <1>5, <1>6, <1>7, <1>8, <1>9 DEF RepoIInv

\* Every step, whosever and whatever it is, keeps RepoIInv.
LEMMA RepoIInvStep == RepoIInv /\ [RepoNext]_vars => RepoIInv'
<1> SUFFICES ASSUME RepoIInv, [RepoNext]_vars PROVE RepoIInv'
  OBVIOUS
<1>1. CASE UNCHANGED vars
  BY <1>1, RepoIInvStutters
<1>2. CASE RepoNext
  <2>0. /\ RepoTypeOK /\ NgFinite /\ EpochsOK /\ PlaceOK /\ SeqOK /\ OwnOK /\ GoodOK /\ BatchOK
        /\ LocalOK /\ CalmOK /\ HeldOK /\ AckOK /\ WaitOK
    BY DEF RepoIInv
  <2>1. RepoTypeOK' /\ NgFinite' /\ EpochsOK' /\ PlaceOK'
    BY <1>2, <2>0, TypeStep, EpochsStep, PlaceStep
  <2>2. SeqOK' /\ OwnOK' /\ GoodOK' /\ BatchOK'
    BY <1>2, <2>0, SeqStep, OwnStep, GoodStep, BatchStep
  <2>3. LocalOK' /\ CalmOK' /\ HeldOK'
    BY <1>2, <2>0, LocalStep, CalmStep, HeldStep
  <2>4. AckOK' /\ WaitOK'
    BY <1>2, <2>0, AckStep, WaitStep
  <2> QED
    BY <2>1, <2>2, <2>3, <2>4 DEF RepoIInv
<1> QED
  BY <1>1, <1>2

\* The inductive invariant holds of every behaviour: crashes, takeovers,
\* stalled servers and snapshot PUTs that land late included.
THEOREM RepoInvariant == RepoSpec => []RepoIInv
  BY RepoIInvInit, RepoIInvStep, PTL DEF RepoSpec

(***************************************************************************)
(* What it implies.                                                        *)
(***************************************************************************)

\* The bucket alone restores the repository, and the snapshot names only
\* packs that some published push needed (name_packs, upload_packs).
THEOREM RepoIsRestorable == RepoSpec => []RepoInv
<1>1. RepoIInv => RepoInv
  <2> SUFFICES ASSUME RepoIInv PROVE RepoInv
    OBVIOUS
  <2>1. Good(snap)
    BY DEF RepoIInv, GoodOK, Bodies
  <2> QED
    BY <2>1 DEF RepoIInv, RepoInv, Restorable, NamesOnlyNeeded, Good, Covers, NamesNeeded
<1> QED
  BY <1>1, RepoInvariant, PTL

\* No acknowledged push is ever lost from the published log, whichever
\* server acknowledged it and whoever took over since (run_batch answers
\* after its CAS).
THEOREM AckedStaysDurable == RepoSpec => []AckedIsDurable
<1>1. RepoIInv => AckedIsDurable
  BY DEF RepoIInv, AckOK
<1> QED
  BY <1>1, RepoInvariant, PTL

\* A server that serves under the current epoch works on what is published:
\* a straggler's rotation changes no content (rotate_for_takeover).
THEOREM HolderKnowsContent == RepoSpec => []HolderContent
<1>1. RepoIInv => HolderContent
  BY DEF RepoIInv, HeldOK, HolderContent
<1> QED
  BY <1>1, RepoInvariant, PTL

\* After an ambiguous CAS the snapshot read back is adopted only when it is
\* the batch's own (the reload in commit).
THEOREM AdoptedIsItsOwn == RepoSpec => []AdoptsItsOwn
<1>1. RepoIInv => AdoptsItsOwn
  BY OwnAdopted DEF RepoIInv, AdoptsItsOwn
<1> QED
  BY <1>1, RepoInvariant, PTL

\* Between batches no ref disagrees with the snapshot (the agreed view of
\* judge), so no push is refused for it.
THEOREM LocalRefsAgree == RepoSpec => []LocalAgrees
<1>1. RepoIInv => LocalAgrees
  BY DEF RepoIInv, LocalOK, LocalAgrees
<1> QED
  BY <1>1, RepoInvariant, PTL

\* The refs of the snapshot are what its log of pushes leaves, each push
\* having found its ref at the value it names (judge, Moved).
THEOREM SnapshotFollowsLog == RepoSpec => []RefsFollowLog
<1>1. RepoIInv => RefsFollowLog
  <2> SUFFICES ASSUME RepoIInv PROVE RefsFollowLog
    OBVIOUS
  <2>1. Good(snap)
    BY DEF RepoIInv, GoodOK, Bodies
  <2> QED
    BY <2>1 DEF Good, Logged, RefsFollowLog
<1> QED
  BY <1>1, RepoInvariant, PTL

\* A step of the repository is one of the log: a batch is appended whole,
\* or pushes that are in it are acknowledged, or neither.
LEMMA LogStep ==
  RepoIInv /\ RepoIInv' /\ [RepoNext]_vars =>
    [Log!Extend \/ Log!Acknowledge]_<<snap.hist, {u \in Push : told[u] = "ok"}>>
<1> SUFFICES ASSUME RepoIInv, RepoIInv', [RepoNext]_vars
             PROVE  \/ Log!Extend \/ Log!Acknowledge
                    \/ /\ snap'.hist = snap.hist
                       /\ {u \in Push : told'[u] = "ok"} = {u \in Push : told[u] = "ok"}
  OBVIOUS
<1>1. CASE UNCHANGED vars
  BY <1>1 DEF vars, repoVars
<1>2. CASE RepoNext
  <2>0. /\ RepoTypeOK /\ EpochsOK /\ PlaceOK /\ SeqOK /\ GoodOK /\ BatchOK /\ WaitOK
        /\ GoodOK' /\ AckedIsDurable'
    BY DEF RepoIInv, AckOK
  <2>1. {u \in Push : told[u] = "ok"} \subseteq {u \in Push : told'[u] = "ok"}
    BY <1>2, <2>0, WaitStep
  <2>2. Log!Extends(snap'.hist, snap.hist)
    BY <1>2, <2>0, SnapGrows
  <2>3. Log!Legal(snap'.hist)
    BY <2>0 DEF GoodOK, Bodies, Good, Logged
  <2>4. CASE \E p \in Pod : Report(p)
    <3>1. snap' = snap
      BY <2>0, <2>4, ReportIs
    <3>2. {u \in Push : told'[u] = "ok"} \subseteq {snap.hist[n] : n \in 1..Len(snap.hist)}
      BY <2>0, <3>1 DEF AckedIsDurable, Range1
    <3> QED
      BY <2>1, <3>1, <3>2 DEF Log!Acknowledge
  <2>5. CASE ~ \E p \in Pod : Report(p)
    <3>1. {u \in Push : told'[u] = "ok"} = {u \in Push : told[u] = "ok"}
      BY <1>2, <2>0, <2>1, <2>5, NewlyAcked
    <3> QED
      BY <2>2, <2>3, <3>1 DEF Log!Extend
  <2> QED
    BY <2>4, <2>5
<1> QED
  BY <1>1, <1>2

\* The servers, the bucket, the crashes and the late PUTs together are one
\* append-only log of legal ref updates, of which acknowledged ones are part.
THEOREM RepoImplementsLog == RepoSpec => ImplementsLog
<1>1. RepoInit => Log!LogInit
  BY DEF RepoInit, Log!LogInit, Empty
<1>2. RepoIInv /\ RepoIInv' /\ [RepoNext]_vars =>
        [Log!Extend \/ Log!Acknowledge]_<<snap.hist, {u \in Push : told[u] = "ok"}>>
  BY LogStep
<1> QED
  BY <1>1, <1>2, RepoInvariant, PTL DEF RepoSpec, ImplementsLog, Log!LogSpec

=============================================================================
