------------------------- MODULE NfsPipelineProofs -------------------------
(***************************************************************************)
(* For every set of connections, every number of permits and requests: the *)
(* count of DrainGate is that of the replies under way, permits are out    *)
(* for exactly the dispatches there are, and a clean drain exits with no   *)
(* reply under way.                                                        *)
(*                                                                         *)
(* A request is known by its frame number, which it keeps from the second  *)
(* check of the gate to the end of its write: on one connection no two     *)
(* dispatches have the same one.  So the replies under way are counted by  *)
(* their numbers, which no step but Count, Recheck and EndWrite changes.   *)
(***************************************************************************)
EXTENDS NfsPipeline, FiniteSetTheorems, TLAPS

(* Where a read loop holds a request, and where it holds none. *)
Pending == {"submit", "count", "recheck", "acquire"}
Passing == {"top", "read", "inline", "closed"}

ReaderShape == [at : Passing] \cup
               [at : Pending, kind : Kinds, more : BOOLEAN, spawn : BOOLEAN]

DispShape(c) == [frame : 1..MaxFrames[c], kind : Kinds, stage : Stages, inline : BOOLEAN]

(* The numbers of the dispatches, and of the replies under way. *)
Frames(c) == {d.frame : d \in disp[c]}

Keys(c) == Frames(c) \cup {n \in {read[c]} : reader[c].at \in {"recheck", "acquire"}}

UnderWay == UNION {{<<c, n>> : n \in Keys(c)} : c \in Conns}

Distinct(ds) == \A d, e \in ds : d.frame = e.frame => d = e

(* What holds of one connection, whatever the others do. *)
ConnTypeOK(c) ==
    /\ reader[c] \in ReaderShape
    /\ permits[c] \in Nat
    /\ broken[c] \in BOOLEAN /\ back[c] \in BOOLEAN /\ bound[c] \in BOOLEAN
    /\ sent[c] \in Nat /\ read[c] \in Nat
    /\ read[c] <= sent[c] /\ sent[c] <= MaxFrames[c]
    /\ disp[c] \subseteq DispShape(c)

(* A frame is dispatched once, and the one the loop holds not yet. *)
FramesOK(c) ==
    /\ Distinct(disp[c])
    /\ \A d \in disp[c] : d.frame <= read[c]
    /\ reader[c].at \in Pending => read[c] >= 1 /\ read[c] \notin Frames(c)

(* The loop waits inline for the one dispatch that runs on it. *)
InlineOK(c) ==
    /\ reader[c].at = "inline" <=> \E d \in disp[c] : d.inline
    /\ \A d, e \in disp[c] : d.inline /\ e.inline => d = e

PermitsOK(c) ==
    /\ IsFiniteSet(Frames(c))
    /\ permits[c] = MaxInflight - Cardinality(Frames(c))

ConnOK(c) == ConnTypeOK(c) /\ FramesOK(c) /\ InlineOK(c) /\ PermitsOK(c)

ShapeOK ==
    /\ reader = [c \in Conns |-> reader[c]] /\ permits = [c \in Conns |-> permits[c]]
    /\ broken = [c \in Conns |-> broken[c]] /\ back = [c \in Conns |-> back[c]]
    /\ bound = [c \in Conns |-> bound[c]] /\ sent = [c \in Conns |-> sent[c]]
    /\ read = [c \in Conns |-> read[c]] /\ disp = [c \in Conns |-> disp[c]]

SigOK ==
    /\ draining = (sig # "none")
    /\ sig \in {"none", "draining", "drained", "expired"}

CountOK == IsFiniteSet(UnderWay) /\ inflight = Cardinality(UnderWay)

(* After a clean drain: a loop past its count is turned back by the second *)
(* check.                                                                  *)
DrainedOK ==
    sig = "drained" => \A c \in Conns : disp[c] = {} /\ reader[c].at # "acquire"

PipelineIInv ==
    /\ ShapeOK /\ SigOK /\ CountOK /\ DrainedOK
    /\ \A c \in Conns : ConnOK(c)

-----------------------------------------------------------------------------
(* Dispatches that only move to another stage. *)

Restaged(c, ds, es) ==
    /\ es \subseteq DispShape(c) /\ Distinct(es)
    /\ \A e \in es : \E d \in ds : e.frame = d.frame /\ e.inline = d.inline
    /\ \A d \in ds : \E e \in es : e.frame = d.frame /\ e.inline = d.inline

(* A dispatch that changes nothing but its stage keeps its number. *)
LEMMA StageKeeps ==
  ASSUME NEW c, NEW d \in DispShape(c), NEW s \in Stages
  PROVE  LET e == [d EXCEPT !.stage = s]
         IN  e \in DispShape(c) /\ e.frame = d.frame /\ e.inline = d.inline
  BY DEF DispShape

LEMMA SameIsRestaged ==
  ASSUME NEW c, NEW ds \in SUBSET DispShape(c), Distinct(ds)
  PROVE  Restaged(c, ds, ds)
  BY DEF Restaged

(* The end of a loop drops the callbacks that are waited for, and nothing  *)
(* else.                                                                   *)
LEMMA ReleasedIsRestaged ==
  ASSUME NEW c, NEW ds \in SUBSET DispShape(c), Distinct(ds)
  PROVE  Restaged(c, ds, Released(ds))
<1> DEFINE R(d) == IF d.stage = "await" THEN [d EXCEPT !.stage = "reply"] ELSE d
<1>1. \A d \in ds : R(d) \in DispShape(c) /\ R(d).frame = d.frame /\ R(d).inline = d.inline
  BY StageKeeps, "reply" \in Stages DEF Stages
<1>2. Released(ds) = {R(d) : d \in ds}
  BY DEF Released
<1> HIDE DEF R
<1>3. Distinct(Released(ds))
  BY <1>1, <1>2 DEF Distinct
<1> QED
  BY <1>1, <1>2, <1>3 DEF Restaged

LEMMA MovedIsRestaged ==
  ASSUME NEW c, NEW ds \in SUBSET DispShape(c), Distinct(ds), NEW d \in ds, NEW s \in Stages
  PROVE  Restaged(c, ds, (ds \ {d}) \cup {[d EXCEPT !.stage = s]})
<1> DEFINE e == [d EXCEPT !.stage = s]
<1>1. e \in DispShape(c) /\ e.frame = d.frame /\ e.inline = d.inline
  BY StageKeeps
<1> HIDE DEF e
<1>2. Distinct((ds \ {d}) \cup {e})
  BY <1>1 DEF Distinct
<1>3. Restaged(c, ds, (ds \ {d}) \cup {e})
  BY <1>1, <1>2 DEF Restaged
<1> QED
  BY <1>3 DEF e

(* What keeps the dispatches and the permits keeps the invariant of the    *)
(* connection, as long as the loop takes no request and ends no inline one. *)
LEMMA ConnKept ==
  ASSUME NEW c \in Conns, ConnOK(c),
         Restaged(c, disp[c], disp'[c]),
         permits'[c] = permits[c], read'[c] = read[c],
         sent'[c] \in Nat, sent[c] <= sent'[c], sent'[c] <= MaxFrames[c],
         broken'[c] \in BOOLEAN, back'[c] \in BOOLEAN, bound'[c] \in BOOLEAN,
         reader'[c] \in ReaderShape,
         reader'[c].at \in Pending => reader[c].at \in Pending,
         reader'[c].at = "inline" <=> reader[c].at = "inline"
  PROVE  ConnOK(c)' /\ Frames(c)' = Frames(c)
<1>1. Frames(c)' = Frames(c)
  BY DEF Restaged, Frames
<1>2. ConnTypeOK(c)'
  <2>1. MaxFrames[c] \in Nat
    BY PipelineAssumption
  <2> QED
    BY <2>1 DEF ConnOK, ConnTypeOK, Restaged, DispShape
<1>3. FramesOK(c)'
  <2>1. \A d \in disp'[c] : d.frame <= read'[c]
    BY DEF Restaged, ConnOK, FramesOK
  <2> QED
    BY <1>1, <2>1 DEF FramesOK, ConnOK, Restaged
<1>4. InlineOK(c)'
  <2>1. (\E d \in disp'[c] : d.inline) <=> (\E d \in disp[c] : d.inline)
    BY DEF Restaged
  <2>2. ASSUME NEW d \in disp'[c], NEW e \in disp'[c], d.inline, e.inline
        PROVE  d = e
    BY <2>2 DEF Restaged, ConnOK, InlineOK, Distinct
  <2> QED
    BY <2>1, <2>2 DEF InlineOK, ConnOK
<1>5. PermitsOK(c)'
  BY <1>1 DEF PermitsOK, ConnOK
<1> QED
  BY <1>1, <1>2, <1>3, <1>4, <1>5 DEF ConnOK

-----------------------------------------------------------------------------
(* What a step of one connection does to the invariant. *)

Same(b) ==
    /\ reader'[b] = reader[b] /\ permits'[b] = permits[b] /\ broken'[b] = broken[b]
    /\ back'[b] = back[b] /\ bound'[b] = bound[b] /\ sent'[b] = sent[b]
    /\ read'[b] = read[b] /\ disp'[b] = disp[b]

Alone(c) == ShapeOK' /\ \A b \in Conns : b # c => Same(b)

(* A reply under way more, one less, or as many. *)
Counted(c) ==
    \/ inflight' = inflight /\ Keys(c)' = Keys(c)
    \/ \E n \in Nat : n \notin Keys(c) /\ Keys(c)' = Keys(c) \cup {n} /\ inflight' = inflight + 1
    \/ \E n \in Keys(c) : Keys(c)' = Keys(c) \ {n} /\ inflight' = inflight - 1

(* A connection with nothing under way starts nothing in a drain. *)
Barred(c) ==
    draining /\ disp[c] = {} /\ reader[c].at # "acquire"
        => disp'[c] = {} /\ reader'[c].at # "acquire"

Effect(c) ==
    /\ Alone(c) /\ ConnOK(c)' /\ Counted(c) /\ Barred(c)
    /\ UNCHANGED <<draining, sig>>

LEMMA SendEffect ==
  ASSUME PipelineIInv, NEW c \in Conns, Send(c)
  PROVE  Effect(c)
<1>1. ConnOK(c) /\ ShapeOK
  BY DEF PipelineIInv
<1>2. Alone(c)
  BY <1>1 DEF Send, Alone, Same, ShapeOK
<1>3. /\ disp'[c] = disp[c] /\ permits'[c] = permits[c] /\ read'[c] = read[c]
      /\ reader'[c] = reader[c] /\ broken'[c] = broken[c] /\ back'[c] = back[c]
      /\ bound'[c] = bound[c] /\ sent'[c] = sent[c] + 1 /\ sent[c] < MaxFrames[c]
      /\ inflight' = inflight /\ UNCHANGED <<draining, sig>>
  BY <1>1 DEF Send, ShapeOK
<1>4. Restaged(c, disp[c], disp'[c])
  BY <1>1, <1>3, SameIsRestaged DEF ConnOK, ConnTypeOK, FramesOK
<1>5. MaxFrames[c] \in Nat
  BY PipelineAssumption
<1>6. ConnOK(c)' /\ Frames(c)' = Frames(c)
  BY <1>1, <1>3, <1>4, <1>5, ConnKept DEF ConnOK, ConnTypeOK
<1> QED
  BY <1>2, <1>3, <1>6 DEF Effect, Counted, Barred, Keys

(* The end of a loop that is not past the gate's count. *)
LEMMA CloseEffect ==
  ASSUME PipelineIInv, NEW c \in Conns, Close(c),
         reader[c].at # "inline",
         UNCHANGED <<draining, sig, permits, broken, back, sent, read>>
  PROVE  /\ Alone(c) /\ ConnOK(c)' /\ Frames(c)' = Frames(c)
         /\ Barred(c) /\ reader'[c].at = "closed"
<1>1. ConnOK(c) /\ ShapeOK
  BY DEF PipelineIInv
<1>2. Alone(c)
  BY <1>1 DEF Close, Go, Alone, Same, ShapeOK
<1>3. /\ disp'[c] = Released(disp[c]) /\ permits'[c] = permits[c] /\ read'[c] = read[c]
      /\ reader'[c] = At("closed") /\ broken'[c] = broken[c] /\ back'[c] = back[c]
      /\ bound'[c] = FALSE /\ sent'[c] = sent[c]
  BY <1>1 DEF Close, Go, ShapeOK
<1>4. Restaged(c, disp[c], disp'[c])
  BY <1>1, <1>3, ReleasedIsRestaged DEF ConnOK, ConnTypeOK, FramesOK
<1>5. reader'[c] \in ReaderShape /\ reader'[c].at = "closed"
  BY <1>3 DEF ReaderShape, At, Passing
<1>10. bound'[c] \in BOOLEAN
  <2>1. bound'[c] = FALSE
    BY <1>3
  <2> QED
    BY <2>1, Zenon
<1>8. /\ broken'[c] \in BOOLEAN /\ back'[c] \in BOOLEAN
      /\ sent'[c] \in Nat /\ sent[c] <= sent'[c] /\ sent'[c] <= MaxFrames[c]
  BY <1>1, <1>3 DEF ConnOK, ConnTypeOK
<1>9. reader'[c].at \notin Pending
  BY <1>5 DEF Pending
<1>6. ConnOK(c)' /\ Frames(c)' = Frames(c)
  BY <1>1, <1>3, <1>4, <1>5, <1>8, <1>9, <1>10, ConnKept
<1>7. disp[c] = {} => disp'[c] = {}
  BY <1>4 DEF Restaged
<1> QED
  BY <1>2, <1>5, <1>6, <1>7 DEF Barred

(* A step of the loop that leaves the dispatches alone. *)
LEMMA GoEffect ==
  ASSUME PipelineIInv, NEW c \in Conns, NEW p \in ReaderShape, Go(c, p),
         UNCHANGED <<draining, sig, permits, broken, back, bound, sent, read, disp>>,
         p.at \in Pending => reader[c].at \in Pending,
         p.at # "inline", reader[c].at # "inline"
  PROVE  /\ Alone(c) /\ ConnOK(c)' /\ Frames(c)' = Frames(c)
         /\ reader'[c] = p /\ disp'[c] = disp[c] /\ read'[c] = read[c]
<1>1. ConnOK(c) /\ ShapeOK
  BY DEF PipelineIInv
<1>2. Alone(c)
  BY <1>1 DEF Go, Alone, Same, ShapeOK
<1>3. /\ disp'[c] = disp[c] /\ permits'[c] = permits[c] /\ read'[c] = read[c]
      /\ reader'[c] = p /\ broken'[c] = broken[c] /\ back'[c] = back[c]
      /\ bound'[c] = bound[c] /\ sent'[c] = sent[c]
  BY <1>1 DEF Go, ShapeOK
<1>4. Restaged(c, disp[c], disp'[c])
  BY <1>1, <1>3, SameIsRestaged DEF ConnOK, ConnTypeOK, FramesOK
<1>6. ConnOK(c)' /\ Frames(c)' = Frames(c)
  BY <1>1, <1>3, <1>4, ConnKept DEF ConnOK, ConnTypeOK
<1> QED
  BY <1>2, <1>3, <1>6

(* A loop that holds a request keeps it on its way through the gate. *)
LEMMA PendingAt ==
  ASSUME PipelineIInv, NEW c \in Conns, reader[c].at \in Pending, NEW p \in Pending
  PROVE  LET r == [reader[c] EXCEPT !.at = p] IN r \in ReaderShape /\ r.at = p
<1>1. reader[c] \in ReaderShape
  BY DEF PipelineIInv, ConnOK, ConnTypeOK
<1>2. reader[c] \in [at : Pending, kind : Kinds, more : BOOLEAN, spawn : BOOLEAN]
  BY <1>1 DEF ReaderShape, Pending, Passing
<1> QED
  BY <1>2 DEF ReaderShape

LEMMA TopEffect ==
  ASSUME PipelineIInv, NEW c \in Conns, Top(c)
  PROVE  Effect(c)
<1>1. reader[c].at = "top" /\ inflight' = inflight /\ UNCHANGED <<draining, sig>>
  BY DEF Top
<1>2. CASE draining
  <2>1. Close(c)
    BY <1>2 DEF Top
  <2>2. /\ Alone(c) /\ ConnOK(c)' /\ Frames(c)' = Frames(c)
        /\ Barred(c) /\ reader'[c].at = "closed"
    BY <1>1, <2>1, CloseEffect DEF Top
  <2> QED
    BY <1>1, <2>2 DEF Effect, Counted, Keys
<1>3. CASE ~draining
  <2>1. At("read") \in ReaderShape /\ At("read").at = "read"
    BY DEF At, ReaderShape, Passing
  <2>2. /\ Alone(c) /\ ConnOK(c)' /\ Frames(c)' = Frames(c)
        /\ reader'[c] = At("read") /\ disp'[c] = disp[c]
    BY <1>1, <1>3, <2>1, GoEffect DEF Top, Pending
  <2> QED
    BY <1>1, <1>3, <2>1, <2>2 DEF Effect, Counted, Keys, Barred
<1> QED
  BY <1>2, <1>3

LEMMA HangUpEffect ==
  ASSUME PipelineIInv, NEW c \in Conns, HangUp(c)
  PROVE  Effect(c)
<1>1. reader[c].at = "read" /\ inflight' = inflight /\ UNCHANGED <<draining, sig>>
  BY DEF HangUp
<1>2. /\ Alone(c) /\ ConnOK(c)' /\ Frames(c)' = Frames(c)
      /\ Barred(c) /\ reader'[c].at = "closed"
  BY <1>1, CloseEffect DEF HangUp
<1> QED
  BY <1>1, <1>2 DEF Effect, Counted, Keys

LEMMA EnterEffect ==
  ASSUME PipelineIInv, NEW c \in Conns, Enter(c)
  PROVE  Effect(c)
<1>1. reader[c].at = "submit" /\ inflight' = inflight /\ UNCHANGED <<draining, sig>>
  BY DEF Enter
<1>2. CASE broken[c] \/ draining
  <2>2. /\ Alone(c) /\ ConnOK(c)' /\ Frames(c)' = Frames(c)
        /\ Barred(c) /\ reader'[c].at = "closed"
    BY <1>1, <1>2, CloseEffect DEF Enter
  <2> QED
    BY <1>1, <2>2 DEF Effect, Counted, Keys
<1>3. CASE ~ (broken[c] \/ draining)
  <2> DEFINE p == [reader[c] EXCEPT !.at = "count"]
  <2>1. p \in ReaderShape /\ p.at = "count"
    BY <1>1, PendingAt DEF Pending
  <2>3. Go(c, p)
    BY <1>3 DEF Enter
  <2> HIDE DEF p
  <2>2. /\ Alone(c) /\ ConnOK(c)' /\ Frames(c)' = Frames(c)
        /\ reader'[c] = p /\ disp'[c] = disp[c]
    BY <1>1, <1>3, <2>1, <2>3, GoEffect DEF Enter, Pending
  <2> QED
    BY <1>1, <1>3, <2>1, <2>2 DEF Effect, Counted, Keys, Barred
<1> QED
  BY <1>2, <1>3

LEMMA CountEffect ==
  ASSUME PipelineIInv, NEW c \in Conns, Count(c)
  PROVE  Effect(c)
<1>1. reader[c].at = "count" /\ inflight' = inflight + 1 /\ UNCHANGED <<draining, sig>>
  BY DEF Count
<1> DEFINE p == [reader[c] EXCEPT !.at = "recheck"]
<1>2. p \in ReaderShape /\ p.at = "recheck"
  BY <1>1, PendingAt DEF Pending
<1>3. Go(c, p)
  BY DEF Count
<1> HIDE DEF p
<1>4. /\ Alone(c) /\ ConnOK(c)' /\ Frames(c)' = Frames(c)
      /\ reader'[c] = p /\ disp'[c] = disp[c] /\ read'[c] = read[c]
  BY <1>1, <1>2, <1>3, GoEffect DEF Count, Pending
<1>5. read[c] \in Nat /\ read[c] \notin Frames(c)
  BY <1>1 DEF PipelineIInv, ConnOK, ConnTypeOK, FramesOK, Pending
<1>6. read[c] \notin Keys(c) /\ Keys(c)' = Keys(c) \cup {read[c]}
  BY <1>1, <1>2, <1>4, <1>5 DEF Keys
<1> QED
  BY <1>1, <1>2, <1>4, <1>5, <1>6 DEF Effect, Counted, Barred

LEMMA RecheckEffect ==
  ASSUME PipelineIInv, NEW c \in Conns, Recheck(c)
  PROVE  Effect(c)
<1>1. reader[c].at = "recheck" /\ UNCHANGED <<draining, sig>>
  BY DEF Recheck
<1>2. CASE draining
  <2>1. Close(c) /\ inflight' = inflight - 1
    BY <1>2 DEF Recheck
  <2>2. /\ Alone(c) /\ ConnOK(c)' /\ Frames(c)' = Frames(c)
        /\ Barred(c) /\ reader'[c].at = "closed"
    BY <1>1, <2>1, CloseEffect DEF Recheck
  <2>3. read[c] \notin Frames(c)
    BY <1>1 DEF PipelineIInv, ConnOK, FramesOK, Pending
  <2>4. read[c] \in Keys(c) /\ Keys(c)' = Keys(c) \ {read[c]}
    BY <1>1, <2>2, <2>3 DEF Keys
  <2> QED
    BY <1>1, <2>1, <2>2, <2>4 DEF Effect, Counted
<1>3. CASE ~draining
  <2> DEFINE p == [reader[c] EXCEPT !.at = "acquire"]
  <2>1. p \in ReaderShape /\ p.at = "acquire"
    BY <1>1, PendingAt DEF Pending
  <2>3. Go(c, p) /\ inflight' = inflight
    BY <1>3 DEF Recheck
  <2> HIDE DEF p
  <2>2. /\ Alone(c) /\ ConnOK(c)' /\ Frames(c)' = Frames(c)
        /\ reader'[c] = p /\ disp'[c] = disp[c] /\ read'[c] = read[c]
    BY <1>1, <1>3, <2>1, <2>3, GoEffect DEF Recheck, Pending
  <2> QED
    BY <1>1, <1>3, <2>1, <2>2, <2>3 DEF Effect, Counted, Keys, Barred
<1> QED
  BY <1>2, <1>3

(* A request is read: its number is one past every dispatch's. *)
LEMMA ReadEffect ==
  ASSUME PipelineIInv, NEW c \in Conns, NEW k \in Kinds, Read(c, k)
  PROVE  Effect(c)
<1> DEFINE p == [at |-> "submit", kind |-> k, more |-> sent[c] > read[c] + 1,
                 spawn |-> back[c]]
<1>1. ConnOK(c) /\ ShapeOK
  BY DEF PipelineIInv
<1>2. Alone(c)
  BY <1>1 DEF Read, Go, Alone, Same, ShapeOK
<1>3. /\ disp'[c] = disp[c] /\ permits'[c] = permits[c] /\ read'[c] = read[c] + 1
      /\ reader'[c] = p /\ broken'[c] = broken[c] /\ back'[c] = back[c]
      /\ bound'[c] = bound[c] /\ sent'[c] = sent[c]
      /\ reader[c].at = "read" /\ read[c] < sent[c]
      /\ inflight' = inflight /\ UNCHANGED <<draining, sig>>
  BY <1>1 DEF Read, Go, ShapeOK
<1>4. p \in ReaderShape /\ p.at = "submit"
  <2>1. back[c] \in BOOLEAN /\ (sent[c] > read[c] + 1) \in BOOLEAN
    BY <1>1 DEF ConnOK, ConnTypeOK
  <2> QED
    BY <2>1 DEF ReaderShape, Pending
<1> HIDE DEF p
<1>5. ConnTypeOK(c)'
  BY <1>1, <1>3, <1>4 DEF ConnOK, ConnTypeOK, DispShape
<1>6. FramesOK(c)'
  <2>1. \A d \in disp[c] : d.frame <= read[c] /\ d.frame \in Int
    BY <1>1 DEF ConnOK, ConnTypeOK, FramesOK, DispShape
  <2>2. read[c] \in Nat
    BY <1>1 DEF ConnOK, ConnTypeOK
  <2>3. Distinct(disp[c])
    BY <1>1 DEF ConnOK, FramesOK
  <2>4. \A d \in disp[c] : d.frame <= read[c] + 1 /\ d.frame # read[c] + 1
    BY <2>1, <2>2
  <2> QED
    BY <1>3, <2>2, <2>3, <2>4 DEF FramesOK, Frames
<1>7. InlineOK(c)' /\ PermitsOK(c)'
  BY <1>1, <1>3, <1>4 DEF ConnOK, InlineOK, PermitsOK, Frames
<1>8. Keys(c)' = Keys(c)
  BY <1>3, <1>4 DEF Keys, Frames
<1> QED
  BY <1>2, <1>3, <1>4, <1>5, <1>6, <1>7, <1>8 DEF Effect, Counted, Barred, ConnOK

(* A dispatch moves to its next stage. *)
LEMMA MoveEffect ==
  ASSUME PipelineIInv, NEW c \in Conns, NEW d \in disp[c], NEW s \in Stages, Move(c, d, s),
         UNCHANGED <<draining, inflight, sig, permits, broken, sent, read>>,
         Alone(c), back'[c] \in BOOLEAN, bound'[c] \in BOOLEAN,
         reader'[c] = reader[c] \/ (reader[c].at = "read" /\ reader'[c] = At("top"))
  PROVE  Effect(c)
<1>1. ConnOK(c) /\ ShapeOK
  BY DEF PipelineIInv
<1>2. /\ disp'[c] = (disp[c] \ {d}) \cup {[d EXCEPT !.stage = s]}
      /\ permits'[c] = permits[c] /\ read'[c] = read[c]
      /\ broken'[c] = broken[c] /\ sent'[c] = sent[c]
  BY <1>1 DEF Move, ShapeOK
<1>3. Restaged(c, disp[c], disp'[c])
  BY <1>1, <1>2, MovedIsRestaged DEF ConnOK, ConnTypeOK, FramesOK
<1>4. /\ reader'[c] \in ReaderShape
      /\ reader'[c].at = reader[c].at \/ (reader[c].at = "read" /\ reader'[c].at = "top")
  BY <1>1 DEF ConnOK, ConnTypeOK, ReaderShape, At, Passing
<1>5. /\ broken'[c] \in BOOLEAN
      /\ sent'[c] \in Nat /\ sent[c] <= sent'[c] /\ sent'[c] <= MaxFrames[c]
  BY <1>1, <1>2 DEF ConnOK, ConnTypeOK
<1>6. ConnOK(c)' /\ Frames(c)' = Frames(c)
  BY <1>1, <1>2, <1>3, <1>4, <1>5, ConnKept DEF Pending
<1>7. Keys(c)' = Keys(c)
  BY <1>2, <1>4, <1>6 DEF Keys
<1> QED
  BY <1>6, <1>7 DEF Effect, Counted, Barred

LEMMA DeliverReplyEffect ==
  ASSUME PipelineIInv, NEW c \in Conns, NEW d \in disp[c], DeliverReply(c, d)
  PROVE  Effect(c)
<1>1. ConnOK(c) /\ ShapeOK
  BY DEF PipelineIInv
<1>2. Alone(c)
  BY <1>1 DEF DeliverReply, Go, Alone, Same, ShapeOK
<1>3. /\ Move(c, d, "reply") /\ "reply" \in Stages
      /\ reader[c].at = "read" /\ reader'[c] = At("top")
      /\ back'[c] = back[c] /\ bound'[c] = bound[c]
      /\ UNCHANGED <<draining, inflight, sig, permits, broken, sent, read>>
  BY <1>1 DEF DeliverReply, Move, Go, ShapeOK, Stages
<1>4. back'[c] \in BOOLEAN /\ bound'[c] \in BOOLEAN
  BY <1>1, <1>3 DEF ConnOK, ConnTypeOK
<1> QED
  BY <1>2, <1>3, <1>4, MoveEffect

LEMMA DispatchEffect ==
  ASSUME PipelineIInv, NEW c \in Conns, NEW d \in disp[c], NEW s \in {"await", "reply"},
         Dispatch(c, d, s)
  PROVE  Effect(c)
<1>1. ConnOK(c) /\ ShapeOK
  BY DEF PipelineIInv
<1>2. Alone(c)
  BY <1>1 DEF Dispatch, Move, Alone, Same, ShapeOK
<1>3. /\ Move(c, d, s) /\ s \in Stages /\ reader'[c] = reader[c]
      /\ UNCHANGED <<draining, inflight, sig, permits, broken, sent, read>>
  BY DEF Dispatch, Stages
<1>4. back'[c] = (back[c] \/ d.kind = "bind") /\ bound'[c] = (bound[c] \/ d.kind = "bind")
  BY <1>1 DEF Dispatch, ShapeOK
<1>5. back'[c] \in BOOLEAN /\ bound'[c] \in BOOLEAN
  BY <1>4, Zenon
<1>6. reader'[c] = reader[c] \/ (reader[c].at = "read" /\ reader'[c] = At("top"))
  BY <1>3
<1> QED
  BY <1>2, <1>3, <1>5, <1>6, MoveEffect

LEMMA CbTimeoutEffect ==
  ASSUME PipelineIInv, NEW c \in Conns, NEW d \in disp[c], CbTimeout(c, d)
  PROVE  Effect(c)
<1>1. ConnOK(c) /\ ShapeOK
  BY DEF PipelineIInv
<1>2. Alone(c)
  BY <1>1 DEF CbTimeout, Move, Alone, Same, ShapeOK
<1>3. /\ Move(c, d, "reply") /\ "reply" \in Stages /\ reader'[c] = reader[c]
      /\ back'[c] = back[c] /\ bound'[c] = bound[c]
      /\ UNCHANGED <<draining, inflight, sig, permits, broken, sent, read>>
  BY DEF CbTimeout, Stages
<1>4. back'[c] \in BOOLEAN /\ bound'[c] \in BOOLEAN
  BY <1>1, <1>3 DEF ConnOK, ConnTypeOK
<1>6. reader'[c] = reader[c] \/ (reader[c].at = "read" /\ reader'[c] = At("top"))
  BY <1>3
<1> QED
  BY <1>2, <1>3, <1>4, <1>6, MoveEffect

LEMMA StartWriteEffect ==
  ASSUME PipelineIInv, NEW c \in Conns, NEW d \in disp[c], StartWrite(c, d)
  PROVE  Effect(c)
<1>1. ConnOK(c) /\ ShapeOK
  BY DEF PipelineIInv
<1>2. Alone(c)
  BY <1>1 DEF StartWrite, Move, Alone, Same, ShapeOK
<1>3. /\ Move(c, d, "write") /\ "write" \in Stages /\ reader'[c] = reader[c]
      /\ back'[c] = back[c] /\ bound'[c] = bound[c]
      /\ UNCHANGED <<draining, inflight, sig, permits, broken, sent, read>>
  BY DEF StartWrite, Stages
<1>4. back'[c] \in BOOLEAN /\ bound'[c] \in BOOLEAN
  BY <1>1, <1>3 DEF ConnOK, ConnTypeOK
<1>6. reader'[c] = reader[c] \/ (reader[c].at = "read" /\ reader'[c] = At("top"))
  BY <1>3
<1> QED
  BY <1>2, <1>3, <1>4, <1>6, MoveEffect

(* The request the loop holds becomes a dispatch of the same number. *)
LEMMA AcquireEffect ==
  ASSUME PipelineIInv, NEW c \in Conns, Acquire(c)
  PROVE  Effect(c)
<1> DEFINE r == reader[c]
           others == permits[c] - 1 < MaxInflight - 1
           inl == ~r.spawn /\ ~r.more /\ ~others
           d == [frame |-> read[c], kind |-> r.kind, stage |-> "run", inline |-> inl]
           p == At(IF inl THEN "inline" ELSE "top")
<1>1. ConnOK(c) /\ ShapeOK
  BY DEF PipelineIInv
<1>2. Alone(c)
  BY <1>1 DEF Acquire, Go, Alone, Same, ShapeOK
<1>3. /\ disp'[c] = disp[c] \cup {d} /\ permits'[c] = permits[c] - 1 /\ read'[c] = read[c]
      /\ reader'[c] = p /\ broken'[c] = broken[c] /\ back'[c] = back[c]
      /\ bound'[c] = bound[c] /\ sent'[c] = sent[c]
      /\ reader[c].at = "acquire" /\ permits[c] > 0
      /\ inflight' = inflight /\ UNCHANGED <<draining, sig>>
  BY <1>1 DEF Acquire, Go, ShapeOK
<1>4. r.kind \in Kinds
  BY <1>1, <1>3 DEF ConnOK, ConnTypeOK, ReaderShape, Passing
<1>5. /\ read[c] \in Nat /\ read[c] >= 1 /\ read[c] \notin Frames(c)
      /\ read[c] \in 1..MaxFrames[c]
  <2>1. MaxFrames[c] \in Nat
    BY PipelineAssumption
  <2> QED
    BY <1>1, <1>3, <2>1 DEF ConnOK, ConnTypeOK, FramesOK, Pending
<1>6. inl \in BOOLEAN
  BY Zenon
<1> HIDE DEF inl
<1>7. d \in DispShape(c) /\ d.frame = read[c] /\ d.inline = inl
  BY <1>4, <1>5, <1>6 DEF DispShape, Stages
<1>8. p \in ReaderShape /\ p.at = (IF inl THEN "inline" ELSE "top")
  BY DEF At, ReaderShape, Passing
<1> HIDE DEF d, p
<1>9. ConnTypeOK(c)'
  BY <1>1, <1>3, <1>7, <1>8 DEF ConnOK, ConnTypeOK, DispShape
<1>10. Frames(c)' = Frames(c) \cup {read[c]}
  BY <1>3, <1>7 DEF Frames
<1>11. FramesOK(c)'
  <2>1. Distinct(disp[c]) /\ \A e \in disp[c] : e.frame <= read[c] /\ e.frame # read[c]
    BY <1>1, <1>5 DEF ConnOK, FramesOK, Frames
  <2>2. Distinct(disp'[c])
    BY <1>3, <1>7, <2>1 DEF Distinct
  <2>3. reader'[c].at \notin Pending
    BY <1>3, <1>8 DEF Pending
  <2> QED
    BY <1>3, <1>5, <1>7, <2>1, <2>2, <2>3 DEF FramesOK
<1>12. InlineOK(c)'
  <2>1. \A e \in disp[c] : ~ e.inline
    BY <1>1, <1>3 DEF ConnOK, InlineOK
  <2>2. reader'[c].at = "inline" <=> inl
    BY <1>3, <1>8
  <2> QED
    BY <1>3, <1>7, <2>1, <2>2 DEF InlineOK
<1>13. PermitsOK(c)'
  <2>1. IsFiniteSet(Frames(c)) /\ permits[c] = MaxInflight - Cardinality(Frames(c))
    BY <1>1 DEF ConnOK, PermitsOK
  <2>2. Cardinality(Frames(c)) \in Nat
    BY <2>1, FS_CardinalityType
  <2>3. /\ IsFiniteSet(Frames(c) \cup {read[c]})
        /\ Cardinality(Frames(c) \cup {read[c]}) = Cardinality(Frames(c)) + 1
    BY <1>5, <2>1, FS_AddElement
  <2> QED
    BY <1>3, <1>10, <2>1, <2>2, <2>3, PipelineAssumption DEF PermitsOK
<1>14. Keys(c)' = Keys(c)
  BY <1>3, <1>8, <1>10 DEF Keys
<1> QED
  BY <1>2, <1>3, <1>9, <1>11, <1>12, <1>13, <1>14 DEF Effect, Counted, Barred, ConnOK

(* What is left when a dispatch is over keeps the invariant of the         *)
(* connection, whether or not its loop ends with it.                       *)
LEMMA EndEffect ==
  ASSUME PipelineIInv, NEW c \in Conns, NEW d \in disp[c],
         Restaged(c, disp[c] \ {d}, disp'[c]), Alone(c),
         permits'[c] = permits[c] + 1, read'[c] = read[c], sent'[c] = sent[c],
         broken'[c] \in BOOLEAN, back'[c] \in BOOLEAN, bound'[c] \in BOOLEAN,
         inflight' = inflight - 1, UNCHANGED <<draining, sig>>,
         reader'[c] \in ReaderShape,
         d.inline => reader'[c].at \in {"top", "closed"},
         ~ d.inline => reader'[c] = reader[c]
  PROVE  Effect(c)
<1>1. ConnOK(c)
  BY DEF PipelineIInv
<1>2. /\ Distinct(disp[c]) /\ disp[c] \subseteq DispShape(c) /\ read[c] \in Nat
      /\ \A e \in disp[c] : e.frame <= read[c]
      /\ d.frame \in Nat
  BY <1>1 DEF ConnOK, ConnTypeOK, FramesOK, DispShape
<1>3. Frames(c)' = Frames(c) \ {d.frame}
  <2>1. \A e \in disp[c] \ {d} : e.frame # d.frame
    BY <1>2 DEF Distinct
  <2> QED
    BY <2>1 DEF Frames, Restaged
<1>4. reader[c].at = "inline" <=> \E e \in disp[c] : e.inline
  BY <1>1 DEF ConnOK, InlineOK
<1>5. CASE ~ d.inline \/ reader'[c].at \in {"top", "closed"}
  <2>1. ConnTypeOK(c)'
    BY <1>1 DEF ConnOK, ConnTypeOK, Restaged, DispShape
  <2>2. reader'[c].at \in Pending => reader[c].at \in Pending
    BY <1>5 DEF Pending
  <2>3. FramesOK(c)'
    <3>1. \A e \in disp'[c] : e.frame <= read[c]
      BY <1>2 DEF Restaged
    <3> QED
      BY <1>1, <1>3, <2>2, <3>1 DEF ConnOK, FramesOK, Restaged
  <2>4. InlineOK(c)'
    <3>1. \A e, f \in disp[c] : e.inline /\ f.inline => e = f
      BY <1>1 DEF ConnOK, InlineOK
    <3>2. \A e, f \in disp'[c] : e.inline /\ f.inline => e = f
      BY <3>1 DEF Restaged, Distinct
    <3>3. reader'[c].at = "inline" <=> \E e \in disp[c] \ {d} : e.inline
      BY <1>4, <3>1
    <3>4. (\E e \in disp[c] \ {d} : e.inline) <=> (\E e \in disp'[c] : e.inline)
      BY DEF Restaged
    <3> QED
      BY <3>2, <3>3, <3>4 DEF InlineOK
  <2>5. PermitsOK(c)'
    <3>1. IsFiniteSet(Frames(c)) /\ permits[c] = MaxInflight - Cardinality(Frames(c))
      BY <1>1 DEF ConnOK, PermitsOK
    <3>2. Cardinality(Frames(c)) \in Nat
      BY <3>1, FS_CardinalityType
    <3>3. d.frame \in Frames(c)
      BY DEF Frames
    <3>4. /\ IsFiniteSet(Frames(c) \ {d.frame})
          /\ Cardinality(Frames(c) \ {d.frame}) = Cardinality(Frames(c)) - 1
      BY <3>1, <3>3, FS_RemoveElement
    <3> QED
      BY <1>3, <3>1, <3>2, <3>4, PipelineAssumption DEF PermitsOK
  <2>6. d.frame \in Keys(c) /\ Keys(c)' = Keys(c) \ {d.frame}
    <3>1. d.frame \in Frames(c)
      BY DEF Frames
    <3>2. reader'[c].at \in {"recheck", "acquire"} <=> reader[c].at \in {"recheck", "acquire"}
      BY <1>4
    <3>3. reader[c].at \in {"recheck", "acquire"} => read[c] # d.frame
      BY <1>1, <3>1 DEF ConnOK, FramesOK, Pending
    <3> QED
      BY <1>3, <3>1, <3>2, <3>3 DEF Keys
  <2>7. Counted(c)
    BY <2>6 DEF Counted
  <2> QED
    BY <2>1, <2>3, <2>4, <2>5, <2>7 DEF Effect, Barred, ConnOK
<1> QED
  BY <1>5

LEMMA EndWriteEffect ==
  ASSUME PipelineIInv, NEW c \in Conns, NEW d \in disp[c], NEW ok \in BOOLEAN,
         EndWrite(c, d, ok)
  PROVE  Effect(c)
<1>1. ConnOK(c) /\ ShapeOK
  BY DEF PipelineIInv
<1>2. Alone(c)
  <2>1. CASE d.inline
    BY <1>1, <2>1 DEF EndWrite, Go, Alone, Same, ShapeOK
  <2>2. CASE ~ d.inline
    BY <1>1, <2>2 DEF EndWrite, Alone, Same, ShapeOK
  <2> QED
    BY <2>1, <2>2
<1>3. /\ permits'[c] = permits[c] + 1 /\ read'[c] = read[c] /\ sent'[c] = sent[c]
      /\ back'[c] = back[c] /\ inflight' = inflight - 1 /\ UNCHANGED <<draining, sig>>
  BY <1>1 DEF EndWrite, ShapeOK
<1>4. broken'[c] = (broken[c] \/ ~ok) /\ bound'[c] = (bound[c] /\ (ok \/ ~d.inline))
  BY <1>1 DEF EndWrite, ShapeOK
<1>5. broken'[c] \in BOOLEAN /\ bound'[c] \in BOOLEAN
  BY <1>4, Zenon
<1>6. back'[c] \in BOOLEAN
  BY <1>1, <1>3 DEF ConnOK, ConnTypeOK
<1>7. (disp[c] \ {d}) \in SUBSET DispShape(c) /\ Distinct(disp[c] \ {d})
  BY <1>1 DEF ConnOK, ConnTypeOK, FramesOK, Distinct
<1>8. Restaged(c, disp[c] \ {d}, disp[c] \ {d})
  BY <1>7, SameIsRestaged
<1>9. Restaged(c, disp[c] \ {d}, Released(disp[c] \ {d}))
  BY <1>7, ReleasedIsRestaged
<1>10. Restaged(c, disp[c] \ {d}, disp'[c])
  <2>1. disp'[c] = disp[c] \ {d} \/ disp'[c] = Released(disp[c] \ {d})
    BY <1>1 DEF EndWrite, ShapeOK
  <2> QED
    BY <1>8, <1>9, <2>1
<1>11. /\ reader'[c] \in ReaderShape
       /\ d.inline => reader'[c].at \in {"top", "closed"}
       /\ ~ d.inline => reader'[c] = reader[c]
  <2>1. d.inline => reader'[c] \in {At("top"), At("closed")}
    BY <1>1 DEF EndWrite, Go, ShapeOK
  <2>2. ~ d.inline => reader'[c] = reader[c]
    BY DEF EndWrite
  <2>3. \A q \in {At("top"), At("closed")} : q \in ReaderShape /\ q.at \in {"top", "closed"}
    BY DEF At, ReaderShape, Passing
  <2> QED
    BY <1>1, <2>1, <2>2, <2>3 DEF ConnOK, ConnTypeOK
<1> QED
  BY <1>2, <1>3, <1>5, <1>6, <1>10, <1>11, EndEffect

-----------------------------------------------------------------------------
(* The invariant. *)

LEMMA SameConn ==
  ASSUME NEW b \in Conns, ConnOK(b), Same(b)
  PROVE  ConnOK(b)' /\ Keys(b)' = Keys(b)
BY DEF Same, ConnOK, ConnTypeOK, FramesOK, InlineOK, PermitsOK, Frames, Keys

(* The replies of all connections are counted as those of the one moving. *)
LEMMA CountStep ==
  ASSUME PipelineIInv, NEW c \in Conns, Effect(c)
  PROVE  CountOK'
<1>1. \A b \in Conns : b # c => Keys(b)' = Keys(b)
  BY SameConn DEF Effect, Alone, PipelineIInv
<1>2. IsFiniteSet(UnderWay) /\ inflight = Cardinality(UnderWay)
  BY DEF PipelineIInv, CountOK
<1>3. \A k : k \in UnderWay <=> \E b \in Conns : \E n \in Keys(b) : k = <<b, n>>
  BY DEF UnderWay
<1>4. \A k : k \in UnderWay' <=> \E b \in Conns : \E n \in Keys(b)' : k = <<b, n>>
  BY DEF UnderWay
<1>5. Counted(c)
  BY DEF Effect
<1>6. CASE inflight' = inflight /\ Keys(c)' = Keys(c)
  <2>1. \A b \in Conns : Keys(b)' = Keys(b)
    BY <1>1, <1>6
  <2>2. UnderWay' = UnderWay
    BY <1>3, <1>4, <2>1
  <2> QED
    BY <1>2, <1>6, <2>2 DEF CountOK
<1>7. ASSUME NEW n \in Nat, n \notin Keys(c), Keys(c)' = Keys(c) \cup {n},
             inflight' = inflight + 1
      PROVE  CountOK'
  <2>1. <<c, n>> \notin UnderWay
    BY <1>3, <1>7
  <2>2. UnderWay' = UnderWay \cup {<<c, n>>}
    <3>1. ASSUME NEW k \in UnderWay' PROVE k \in UnderWay \cup {<<c, n>>}
      <4>1. PICK b \in Conns : \E m \in Keys(b)' : k = <<b, m>>
        BY <1>4, <3>1
      <4>2. PICK m \in Keys(b)' : k = <<b, m>>
        BY <4>1
      <4> QED
        BY <1>1, <1>3, <1>7, <4>2
    <3>2. ASSUME NEW k \in UnderWay PROVE k \in UnderWay'
      BY <1>1, <1>3, <1>4, <1>7, <3>2
    <3>3. <<c, n>> \in UnderWay'
      BY <1>4, <1>7
    <3> QED
      BY <3>1, <3>2, <3>3
  <2>3. /\ IsFiniteSet(UnderWay \cup {<<c, n>>})
        /\ Cardinality(UnderWay \cup {<<c, n>>}) = Cardinality(UnderWay) + 1
    BY <1>2, <2>1, FS_AddElement
  <2> QED
    BY <1>2, <1>7, <2>2, <2>3 DEF CountOK
<1>8. ASSUME NEW n \in Keys(c), Keys(c)' = Keys(c) \ {n}, inflight' = inflight - 1
      PROVE  CountOK'
  <2>1. <<c, n>> \in UnderWay
    BY <1>3, <1>8
  <2>2. UnderWay' = UnderWay \ {<<c, n>>}
    <3>1. ASSUME NEW k \in UnderWay' PROVE k \in UnderWay \ {<<c, n>>}
      <4>1. PICK b \in Conns : \E m \in Keys(b)' : k = <<b, m>>
        BY <1>4, <3>1
      <4>2. PICK m \in Keys(b)' : k = <<b, m>>
        BY <4>1
      <4> QED
        BY <1>1, <1>3, <1>8, <4>2
    <3>2. ASSUME NEW k \in UnderWay, k # <<c, n>> PROVE k \in UnderWay'
      <4>1. PICK b \in Conns : \E m \in Keys(b) : k = <<b, m>>
        BY <1>3, <3>2
      <4>2. PICK m \in Keys(b) : k = <<b, m>>
        BY <4>1
      <4> QED
        BY <1>1, <1>4, <1>8, <3>2, <4>2
    <3> QED
      BY <3>1, <3>2
  <2>3. /\ IsFiniteSet(UnderWay \ {<<c, n>>})
        /\ Cardinality(UnderWay \ {<<c, n>>}) = Cardinality(UnderWay) - 1
    BY <1>2, <2>1, FS_RemoveElement
  <2> QED
    BY <1>2, <1>8, <2>2, <2>3 DEF CountOK
<1> QED
  BY <1>5, <1>6, <1>7, <1>8 DEF Counted

(* Every step of a connection keeps the invariant. *)
LEMMA EffectStep ==
  ASSUME PipelineIInv, NEW c \in Conns, Effect(c)
  PROVE  PipelineIInv'
<1>1. ShapeOK' /\ SigOK'
  BY DEF Effect, Alone, PipelineIInv, SigOK
<1>2. \A b \in Conns : ConnOK(b)'
  BY SameConn DEF Effect, Alone, PipelineIInv
<1>3. DrainedOK'
  <2>1. sig = "drained" => draining
    BY DEF PipelineIInv, SigOK
  <2> QED
    BY <2>1 DEF Effect, Alone, Same, Barred, PipelineIInv, DrainedOK
<1> QED
  BY <1>1, <1>2, <1>3, CountStep DEF PipelineIInv

(* What stays when no connection moves. *)
LEMMA ConnsStay ==
  ASSUME PipelineIInv,
         UNCHANGED <<inflight, reader, permits, broken, back, bound, sent, read, disp>>
  PROVE  ShapeOK' /\ CountOK' /\ \A c \in Conns : ConnOK(c)'
<1>1. ShapeOK'
  BY DEF PipelineIInv, ShapeOK
<1>2. \A c \in Conns : ConnOK(c)' /\ Keys(c)' = Keys(c)
  BY SameConn DEF PipelineIInv, Same
<1>3. UnderWay' = UnderWay
  BY <1>2 DEF UnderWay
<1> QED
  BY <1>1, <1>2, <1>3 DEF PipelineIInv, CountOK

(* A count of zero means that nothing is under way. *)
LEMMA ZeroIsEmpty ==
  ASSUME PipelineIInv, inflight = 0
  PROVE  \A c \in Conns : disp[c] = {} /\ reader[c].at # "acquire"
<1>1. UnderWay = {}
  BY FS_EmptySet DEF PipelineIInv, CountOK
<1> SUFFICES ASSUME NEW c \in Conns
             PROVE  disp[c] = {} /\ reader[c].at # "acquire"
  OBVIOUS
<1>2. Keys(c) = {}
  <2> SUFFICES ASSUME NEW n \in Keys(c) PROVE FALSE
    OBVIOUS
  <2>1. <<c, n>> \in UnderWay
    BY DEF UnderWay
  <2> QED
    BY <1>1, <2>1
<1> QED
  BY <1>2 DEF Keys, Frames

LEMMA PipelineInit ==
  ASSUME Init
  PROVE  PipelineIInv
<1>1. ShapeOK /\ SigOK /\ DrainedOK
  BY DEF Init, ShapeOK, SigOK, DrainedOK
<1>2. \A c \in Conns : disp[c] = {} /\ reader[c] = At("top") /\ permits[c] = MaxInflight
                       /\ sent[c] = 0 /\ read[c] = 0
  BY DEF Init
<1>3. At("top") \in ReaderShape /\ At("top").at = "top"
  BY DEF At, ReaderShape, Passing
<1>4. ASSUME NEW c \in Conns PROVE ConnOK(c) /\ Keys(c) = {}
  <2>1. Frames(c) = {} /\ Keys(c) = {}
    BY <1>2, <1>3 DEF Frames, Keys
  <2>2. broken[c] \in BOOLEAN /\ back[c] \in BOOLEAN /\ bound[c] \in BOOLEAN
    <3>1. broken[c] = FALSE /\ back[c] = FALSE /\ bound[c] = FALSE
      BY DEF Init
    <3> QED
      BY <3>1, Zenon
  <2>3. ConnTypeOK(c)
    BY <1>2, <1>3, <2>2, PipelineAssumption DEF ConnTypeOK
  <2>4. FramesOK(c) /\ InlineOK(c)
    BY <1>2, <1>3 DEF FramesOK, InlineOK, Distinct, Pending
  <2>5. PermitsOK(c)
    BY <1>2, <2>1, FS_EmptySet, PipelineAssumption DEF PermitsOK
  <2> QED
    BY <2>1, <2>3, <2>4, <2>5 DEF ConnOK
<1>5. CountOK
  <2>1. UnderWay = {}
    BY <1>4 DEF UnderWay
  <2> QED
    BY <2>1, FS_EmptySet DEF CountOK, Init
<1> QED
  BY <1>1, <1>4, <1>5 DEF PipelineIInv

LEMMA PipelineStep ==
  ASSUME PipelineIInv, [Next]_vars
  PROVE  PipelineIInv'
<1>1. ASSUME NEW c \in Conns, Send(c) \/ HangUp(c) \/ Serve(c)
      PROVE  PipelineIInv'
  <2>1. Effect(c)
    <3>1. ASSUME Serve(c) PROVE Effect(c)
      BY <3>1, TopEffect, EnterEffect, CountEffect, RecheckEffect, AcquireEffect, ReadEffect,
         DispatchEffect, CbTimeoutEffect, StartWriteEffect, EndWriteEffect DEF Serve
    <3> QED
      BY <1>1, <3>1, SendEffect, HangUpEffect
  <2> QED
    BY <2>1, EffectStep
<1>2. ASSUME NEW c \in Conns, NEW d \in disp[c], DeliverReply(c, d)
      PROVE  PipelineIInv'
  BY <1>2, DeliverReplyEffect, EffectStep
<1>3. CASE Begin
  <2>1. ShapeOK' /\ CountOK' /\ \A c \in Conns : ConnOK(c)'
    BY <1>3, ConnsStay DEF Begin
  <2>2. SigOK' /\ DrainedOK'
    BY <1>3 DEF Begin, SigOK, DrainedOK
  <2> QED
    BY <2>1, <2>2 DEF PipelineIInv
<1>4. ASSUME NEW out \in {"drained", "expired"}, Drain(out)
      PROVE  PipelineIInv'
  <2>1. ShapeOK' /\ CountOK' /\ \A c \in Conns : ConnOK(c)'
    BY <1>4, ConnsStay DEF Drain
  <2>2. SigOK'
    BY <1>4 DEF Drain, SigOK, PipelineIInv
  <2>3. DrainedOK'
    BY <1>4, ZeroIsEmpty DEF Drain, DrainedOK
  <2> QED
    BY <2>1, <2>2, <2>3 DEF PipelineIInv
<1>5. CASE UNCHANGED vars
  <2>1. ShapeOK' /\ CountOK' /\ \A c \in Conns : ConnOK(c)'
    BY <1>5, ConnsStay DEF vars
  <2>2. SigOK' /\ DrainedOK'
    BY <1>5 DEF vars, SigOK, DrainedOK, PipelineIInv
  <2> QED
    BY <2>1, <2>2 DEF PipelineIInv
<1> QED
  BY <1>1, <1>2, <1>3, <1>4, <1>5 DEF Next

-----------------------------------------------------------------------------
(* From numbers back to what they number. *)

(* Two sets that number each other have as many elements. *)
LEMMA AsMany ==
  ASSUME NEW S, NEW T, IsFiniteSet(T), NEW f \in [S -> T],
         \A a, b \in S : f[a] = f[b] => a = b,
         \A t \in T : \E a \in S : f[a] = t
  PROVE  IsFiniteSet(S) /\ Cardinality(S) = Cardinality(T)
<1>1. f \in Injection(S, T)
  BY DEF Injection, IsInjective
<1>2. f \in Surjection(S, T)
  BY DEF Surjection
<1> QED
  BY <1>1, <1>2, FS_Injection

LEMMA DispatchesAreNumbered ==
  ASSUME PipelineIInv, NEW c \in Conns
  PROVE  Cardinality(disp[c]) = Cardinality(Frames(c))
<1> DEFINE f == [d \in disp[c] |-> d.frame]
<1>1. Distinct(disp[c]) /\ IsFiniteSet(Frames(c))
  BY DEF PipelineIInv, ConnOK, FramesOK, PermitsOK
<1>2. f \in [disp[c] -> Frames(c)] /\ \A t \in Frames(c) : \E a \in disp[c] : f[a] = t
  BY DEF Frames
<1>3. \A a, b \in disp[c] : f[a] = f[b] => a = b
  BY <1>1 DEF Distinct
<1> HIDE DEF f
<1> QED
  BY <1>1, <1>2, <1>3, AsMany

(* What is past the gate's count on a connection, by number. *)
LEMMA EnteredIs ==
  ASSUME PipelineIInv, NEW c \in Conns
  PROVE  LET num == [x \in Entered(c) |-> IF x \in disp[c] THEN x.frame ELSE read[c]]
         IN  /\ \A x \in Entered(c) : num[x] \in Keys(c)
             /\ \A x, y \in Entered(c) : num[x] = num[y] => x = y
             /\ \A n \in Keys(c) : \E x \in Entered(c) : num[x] = n
<1>1. /\ Distinct(disp[c]) /\ disp[c] \subseteq DispShape(c) /\ reader[c] \in ReaderShape
      /\ reader[c].at \in Pending => read[c] \notin Frames(c)
  BY DEF PipelineIInv, ConnOK, ConnTypeOK, FramesOK
<1>2. reader[c].at \in Pending => reader[c] \notin disp[c]
  <2> SUFFICES ASSUME reader[c].at \in Pending, reader[c] \in disp[c] PROVE FALSE
    OBVIOUS
  <2>1. reader[c] \in [at : Pending, kind : Kinds, more : BOOLEAN, spawn : BOOLEAN]
    BY <1>1 DEF ReaderShape, Pending, Passing
  <2>2. DOMAIN reader[c] = {"at", "kind", "more", "spawn"}
    BY <2>1
  <2>3. reader[c] \in [frame : 1..MaxFrames[c], kind : Kinds, stage : Stages, inline : BOOLEAN]
    BY <1>1 DEF DispShape
  <2>4. DOMAIN reader[c] = {"frame", "kind", "stage", "inline"}
    BY <2>3
  <2>5. "at" \notin {"frame", "kind", "stage", "inline"}
    OBVIOUS
  <2> QED
    BY <2>2, <2>4, <2>5
<1> DEFINE num == [x \in Entered(c) |-> IF x \in disp[c] THEN x.frame ELSE read[c]]
<1>3. ASSUME NEW x \in Entered(c)
      PROVE  \/ x \in disp[c] /\ num[x] = x.frame
             \/ /\ x \notin disp[c] /\ x = reader[c] /\ reader[c].at \in {"recheck", "acquire"}
                /\ num[x] = read[c]
  BY DEF Entered
<1>4. \A x \in disp[c] : x \in Entered(c) /\ num[x] = x.frame
  BY DEF Entered
<1>5. reader[c].at \in {"recheck", "acquire"} => reader[c] \in Entered(c) /\ num[reader[c]] = read[c]
  BY <1>2 DEF Entered, Pending
<1> HIDE DEF num
<1>6. \A x \in Entered(c) : num[x] \in Keys(c)
  BY <1>3 DEF Keys, Frames
<1>7. ASSUME NEW x \in Entered(c), NEW y \in Entered(c), num[x] = num[y] PROVE x = y
  <2>1. reader[c].at \in {"recheck", "acquire"} => \A d \in disp[c] : d.frame # read[c]
    BY <1>1 DEF Frames, Pending
  <2> QED
    BY <1>1, <1>3, <1>7, <2>1 DEF Distinct
<1>8. \A n \in Keys(c) : \E x \in Entered(c) : num[x] = n
  BY <1>4, <1>5 DEF Keys, Frames
<1> QED
  BY <1>6, <1>7, <1>8 DEF num

LEMMA CountIsHonest ==
  ASSUME PipelineIInv
  PROVE  CountHonest
<1> DEFINE E == UNION {{<<c, x>> : x \in Entered(c)} : c \in Conns}
           num(c, x) == IF x \in disp[c] THEN x.frame ELSE read[c]
           f == [t \in E |-> <<t[1], num(t[1], t[2])>>]
<1>1. \A c \in Conns : /\ \A x \in Entered(c) : num(c, x) \in Keys(c)
                       /\ \A x, y \in Entered(c) : num(c, x) = num(c, y) => x = y
                       /\ \A n \in Keys(c) : \E x \in Entered(c) : num(c, x) = n
  BY EnteredIs
<1> HIDE DEF num
<1>2. \A t : t \in E <=> \E c \in Conns : \E x \in Entered(c) : t = <<c, x>>
  OBVIOUS
<1>3. \A k : k \in UnderWay <=> \E b \in Conns : \E n \in Keys(b) : k = <<b, n>>
  BY DEF UnderWay
<1> HIDE DEF E
<1>4. \A c \in Conns : \A x \in Entered(c) : <<c, x>> \in E /\ f[<<c, x>>] = <<c, num(c, x)>>
  BY <1>2
<1>5. f \in [E -> UnderWay]
  <2>1. ASSUME NEW t \in E PROVE <<t[1], num(t[1], t[2])>> \in UnderWay
    <3>1. PICK c \in Conns : \E x \in Entered(c) : t = <<c, x>>
      BY <1>2
    <3>2. PICK x \in Entered(c) : t = <<c, x>>
      BY <3>1
    <3>3. <<c, num(c, x)>> \in UnderWay
      BY <1>1, <1>3
    <3> QED
      BY <3>2, <3>3
  <2> QED
    BY <2>1
<1> HIDE DEF f
<1>6. ASSUME NEW s \in E, NEW t \in E, f[s] = f[t] PROVE s = t
  <2>1. PICK c \in Conns : \E x \in Entered(c) : s = <<c, x>>
    BY <1>2
  <2>2. PICK x \in Entered(c) : s = <<c, x>>
    BY <2>1
  <2>3. PICK b \in Conns : \E y \in Entered(b) : t = <<b, y>>
    BY <1>2
  <2>4. PICK y \in Entered(b) : t = <<b, y>>
    BY <2>3
  <2>5. c = b /\ num(c, x) = num(b, y)
    BY <1>4, <1>6, <2>2, <2>4
  <2> QED
    BY <1>1, <2>2, <2>4, <2>5
<1>7. ASSUME NEW k \in UnderWay PROVE \E t \in E : f[t] = k
  <2>1. PICK b \in Conns : \E n \in Keys(b) : k = <<b, n>>
    BY <1>3
  <2>2. PICK n \in Keys(b) : k = <<b, n>>
    BY <2>1
  <2>3. PICK x \in Entered(b) : num(b, x) = n
    BY <1>1
  <2> QED
    BY <1>4, <2>2, <2>3
<1>8. IsFiniteSet(UnderWay) /\ inflight = Cardinality(UnderWay)
  BY DEF PipelineIInv, CountOK
<1>9. Cardinality(E) = Cardinality(UnderWay)
  BY <1>5, <1>6, <1>7, <1>8, AsMany
<1> QED
  BY <1>8, <1>9 DEF CountHonest, E

LEMMA InvariantIsEnough ==
  ASSUME PipelineIInv
  PROVE  PipelineInv /\ CleanExit
<1>1. inflight \in Nat
  BY FS_CardinalityType DEF PipelineIInv, CountOK
<1>2. ASSUME NEW c \in Conns
      PROVE  /\ reader[c].at \in {"top", "read", "submit", "count", "recheck", "acquire",
                                  "inline", "closed"}
             /\ disp[c] \subseteq [frame : 1..MaxFrames[c], kind : Kinds, stage : Stages,
                                    inline : BOOLEAN]
             /\ permits[c] = MaxInflight - Cardinality(disp[c]) /\ permits[c] >= 0
             /\ reader[c].at = "inline" <=> \E d \in disp[c] : d.inline
  <2>1. ConnTypeOK(c) /\ InlineOK(c) /\ PermitsOK(c)
    BY DEF PipelineIInv, ConnOK
  <2>2. reader[c].at \in Passing \cup Pending
    BY <2>1 DEF ConnTypeOK, ReaderShape
  <2>3. disp[c] \subseteq DispShape(c) /\ permits[c] >= 0
    BY <2>1 DEF ConnTypeOK
  <2>4. permits[c] = MaxInflight - Cardinality(disp[c])
    BY <2>1, DispatchesAreNumbered DEF PermitsOK
  <2>5. reader[c].at = "inline" <=> \E d \in disp[c] : d.inline
    BY <2>1 DEF InlineOK
  <2> QED
    BY <2>2, <2>3, <2>4, <2>5 DEF Passing, Pending, DispShape
<1>3. PipelineTypeOK
  BY <1>1, <1>2 DEF PipelineTypeOK, PipelineIInv, SigOK
<1>4. CleanExit
  BY DEF PipelineIInv, DrainedOK, CleanExit
<1> QED
  BY <1>3, <1>4, CountIsHonest DEF PipelineInv

-----------------------------------------------------------------------------

(* DrainGate and the semaphore of a connection: for any number of          *)
(* connections, permits and requests, the in-flight count is that of the   *)
(* replies under way and a permit is out for every dispatch, however the   *)
(* loops, the dispatches and the drain interleave.                         *)
THEOREM PipelineCounts == Spec => []PipelineInv
<1>1. Init => PipelineIInv
  BY PipelineInit
<1>2. PipelineIInv /\ [Next]_vars => PipelineIInv'
  BY PipelineStep
<1>3. PipelineIInv => PipelineInv
  BY InvariantIsEnough
<1> QED
  BY <1>1, <1>2, <1>3, PTL DEF Spec

(* nfs_main: once the drain has seen a count of zero, no reply is under    *)
(* way and none is ever started: a request that slipped past the first     *)
(* check is turned back by the second.                                     *)
THEOREM DrainExitsClean == Spec => []CleanExit
<1>1. Init => PipelineIInv
  BY PipelineInit
<1>2. PipelineIInv /\ [Next]_vars => PipelineIInv'
  BY PipelineStep
<1>3. PipelineIInv => CleanExit
  BY InvariantIsEnough
<1> QED
  BY <1>1, <1>2, <1>3, PTL DEF Spec

=============================================================================
