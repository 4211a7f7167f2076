-------------------------- MODULE ForgeServeProofs --------------------------
(***************************************************************************)
(* ServeInv for every term and every delay of a renewal that leaves the    *)
(* renewer three heartbeats beside the one renewal: two that the progress  *)
(* gate may skip where a phase begins, and the one until the ticker fires. *)
(* TLC finds a server at work deposed with one heartbeat less.             *)
(***************************************************************************)
EXTENDS ForgeServe, TLAPS

\* The phase leaves claiming as the restore begins and is pushing during a
\* batch; the loop's own renewals are those of the stages that have one.
Phases ==
  /\ stage = "claimed" <=> facts.phase = "claiming"
  /\ facts.phase = "pushing" => stage \in {"batch", "exited"}
  /\ gate = "loop" => stage \in {"reclaim", "batch", "sweep", "tick"}

\* Only a deposed server is fenced, and only a fenced one's renewer returns.
FenceTrue ==
  /\ fenced => deposed
  /\ renewer = "returned" => fenced

\* The heartbeats a renewer that waits for its ticker may have missed.  The
\* gate skips one when the import begins and one when a batch does; what
\* moved since then sees the next one through.
WaitingKept ==
  renewer = "waiting" =>
    IF due
    THEN /\ missed <= 3
         /\ missed >= 2 => moved \/ facts.phase \notin {"claiming", "importing"}
         /\ missed = 3 => moved
    ELSE /\ missed <= 2
         /\ missed >= 1 => facts.phase # "claiming"
         /\ missed = 2 => moved \/ facts.phase = "pushing"

\* A renewal that waits for the gate or for its answer has missed the time
\* that one request took at most: the loop's request, when it lands, renews.
SendingKept ==
  renewer \in {"queued", "renewing"} =>
    missed <= 3 + (IF gate = "free" THEN 0 ELSE hang)

\* A server whose renewals land and whose work moves.
LeaseKept == ~ faulted => ~ deposed /\ (Alive => WaitingKept /\ SendingKept)

\* The facts are refreshed at every attempt: how far the heartbeats have
\* come since, by what the renewer is waiting for.
Behind ==
  IF renewer = "waiting" THEN (IF due THEN 1 ELSE 0)
  ELSE IF renewer = "queued" THEN 1 + (IF gate = "loop" THEN hang ELSE MaxHang)
  ELSE 1 + MaxHang + hang
FactsRecent ==
  Alive /\ ~ fenced /\ ~ facts.overdue => missed <= QuietPolls + Behind

ServeIInv == ServeTypeOK /\ Phases /\ FenceTrue /\ LeaseKept /\ FactsRecent

-----------------------------------------------------------------------------
USE DEF Alive

\* What is true of every instance.
Room == QuietPolls \in Nat /\ MaxHang \in Nat /\ QuietPolls > MaxHang + 3

\* ServeTypeOK in three parts: what is Boolean, the facts, and the rest.
Flags ==
  /\ due \in BOOLEAN /\ moved \in BOOLEAN /\ fenced \in BOOLEAN /\ open \in BOOLEAN
  /\ waiting \in BOOLEAN /\ deposed \in BOOLEAN /\ wedged \in BOOLEAN
  /\ faulted \in BOOLEAN
FactsOK == facts \in [phase: Phase, fenced: BOOLEAN, overdue: BOOLEAN]
Shape ==
  /\ stage \in Stage
  /\ renewer \in {"waiting", "queued", "renewing", "returned"}
  /\ gate \in {"free", "renewer", "loop"}
  /\ gate = "renewer" <=> renewer = "renewing"
  /\ hang \in 0..MaxHang
  /\ missed \in 0..MissedCap
  /\ woken \in {"absent", "no", "yes"}

LEMMA TypeParts == ServeTypeOK <=> Flags /\ FactsOK /\ Shape
  BY Zenon DEF ServeTypeOK, Flags, FactsOK, Shape

LEMMA FlagsStep ==
  ASSUME Flags, ServeNext PROVE Flags'
<1> USE DEF Flags
<1>1. CASE Beat BY <1>1, Zenon DEF Beat
<1>2. CASE Depose BY <1>2, Zenon DEF Depose
<1>3. CASE Wedge BY <1>3, Zenon DEF Wedge
<1>4. CASE Arrive BY <1>4, Zenon DEF Arrive
<1>5. CASE RenewerTick BY <1>5, Zenon DEF RenewerTick
<1>6. CASE RenewerSends BY <1>6, Zenon DEF RenewerSends
<1>7. CASE RenewerAnswered BY <1>7, Zenon DEF RenewerAnswered, Fence
<1>8. CASE LoopSends BY <1>8, Zenon DEF LoopSends
<1>9. CASE LoopAnswered BY <1>9, Zenon DEF LoopAnswered, Fence, Exit
<1>10. CASE Start
  BY <1>10, Zenon DEF Start, StartRestore, RestoreDone, ReclaimDone, SweepDone, PublishServing,
     OpenDoor, Subscribe, HoldVars, Go, Exit
<1>11. CASE Work BY <1>11, Zenon DEF Work, HoldVars
<1>12. CASE Fail BY <1>12, Zenon DEF Fail, HoldVars, Exit
<1>13. CASE FenceArm BY <1>13, Zenon DEF FenceArm, HoldVars, Exit
<1>14. CASE StartBatch BY <1>14, Zenon DEF StartBatch, HoldVars, Go, Exit
<1>15. CASE Tick BY <1>15, Zenon DEF Tick, HoldVars, Go, Exit
<1>16. CASE Term BY <1>16, Zenon DEF Term, HoldVars
<1>17. CASE Finish
  BY <1>17, Zenon DEF Finish, BatchDone, ExportDone, TickDone, Released, Delivered, HoldVars, Exit
<1>18. CASE Ended BY <1>18, Zenon DEF Ended, vars
<1> QED BY <1>1, <1>2, <1>3, <1>4, <1>5, <1>6, <1>7, <1>8, <1>9, <1>10, <1>11, <1>12,
           <1>13, <1>14, <1>15, <1>16, <1>17, <1>18, Zenon DEF ServeNext, Renewer

\* What is published of the lease.
LEMMA Published ==
  ASSUME Room, Shape, Flags, NEW phase \in Phase, Publish(phase) PROVE FactsOK'
<1>1. Overdue \in BOOLEAN BY SMT DEF Overdue, Room, Shape, MissedCap
<1>2. fenced \in BOOLEAN BY DEF Flags
<1> DEFINE o == Overdue
<1>3. facts' = [phase |-> phase, fenced |-> fenced, overdue |-> o] BY DEF Publish
<1>4. o \in BOOLEAN BY <1>1
<1> HIDE DEF o
<1> QED BY <1>2, <1>3, <1>4 DEF FactsOK

LEMMA Restated ==
  ASSUME FactsOK, NEW o \in BOOLEAN, facts' = [facts EXCEPT !.overdue = o]
  PROVE  FactsOK'
  BY DEF FactsOK

LEMMA FactsStep ==
  ASSUME Room, Shape, Flags, FactsOK, ServeNext PROVE FactsOK'
<1>0. /\ "importing" \in Phase /\ "serving" \in Phase /\ "pushing" \in Phase
      /\ "draining" \in Phase
  BY DEF Phase
<1>1. CASE UNCHANGED facts BY <1>1 DEF FactsOK
<1>2. CASE \E phase \in Phase : Publish(phase) BY <1>2, Published
<1>3. CASE RenewerTick
  <2>1. Overdue \in BOOLEAN BY SMT DEF Overdue, Room, Shape, MissedCap
  <2>2. CASE renewer' = "waiting"
    <3>1. facts' = [facts EXCEPT !.overdue = Overdue] BY <1>3, <2>2 DEF RenewerTick
    <3> QED BY <2>1, <3>1, Restated
  <2>3. CASE renewer' # "waiting" BY <1>1, <1>3, <2>3 DEF RenewerTick
  <2> QED BY <2>2, <2>3
<1>4. CASE RenewerAnswered
  <2>1. Refreshed(0) \in BOOLEAN /\ Refreshed(missed) \in BOOLEAN 
    BY SMT DEF Refreshed, Room, Shape, MissedCap
  <2>2. \/ facts' = [facts EXCEPT !.overdue = Refreshed(0)]
        \/ facts' = [facts EXCEPT !.overdue = Refreshed(missed)]
        \/ UNCHANGED facts
    BY <1>4, Zenon DEF RenewerAnswered
  <2> QED BY <1>1, <2>1, <2>2, Restated
<1>5. CASE Start \/ Work \/ Fail \/ FenceArm \/ StartBatch \/ Tick \/ Term \/ Finish
  BY <1>0, <1>1, <1>2, <1>5, Zenon DEF Start, StartRestore, RestoreDone, ReclaimDone, SweepDone,
     PublishServing, OpenDoor, Subscribe, Work, Fail, FenceArm, StartBatch, Tick, Term,
     Finish, BatchDone, ExportDone, TickDone, Released
<1>6. CASE Beat \/ Depose \/ Wedge \/ Arrive \/ RenewerSends \/ LoopSends \/ LoopAnswered \/ Ended
  BY <1>1, <1>6, Zenon DEF Beat, Depose, Wedge, Arrive, RenewerSends, LoopSends, LoopAnswered,
     Ended, vars
<1> QED BY <1>3, <1>4, <1>5, <1>6, Zenon DEF ServeNext, Renewer

LEMMA ShapeStep ==
  ASSUME Room, Shape, ServeNext PROVE Shape'
<1> USE DEF Room, Shape, Stage, MissedCap
<1>1. CASE Beat BY <1>1 DEF Beat
<1>2. CASE Depose BY <1>2 DEF Depose
<1>3. CASE Wedge BY <1>3 DEF Wedge
<1>4. CASE Arrive BY <1>4 DEF Arrive
<1>5. CASE RenewerTick BY <1>5 DEF RenewerTick
<1>6. CASE RenewerSends BY <1>6 DEF RenewerSends, GateFree
<1>7. CASE RenewerAnswered BY <1>7 DEF RenewerAnswered, Fence
<1>8. CASE LoopSends BY <1>8 DEF LoopSends, GateFree
<1>9. CASE LoopAnswered BY <1>9 DEF LoopAnswered, Fence, Exit, AfterError
<1>10. CASE Start
  BY <1>10 DEF Start, StartRestore, RestoreDone, ReclaimDone, SweepDone, PublishServing,
     OpenDoor, Subscribe, HoldVars, Go, Exit
<1>11. CASE Work BY <1>11 DEF Work, HoldVars
<1>12. CASE Fail BY <1>12 DEF Fail, HoldVars, Exit
<1>13. CASE FenceArm BY <1>13 DEF FenceArm, HoldVars, Exit
<1>14. CASE StartBatch BY <1>14 DEF StartBatch, HoldVars, Go, Exit
<1>15. CASE Tick BY <1>15 DEF Tick, HoldVars, Go, Exit
<1>16. CASE Term BY <1>16 DEF Term, HoldVars
<1>17. CASE Finish
  BY <1>17 DEF Finish, BatchDone, ExportDone, TickDone, Released, HoldVars, Exit
<1>18. CASE Ended BY <1>18 DEF Ended, vars
<1> QED BY <1>1, <1>2, <1>3, <1>4, <1>5, <1>6, <1>7, <1>8, <1>9, <1>10, <1>11, <1>12,
           <1>13, <1>14, <1>15, <1>16, <1>17, <1>18 DEF ServeNext, Renewer

-----------------------------------------------------------------------------
\* What a step may do to the facts: a phase is entered with the lease as it
\* is, the renewer refreshes the lease's part, and nobody else writes.
LEMMA FactsWritten ==
  ASSUME FactsOK, ServeNext
  PROVE  /\ facts'.phase = facts.phase
            \/ \E phase \in Phase : facts'.phase = phase /\ Publish(phase)
         /\ RenewerTick => /\ facts'.phase = facts.phase
                           /\ facts'.overdue = IF renewer' = "waiting" THEN Overdue
                                               ELSE facts.overdue
         /\ RenewerAnswered => facts'.phase = facts.phase
<1>1. \A o : LET f == [facts EXCEPT !.overdue = o] IN f.phase = facts.phase /\ f.overdue = o
  BY DEF FactsOK
<1>2. ASSUME NEW phase, Publish(phase) PROVE facts'.phase = phase
  BY <1>2 DEF Publish
<1>3. /\ "importing" \in Phase /\ "serving" \in Phase /\ "pushing" \in Phase
      /\ "draining" \in Phase
  BY DEF Phase
<1>4. RenewerTick => /\ facts'.phase = facts.phase
                     /\ facts'.overdue = IF renewer' = "waiting" THEN Overdue ELSE facts.overdue
  <2>1. RenewerTick /\ renewer' = "waiting" => facts' = [facts EXCEPT !.overdue = Overdue]
    BY DEF RenewerTick
  <2>2. RenewerTick /\ renewer' # "waiting" => facts' = facts
    BY DEF RenewerTick
  <2> QED BY <1>1, <2>1, <2>2
<1>5. RenewerAnswered => facts'.phase = facts.phase
  <2>1. RenewerAnswered => facts' = facts \/ \E o : facts' = [facts EXCEPT !.overdue = o]
    BY Zenon DEF RenewerAnswered
  <2> QED BY <1>1, <2>1
<1>6. ASSUME Start \/ Work \/ Fail \/ FenceArm \/ StartBatch \/ Tick \/ Term \/ Finish
      PROVE  facts' = facts \/ \E phase \in Phase : Publish(phase)
  BY <1>3, <1>6, Zenon DEF Start, StartRestore, RestoreDone, ReclaimDone, SweepDone,
     PublishServing, OpenDoor, Subscribe, Work, Fail, FenceArm, StartBatch, Tick, Term,
     Finish, BatchDone, ExportDone, TickDone, Released
<1>7. ASSUME Beat \/ Depose \/ Wedge \/ Arrive \/ RenewerSends \/ LoopSends \/ LoopAnswered \/ Ended
      PROVE  facts' = facts
  BY <1>7, Zenon DEF Beat, Depose, Wedge, Arrive, RenewerSends, LoopSends, LoopAnswered,
     Ended, vars
<1> QED BY <1>2, <1>4, <1>5, <1>6, <1>7, Zenon DEF ServeNext, Renewer

LEMMA PhasesStep ==
  ASSUME Shape, FactsOK, Phases, ServeNext PROVE Phases'
<1> USE DEF Idle, HoldVars, GateFree
<1>2. CASE Start
  <2> USE DEF Phases
  <2>1. CASE StartRestore BY <2>1 DEF StartRestore, Publish, Go, Exit
  <2>2. CASE RestoreDone BY <2>2 DEF RestoreDone
  <2>3. CASE ReclaimDone BY <2>3 DEF ReclaimDone
  <2>4. CASE SweepDone BY <2>4 DEF SweepDone, Go, Exit
  <2>5. CASE PublishServing BY <2>5 DEF PublishServing, Publish
  <2>6. CASE OpenDoor BY <2>6 DEF OpenDoor
  <2>7. CASE Subscribe BY <2>7 DEF Subscribe
  <2> QED BY <1>2, <2>1, <2>2, <2>3, <2>4, <2>5, <2>6, <2>7 DEF Start
<1>3. CASE Finish
  BY <1>3 DEF Phases, Finish, BatchDone, ExportDone, TickDone, Released, Exit, Publish
<1>4. CASE Work \/ Fail \/ FenceArm \/ StartBatch \/ Tick \/ Term
  BY <1>4 DEF Phases, Work, Fail, FenceArm, StartBatch, Tick, Term, Exit, Publish, Go
<1>5. CASE Beat \/ Depose \/ Wedge \/ Arrive \/ RenewerSends \/ LoopSends \/ Ended
  BY <1>5 DEF Phases, Beat, Depose, Wedge, Arrive, RenewerSends, LoopSends, Ended, vars
<1>6. CASE LoopAnswered
  <2>1. /\ stage # "claimed" /\ stage' # "claimed"
        /\ stage \in {"batch", "exited"} => stage' \in {"batch", "exited"}
    BY <1>6 DEF Phases, LoopAnswered, Exit, AfterError
  <2>2. facts' = facts /\ gate' = "free" BY <1>6 DEF LoopAnswered
  <2> QED BY <2>1, <2>2 DEF Phases
<1>7. CASE RenewerTick \/ RenewerAnswered
  <2>1. facts'.phase = facts.phase BY <1>7, FactsWritten
  <2>2. stage' = stage /\ (gate' = "loop" => gate = "loop")
    BY <1>7 DEF RenewerTick, RenewerAnswered
  <2> QED BY <2>1, <2>2 DEF Phases
<1> QED BY <1>2, <1>3, <1>4, <1>5, <1>6, <1>7 DEF ServeNext, Renewer

LEMMA FenceTrueStep ==
  ASSUME Shape, FenceTrue, ServeNext PROVE FenceTrue'
<1> USE DEF FenceTrue
<1>1. CASE Beat \/ Depose \/ Wedge \/ Arrive
  BY <1>1 DEF Beat, Depose, Wedge, Arrive
<1>2. CASE RenewerTick BY <1>2 DEF RenewerTick
<1>3. CASE RenewerSends BY <1>3 DEF RenewerSends
<1>4. CASE RenewerAnswered BY <1>4 DEF RenewerAnswered, Fence
<1>5. CASE LoopSends \/ LoopAnswered BY <1>5 DEF LoopSends, LoopAnswered, Fence
<1>6. CASE Start \/ Work \/ Fail \/ FenceArm \/ StartBatch \/ Tick \/ Term \/ Finish
  BY <1>6 DEF Start, StartRestore, RestoreDone, ReclaimDone, SweepDone,
     PublishServing, OpenDoor, Subscribe, Work, Fail, FenceArm, StartBatch, Tick, Term,
     Finish, BatchDone, ExportDone, TickDone, Released, HoldVars
<1>7. CASE Ended BY <1>7 DEF Ended, vars
<1> QED BY <1>1, <1>2, <1>3, <1>4, <1>5, <1>6, <1>7 DEF ServeNext, Renewer

\* A step of server::run writes neither the renewer's part nor the clock's;
\* a phase begins only after the one before it, and a batch ends with work.
LEMMA RunWrites ==
  ASSUME Shape, FactsOK, Phases, ServeNext,
         Start \/ Work \/ Fail \/ FenceArm \/ StartBatch \/ Tick \/ Term \/ Finish
  PROVE  /\ UNCHANGED <<renewer, gate, hang, due, missed, fenced, deposed, faulted>>
         /\ moved => moved'
         /\ ~ (stage = "exited" /\ stage' # "exited")
         /\ facts' = facts \/ \E phase \in Phase : Publish(phase)
         /\ facts.phase # "claiming" => facts'.phase # "claiming"
         /\ facts.phase \notin {"claiming", "importing"} =>
               facts'.phase \notin {"claiming", "importing"}
         /\ facts.phase = "pushing" => moved' \/ facts'.phase = "pushing"
<1> USE DEF HoldVars, Phases, Exit, Go
<1>1. CASE Start
  BY <1>1 DEF Start, StartRestore, RestoreDone, ReclaimDone, SweepDone,
     PublishServing, OpenDoor, Subscribe, Publish, Phase
<1>2. CASE Work \/ Fail \/ FenceArm \/ StartBatch \/ Tick \/ Term
  BY <1>2 DEF Work, Fail, FenceArm, StartBatch, Tick, Term, Publish, Phase
<1>3. CASE Finish
  BY <1>3 DEF Finish, BatchDone, ExportDone, TickDone, Released, Publish, Phase
<1> QED BY <1>1, <1>2, <1>3

-----------------------------------------------------------------------------
\* A server whose renewals land and whose work moves keeps its lease.
LEMMA LeaseKeptStep ==
  ASSUME Room, Flags, Shape, FactsOK, Phases, FenceTrue, LeaseKept, ServeNext
  PROVE  LeaseKept'
<1> SUFFICES ASSUME ~ faulted' PROVE ~ deposed' /\ (Alive' => WaitingKept' /\ SendingKept')
  BY DEF LeaseKept
<1> USE DEF Shape, MissedCap, Room
<1>0. ~ faulted
  BY DEF ServeNext, Beat, Depose, Wedge, Arrive, Renewer, RenewerTick, RenewerSends,
     RenewerAnswered, LoopSends, LoopAnswered, Start, StartRestore, RestoreDone, ReclaimDone,
     SweepDone, PublishServing, OpenDoor, Subscribe, Work, Fail, FenceArm, StartBatch, Tick,
     Term, Finish, BatchDone, ExportDone, TickDone, Released, HoldVars, Ended, vars
<1>1. ~ deposed /\ ~ fenced /\ (Alive => WaitingKept /\ SendingKept)
  BY <1>0 DEF LeaseKept, FenceTrue
<1>2. Alive => missed <= MaxHang + 3
  <2>1. renewer # "returned" BY <1>1 DEF FenceTrue
  <2>2. CASE renewer = "waiting" BY <1>1, <2>2 DEF WaitingKept
  <2>3. CASE renewer \in {"queued", "renewing"} BY <1>1, <2>3 DEF SendingKept
  <2> QED BY <2>1, <2>2, <2>3
<1>3. CASE Beat
  <2>1. /\ Alive /\ Alive' /\ ~ Prompt /\ due' /\ missed' = missed + 1
        /\ moved' = moved /\ facts' = facts /\ deposed' = deposed /\ renewer' = renewer
        /\ gate' = gate /\ (gate # "free" => hang' = hang + 1)
        /\ ~ MustProgress \/ moved
    <3>1. /\ Alive /\ Alive' /\ ~ Prompt /\ due' = TRUE
          /\ missed' = IF missed < MissedCap THEN missed + 1 ELSE missed
          /\ moved' = moved /\ facts' = facts /\ deposed' = deposed /\ renewer' = renewer
          /\ gate' = gate /\ hang' = IF gate # "free" THEN hang + 1 ELSE 0
      BY <1>3 DEF Beat
    <3>2. missed < MissedCap BY <1>2, <3>1
    <3>3. ~ MustProgress \/ moved BY <1>3 DEF Beat
    <3> QED BY <3>1, <3>2, <3>3
  <2>2. WaitingKept'
    <3> SUFFICES ASSUME renewer = "waiting"
                 PROVE  /\ missed' <= 3
                        /\ missed' >= 2 => moved \/ facts.phase \notin {"claiming", "importing"}
                        /\ missed' = 3 => moved
      BY <2>1 DEF WaitingKept
    <3>1. ~ due BY <2>1 DEF Prompt
    <3> QED BY <1>1, <2>1, <3>1 DEF WaitingKept, MustProgress
  <2>3. SendingKept'
    BY <1>1, <2>1 DEF SendingKept, Prompt
  <2> QED BY <1>1, <2>1, <2>2, <2>3
<1>4. CASE Depose BY <1>2, <1>4 DEF Depose
<1>5. CASE Wedge \/ Arrive
  BY <1>1, <1>5 DEF Wedge, Arrive, WaitingKept, SendingKept
<1>6. CASE RenewerTick
  <2>1. /\ Alive /\ Alive' /\ renewer = "waiting" /\ due /\ ~ due'
        /\ deposed' = deposed /\ missed' = missed /\ gate' = gate /\ hang' = hang
        /\ renewer' = IF HeartbeatGated THEN "waiting" ELSE "queued"
        /\ HeartbeatGated => moved' = moved
    BY <1>1, <1>6 DEF RenewerTick
  <2>2. facts'.phase = facts.phase BY <1>6, FactsWritten
  <2>3. CASE HeartbeatGated
    <3>1. facts.phase \in {"importing", "pushing"} /\ ~ moved
      BY <2>3 DEF HeartbeatGated, MustProgress
    <3> QED BY <1>1, <2>1, <2>2, <2>3, <3>1 DEF WaitingKept, SendingKept
  <2>4. CASE ~ HeartbeatGated
    BY <1>1, <2>1, <2>4 DEF WaitingKept, SendingKept
  <2> QED BY <2>3, <2>4
<1>7. CASE RenewerSends
  BY <1>1, <1>7 DEF RenewerSends, GateFree, WaitingKept, SendingKept
<1>8. CASE RenewerAnswered
  <2>1. missed' = 0 /\ renewer' = "waiting" /\ ~ deposed'
    BY <1>1, <1>8 DEF RenewerAnswered
  <2> QED BY <2>1 DEF WaitingKept, SendingKept
<1>9. CASE LoopSends
  <2>1. /\ renewer' = renewer /\ due' = due /\ missed' = missed /\ moved' = moved
        /\ facts' = facts /\ deposed' = deposed /\ stage' = stage /\ renewer # "queued"
        /\ gate = "free" /\ gate' = "loop" /\ hang' = 0
    BY <1>9 DEF LoopSends, GateFree
  <2> QED BY <1>1, <2>1 DEF WaitingKept, SendingKept
<1>10. CASE LoopAnswered
  <2>1. /\ missed' = 0 /\ renewer' = renewer /\ ~ deposed' /\ gate' = "free"
    BY <1>1, <1>10 DEF LoopAnswered
  <2> QED BY <2>1 DEF WaitingKept, SendingKept
<1>11. CASE Start \/ Work \/ Fail \/ FenceArm \/ StartBatch \/ Tick \/ Term \/ Finish
  <2>1. /\ UNCHANGED <<renewer, gate, hang, due, missed, fenced, deposed, faulted>>
        /\ moved => moved'
        /\ ~ (stage = "exited" /\ stage' # "exited")
        /\ facts.phase # "claiming" => facts'.phase # "claiming"
        /\ facts.phase \notin {"claiming", "importing"} =>
              facts'.phase \notin {"claiming", "importing"}
        /\ facts.phase = "pushing" => moved' \/ facts'.phase = "pushing"
    BY <1>11, RunWrites
  <2> QED BY <1>1, <2>1 DEF WaitingKept, SendingKept
<1>12. CASE Ended
  BY <1>1, <1>12 DEF Ended, vars
<1> QED BY <1>3, <1>4, <1>5, <1>6, <1>7, <1>8, <1>9, <1>10, <1>11, <1>12
        DEF ServeNext, Renewer

\* The heartbeats since the facts were refreshed are those of one attempt.
LEMMA FactsRecentStep ==
  ASSUME Room, Flags, Shape, FactsOK, Phases, FenceTrue, FactsRecent, ServeNext
  PROVE  FactsRecent'
<1> USE DEF Shape, MissedCap, Room
<1> DEFINE m == missed'
           n == Behind'
<1>1. n \in Nat /\ m \in Nat
  BY ShapeStep DEF Behind, m, n
<1> SUFFICES ASSUME Alive', ~ fenced', ~ facts'.overdue
             PROVE  m <= QuietPolls + n
  BY DEF FactsRecent
<1> HIDE DEF m, n
<1>2. ASSUME \E phase \in Phase : Publish(phase), missed' = missed
      PROVE  m <= QuietPolls + n
  <2>1. facts'.overdue = Overdue BY <1>2 DEF Publish
  <2>2. ~ Overdue BY <2>1, Zenon
  <2>3. missed <= QuietPolls BY <2>2 DEF Overdue
  <2> QED BY <1>1, <1>2, <2>3 DEF m
<1>3. CASE Beat
  <2>1. /\ Alive /\ ~ Prompt /\ due' = TRUE /\ missed' <= missed + 1 /\ facts' = facts
        /\ renewer' = renewer /\ gate' = gate /\ fenced' = fenced
        /\ hang' = IF gate # "free" THEN hang + 1 ELSE 0
    BY <1>3 DEF Beat
  <2>2. missed <= QuietPolls + Behind BY <2>1 DEF FactsRecent
  <2>3. CASE renewer = "waiting" BY <1>1, <2>1, <2>2, <2>3 DEF Behind, Prompt, m, n
  <2>4. CASE renewer = "queued"
    <3>1. gate = "loop" BY <2>1, <2>4 DEF Prompt
    <3> QED BY <1>1, <2>1, <2>2, <2>4, <3>1 DEF Behind, m, n
  <2>5. CASE renewer = "renewing" BY <1>1, <2>1, <2>2, <2>5 DEF Behind, m, n
  <2> QED BY <2>1, <2>3, <2>4, <2>5 DEF FenceTrue
<1>4. CASE Depose \/ Wedge \/ Arrive
  BY <1>4 DEF Depose, Wedge, Arrive, FactsRecent, Behind, m, n
<1>5. CASE RenewerTick
  <2>1. /\ Alive /\ renewer = "waiting" /\ due /\ missed' = missed /\ fenced' = fenced
        /\ gate' = gate /\ hang' = hang /\ renewer' \in {"waiting", "queued"}
    BY <1>5 DEF RenewerTick
  <2>2. facts'.overdue = IF renewer' = "waiting" THEN Overdue ELSE facts.overdue
    BY <1>5, FactsWritten
  <2>3. CASE renewer' = "waiting"
    <3>1. ~ Overdue BY <2>2, <2>3, Zenon
    <3> QED BY <1>1, <2>1, <3>1 DEF Overdue, m
  <2>4. CASE renewer' = "queued"
    <3>1. missed <= QuietPolls + 1 BY <2>1, <2>2, <2>4 DEF FactsRecent, Behind, m, n
    <3> QED BY <2>1, <2>4, <3>1 DEF Behind, m, n
  <2> QED BY <2>1, <2>3, <2>4
<1>6. CASE RenewerSends
  <2>1. /\ renewer = "queued" /\ gate = "free" /\ renewer' = "renewing" /\ hang' = 0
        /\ missed' = missed /\ fenced' = fenced /\ facts' = facts /\ Alive
    BY <1>6 DEF RenewerSends, GateFree
  <2> QED BY <2>1 DEF FactsRecent, Behind, m, n
<1>7. CASE RenewerAnswered
  <2>1. \/ missed' = 0
        \/ missed' = missed /\ facts' = [facts EXCEPT !.overdue = Refreshed(missed)]
    BY <1>7 DEF RenewerAnswered, Fence
  <2>2. CASE missed' = 0 BY <1>1, <2>2 DEF m
  <2>3. CASE missed' = missed /\ facts' = [facts EXCEPT !.overdue = Refreshed(missed)]
    <3> DEFINE o == Refreshed(missed)
    <3>1. facts' = [facts EXCEPT !.overdue = o] BY <2>3
    <3> HIDE DEF o
    <3>2. facts'.overdue = o BY <3>1 DEF FactsOK
    <3>3. ~ Refreshed(missed) BY <3>2 DEF o
    <3>4. missed <= QuietPolls BY <3>3 DEF Refreshed
    <3> QED BY <1>1, <2>3, <3>4 DEF m
  <2> QED BY <2>1, <2>2, <2>3
<1>8. CASE LoopSends
  <2>1. /\ renewer' = renewer /\ due' = due /\ missed' = missed /\ fenced' = fenced
        /\ facts' = facts /\ stage' = stage /\ renewer # "queued" /\ gate = "free"
    BY <1>8 DEF LoopSends, GateFree
  <2> QED BY <2>1 DEF FactsRecent, Behind, FenceTrue, m, n
<1>9. CASE LoopAnswered
  <2>1. /\ gate = "loop" /\ gate' = "free" /\ renewer' = renewer /\ due' = due
        /\ facts' = facts /\ missed' \in {0, missed} /\ fenced' = fenced
    BY <1>9 DEF LoopAnswered, Fence
  <2>2. Alive BY <2>1 DEF Phases
  <2>3. CASE missed' = 0 BY <1>1, <2>3 DEF m
  <2>4. CASE missed' = missed
    BY <2>1, <2>2, <2>4 DEF FactsRecent, Behind, FenceTrue, m, n
  <2> QED BY <2>1, <2>3, <2>4
<1>10. CASE Start \/ Work \/ Fail \/ FenceArm \/ StartBatch \/ Tick \/ Term \/ Finish
  <2>1. /\ UNCHANGED <<renewer, gate, hang, due, missed, fenced, deposed, faulted>>
        /\ ~ (stage = "exited" /\ stage' # "exited")
        /\ facts' = facts \/ \E phase \in Phase : Publish(phase)
    BY <1>10, RunWrites
  <2>2. CASE facts' = facts BY <2>1, <2>2 DEF FactsRecent, Behind, m, n
  <2> QED BY <1>2, <2>1, <2>2
<1>11. CASE Ended BY <1>11 DEF Ended, vars
<1> QED BY <1>3, <1>4, <1>5, <1>6, <1>7, <1>8, <1>9, <1>10, <1>11 DEF ServeNext, Renewer

-----------------------------------------------------------------------------
LEMMA ServeIInvInit ==
  ASSUME Room, ServeInit PROVE ServeIInv
<1>1. Flags BY Zenon DEF ServeInit, Flags
<1>2. FactsOK
  <2>1. FALSE \in BOOLEAN BY Zenon
  <2>2. "claiming" \in Phase BY DEF Phase
  <2> QED BY <2>1, <2>2 DEF ServeInit, FactsOK
<1>3. Shape BY DEF Room, ServeInit, Shape, Stage, MissedCap
<1>4. Phases /\ FenceTrue /\ LeaseKept /\ FactsRecent
  BY DEF Room, ServeInit, Phases, FenceTrue, LeaseKept, WaitingKept, SendingKept,
         FactsRecent, Behind
<1> QED BY <1>1, <1>2, <1>3, <1>4, TypeParts DEF ServeIInv

LEMMA ServeIInvStep ==
  ASSUME Room, ServeIInv, [ServeNext]_vars PROVE ServeIInv'
<1>1. CASE ServeNext
  <2>1. Flags /\ FactsOK /\ Shape BY TypeParts DEF ServeIInv
  <2>2. Flags' /\ FactsOK' /\ Shape' BY <1>1, <2>1, FlagsStep, FactsStep, ShapeStep
  <2>3. ServeTypeOK' BY <2>2, Zenon DEF ServeTypeOK, Flags, FactsOK, Shape
  <2>4. Phases' /\ FenceTrue' /\ LeaseKept' /\ FactsRecent'
    BY <1>1, <2>1, PhasesStep, FenceTrueStep, LeaseKeptStep, FactsRecentStep DEF ServeIInv
  <2> QED BY <2>3, <2>4 DEF ServeIInv
<1>2. CASE UNCHANGED vars
  <2>1. ServeTypeOK' = ServeTypeOK BY <1>2, Zenon DEF vars, ServeTypeOK
  <2>2. Phases' = Phases BY <1>2, Zenon DEF vars, Phases
  <2>3. FenceTrue' = FenceTrue BY <1>2, Zenon DEF vars, FenceTrue
  <2>4. LeaseKept' = LeaseKept
    BY <1>2, Zenon DEF vars, LeaseKept, WaitingKept, SendingKept
  <2>5. FactsRecent' = FactsRecent BY <1>2, Zenon DEF vars, FactsRecent, Behind
  <2> QED BY <2>1, <2>2, <2>3, <2>4, <2>5 DEF ServeIInv
<1> QED BY <1>1, <1>2

LEMMA ServeIInvImplies ==
  ASSUME Room, ServeIInv PROVE ServeInv
<1>1. Flags /\ FactsOK /\ Shape BY TypeParts DEF ServeIInv
<1>2. LiveKeepsLease BY DEF ServeIInv, LeaseKept, LiveKeepsLease
<1>3. ASSUME Ready, ~ fenced PROVE missed <= QuietPolls + 1 + 2 * MaxHang
  <2>1. Alive /\ ~ facts.overdue BY <1>3 DEF Ready
  <2>2. missed <= QuietPolls + Behind BY <1>3, <2>1 DEF ServeIInv, FactsRecent
  <2>3. Behind <= 1 + 2 * MaxHang BY <1>1 DEF Behind, Shape, Room
  <2>4. Behind \in Nat BY <1>1 DEF Behind, Shape, Room
  <2> QED BY <1>1, <2>2, <2>3, <2>4 DEF Room, Shape, MissedCap
<1> QED BY <1>2, <1>3 DEF ServeInv, ServeIInv, ReadyIsRecent

\* The lease outlives the work (spawn_renewer): if the term is longer than
\* one renewal and three heartbeats, a server whose renewals land and whose
\* work moves is never deposed, and one that answers ready has renewed within
\* the term, a heartbeat and two renewals, on every path of server::run.
THEOREM ServeKeepsLease ==
  ASSUME QuietPolls > MaxHang + 3
  PROVE  ServeSpec => []ServeInv
<1>0. Room BY ServeAssumption DEF Room
<1>1. ServeInit => ServeIInv BY <1>0, ServeIInvInit
<1>2. ServeIInv /\ [ServeNext]_vars => ServeIInv' BY <1>0, ServeIInvStep
<1>3. ServeIInv => ServeInv BY <1>0, ServeIInvImplies
<1> QED BY <1>1, <1>2, <1>3, PTL DEF ServeSpec

=============================================================================
