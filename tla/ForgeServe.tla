----------------------------- MODULE ForgeServe -----------------------------
(***************************************************************************)
(* One forge server from its claim to its exit (server::run): the serving  *)
(* loop, the renewer task beside it, the fence they share (Hold) and the   *)
(* readiness /healthz answers (Facts).  The bucket is an environment that  *)
(* answers renewals, may depose the server, and may be slow.               *)
(*                                                                         *)
(* Time is counted in heartbeats.  The renewer's ticker fires on each, and *)
(* the task runs promptly when it does; a renewal may take up to MaxHang   *)
(* heartbeats (the store client's read timeout and retries).  A challenger *)
(* deposes only a server whose token it saw unmoved for QuietPolls         *)
(* heartbeats (TakeoverAfterQuiet of ForgeLease).                          *)
(***************************************************************************)
EXTENDS Naturals

CONSTANTS
  QuietPolls,   \* QUIET_POLLS: the term, in heartbeats
  MaxHang,      \* heartbeats one renewal may take
  Folding       \* fold_factor > 0

ASSUME ServeAssumption ==
  /\ QuietPolls \in Nat \ {0}
  /\ MaxHang \in Nat
  /\ Folding \in BOOLEAN

VARIABLES
  stage,     \* where server::run is
  renewer,   \* where the renewer task is
  gate,      \* who holds Hold's gate: "free", "renewer", "loop"
  hang,      \* heartbeats the renewal in flight has taken
  due,       \* the renewer's ticker has fired
  missed,    \* heartbeats since a renewal landed (saturating)
  moved,     \* Hold.progress advanced since the renewer last looked
  fenced,    \* Hold.fenced is set
  woken,     \* fenced_rx: subscribed and not woken, woken, or not yet there
  open,      \* Hold.open: the door lets pushes in
  waiting,   \* a push is in the hook channel or in the batch
  facts,     \* the Facts /status and /healthz answer from
  deposed,   \* environment: another server took the epoch
  wedged,    \* environment: the loop is stuck for good
  faulted    \* history: a renewal failed or a heartbeat passed with no work

vars == <<stage, renewer, gate, hang, due, missed, moved, fenced, woken,
          open, waiting, facts, deposed, wedged, faulted>>

Stage == {"claimed", "restore", "reclaim", "sweep", "publish", "open", "subscribe",
          "loop", "batch", "export", "tick", "drain", "exited"}
Phase == {"claiming", "importing", "serving", "pushing", "draining"}
MissedCap == QuietPolls + 2 * MaxHang + 3

ServeTypeOK ==
  /\ stage \in Stage
  /\ renewer \in {"waiting", "queued", "renewing", "returned"}
  /\ gate \in {"free", "renewer", "loop"}
  /\ gate = "renewer" <=> renewer = "renewing"
  /\ hang \in 0..MaxHang
  /\ missed \in 0..MissedCap
  /\ {due, moved, fenced, open, waiting, deposed, wedged, faulted} \subseteq BOOLEAN
  /\ woken \in {"absent", "no", "yes"}
  /\ facts \in [phase: Phase, fenced: BOOLEAN, overdue: BOOLEAN]

ServeInit ==
  /\ stage = "claimed" /\ renewer = "waiting" /\ gate = "free"
  /\ hang = 0 /\ missed = 0
  /\ due = FALSE /\ moved = FALSE /\ fenced = FALSE /\ open = FALSE /\ waiting = FALSE
  /\ woken = "absent"
  /\ facts = [phase |-> "claiming", fenced |-> FALSE, overdue |-> FALSE]
  /\ deposed = FALSE /\ wedged = FALSE /\ faulted = FALSE

-----------------------------------------------------------------------------
(* Hold and Facts. *)

Overdue == missed > QuietPolls
MustProgress == facts.phase \in {"importing", "pushing"}

\* Facts::serving, the readiness.
Ready == stage # "exited" /\ facts.phase = "serving" /\ ~ facts.fenced /\ ~ facts.overdue

\* publish: the facts of this moment, whole.
Publish(phase) == facts' = [phase |-> phase, fenced |-> fenced, overdue |-> Overdue]

\* Hold::fence: the flag, and every receiver subscribed by now wakes.
Fence ==
  /\ fenced' = TRUE
  /\ woken' = IF woken = "absent" THEN "absent" ELSE "yes"

\* The process ends: whoever waits is told, or sees the connection close.
Exit ==
  /\ stage' = "exited"
  /\ waiting' = FALSE

-----------------------------------------------------------------------------
(* The environment. *)

Alive == stage # "exited"

\* Steps that await nothing take no time: the renewer's once it may run, and
\* the loop's between the sweep and its first select!.
Prompt ==
  \/ renewer = "waiting" /\ due
  \/ renewer = "queued" /\ gate = "free"
  \/ stage \in {"publish", "open", "subscribe"}

\* A heartbeat passes.
Beat ==
  /\ Alive /\ ~ Prompt
  /\ gate # "free" => hang < MaxHang
  /\ due' = TRUE
  /\ missed' = IF missed < MissedCap THEN missed + 1 ELSE missed
  /\ hang' = IF gate # "free" THEN hang + 1 ELSE 0
  /\ faulted' = (faulted \/ (MustProgress /\ ~ moved))
  /\ UNCHANGED <<stage, renewer, gate, moved, fenced, woken, open, waiting, facts, deposed, wedged>>

\* A challenger takes over.
Depose ==
  /\ Alive /\ ~ deposed
  /\ missed >= QuietPolls
  /\ deposed' = TRUE
  /\ UNCHANGED <<stage, renewer, gate, hang, due, missed, moved, fenced, woken,
                 open, waiting, facts, wedged, faulted>>

\* A transfer or a subprocess of the restore or of a batch hangs.
Wedge ==
  /\ stage \in {"restore", "batch"} /\ gate # "loop" /\ ~ wedged
  /\ wedged' = TRUE
  /\ UNCHANGED <<stage, renewer, gate, hang, due, missed, moved, fenced, woken,
                 open, waiting, facts, deposed, faulted>>

\* A push reaches the door (uds.rs); a fenced server's refuses it.
DoorOpen == open /\ ~ fenced
Arrive ==
  /\ Alive /\ DoorOpen /\ ~ waiting
  /\ waiting' = TRUE
  /\ UNCHANGED <<stage, renewer, gate, hang, due, missed, moved, fenced, woken,
                 open, facts, deposed, wedged, faulted>>

-----------------------------------------------------------------------------
(* The renewer task. *)

\* Mutant: the heartbeat is unconditional.
HeartbeatGatedNever == FALSE

\* Mutant: an idle server is gated too.
HeartbeatGatedAlways == ~ moved

\* Nothing moved since the last look, in a phase that must move.
HeartbeatGated == MustProgress /\ ~ moved

\* A tick: return once fenced, skip the renewal, or go for the gate.
RenewerTick ==
  /\ Alive /\ renewer = "waiting" /\ due
  /\ due' = FALSE
  /\ renewer' = IF fenced THEN "returned" ELSE IF HeartbeatGated THEN "waiting" ELSE "queued"
  /\ moved' = IF renewer' = "queued" THEN FALSE ELSE moved
  /\ facts' = IF renewer' = "waiting" THEN [facts EXCEPT !.overdue = Overdue] ELSE facts
  /\ UNCHANGED <<stage, gate, hang, missed, fenced, woken, open, waiting, deposed, wedged, faulted>>

\* Hold's gate serialises renewals and the release.
GateFree == gate = "free"

\* renew_shared: the gate, then the request.
RenewerSends ==
  /\ Alive /\ renewer = "queued" /\ GateFree
  /\ renewer' = "renewing" /\ gate' = "renewer" /\ hang' = 0
  /\ UNCHANGED <<stage, due, missed, moved, fenced, woken, open, waiting, facts,
                 deposed, wedged, faulted>>

\* What the renewer writes into the facts after an attempt.
Refreshed(m) == m > QuietPolls

RenewerAnswered ==
  /\ Alive /\ renewer = "renewing"
  /\ gate' = "free" /\ hang' = 0
  /\ \/ /\ ~ deposed                                   \* it landed
        /\ missed' = 0
        /\ renewer' = "waiting"
        /\ facts' = [facts EXCEPT !.overdue = Refreshed(0)]
        /\ UNCHANGED <<fenced, woken, faulted>>
     \/ /\ renewer' = "waiting"                        \* a transient error
        /\ facts' = [facts EXCEPT !.overdue = Refreshed(missed)]
        /\ faulted' = TRUE
        /\ UNCHANGED <<missed, fenced, woken>>
     \/ /\ deposed                                     \* 412, not ours
        /\ Fence
        /\ renewer' = "returned"
        /\ UNCHANGED <<missed, facts, faulted>>
  /\ UNCHANGED <<stage, due, moved, open, waiting, deposed, wedged>>

-----------------------------------------------------------------------------
(* The serving loop's own renewals: a reclaim's, a batch's, a sweep's.     *)
(* The gate is first come, first served (tokio's Mutex).                   *)

LoopSends ==
  /\ stage \in {"reclaim", "batch", "sweep", "tick"} /\ ~ wedged
  /\ stage \in {"sweep", "tick"} => Folding
  /\ GateFree /\ renewer # "queued" /\ ~ fenced
  /\ gate' = "loop" /\ hang' = 0
  /\ UNCHANGED <<stage, renewer, due, missed, moved, fenced, woken, open, waiting,
                 facts, deposed, wedged, faulted>>

\* A transient error fails a batch or a reclaim, and defers a sweep.
AfterError == IF stage = "sweep" THEN "publish" ELSE IF stage = "tick" THEN "loop" ELSE "exited"

LoopAnswered ==
  /\ gate = "loop"
  /\ gate' = "free" /\ hang' = 0
  /\ \/ /\ ~ deposed
        /\ missed' = 0
        /\ UNCHANGED <<stage, waiting, fenced, woken, faulted>>
     \/ /\ stage' = AfterError
        /\ waiting' = (waiting /\ stage' # "exited")
        /\ faulted' = TRUE
        /\ UNCHANGED <<missed, fenced, woken>>
     \/ /\ deposed
        /\ Fence /\ Exit
        /\ UNCHANGED <<missed, faulted>>
  /\ UNCHANGED <<renewer, due, moved, open, facts, deposed, wedged>>

-----------------------------------------------------------------------------
(* server::run, from the claim on. *)

Idle == gate # "loop" /\ ~ wedged
HoldVars == <<renewer, gate, hang, due, missed, fenced, deposed, wedged, faulted>>

\* Mutant: the fence is left to the fence arm.
GoUnchecked(next) == stage' = next /\ UNCHANGED waiting

\* check_fence: a fenced server goes no further.
Go(next) == IF fenced THEN Exit ELSE stage' = next /\ UNCHANGED waiting

\* restore's own first check, after Importing is published.
StartRestore ==
  /\ stage = "claimed"
  /\ Publish("importing")
  /\ Go("restore")
  /\ UNCHANGED <<HoldVars, moved, woken, open>>

\* A unit of a restore or of a batch lands: Hold::tick.
Work ==
  /\ stage \in {"restore", "batch"} /\ Idle
  /\ moved' = TRUE
  /\ UNCHANGED <<HoldVars, stage, woken, open, waiting, facts>>

RestoreDone ==
  /\ stage = "restore" /\ Idle
  /\ stage' = "reclaim"
  /\ UNCHANGED <<HoldVars, moved, woken, open, waiting, facts>>

\* A reclaim that found something checks the fence and renews (LoopSends).
ReclaimDone ==
  /\ stage = "reclaim" /\ Idle
  /\ stage' = "sweep" \/ (fenced /\ stage' = "exited")
  /\ UNCHANGED <<HoldVars, moved, woken, open, waiting, facts>>

\* The start-up sweep, under tiers only, checks the fence.
SweepDone ==
  /\ stage = "sweep" /\ Idle
  /\ IF Folding THEN Go("publish") ELSE stage' = "publish" /\ UNCHANGED waiting
  /\ UNCHANGED <<HoldVars, moved, woken, open, facts>>

PublishServing ==
  /\ stage = "publish"
  /\ Publish("serving")
  /\ stage' = "open"
  /\ UNCHANGED <<HoldVars, moved, woken, open, waiting>>

OpenDoor ==
  /\ stage = "open"
  /\ open' = TRUE
  /\ stage' = "subscribe"
  /\ UNCHANGED <<HoldVars, moved, woken, waiting, facts>>

\* A watch receiver counts what was sent before it as seen.
Subscribe ==
  /\ stage = "subscribe"
  /\ woken' = "no"
  /\ stage' = "loop"
  /\ UNCHANGED <<HoldVars, moved, open, waiting, facts>>

-----------------------------------------------------------------------------
(* The arms of the loop. *)

FenceArm ==
  /\ stage = "loop" /\ woken = "yes"
  /\ Publish("draining")
  /\ Exit
  /\ UNCHANGED <<HoldVars, moved, woken, open>>

\* A batch of the hook channel, of the file API or of the pruner.
StartBatch ==
  /\ stage = "loop" /\ waiting
  /\ Publish("pushing")
  /\ Go("batch")
  /\ UNCHANGED <<HoldVars, moved, woken, open>>

\* Mutant: the reports match no waiter.
DeliveredNone == waiting' = waiting

\* deliver: every waiter of the batch has its report.
Delivered == waiting' = FALSE

\* The last unit of the batch, and the reports go out; an export may follow,
\* still serving.
BatchDone ==
  /\ stage = "batch" /\ Idle
  /\ moved' = TRUE
  /\ Publish("serving")
  /\ Delivered
  /\ stage' = "export"
  /\ UNCHANGED <<HoldVars, woken, open>>

ExportDone ==
  /\ stage = "export"
  /\ stage' = "loop"
  /\ UNCHANGED <<HoldVars, moved, woken, open, waiting, facts>>

\* The maintenance tick; under tiers its ledger sweep checks the fence.
Tick ==
  /\ stage = "loop"
  /\ IF Folding THEN Go("tick") ELSE stage' = "tick" /\ UNCHANGED waiting
  /\ UNCHANGED <<HoldVars, moved, woken, open, facts>>

TickDone ==
  /\ stage = "tick" /\ Idle
  /\ stage' = "loop"
  /\ UNCHANGED <<HoldVars, moved, woken, open, waiting, facts>>

\* SIGTERM: drain, then release under the gate.
Term ==
  /\ stage = "loop"
  /\ Publish("draining")
  /\ stage' = "drain"
  /\ UNCHANGED <<HoldVars, moved, woken, open, waiting>>

Released ==
  /\ stage = "drain" /\ GateFree
  /\ Exit
  /\ UNCHANGED <<HoldVars, moved, woken, open, facts>>

\* Any other error of a restore, a reclaim or a batch ends the process: its
\* waiters are told, or see the connection close.
Fail ==
  /\ stage \in {"restore", "reclaim", "batch"} /\ Idle
  /\ Exit
  /\ UNCHANGED <<HoldVars, moved, woken, open, facts>>

-----------------------------------------------------------------------------
Ended == stage = "exited" /\ UNCHANGED vars

Start == StartRestore \/ RestoreDone \/ ReclaimDone \/ SweepDone
         \/ PublishServing \/ OpenDoor \/ Subscribe
Finish == BatchDone \/ ExportDone \/ TickDone \/ Released
Renewer == RenewerTick \/ RenewerSends \/ RenewerAnswered

ServeNext ==
  \/ Beat \/ Depose \/ Wedge \/ Arrive
  \/ Renewer \/ LoopSends \/ LoopAnswered
  \/ Start \/ Work \/ Fail \/ FenceArm \/ StartBatch \/ Tick \/ Term \/ Finish
  \/ Ended

\* The tasks are scheduled, requests end (they time out), and select! picks
\* among its ready arms at random: an arm that is ready again and again is
\* taken.
ServeSpec ==
  /\ ServeInit /\ [][ServeNext]_vars
  /\ WF_vars(Beat) /\ WF_vars(Renewer) /\ WF_vars(LoopAnswered)
  /\ SF_vars(Start) /\ SF_vars(Finish)
  /\ SF_vars(FenceArm) /\ SF_vars(StartBatch) /\ SF_vars(Tick)

-----------------------------------------------------------------------------
(* What makes the lifecycle correct. *)

\* "The renewer deposed is this loop's exit; it wakes on the fence from
\* whatever it is awaiting": a fenced server ends, unless it is stuck.
FencedExits == fenced ~> (stage = "exited" \/ wedged)

\* A push the door let in is reported on or sees the server end.
PushAnswered == waiting ~> (~ waiting \/ wedged)

\* A server stuck in a restore or in a batch lets its token go quiet for as
\* long as a challenger needs.
WedgedYields == wedged ~> (missed >= QuietPolls \/ stage = "exited")

\* A server whose renewals land and whose work moves every heartbeat is
\* never deposed, though each renewal may take MaxHang heartbeats and the
\* progress gate (spawn_renewer) may skip one where a phase begins.
LiveKeepsLease == deposed => faulted

\* A server that is ready has renewed within the term, the heartbeat the
\* facts are stale by, and the time the renewals that delay them may take.
ReadyIsRecent == Ready /\ ~ fenced => missed <= QuietPolls + 1 + 2 * MaxHang

\* What the renewer keeps up (spawn_renewer): one renewal at a time, a lease
\* that a server at work does not lose, and readiness that is not older than
\* the term allows.
ServeInv == ServeTypeOK /\ LiveKeepsLease /\ ReadyIsRecent

=============================================================================
