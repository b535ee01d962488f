------------------------------- MODULE MCEdge -------------------------------
(***************************************************************************)
(* What an Edge has to get done, on small instances: the runtime delivers  *)
(* what it acknowledged, and the Player of a daily schedule goes on to the *)
(* next slot.  The two share no variable, so each moves while the other    *)
(* rests in its initial state.                                             *)
(***************************************************************************)
EXTENDS MCEdgeRuntime

VARIABLES snapshot, emitted, preparing, playing, playerPc, entry, now, restarts,
          accepted, reported, scheduleAcked

scheduleVars == <<snapshot, emitted, preparing, playing, playerPc, entry, now, restarts,
                  accepted, reported, scheduleAcked>>

\* Two slots a day; a command replaces the second, another names no slot of
\* the first schedule.
Show(id) == [slotId |-> <<id>>, assetId |-> <<id>>, video |-> id = "ad"]

Command(revision, ids) ==
  [edgeId |-> "edge", revision |-> revision,
   slots |-> [i \in 0..1 |-> Show(ids[i + 1])],
   assets |-> [i \in DOMAIN ids |-> [assetId |-> <<ids[i]>>, content |-> ids[i]]]]

Schedule == INSTANCE DailySchedule WITH
  pc <- playerPc, acked <- scheduleAcked,
  Update <- {Command(2, <<"ad", "other">>), Command(3, <<"new", "other">>)},
  Initial <- Command(1, <<"ad", "page">>),
  Index <- {0, 1},
  LocalTime <- [t \in 0..2 |-> [date |-> t \div 2, index |-> t % 2]],
  MaxTime <- 2, MaxRestarts <- 1

RuntimeRests == ~started /\ disk = NoState /\ online /\ crashes = 0 /\ failures = 0
                /\ plays = 0 /\ syncs = 0 /\ \A o \in Op : pc[o] = "idle"

ScheduleRests == now = 0 /\ playerPc = "load" /\ preparing = {} /\ restarts = 0
                 /\ snapshot.revision = 1 /\ Cardinality(accepted) = 1

RuntimeTurn(action) == ScheduleRests /\ action /\ UNCHANGED scheduleVars

ScheduleTurn(action) == RuntimeRests /\ action /\ UNCHANGED vars

MCVars == <<vars, scheduleVars>>

MCInit == Init /\ Schedule!Init

\* The fairness of the two specifications, of the turns.
MCSpec ==
  /\ MCInit
  /\ [][RuntimeTurn(Next) \/ ScheduleTurn(Schedule!Next)]_MCVars
  /\ \A o \in Op : WF_MCVars(RuntimeTurn(Continue(o))) /\ SF_MCVars(RuntimeTurn(Begin(o, "flush")))
  /\ WF_MCVars(ScheduleTurn(Schedule!PostPlayback \/ Schedule!PostDuplicate))
  /\ WF_MCVars(ScheduleTurn(Schedule!CallbackStep))

PlayerGoesOn == Schedule!PlayerGoesOn
=============================================================================
