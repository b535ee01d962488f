----------------------------- MODULE MCRebuild ------------------------------
(***************************************************************************)
(* Small instances for TLC of what is rebuilt from the event history: an   *)
(* aggregate, by Rehydration, and a projection, by ProjectionStore.  They  *)
(* share no variable: each moves while the other rests in its initial      *)
(* state.                                                                  *)
(***************************************************************************)
EXTENDS ProjectionStore, Rehydration, TLC

\* Version 3 has every upcaster, version 4 lost the first one and has one
\* that skips a version.
DeployedUpcasters ==
  [v \in Versions |-> CASE v = 1 -> {}
                        [] v = 2 -> {<<1, 2>>}
                        [] v = 3 -> {<<1, 2>>, <<2, 3>>}
                        [] v = 4 -> {<<1, 4>>, <<2, 3>>, <<3, 4>>}]

\* Callers are interchangeable.
Symmetry == Permutations(Caller)

ProjectionsRest == staged = {} /\ invalidated = {} /\ \A c \in Caller : pc[c] = "idle"

RehydrationRests == queued = {} /\ deployed = 1

MCInit == Init /\ RehydrationInit

MCNext ==
  \/ RehydrationRests /\ Next /\ UNCHANGED rehydrationVars
  \/ ProjectionsRest /\ RehydrationNext /\ UNCHANGED vars

MCSpec == MCInit /\ [][MCNext]_<<vars, rehydrationVars>>
=============================================================================
