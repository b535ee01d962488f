-------------------------- MODULE ProjectionHeads ---------------------------
(***************************************************************************)
(* What a projection store promises: complete rebuilds are staged and      *)
(* never change; promote makes a staged rebuild the current one of its     *)
(* projection, and invalidate takes the current one away for good, each in *)
(* a single step.  This is also the in-memory store, whose methods do not  *)
(* await.                                                                  *)
(***************************************************************************)
EXTENDS Integers

CONSTANTS Name,        \* projections
          Generation,  \* versions and rebuild ids: <<version, rebuildId>>
          Checkpoint,  \* checkpoints, which stand for a rebuild's content
          NoHead

VARIABLES staged,      \* the candidates
          head,        \* the current rebuild of each projection
          invalidated  \* identities of invalidated rebuilds

headVars == <<staged, head, invalidated>>

Identity == [name : Name, generation : Generation]

Rebuild == [name : Name, generation : Generation, checkpoint : Checkpoint]

Id(r) == [name |-> r.name, generation |-> r.generation]

HeadsInit == staged = {} /\ head = [n \in Name |-> NoHead] /\ invalidated = {}

\* A rebuild is staged again only as it is.
Stage(r) ==
  /\ \A c \in staged : Id(c) # Id(r)
  /\ staged' = staged \cup {r}
  /\ UNCHANGED <<head, invalidated>>

Promote(r) ==
  /\ r \in staged
  /\ Id(r) \notin invalidated
  /\ head[r.name] # NoHead => head[r.name].checkpoint <= r.checkpoint
  /\ head' = [head EXCEPT ![r.name] = r]
  /\ UNCHANGED <<staged, invalidated>>

Invalidate(i) ==
  /\ head[i.name] # NoHead
  /\ Id(head[i.name]) = i
  /\ head' = [head EXCEPT ![i.name] = NoHead]
  /\ invalidated' = invalidated \cup {i}
  /\ UNCHANGED staged

HeadsNext ==
  \/ \E r \in Rebuild : Stage(r) \/ Promote(r)
  \/ \E i \in Identity : Invalidate(i)

HeadsSpec == HeadsInit /\ [][HeadsNext]_headVars
=============================================================================
