---------------------------- MODULE ExactlyOnce -----------------------------
(***************************************************************************)
(* What an inbox promises: whatever is delivered, however often and to     *)
(* however many workers at once, each consumer applies the effect of each  *)
(* event at most once.                                                     *)
(***************************************************************************)
EXTENDS Sequences

CONSTANTS Key,     \* <<consumer, event id>> pairs
          Effect   \* what applying an event can be

VARIABLE effects   \* the effects applied for each key, in order

OnceInit == effects = [k \in Key |-> <<>>]

Apply(k, x) ==
  /\ effects[k] = <<>>
  /\ effects' = [effects EXCEPT ![k] = <<x>>]

OnceNext == \E k \in Key, x \in Effect : Apply(k, x)

OnceSpec == OnceInit /\ [][OnceNext]_effects
=============================================================================
