------------------------------ MODULE MCBatch ------------------------------
(***************************************************************************)
(* Bounds for Batch. Three connections are needed for a group that skips   *)
(* one in the middle and for a disabled one between two others; the empty  *)
(* config is legal. Id 3 is unknown to the shorter configs, and group g3   *)
(* to all of them. Two rows fit the JSON cap, three do not.                *)
(***************************************************************************)
EXTENDS Batch

CONSTANTS g1, g2, g3

Connection(group, enabled) == [group |-> group, enabled |-> enabled]

MCGroups == {g1, g2, g3}

MCConfigs ==
  {<<>>,
   <<Connection(g1, FALSE)>>,
   <<Connection(g1, TRUE), Connection(g2, TRUE)>>,
   <<Connection(g1, TRUE), Connection(g2, FALSE), Connection(g1, TRUE)>>,
   <<Connection(g1, FALSE), Connection(g2, TRUE), Connection(g1, TRUE)>>}

=============================================================================
