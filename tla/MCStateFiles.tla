---------------------------- MODULE MCStateFiles ----------------------------
(***************************************************************************)
(* StateFiles for TLC: a job that is posted, then at one time posted again *)
(* and deleted, and a second one of which only the deletion is left, so    *)
(* that a payload may hold entries of both.                                *)
(***************************************************************************)
EXTENDS StateFiles

CONSTANTS first, second, g1, g2

Active(stamp, group) ==
  [status |-> "Active", updated |-> stamp, group |-> group]

Deleted(stamp) ==
  [status |-> "Inactive", updated |-> stamp, group |-> NoGroup]

MCWritten ==
  {<<first, Active(1, g1)>>, <<first, Active(2, g2)>>, <<first, Deleted(2)>>,
   <<second, Deleted(1)>>}

=============================================================================
