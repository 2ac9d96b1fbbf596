--------------------------- MODULE ReplicatedMap ---------------------------
(***************************************************************************)
(* What the mesh promises its users: every daemon holds a replica of one   *)
(* map from job names to entries.  A replica only ever takes over entries  *)
(* somebody wrote, never goes back to an older one, and forgets everything *)
(* when its process ends: nothing is persisted.  How the entries travel is *)
(* not said here; Mesh implements this specification.                      *)
(***************************************************************************)
EXTENDS MeshEntry

CONSTANT Replicas

VARIABLES
  issued,  \* every <<job, entry>> written so far
  replica  \* what each daemon holds

mapVars == <<issued, replica>>

MapInit ==
  /\ issued = {}
  /\ replica = [r \in Replicas |-> NoEntries]

Issue(j, e) ==
  /\ issued' = issued \cup {<<j, e>>}
  /\ UNCHANGED replica

\* A replica takes over issued entries for any set of jobs at once.
Learn(r) ==
  /\ replica' \in [Replicas -> EntryMap]
  /\ \A q \in Replicas \ {r} : replica'[q] = replica[q]
  /\ \A j \in Jobs : replica'[r][j] # replica[r][j] =>
       /\ <<j, replica'[r][j]>> \in issued
       /\ replica'[r][j].updated >= replica[r][j].updated
  /\ UNCHANGED issued

Forget(r) ==
  /\ replica' = [replica EXCEPT ![r] = NoEntries]
  /\ UNCHANGED issued

MapNext ==
  \/ \E j \in Jobs, e \in Entry : Issue(j, e)
  \/ \E r \in Replicas : Learn(r) \/ Forget(r)

MapSpec == MapInit /\ [][MapNext]_mapVars

=============================================================================
