----------------------------- MODULE MeshEntry -----------------------------
(***************************************************************************)
(* The replicated data: job entries (targetpb.MeshEntry) and the           *)
(* last-writer-wins rule of tasks/store.go that merges them.               *)
(*                                                                         *)
(* The Go maps from job name to entry are total functions here: a name     *)
(* without an entry maps to Absent, the zero MeshEntry, whose timestamp is *)
(* older than every real one.                                              *)
(***************************************************************************)
EXTENDS Naturals

CONSTANTS
  Jobs,      \* job names
  Groups,    \* target groups a POST can carry
  NoGroup,   \* the nil *Targetgroup of a DELETE
  MaxStamp   \* bound on the values of time.Now() that are told apart

ASSUME MeshEntryAssumption ==
  /\ MaxStamp \in Nat
  /\ NoGroup \notin Groups

Stamps == 1 .. MaxStamp

ActiveEntry == [status : {"Active"}, updated : Stamps, group : Groups]

Tombstone == [status : {"Inactive"}, updated : Stamps, group : {NoGroup}]

Entry == ActiveEntry \cup Tombstone

Absent == [status |-> "Unknown", updated |-> 0, group |-> NoGroup]

\* The contents of one store, of one Part and of one FullState alike.
EntryMap == [Jobs -> Entry \cup {Absent}]

NoEntries == [j \in Jobs |-> Absent]

\* The payload of one broadcast: a single delimited entry.
Single(j, e) == [i \in Jobs |-> IF i = j THEN e ELSE Absent]

(***************************************************************************)
(* Store.merge: an incoming entry is refused only when the stored one is   *)
(* strictly newer; equal timestamps are accepted.  Accepted is also the    *)
(* set of entries Store.Merge hands to the callbacks.                      *)
(***************************************************************************)
AcceptedAnyStamp(entries, payload) ==
  {j \in Jobs : payload[j] # Absent}

AcceptedIfNewer(entries, payload) ==
  {j \in Jobs : payload[j] # Absent /\ entries[j].updated < payload[j].updated}

AcceptedIfUnknown(entries, payload) ==
  {j \in Jobs : payload[j] # Absent /\ entries[j] = Absent}

Accepted(entries, payload) ==
  {j \in Jobs : /\ payload[j] # Absent
                /\ ~ (entries[j].updated > payload[j].updated)}

MergeAliased(entries, payload) ==
  [j \in Jobs |-> IF j \in Accepted(entries, payload)
                  THEN payload[CHOOSE i \in Accepted(entries, payload) : TRUE]
                  ELSE entries[j]]

\* Store.Merge: every entry of the payload, under one hold of the write lock.
Merge(entries, payload) ==
  [j \in Jobs |-> IF j \in Accepted(entries, payload)
                  THEN payload[j] ELSE entries[j]]

=============================================================================
