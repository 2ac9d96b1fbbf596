---------------------------- MODULE AtomicStore ----------------------------
(***************************************************************************)
(* What Store promises whoever reads it (Snapshot, Jobs, MarshalBinary):   *)
(* it holds whole payloads.  A payload is taken over entry by entry, with  *)
(* callbacks in between, but what a reader is shown is as if that were one *)
(* step; a process that ends takes everything with it.  StateFiles         *)
(* implements this specification.                                          *)
(***************************************************************************)
EXTENDS MeshEntry

CONSTANT Buffers  \* the payloads that may be merged

VARIABLE content

StoreInit == content = NoEntries

TakeWhole == \E payload \in Buffers : content' = Merge(content, payload)

LoseAll == content' = NoEntries

StoreSpec == StoreInit /\ [][TakeWhole \/ LoseAll]_content

=============================================================================
