----------------------------- MODULE MCSyncLease -----------------------------
(* Instances of SyncLease for TLC. *)
EXTENDS SyncLease, TLC

\* Sync run ids made with crypto.randomUUID(): one owner per invocation.
UniqueOwners == [i \in Invocation |-> i]

Symmetry == Permutations(Invocation)

CONSTANTS first, other
=============================================================================
