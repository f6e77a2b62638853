---------------------------- MODULE SnapshotStore ----------------------------
(***************************************************************************)
(* What publication promises the processes that load a snapshot: a snapshot *)
(* ID is vacant until one reviewed bundle is published under it, whole, and *)
(* names that bundle for ever after.                                        *)
(***************************************************************************)
CONSTANTS
  Acceptable,   \* the bundles that may be published
  Vacant

VARIABLE snapshot

Init == snapshot = Vacant

Publish == snapshot = Vacant /\ snapshot' \in Acceptable

Spec == Init /\ [][Publish]_snapshot
==============================================================================
