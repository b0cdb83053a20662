---- MODULE MCSyncSwap ----
(* Instances of SyncSwap: a manifest and one more file, two versions. *)
EXTENDS SyncSwap
====
