----------------------- MODULE MCBlobDistributedMutex -----------------------
(* Small instances of BlobDistributedMutex for TLC. *)
EXTENDS BlobDistributedMutex, TLC

\* The instances differ only in name, and so do the lease ids.
Symmetric == Permutations(Instances) \cup Permutations(LeaseIds)
=============================================================================
