----------------------- MODULE MCCompressionScheduler -----------------------
(* Instances of CompressionScheduler for TLC. *)
EXTENDS CompressionScheduler, TLC

CONSTANTS j1, j2, d1

OneDataset == [j \in Jobs |-> d1]
FsAndS3 == (j1 :> "fs") @@ (j2 :> "s3")
FsAndMeta == (j1 :> "fs") @@ (j2 :> "meta")
TwoAndOne == (j1 :> 2) @@ (j2 :> 1)
ThreeAndOne == (j1 :> 3) @@ (j2 :> 1)
=============================================================================
