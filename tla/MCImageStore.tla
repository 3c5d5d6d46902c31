----------------------------- MODULE MCImageStore -----------------------------
(* Every pair of stores that the configuration may name.                   *)
EXTENDS ImageStore, TLC

AllConfigs == [blob : BlobKinds, metadata : MetadataKinds]

\* Ids, and callers of one kind, are alike; the properties are invariants.
Alike == Permutations(ImageIDs) \cup Permutations(Uploaders) \cup Permutations(Deleters)
=============================================================================
