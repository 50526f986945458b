---------------------------- MODULE MCAuditChain ----------------------------
(***************************************************************************)
(* Small instances of AuditChain for TLC.  A digest is the sequence of the *)
(* payloads it stands for, so different contents have different digests.   *)
(***************************************************************************)
EXTENDS AuditChain, SequencesExt

Symmetry == Permutations(Workers) \cup Permutations(Payloads)

MCGenesis == << >>

MCDigests == BoundedSeq(Payloads, MaxRows)

MCDigest ==
    [d \in MCDigests |-> [p \in Payloads |->
        IF Len(d) < MaxRows THEN Append(d, p) ELSE MCGenesis]]
=============================================================================
