------------------------ MODULE MCContaminationAudit ------------------------
(***************************************************************************)
(* ContaminationAudit with five papers of one stratum and one of           *)
(* another, and three splits.  Every paper is eligible, or one too few for *)
(* the reserve, or one too few for a split.  The deal being arbitrary, the *)
(* papers a model remembers are named up to a permutation.                 *)
(***************************************************************************)
EXTENDS ContaminationAudit

CONSTANTS a1, a2, a3, a4, a5, b1, id, ood, train, heldout, final_ood

MCId == {a1, a2, a3, a4, a5}
MCOod == {b1}
MCPapers == MCId \cup MCOod
MCStratum == [p \in MCPapers |-> IF p \in MCId THEN id ELSE ood]
MCSplitOrder == <<train, heldout, final_ood>>

MCTakes(m, n) == [t \in {id, ood} |-> IF t = id THEN m ELSE n]
MCQuota ==
    [s \in {train, heldout, final_ood} |->
        IF s = train THEN MCTakes(2, 0)
        ELSE IF s = heldout THEN MCTakes(1, 0) ELSE MCTakes(0, 1)]
MCReserveMinimum == MCTakes(2, 0)

MCRemembered == {{b1}, {a1, a2}, {a1, a2, a3}}
MCPools == {MCPapers, MCPapers \ {a5}, MCPapers \ {b1}}

MCInit == AuditInit /\ remembered \in MCRemembered /\ pool \in MCPools
MCSpec == MCInit /\ [][AuditNext]_auditvars /\ AuditFairness
=============================================================================
