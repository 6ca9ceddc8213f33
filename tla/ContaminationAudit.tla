------------------------- MODULE ContaminationAudit -------------------------
(***************************************************************************)
(* vse/contamination.py over a sealed selection: every selected paper is   *)
(* probed on every model, audit-contamination-aggregate judges the         *)
(* selection and routes the papers that failed to the reserve of their     *)
(* stratum, replace_from_reserve swaps one, and the audit is run again.    *)
(*                                                                         *)
(* The grid of models, probes and seeds of a paper is complete or not; an  *)
(* incomplete one fails the paper as missing rows do.                      *)
(***************************************************************************)
EXTENDS PaperSelection

VARIABLES
    remembered,  \* the papers some model reproduces when probed
    probed,      \* the papers whose grid of observations is complete
    report       \* the last AggregateContaminationDecision, if any

auditvars == <<vars, remembered, probed, report>>

AuditInit ==
    /\ Init
    /\ remembered \in SUBSET Papers
    /\ probed = {}
    /\ report = {}

-----------------------------------------------------------------------------
\* The probes of a selected paper are run: outside the repository's code.
Probe ==
    /\ phase = "sealed"
    /\ \E p \in Used \ probed : probed' = probed \cup {p}
    /\ UNCHANGED <<vars, remembered, report>>

\* evaluate_contamination of every selected paper, on the rows of the file.
Failed(rows) == (Used \ rows) \cup (Used \cap remembered)

\* AuditEnds: a stratum is routed only when its reserve covers all its failures.
Routed_bug(failed) ==
    [t \in Strata |->
        IF Cardinality(Of(failed, t)) > Cardinality(Of(reserved, t)) THEN {}
        ELSE Of(reserved, t)]

\* Every failed paper of a stratum is routed to the whole reserve of the stratum.
Routed(failed) == [t \in Strata |-> IF Of(failed, t) = {} THEN {} ELSE Of(reserved, t)]

Decision(rows) ==
    LET failed == Failed(rows)
        short == \E t \in Strata : Of(failed, t) # {} /\ Of(reserved, t) = {}
    IN  [selected |-> Used, failed |-> failed, routed |-> Routed(failed),
         passed |-> rows = Used /\ failed = {} /\ ~short]

\* audit-contamination-aggregate, its report at a new path.  The strata and the
\* reserve it is given are those of the selection; the rows are all there are, or
\* those of the selected papers.
Audit(rows) ==
    /\ phase = "sealed"
    /\ rows # {}
    /\ report' = {Decision(rows)}
    /\ UNCHANGED <<vars, remembered, probed>>

\* The selection is replaced in, whether the report asks for it or not.
AuditReplace == Replace /\ UNCHANGED <<remembered, probed, report>>

Select ==
    /\ AssignSplit \/ NotEnough \/ SealSelection \/ ReserveShort
    /\ UNCHANGED <<remembered, probed, report>>

AuditNext == Select \/ Probe \/ Audit(probed) \/ Audit(probed \cap Used) \/ AuditReplace

\* A failed paper of the last report is swapped for one it was routed to.
ReplaceFailed ==
    /\ \E r \in report, s \in Splits : \E failed \in r.failed :
           \E replacement \in r.routed[Stratum[failed]] :
               replace_from_reserve(s, failed, replacement)
    /\ UNCHANGED <<remembered, probed, report>>

\* The operator goes on until a report passes.
AuditFairness ==
    /\ WF_auditvars(Probe)
    /\ WF_auditvars(Audit(probed \cap Used))
    /\ WF_auditvars(ReplaceFailed)

AuditSpec == AuditInit /\ [][AuditNext]_auditvars /\ AuditFairness

-----------------------------------------------------------------------------
Standing(r) == r.selected = Used

\* A paper failed, and nothing of its stratum is left, be it that another failed
\* paper took the reserve both were routed to.
Exhausted == \E r \in report : \E p \in r.failed \cap Used : Of(reserved, Stratum[p]) = {}

\* Auditing and replacing come to an end: a report passes for the selection as it
\* stands, and then none of its papers is remembered, or a failed paper cannot be
\* replaced any more.  No paper that was excluded is audited again
\* (contamination.py:137-195 with paper_selection.py:226-282).
AuditEnds ==
    phase = "sealed" ~>
        \/ \E r \in report : r.passed /\ Standing(r) /\ Used \cap remembered = {}
        \/ Exhausted
=============================================================================
