---------------------- MODULE ContaminationAuditProofs ----------------------
(***************************************************************************)
(* For every pool, every set of splits and strata, all quotas and minima:  *)
(* what select_frozen_papers deals and replace_from_reserve swaps keeps    *)
(* quotas and strata, loses no paper and uses none twice.                  *)
(*                                                                         *)
(* For every pool and every set of remembered papers: a selection that is  *)
(* audited and replaced in, as often as anybody likes, goes through states *)
(* of PaperSelection only, and a report that passed can be relied on for   *)
(* as long as nothing is replaced.                                         *)
(***************************************************************************)
EXTENDS ContaminationAudit, FiniteSetTheorems, SequenceTheorems, TLAPS

-----------------------------------------------------------------------------
(* What the invariants rest on *)

\* Splits that were not dealt are empty, and nothing but a sealed selection
\* has a reserve, excluded papers or a history.
Unfinished ==
    /\ \A i \in 1 .. Len(SplitOrder) : ~Dealt(i) => assignments[SplitOrder[i]] = {}
    /\ phase = "sealed" => turn = Len(SplitOrder) + 1
    /\ phase # "sealed" => reserved = {} /\ excluded = {} /\ history = <<>>

IInv == TypeOK /\ Unfinished /\ QuotasKept /\ Partitioned /\ HistoryExplains

-----------------------------------------------------------------------------
(* Swapping one paper for another *)

\* The set with one member exchanged.
LEMMA SwappedSet ==
    ASSUME NEW papers, NEW failed \in papers, NEW replacement
    PROVE  Swapped(papers, failed, replacement) = (papers \ {failed}) \cup {replacement}
    BY DEF Swapped

LEMMA SwappedElsewhere ==
    ASSUME NEW papers, NEW failed, failed \notin papers, NEW replacement
    PROVE  Swapped(papers, failed, replacement) = papers
    BY DEF Swapped

\* A swap inside a stratum keeps the number of papers of every stratum.
LEMMA SwappedCounts ==
    ASSUME NEW papers \in SUBSET Papers, NEW failed \in papers,
           NEW replacement \in Papers \ papers,
           Stratum[failed] = Stratum[replacement], NEW t \in Strata
    PROVE  Cardinality(Of(Swapped(papers, failed, replacement), t))
             = Cardinality(Of(papers, t))
<1> DEFINE after == Of(Swapped(papers, failed, replacement), t)
<1>1. IsFiniteSet(Of(papers, t))
  <2>1. Of(papers, t) \in SUBSET Papers
      BY DEF Of
  <2> QED
      BY <2>1, SelectionAssumption, FS_Subset
<1>2. CASE Stratum[failed] # t
  <2>1. after = Of(papers, t)
      BY <1>2, SwappedSet DEF Of
  <2> QED
      BY <2>1
<1>3. CASE Stratum[failed] = t
  <2> DEFINE kept == Of(papers, t) \ {failed}
  <2>1. failed \in Of(papers, t) /\ replacement \notin kept
      BY <1>3 DEF Of
  <2>2. after = kept \cup {replacement}
    <3>1. Swapped(papers, failed, replacement) = (papers \ {failed}) \cup {replacement}
        BY SwappedSet
    <3>2. Stratum[replacement] = t
        BY <1>3
    <3> QED
        BY <3>1, <3>2 DEF Of
  <2>3. /\ IsFiniteSet(kept)
        /\ Cardinality(kept) = Cardinality(Of(papers, t)) - 1
      BY <1>1, <2>1, FS_RemoveElement
  <2>4. Cardinality(kept \cup {replacement}) = Cardinality(kept) + 1
      BY <2>1, <2>3, FS_AddElement
  <2>5. Cardinality(Of(papers, t)) \in Nat
      BY <1>1, FS_CardinalityType
  <2> QED
      BY <2>2, <2>3, <2>4, <2>5
<1> QED
    BY <1>2, <1>3

-----------------------------------------------------------------------------
(* Facts of the dealing *)

LEMMA OrderOfSplits ==
    /\ Len(SplitOrder) \in Nat
    /\ \A i \in 1 .. Len(SplitOrder) : SplitOrder[i] \in Splits
    /\ \A s \in Splits : \E i \in 1 .. Len(SplitOrder) : s = SplitOrder[i]
    BY SelectionAssumption, LenProperties DEF Splits

\* The split that is dealt next is still empty.
LEMMA NextSplitEmpty ==
    ASSUME TypeOK, Unfinished, turn <= Len(SplitOrder)
    PROVE  SplitOrder[turn] \in Splits /\ assignments[SplitOrder[turn]] = {}
    BY OrderOfSplits DEF TypeOK, Unfinished, Dealt

-----------------------------------------------------------------------------
(* The invariant is inductive *)

LEMMA InitIInv == Init => IInv
<1> SUFFICES ASSUME Init PROVE IInv
    OBVIOUS
<1>1. TypeOK
    BY OrderOfSplits, EmptySeq DEF Init, TypeOK
<1>2. Unfinished /\ QuotasKept
    BY OrderOfSplits DEF Init, Unfinished, QuotasKept, Dealt
<1>3. Partitioned
    BY DEF Init, Partitioned, SplitsDisjoint
<1>4. HistoryExplains
    BY DEF Init, HistoryExplains
<1> QED
    BY <1>1, <1>2, <1>3, <1>4 DEF IInv

LEMMA AssignSplitPreserves == IInv /\ AssignSplit => IInv'
<1> SUFFICES ASSUME IInv, AssignSplit PROVE IInv'
    OBVIOUS
<1> USE DEF IInv
<1> DEFINE s == SplitOrder[turn]
<1>1. PICK chosen \in SUBSET (pool \ Used) :
          /\ MeetsQuota(s, chosen)
          /\ assignments' = [assignments EXCEPT ![s] = chosen]
    BY DEF AssignSplit
<1>2. /\ phase = "selecting" /\ turn <= Len(SplitOrder) /\ turn' = turn + 1
      /\ UNCHANGED <<pool, phase, reserved, excluded, history>>
    BY DEF AssignSplit
<1>3. s \in Splits /\ assignments[s] = {}
    BY <1>2, NextSplitEmpty
<1>4. /\ assignments'[s] = chosen
      /\ \A r \in Splits : r # s => assignments'[r] = assignments[r]
    BY <1>1, <1>3 DEF TypeOK
<1>5. TypeOK'
    BY <1>1, <1>2, <1>3, OrderOfSplits DEF TypeOK
<1>6. \A i \in 1 .. Len(SplitOrder) : i # turn => SplitOrder[i] \in Splits /\ SplitOrder[i] # s
    BY <1>2, OrderOfSplits, SelectionAssumption DEF TypeOK
<1>7. turn \in Nat
    BY OrderOfSplits DEF TypeOK
<1>8. Unfinished'
  <2>1. ASSUME NEW i \in 1 .. Len(SplitOrder), ~(i < turn + 1)
        PROVE  assignments'[SplitOrder[i]] = {}
    <3>1. i # turn /\ ~(i < turn)
        BY <2>1, <1>7, OrderOfSplits
    <3> QED
        BY <3>1, <1>4, <1>6 DEF Unfinished, Dealt
  <2> QED
      BY <2>1, <1>2 DEF Unfinished, Dealt
<1>9. QuotasKept'
  <2> SUFFICES ASSUME NEW i \in 1 .. Len(SplitOrder), i < turn + 1
               PROVE  MeetsQuota(SplitOrder[i], assignments'[SplitOrder[i]])
      BY <1>2 DEF QuotasKept, Dealt, MeetsQuota
  <2>1. CASE i = turn
      BY <2>1, <1>1, <1>4
  <2>2. CASE i # turn
    <3>1. i < turn
        BY <2>2, <1>7, OrderOfSplits
    <3> QED
        BY <2>2, <3>1, <1>4, <1>6 DEF QuotasKept, Dealt
  <2> QED
      BY <2>1, <2>2
<1>10. Partitioned'
  <2>1. \A r \in Splits : chosen \cap assignments[r] = {}
      BY DEF Used
  <2>2. SplitsDisjoint'
      BY <2>1, <1>3, <1>4 DEF Partitioned, SplitsDisjoint
  <2> QED
      BY <2>2, <1>2 DEF Partitioned
<1>11. HistoryExplains'
    BY <1>2 DEF Unfinished, HistoryExplains
<1> QED
    BY <1>5, <1>8, <1>9, <1>10, <1>11

LEMMA RejectPreserves == IInv /\ phase = "selecting" /\ Reject => IInv'
<1> SUFFICES ASSUME IInv, phase = "selecting", Reject PROVE IInv'
    OBVIOUS
<1> USE DEF IInv, Reject
<1>1. TypeOK'
    BY DEF TypeOK
<1>2. Unfinished' /\ QuotasKept' /\ HistoryExplains'
    BY DEF Unfinished, Dealt, QuotasKept, HistoryExplains
<1>3. Partitioned'
    BY DEF Partitioned, SplitsDisjoint
<1> QED
    BY <1>1, <1>2, <1>3

LEMMA SealPreserves == IInv /\ SealSelection => IInv'
<1> SUFFICES ASSUME IInv, SealSelection PROVE IInv'
    OBVIOUS
<1> USE DEF IInv, SealSelection
<1>1. Used \in SUBSET pool /\ Used' = Used
    BY DEF TypeOK, Used
<1>2. TypeOK'
    BY DEF TypeOK
<1>3. turn = Len(SplitOrder) + 1
    BY OrderOfSplits DEF TypeOK
<1>4. Unfinished' /\ QuotasKept' /\ HistoryExplains'
    BY <1>3 DEF Unfinished, Dealt, QuotasKept, HistoryExplains
<1>5. excluded = {}
    BY DEF Unfinished
<1>6. Partitioned'
    BY <1>1, <1>5 DEF Partitioned, SplitsDisjoint
<1> QED
    BY <1>2, <1>4, <1>6

-----------------------------------------------------------------------------
(* One replacement *)

\* What a replacement does to splits and to the papers in use.
LEMMA ReplacedAssignments ==
    ASSUME TypeOK, Partitioned, NEW s \in Splits, NEW failed, NEW replacement,
           replace_from_reserve(s, failed, replacement)
    PROVE  /\ failed \in pool /\ replacement \in pool /\ failed # replacement
           /\ replacement \notin Used
           /\ assignments' = [assignments EXCEPT
                 ![s] = (assignments[s] \ {failed}) \cup {replacement}]
           /\ \A r \in Splits : r # s => failed \notin assignments[r]
           /\ Used' = (Used \ {failed}) \cup {replacement}
<1> USE DEF replace_from_reserve
<1>1. failed \in pool /\ replacement \in pool /\ failed \in Used
    BY DEF TypeOK, Used
<1>2. replacement \notin Used
    BY DEF Partitioned
<1>3. assignments' = [assignments EXCEPT
                 ![s] = (assignments[s] \ {failed}) \cup {replacement}]
  <2>1. Swapped(assignments[s], failed, replacement)
            = (assignments[s] \ {failed}) \cup {replacement}
      BY SwappedSet
  <2> QED
      BY <2>1
<1>4. \A r \in Splits : r # s => failed \notin assignments[r]
    BY DEF Partitioned, SplitsDisjoint
<1>5. /\ assignments'[s] = (assignments[s] \ {failed}) \cup {replacement}
      /\ \A r \in Splits : r # s => assignments'[r] = assignments[r]
    BY <1>3 DEF TypeOK
<1>6. Used' = (Used \ {failed}) \cup {replacement}
  <2>1. ASSUME NEW p \in Used' PROVE p \in (Used \ {failed}) \cup {replacement}
      BY <2>1, <1>4, <1>5 DEF Used
  <2>2. ASSUME NEW p \in (Used \ {failed}) \cup {replacement} PROVE p \in Used'
      BY <2>2, <1>5 DEF Used
  <2> QED
      BY <2>1, <2>2
<1> QED
    BY <1>1, <1>2, <1>3, <1>4, <1>6

LEMMA ReplacedHistory ==
    ASSUME TypeOK, Partitioned, HistoryExplains,
           NEW s \in Splits, NEW failed, NEW replacement,
           replace_from_reserve(s, failed, replacement)
    PROVE  history' \in Seq(Replacements) /\ HistoryExplains'
<1> USE DEF replace_from_reserve
<1> DEFINE last == [split |-> s, failed_paper_id |-> failed,
                    replacement_paper_id |-> replacement, stratum |-> Stratum[failed]]
           n == Len(history)
<1>1. /\ failed \in Papers /\ replacement \in Papers
      /\ \A r \in Splits : r # s => failed \notin assignments[r]
      /\ assignments' = [assignments EXCEPT
             ![s] = (assignments[s] \ {failed}) \cup {replacement}]
    BY ReplacedAssignments DEF TypeOK
<1>2. last \in Replacements
    BY <1>1, SelectionAssumption DEF Replacements
<1>3. history' = Append(history, last) /\ history \in Seq(Replacements)
    BY DEF TypeOK
<1>4. /\ n \in Nat
      /\ DOMAIN history = 1 .. n
      /\ DOMAIN history' = 1 .. n + 1
      /\ \A i \in 1 .. n : history'[i] = history[i] /\ history[i] \in Replacements
      /\ history'[n + 1] = last
      /\ history' \in Seq(Replacements)
    BY <1>2, <1>3, AppendProperties, LenProperties, ElementOfSeq
<1>5. failed \notin excluded
    BY DEF Partitioned, Used
<1>6. excluded' = {history'[i].failed_paper_id : i \in DOMAIN history'}
  <2>1. \A i \in DOMAIN history' : history'[i].failed_paper_id \in excluded'
      BY <1>4 DEF HistoryExplains
  <2>2. ASSUME NEW p \in excluded'
        PROVE  \E i \in DOMAIN history' : history'[i].failed_paper_id = p
    <3>1. CASE p = failed
        BY <3>1, <1>4
    <3>2. CASE p \in excluded
        BY <3>2, <1>4 DEF HistoryExplains
    <3> QED
        BY <3>1, <3>2
  <2> QED
      BY <2>1, <2>2
<1>7. \A i, j \in DOMAIN history' :
          history'[i].failed_paper_id = history'[j].failed_paper_id => i = j
  <2>1. \A i \in 1 .. n : history[i].failed_paper_id # failed
      BY <1>4, <1>5 DEF HistoryExplains
  <2> QED
      BY <2>1, <1>4 DEF HistoryExplains
<1>8. ASSUME NEW i \in DOMAIN history'
      PROVE  LET r == history'[i].replacement_paper_id
                 split == history'[i].split
             IN  /\ Stratum[r] = Stratum[history'[i].failed_paper_id]
                 /\ \/ r \in assignments'[split]
                    \/ \E j \in DOMAIN history' :
                           /\ i < j
                           /\ history'[j].failed_paper_id = r
                           /\ history'[j].split = split
  <2>1. CASE i = n + 1
      BY <2>1, <1>1, <1>4 DEF TypeOK
  <2>2. CASE i \in 1 .. n
    <3> DEFINE r == history[i].replacement_paper_id
               split == history[i].split
    <3>1. split \in Splits /\ history'[i] = history[i]
        BY <2>2, <1>4 DEF Replacements
    <3>2. Stratum[r] = Stratum[history[i].failed_paper_id]
        BY <2>2, <1>4 DEF HistoryExplains
    <3>3. CASE r \in assignments[split] /\ r # failed
        BY <3>1, <3>2, <3>3, <1>1 DEF TypeOK
    <3>4. CASE r \in assignments[split] /\ r = failed
      <4>1. split = s
          BY <3>1, <3>4, <1>1
      <4>2. n + 1 \in DOMAIN history' /\ i < n + 1
          BY <2>2, <1>4
      <4> QED
          BY <3>1, <3>2, <3>4, <4>1, <4>2, <1>4
    <3>5. CASE r \notin assignments[split]
      <4>1. PICK j \in DOMAIN history :
                i < j /\ history[j].failed_paper_id = r /\ history[j].split = split
          BY <2>2, <3>5, <1>4 DEF HistoryExplains
      <4> QED
          BY <3>1, <3>2, <4>1, <1>4
    <3> QED
        BY <3>3, <3>4, <3>5
  <2> QED
      BY <2>1, <2>2, <1>4
<1> QED
    BY <1>4, <1>6, <1>7, <1>8 DEF HistoryExplains

LEMMA ReplacePreserves == IInv /\ Replace => IInv'
<1> SUFFICES ASSUME IInv, NEW s \in Splits, NEW failed \in Papers,
                    NEW replacement \in Papers,
                    replace_from_reserve(s, failed, replacement)
             PROVE  IInv'
    BY DEF Replace
<1> USE DEF IInv
<1>1. /\ failed \in pool /\ replacement \in pool /\ failed # replacement
      /\ replacement \notin Used
      /\ assignments' = [assignments EXCEPT
             ![s] = (assignments[s] \ {failed}) \cup {replacement}]
      /\ \A r \in Splits : r # s => failed \notin assignments[r]
      /\ Used' = (Used \ {failed}) \cup {replacement}
    BY ReplacedAssignments
<1>2. history' \in Seq(Replacements) /\ HistoryExplains'
    BY ReplacedHistory
<1>3. /\ phase = "sealed" /\ failed \in assignments[s] /\ replacement \in reserved
      /\ Stratum[failed] = Stratum[replacement]
      /\ reserved' = reserved \ {replacement}
      /\ excluded' = excluded \cup {failed}
      /\ UNCHANGED <<pool, phase, turn>>
    BY DEF replace_from_reserve
<1>4. /\ assignments'[s] = (assignments[s] \ {failed}) \cup {replacement}
      /\ \A r \in Splits : r # s => assignments'[r] = assignments[r]
    BY <1>1 DEF TypeOK
<1>5. TypeOK'
    BY <1>1, <1>2, <1>3 DEF TypeOK
<1>6. turn = Len(SplitOrder) + 1
    BY <1>3 DEF Unfinished
<1>7. Unfinished'
    BY <1>3, <1>6, OrderOfSplits DEF Unfinished, Dealt
<1>8. QuotasKept'
  <2> SUFFICES ASSUME NEW i \in 1 .. Len(SplitOrder), NEW t \in Strata
               PROVE  Cardinality(Of(assignments'[SplitOrder[i]], t))
                        = Quota[SplitOrder[i]][t]
      BY DEF QuotasKept, MeetsQuota
  <2> DEFINE r == SplitOrder[i]
  <2>1. r \in Splits /\ Cardinality(Of(assignments[r], t)) = Quota[r][t]
      BY <1>6, OrderOfSplits DEF QuotasKept, MeetsQuota, Dealt
  <2>2. CASE r # s
      BY <2>1, <2>2, <1>4
  <2>3. CASE r = s
    <3>1. assignments[s] \in SUBSET Papers /\ replacement \notin assignments[s]
        BY <1>1 DEF TypeOK, Used
    <3>2. assignments'[s] = Swapped(assignments[s], failed, replacement)
        BY <1>3, <1>4, SwappedSet
    <3> QED
        BY <2>1, <2>3, <3>1, <3>2, <1>3, SwappedCounts
  <2> QED
      BY <2>2, <2>3
<1>9. Partitioned'
  <2>1. SplitsDisjoint'
      BY <1>1, <1>4 DEF Partitioned, SplitsDisjoint, Used
  <2>2. /\ Used \cup reserved \cup excluded = pool
        /\ Used \cap reserved = {} /\ Used \cap excluded = {}
        /\ reserved \cap excluded = {}
      BY <1>3 DEF Partitioned
  <2>3. failed \in Used
      BY <1>3 DEF Used
  <2>4. /\ Used' \cup reserved' \cup excluded' = pool'
        /\ Used' \cap reserved' = {} /\ Used' \cap excluded' = {}
        /\ reserved' \cap excluded' = {}
      BY <2>2, <2>3, <1>1, <1>3
  <2> QED
      BY <2>1, <2>4 DEF Partitioned
<1> QED
    BY <1>2, <1>5, <1>7, <1>8, <1>9

LEMMA Inductive == IInv /\ [Next]_vars => IInv'
<1> SUFFICES ASSUME IInv, [Next]_vars PROVE IInv'
    OBVIOUS
<1>1. CASE AssignSplit
    BY <1>1, AssignSplitPreserves
<1>2. CASE NotEnough
    BY <1>2, RejectPreserves DEF NotEnough
<1>3. CASE SealSelection
    BY <1>3, SealPreserves
<1>4. CASE ReserveShort
    BY <1>4, RejectPreserves DEF ReserveShort
<1>5. CASE Replace
    BY <1>5, ReplacePreserves
<1>6. CASE UNCHANGED vars
  <2>1. TypeOK' /\ Unfinished'
      BY <1>6 DEF vars, IInv, TypeOK, Unfinished, Dealt
  <2>2. QuotasKept' /\ HistoryExplains'
      BY <1>6 DEF vars, IInv, QuotasKept, Dealt, HistoryExplains
  <2>3. Partitioned'
      BY <1>6 DEF vars, IInv, Partitioned, SplitsDisjoint, Used
  <2> QED
      BY <2>1, <2>2, <2>3 DEF IInv
<1> QED
    BY <1>1, <1>2, <1>3, <1>4, <1>5, <1>6 DEF Next

LEMMA Invariance == Spec => []IInv
    BY InitIInv, Inductive, PTL DEF Spec

-----------------------------------------------------------------------------
(* Theorems *)

\* The fields of a selection always hold eligible papers and known splits
\* (paper_selection.py:61-71).
THEOREM SelectionTypeCorrect == Spec => []TypeOK
<1>1. IInv => TypeOK
    BY DEF IInv
<1> QED
    BY <1>1, Invariance, PTL

\* No sequence of replacements changes how many papers of a stratum a split
\* has (paper_selection.py:242 "without changing its frozen stratum or split
\* quota").
THEOREM SelectionQuotasKept == Spec => []QuotasKept
<1>1. IInv => QuotasKept
    BY DEF IInv
<1> QED
    BY <1>1, Invariance, PTL

\* No paper is ever in two splits, in a split and in the reserve, or lost.
THEOREM SelectionPartitioned == Spec => []Partitioned
<1>1. IInv => Partitioned
    BY DEF IInv
<1> QED
    BY <1>1, Invariance, PTL

\* The replacement history tells which papers are excluded and where each
\* replacement went.
THEOREM SelectionHistoryExplains == Spec => []HistoryExplains
<1>1. IInv => HistoryExplains
    BY DEF IInv
<1> QED
    BY <1>1, Invariance, PTL

\* A paper that failed never comes back.
THEOREM ExclusionIsFinal == Spec => ExcludedForGood
<1> DEFINE A == /\ excluded \subseteq excluded'
                /\ excluded \cap (Used' \cup reserved') = {}
                /\ phase = "sealed" => reserved \ reserved' \subseteq Used'
<1>1. IInv /\ [Next]_vars => [A]_vars
  <2> SUFFICES ASSUME IInv, Next PROVE A
      OBVIOUS
  <2> USE DEF IInv
  <2>1. CASE AssignSplit \/ SealSelection \/ NotEnough \/ ReserveShort
      BY <2>1 DEF AssignSplit, SealSelection, NotEnough, ReserveShort, Reject, Unfinished
  <2>2. CASE Replace
    <3>1. PICK s \in Splits, failed \in Papers, replacement \in Papers :
              replace_from_reserve(s, failed, replacement)
        BY <2>2 DEF Replace
    <3>2. /\ Used' = (Used \ {failed}) \cup {replacement}
          /\ failed \in Used
        BY <3>1, ReplacedAssignments DEF replace_from_reserve, Used
    <3>3. /\ reserved' = reserved \ {replacement} /\ replacement \in reserved
          /\ excluded' = excluded \cup {failed} /\ phase = "sealed"
        BY <3>1 DEF replace_from_reserve
    <3> QED
        BY <3>2, <3>3 DEF Partitioned
  <2> QED
      BY <2>1, <2>2 DEF Next
<1> QED
    BY <1>1, Invariance, PTL DEF Spec, ExcludedForGood

-----------------------------------------------------------------------------
(* The selection with its audits *)

\* Probing and auditing leave the selection alone; every other step is one of
\* PaperSelection.
LEMMA AuditStep == [AuditNext]_auditvars => [Next]_vars
<1> SUFFICES ASSUME [AuditNext]_auditvars PROVE [Next]_vars
    OBVIOUS
<1>1. CASE Select \/ AuditReplace
    BY <1>1 DEF Select, AuditReplace, Next
<1>2. CASE Probe \/ UNCHANGED auditvars
    BY <1>2 DEF Probe, auditvars
<1>3. ASSUME NEW rows, Audit(rows) PROVE UNCHANGED vars
    BY <1>3 DEF Audit
<1> QED
    BY <1>1, <1>2, <1>3 DEF AuditNext

\* The audit (contamination.py:137-195) does not write to the selection, and the
\* command that replaces a paper (paper_selection.py:226-282) asks no report: with
\* both, a selection behaves as PaperSelection says.
THEOREM AuditImplementsSelection == AuditSpec => Spec
    BY AuditStep, PTL DEF AuditSpec, AuditInit, Spec

LEMMA SelectionInvariance == AuditSpec => []IInv
    BY AuditImplementsSelection, Invariance, PTL

\* However audits, probes and replacements follow each other, quotas, partition and
\* history of the selection stand.
THEOREM AuditKeepsSelection == AuditSpec => [](QuotasKept /\ Partitioned /\ HistoryExplains)
<1>1. IInv => QuotasKept /\ Partitioned /\ HistoryExplains
    BY DEF IInv
<1> QED
    BY <1>1, SelectionInvariance, PTL

-----------------------------------------------------------------------------
(* What the last report says *)

\* A passed report read every row, and none of its papers was remembered.
ReportSound ==
    \A r \in report :
        /\ r.failed \subseteq r.selected
        /\ r.selected \cap remembered \subseteq r.failed
        /\ r.passed => r.failed = {} /\ r.selected \subseteq probed

\* The report is of the selection as it stands, or a paper of it was replaced.
ReportFresh ==
    \A r \in report : phase = "sealed" /\ (Standing(r) \/ r.selected \cap excluded # {})

AInv == IInv /\ ReportSound /\ ReportFresh

\* A replacement leaves a report with a paper that is excluded from then on.
LEMMA ReplaceKeepsReports ==
    ASSUME AInv, AuditReplace
    PROVE  ReportSound' /\ ReportFresh'
<1>1. PICK s \in Splits, failed \in Papers, replacement \in Papers :
          replace_from_reserve(s, failed, replacement)
    BY DEF AuditReplace, Replace
<1>2. failed \in Used /\ excluded' = excluded \cup {failed} /\ phase' = "sealed"
    BY <1>1 DEF replace_from_reserve, Used
<1>3. UNCHANGED <<remembered, probed, report>>
    BY DEF AuditReplace
<1>4. ReportSound'
    BY <1>3 DEF AInv, ReportSound
<1>5. ASSUME NEW r \in report PROVE r.selected \cap excluded' # {}
    BY <1>2 DEF AInv, ReportFresh, Standing
<1> QED
    BY <1>2, <1>3, <1>4, <1>5 DEF ReportFresh

LEMMA AuditReports ==
    ASSUME NEW rows, rows \subseteq probed, Audit(rows), Used' = Used
    PROVE  ReportSound' /\ ReportFresh'
<1> DEFINE r == Decision(rows)
<1>1. r.selected = Used /\ r.failed = (Used \ rows) \cup (Used \cap remembered)
    BY DEF Decision, Failed
<1>2. r.passed => rows = Used /\ r.failed = {}
    BY DEF Decision, Failed
<1> HIDE DEF r
<1>3. report' = {r} /\ phase' = "sealed" /\ UNCHANGED <<remembered, probed>>
    BY DEF Audit, vars, r
<1> QED
    BY <1>1, <1>2, <1>3 DEF ReportSound, ReportFresh, Standing

LEMMA AuditInductive == AInv /\ [AuditNext]_auditvars => AInv'
<1> SUFFICES ASSUME AInv, [AuditNext]_auditvars PROVE AInv'
    OBVIOUS
<1>1. IInv'
    BY AuditStep, Inductive DEF AInv
<1>2. ASSUME UNCHANGED vars PROVE Used' = Used
    BY <1>2 DEF vars, Used
<1>3. CASE Select
  <2>1. phase # "sealed"
      BY <1>3 DEF Select, AssignSplit, NotEnough, SealSelection, ReserveShort
  <2>2. report = {} /\ report' = {}
      BY <1>3, <2>1 DEF Select, AInv, ReportFresh
  <2> QED
      BY <1>1, <2>2 DEF AInv, ReportSound, ReportFresh
<1>4. CASE Probe \/ UNCHANGED auditvars
  <2>1. UNCHANGED <<vars, remembered, report>> /\ probed \subseteq probed'
      BY <1>4 DEF Probe, auditvars
  <2>2. ReportSound'
      BY <2>1 DEF AInv, ReportSound
  <2>3. ReportFresh'
      BY <1>2, <2>1 DEF AInv, ReportFresh, Standing, vars
  <2> QED
      BY <1>1, <2>2, <2>3 DEF AInv
<1>5. ASSUME NEW rows, rows \subseteq probed, Audit(rows) PROVE AInv'
    BY <1>1, <1>2, <1>5, AuditReports DEF AInv, Audit
<1>6. CASE AuditReplace
    BY <1>1, <1>6, ReplaceKeepsReports DEF AInv
<1> QED
    BY <1>3, <1>4, <1>5, <1>6 DEF AuditNext

\* A report that passed and is of the selection as it stands proves the selection
\* clean, and one that is not of it names a paper that has been replaced since: an
\* old report cannot pass for a new one (contamination.py:176-195).
THEOREM ReportsCanBeRelied ==
    AuditSpec => [](\A r \in report :
        \/ Standing(r) /\ (r.passed => Used \cap remembered = {})
        \/ r.selected \cap excluded # {})
<1>1. AuditInit => AInv
    BY InitIInv DEF AuditInit, AInv, ReportSound, ReportFresh
<1>2. AInv => \A r \in report : \/ Standing(r) /\ (r.passed => Used \cap remembered = {})
                                \/ r.selected \cap excluded # {}
    BY DEF AInv, ReportSound, ReportFresh, Standing
<1> QED
    BY <1>1, <1>2, AuditInductive, PTL DEF AuditSpec
=============================================================================
