--------------------------- MODULE PaperSelection ---------------------------
(***************************************************************************)
(* vse/paper_selection.py: select_frozen_papers deals the eligible papers  *)
(* to the splits, stratum by stratum, and keeps the rest as a reserve;     *)
(* replace_from_reserve swaps a failed paper for one of the reserve.       *)
(*                                                                         *)
(* The seeded shuffle is an arbitrary choice.  Cutoffs, seed and digests   *)
(* are functions of what is modelled and are left out.                     *)
(*                                                                         *)
(* A definition whose name ends in _bug is a slip the code could have had; *)
(* the property named beside it rules it out.                              *)
(***************************************************************************)
EXTENDS Naturals, Sequences, FiniteSets

CONSTANTS
    Papers, Strata,
    Stratum,         \* Stratum[p]: the stratum paper p belongs to
    SplitOrder,      \* expected_splits, in the order they are dealt
    Quota,           \* Quota[s][t]: papers of stratum t that split s takes
    ReserveMinimum,  \* papers of each stratum to be left in the reserve
    MinimumPool

Splits == {SplitOrder[i] : i \in DOMAIN SplitOrder}

ASSUME SelectionAssumption ==
    /\ IsFiniteSet(Papers)
    /\ Stratum \in [Papers -> Strata]
    /\ SplitOrder \in Seq(Splits)
    /\ \A i, j \in 1 .. Len(SplitOrder) : SplitOrder[i] = SplitOrder[j] => i = j
    /\ Quota \in [Splits -> [Strata -> Nat]]
    /\ ReserveMinimum \in [Strata -> Nat]
    /\ MinimumPool \in Nat

VARIABLES
    pool,         \* the eligible candidates
    phase,        \* "selecting", "sealed", or "rejected": the selection raised
    turn,         \* the split that is dealt next, in SplitOrder
    assignments, reserved, excluded, history  \* the PaperSelection

vars == <<pool, phase, turn, assignments, reserved, excluded, history>>

Of(papers, t) == {p \in papers : Stratum[p] = t}

Used == UNION {assignments[s] : s \in Splits}

Replacements ==
    [split : Splits, failed_paper_id : Papers, replacement_paper_id : Papers,
     stratum : Strata]

Init ==
    /\ pool \in SUBSET Papers
    /\ Cardinality(pool) >= MinimumPool
    /\ phase = "selecting"
    /\ turn = 1
    /\ assignments = [s \in Splits |-> {}]
    /\ reserved = {}
    /\ excluded = {}
    /\ history = <<>>

-----------------------------------------------------------------------------
(* select_frozen_papers *)

MeetsQuota(s, papers) == \A t \in Strata : Cardinality(Of(papers, t)) = Quota[s][t]

\* QuotasKept: a stratum that runs short gives what it has.
AssignSplit_bug ==
    /\ phase = "selecting"
    /\ turn <= Len(SplitOrder)
    /\ \E chosen \in SUBSET (pool \ Used) :
           /\ \A t \in Strata :
                  \/ Cardinality(Of(chosen, t)) = Quota[SplitOrder[turn]][t]
                  \/ Of(chosen, t) = Of(pool \ Used, t)
           /\ assignments' = [assignments EXCEPT ![SplitOrder[turn]] = chosen]
    /\ turn' = turn + 1
    /\ UNCHANGED <<pool, phase, reserved, excluded, history>>

\* One round of the loop over expected_splits.
AssignSplit ==
    /\ phase = "selecting"
    /\ turn <= Len(SplitOrder)
    /\ \E chosen \in SUBSET (pool \ Used) :
           /\ MeetsQuota(SplitOrder[turn], chosen)
           /\ assignments' = [assignments EXCEPT ![SplitOrder[turn]] = chosen]
    /\ turn' = turn + 1
    /\ UNCHANGED <<pool, phase, reserved, excluded, history>>

Reject ==
    /\ phase' = "rejected"
    /\ UNCHANGED <<pool, turn, assignments, reserved, excluded, history>>

\* "not enough candidates for split/stratum"
NotEnough ==
    /\ phase = "selecting"
    /\ turn <= Len(SplitOrder)
    /\ \E t \in Strata : Cardinality(Of(pool \ Used, t)) < Quota[SplitOrder[turn]][t]
    /\ Reject

MeetsMinima(papers) ==
    \A t \in Strata : Cardinality(Of(papers, t)) >= ReserveMinimum[t]

\* TypeOK: the reserve is taken from the registry, ineligible papers included.
SealSelection_bug ==
    /\ phase = "selecting"
    /\ turn > Len(SplitOrder)
    /\ MeetsMinima(Papers \ Used)
    /\ phase' = "sealed"
    /\ reserved' = Papers \ Used
    /\ UNCHANGED <<pool, turn, assignments, excluded, history>>

SealSelection ==
    /\ phase = "selecting"
    /\ turn > Len(SplitOrder)
    /\ MeetsMinima(pool \ Used)
    /\ phase' = "sealed"
    /\ reserved' = pool \ Used
    /\ UNCHANGED <<pool, turn, assignments, excluded, history>>

\* "reserve minimum is not met"
ReserveShort ==
    /\ phase = "selecting"
    /\ turn > Len(SplitOrder)
    /\ ~MeetsMinima(pool \ Used)
    /\ Reject

-----------------------------------------------------------------------------
(* replace_from_reserve *)

Swapped(papers, failed, replacement) ==
    {IF p = failed THEN replacement ELSE p : p \in papers}

\* Partitioned: the failed paper is looked for in any split.
replace_from_reserve_bug(s, failed, replacement) ==
    /\ phase = "sealed"
    /\ failed \in Used
    /\ replacement \in reserved
    /\ Stratum[failed] = Stratum[replacement]
    /\ assignments' = [assignments EXCEPT ![s] = Swapped(@, failed, replacement)]
    /\ reserved' = reserved \ {replacement}
    /\ excluded' = excluded \cup {failed}
    /\ history' = Append(history,
           [split |-> s, failed_paper_id |-> failed,
            replacement_paper_id |-> replacement, stratum |-> Stratum[failed]])
    /\ UNCHANGED <<pool, phase, turn>>

\* HistoryExplains: the history starts again with every replacement.
replace_from_reserve_bug2(s, failed, replacement) ==
    /\ phase = "sealed"
    /\ failed \in assignments[s]
    /\ replacement \in reserved
    /\ Stratum[failed] = Stratum[replacement]
    /\ assignments' = [assignments EXCEPT ![s] = Swapped(@, failed, replacement)]
    /\ reserved' = reserved \ {replacement}
    /\ excluded' = excluded \cup {failed}
    /\ history' = << [split |-> s, failed_paper_id |-> failed,
            replacement_paper_id |-> replacement, stratum |-> Stratum[failed]] >>
    /\ UNCHANGED <<pool, phase, turn>>

replace_from_reserve(s, failed, replacement) ==
    /\ phase = "sealed"
    /\ failed \in assignments[s]
    /\ replacement \in reserved
    /\ Stratum[failed] = Stratum[replacement]
    /\ assignments' = [assignments EXCEPT ![s] = Swapped(@, failed, replacement)]
    /\ reserved' = reserved \ {replacement}
    /\ excluded' = excluded \cup {failed}
    /\ history' = Append(history,
           [split |-> s, failed_paper_id |-> failed,
            replacement_paper_id |-> replacement, stratum |-> Stratum[failed]])
    /\ UNCHANGED <<pool, phase, turn>>

Replace ==
    \E s \in Splits, failed, replacement \in Papers :
        replace_from_reserve(s, failed, replacement)

Next == AssignSplit \/ NotEnough \/ SealSelection \/ ReserveShort \/ Replace

Spec == Init /\ [][Next]_vars

-----------------------------------------------------------------------------
(* Properties *)

TypeOK ==
    /\ pool \in SUBSET Papers
    /\ phase \in {"selecting", "sealed", "rejected"}
    /\ turn \in 1 .. Len(SplitOrder) + 1
    /\ assignments \in [Splits -> SUBSET pool]
    /\ reserved \in SUBSET pool
    /\ excluded \in SUBSET pool
    /\ history \in Seq(Replacements)

Dealt(i) == i < turn

\* Whatever was replaced, every split has its quota of every stratum.
QuotasKept ==
    \A i \in 1 .. Len(SplitOrder) :
        Dealt(i) => MeetsQuota(SplitOrder[i], assignments[SplitOrder[i]])

SplitsDisjoint ==
    \A s, r \in Splits : s # r => assignments[s] \cap assignments[r] = {}

\* No paper is in two splits, and in a sealed selection every eligible paper
\* is in exactly one split, in the reserve, or excluded.
Partitioned ==
    /\ SplitsDisjoint
    /\ phase = "sealed" =>
           /\ Used \cup reserved \cup excluded = pool
           /\ Used \cap reserved = {}
           /\ Used \cap excluded = {}
           /\ reserved \cap excluded = {}

\* The history accounts for the excluded papers, each of them once, and every
\* replacement still stands in the split it was made for, unless a later
\* entry replaced it there.
HistoryExplains ==
    /\ excluded = {history[i].failed_paper_id : i \in DOMAIN history}
    /\ \A i, j \in DOMAIN history :
           history[i].failed_paper_id = history[j].failed_paper_id => i = j
    /\ \A i \in DOMAIN history :
           LET r == history[i].replacement_paper_id
               s == history[i].split
           IN  /\ Stratum[r] = Stratum[history[i].failed_paper_id]
               /\ \/ r \in assignments[s]
                  \/ \E j \in DOMAIN history :
                         /\ i < j
                         /\ history[j].failed_paper_id = r
                         /\ history[j].split = s

\* An excluded paper is never assigned or kept in reserve again, and a paper
\* leaves the reserve only to be assigned.
ExcludedForGood ==
    [][ /\ excluded \subseteq excluded'
        /\ excluded \cap (Used' \cup reserved') = {}
        /\ phase = "sealed" => reserved \ reserved' \subseteq Used' ]_vars

=============================================================================
