---------------------------- MODULE PromotionGate ----------------------------
(***************************************************************************)
(* The gates of vse/promotion.py in front of PromotionStateMachine: the    *)
(* evaluation cells of a candidate and of a comparator are judged, and the *)
(* verdict, whatever it is, is recorded (vse/cli.py).                      *)
(*                                                                         *)
(* A sheet is a file of cells of one group, from one evaluation of it.  A  *)
(* cell is a task and an adapter seed, its rollout seeds averaged, with a  *)
(* score in hundredths.  Every attempt scores its candidate and its        *)
(* comparator anew: nothing in the code ties the scores of a group in one  *)
(* evaluation to those in the next.  The bootstrap bound is some value     *)
(* between the least and the greatest task delta.                          *)
(*                                                                         *)
(* A definition whose name ends in _bug is a slip the code could have had; *)
(* the property named beside it rules it out.                              *)
(***************************************************************************)
EXTENDS PromotionStateMachine, Functions

CONSTANTS
    Tasks, OodTasks,    \* the tasks of a phase, and those of stratum or split "ood"
    Adapters,           \* adapter seeds
    MinDelta,           \* minimum_vds_delta, minimum_id_vds_delta
    MinAdapterPasses,   \* minimum_adapter_seed_passes
    MinRate,            \* minimum_hard_pass_rate and the executable one, in percent
    Margin,             \* ood_noninferiority_margin, as a sum over the adapters
    MaxRegressed,       \* maximum_regressed_task_fraction of a promotion, in percent
    Tables              \* what the scores of an evaluation may be

Keys == Tasks \X Adapters

ASSUME GateAssumption ==
    /\ IsFiniteSet(Keys) /\ Keys # {} /\ OodTasks \subseteq Tasks
    /\ Tables \subseteq [Keys -> Nat]
    /\ MinDelta \in Nat \ {0} /\ Margin \in Int /\ MinRate \in 0 .. 100
    /\ MinAdapterPasses \in Nat /\ MaxRegressed \in 0 .. 100

\* What the recorded decisions rested on, kept beside the ledger:
VARIABLES
    evidence,       \* the evaluations of the groups that were promoted
    ood_failures    \* the failures of the OOD split of each final decision

gatevars == <<log, evidence, ood_failures>>

\* Every file of cells an operator may name.  unclean: the cells that failed a hard
\* gate or did not run; forged: those with a fabricated result or a leaked target.
Sheets ==
    [phase : {"promotion", "final"}, group : Groups, attempts : SUBSET Nat,
     keys : SUBSET Keys, unclean : SUBSET Keys, forged : SUBSET Keys, scores : Tables]

-----------------------------------------------------------------------------
(* _make_split_decision, on the cells of the given tasks                   *)

Cells(sheet, tasks) == {key \in sheet.keys : key[1] \in tasks}

Sum(f, keys) == FoldFunctionOnSet(LAMBDA x, sum : x + sum, 0, f, keys)

Delta(cand, champ, key) == cand.scores[key] - champ.scores[key]

SumDelta(cand, champ, keys) == Sum([key \in Keys |-> Delta(cand, champ, key)], keys)

TaskDelta(cand, champ, t) == SumDelta(cand, champ, {t} \X Adapters)

\* The bounds the bootstrap may report.
Bounds(cand, champ, tasks) ==
    LET deltas == {TaskDelta(cand, champ, t) : t \in tasks}
    IN  Min(deltas) .. Max(deltas)

\* unmatched_evaluation_grid, task_count_mismatch, the two seed_grid_mismatches.
GridComplete(cand, champ, tasks) ==
    Cells(cand, tasks) = tasks \X Adapters /\ Cells(champ, tasks) = tasks \X Adapters

RatesOk(cand, tasks) ==
    LET cells == Cells(cand, tasks)
    IN  100 * Cardinality(cells \ cand.unclean) >= MinRate * Cardinality(cells)

Regressed(cand, champ, tasks) == {t \in tasks : TaskDelta(cand, champ, t) < 0}

\* LossMeansRescored: the adapter gate stands for the mean, which is not looked at.
GainOk_bug(cand, champ, tasks, low, minimum) == TRUE

GainOk(cand, champ, tasks, low, minimum) ==
    /\ SumDelta(cand, champ, tasks \X Adapters)
           >= minimum * Cardinality(tasks) * Cardinality(Adapters)
    /\ low > 0

AdapterDelta(cand, champ, tasks, a) == SumDelta(cand, champ, tasks \X {a})

\* An adapter seed passes with clean cells and a gain; as many pass as must, and
\* so does the median one.
AdapterOk(cand, champ, tasks) ==
    LET gains == {a \in Adapters :
                      AdapterDelta(cand, champ, tasks, a) >= MinDelta * Cardinality(tasks)}
        clean == {a \in Adapters : (tasks \X {a}) \cap (cand.unclean \cup cand.forged) = {}}
    IN  /\ Cardinality(gains \cap clean) >= MinAdapterPasses
        /\ 2 * Cardinality(gains) > Cardinality(Adapters)

\* MarginNeverDecides: the mean decides, whatever became of single tasks.
SplitFailures_bug(cand, champ, tasks, max_regressed) ==
    {f \in {"grid", "rates", "forged"} :
        \/ f = "grid" /\ ~GridComplete(cand, champ, tasks)
        \/ f = "rates" /\ ~RatesOk(cand, tasks)
        \/ f = "forged" /\ Cells(cand, tasks) \cap cand.forged # {}}

SplitFailures(cand, champ, tasks, max_regressed) ==
    {f \in {"grid", "rates", "forged", "regressed"} :
        \/ f = "grid" /\ ~GridComplete(cand, champ, tasks)
        \/ f = "rates" /\ ~RatesOk(cand, tasks)
        \/ f = "forged" /\ Cells(cand, tasks) \cap cand.forged # {}
        \/ /\ f = "regressed"
           /\ 100 * Cardinality(Regressed(cand, champ, tasks))
                  > max_regressed * Cardinality(tasks)}

-----------------------------------------------------------------------------
(* decide_promotion and decide_final                                       *)

\* _common_checks raises, and nothing is recorded, when a sheet is empty or of
\* another phase.
Comparable(cand, champ, phase) ==
    \A sheet \in {cand, champ} : sheet.keys # {} /\ sheet.phase = phase

PromotionFailures(cand, champ, low) ==
    SplitFailures(cand, champ, Tasks, MaxRegressed) \cup
    {f \in {"candidate_is_champion", "attempt", "gain", "adapter", "ood"} :
        \/ f = "candidate_is_champion" /\ cand.group = champ.group
        \/ /\ f = "attempt"
           /\ \A attempt \in 1 .. MaxAttempts : cand.attempts \cup champ.attempts # {attempt}
        \/ f = "gain" /\ ~GainOk(cand, champ, Tasks, low, MinDelta)
        \/ f = "adapter" /\ ~AdapterOk(cand, champ, Tasks)
        \/ f = "ood" /\ SumDelta(cand, champ, OodTasks \X Adapters) < 0}

\* The OOD split fails on its margin, and on any task that regressed.
OodFailures(cand, champ, low) ==
    SplitFailures(cand, champ, OodTasks, 0)
        \cup (IF low <= Margin THEN {"margin"} ELSE {})

FinalFailures(cand, champ, low, low_ood) ==
    SplitFailures(cand, champ, Tasks \ OodTasks, 0)
        \cup OodFailures(cand, champ, low_ood)
        \cup (IF GainOk(cand, champ, Tasks \ OodTasks, low, MinDelta) THEN {} ELSE {"gain"})
        \cup (IF cand.group = champ.group THEN {"candidate_is_champion"} ELSE {})

Decision(kind, cand, champ, failures) ==
    [decision_kind |-> kind, promoted |-> failures = {},
     candidate |-> cand.group, champion |-> champ.group]

-----------------------------------------------------------------------------
Gain(cand, champ) ==
    [candidate |-> cand.group, new |-> cand.scores,
     champion |-> champ.group, old |-> champ.scores]

\* The recorded attempt is that of some cell of the candidate.
DecidePromotion(cand, champ) ==
    /\ Comparable(cand, champ, "promotion")
    /\ \E low \in Bounds(cand, champ, Tasks), attempt \in cand.attempts :
           LET failures == PromotionFailures(cand, champ, low)
           IN  /\ record_promotion(attempt, Decision("promotion", cand, champ, failures))
               /\ evidence' = evidence \cup IF failures = {} THEN {Gain(cand, champ)} ELSE {}
    /\ UNCHANGED ood_failures

\* The comparator must be the frozen base checkpoint; the group stands for its id and
\* digest.
DecideFinal(cand, champ) ==
    /\ Comparable(cand, champ, "final")
    /\ champ.group = Base
    /\ \E low \in Bounds(cand, champ, Tasks \ OodTasks),
          low_ood \in Bounds(cand, champ, OodTasks) :
           /\ record_final(Decision("final", cand, champ,
                  FinalFailures(cand, champ, low, low_ood)))
           /\ ood_failures' = ood_failures \cup {OodFailures(cand, champ, low_ood)}
    /\ UNCHANGED evidence

GateInit == Init /\ evidence = {} /\ ood_failures = {}

GateNext == \E cand, champ \in Sheets : DecidePromotion(cand, champ) \/ DecideFinal(cand, champ)

GateSpec == GateInit /\ [][GateNext]_gatevars

-----------------------------------------------------------------------------
\* scores[g] may have been the table of group g in every evaluation that led to a
\* promotion: none of them scored a group otherwise than another did.
Explains(scores) ==
    \A gain \in evidence : gain.new = scores[gain.candidate] /\ gain.old = scores[gain.champion]

Accumulated(scores) ==
    /\ Sum(scores[Champion(log)], Keys) - Sum(scores[Base], Keys)
           >= Cardinality(Promoted(log)) * MinDelta * Cardinality(Keys)
    /\ Sum(scores[Champion(log)], OodTasks \X Adapters)
           >= Sum(scores[Base], OodTasks \X Adapters)

\* What a chain of promotions gained is lost again only to a new measurement.  The
\* champion falls behind the minimum per promotion over the base, or behind the base
\* on the OOD tasks, or the title returns to a group that had lost it, only where two
\* of the evaluations scored one group differently; which they may, for champion and
\* candidate are scored anew in each (cli.py:290-291, promotion.py:248).
LossMeansRescored ==
    \A scores \in [Groups -> Tables] : Explains(scores) => Accumulated(scores)

\* FREEZE_V0_1.md:54-55 "Final OOD uses a non-inferiority lower bound of -0.03"; no
\* final decision ever failed on it alone.  A task that regressed has failed the OOD
\* split already, and without one no delta, hence no bound, is below the margin
\* (promotion.py:583-600).
MarginNeverDecides == {"margin"} \notin ood_failures
=============================================================================
