-------------------------- MODULE MCPromotionGate --------------------------
(***************************************************************************)
(* PromotionGate with two tasks, one of them OOD, and three adapter seeds. *)
(***************************************************************************)
EXTENDS PromotionGate, TLC

CONSTANT base, g1, g2

Symmetry == Permutations({g1, g2})

MCMargin == -2

Row(id, ood) == [key \in {"id", "ood"} \X {1, 2, 3} |->
                    IF key[1] = "id" THEN id[key[2]] ELSE ood[key[2]]]

\* A level and a better table, one that gains on a task what it loses on the other, and
\* two of which one beats the other on most adapters with no gain on the whole.
MCTables ==
    {Row(<<1, 1, 1>>, <<1, 1, 1>>),
     Row(<<3, 3, 3>>, <<3, 3, 3>>), Row(<<4, 4, 4>>, <<1, 1, 0>>),
     Row(<<1, 2, 3>>, <<1, 2, 3>>), Row(<<2, 3, 1>>, <<2, 3, 1>>)}

Missing == <<"ood", 1>>

\* Files of cells in order, whatever was measured.
FullSheets(phase, groups, n) ==
    [phase : {phase}, group : groups, attempts : {{n}},
     keys : {Keys}, unclean : {{}}, forged : {{}}, scores : Tables]

Flat == [phase |-> "promotion", group |-> Base, attempts |-> {1}, keys |-> Keys,
         unclean |-> {}, forged |-> {}, scores |-> Row(<<3, 3, 3>>, <<3, 3, 3>>)]

\* Files that lack a cell, have cells that failed or were forged, or are of two
\* attempts.
FaultySheets(phase, groups, n) ==
    {[sheet EXCEPT !.phase = phase, !.group = g] : g \in groups,
        sheet \in {[Flat EXCEPT !.attempts = {n}, !.keys = Keys \ {Missing}],
                   [Flat EXCEPT !.attempts = {n, 1}],
                   [Flat EXCEPT !.attempts = {n}, !.unclean = {<<"id", 1>>}],
                   [Flat EXCEPT !.attempts = {n}, !.unclean = {<<"id", 1>>, <<"ood", 2>>}],
                   [Flat EXCEPT !.attempts = {n}, !.forged = {<<"ood", 3>>}]}}

MCSheets(phase, groups, n) == FullSheets(phase, groups, n) \cup FaultySheets(phase, groups, n)

\* Most of what the state machine refuses whatever the verdict is left out.
MCNext ==
    \/ \E cand \in MCSheets("promotion", Groups, Attempts(log) + 1),
          champ \in FullSheets("promotion", {Champion(log), Base}, Attempts(log) + 1)
                        \cup FaultySheets("promotion", {Champion(log)}, 1) :
           DecidePromotion(cand, champ)
    \/ \E cand \in MCSheets("final", {Champion(log)}, 1),
          champ \in FullSheets("final", {Base}, 1) :
           DecideFinal(cand, champ)

MCSpec == GateInit /\ [][MCNext]_gatevars
=============================================================================
