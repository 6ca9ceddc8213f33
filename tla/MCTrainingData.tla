--------------------------- MODULE MCTrainingData ---------------------------
(***************************************************************************)
(* TrainingData on a small instance: a train task that is solved, a dev    *)
(* task that is answered wrongly or not at all, a promotion task the loop  *)
(* passes over, records from outside the loop, and an edited row.          *)
(***************************************************************************)
EXTENDS TrainingData, TLC

CONSTANTS
    MaxStarts,   \* passes of the loop
    MaxImports,  \* lines from outside the loop
    MaxLines,    \* lines of all libraries together
    MaxExports,  \* exports that are started
    MaxEdits,    \* rows edited after an export, while no other one runs
    MaxCrashes   \* processes that die

VARIABLES passes, imports, started, edits, crashes

counters == <<passes, imports, started, edits, crashes>>

mcvars == <<vars, counters>>

MCSplit == [right |-> "train", dev |-> "dev", formal |-> "promotion"]
MCOutcomes == [right |-> {{"solved"}, {"solved", "failed"}}, dev |-> {{"wrong"}, {"silent"}},
               formal |-> {}]
MCOrder == <<"dev", "formal", "right">>

Symmetry == Permutations(Exporters)

Teacher == [Record("right", {"solved"}) EXCEPT !.source = "closed_teacher",
                                              !.origin = "outside"]

\* Its digests are right, its verdict is not: nothing recomputes it.
FalseClaim == [Teacher EXCEPT !.executions = {"failed"}]

\* A false claim, a counterexample with its correction, a dev record in a
\* training library, and a success whose parts were changed after its verdict.
MCImports ==
    {[file |-> "success", record |-> FalseClaim],
     [file |-> "counterexample",
      record |-> [Teacher EXCEPT !.executions = {"failed"}, !.accepted = FALSE,
                                 !.correction = {Teacher}]],
     [file |-> "success", record |-> [Teacher EXCEPT !.split = "dev"]],
     [file |-> "success", record |-> [Teacher EXCEPT !.bound = FALSE]]}

\* A row no record stands behind.
MCEdits == {[Teacher EXCEPT !.origin = "edited", !.bound = FALSE, !.accepted = FALSE,
                            !.executions = {}]}

\* The line that is being imported is one an export takes; one it refuses makes
\* every later export fail, so it is only tried as the first.
Sound == \A append \in writers'["other"] : append.record.split = "train" /\ append.record.bound

Room ==
    Len(libraries["success"]) + Len(libraries["counterexample"])
        + Len(libraries["diagnostics"]) < MaxLines

MCInit == Init /\ passes = 0 /\ imports = 0 /\ started = 0 /\ edits = 0 /\ crashes = 0

MCNext ==
    \/ /\ passes < MaxStarts
       /\ Start
       /\ passes' = passes + 1 /\ UNCHANGED <<imports, started, edits, crashes>>
    \/ (Skip \/ (Room /\ Try) \/ Recorded \/ Finish) /\ UNCHANGED counters
    \/ /\ imports < MaxImports /\ Room
       /\ BeginImport
       /\ imports > 0 => Sound
       /\ imports' = imports + 1 /\ UNCHANGED <<passes, started, edits, crashes>>
    \/ EndImport /\ UNCHANGED counters
    \/ \E e \in Exporters :
           \/ /\ started < MaxExports
              /\ BeginExport(e)
              /\ started' = started + 1 /\ UNCHANGED <<passes, imports, edits, crashes>>
           \/ (ReadCounterexamples(e) \/ CheckOutput(e) \/ OpenOutput(e) \/ FillOutput(e))
              /\ UNCHANGED counters
    \/ /\ edits < MaxEdits /\ \A e \in Exporters : exports[e].pc = "idle"
       /\ EditBucket
       /\ edits' = edits + 1 /\ UNCHANGED <<passes, imports, started, crashes>>
    \/ (BeginTraining \/ LoadBucket \/ Schedule \/ Refuse \/ WriteReceipt) /\ UNCHANGED counters
    \/ /\ crashes < MaxCrashes
       /\ LoopCrash \/ TrainingCrash \/ \E e \in Exporters : ExportCrash(e)
       /\ crashes' = crashes + 1
       /\ UNCHANGED <<passes, imports, started, edits>>

MCSpec == MCInit /\ [][MCNext]_mcvars
=============================================================================
