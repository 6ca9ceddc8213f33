---------------------------- MODULE TrainingData ----------------------------
(***************************************************************************)
(* From an execution to a training schedule.                               *)
(*                                                                         *)
(* vse/toy.py runs candidates, vse/verifier.py judges them, vse/store.py   *)
(* routes the records to JSONL libraries and exports the libraries as      *)
(* three buckets and a manifest, and train_qlora.py loads those files.     *)
(* The loop, every export and the training are processes of their own: a   *)
(* library may grow while it is exported, two exports may write the same   *)
(* directory, each may die at any step, other programs and editors append  *)
(* to the libraries, and a bucket may be edited once it is exported.       *)
(*                                                                         *)
(* A definition whose name ends in _bug is a slip the code could have had; *)
(* the property named beside it rules it out.                              *)
(***************************************************************************)
EXTENDS Naturals, Sequences, FiniteSets

CONSTANTS
    Candidates,  \* the proposals the loop tries, one for each task
    Order,       \* Order[i]: the candidate of the i-th task
    Split,       \* Split[c]: the split of its task
    Outcomes,    \* Outcomes[c]: what the executions of c may come to
    Exporters,   \* export-training-data processes
    Imports,     \* records other tools or an editor may put in a library
    Edits        \* rows an editor may put in place of one in a bucket

VARIABLES
    libraries,  \* the JSONL files the router appends to
    writers,    \* writers[w]: the append w is in, at most one
    loop,       \* the task run-toy is at, 0 when it does not run
    exports,    \* the state of each export-training-data process
    dataset,    \* the export directory: {} for an absent file, else {its content}
    training,   \* train_qlora, and its output directory
    overlapped  \* whether two exports ever ran at the same time

vars == <<libraries, writers, loop, exports, dataset, training, overlapped>>

Buckets == {"teacher_anchor", "verified_success", "corrected_counterexample"}

Outputs == <<"teacher_anchor", "verified_success", "corrected_counterexample",
             "manifest">>

Weight == [teacher_anchor |-> 5, verified_success |-> 3, corrected_counterexample |-> 2]

\* A last line without its newline, and a finished line that is not JSON.
Torn == [text |-> "torn"]
Garbled == [text |-> "garbled"]

-----------------------------------------------------------------------------
(* execute, attach_trusted_metrics and verify: what the executions of one  *)
(* candidate came to, over its seeds, is a set of results.                 *)

\* A timeout (exit code 124), output that is not a JSON object (65), and any
\* other nonzero exit code: no result, so no metrics worth reading.
Broken == {"failed"}

\* Exit code 0 and a JSON object without the answer x: nothing is measured.
Unmeasured == {"silent"}

\* The answer's metrics meet every threshold, or miss one.
Measured == {"solved", "wrong"}

Results == Broken \cup Unmeasured \cup Measured

Healthy(executions) == executions \ Broken

ASSUME DataAssumption ==
    /\ Order \in Seq(Candidates)
    /\ Outcomes \in [Candidates -> SUBSET ((SUBSET Results) \ {{}})]

\* TrainedRowsChecked: the metrics of the seeds that ended decide.
HardFailures_bug(executions) ==
    IF Healthy(executions) = {} THEN {"execution_failed"}
    ELSE {"hard_metric_failed" : x \in Healthy(executions) \cap {"wrong"}}

\* Only the healthy executions have metrics to compare with the thresholds.
HardFailures(executions) ==
    {"execution_failed" : x \in executions \cap Broken}
        \cup {"missing_result" : x \in executions \cap Unmeasured}
        \cup {"hard_metric_failed" : x \in Healthy(executions) \cap {"wrong"}}

Accepted(executions) == executions # {} /\ HardFailures(executions) = {}

\* verify notes a missing result and then reads the vds components all the
\* same, without which it raises: such executions get no verdict.
Raises(executions) == Healthy(executions) \cap Unmeasured # {}

\* A record: whose it is, what its executions came to, and whether the
\* digests in it still bind its parts and the verdict to each other.  "origin"
\* is in no file; it says who made the record: the loop, whose verdict is
\* verify's, another program, whose verdict is its own, or an editor.
Record(c, executions) ==
    [candidate |-> c, split |-> Split[c], source |-> "open_model",
     executions |-> executions, accepted |-> Accepted(executions),
     bound |-> TRUE, correction |-> {}, origin |-> "loop"]

IsRecord(r) ==
    /\ DOMAIN r = {"candidate", "split", "source", "executions", "accepted",
                   "bound", "correction", "origin"}
    /\ r.executions \subseteq Results

From(r, origin) == IsRecord(r) /\ r.origin = origin

Files == {"success", "counterexample", "diagnostics"}

ASSUME ImportAssumption ==
    \A import \in Imports :
        /\ import.file \in Files
        /\ From(import.record, "outside")
        /\ \A r \in import.record.correction : From(r, "outside")

ASSUME EditAssumption == \A r \in Edits : From(r, "edited")

\* route: the library of a record.
Library(record) ==
    IF record.split # "train" THEN "diagnostics"
    ELSE IF record.accepted THEN "success" ELSE "counterexample"

-----------------------------------------------------------------------------
(* append_jsonl: under the file's lock, one line.  A line that a dead      *)
(* writer cut short has no newline, so the next one continues it.          *)

Writers == {"loop", "other"}

Locked(file) == \E w \in Writers : \E append \in writers[w] : append.file = file

EndsTorn(lines) == lines # <<>> /\ lines[Len(lines)] = Torn

BeginAppend(w, record, file) ==
    /\ ~Locked(file)
    /\ writers' = [writers EXCEPT ![w] = {[file |-> file, record |-> record,
                                           glued |-> EndsTorn(libraries[file])]}]
    /\ libraries' = [libraries EXCEPT ![file] =
                        IF EndsTorn(@) THEN @ ELSE Append(@, Torn)]

\* TypeOK: the lock is never let go.
EndAppend_bug(w) ==
    /\ \E append \in writers[w] :
           libraries' = [libraries EXCEPT ![append.file] =
               [@ EXCEPT ![Len(@)] = IF append.glued THEN Garbled ELSE append.record]]
    /\ UNCHANGED writers

EndAppend(w) ==
    \E append \in writers[w] :
        /\ libraries' = [libraries EXCEPT ![append.file] =
               [@ EXCEPT ![Len(@)] = IF append.glued THEN Garbled ELSE append.record]]
        /\ writers' = [writers EXCEPT ![w] = {}]

OthersUnchanged == UNCHANGED <<exports, dataset, training, overlapped>>

-----------------------------------------------------------------------------
(* run_training_smoke *)

Start ==
    /\ loop = 0
    /\ loop' = 1
    /\ UNCHANGED <<libraries, writers>> /\ OthersUnchanged

\* A task of another split is skipped: local_test executes none of those.
Skip ==
    /\ loop \in DOMAIN Order
    /\ Split[Order[loop]] \notin {"train", "dev"}
    /\ loop' = loop + 1
    /\ UNCHANGED <<libraries, writers>> /\ OthersUnchanged

\* The task is executed over its seeds and judged; a verdict goes to a library,
\* and where there is none the pass ends with the exception.
Try ==
    /\ loop \in DOMAIN Order
    /\ writers["loop"] = {}
    /\ LET c == Order[loop] IN
       /\ Split[c] \in {"train", "dev"}
       /\ \E executions \in Outcomes[c] :
              \/ /\ Raises(executions)
                 /\ loop' = 0
                 /\ UNCHANGED <<libraries, writers>>
              \/ /\ ~Raises(executions)
                 /\ LET record == Record(c, executions)
                    IN  BeginAppend("loop", record, Library(record))
                 /\ UNCHANGED loop
    /\ OthersUnchanged

Recorded ==
    /\ EndAppend("loop")
    /\ loop' = loop + 1
    /\ OthersUnchanged

Finish ==
    /\ loop = Len(Order) + 1
    /\ loop' = 0
    /\ UNCHANGED <<libraries, writers>> /\ OthersUnchanged

\* The process dies, in an append or between two: nothing says where it was.
LoopCrash ==
    /\ loop # 0
    /\ loop' = 0
    /\ writers' = [writers EXCEPT !["loop"] = {}]
    /\ UNCHANGED libraries /\ OthersUnchanged

\* Another program, or an editor, puts a line in a library.
BeginImport ==
    /\ writers["other"] = {}
    /\ \E import \in Imports : BeginAppend("other", import.record, import.file)
    /\ UNCHANGED loop /\ OthersUnchanged

EndImport == EndAppend("other") /\ UNCHANGED loop /\ OthersUnchanged

-----------------------------------------------------------------------------
(* export_training_datasets *)

\* verify_trajectory_payload.
Verifies(record, require_accepted) ==
    /\ record.split = "train"
    /\ record.bound
    /\ require_accepted => record.accepted

\* read_jsonl, and the check of every row of it.
Readable(lines, require_accepted) ==
    \A i \in DOMAIN lines :
        /\ lines[i] \notin {Torn, Garbled}
        /\ Verifies(lines[i], require_accepted)
        /\ \A r \in lines[i].correction :
               Verifies(r, TRUE) /\ r.candidate = lines[i].candidate

BucketOf(record) ==
    IF record.source = "closed_teacher" THEN "teacher_anchor" ELSE "verified_success"

\* The i-th of some line numbers, and the lines with these numbers in their order.
Nth(numbers, i) == CHOOSE k \in numbers : Cardinality({j \in numbers : j <= k}) = i

LinesAt(lines, numbers) == [i \in 1 .. Cardinality(numbers) |-> lines[Nth(numbers, i)]]

OfBucket(success, b) == LinesAt(success, {i \in DOMAIN success : BucketOf(success[i]) = b})

Corrected(counterexample) ==
    LinesAt(counterexample, {i \in DOMAIN counterexample : counterexample[i].correction # {}})

\* The rows of each bucket, and the manifest over them.
Export(success, counterexample) ==
    LET corrected == Corrected(counterexample)
        rows == [b \in Buckets |->
            IF b = "corrected_counterexample"
            THEN [i \in DOMAIN corrected |-> CHOOSE r \in corrected[i].correction : TRUE]
            ELSE OfBucket(success, b)]
    IN  [o \in Buckets \cup {"manifest"} |->
            IF o = "manifest" THEN <<[b \in Buckets |-> Len(rows[b])]>> ELSE rows[o]]

Idle == [pc |-> "idle", turn |-> 1, success |-> <<>>, counterexample |-> <<>>]

InputsUnchanged == UNCHANGED <<libraries, writers, loop, training>>

BeginExport(e) ==
    /\ exports[e].pc = "idle"
    /\ Readable(libraries["success"], TRUE)
    /\ exports' = [exports EXCEPT ![e] =
                      [@ EXCEPT !.pc = "read", !.success = libraries["success"]]]
    /\ overlapped' = (overlapped \/ \E other \in Exporters \ {e} : exports[other].pc # "idle")
    /\ UNCHANGED dataset /\ InputsUnchanged

ReadCounterexamples(e) ==
    /\ exports[e].pc = "read"
    /\ exports' = [exports EXCEPT ![e] =
           IF Readable(libraries["counterexample"], FALSE)
           THEN [@ EXCEPT !.pc = "check", !.counterexample = libraries["counterexample"]]
           ELSE Idle]
    /\ UNCHANGED <<dataset, overlapped>> /\ InputsUnchanged

ToWrite(e) == Export(exports[e].success, exports[e].counterexample)[Outputs[exports[e].turn]]

\* ReceiptTrue: an export replaces what an earlier one wrote.
CheckOutput_bug(e) ==
    /\ exports[e].pc = "check"
    /\ exports' = [exports EXCEPT ![e].pc = "open"]
    /\ UNCHANGED <<dataset, overlapped>> /\ InputsUnchanged

\* _write_rows_once: a file that says something else stops the export.
CheckOutput(e) ==
    /\ exports[e].pc = "check"
    /\ exports' = [exports EXCEPT ![e] =
           IF dataset[Outputs[@.turn]] \subseteq {ToWrite(e)}
           THEN [@ EXCEPT !.pc = "open"] ELSE Idle]
    /\ UNCHANGED <<dataset, overlapped>> /\ InputsUnchanged

\* write_text empties the file, then fills it.
OpenOutput(e) ==
    /\ exports[e].pc = "open"
    /\ dataset' = [dataset EXCEPT ![Outputs[exports[e].turn]] = {<<>>}]
    /\ exports' = [exports EXCEPT ![e].pc = "fill"]
    /\ UNCHANGED overlapped /\ InputsUnchanged

FillOutput(e) ==
    /\ exports[e].pc = "fill"
    /\ dataset' = [dataset EXCEPT ![Outputs[exports[e].turn]] = {ToWrite(e)}]
    /\ exports' = [exports EXCEPT ![e] =
           IF @.turn = Len(Outputs) THEN Idle
           ELSE [@ EXCEPT !.pc = "check", !.turn = exports[e].turn + 1]]
    /\ UNCHANGED overlapped /\ InputsUnchanged

ExportCrash(e) ==
    /\ exports[e].pc # "idle"
    /\ exports' = [exports EXCEPT ![e] = Idle]
    /\ UNCHANGED <<dataset, overlapped>> /\ InputsUnchanged

\* An editor puts a row in the place of another of an exported bucket.  One that
\* changes how many there are, or the label of a row, is refused at the loading.
EditBucket ==
    /\ \E b \in Buckets : \E rows \in dataset[b] : \E i \in DOMAIN rows, row \in Edits :
           dataset' = [dataset EXCEPT ![b] = {[rows EXCEPT ![i] = row]}]
    /\ UNCHANGED <<exports, overlapped>> /\ InputsUnchanged

-----------------------------------------------------------------------------
(* train_qlora: _load_training_rows, and the training it starts *)

Untrained == [pc |-> "idle", turn |-> 1, manifest |-> {}, receipt |-> {},
              rows |-> [b \in Buckets |-> <<>>], schedule |-> [b \in Buckets |-> <<>>]]

FilesUnchanged == UNCHANGED <<libraries, writers, loop, exports, dataset, overlapped>>

\* The output directory is still empty, and the manifest is whole.
BeginTraining ==
    /\ training.pc = "idle"
    /\ dataset["manifest"] \notin {{}, {<<>>}}
    /\ training' = [training EXCEPT !.pc = "load", !.manifest = dataset["manifest"]]
    /\ FilesUnchanged

Counts(b) == (CHOOSE m \in training.manifest : TRUE)[1][b]

\* OneSnapshot: the counts of the manifest are not compared.
RowsFit_bug(rows, b) == rows # <<>>

RowsFit(rows, b) == rows # <<>> /\ Len(rows) = Counts(b)

LoadBucket ==
    /\ training.pc = "load"
    /\ training.turn <= Cardinality(Buckets)
    /\ LET b == Outputs[training.turn]
       IN  \/ /\ \A rows \in dataset[b] : ~RowsFit(rows, b)
              /\ training' = Untrained
           \/ \E rows \in dataset[b] :
                  /\ RowsFit(rows, b)
                  /\ training' = [training EXCEPT !.turn = @ + 1, !.rows[b] = rows]
    /\ FilesUnchanged

\* ScheduleFair: whole cycles only.
Cycles_bug(rows) ==
    LET needed(b) == Len(rows[b]) \div Weight[b]
    IN  CHOOSE n \in {needed(b) : b \in Buckets} : \A b \in Buckets : needed(b) <= n

\* The cycles every bucket needs to show each of its rows once.
Cycles(rows) ==
    LET needed(b) == (Len(rows[b]) + Weight[b] - 1) \div Weight[b]
    IN  CHOOSE n \in {needed(b) : b \in Buckets} : \A b \in Buckets : needed(b) <= n

\* The rows of each bucket in the schedule, before the shuffle.
Scheduled(rows) ==
    [b \in Buckets |->
        [i \in 1 .. Cycles(rows) * Weight[b] |-> rows[b][((i - 1) % Len(rows[b])) + 1]]]

Schedule ==
    /\ training.pc = "load"
    /\ training.turn = Cardinality(Buckets) + 1
    /\ training' = [training EXCEPT !.pc = "train", !.schedule = Scheduled(training.rows)]
    /\ FilesUnchanged

\* A refusal before anything is written: too few tokens, a missing library.
Refuse ==
    /\ training.pc = "train"
    /\ training' = Untrained
    /\ FilesUnchanged

\* The adapter is saved; the receipt hashes the manifest as it is by now.
WriteReceipt ==
    /\ training.pc = "train"
    /\ dataset["manifest"] # {}
    /\ training' = [training EXCEPT !.pc = "trained", !.receipt = dataset["manifest"]]
    /\ FilesUnchanged

\* It dies after its first checkpoint: the output directory is never empty again.
TrainingCrash ==
    /\ training.pc = "train"
    /\ training' = [training EXCEPT !.pc = "dead"]
    /\ FilesUnchanged

-----------------------------------------------------------------------------
Init ==
    /\ libraries = [file \in Files |-> <<>>]
    /\ writers = [w \in Writers |-> {}]
    /\ loop = 0
    /\ exports = [e \in Exporters |-> Idle]
    /\ dataset = [o \in Buckets \cup {"manifest"} |-> {}]
    /\ training = Untrained
    /\ overlapped = FALSE

LoopStep == Start \/ Skip \/ Try \/ Recorded \/ Finish \/ LoopCrash

ImportStep == BeginImport \/ EndImport

ExportStep(e) ==
    \/ BeginExport(e) \/ ReadCounterexamples(e) \/ CheckOutput(e)
    \/ OpenOutput(e) \/ FillOutput(e) \/ ExportCrash(e)

TrainingStep ==
    \/ BeginTraining \/ LoadBucket \/ Schedule
    \/ Refuse \/ WriteReceipt \/ TrainingCrash

Next ==
    \/ LoopStep
    \/ ImportStep
    \/ \E e \in Exporters : ExportStep(e)
    \/ EditBucket
    \/ TrainingStep

Spec == Init /\ [][Next]_vars

-----------------------------------------------------------------------------
IsLines(lines) == \A i \in DOMAIN lines : lines[i] \in {Torn, Garbled} \/ IsRecord(lines[i])

\* The shape of every variable; only the last line of a library is torn, and
\* while an append holds the lock its line is.
TypeOK ==
    /\ \A file \in DOMAIN libraries :
           /\ IsLines(libraries[file])
           /\ \A i \in DOMAIN libraries[file] :
                  libraries[file][i] = Torn => i = Len(libraries[file])
           /\ Locked(file) => EndsTorn(libraries[file])
    /\ loop \in 0 .. Len(Order) + 1
    /\ \A e \in Exporters : /\ exports[e].pc \in {"idle", "read", "check", "open", "fill"}
                            /\ exports[e].turn \in DOMAIN Outputs
    /\ training.pc \in {"idle", "load", "train", "trained", "dead"}
    /\ overlapped \in BOOLEAN

\* Nothing gets into a training unchecked but by an edit of a bucket after its
\* export, which nothing shows: every other row is of a train task, of a record
\* that binds its own parts and claims acceptance, in the bucket of its source.
\* Whether the claim is true is known of the loop's own records only: of those,
\* every seed ran to its end and met the thresholds, and a failed seed is not
\* outvoted by the healthy ones.
TrainedRowsChecked ==
    \A b \in Buckets : \A i \in DOMAIN training.schedule[b] :
        LET r == training.schedule[b][i] IN
        r.origin # "edited" =>
            /\ r.split = "train" /\ r.bound /\ r.accepted
            /\ r.origin = "loop" => r.executions = {"solved"}
            /\ b = "teacher_anchor" => r.source = "closed_teacher"

\* The manifest holds counts and no hashes; still, the buckets that are trained
\* on are those of one export, what the libraries held when it read them, but
\* for the rows edited since.  The libraries only grow, so two exports of a
\* bucket with equally many rows agree.
OneSnapshot ==
    training.pc \in {"train", "trained"} =>
        \E k \in 0 .. Len(libraries["success"]), j \in 0 .. Len(libraries["counterexample"]) :
            /\ Readable(SubSeq(libraries["success"], 1, k), TRUE)
            /\ Readable(SubSeq(libraries["counterexample"], 1, j), FALSE)
            /\ LET export == Export(SubSeq(libraries["success"], 1, k),
                                    SubSeq(libraries["counterexample"], 1, j))
               IN  \A b \in Buckets :
                       /\ Len(training.rows[b]) = Len(export[b])
                       /\ \A i \in DOMAIN training.rows[b] :
                              \/ training.rows[b][i] = export[b][i]
                              \/ training.rows[b][i].origin = "edited"

\* The schedule has exactly the frozen mixture, leaves no row out, and shows no
\* position of a bucket twice more often than another.
ScheduleFair ==
    training.pc \in {"train", "trained"} =>
        /\ \A b, c \in Buckets :
               Len(training.schedule[b]) * Weight[c] = Len(training.schedule[c]) * Weight[b]
        /\ \A b \in Buckets : LET n == Len(training.rows[b]) IN
               \A i \in 1 .. n : \A j \in 1 .. n :
                   LET shown(k) == Cardinality({m \in DOMAIN training.schedule[b] :
                                                    m % n = k % n})
                   IN  shown(i) >= 1 /\ shown(i) <= shown(j) + 1

\* The receipt hashes the manifest after the training, not when it was loaded.
\* As long as exports into the directory do not overlap, that is the manifest
\* trained on, or the file an export has just emptied to write the same again.
ReceiptTrue ==
    training.receipt # {} /\ ~overlapped =>
        training.receipt \in {training.manifest, {<<>>}}
=============================================================================
