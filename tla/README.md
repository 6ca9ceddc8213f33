# Verification of the self-evolution control plane

TLA+ models, model-checking runs and machine-checked proofs for the Python
program in `src/vse` and `src/train_qlora.py`: a verifier-gated loop in which
candidate models are evaluated, promoted over a champion a bounded number of
times, and tested once on sealed data, with every decision recorded in a
hash-chained ledger and every input frozen before it is used.

## 1. The system

The program is a set of commands. Each command is a separate operating-system
process that reads and writes files of one *run directory*; the files are the
only shared state. There is no daemon, no lock around a command, and the one
lock of the program is the `flock` inside `RunLedger.append`. What is hard is
therefore not inside any function: it is what a sequence of commands, started
twice, started together or killed half way, leaves in the directory.

| component | state it keeps | operations | what makes it correct |
|---|---|---|---|
| run ledger (`ledger.py`) | `ledger/events.jsonl`, `ledger/anchors/*`, `ledger/head_anchor.json` | `append`, `validate`, `anchor_head` | reads back, append-only, append atomic, anchors true |
| promotion state machine (`state.py`) | none: replays the ledger | `state`, `record_promotion`, `record_final` | contiguous attempts within budget, right comparator, one final evaluation, last |
| decision commands (`cli.py`, `evaluation_io.py`) | decision files | `promotion-decision`, `final-decision` | a decision file is backed by the ledger; the head is anchored |
| formal run builder (`formal.py`) | `config.json`, `manifests/*` | `init-formal-run`, `seal-capsule-manifest`, `bind-freeze` | write-once, bindings agree with what they bind |
| freeze check (`freeze.py`) | report file | `freeze-check` | ready exactly when the bundle is complete and bound |
| gates (`promotion.py`) | none | `decide_promotion`, `decide_final` | paired grids, every failure rejects, frozen bindings |
| paper selection (`paper_selection.py`), contamination (`contamination.py`) | selection, audit receipts | `select_frozen_papers`, `replace_from_reserve`, audit | quotas, disjoint splits, strata kept; an audit that passes is about the selection as it stands |
| toy loop (`toy.py`), verifier (`verifier.py`, `registry.py`), runner (`runner.py`) | records | `run`, `verify` | any missing, failing or untrusted execution rejects |
| store (`store.py`) | trajectory libraries, exported buckets | `append_jsonl`, `route`, `export_training_datasets` | only checked training rows reach a training file; the buckets are of one moment |
| training (`train_qlora.py`) | adapter output, receipt | `_load_training_rows`, `main` | blocked unless frozen; schedule follows the mixture; the receipt is true |
| trusted producer, vertical slice | receipts, artifacts | `run_trusted_process`, `run_vertical_slice` | stages chained by signed receipts; a report that passes is about what ran |
| capsules, semantic review | capsules, receipts | seal, review, load | review bound to the capsule before it |
| real pilot bundle (`v0.1.2_real_pilot_bundle`) | the files of each case | hydrate, review, attest, run stages, build receipts | an interrupted run resumes; what is spoiled is never passed |
| SDK conformance (`v0.1.5_sdk_conformance_confirmation`) | proposals, chains, bindings, reports | generate with repairs, replay, gate | the gate accepts what the last complete pass reported, unless it was read loosely |
| candidate pool, teacher policy | none | `validate_candidate_pool`, `authorize` | a teacher only on training tasks |

How they interact: `init-formal-run` selects papers, writes the manifests and
the ledger's first entry; capsules are sealed and audited; `bind-freeze` writes
the digests of everything into `freeze_bindings.json` and anchors the ledger;
`freeze-check` compares the bundle with the bindings and the ledger's head with
its anchor; training starts only if it is ready. The decision commands read the
bindings, apply the gates, replay the ledger through the state machine, append,
anchor, and write the decision file. Beside the formal run, the loop records its
trajectories in libraries that are exported and trained on, and two pilots
(`v0.1.2`, `v0.1.5`) run a case from its capsule to a report through processes
that leave write-once files and receipts.

`PROJECT.json` lists every component with its status and every hazard of the
code at its line, with the properties that cover it or the reason none does.

## 2. Modules

| module | models | checked in | proved in |
|---|---|---|---|
| `AppendLog` | what `append` promises: one atomic step per call | refined by `RunLedger` | |
| `RunLedger` | `ledger.py`, system call by system call | `MCRunLedger` | `RunLedgerProofs` |
| `PromotionHistory` | what a ledger says: replay and the checks on it (`state.py`) | through the next two | `PromotionGateProofs` |
| `PromotionStateMachine` | `record_promotion`, `record_final` as whole operations | itself | `PromotionGateProofs` |
| `PromotionCommands` | the decision commands and re-runs of `bind-freeze` as processes over `RunLedger` | `MCPromotionCommands` | `PromotionCommandsProofs` |
| `PromotionGate` | `decide_promotion`, `decide_final` (`promotion.py`) in front of `PromotionStateMachine` | `MCPromotionGate` | `PromotionGateProofs` |
| `PaperSelection` | `select_frozen_papers`, `replace_from_reserve` (`paper_selection.py`) | through the next | `ContaminationAuditProofs` |
| `ContaminationAudit` | `contamination.py` over a selection that is replaced in | `MCContaminationAudit` | `ContaminationAuditProofs` |
| `FreezePipeline` | `formal.py`, the verdict of `freeze.py`, the gate of `train_qlora.py` | `MCFreezePipeline` | `FreezePipelineProofs` |
| `TrainingData` | from an execution to a schedule: `toy.py`, `verifier.py`, `store.py`, `train_qlora.py` | `MCTrainingData` | `TrainingDataProofs` |
| `PilotHydration` | `hydrate_and_seal.py` of the pilot bundle | through the next | `PilotBundleProofs` |
| `PilotBundle` | reviews, trusted stages, stage receipts, the vertical slice | `MCPilotBundle` | `PilotBundleProofs` |
| `SdkConformance` | generation, replay and gate of `v0.1.5_sdk_conformance_confirmation` | `MCSdkConformance` | `SdkConformanceProofs` |

### RunLedger

`lines` is the list of complete lines of `events.jsonl`; `partial` says that
bytes follow the last newline. `lock` is the holder of the flock. `call[p]`
says where process `p` is: `acquire`, `write`, `finish` inside `append`;
`check`, `open_snapshot`, `write_snapshot`, `open_latest`, `write_latest` inside
`anchor_head`. `write_text` truncates and then writes, so it is two steps, and
`stubs` are the snapshot files between them (or left there by a death). `latest`
is `head_anchor.json`, which two processes may overwrite at once: the last
writer leaves its content, or a mixture if another one wrote in between.

`Crash` may strike wherever a call has not returned. The kernel drops the
dead process's lock; the files stay. Abstractions:

- a hash is the value it is computed from (`head_hash` is the entry itself).
  The chain of previous hashes then says no more than the sequence numbers in a
  file that only grows, and is left out. Tampering with the file from outside
  is not modelled.
- a line whose process died is never complete. The one prefix that would still
  parse, the whole line without its newline, is not distinguished from the rest.
- a power failure between `write` and `fsync` is not modelled.
- the freeze bindings digest is constant in a run directory, so it is not in
  the anchors.

### PromotionHistory, PromotionStateMachine, PromotionCommands

`state()` is a fold over the ledger. It is written here without the loop: the
champion is the candidate of the last promoted entry, the attempts are the
number of the last promotion entry, and `Replayable` says that the loop raises
nowhere. `AcceptsPromotion` and `AcceptsFinal` are the early returns of
`record_promotion` and `record_final`. A decision's verdict (`promoted`) is an
input, restricted by what the gate can produce: no group is promoted over
itself, and the final comparator is the base group.

`PromotionCommands` runs the commands as the code does. `BeginDecision` replays
and checks, *without* a lock, and enters `append`; then come the ledger's own
steps, `AnchorDecision`, the second replay (`ReplayAgain`), and
`write_decision_once` as `CheckOutput`, `OpenOutput`, `WriteOutput`. A re-run of
`bind-freeze` rewrites its manifests (`CheckManifest`, `OpenManifest`,
`WriteManifest`) and anchors the head. The three receipts it writes first are one
manifest: no command here reads them apart. `Serialized = TRUE` adds an operator
who starts a command only when none runs; nothing in the code enforces it, so
the two settings ask two questions: what the code guarantees by itself, and what
it guarantees to a careful operator.

### PromotionGate

A member of `Sheets` is what a file of evaluation cells says: of which phase and
group, with which attempt numbers, which cells are there, which are unclean or
forged, and what they score. Every attempt reads new files (`cli.py:290-291`), in
which champion and candidate are scored anew (`promotion.py:248`), so the scores of
a group may differ from one attempt to the next. `PromotionFailures` and
`FinalFailures` are the failure lists of `decide_promotion` and `decide_final`; a
decision is recorded whether it promotes or not. `MaxRegressed` is the config's
fraction of regressed tasks, which the final gates do not read: they pass 0. Two
auxiliary variables remember what decisions rested on: `evidence`, the two sheets
behind each promotion, and `ood_failures`. Abstractions:

- a cell is one score, the mean over its rollout seeds; means are compared by
  cross-multiplication, in integers.
- `_paper_bootstrap` returns some value between the least and the greatest task
  delta. Every property therefore holds for whatever the bootstrap draws.
- checks of digests, checkpoints, costs and component means do not change within a
  run directory and are left out; the group stands for the id and the digest of
  its checkpoint.

### PaperSelection

`pool` is what is left of the registry after the eligibility checks: any subset of
the papers, since every rule that drops a paper looks at that paper alone.
`AssignSplit` is one round of the loop over the splits, `NotEnough` and
`ReserveShort` are the two errors, `SealSelection` keeps the rest as the reserve.
The seeded shuffle inside a stratum is an arbitrary choice of papers that meet the
quota. `replace_from_reserve` is one action, as it is one function from a selection
to a selection; `Replace` is any number of them on what the last one returned.
`assignments`, `reserved`, `excluded` and `history` are the fields of
`PaperSelection`. Cutoffs, seed and digest are functions of these and left out.

### ContaminationAudit

Three variables beside those of `PaperSelection`: which papers some model
reproduces (`remembered`), which have a complete grid of observations
(`probed`), and the last report. `Failed` is `evaluate_contamination` of every
selected paper on the rows of the file, incomplete grids failing;
`Routed` sends all failures of a stratum to its whole reserve, as
`aggregate_contamination` does, so two failures can be sent to one paper.
`AuditReplace` is any replacement, whether the report asks for it or not;
`ReplaceFailed`, one the report asks for, is what the fairness is about.
The probes are external.

### FreezePipeline

`files[f]` is a file of the run directory: absent, truncated, or whole with a
content. A digest is the content it is taken of, so "the bindings agree with
the file" is an equation. `command` is the command that runs, with the files it
has still to write (`todo`) and what it does after them (`after`).
`InitFormal`, `SealCapsules`, `BindFreeze` and `Decide` read their inputs and
fail early as the code does; `CheckFile`, `OpenFile`, `WriteFile` are
`_write_once`, which accepts a file that already says the same and then writes
it *again*, so that a death between the two last steps truncates a file that was
whole. `RecordInit` and `FinishBind` are what follows. `Provide` stands for the
people who put the power receipt and the rubric there; no code does. `Ready` is
`check_freeze`, as the conjunction of its groups of failures, and `Train` asks
for it. Abstractions:

- one command runs at a time. Two that overlap could pass `CheckFile`
  together; the plan has that as a module of its own.
- what a command reads it reads in one step, and one append or anchor is one
  step: `RunLedger` has their inside.
- the many checks of the config are one set, `ReadyConfigs`; the reviewed
  capsules are one value that fits the selection it was made for.
- the evaluator named in a rubric is the rubric's content.

### TrainingData

Four kinds of process over shared files. `loop` is the task `run_training_smoke`
is at; it writes through `append_jsonl`, which is two steps under the file's
lock, so that a death leaves a `Torn` line and the next append glues its own to
it (`Garbled`). `Record` is a trajectory with its verdict, a set of results over
the seeds; `HardFailures` and `Accepted` are `verify`. `exports[e]` is a process
of `export_training_datasets`: it reads and checks one library, then the other,
then writes four files, each checked, emptied and filled. `training` is
`train_qlora.py`, which reads the manifest and then the buckets, builds the
schedule and hashes the manifest again at the end. Lines from outside
(`Imports`) stand for other tools: teacher records, corrections, rows of another
split, rows changed after their verdict, verdicts that are not true. `EditBucket` is
an editor of an exported bucket: it puts another row in the place of one, keeping
the count and the label. The trainer looks at both and at no hash of the file
(`train_qlora.py:60-70`), so it takes the row. What a row is worth depends on who
made it, and that is in no file: `origin` is an auxiliary field for it, and
`TrainedRowsChecked` claims of each origin what the code does claim. Of a record
from outside the digests are recomputed and the verdict is not (`store.py:79-91`):
it is its author's. Abstractions:

- the digests of a record are one fact, `bound`; the runner's outcome is an input; the
  mixture is the frozen 5:3:2 and the tokens of a row are not counted (`Refuse` is
  any refusal before the first checkpoint).
- an execution that ends with a JSON object and no `x` is `Unmeasured`: `verify` notes
  that and then raises for the vds components that are missing (`Raises`), as
  `toy.py` gives it weights for them. The code `toy.py` itself runs always prints
  an `x`; the case is for other candidates.
- the libraries are only appended to. An editor that rewrites a library in place is not
  modelled, nor one that edits the manifest, which carries its own digest.
- a write is empty and then whole, as of one buffer: a file cut short in the middle is
  a file that was emptied, which is refused in the same way.
- what the lines of a library an export keeps is written with positions (`LinesAt`), for
  the proofs; it is the order of the file.

### PilotHydration, PilotBundle

`files[c][f]` is a file of case `c`, in the order `hydrate_case` writes them; `{}`
is an absent file. `hydration` is the process: which case, which file, and the
metadata it read (`seen`). `live` is what the services serve now, and that may be
something else tomorrow: the bytes of a paper, of a source or of the archive, the
endpoint the archive comes from (codeload after a 415,
`hydrate_and_seal.py:435-447`), what the extractor makes of a text, and the
metadata. `Wanted` is what the process would write, a function of what is served, of
what it read and of what is on the disk; a file that says something else ends the
run. Files that are written together and fail together are one: twelve names stand
for them, one prior source stands for all of a case, and `packet` for the two JSON
files of the review packet, whose instructions are rewritten without a look at them.
`PilotBundle` adds the commands after it: `reviewers[r]` walks through the receipt,
its hash and the stamp of the capsule, which it writes from the copy it read;
`producers` are the generation of one case and `run_trusted_stages`; `NewPaths`,
`RunContainer` and `WriteProducerReceipt` are `run_trusted_process`, whose receipt
records the exit code whatever it is and may be cut short like any file;
`SliceSizes` is the number of cases a slice may have, 3 to 5 in the code
(`vertical_slice.py:96`); `Bound` is what `build_stage_receipts` and
`run_vertical_slice` compare. Signatures verify and digests are the values
themselves. `contested` is the set of cases two reviewers worked on at once, an
auxiliary variable that bounds what `ReviewStands` claims. `write_json` of the
hydration looks at a file and writes it in one step here; a stamp that lands between
the two is not modelled. `Spoiled` is what loses a case; a capsule that is cut short
is in it only while no reviewer still holds a copy to stamp, which would make it
whole again.

### SdkConformance

`pass` holds the locals of a pass over the cases: the first proposal, the current
one, its repairs, and the files it has still to write. A generation asks the
model (`Outputs`, `RepairCode`), a replay compiles the raw outputs that are
there. `Files` is the order in which each writes, and what each leaves when it
has no proposal: a generation rewrites the chain, a replay nothing. `Crash` may
tear the file that is written; of a raw output that leaves some other raw output.

A raw output holds a JSON value, its design in some *form*: as `payload()` would
write it, in another way that is read as the same (`Coerced`: numbers as floats,
texts by `str`), or with something that is refused. `ParseModelProposal` is
`parse_model_proposal`, whose `candidate_id` is the digest of the JSON before it was
read, and `Payload` what is written of the result. A repair parses the payload of
its parent. `Accepts` is `proposal_from_file`: the task, the parse of what is
stored, which must give the stored proposal with its identity, the binding and the
chain, digests being the things digested. The digest of the model is the same in all
passes over one directory and in the gate, as `run_qwen_sdk_confirmation.sh` passes
it. `RunGate` is the whole gate; its `Controls` are the source's proposal with
another task, code or design, and are parsed by the same `Accepts`. Which codes pass
the public check and the gate's seeds are two sets.

## 3. Runs

| run | instance | shows |
|---|---|---|
| `ledger` | 2 processes, 2 entries per behaviour, 1 crash, 2 event types, 1 label | the ledger's guarantees, the refinement of `AppendLog`, termination of calls |
| `promotion_gate` | 3 groups, 3 attempts, 2 tasks, 3 adapter seeds, 5 score tables, any of them for any group at any attempt, half of the tasks may regress | the recorded ledger is sound, a loss means that a group was scored twice differently, the OOD margin never decides |
| `serialized` | 1 command at a time, 1 crash, 2 binds, 2 output paths, 2 groups, 2 attempts | commands implement the atomic state machine; the head is truly anchored when a decision file is written |
| `overlapping` | 2 commands at once, 1 crash, 1 bind, 1 output path, 2 groups, 1 attempt | what still holds when nobody serializes; every command ends, also one that waits for the lock of another that dies |
| `final_once` | as `overlapping` | **violated**: the final evaluation is recorded twice |
| `selection` | 6 papers in 2 strata, 3 pools, 3 splits, 3 sets of remembered papers | selection, audits and replacements keep quotas, partition and history; auditing ends |
| `freeze` | 2 configs (one not ready), 2 registries, 2 evaluators, 2 power receipts, 1 crash, decisions while the ledger has fewer than 2 entries | the bundle stays coherent and bound, training has one freeze, dead ends are final |
| `freeze_recovery` | one of each input, 2 crashes | running the same commands again ends ready or in a named dead end |
| `contamination_gate` | one of each input, a passed and a failed audit, no crash | **violated**: ready with a contamination receipt that failed |
| `training` | 3 tasks, 2 exporters, bounds on passes, foreign lines, exports, edits and deaths in `TrainingData.cfg` | unedited rows that train were checked and are of one moment, in the mixture, under a true receipt |
| `pilot` | 2 cases, 2 reviewers, 2 proposals, 1 mishap, 1 changed answer of a service | resume works unless something changed, a review stands, a passing slice is sound, a spoiled case stays so |
| `sdk` | 2 cases, 2 designs of one hypothesis in 4 forms, 3 codes, 4 raw outputs, 2 passes, 2 repairs | report and gate agree but on outputs in another form; a confirmation does not rest on leftovers |

Why the bounds are enough. Two processes are needed and suffice for the races of the
ledger: an append excludes every other, and an anchor races with one other writer of
the same file. Two entries let an anchor fall behind the head and two anchors of
different entries meet in the pointer. One crash reaches every torn file; two
crashes add only that a dead process's leftovers are met by another that dies, which
the file states already cover. Two attempts give a history in which an attempt is a
retry, exceeds the budget, or follows a change of champion; two groups suffice for
"the champion" and "not the champion"; the gate has three groups and three attempts,
which a title that goes round needs, and tables of which one beats another on most
adapters and not on the whole, a level table, a better one and one that gains on a
task what it loses on the other; a sheet of any group has any of them at any
attempt. Five papers of one stratum and one of the other let a selection fail on a
quota, fail on the minimum, and be replaced in until the reserve is empty, also with
replacements of replacements; the pools are the whole, one short of the reserve and
one short of a split, and the remembered papers are one without a reserve, as many
as the reserve and more than it. An arbitrary deal makes the names of the remembered
papers irrelevant. In the pipeline two values of an input are "the same" and
"another"; capsules, audits and base receipts follow the same code as evaluators and
registries and have one value each. In the training run two exports meet in every
file, a library grows between them, and a task is failed on one seed only; the loop
runs once, over a dev, a promotion and a train task, and other tools add up to three
lines, one that an export refuses only as the first, since it makes the export that
meets it refuse whatever follows; a claim that is false but binds its parts may come
at any time. One row is edited, while no export runs. In the pilot one case was
completed by an earlier run and the other is taken through all commands with one
mishap, its hydration with one answer that changes, or was hydrated by the earlier
run too; what a mishap spoils stays so, so a second one meets no new state of the
same case. Stages and hydration are not interleaved in the instance: they meet in
the capsule alone, which hydration does not write again once the case is complete. A
slice has the two cases (`SliceSizes = {2}`, in the code 3 to 5): what a report says
of a case does not depend on how many there are. In the SDK run two passes let the
second meet every leftover of the first, and two cases let a pass die between them;
one raw output is in payload form, one is not, one is not and needs a repair, and
one is read by a replay only. The `overlapping` instance has one attempt, so that it
can have a death as well: one attempt is raced for, retried and used up, and is
followed by a final evaluation; `final_once` has two and stops at its
counterexample. Crash and bind counters live in the MC modules, so the
specifications themselves, and the theorems about them, are not bounded.

`CHECK_DEADLOCK FALSE` is given where the system stops: the attempts are used
up, the final evaluation is recorded, the reserve is empty, a report is written,
or the bounded operator has nothing left to start.

Fairness is weak fairness of a process's own next step: the operating system
keeps running a live process. Starting a command and dying are never fair. Weak
fairness is enough for the flock because only finitely many appends are made:
the lock stays free from some point on. `TornForever`, `ChainIntact` and the
other safety properties do not use fairness.

`freeze_recovery` assumes more, and says so in `DiligentSpec`: its operator runs
every command again, strongly fairly (each command can be started again and
again, whenever no other runs), until the check passes, and the people who
provide the power receipt and the rubric do so at some time. That is an
assumption about people and not about the code; the question of the run is
whether even such an operator can be stuck, and where. `AuditFairness` is of the
same kind: an operator who probes, audits and replaces what failed as long as a
report does not pass; `AuditEnds` says where that leads.

Every property of a passing run has a mutant in `PROJECT.json`: a definition
with `_bug` in its name, written as a slip that code could have had, which the
run refutes.

### What the violations say

`record_final` (`state.py:98-113`) checks the replayed state and then appends.
The flock covers the append only, so two `final-decision` commands that both
check first both append. The "one-time final evaluation" has happened twice, and
from then on `state()` raises for every command: the run directory is stuck.
`RepeatsBounded` and `JudgedAgainstSomeChampion` (run `overlapping`) bound the
damage. Holding the flock from the replay to the append would make
`AtomicDecisions`, which holds for serialized commands, hold for all.

`check_freeze` reads `passed` of each capsule audit but of the contamination
receipt only the digest (`freeze.py:230`, `235-243`). An audit that failed is
written, bound and trained on like one that passed.

### What the code does that its documents do not say

Behaviours met while modelling, each of which the modules contain:

- `anchor_head` (`ledger.py:107-110`) anchors the entry that is last when it
  looks. Another command may have appended in between, so a ledger that is valid
  and replays may end without the snapshot its comment (`ledger.py:124-125`)
  promises for every binding event. `LabelsTruthful` and `AnchoredWhenWritten`
  hold for commands that do not overlap.
- `replace_from_reserve` (`paper_selection.py:258-262`) takes a paper out of the
  reserve without the minimum that `select_frozen_papers` enforced
  (`paper_selection.py:215-220`). A pool that just meets the minima therefore
  allows no replacement that `freeze-check` will accept.
- the OOD non-inferiority margin (`FREEZE_V0_1.md:54-55`) decides nothing:
  `decide_final` passes `maximum_regressed_task_fraction=0.0`
  (`promotion.py:594`), so one regressed task fails the OOD split, and without one
  no bound is below the margin. That is `MarginNeverDecides`.
- a chain of promotions may come back to where it began. `promotion.py:248` and
  `PAPER_TIME_CAPSULE_PROTOCOL.md:144` have champion and candidate scored in one
  evaluation, and no two evaluations are tied to each other: a group that lost its
  title may win it back by a better measurement of the same checkpoint, and the
  gains of the promotions need not add up. `LossMeansRescored` says that this is the
  only way.
- a first proposal that is not written as `payload()` would write it (whole numbers
  for budgets, say) is reported as `parser_valid` and refused by the gate as a
  `proposal payload mismatch`: `candidate_id` is the digest of the JSON before it
  was read (`proposal_io.py:96-104`), and the gate parses the file, in which it
  stands as it was read, and compares (`run_sdk_gate.py:81-88`). A repair parses
  the payload and so mends it. `ReportAgrees` has this as its one exception for
  reported proposals.
- the negative controls of the SDK gate never get to be audited or run. They are
  copies of a proposal in which one thing is changed and `candidate_id` is not: they
  are refused for the task (`run_sdk_gate.py:75-76`), for their seeds or the payload
  (`81-88`), and if that were not so for the binding, which is not beside them
  (`89-92`). They pass whenever there is a proposal to derive them from
  (`ControlRefused`).
- a bucket edited after its export is trained on if it has as many rows under the
  same label (`train_qlora.py:60-70`): the manifest holds no hash of the files. And of a
  record that another tool put in a library, nobody recomputes the verdict
  (`store.py:79-91`). `TrainedRowsChecked` claims neither.
- a healthy execution without a result gets no rejecting record where vds weights are
  set: `verifier.py:232-234` raises, and the loop of `toy.py` ends there.

### What the dead ends are

`DeadEnd` in `FreezePipeline` is the list of ways in which a run directory is
lost: a write-once file cut short by a death (the next run finds a file that
says something else), a config frozen before it was ready, and bindings frozen
before the power receipt, or before the rubric of the evaluator they name, was
there. `DeadEndsStay` says that no command leads out of them; `ReadyOrDeadEnd`
says that there are no others for an operator who does not give up.

## 4. Proofs

All theorems hold for every set of processes, events, labels, groups, paths and
inputs and every attempt budget, for every finite set of papers, every division into
strata, every order of splits and all quotas and minima, for every set of tables of
scores, for whatever services may serve, and for every form of outputs. The only
assumptions are those named `...Assumption` in the modules, which give the constants
their types; beyond types they say `NoProc \notin Procs`, that no split is dealt and
no case listed twice, that the papers and the cells are finitely many, that the
minimum gain is at least 1, that the codes which pass a check are codes, that the
payload of a design is read as that design (`SdkAssumption`), and that records from
outside and edited rows are records that are marked as such (`ImportAssumption`,
`EditAssumption`); what they say is free. Three theorems have a hypothesis of their
own: that there are OOD tasks and the margin is negative (`MarginAlwaysIdle`;
`FREEZE_V0_1.md:54-55`), that the processes are finitely many
(`RepeatsAlwaysBounded`), and `Serialized` for what is claimed of a careful
operator.

`RunLedgerProofs`. `TypeOK` is inductive by itself. The rest needs `IInv`:
`ChainIntact` is preserved by `FinishWrite` only because the entry in hand is
numbered one past the last line (`SealedNext`), which stays true while others
move only because the process in `write` or `finish` holds the lock
(`SoleWriter`). `AnchorsTruthful` needs that lines are only added, which follows
from the same. `PointerBacked` needs to know that a process on its way to the
pointer has its snapshot on disk, perhaps truncated by another process writing
the same file (`SnapshotsFirst`); that another process cannot remove it for good
is `SameName`: two truthful anchors of one name are equal. `TornForever` follows
from `SoleWriter`, by which no process is in `finish` when the lock is free,
and from `Acquire`, which raises on a torn file.
`AtomicAppend` maps `FinishWrite` to `Commit`, a refused or killed append to
`Withdraw`, the call to `Request`, and every other step to a stutter; the
mapping of the log is `Recorded`, whose lemma about `Append` is in
`FinishSimulates`.

`ContaminationAuditProofs`, the selection. `QuotasKept` and `Partitioned` need
`Unfinished` (a split not yet dealt is empty; only a sealed selection has a reserve,
exclusions or a history) for the steps of the selection, and each other for a
replacement: the replacement is in no split because it was in the reserve, so
exchanging it for the failed paper leaves the number of papers of every stratum
(`SwappedCounts`, from the cardinality theorems) and touches no other split.
`HistoryExplains` is then inductive: the failed paper was in a split, hence not yet
excluded, hence in no earlier entry. `ExclusionIsFinal` is the action property, from
the same invariant.

The audits. Every step of an audited selection is a step of
`PaperSelection` or a stutter (`AuditImplementsSelection`), so the invariants of
the selection carry over. `ReportsCanBeRelied` adds that a report is of the
selection as it stands or names a paper excluded since. A
replacement takes a paper of the report out, and exclusions only accumulate, so
a report that is stale once is stale for ever.

`PromotionGateProofs`, the state machine. `LogSound` is inductive together with
`TypeOK`. The lemmas `AppendedPromotion`, `AppendedFinal` and `AppendedBefore` say
how one more entry changes what a ledger replays to; they rest on `LastPosition`,
that a nonempty set of positions has a greatest one, proved from the
well-foundedness of the naturals. Each of the two operations then keeps each
conjunct.

The gates. A decision of `decide_promotion` or `decide_final` is in the set of
decisions the state machine accepts as input (`PromotionJudged`, `FinalJudged`: the
gate fails a group that is compared with itself), so the gates in front of the
state machine implement it and its `LogSound` carries over. `LossMeansRescored` adds
up cells. A sum over a finite set is a fold (`Sum`); that it exists, that it is an
integer (`SumExists`, `SumInt`) and that the sum of differences is the difference of
the sums (`SumDifference`) are proved by a least counterexample among the subsets
(`LeastSubset`), since the induction theorems cannot be instantiated. It is
inductive with `TypeOK` (`GInv`): one table for each group that explains the evidence
after a promotion explains the evidence before it, so the old champion had
accumulated by that table, and the new sheets, which the table explains as well, add
the minimum to it (`PromotionGains`). Where no table explains the evidence, a group was
scored twice differently, and nothing is claimed. `MarginAlwaysIdle` is
`MarginNeverDecides` for every negative margin: without a regressed task every
delta is a natural number, so is the least of them (`LeastNat`), and no bound is
below it.

`PromotionCommandsProofs`. Three invariants. `IInv` follows one command through
its stages: in `append` its entry is in the hands of the ledger or recorded, past
it the entry is recorded (`ProcOK`). Since lines are only added, an entry that is
recorded stays (`GrownLog`), so the decision a command writes is in the ledger
(`Backed`). A promotion entry remembers a position `k` of the ledger at which it
was acceptable (`AcceptedAt`); nothing that is appended later changes what the
first `k - 1` entries replay to (`BeforeKept`), whoever appends it. `RInv` counts:
the entries recorded for a turn and the processes that have one in hand are
together never more than the processes (`TurnsBounded`), because a decision is
acceptable only while nobody has recorded its turn (`TurnIsFree`). Neither assumes
anything about `Serialized`. `SInv` is for the operator who starts one command at
a time: every other process is idle (`Alone`), so the log a command checked is
the log it appends to, and its anchor is that of the last line
(`CommandInOrder`). From it follow `AnchoredWhenWritten`, `LabelsTruthful` and the
refinement `AtomicDecisions`: `FinishWrite` of a decision is the operation of
`PromotionStateMachine`, everything else a stutter. `SerializedHistorySound` carries
`LogSound` over to the ledger's lines, and `CommandsUseLedger` says that the
commands are a behaviour of `RunLedger`, whose theorems hold of it.

`FreezePipelineProofs`. The notion the proof needs is `Settled(f, x)`: file `f`
says `x`, or it was cut short. A step that writes `f` with something else does not
exist, because `CheckFile` refuses it, so what is settled stays so
(`SettledStays`). `Needs(f, x)` lists the files that content `x` of `f` speaks of.
A command writes a file only after those it needs are settled or were written
by itself before (`Secured`, `TodoGrounded`), and so every complete file is
grounded in settled ones (`FilesGrounded`); a settled file that is complete says
`x`. The same holds of the first ledger entry (`EntryGrounded`) and of the
bindings anybody trained under (`TrainedSettled`). `BundleCoherent`,
`BindingsHold` and `RecordsAgree` follow. `DeadEndsStay` uses it too: what spoils a
directory is a file that is settled wrongly or cut short, and neither changes.

`TrainingDataProofs`. `Books` is the shape of the libraries: an append that holds
the lock has the torn line at the end, and no two hold the same one. From it every
step leaves what was read whole from a library as the library's beginning (`Grown`),
so what an export has read, and what is in its files, stays what an export makes of
two beginnings (`EInv`, `Snapshot`, `Comes`). Two beginnings with equally many rows
of a bucket have the same rows of it (`SameRows`: one of the two sets of positions
contains the other); therefore a bucket that fits the manifest's count is the
manifest's own, whichever export wrote it, which is `OneSnapshot` (`TInv`); an edit
leaves the positions of all other rows, so the comparison is up to edited rows
(`EditKeeps`). `TrainedRowsChecked` follows since an export takes records that bind
their parts and claim acceptance (`ExportChecked`), and a claim of the loop leaves
no outcome but `solved` (`LoopRecords`, `AcceptedSolved`). `ScheduleFair` is
arithmetic: there are cycles enough (`CyclesEnough`), and going round `n` positions
meets none twice more often than another (`RoundAndRound`, by shifting one class of
numbers into the other). `ReceiptTrue` needs `RInv`: while exports do not overlap,
nobody else touches the file an export is about to write, so the manifest that is
trained on can only be written again.

`PilotBundleProofs`. `Inv` has a part for each kind of process. `HInv` says of a
case that its files are there in the order in which they are written (`InOrder`),
and, as long as none but the capsule was cut short (`NoneTorn`), that each was made
of those that are there before it: a text of its paper, the sealed target of the
paper, the archive, the metadata and the salt, the capsule of that target and the
sources (`DerivedFine`), whichever runs wrote them. A resumed run therefore wants
what it finds, but for what is served, extracted or said otherwise now, and for the
stamp of a review: the exceptions `ResumeWorks` names. `RInv` follows the reviewers,
of whom two at one case make it contested (`Alone`); a stamped capsule of any other
case is written by nobody again (`CapsuleKept`), which is `ReviewStands`. `PInv` and
`BInv` are the producers and the builder: no two producers write the same stage
(`Owns`), an artifact and a receipt are written once, on paths that were free
(`PathsKept`), and an execution ran what the generation wrote (`StageFine`).
`SliceSound` reads these off at the step that writes the report; `SpoiledForGood` is
an action property, one kind of spoiled file after the other.

`SdkConformanceProofs`. `SdkInv` relates the locals of a pass to the files it has
written and those it has still to write: a file that is not pending says what
the pass holds (`Written`), a row of the report agrees with its case's files
(`RowsAgree`), the first proposal is what the raw output parses to, and what follows
descends from it by repairs (`Descent`). `ReadAgain` is the heart of the agreement: the
payload of a proposal parses to that proposal, identity and all, if and only if the JSON
it was read from was in payload form, which it always is for a repair. The last
case turns `RowsAgree` into `ReportAgrees`, which is claimed until the next pass starts,
and a pass that exits with 0 has only valid rows (`ExitTrue`). The gate's
step reads `ConfirmationSound` off these two.

Only model-checked are the liveness properties: `CallsEnd`, `CommandsEnd`,
`ReadyOrDeadEnd` and `AuditEnds`. Liveness under fairness, ENABLED and induction
over data are outside what TLAPS with the installed provers can do. Every
invariant, action property and refinement that a passing run checks is a theorem.

## 5. Not modelled, and what is left

- Write-once files under commands that overlap, for two `init-formal-run` and two
  `bind-freeze` (hazard `formal.py:124`): `FreezePipeline`
  runs one command at a time.
- `candidate_pool.py` and `teacher_policy.py`: predicates over one value, without
  state.
- `v0.1.3_causal_proposal_gate` and `v0.1.4_executable_proposal_bridge`: earlier
  one-shot forms of the scripts of `v0.1.5`.
- `qlora_pipeline_smoke_v0_1`: a smoke test of the training environment that runs
  its scripts once and in order.
- Of `verifier.py` the single metrics and the baselines, of `freeze.py` the
  report file and the single checks of the config.
- For good: the bootstrap's arithmetic and power simulation (numerical), text
  scanning for leaks, HMAC and hashing, argument parsing, GPU training, numerical
  evaluators, linting of candidate code.

Theorems to come: none of a property that is stated. What would add to them is a
module for write-once files under overlapping commands, with the invariant that
`Settled` becomes there.
