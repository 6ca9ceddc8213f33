--------------------------- MODULE FreezePipeline ---------------------------
(***************************************************************************)
(* How a run directory is frozen (vse/formal.py) and what training asks of *)
(* it (vse/freeze.py, train_qlora.py):                                     *)
(*                                                                         *)
(*   init-formal    config, paper selection, candidate pool, first ledger  *)
(*                  entry                                                  *)
(*   seal-capsules  task manifest and capsule audits                       *)
(*   bind-freeze    three receipts, freeze bindings, head anchor           *)
(*                                                                         *)
(* plus the power receipt and the rubric, which people put there.  Each    *)
(* command is a process that may be run again with the same or with other  *)
(* inputs, and may die.  Every file is written once: a file that is there  *)
(* must already say what would be written, and is then written again.      *)
(* Commands are taken not to overlap, as if one operator ran them all.     *)
(*                                                                         *)
(* A digest is the content it is computed from.  What a command reads it   *)
(* reads in one step, and one append or anchor of the ledger is one step;  *)
(* RunLedger and PromotionCommands have those in detail.                   *)
(*                                                                         *)
(* A definition whose name ends in _bug is a slip the code could have had; *)
(* the property named beside it rules it out.                              *)
(***************************************************************************)
EXTENDS Naturals, Sequences

CONSTANTS
    \* The inputs that may be given to the commands:
    Configs, ReadyConfigs,  \* ReadyConfigs: status formally_frozen_ready_to_launch
    Registries,             \* files of paper candidates
    Capsules,               \* sets of reviewed capsules for the selected papers
    Evaluators,             \* trusted evaluator receipts
    Audits,                 \* contamination receipts
    PassedAudits,           \* those that say "passed"
    Bases,                  \* base checkpoint receipts
    Powers                  \* power receipts

ASSUME PipelineAssumption ==
    ReadyConfigs \subseteq Configs /\ PassedAudits \subseteq Audits

VARIABLES
    files,      \* files[f]: the file f of the run directory
    ledger,     \* the bindings of each entry
    snapshots,  \* immutable anchors, one per entry and event type
    anchor,     \* head_anchor.json
    command,    \* the command that is running and how far it is
    trained     \* the freeze bindings under which training was started

vars == <<files, ledger, snapshots, anchor, command, trained>>

WrittenOnce ==
    {"config", "paper_selection", "candidate_pool", "capsule_task_manifest",
     "capsule_audits", "trusted_evaluator_receipt", "contamination_receipt",
     "base_checkpoint_receipt", "freeze_bindings"}
Provided == {"power_receipt", "human_review_rubric"}

Absent == [state |-> "absent"]
Truncated == [state |-> "truncated"]
Whole(x) == [state |-> "whole", content |-> x]

IsWhole(f) == files[f].state = "whole"
Content(f) == files[f].content

\* The digest of an optional file: "none" when bind-freeze finds no file.
Digest(f) == IF IsWhole(f) THEN [file |-> Content(f)] ELSE [none |-> TRUE]

Idle == [kind |-> "none"]
At(kind, stage) == command # Idle /\ command.kind = kind /\ command.stage = stage
Enter(stage) == command' = [command EXCEPT !.stage = stage]

NoAnchor == [head |-> 0]

Init ==
    /\ files = [f \in WrittenOnce \cup Provided |-> Absent]
    /\ ledger = <<>>
    /\ snapshots = {}
    /\ anchor = NoAnchor
    /\ command = Idle
    /\ trained = {}

-----------------------------------------------------------------------------
(* The commands up to their first write *)

Write(f, x) == [file |-> f, content |-> x]

\* The command goes on with the files it has still to write, or, when there
\* are none left, with what comes after them.
Proceed(kind, after, todo) ==
    command' = [kind |-> kind, after |-> after, todo |-> todo,
                stage |-> IF todo = <<>> THEN "after" ELSE "check"]

\* The papers are drawn from the registry by the rules of the config.
Selection(config, registry) == [config |-> config, registry |-> registry]

\* RecordsAgree: the entry is recorded before the files are safe.
InitFormal_bug(config, registry) ==
    /\ command = Idle
    /\ LET selection == Selection(config, registry)
       IN  /\ Proceed("init", [config |-> config, paper_selection |-> selection],
                <<Write("config", config),
                  Write("paper_selection", selection),
                  Write("candidate_pool", selection)>>)
           /\ ledger' = IF ledger = <<>>
                        THEN <<[config |-> config, paper_selection |-> selection]>>
                        ELSE ledger
    /\ UNCHANGED <<files, snapshots, anchor, trained>>

InitFormal(config, registry) ==
    /\ command = Idle
    /\ LET selection == Selection(config, registry)
       IN  Proceed("init", [config |-> config, paper_selection |-> selection],
                <<Write("config", config),
                  Write("paper_selection", selection),
                  Write("candidate_pool", selection)>>)
    /\ UNCHANGED <<files, ledger, snapshots, anchor, trained>>

\* The index must list the selected papers; another one is refused.
SealCapsules(capsules) ==
    /\ command = Idle
    /\ IsWhole("paper_selection") /\ IsWhole("config")
    /\ LET entries == [paper_selection |-> Content("paper_selection"),
                       capsules |-> capsules]
       IN  Proceed("seal", {},
                <<Write("capsule_task_manifest", entries),
                  Write("capsule_audits", entries)>>)
    /\ UNCHANGED <<files, ledger, snapshots, anchor, trained>>

Bindings(evaluator, audit, base) ==
    [config_digest |-> Content("config"),
     paper_selection_digest |-> Content("paper_selection"),
     candidate_pool_digest |-> Content("candidate_pool"),
     task_manifest_digest |-> Content("capsule_task_manifest"),
     evaluator_digest |-> evaluator,
     contamination_audit_digest |-> audit,
     base_checkpoint_digest |-> base,
     power_receipt_digest |-> Digest("power_receipt"),
     rubric_digest |-> Digest("human_review_rubric")]

BindFreeze(evaluator, audit, base) ==
    /\ command = Idle
    /\ \A f \in {"config", "paper_selection", "candidate_pool", "capsule_task_manifest"} :
           IsWhole(f)
    /\ LET bindings == Bindings(evaluator, audit, base)
       IN  Proceed("bind", bindings,
                <<Write("trusted_evaluator_receipt", evaluator),
                  Write("contamination_receipt", audit),
                  Write("base_checkpoint_receipt", base),
                  Write("freeze_bindings", bindings)>>)
    /\ UNCHANGED <<files, ledger, snapshots, anchor, trained>>

-----------------------------------------------------------------------------
(* _write_once, and the same lines in initialize_formal_run *)

Writing(stage) == command # Idle /\ command.stage = stage
Pending == Head(command.todo)

\* BundleCoherent: a file that is there is left as it is.
CheckFile_bug1 ==
    /\ Writing("check")
    /\ \/ files[Pending.file] = Absent /\ Enter("open")
       \/ /\ files[Pending.file] # Absent
          /\ Proceed(command.kind, command.after, Tail(command.todo))
    /\ UNCHANGED <<files, ledger, snapshots, anchor, trained>>

\* BindingsHold: a file that is there is replaced.
CheckFile_bug2 ==
    /\ Writing("check")
    /\ Enter("open")
    /\ UNCHANGED <<files, ledger, snapshots, anchor, trained>>

\* DeadEndsStay: a file without content counts as none.
CheckFile_bug3 ==
    LET file == files[Pending.file]
        free == file \in {Absent, Truncated, Whole(Pending.content)}
    IN  /\ Writing("check")
        /\ \/ free /\ Enter("open")
           \/ ~free /\ command' = Idle
        /\ UNCHANGED <<files, ledger, snapshots, anchor, trained>>

\* ReadyOrDeadEnd: any file that is there is refused.
CheckFile_bug4 ==
    LET free == files[Pending.file] = Absent
    IN  /\ Writing("check")
        /\ \/ free /\ Enter("open")
           \/ ~free /\ command' = Idle
        /\ UNCHANGED <<files, ledger, snapshots, anchor, trained>>

\* "refusing to replace frozen artifact" ends the command.
CheckFile ==
    LET free == files[Pending.file] \in {Absent, Whole(Pending.content)}
    IN  /\ Writing("check")
        /\ \/ free /\ Enter("open")
           \/ ~free /\ command' = Idle
        /\ UNCHANGED <<files, ledger, snapshots, anchor, trained>>

\* write_text: open for writing ...
OpenFile ==
    /\ Writing("open")
    /\ files' = [files EXCEPT ![Pending.file] = Truncated]
    /\ Enter("write")
    /\ UNCHANGED <<ledger, snapshots, anchor, trained>>

\* ... and write.
WriteFile ==
    LET f == Pending.file
        mine == Whole(Pending.content)
    IN  /\ Writing("write")
        /\ files' = [files EXCEPT ![f] = mine]
        /\ Proceed(command.kind, command.after, Tail(command.todo))
        /\ UNCHANGED <<ledger, snapshots, anchor, trained>>

-----------------------------------------------------------------------------
(* What follows the files *)

\* `if not ledger.validate()`: the first entry of a ledger, or none.
RecordInit ==
    /\ At("init", "after")
    /\ ledger' = IF ledger = <<>> THEN <<command.after>> ELSE ledger
    /\ command' = Idle
    /\ UNCHANGED <<files, snapshots, anchor, trained>>

FinishSeal ==
    /\ At("seal", "after")
    /\ command' = Idle
    /\ UNCHANGED <<files, ledger, snapshots, anchor, trained>>

\* anchor_head in a ledger that ends as ledger': another snapshot of the same
\* name raises.
AnchorHead(event_type, bindings) ==
    LET here == [head |-> Len(ledger'), event_type |-> event_type, bindings |-> bindings]
        clash == \E a \in snapshots \ {here} :
                    a.head = here.head /\ a.event_type = event_type
    IN  \/ ~clash /\ anchor' = here /\ snapshots' = snapshots \cup {here}
        \/ clash /\ UNCHANGED <<anchor, snapshots>>

\* TypeOK: an empty ledger is anchored too.
FinishBind_bug ==
    /\ At("bind", "after")
    /\ UNCHANGED ledger
    /\ AnchorHead("freeze_bindings", command.after)
    /\ command' = Idle
    /\ UNCHANGED <<files, trained>>

\* An empty ledger is not anchored.
FinishBind ==
    /\ At("bind", "after")
    /\ UNCHANGED ledger
    /\ \/ ledger = <<>> /\ UNCHANGED <<anchor, snapshots>>
       \/ ledger # <<>> /\ AnchorHead("freeze_bindings", command.after)
    /\ command' = Idle
    /\ UNCHANGED <<files, trained>>

FinishDecide ==
    /\ At("decide", "after")
    /\ UNCHANGED ledger
    /\ AnchorHead("decision", command.after)
    /\ command' = Idle
    /\ UNCHANGED <<files, trained>>

CommandStep ==
    \/ CheckFile \/ OpenFile \/ WriteFile
    \/ RecordInit \/ FinishSeal \/ FinishBind \/ FinishDecide

\* A file being written stays truncated.
Crash ==
    /\ command # Idle
    /\ command' = Idle
    /\ UNCHANGED <<files, ledger, snapshots, anchor, trained>>

-----------------------------------------------------------------------------
(* What the pipeline is for *)

\* People put the power receipt and the rubric there, and may change them.
Provide(f, x) ==
    /\ files' = [files EXCEPT ![f] = Whole(x)]
    /\ UNCHANGED <<ledger, snapshots, anchor, command, trained>>

\* check_freeze: every file it requires is there ...
AllThere == \A f \in WrittenOnce \cup Provided : IsWhole(f)

\* ... the config is complete and says that it is ready ...
ConfigReady == Content("config") \in ReadyConfigs

\* ... pool, selection, tasks and audits list the same papers ...
PapersAgree ==
    /\ Content("paper_selection").registry = Content("candidate_pool").registry
    /\ Content("capsule_task_manifest").paper_selection = Content("paper_selection")
    /\ Content("capsule_audits").paper_selection = Content("paper_selection")

\* ... the rubric is for this evaluator, and everything is bound ...
AllBound ==
    /\ Content("human_review_rubric") = Content("trusted_evaluator_receipt")
    /\ Content("freeze_bindings") =
           Bindings(Content("trusted_evaluator_receipt"),
                    Content("contamination_receipt"),
                    Content("base_checkpoint_receipt"))

\* ... and the last entry of the ledger is anchored under the same bindings.
HeadAnchored ==
    /\ ledger # <<>>
    /\ anchor.head = Len(ledger)
    /\ anchor.bindings = Content("freeze_bindings")

\* The report of check_freeze, given the config of the run directory.
Ready == AllThere /\ ConfigReady /\ PapersAgree /\ AllBound /\ HeadAnchored

\* train_qlora.py goes on only when the check passes.
Train ==
    /\ Ready
    /\ trained' = trained \cup {Content("freeze_bindings")}
    /\ UNCHANGED <<files, ledger, snapshots, anchor, command>>

\* A decision command appends under the bindings it reads, and anchors; that
\* a power receipt or a rubric is bound is not asked.
Decide ==
    /\ command = Idle
    /\ IsWhole("config") /\ IsWhole("freeze_bindings")
    /\ Content("freeze_bindings").config_digest = Content("config")
    /\ ledger' = Append(ledger, Content("freeze_bindings"))
    /\ Proceed("decide", Content("freeze_bindings"), <<>>)
    /\ UNCHANGED <<files, snapshots, anchor, trained>>

Start ==
    \/ \E config \in Configs, registry \in Registries : InitFormal(config, registry)
    \/ \E capsules \in Capsules : SealCapsules(capsules)
    \/ \E evaluator \in Evaluators, audit \in Audits, base \in Bases :
           BindFreeze(evaluator, audit, base)

ProvideAny ==
    \/ \E x \in Powers : Provide("power_receipt", x)
    \/ \E x \in Evaluators : Provide("human_review_rubric", x)

Next ==
    \/ Start \/ CommandStep \/ Crash \/ Decide
    \/ ProvideAny
    \/ Train

Spec == Init /\ [][Next]_vars

-----------------------------------------------------------------------------
(* Properties *)

TypeOK ==
    /\ DOMAIN files = WrittenOnce \cup Provided
    /\ \A f \in WrittenOnce \cup Provided :
           \/ files[f] \in {Absent, Truncated}
           \/ IsWhole(f)
    /\ \/ command = Idle
       \/ /\ command.kind \in {"init", "seal", "bind", "decide"}
          /\ command.stage \in {"check", "open", "write", "after"}
          /\ command.stage = "after" <=> command.todo = <<>>
    /\ anchor = NoAnchor \/ anchor.head \in 1 .. Len(ledger)

\* Whatever was run again, with whatever inputs, after whatever crash: the
\* files that are complete are about one selection of one config.
BundleCoherent ==
    /\ IsWhole("paper_selection") /\ IsWhole("config") =>
           Content("paper_selection").config = Content("config")
    /\ IsWhole("candidate_pool") /\ IsWhole("paper_selection") =>
           Content("candidate_pool") = Content("paper_selection")
    /\ IsWhole("capsule_task_manifest") /\ IsWhole("paper_selection") =>
           Content("capsule_task_manifest").paper_selection = Content("paper_selection")
    /\ IsWhole("capsule_audits") /\ IsWhole("capsule_task_manifest") =>
           Content("capsule_audits") = Content("capsule_task_manifest")

\* Binding and bound agree as long as both are complete, and all training ever
\* started in a run directory was under the same bindings.
BindingsHold ==
    /\ \A b, c \in trained : b = c
    /\ IsWhole("freeze_bindings") =>
        LET b == Content("freeze_bindings")
        IN  \A pair \in { <<"config", b.config_digest>>,
                          <<"paper_selection", b.paper_selection_digest>>,
                          <<"candidate_pool", b.candidate_pool_digest>>,
                          <<"capsule_task_manifest", b.task_manifest_digest>>,
                          <<"trusted_evaluator_receipt", b.evaluator_digest>>,
                          <<"contamination_receipt", b.contamination_audit_digest>>,
                          <<"base_checkpoint_receipt", b.base_checkpoint_digest>> } :
                IsWhole(pair[1]) => Content(pair[1]) = pair[2]

\* The ledger's first entry names the config and the selection on disk.
RecordsAgree ==
    ledger # <<>> =>
        \A f \in DOMAIN ledger[1] \cap {"config", "paper_selection"} :
            IsWhole(f) => Content(f) = ledger[1][f]

BeingWritten(f) == Writing("write") /\ Pending.file = f

\* What file f says, or will say when its writing is done.
Said(f) ==
    {x.content : x \in {files[f]} \ {Absent, Truncated}}
        \cup {w.content : w \in IF BeingWritten(f) THEN {Pending} ELSE {}}

Complete(b) ==
    /\ b.power_receipt_digest # [none |-> TRUE]
    /\ b.rubric_digest = [file |-> b.evaluator_digest]

\* A run directory that check_freeze will not accept any more: a file cut
\* short, a config that was not ready when it was frozen, or bindings made
\* before the power receipt or before the rubric of this evaluator.
DeadEnd ==
    \/ \E f \in WrittenOnce : files[f] = Truncated /\ ~BeingWritten(f)
    \/ ~(Said("config") \subseteq ReadyConfigs)
    \/ \E b \in Said("freeze_bindings") : ~Complete(b)

\* Nothing leads out of a dead end, and nobody trains in one.
DeadEndsStay == [][DeadEnd => DeadEnd' /\ ~Ready']_vars

-----------------------------------------------------------------------------
(* A promise of the repository that the code does not keep *)

\* PAPER_TIME_CAPSULE_PROTOCOL.md:39-45: a paper is eligible only when a
\* contamination audit does not elicit the target, so a directory that is
\* ready holds a contamination receipt that passed.
ReadyOnlyUncontaminated == Ready => Content("contamination_receipt") \in PassedAudits
=============================================================================
