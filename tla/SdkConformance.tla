--------------------------- MODULE SdkConformance ---------------------------
(***************************************************************************)
(* v0.1.5_sdk_conformance_confirmation/scripts: generate_sdk_proposals.py  *)
(* asks a model for the proposal of each case and for at most MaxRepairs   *)
(* replacements of its code; replay_frozen_outputs.py compiles the raw     *)
(* outputs again without a model; run_sdk_gate.py accepts what the files   *)
(* of a case prove and judges the whole.                                   *)
(*                                                                         *)
(* A file is None when absent and Torn when its writer died writing it.  A *)
(* digest is the thing digested.  initial_proposal.json and candidate.py   *)
(* are written and never read: they are left out.                          *)
(***************************************************************************)
EXTENDS Naturals, Sequences, FiniteSetsExt

CONSTANTS
    Designs,         \* what a proposal says beside its code: frozen_view
    Forms,           \* the JSON a design is read from: each design, as payload()
                     \* writes it, other ways to write one, and what is refused
    Coerced,         \* Coerced[f]: the design that form f is read as, or None
    Hypothesis,      \* Hypothesis[d]: the part of d that the binding covers
    Codes,
    PublicOk,        \* the codes that pass public_runtime_check
    GateOk,          \* the codes that run, and repeat, on all four seeds
    Raws,            \* the first outputs of the model
    Parsed,          \* Parsed[kind][r]: the JSON [design, code] in r, or None
    CaseOrder, MaxRepairs, MinimumValid,
    MaxPasses        \* bound: generations and replays

None == [state |-> "absent"]
Torn == [state |-> "torn"]

Cases == {CaseOrder[i] : i \in DOMAIN CaseOrder}

Kinds == {"generate", "replay"}

ASSUME SdkAssumption ==
    /\ PublicOk \subseteq Codes
    /\ GateOk \subseteq Codes
    /\ Designs \subseteq Forms
    /\ \A f \in Forms : Coerced[f] \in Designs \cup {None}
    /\ \A d \in Designs : Coerced[d] = d
    /\ None \notin Designs
    /\ \A k \in Kinds, r \in Raws :
           Parsed[k][r] \in [design : Forms, code : Codes] \cup {None}
    /\ CaseOrder \in Seq(Cases)
    /\ \A i, j \in DOMAIN CaseOrder : CaseOrder[i] = CaseOrder[j] => i = j
    /\ MaxRepairs \in Nat

VARIABLES
    disk,    \* the files of each case under the proposals root
    report,  \* generation_report.json
    pass,    \* the locals of the pass that runs, or of the last one
    status,  \* "none", "running", its exit status, or "crashed"
    passes,
    gate     \* sdk_conformance_report.json

vars == <<disk, report, pass, status, passes, gate>>

NoFiles == [raw |-> None, proposal |-> None, chain |-> None, binding |-> None]

Init ==
    /\ disk = [c \in Cases |-> NoFiles]
    /\ report = None
    /\ pass = None
    /\ status = "none"
    /\ passes = 0
    /\ gate = None

-----------------------------------------------------------------------------
(* A pass over the cases *)

\* Between two cases nothing of a case is kept but its row of the report.
Between(kind, turn, rows) ==
    [kind |-> kind, turn |-> turn, rows |-> rows, open |-> FALSE,
     initial |-> None, current |-> None, error |-> FALSE, repairs |-> <<>>,
     writes |-> <<>>]

Start(kind) ==
    /\ status # "running"
    /\ passes < MaxPasses
    /\ passes' = passes + 1
    /\ status' = "running"
    /\ pass' = Between(kind, 1, <<>>)
    /\ UNCHANGED <<disk, report, gate>>

Case == CaseOrder[pass.turn]

Left == pass.turn <= Len(CaseOrder)

\* The model's first output; a replay reads the one that is there.
Outputs == IF pass.kind = "generate" THEN Raws ELSE {disk[Case].raw} \ {None}

\* A generation leaves the chain of a case it has no proposal for; a replay
\* leaves its files as they are.
Files(kind, proposal) ==
    IF kind = "generate"
    THEN IF proposal = None THEN <<"chain">> ELSE <<"proposal", "chain", "binding">>
    ELSE IF proposal = None THEN <<>> ELSE <<"proposal", "binding", "chain">>

\* The proposal that JSON value stands for, or None.  Its fields are read leniently
\* (numbers as floats, texts by str); candidate_id is the digest of the JSON as it was.
ParseModelProposal(task, value, parents) ==
    IF value = None \/ Coerced[value.design] = None THEN None
    ELSE [id |-> [raw |-> value, task |-> task], task |-> task, parents |-> parents,
          design |-> Coerced[value.design], code |-> value.code]

\* The JSON that payload() writes of it, without what is not the model's to say.
Payload(proposal) == [design |-> proposal.design, code |-> proposal.code]

BeginCase ==
    /\ status = "running" /\ Left /\ ~pass.open
    /\ \E raw \in Outputs :
           LET proposal == ParseModelProposal(Case, Parsed[pass.kind][raw], <<>>)
           IN  /\ disk' = [disk EXCEPT ![Case].raw = raw]
               /\ pass' = [pass EXCEPT
                      !.open = TRUE, !.initial = proposal, !.current = proposal,
                      !.error = proposal = None \/ proposal.code \notin PublicOk,
                      !.writes = Files(pass.kind, proposal)]
    /\ UNCHANGED <<report, status, passes, gate>>

NeedsRepair ==
    /\ pass.kind = "generate"
    /\ pass.current # None
    /\ pass.error
    /\ Len(pass.repairs) < MaxRepairs

\* One repair call: a reply that is refused (no object, other keys, another parent,
\* a code the proposal cannot hold), or a child that takes the place of its parent
\* whether its code passes the public check or not.  The child is parsed from the
\* payload of its parent.
RepairCode ==
    /\ status = "running" /\ pass.open /\ NeedsRepair
    /\ \/ pass' = [pass EXCEPT
              !.repairs = Append(@, [parent |-> pass.current, child |-> None])]
       \/ \E code \in Codes :
              LET child == ParseModelProposal(Case,
                      [Payload(pass.current) EXCEPT !.code = code], <<pass.current>>)
              IN  pass' = [pass EXCEPT
                      !.current = child, !.error = code \notin PublicOk,
                      !.repairs = Append(@, [parent |-> pass.current, child |-> child])]
    /\ UNCHANGED <<disk, report, status, passes, gate>>

Binding(proposal) ==
    [hypothesis |-> Hypothesis[proposal.design], code |-> proposal.code]

Chain ==
    [initial |-> pass.initial, final |-> pass.current, repairs |-> pass.repairs,
     frozen |-> IF pass.initial = None THEN None ELSE pass.initial.design]

Content(file) ==
    IF file = "proposal" THEN pass.current
    ELSE IF file = "binding" THEN Binding(pass.current) ELSE Chain

Writing == status = "running" /\ pass.open /\ ~NeedsRepair /\ pass.writes # <<>>

WriteFile ==
    /\ Writing
    /\ disk' = [disk EXCEPT ![Case][Head(pass.writes)] = Content(Head(pass.writes))]
    /\ pass' = [pass EXCEPT !.writes = Tail(@)]
    /\ UNCHANGED <<report, status, passes, gate>>

\* ConfirmationSound: the row holds the digest of the first proposal.
Row_bug == [parser_valid |-> pass.initial # None, proposal_digest |-> pass.initial]

Row == [parser_valid |-> pass.initial # None, proposal_digest |-> pass.current]

EndCase ==
    /\ status = "running" /\ pass.open /\ ~NeedsRepair /\ pass.writes = <<>>
    /\ pass' = Between(pass.kind, pass.turn + 1, Append(pass.rows, Row))
    /\ UNCHANGED <<disk, report, status, passes, gate>>

AllParsed(rows) == \A i \in DOMAIN rows : rows[i].parser_valid

EndPass ==
    /\ status = "running" /\ ~Left
    /\ report' = [kind |-> pass.kind, rows |-> pass.rows]
    /\ status' = IF AllParsed(pass.rows) THEN "0" ELSE "2"
    /\ UNCHANGED <<disk, pass, passes, gate>>

\* The process dies, in a model call, between two files, or writing one; a replay
\* raises on a case that has no raw output.  What is there of a raw output is text as
\* any other.
Crash ==
    /\ status = "running"
    /\ status' = "crashed"
    /\ \/ UNCHANGED <<disk, report>>
       \/ /\ Left /\ ~pass.open /\ Outputs # {}
          /\ \E text \in Raws : disk' = [disk EXCEPT ![Case].raw = text]
          /\ UNCHANGED report
       \/ Writing /\ disk' = [disk EXCEPT ![Case][Head(pass.writes)] = Torn]
                  /\ UNCHANGED report
       \/ ~Left /\ report' = Torn /\ UNCHANGED disk
    /\ UNCHANGED <<pass, passes, gate>>

-----------------------------------------------------------------------------
(* run_sdk_gate.py *)

Formed(chain) == {i \in DOMAIN chain.repairs : chain.repairs[i].child # None}

\* What the i-th repair was to start from: the child formed last before it.
Previous(chain, i) ==
    LET before == {j \in Formed(chain) : j < i}
    IN  IF before = {} THEN chain.initial ELSE chain.repairs[Max(before)].child

LinkedTo(proposal, chain) ==
    /\ \A i \in Formed(chain) : chain.repairs[i].parent = Previous(chain, i)
    /\ Previous(chain, Len(chain.repairs) + 1) = proposal
    /\ proposal.parents = IF Formed(chain) = {} THEN <<>>
                          ELSE <<chain.repairs[Max(Formed(chain))].parent>>

\* ReportAgrees: a chain without a final digest is not looked into.
ChainHolds_bug(proposal, chain) ==
    /\ chain \notin {None, Torn}
    /\ \/ chain.final = None
       \/ /\ chain.final = proposal
          /\ Len(chain.repairs) <= MaxRepairs
          /\ chain.frozen = proposal.design
          /\ LinkedTo(proposal, chain)

ChainHolds(proposal, chain) ==
    /\ chain \notin {None, Torn}
    /\ chain.final = proposal
    /\ Len(chain.repairs) <= MaxRepairs
    /\ chain.frozen = proposal.design
    /\ LinkedTo(proposal, chain)

\* proposal_from_file returns: the file is of this case, says what it says when it is
\* parsed again, its identity with it, and its binding and its chain are its own.
Accepts(case, files) ==
    LET stored == files.proposal
    IN  /\ stored \notin {None, Torn}
        /\ stored.task = case
        /\ ParseModelProposal(case, Payload(stored), stored.parents) = stored
        /\ files.binding = Binding(stored)
        /\ ChainHolds(stored, files.chain)

Executable(case, files) == Accepts(case, files) /\ files.proposal.code \in GateOk

\* negative_controls takes the first case that has a proposal.json, accepted or not.
WithProposal == SelectSeq(CaseOrder, LAMBDA c : disk[c].proposal # None)

SourceOfControls == disk[Head(WithProposal)].proposal

\* The source with another case's task, another code, or another design or one that
\* is refused (other seeds); its candidate_id is the source's.
Controls ==
    {[SourceOfControls EXCEPT !.task = c] : c \in Cases \ {Head(WithProposal)}}
        \cup {[SourceOfControls EXCEPT !.code = code] : code \in Codes}
        \cup {[SourceOfControls EXCEPT !.design = f] : f \in Forms}

\* A control stands in a directory of its own with neither binding nor chain; it is
\* refused for its task or its identity, or else for the binding that is not there.
ControlRefused(control) ==
    ~Accepts(Head(WithProposal), [NoFiles EXCEPT !.proposal = control])

ControlsPassed == WithProposal # <<>> /\ \A control \in Controls : ControlRefused(control)

\* The gate raises, and leaves the report it wrote before, on a torn source of its
\* controls or a torn generation report.  bound: verify_sdk_binding returns.
RunGate ==
    /\ status # "running"
    /\ WithProposal # <<>> => SourceOfControls # Torn
    /\ report # Torn
    /\ \E bound \in BOOLEAN :
           gate' = [passed |->
                        /\ bound
                        /\ \A c \in Cases : Accepts(c, disk[c])
                        /\ Cardinality({c \in Cases : Executable(c, disk[c])}) >= MinimumValid
                        /\ ControlsPassed,
                    proposals |-> [i \in DOMAIN CaseOrder |->
                        LET c == CaseOrder[i]
                        IN  IF Accepts(c, disk[c]) THEN disk[c].proposal ELSE None],
                    generation |-> report, status |-> status]
    /\ UNCHANGED <<disk, report, pass, status, passes>>

-----------------------------------------------------------------------------
Next ==
    \/ \E kind \in Kinds : Start(kind)
    \/ BeginCase \/ RepairCode \/ WriteFile \/ EndCase \/ EndPass \/ Crash
    \/ RunGate

Spec == Init /\ [][Next]_vars

-----------------------------------------------------------------------------
(* Properties *)

\* A case whose proposal is the model's first one, and whose output wrote a field of
\* it in another form than payload() does.
ReadLoosely(kind, files) ==
    /\ files.proposal.parents = <<>>
    /\ Parsed[kind][files.raw].design \notin Designs

\* What a completed pass reports of a case is on disk and binds together, whatever
\* earlier passes and crashes left: the gate accepts a case with a proposal, with that
\* proposal, unless it is the model's first one and was read from JSON in another
\* form, which a repair would have mended; it refuses a case without one, save after a
\* replay, which does not touch the files of a case it cannot parse
\* (proposal_io.py:96-104, replay_frozen_outputs.py:48-67,
\* generate_sdk_proposals.py:316-346, run_sdk_gate.py:70-115).
ReportAgrees ==
    status \in {"0", "2"} =>
        \A i \in DOMAIN CaseOrder :
            LET row == report.rows[i]
                files == disk[CaseOrder[i]]
            IN  IF row.parser_valid
                THEN /\ files.proposal = row.proposal_digest
                     /\ Accepts(CaseOrder[i], files) <=> ~ReadLoosely(report.kind, files)
                ELSE Accepts(CaseOrder[i], files) => report.kind = "replay"

\* A gate that passes after a pass that exited with 0 has accepted, case by case,
\* the proposals that pass reported, and enough of them execute: none is left over
\* from an earlier pass (run_sdk_gate.py:250-291, run_qwen_sdk_confirmation.sh:20-69).
ConfirmationSound ==
    gate # None /\ gate.passed /\ gate.status = "0" =>
        LET rows == gate.generation.rows
        IN  /\ \A i \in DOMAIN CaseOrder : gate.proposals[i] = rows[i].proposal_digest
            /\ Cardinality({i \in DOMAIN CaseOrder :
                    rows[i].proposal_digest.code \in GateOk}) >= MinimumValid
=============================================================================
