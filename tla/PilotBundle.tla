----------------------------- MODULE PilotBundle -----------------------------
(***************************************************************************)
(* The real pilot after hydration: semantic reviews stamp the capsules,    *)
(* the generation, execution and evaluation of each case leave an artifact *)
(* and a signed receipt (vse/trusted_producer.py), stage receipts bind     *)
(* them, and vse/vertical_slice.py judges the whole chain.                 *)
(*                                                                         *)
(* Each command is a process that may die between two steps.  A digest is  *)
(* the value it is computed from; signatures always verify.                *)
(***************************************************************************)
EXTENDS PilotHydration

CONSTANTS
    Reviewers,  \* review_semantic processes, of different reviewers
    Proposals,  \* what the model may propose for a case
    SliceSizes  \* how many cases a slice may have: 3 to 5

VARIABLES
    reviewers,    \* the state of each review_semantic process
    review,       \* review[c]: semantic_review_receipt.json
    contested,    \* the cases two reviewers worked on at the same time
    attestation,  \* evaluator_review_receipt.json
    artifacts,    \* artifacts[c][s]: what stage s of case c wrote
    receipts,     \* receipts[c][s]: the producer receipt over it
    producers,    \* the generation and the run_trusted_stages process
    built,        \* built[c]: the three stage receipts; and the slice manifest
    report        \* the report of run-vertical-slice

reviewVars == <<reviewers, review, contested>>

stageVars == <<artifacts, receipts, producers>>

vars == <<hydrationVars, reviewVars, attestation, stageVars, built, report>>

Stages == {"generation", "execution", "evaluation"}

NoReview == [pc |-> "idle", case |-> "none", passed |-> FALSE, capsule |-> {}, digest |-> {}]

NoRun == [pc |-> "idle", at |-> 0, stage |-> "none", capsule |-> {}, proposal |-> {}]

Init ==
    /\ HydrationInit
    /\ reviewers = [r \in Reviewers |-> NoReview]
    /\ review = [c \in CaseIds |-> {}]
    /\ contested = {}
    /\ attestation = {}
    /\ artifacts = [c \in CaseIds |-> [s \in Stages |-> {}]]
    /\ receipts = [c \in CaseIds |-> [s \in Stages |-> {}]]
    /\ producers = [p \in {"generation", "stages"} |-> NoRun]
    /\ built = [c \in CaseIds \cup {"manifest"} |-> {}]
    /\ report = {}

Whole(file) == file \notin {{}, {Torn}}

Stamped(c) == Whole(files[c]["capsule"]) /\ Content(c, "capsule").review # {}

-----------------------------------------------------------------------------
(* review_semantic: the receipt is written once, then its hash is stamped  *)
(* into the capsule, which is written in place.                            *)

Reviewing(r, c) == reviewers[r].pc # "idle" /\ reviewers[r].case = c

\* ReviewStands: the capsule may be stamped already.
BeginReview_bug(r) ==
    /\ reviewers[r] = NoReview
    /\ \E c \in CaseIds, passed \in BOOLEAN :
           /\ Whole(files[c]["capsule"]) /\ Whole(files[c]["sealed"])
           /\ reviewers' = [reviewers EXCEPT ![r] =
                  [pc |-> "receipt", case |-> c, passed |-> passed,
                   capsule |-> files[c]["capsule"], digest |-> {}]]
           /\ contested' = IF \E q \in Reviewers : Reviewing(q, c)
                           THEN contested \cup {c} ELSE contested
    /\ UNCHANGED <<hydrationVars, review, attestation, stageVars, built, report>>

\* The three attestations are given; a pass is refused when the deterministic
\* scan has findings, which is a review that fails.
BeginReview(r) ==
    /\ reviewers[r] = NoReview
    /\ \E c \in CaseIds, passed \in BOOLEAN :
           /\ Whole(files[c]["capsule"]) /\ Whole(files[c]["sealed"])
           /\ ~Stamped(c)
           /\ reviewers' = [reviewers EXCEPT ![r] =
                  [pc |-> "receipt", case |-> c, passed |-> passed,
                   capsule |-> files[c]["capsule"], digest |-> {}]]
           /\ contested' = IF \E q \in Reviewers : Reviewing(q, c)
                           THEN contested \cup {c} ELSE contested
    /\ UNCHANGED <<hydrationVars, review, attestation, stageVars, built, report>>

Reviewed(r) == [passed |-> reviewers[r].passed, by |-> r]

\* write_json: a receipt that says something else ends the run.
CheckReview(r) ==
    /\ reviewers[r].pc = "receipt"
    /\ reviewers' = [reviewers EXCEPT ![r] =
           IF review[@.case] \subseteq {Reviewed(r)} THEN [@ EXCEPT !.pc = "write"] ELSE NoReview]
    /\ UNCHANGED <<hydrationVars, review, contested, attestation, stageVars, built, report>>

WriteReview(r) ==
    /\ reviewers[r].pc = "write"
    /\ review' = [review EXCEPT ![reviewers[r].case] = {Reviewed(r)}]
    /\ reviewers' = [reviewers EXCEPT ![r].pc = "hash"]
    /\ UNCHANGED <<hydrationVars, contested, attestation, stageVars, built, report>>

\* file_hash(receipt_path): of the receipt that is there by now.
HashReview(r) ==
    /\ reviewers[r].pc = "hash"
    /\ reviewers' = [reviewers EXCEPT ![r].pc = "stamp",
                                      ![r].digest = review[reviewers[r].case]]
    /\ UNCHANGED <<hydrationVars, review, contested, attestation, stageVars, built, report>>

StampCapsule(r) ==
    /\ reviewers[r].pc = "stamp"
    /\ files' = [files EXCEPT ![reviewers[r].case]["capsule"] =
           {[capsule EXCEPT !.review = reviewers[r].digest] : capsule \in reviewers[r].capsule}]
    /\ reviewers' = [reviewers EXCEPT ![r] = NoReview]
    /\ UNCHANGED <<manifest, live, hydration, review, contested, attestation,
                   stageVars, built, report>>

ReviewCrash(r) ==
    /\ reviewers[r] # NoReview
    /\ reviewers' = [reviewers EXCEPT ![r] = NoReview]
    /\ LET c == reviewers[r].case IN
       \/ UNCHANGED <<files, review>>
       \/ /\ reviewers[r].pc = "write"
          /\ review' = [review EXCEPT ![c] = {Torn}]
          /\ UNCHANGED files
       \/ /\ reviewers[r].pc = "stamp"
          /\ files' = [files EXCEPT ![c]["capsule"] = {Torn}]
          /\ UNCHANGED review
    /\ UNCHANGED <<manifest, live, hydration, contested, attestation, stageVars, built, report>>

\* attest_evaluator: the custodian's verdict on the evaluator, written once.
Attest ==
    /\ attestation = {}
    /\ \E passed \in BOOLEAN : attestation' = {passed}
    /\ UNCHANGED <<hydrationVars, reviewVars, stageVars, built, report>>

-----------------------------------------------------------------------------
(* run_trusted_process: the two paths must be new, the container runs, and *)
(* the receipt is written whatever its exit code, if there is an artifact. *)

\* SpoiledForGood: only the receipt must be new.
NewPaths_bug(c, s) == receipts[c][s] = {}

NewPaths(c, s) == artifacts[c][s] = {} /\ receipts[c][s] = {}

\* What a stage that ends well makes of the files it finds.
Made(c, s) ==
    IF s = "generation" THEN Proposals
    ELSE IF s = "execution" THEN [ran : artifacts[c]["generation"]]
    ELSE [of : artifacts[c]["execution"]]

\* produce-trusted-receipt for the generation of a case: the proposal digest is
\* given beforehand, from a first pass of the same model.
BeginGeneration ==
    /\ producers["generation"] = NoRun
    /\ \E i \in DOMAIN Cases, expected \in Proposals :
           /\ Whole(files[Cases[i]]["capsule"])
           /\ NewPaths(Cases[i], "generation")
           /\ producers' = [producers EXCEPT !["generation"] =
                  [pc |-> "run", at |-> i, stage |-> "generation",
                   capsule |-> files[Cases[i]]["capsule"], proposal |-> {expected}]]
    /\ UNCHANGED <<hydrationVars, reviewVars, attestation, artifacts, receipts, built, report>>

\* run_trusted_stages: from the first case, whatever an earlier run did.
BeginStages ==
    /\ producers["stages"] = NoRun
    /\ producers' = [producers EXCEPT !["stages"] = [NoRun EXCEPT !.pc = "case", !.at = 1]]
    /\ UNCHANGED <<hydrationVars, reviewVars, attestation, artifacts, receipts, built, report>>

\* The paths of the evaluation are checked when its turn comes.
EnterCase ==
    /\ producers["stages"].pc = "case"
    /\ LET i == producers["stages"].at
           c == Cases[i]
           fits == /\ Whole(files[c]["capsule"])
                   /\ \E g \in receipts[c]["generation"] :
                          g # Torn /\ {g.proposal} = artifacts[c]["generation"]
                   /\ NewPaths(c, "execution")
       IN  producers' = [producers EXCEPT !["stages"] =
               IF fits
               THEN [pc |-> "run", at |-> i, stage |-> "execution",
                     capsule |-> files[c]["capsule"], proposal |-> artifacts[c]["generation"]]
               ELSE NoRun]
    /\ UNCHANGED <<hydrationVars, reviewVars, attestation, artifacts, receipts, built, report>>

\* The command ends, with its artifact.
RunContainer(p) ==
    /\ producers[p].pc = "run"
    /\ LET c == Cases[producers[p].at]
           s == producers[p].stage
       IN  \E made \in Made(c, s) : artifacts' = [artifacts EXCEPT ![c][s] = {made}]
    /\ producers' = [producers EXCEPT ![p].pc = "receipt"]
    /\ UNCHANGED <<hydrationVars, reviewVars, attestation, receipts, built, report>>

\* The command ends without an artifact, which is an error without a receipt.
ContainerFails(p) ==
    /\ producers[p].pc = "run"
    /\ producers' = [producers EXCEPT ![p] = NoRun]
    /\ UNCHANGED <<hydrationVars, reviewVars, attestation, artifacts, receipts, built, report>>

\* What follows a receipt: the evaluation of the case, or the next case.
AfterReceipt(p) ==
    LET i == producers[p].at IN
    IF p = "generation" THEN NoRun
    ELSE IF producers[p].stage = "execution"
    THEN IF NewPaths(Cases[i], "evaluation")
         THEN [producers[p] EXCEPT !.pc = "run", !.stage = "evaluation", !.proposal = {}]
         ELSE NoRun
    ELSE IF i = Len(Cases) THEN NoRun
    ELSE [NoRun EXCEPT !.pc = "case", !.at = i + 1]

WriteProducerReceipt(p, exit_code) ==
    /\ producers[p].pc = "receipt"
    /\ LET c == Cases[producers[p].at]
           s == producers[p].stage
       IN  receipts' = [receipts EXCEPT ![c][s] =
               {[capsule |-> capsule, artifact |-> artifact, exit_code |-> exit_code,
                 proposal |-> IF s = "evaluation" THEN 0
                              ELSE CHOOSE d \in producers[p].proposal : TRUE] :
                   capsule \in producers[p].capsule, artifact \in artifacts[c][s]}]
    /\ producers' = [producers EXCEPT ![p] = AfterReceipt(p)]
    /\ UNCHANGED <<hydrationVars, reviewVars, attestation, artifacts, built, report>>

\* The receipt is written in place, and may be cut short.
ProducerCrash(p) ==
    /\ producers[p] # NoRun
    /\ producers' = [producers EXCEPT ![p] = NoRun]
    /\ \/ UNCHANGED receipts
       \/ /\ producers[p].pc = "receipt"
          /\ receipts' =
                 [receipts EXCEPT ![Cases[producers[p].at]][producers[p].stage] = {Torn}]
    /\ UNCHANGED <<hydrationVars, reviewVars, attestation, artifacts, built, report>>

-----------------------------------------------------------------------------
(* build_stage_receipts and run_vertical_slice *)

\* SliceSound: only the last stage is compared with the capsule.
Bound_bug(c) ==
    \E g \in receipts[c]["generation"], x \in receipts[c]["execution"],
       v \in receipts[c]["evaluation"] :
        /\ Torn \notin {g, x, v}
        /\ g.exit_code = 0 /\ x.exit_code = 0 /\ v.exit_code = 0
        /\ {v.capsule} = files[c]["capsule"]
        /\ {g.artifact} = artifacts[c]["generation"]
        /\ {x.artifact} = artifacts[c]["execution"]
        /\ {v.artifact} = artifacts[c]["evaluation"]
        /\ g.proposal = g.artifact /\ x.proposal = g.artifact
        /\ v.artifact.of = x.artifact

\* The receipts, the artifacts and the capsule of a case fit each other.
Bound(c) ==
    \E g \in receipts[c]["generation"], x \in receipts[c]["execution"],
       v \in receipts[c]["evaluation"] :
        /\ Torn \notin {g, x, v}
        /\ \A producer \in {g, x, v} :
               producer.exit_code = 0 /\ {producer.capsule} = files[c]["capsule"]
        /\ {g.artifact} = artifacts[c]["generation"]
        /\ {x.artifact} = artifacts[c]["execution"]
        /\ {v.artifact} = artifacts[c]["evaluation"]
        /\ g.proposal = g.artifact /\ x.proposal = g.artifact
        /\ v.artifact.of = x.artifact

StageReceipts(c) == [capsule |-> Content(c, "capsule"), receipts |-> receipts[c]]

\* One case of the loop: it is refused when something does not fit.
BuildCase ==
    /\ attestation = {TRUE}
    /\ \E i \in DOMAIN Cases :
           LET c == Cases[i] IN
           /\ \A j \in 1 .. i - 1 : built[Cases[j]] # {}
           /\ built[c] = {}
           /\ Bound(c)
           /\ built' = [built EXCEPT ![c] = {StageReceipts(c)}]
    /\ UNCHANGED <<hydrationVars, reviewVars, attestation, stageVars, report>>

\* A rerun passes over the cases it finds as it would write them.
BuildManifest ==
    /\ built["manifest"] = {}
    /\ \A c \in CaseIds : Bound(c) /\ built[c] = {StageReceipts(c)}
    /\ built' = [built EXCEPT !["manifest"] = {"manifest"}]
    /\ UNCHANGED <<hydrationVars, reviewVars, attestation, stageVars, report>>

BuildCrash ==
    /\ attestation = {TRUE}
    /\ \E c \in CaseIds :
           /\ built[c] = {}
           /\ Bound(c)
           /\ built' = [built EXCEPT ![c] = {Torn}]
    /\ UNCHANGED <<hydrationVars, reviewVars, attestation, stageVars, report>>

\* load_semantic_review.
ReviewHolds(c) ==
    /\ Stamped(c)
    /\ review[c] = Content(c, "capsule").review
    /\ \A value \in review[c] : value # Torn /\ value.passed

\* The failures of a case, none of them: the evaluation may have failed.
CasePasses(c) == ReviewHolds(c) /\ Bound(c) /\ built[c] = {StageReceipts(c)}

RunVerticalSlice ==
    /\ built["manifest"] # {}
    /\ report = {}
    /\ report' = {Len(Cases) \in SliceSizes /\ \A c \in CaseIds : CasePasses(c)}
    /\ UNCHANGED <<hydrationVars, reviewVars, attestation, stageVars, built>>

-----------------------------------------------------------------------------
OthersUnchanged == UNCHANGED <<reviewVars, attestation, stageVars, built, report>>

ReviewStep(r) ==
    BeginReview(r) \/ CheckReview(r) \/ WriteReview(r) \/ HashReview(r) \/ StampCapsule(r)

ProduceStep ==
    \/ BeginGeneration \/ BeginStages \/ EnterCase
    \/ \E p \in DOMAIN producers : RunContainer(p) \/ WriteProducerReceipt(p, 0)

BuildStep == BuildCase \/ BuildManifest \/ RunVerticalSlice

\* What may fail or die.
Mishap ==
    \/ (NetworkError \/ HydrationCrash) /\ OthersUnchanged
    \/ \E r \in Reviewers : ReviewCrash(r)
    \/ \E p \in DOMAIN producers :
           ContainerFails(p) \/ WriteProducerReceipt(p, 1) \/ ProducerCrash(p)
    \/ BuildCrash

Step ==
    \/ HydrationStep /\ OthersUnchanged
    \/ \E r \in Reviewers : ReviewStep(r)
    \/ ProduceStep
    \/ BuildStep

Next == Step \/ Attest \/ Mishap \/ (ServicesChange /\ OthersUnchanged)

Spec == Init /\ [][Next]_vars

-----------------------------------------------------------------------------
TypeOK ==
    /\ HydrationTypeOK
    /\ \A r \in Reviewers :
           reviewers[r].pc \in {"idle", "receipt", "write", "hash", "stamp"}
    /\ \A c \in CaseIds : Cardinality(review[c]) <= 1 /\ Cardinality(built[c]) <= 1
    /\ \A c \in CaseIds : \A s \in Stages :
           Cardinality(artifacts[c][s]) <= 1 /\ Cardinality(receipts[c][s]) <= 1
    /\ attestation \subseteq BOOLEAN /\ report \subseteq BOOLEAN

\* A capsule that carries the digest of its review never changes again, unless
\* two reviewers worked on its case at the same time (review_semantic.py:113).
ReviewStands ==
    [][\A c \in CaseIds :
           Stamped(c) /\ c \notin contested => files'[c]["capsule"] = files[c]["capsule"]]_vars

\* A report that passes is about what really ran: in every case the container
\* executed the proposal that the generation receipt declares, the evaluation
\* is of that execution, no stage ran before the capsule had its review, and
\* the review passed (vertical_slice.py:83-261).
Sound(c) ==
    /\ \E value \in review[c] : value # Torn /\ value.passed
    /\ \A s \in Stages : \E receipt \in receipts[c][s] \ {Torn} :
           receipt.exit_code = 0 /\ receipt.capsule.review = review[c]
    /\ \E x \in artifacts[c]["execution"], g \in receipts[c]["generation"] \ {Torn} :
           x.ran = g.proposal /\ \A v \in artifacts[c]["evaluation"] : v.of = x

SliceSound == [][report # report' /\ report' = {TRUE} => \A c \in CaseIds : Sound(c)]_vars

\* What no command takes back: a torn capsule no reviewer is about to stamp, a
\* receipt that is no good, an artifact without one that no process is about to
\* sign, and a stage that ran over another capsule than the reviewed one.
Signing(c, s) ==
    \E p \in DOMAIN producers :
        producers[p].pc = "receipt" /\ Cases[producers[p].at] = c /\ producers[p].stage = s

BadReceipt(c, s) ==
    \E receipt \in receipts[c][s] :
        receipt = Torn \/ receipt.exit_code # 0 \/ {receipt.artifact} # artifacts[c][s]

Spoiled(c) ==
    \/ files[c]["capsule"] = {Torn} /\ \A r \in Reviewers : ~Reviewing(r, c)
    \/ \E s \in Stages : BadReceipt(c, s)
    \/ \E s \in Stages : artifacts[c][s] # {} /\ receipts[c][s] = {} /\ ~Signing(c, s)
    \/ Stamped(c) /\ c \notin contested /\ \E s \in Stages : \E receipt \in receipts[c][s] \ {Torn} :
           {receipt.capsule} # files[c]["capsule"]

\* A case that is spoiled stays so: neither the paths that must be new nor the
\* files that are written once let a rerun repair it, and the report never
\* passes (trusted_producer.py:134-137).
SpoiledForGood ==
    [][(\E c \in CaseIds : Spoiled(c)) /\ report # {TRUE} =>
           (\E c \in CaseIds : Spoiled(c))' /\ report' # {TRUE}]_vars
=============================================================================
