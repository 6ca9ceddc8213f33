--------------------------- MODULE MCPilotBundle ---------------------------
(***************************************************************************)
(* PilotBundle with two cases, two reviewers and two possible proposals.   *)
(* The first case was hydrated and reviewed by an earlier run, which was   *)
(* interrupted before the second, or ended.                                *)
(***************************************************************************)
EXTENDS PilotBundle, TLC

CONSTANTS
    MaxMishaps,  \* crashes, failures of the network or of a container
    MaxChanges,  \* new answers of the services
    a, b,        \* the cases
    first        \* the salt of the first case

VARIABLES mishaps, changes, resumed

mcvars == <<vars, mishaps, changes, resumed>>

MCCases == <<a, b>>

Symmetry == Permutations(Reviewers) \cup Permutations(Proposals)

Passed == [passed |-> TRUE, by |-> "earlier"]

At1 == [commits |-> 1, challenge |-> FALSE]

\* What is served at first: codeload has other bytes than the API.
Before ==
    [metadata |-> At1, paper |-> 1, source |-> 1, extractor |-> 1, endpoint |-> "api",
     archive |-> [e \in Endpoints |-> IF e = "api" THEN 1 ELSE 2]]

\* One answer is another one: to a request for metadata, for a paper or an archive.
After ==
    {[Before EXCEPT !.metadata = m] : m \in Metadata \ {At1}}
        \cup {[Before EXCEPT !.paper = 2], [Before EXCEPT !.source = 2],
              [Before EXCEPT !.extractor = 2], [Before EXCEPT !.endpoint = "codeload"]}

\* A case an earlier run completed.
EarlierFiles(c, reviews) ==
    LET served == [bytes |-> 1]
        text == [of |-> {served}, by |-> 1]
        target == [case |-> c, metadata |-> At1, paper |-> {served}, archive |-> {served},
                   salt |-> {first}]
        capsule == [commitment |-> target, sources |-> <<{served}, {text}>>,
                    provisional |-> FALSE, review |-> {}]
    IN  [f \in FileNames |->
            CASE f \in Downloads -> {served}
              [] f \in Texts -> {text}
              [] f = "timestamps" -> {At1}
              [] f = "lock" -> {[state |-> "pinned"]}
              [] f = "salt" -> {first}
              [] f = "sealed" -> {target}
              [] f = "capsule" -> {[capsule EXCEPT !.review = reviews]}
              [] f = "packet" -> {[capsule |-> capsule, target |-> target]}
              [] f = "summary" -> {[commitment |-> target, provisional |-> FALSE]}]

MCInit ==
    /\ resumed \in BOOLEAN
    /\ files = [c \in CaseIds |->
                   IF c = a THEN EarlierFiles(c, {Passed})
                   ELSE IF resumed THEN [f \in FileNames |-> {}]
                   ELSE EarlierFiles(c, {})]
    /\ review = [c \in CaseIds |-> IF c = a THEN {Passed} ELSE {}]
    /\ manifest = {} /\ hydration = Idle
    /\ live = [c \in CaseIds |-> Before]
    /\ reviewers = [r \in Reviewers |-> NoReview]
    /\ contested = {} /\ attestation = {}
    /\ artifacts = [c \in CaseIds |-> [s \in Stages |-> {}]]
    /\ receipts = [c \in CaseIds |-> [s \in Stages |-> {}]]
    /\ producers = [p \in {"generation", "stages"} |-> NoRun]
    /\ built = [c \in CaseIds \cup {"manifest"} |-> {}]
    /\ report = {}
    /\ mishaps = 0 /\ changes = 0

\* While the second case is hydrated nothing is generated, and hydration, which would
\* skip both cases, is not run once they are complete.  The answers about the first
\* case are read no more.  The attestation is read when the receipts are built.
MCNext ==
    /\ UNCHANGED resumed
    /\ \/ /\ Step
          /\ IF resumed THEN UNCHANGED producers ELSE UNCHANGED hydration
          /\ UNCHANGED <<mishaps, changes>>
       \/ /\ receipts[b]["evaluation"] # {}
          /\ Attest
          /\ UNCHANGED <<mishaps, changes>>
       \/ /\ mishaps < MaxMishaps
          /\ Mishap
          /\ mishaps' = mishaps + 1 /\ UNCHANGED changes
       \/ /\ changes < MaxChanges /\ resumed
          /\ ServicesChange /\ live'[a] = live[a] /\ live'[b] \in After /\ OthersUnchanged
          /\ changes' = changes + 1 /\ UNCHANGED mishaps

MCSpec == MCInit /\ [][MCNext]_mcvars
=============================================================================
