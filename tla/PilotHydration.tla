--------------------------- MODULE PilotHydration ---------------------------
(***************************************************************************)
(* v0.1.2_real_pilot_bundle/scripts/hydrate_and_seal.py: the files of each *)
(* case are downloaded, sealed and written, one after the other, and a run *)
(* that was interrupted is resumed over the files it left.                 *)
(*                                                                         *)
(* A file is {} when absent, else {its content}; a digest is the value it  *)
(* is computed from.  What the services serve, and what the extractor of   *)
(* texts makes of it, may change between two requests.                     *)
(*                                                                         *)
(* A definition whose name ends in _bug is a slip the code could have had; *)
(* the property named beside it rules it out.                              *)
(***************************************************************************)
EXTENDS Naturals, Sequences, FiniteSets

CONSTANTS
    Cases,      \* the cases of targets_admin.json, in order
    Salts,      \* the values token_hex may draw
    Versions    \* what a service, or the extractor, may come up with

CaseIds == {Cases[i] : i \in DOMAIN Cases}

ASSUME HydrationAssumption ==
    /\ Cases \in Seq(CaseIds)
    /\ Cases # <<>>
    /\ \A i, j \in DOMAIN Cases : Cases[i] = Cases[j] => i = j
    /\ Salts # {}

VARIABLES
    files,       \* files[c][f]: the file f of case c
    manifest,    \* hydration_manifest.json
    live,        \* live[c]: what is served now for case c
    hydration    \* the hydration process

hydrationVars == <<files, manifest, live, hydration>>

\* In the order hydrate_case writes them.  One prior source stands for all of a case,
\* "lock" for the environment lock and the sources' JSON, "packet" for the two JSON
\* files a reviewer is sent.
FileOrder == <<"paper", "text", "archive", "timestamps", "source", "source_text", "lock",
               "salt", "sealed", "capsule", "packet", "summary">>

FileNames == {FileOrder[i] : i \in DOMAIN FileOrder}

\* The files that are downloaded, and left alone when they are there.
Downloads == {"paper", "archive", "source"}

Texts == {"text", "source_text"}

Torn == [state |-> "torn"]

Endpoints == {"api", "codeload"}

\* What GitHub says of the repository, and whether OpenReview asks for a browser.
Metadata == [commits : Versions, challenge : BOOLEAN]

\* What is served for a case.  The archive comes from codeload while a proxy of the
\* API rejects it with 415.
Services ==
    [metadata : Metadata, paper : Versions, source : Versions, extractor : Versions,
     endpoint : Endpoints, archive : [Endpoints -> Versions]]

Served(c, f) ==
    [bytes |-> IF f = "archive" THEN live[c].archive[live[c].endpoint] ELSE live[c][f]]

Idle == [at |-> 0, file |-> 0, seen |-> {}]

HydrationInit ==
    /\ files = [c \in CaseIds |-> [f \in FileNames |-> {}]]
    /\ manifest = {}
    /\ live \in [CaseIds -> Services]
    /\ hydration = Idle

Here == Cases[hydration.at]

File == FileOrder[hydration.file]

Seen == CHOOSE metadata \in hydration.seen : TRUE

Content(c, f) == CHOOSE content \in files[c][f] : TRUE

\* The sealed target, from the metadata and from what is on the disk by then: the
\* dates, the paper, the archive and the salt.
Target(c, seen) ==
    [case |-> c, metadata |-> seen, paper |-> files[c]["paper"],
     archive |-> files[c]["archive"], salt |-> files[c]["salt"]]

\* A capsule commits to its target; review is the one it is stamped with, if any.
Capsule(c, seen) ==
    [commitment |-> Target(c, seen), sources |-> <<files[c]["source"], files[c]["source_text"]>>,
     provisional |-> seen.challenge, review |-> {}]

\* What hydrate_case writes to a file of c, or refuses to find otherwise.
Wanted(c, f, seen) ==
    CASE f \in Downloads -> Served(c, f)
      [] f = "text" -> [of |-> files[c]["paper"], by |-> live[c].extractor]
      [] f = "source_text" -> [of |-> files[c]["source"], by |-> live[c].extractor]
      [] f = "timestamps" -> seen
      [] f = "lock" -> [state |-> "pinned"]
      [] f = "sealed" -> Target(c, seen)
      [] f = "capsule" -> Capsule(c, seen)
      [] f = "packet" -> [capsule |-> Capsule(c, seen), target |-> Target(c, seen)]
      [] f = "summary" -> [commitment |-> Target(c, seen), provisional |-> seen.challenge]

-----------------------------------------------------------------------------
\* main: an existing output root needs --resume, which the operator gives.
BeginHydration ==
    /\ hydration = Idle
    /\ hydration' = [hydration EXCEPT !.at = 1]
    /\ UNCHANGED <<files, manifest, live>>

\* A case with a summary is skipped.  One that cannot be parsed ends the run.
SkipCase ==
    /\ hydration.at \in DOMAIN Cases
    /\ hydration.file = 0
    /\ files[Here]["summary"] # {}
    /\ hydration' = IF files[Here]["summary"] = {Torn} THEN Idle
                    ELSE [hydration EXCEPT !.at = @ + 1]
    /\ UNCHANGED <<files, manifest, live>>

\* arxiv_v1_timestamp, openreview_metadata and github_metadata.
ReadMetadata ==
    /\ hydration.at \in DOMAIN Cases
    /\ hydration.file = 0
    /\ files[Here]["summary"] = {}
    /\ hydration' = [hydration EXCEPT !.file = 1, !.seen = {live[Here].metadata}]
    /\ UNCHANGED <<files, manifest, live>>

\* TypeOK: the next case begins with the metadata of this one.
NextFile_bug ==
    IF hydration.file < Len(FileOrder) THEN [hydration EXCEPT !.file = @ + 1]
    ELSE [hydration EXCEPT !.at = @ + 1, !.file = 0]

NextFile ==
    IF hydration.file < Len(FileOrder) THEN [hydration EXCEPT !.file = @ + 1]
    ELSE [hydration EXCEPT !.at = @ + 1, !.file = 0, !.seen = {}]

\* write_json, download_file, download_blob, extract_text: a file that says
\* something else ends the run (a download or an extraction that changed).
WriteFile ==
    /\ hydration.file # 0
    /\ File # "salt"
    /\ IF files[Here][File] \subseteq {Wanted(Here, File, Seen)}
       THEN /\ files' = [files EXCEPT ![Here][File] = {Wanted(Here, File, Seen)}]
            /\ hydration' = NextFile
       ELSE hydration' = Idle /\ UNCHANGED files
    /\ UNCHANGED <<manifest, live>>

\* ResumeWorks: every run draws a salt.
PersistentSecret_bug ==
    /\ hydration.file # 0
    /\ File = "salt"
    /\ \E salt \in Salts : files' = [files EXCEPT ![Here]["salt"] = {salt}]
    /\ hydration' = NextFile
    /\ UNCHANGED <<manifest, live>>

\* persistent_secret: the salt of an earlier run, or a new one.
PersistentSecret ==
    /\ hydration.file # 0
    /\ File = "salt"
    /\ \/ /\ files[Here]["salt"] = {}
          /\ \E salt \in Salts : files' = [files EXCEPT ![Here]["salt"] = {salt}]
          /\ hydration' = NextFile
       \/ /\ files[Here]["salt"] # {}
          /\ hydration' = IF files[Here]["salt"] = {Torn} THEN Idle ELSE NextFile
          /\ UNCHANGED files
    /\ UNCHANGED <<manifest, live>>

\* The manifest carries the time of this run, so one that exists says something
\* else; a commitment used twice ends the run as well.
WriteManifest ==
    /\ hydration.at = Len(Cases) + 1
    /\ hydration' = Idle
    /\ manifest' =
           IF manifest = {} /\ \A c, d \in CaseIds :
                  c # d => Content(c, "summary").commitment # Content(d, "summary").commitment
           THEN {[provisional |-> \E c \in CaseIds : Content(c, "summary").provisional]}
           ELSE manifest
    /\ UNCHANGED <<files, live>>

\* request_bytes gave up after five attempts, or met an error it does not retry; what
\* came is no paper or archive, its text is too short, or the source is too young.
NetworkError ==
    /\ hydration.at \in DOMAIN Cases
    /\ \/ hydration.file = 0 /\ files[Here]["summary"] = {}
       \/ hydration.file # 0 /\ File \in Downloads \cup Texts
    /\ hydration' = Idle
    /\ UNCHANGED <<files, manifest, live>>

\* The process dies, before a write or in it: the file was emptied or cut short.  A
\* download or a salt that is there is not written again.
HydrationCrash ==
    /\ hydration # Idle
    /\ hydration' = Idle
    /\ \/ UNCHANGED <<files, manifest>>
       \/ /\ hydration.file # 0
          /\ IF File \in Downloads \cup {"salt"} THEN files[Here][File] = {}
             ELSE files[Here][File] \subseteq {Wanted(Here, File, Seen)}
          /\ files' = [files EXCEPT ![Here][File] = {Torn}]
          /\ UNCHANGED manifest
       \/ /\ hydration.at = Len(Cases) + 1
          /\ manifest = {}
          /\ manifest' = {Torn}
          /\ UNCHANGED files
    /\ UNCHANGED live

\* A commit reaches the default branch, OpenReview begins or ceases to ask for a
\* browser, arXiv makes a paper anew, a proxy rejects archives, an extractor is updated.
ServicesChange ==
    /\ \E c \in CaseIds, new \in Services :
           new # live[c] /\ live' = [live EXCEPT ![c] = new]
    /\ UNCHANGED <<files, manifest, hydration>>

HydrationStep ==
    \/ BeginHydration \/ SkipCase \/ ReadMetadata
    \/ WriteFile \/ PersistentSecret \/ WriteManifest

-----------------------------------------------------------------------------
HydrationTypeOK ==
    /\ \A c \in CaseIds : \A f \in FileNames : Cardinality(files[c][f]) <= 1
    /\ \A c \in CaseIds : files[c]["salt"] \subseteq Salts \cup {Torn}
    /\ hydration.at \in 0 .. Len(Cases) + 1
    /\ hydration.file \in 0 .. Len(FileOrder)
    /\ hydration.file # 0 <=> hydration.seen # {}

\* A resumed run refuses f: it says something else than what would be written.
Refused(c, f) ==
    /\ files[c]["summary"] = {}
    /\ files[c][f] # {}
    /\ IF f = "salt" THEN files[c][f] = {Torn}
       ELSE files[c][f] # {Wanted(c, f, live[c].metadata)}

\* What was downloaded, extracted or said when a file was written is not so now.
Changed(c) ==
    \/ \E f \in Downloads : \E body \in files[c][f] : body # Served(c, f)
    \/ \E f \in Texts : \E text \in files[c][f] : text # Torn /\ text.by # live[c].extractor
    \/ \E timestamps \in files[c]["timestamps"] : timestamps # live[c].metadata

\* An interrupted case can be resumed, unless a write was cut short, a download,
\* an extraction or the metadata changed since, or the capsule was reviewed
\* before its case was complete.
ResumeWorks ==
    \A c \in CaseIds :
        (\E f \in FileNames \ {"summary"} : Refused(c, f)) =>
            \/ \E f \in FileNames : files[c][f] = {Torn}
            \/ Changed(c)
            \/ \E capsule \in files[c]["capsule"] : capsule # Torn /\ capsule.review # {}
=============================================================================
