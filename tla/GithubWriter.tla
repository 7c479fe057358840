---------------------------- MODULE GithubWriter ----------------------------
(* The external write: cli.py runs the pipeline, which overwrites the files  *)
(* of one output directory one by one, and the guarded writer of             *)
(* github_adapter.py plans from those files, sends them to GitHub request by *)
(* request and binds the result into the manifest.  The writer also runs     *)
(* alone (scripts/github_draft_pr.py), as often as a person wants.  Every    *)
(* process may stop at any step; a request given up may still take effect.   *)
(*                                                                           *)
(* A file's content is the run that wrote it, and a digest is the content it *)
(* digests.  Bounds: MaxStops (processes that stop half-way), MaxMain (times *)
(* other people move main).                                                  *)
EXTENDS Naturals, Sequences, FiniteSets

CONSTANTS
    Clis,           \* processes of cli.py: pipeline, then perhaps the writer
    Scripts,        \* processes of scripts/github_draft_pr.py: the writer
    Runs,           \* run identities; each pipeline run takes a fresh one
    Stems, Stem,    \* the branch stem of each run's github-pr.json
    Ready,          \* runs whose readiness is "ready"
    Completed,      \* runs whose checks are "completed"
    Overlaps,       \* whether a pipeline may run beside other processes
    PipelineStops,  \* whether a pipeline may stop half-way
    MaxStops, MaxMain,
    NoFile, Empty, NoRun, NoResult

ASSUME RunsAssumption == /\ Ready \subseteq Runs /\ Completed \subseteq Runs
                         /\ Stem \in [Runs -> Stems]
ASSUME SwitchAssumption == {Overlaps, PipelineStops} \subseteq BOOLEAN
ASSUME BoundAssumption == MaxStops \in Nat /\ MaxMain \in Nat
ASSUME ProcAssumption == Clis \cap Scripts = {}
ASSUME NothingAssumption == {NoFile, Empty, NoRun} \cap Runs = {} /\ NoFile # Empty

VARIABLES
    dir,        \* the evidence files but the manifest: the run that wrote each
    manifest,   \* run-manifest.json
    resultFile, \* github-write-result.json
    main, refs, \* GitHub: the commits of main, and the branches
    pulls,      \* GitHub: the pull requests
    late,       \* requests whose sender gave up and which may still arrive
    started,    \* runs begun
    pc, my,     \* each process's place and local variables
    stops

vars == <<dir, manifest, resultFile, main, refs, pulls, late, started, pc, my, stops>>
disk == <<dir, manifest, resultFile>>
github == <<main, refs, pulls, late>>

Procs == Clis \cup Scripts

(* _EVIDENCE_FILES without the manifest, which comes last, in the order the  *)
(* writer sends them; and the order write_github_flow_artifacts writes them. *)
EvidenceFiles == <<"github-pr.md", "github-pr.json", "github-pr-diff.patch",
                   "github-pr-checks.json", "github-review-audit.jsonl">>
FlowFiles == <<"github-pr.json", "github-pr.md", "github-pr-diff.patch",
               "github-pr-checks.json", "github-review-audit.jsonl">>
Files == {EvidenceFiles[i] : i \in DOMAIN EvidenceFiles}

Branches == [stem : Stems, run : Runs]
NoFiles == [f \in Files |-> NoFile]

(* A manifest that says nothing yet, NoFile or Empty in the place of its run *)
(* if there is none to read; no commit.                                      *)
Manifest(run) ==
    [run |-> run, digests |-> NoFiles, result |-> NoResult, resultDigest |-> NoResult]
NoCommit == [base |-> 0, run |-> NoRun, files |-> NoFiles, manifest |-> Manifest(NoFile)]

(* Nothing in a process's hands. *)
Idle == [run |-> NoRun, k |-> 1, pr |-> NoFile, branch |-> NoRun, base |-> 0, files |-> NoFiles,
         manifest |-> Manifest(NoFile), body |-> NoFile, result |-> NoResult]

Init ==
    /\ dir = NoFiles /\ manifest = Manifest(NoFile) /\ resultFile = NoResult
    /\ main = 0 /\ refs = [b \in Branches |-> NoCommit] /\ pulls = {} /\ late = {}
    /\ started = {} /\ stops = 0
    /\ pc = [p \in Procs |-> "idle"]
    /\ my = [p \in Procs |-> Idle]

PipelineSteps == {"open", "write", "digest", "manifest", "saved"}
PipelineRuns == \E p \in Procs : pc[p] \in PipelineSteps

Go(p, step, locals) ==
    /\ pc' = [pc EXCEPT ![p] = step]
    /\ my' = [my EXCEPT ![p] = locals]

(* The process ends: its answer is given or its exception raised. *)
End(p) == Go(p, "idle", Idle)

-----------------------------------------------------------------------------
(* The pipeline. *)

(* cli.main calls run_pipeline, which takes a fresh run id and computes its  *)
(* results before it writes any file.                                        *)
StartRun(p, r) ==
    /\ p \in Clis /\ pc[p] = "idle"
    /\ r \notin started
    /\ Overlaps \/ \A q \in Procs : pc[q] = "idle"
    /\ started' = started \cup {r}
    /\ Go(p, "open", [Idle EXCEPT !.run = r])
    /\ UNCHANGED <<disk, github, stops>>

(* write_text truncates the file, then writes it. *)
OpenFile(p) ==
    /\ pc[p] = "open"
    /\ dir' = [dir EXCEPT ![FlowFiles[my[p].k]] = Empty]
    /\ Go(p, "write", my[p])
    /\ UNCHANGED <<manifest, resultFile, github, started, stops>>

WriteFile(p) ==
    /\ pc[p] = "write"
    /\ dir' = [dir EXCEPT ![FlowFiles[my[p].k]] = my[p].run]
    /\ IF my[p].k < Len(FlowFiles)
       THEN Go(p, "open", [my[p] EXCEPT !.k = @ + 1])
       ELSE Go(p, "digest", my[p])
    /\ UNCHANGED <<manifest, resultFile, github, started, stops>>

(* A mutant that leaves a file out of the manifest. *)
FreshManifestWithoutDiff(p) ==
    [Manifest(my[p].run) EXCEPT !.digests = [dir EXCEPT !["github-pr-diff.patch"] = NoFile]]

(* write_run_manifest digests the files it finds and overwrites the manifest *)
(* without the result of an earlier external write.                          *)
FreshManifest(p) ==
    [Manifest(my[p].run) EXCEPT !.digests = dir]

DigestFiles(p) ==
    /\ pc[p] = "digest"
    /\ Go(p, "manifest", [my[p] EXCEPT !.manifest = FreshManifest(p)])
    /\ UNCHANGED <<disk, github, started, stops>>

OpenManifest(p) ==
    /\ pc[p] \in {"manifest", "bind"}
    /\ manifest' = Manifest(Empty)
    /\ Go(p, IF pc[p] = "manifest" THEN "saved" ELSE "bound", my[p])
    /\ UNCHANGED <<dir, resultFile, github, started, stops>>

(* With --write-github, cli.main goes on to the external write. *)
SaveManifest(p) ==
    /\ pc[p] = "saved"
    /\ manifest' = my[p].manifest
    /\ End(p) \/ Go(p, "plan", Idle)
    /\ UNCHANGED <<dir, resultFile, github, started, stops>>

-----------------------------------------------------------------------------
(* The plan. *)

StartWrite(p) ==
    /\ p \in Scripts /\ pc[p] = "idle"
    /\ Overlaps \/ ~PipelineRuns
    /\ Go(p, "plan", Idle)
    /\ UNCHANGED <<disk, github, started, stops>>

(* Every evidence file must be there, and github-pr.json readable.  A missing *)
(* token, which ends the writer before its first request, is a Stop.          *)
ReadPullRequest(p) ==
    /\ pc[p] = "plan"
    /\ IF NoFile \in {dir[f] : f \in Files} \cup {manifest.run} \/ dir["github-pr.json"] = Empty
       THEN End(p)
       ELSE Go(p, "checks", [Idle EXCEPT !.pr = dir["github-pr.json"]])
    /\ UNCHANGED <<disk, github, started, stops>>

(* A mutant that does not look at the readiness. *)
UnblockedByChecks(pr, checks) == checks \in Completed

(* The write stays blocked unless readiness is ready and the checks done. *)
Unblocked(pr, checks) == pr \in Ready /\ checks \in Completed

ReadChecks(p) ==
    /\ pc[p] = "checks"
    /\ IF Unblocked(my[p].pr, dir["github-pr-checks.json"])
       THEN Go(p, "identify", my[p])
       ELSE End(p)
    /\ UNCHANGED <<disk, github, started, stops>>

(* _branch_for: the stem of the pull request and the manifest's run id. *)
BranchFor(pr, run) == [stem |-> Stem[pr], run |-> run]

ReadManifest(p) ==
    /\ pc[p] = "identify"
    /\ IF manifest.run = Empty
       THEN End(p)
       ELSE Go(p, "list", [my[p] EXCEPT !.run = manifest.run,
                                        !.branch = BranchFor(my[p].pr, manifest.run)])
    /\ UNCHANGED <<disk, github, started, stops>>

-----------------------------------------------------------------------------
(* The requests of write_evidence_draft, each with GitHub's answer to it.    *)

OpenPulls(b) == {q \in pulls : q.branch = b /\ q.open}

(* _result: what the caller is told and what is stored.                      *)
Result(p, q, reused) == [run |-> my[p].run, number |-> q.number, reused |-> reused]

(* An open pull request of the branch is reused.                             *)
FindPull(p) ==
    /\ pc[p] = "list"
    /\ IF OpenPulls(my[p].branch) = {}
       THEN Go(p, "base", my[p])
       ELSE \E q \in OpenPulls(my[p].branch) :
              Go(p, "result", [my[p] EXCEPT !.result = Result(p, q, TRUE)])
    /\ UNCHANGED <<disk, github, started, stops>>

GetBase(p) ==
    /\ pc[p] = "base"
    /\ Go(p, "blobs", [my[p] EXCEPT !.base = main])
    /\ UNCHANGED <<disk, github, started, stops>>

(* A blob holds what its file holds when it is read, the manifest last.      *)
PostBlob(p) ==
    /\ pc[p] = "blobs"
    /\ LET k == my[p].k
           f == EvidenceFiles[k]
       IN IF k <= Len(EvidenceFiles)
          THEN Go(p, "blobs", [my[p] EXCEPT !.k = @ + 1, !.files[f] = dir[f]])
          ELSE Go(p, "ref", [my[p] EXCEPT !.k = 1, !.manifest = manifest])
    /\ UNCHANGED <<disk, github, started, stops>>

(* The tree and the commit, which nothing refers to yet: the files under     *)
(* .chronosfix/runs/<run_id>, on top of the base.                            *)
Commit(p) == [base |-> my[p].base, run |-> my[p].run,
              files |-> my[p].files, manifest |-> my[p].manifest]

(* A mutant in which creating it again overwrites it (PATCH, forced). *)
BranchIsNewOrForced(b) == TRUE

(* GitHub creates a branch once, and refuses the second creation with 422.   *)
BranchIsNew(b) == refs[b] = NoCommit

(* A mutant that is done once the branch exists. *)
PostRefOnly(p) ==
    /\ pc[p] = "ref"
    /\ refs' = IF BranchIsNew(my[p].branch)
               THEN [refs EXCEPT ![my[p].branch] = Commit(p)] ELSE refs
    /\ End(p)
    /\ UNCHANGED <<disk, main, pulls, late, started, stops>>

PostRef(p) ==
    /\ pc[p] = "ref"
    /\ IF BranchIsNew(my[p].branch)
       THEN /\ refs' = [refs EXCEPT ![my[p].branch] = Commit(p)]
            /\ Go(p, "body", my[p])
       ELSE End(p) /\ UNCHANGED refs
    /\ UNCHANGED <<disk, main, pulls, late, started, stops>>

(* The text of the pull request is read again from the files.                *)
ReadBody(p) ==
    /\ pc[p] = "body"
    /\ IF dir["github-pr.json"] = Empty
       THEN End(p)
       ELSE Go(p, "pull", [my[p] EXCEPT !.body = dir["github-pr.md"]])
    /\ UNCHANGED <<disk, github, started, stops>>

NewPull(b, body) ==
    [number |-> Cardinality(pulls) + 1, branch |-> b, commit |-> refs[b],
     body |-> body, open |-> TRUE]

(* GitHub refuses a second open pull request of one branch.                  *)
PullIsNew(b) == OpenPulls(b) = {}

PostPull(p) ==
    /\ pc[p] = "pull"
    /\ LET b == my[p].branch
           q == NewPull(b, my[p].body)
       IN IF PullIsNew(b)
          THEN /\ pulls' = pulls \cup {q}
               /\ Go(p, "result", [my[p] EXCEPT !.result = Result(p, q, FALSE)])
          ELSE End(p) /\ UNCHANGED pulls
    /\ UNCHANGED <<disk, main, refs, late, started, stops>>

-----------------------------------------------------------------------------
(* write_external_evidence_draft stores the result, then binds it into the   *)
(* manifest it reads back, with the digest of the result file as it is then. *)
WriteResult(p) ==
    /\ pc[p] = "result"
    /\ resultFile' = my[p].result
    /\ Go(p, "reread", my[p])
    /\ UNCHANGED <<dir, manifest, github, started, stops>>

RereadManifest(p) ==
    /\ pc[p] = "reread"
    /\ IF manifest.run = Empty
       THEN End(p)
       ELSE Go(p, "bind", [my[p] EXCEPT !.manifest =
                [manifest EXCEPT !.result = my[p].result, !.resultDigest = resultFile]])
    /\ UNCHANGED <<disk, github, started, stops>>

(* Between the two, OpenManifest truncates it. *)
BindManifest(p) ==
    /\ pc[p] = "bound"
    /\ manifest' = my[p].manifest
    /\ End(p)
    /\ UNCHANGED <<dir, resultFile, github, started, stops>>

-----------------------------------------------------------------------------
(* What may happen to a process and on GitHub. *)

(* The request a process is about to send, when it changes something others  *)
(* see.                                                                      *)
Sent(p) ==
    CASE pc[p] = "ref"  -> {[kind |-> "ref", branch |-> my[p].branch,
                             commit |-> Commit(p), body |-> NoFile]}
      [] pc[p] = "pull" -> {[kind |-> "pull", branch |-> my[p].branch,
                             commit |-> NoCommit, body |-> my[p].body]}
      [] OTHER -> {}

(* A process is killed, or its request fails or times out (the timeout of    *)
(* _request raises): the request is lost or still under way.                 *)
Stop(p) ==
    /\ pc[p] # "idle" /\ stops < MaxStops
    /\ PipelineStops \/ pc[p] \notin PipelineSteps
    /\ stops' = stops + 1
    /\ late' \in {late, late \cup Sent(p)}
    /\ End(p)
    /\ UNCHANGED <<disk, main, refs, pulls, started>>

(* A request given up arrives after all; nobody hears the answer.            *)
ArriveRef(q) ==
    /\ q \in late /\ q.kind = "ref"
    /\ late' = late \ {q}
    /\ refs' = IF BranchIsNew(q.branch) THEN [refs EXCEPT ![q.branch] = q.commit] ELSE refs
    /\ UNCHANGED <<disk, main, pulls, started, pc, my, stops>>

ArrivePull(q) ==
    /\ q \in late /\ q.kind = "pull"
    /\ late' = late \ {q}
    /\ pulls' = IF PullIsNew(q.branch) THEN pulls \cup {NewPull(q.branch, q.body)} ELSE pulls
    /\ UNCHANGED <<disk, main, refs, started, pc, my, stops>>

(* Other people. *)
MoveMain ==
    /\ main < MaxMain
    /\ main' = main + 1
    /\ UNCHANGED <<disk, refs, pulls, late, started, pc, my, stops>>

ClosePull(q) ==
    /\ q \in pulls /\ q.open
    /\ pulls' = (pulls \ {q}) \cup {[q EXCEPT !.open = FALSE]}
    /\ UNCHANGED <<disk, main, refs, late, started, pc, my, stops>>

PipelineStep(p) ==
    \/ OpenFile(p) \/ WriteFile(p) \/ DigestFiles(p) \/ OpenManifest(p) \/ SaveManifest(p)
WriterStep(p) ==
    \/ ReadPullRequest(p) \/ ReadChecks(p) \/ ReadManifest(p)
    \/ FindPull(p) \/ GetBase(p) \/ PostBlob(p) \/ PostRef(p) \/ ReadBody(p) \/ PostPull(p)
    \/ WriteResult(p) \/ RereadManifest(p) \/ BindManifest(p)
Step(p) == PipelineStep(p) \/ WriterStep(p)

Next ==
    \/ \E p \in Procs : Step(p) \/ StartWrite(p) \/ Stop(p) \/ \E r \in Runs : StartRun(p, r)
    \/ \E q \in late : ArriveRef(q) \/ ArrivePull(q)
    \/ \E q \in pulls : ClosePull(q)
    \/ MoveMain

Spec == Init /\ [][Next]_vars

(* A process that runs goes on, and a person runs the writer again.          *)
Fairness == \A p \in Procs : WF_vars(Step(p)) /\ WF_vars(StartWrite(p))

FairSpec == Spec /\ Fairness

-----------------------------------------------------------------------------
(* Properties. *)

Contents == Runs \cup {NoFile, Empty}
FileMaps == [Files -> Contents]
Results == [run : Contents, number : Nat, reused : BOOLEAN] \cup {NoResult}
Manifests == [run : Contents, digests : FileMaps, result : Results, resultDigest : Results]
Commits == [base : 0..MaxMain, run : Contents \cup {NoRun}, files : FileMaps, manifest : Manifests]
Pulls == [number : Nat, branch : Branches, commit : Commits, body : Contents, open : BOOLEAN]
Requests == [kind : {"ref", "pull"}, branch : Branches, commit : Commits, body : Contents]
Places == PipelineSteps \cup {"idle", "plan", "checks", "identify", "list", "base", "blobs", "ref",
                              "body", "pull", "result", "reread", "bind", "bound"}
Locals ==
    [run : Contents \cup {NoRun}, k : 1..(Len(EvidenceFiles) + 1), pr : Contents,
     branch : Branches \cup {NoRun}, base : 0..MaxMain, files : FileMaps, manifest : Manifests,
     body : Contents, result : Results]

(* Types: the files, the manifest, GitHub's branches and pull requests, and  *)
(* the processes.                                                            *)
TypeOK ==
    /\ dir \in FileMaps /\ manifest \in Manifests /\ resultFile \in Results
    /\ main \in 0..MaxMain /\ refs \in [Branches -> Commits]
    /\ pulls \subseteq Pulls /\ IsFiniteSet(pulls) /\ late \subseteq Requests
    /\ started \subseteq Runs /\ stops \in 0..MaxStops
    /\ pc \in [Procs -> Places] /\ my \in [Procs -> Locals]

(* The evidence of a pull request is of the run its branch names, and that   *)
(* run was ready: nothing else reaches a reviewer (81-121, 206-233).         *)
AllOf(r, c) == c.run = r /\ c.files = [f \in Files |-> r] /\ c.manifest.run = r
PublishedIsOneReadyRun ==
    \A q \in pulls : /\ q.branch.run \in Ready
                     /\ AllOf(q.branch.run, q.commit) /\ q.body = q.branch.run

(* README.md:78, docs/safety-and-audit.md:62: the manifest's digests are     *)
(* those of the files beside it, so a reviewer of the branch can detect      *)
(* evidence that drifted (integrity.py 85-92).                               *)
DigestsMatch ==
    \A q \in pulls : q.commit.manifest.run \notin {NoFile, Empty}
                        /\ q.commit.manifest.digests = q.commit.files

(* docs/github-issue-pr-flow.md:53: the writer, repeated for one ready run   *)
(* while no pipeline touches the directory and no process stops half-way,    *)
(* ends up with its pull request (186-242).                                  *)
Publishable(r) ==
    /\ r \in Ready /\ dir = [f \in Files |-> r]
    /\ manifest.run = r
Published(r) == \E q \in pulls : q.branch.run = r
PublishedEventually ==
    \A r \in Runs : Publishable(r) ~> (Published(r) \/ PipelineRuns \/ stops > 0)

(* The abstract promise: see DraftPublication.                               *)
Content(q) ==
    IF AllOf(q.branch.run, q.commit) /\ q.body = q.branch.run THEN q.branch.run ELSE NoRun
Drafts == INSTANCE DraftPublication
    WITH drafts <- {[run |-> q.branch.run, content |-> Content(q), open |-> q.open] : q \in pulls}
ImplementsDrafts == Drafts!Spec
=============================================================================
