-------------------------- MODULE GithubWriterProofs -------------------------
(* Proofs about GithubWriter: while no pipeline shares the directory with    *)
(* another process and none is killed half-way, any number of writers that   *)
(* stop anywhere, lose requests and repeat themselves publish whole runs.    *)
(*                                                                           *)
(* Without the two hypotheses this is false: a pipeline killed between two   *)
(* files, or writing beside a writer, leaves a directory of two runs.        *)
EXTENDS GithubWriter, FiniteSetTheorems, TLAPS

-----------------------------------------------------------------------------
(* The inductive invariant, of quiet directories: no pipeline runs beside    *)
(* another process, and none stops half-way.                                 *)
Quiet == ~Overlaps /\ ~PipelineStops

(* The places of a writer from where it has read the pull request, passed    *)
(* its gates, read the run id; and where its branch is on GitHub.            *)
Reading    == {"checks", "identify", "list", "base", "blobs", "ref", "body", "pull", "result",
               "reread", "bind", "bound"}
Cleared    == Reading \ {"checks"}
Identified == Cleared \ {"identify"}
Pushed     == {"body", "pull", "result", "reread", "bind", "bound"}

(* A run's files and branch, a manifest of these files, a commit of both.    *)
FilesOf(r)     == [f \in Files |-> r]
OwnBranch(r)   == BranchFor(r, r)
Exists(b)      == ~BranchIsNew(b)
Sealed(m, r)   == m.run = r /\ m.digests = FilesOf(r)
Faithful(c, r) == c.run = r /\ c.files = FilesOf(r) /\ Sealed(c.manifest, r)

(* Between two pipelines the directory is one run's.  Its manifest is there, *)
(* or a writer that may have stopped was binding the result of this run's    *)
(* pull request into it.                                                     *)
ManifestOf(r) == Sealed(manifest, r) \/ (manifest.run = Empty /\ Exists(OwnBranch(r)))
DirectoryOK ==
    ~PipelineRuns =>
        \/ dir = NoFiles /\ manifest.run = NoFile
        \/ \E r \in Runs : dir = FilesOf(r) /\ ManifestOf(r)

(* A pipeline is alone, and has written what it has passed.                  *)
PipelineOK(p) ==
    pc[p] \in PipelineSteps =>
        /\ my[p].run \in Runs
        /\ \A q \in Procs \ {p} : pc[q] = "idle"
        /\ pc[p] \in {"open", "write"} =>
              my[p].k <= Len(FlowFiles) /\ \A i \in 1..(my[p].k - 1) : dir[FlowFiles[i]] = my[p].run
        /\ pc[p] \notin {"open", "write"} => dir = FilesOf(my[p].run)
        /\ pc[p] \in {"manifest", "saved"} => Sealed(my[p].manifest, my[p].run)

(* What a writer holds is of the run in the directory.  A commit that is not *)
(* faithful, its manifest read while another writer was rewriting it, comes  *)
(* after that writer's branch and will be refused.                           *)
WriterOK(p) ==
    /\ pc[p] \in Reading => my[p].pr \in Runs /\ dir = FilesOf(my[p].pr)
    /\ pc[p] \in Cleared => my[p].pr \in Ready
    /\ pc[p] \in Identified => my[p].run = my[p].pr /\ my[p].branch = OwnBranch(my[p].pr)
    /\ pc[p] \in {"checks", "identify", "list", "base"} => my[p].k = 1
    /\ pc[p] = "blobs" => \A i \in 1..(my[p].k - 1) : my[p].files[EvidenceFiles[i]] = my[p].pr
    /\ pc[p] = "ref" => Faithful(Commit(p), my[p].pr) \/ Exists(my[p].branch)
    /\ pc[p] \in Pushed => Exists(my[p].branch)
    /\ pc[p] = "pull" => my[p].body = my[p].pr
    /\ pc[p] \in {"bind", "bound"} => Sealed(my[p].manifest, my[p].pr)

(* GitHub holds faithful commits of ready runs, and what is still under way  *)
(* brings nothing else.                                                      *)
BranchesOK == \A b \in Branches : Exists(b) => Faithful(refs[b], b.run)
PullOK(q) ==
    /\ q.branch = OwnBranch(q.branch.run) /\ q.branch.run \in Ready
    /\ Faithful(q.commit, q.branch.run) /\ q.body = q.branch.run /\ Exists(q.branch)
LateOK(q) ==
    /\ q.branch = OwnBranch(q.branch.run) /\ q.branch.run \in Ready
    /\ q.kind = "ref" => Faithful(q.commit, q.branch.run) \/ Exists(q.branch)
    /\ q.kind = "pull" => q.body = q.branch.run /\ Exists(q.branch)

(* Whoever created the branch, its pull request under way, its pull request: *)
(* there is one of these at most.                                            *)
Creates(p) == pc[p] \in {"body", "pull"}
OnceOK ==
    /\ \A p, q \in Procs : Creates(p) /\ Creates(q) /\ my[p].branch = my[q].branch => p = q
    /\ \A s, t \in late : s.kind = "pull" /\ t.kind = "pull" /\ s.branch = t.branch => s = t
    /\ \A s, t \in pulls : s.branch = t.branch => s = t
    /\ \A p \in Procs : Creates(p) =>
          /\ \A s \in late : s.kind = "pull" => s.branch # my[p].branch
          /\ \A t \in pulls : t.branch # my[p].branch
    /\ \A s \in late, t \in pulls : s.kind = "pull" => s.branch # t.branch

IInv ==
    /\ TypeOK
    /\ DirectoryOK
    /\ \A p \in Procs : PipelineOK(p) /\ WriterOK(p)
    /\ BranchesOK
    /\ \A q \in pulls : PullOK(q)
    /\ \A q \in late : LateOK(q)
    /\ OnceOK

-----------------------------------------------------------------------------
(* The files. *)
LEMMA FileNames ==
    /\ Len(EvidenceFiles) = 5 /\ Len(FlowFiles) = 5
    /\ \A i \in 1..5 : EvidenceFiles[i] \in Files /\ FlowFiles[i] \in Files
    /\ \A f \in Files : /\ \E i \in 1..5 : EvidenceFiles[i] = f
                        /\ \E i \in 1..5 : FlowFiles[i] = f
    /\ \A i, j \in 1..5 : EvidenceFiles[i] = EvidenceFiles[j] => i = j
    /\ \A i, j \in 1..5 : FlowFiles[i] = FlowFiles[j] => i = j
    /\ {"github-pr.json", "github-pr.md", "github-pr-checks.json"} \subseteq Files
<1>1. Len(EvidenceFiles) = 5 /\ Len(FlowFiles) = 5 /\ DOMAIN EvidenceFiles = 1..5
  BY DEF EvidenceFiles, FlowFiles
<1>2. Files = {"github-pr.md", "github-pr.json", "github-pr-diff.patch",
               "github-pr-checks.json", "github-review-audit.jsonl"}
  BY <1>1 DEF Files, EvidenceFiles
<1>3. \A i, j \in 1..5 : /\ EvidenceFiles[i] = EvidenceFiles[j] => i = j
                         /\ FlowFiles[i] = FlowFiles[j] => i = j
  BY DEF EvidenceFiles, FlowFiles
<1>4. \A i \in 1..5 : EvidenceFiles[i] \in Files /\ FlowFiles[i] \in Files
  BY <1>2 DEF EvidenceFiles, FlowFiles
<1>5. \A f \in Files : /\ \E i \in 1..5 : EvidenceFiles[i] = f
                       /\ \E i \in 1..5 : FlowFiles[i] = f
  BY <1>2 DEF EvidenceFiles, FlowFiles
<1> QED
  BY <1>1, <1>2, <1>3, <1>4, <1>5

(* A directory that holds one run's files names it, and holds something.     *)
LEMMA OneRun ==
    ASSUME NEW r \in Runs
    PROVE  /\ FilesOf(r) \in FileMaps
           /\ \A f \in Files : FilesOf(r)[f] = r
           /\ \A s : FilesOf(s) = FilesOf(r) => s = r
           /\ FilesOf(r) # NoFiles
  BY FileNames, NothingAssumption DEF FilesOf, FileMaps, Contents, NoFiles

LEMMA EmptyTypes ==
    /\ NoFiles \in FileMaps
    /\ \A run \in Contents : Manifest(run) \in Manifests
    /\ NoCommit \in Commits
    /\ Idle \in Locals
<1>1. NoFiles \in FileMaps /\ NoResult \in Results /\ NoFile \in Contents
  BY DEF NoFiles, FileMaps, Contents, Results
<1>2. \A run \in Contents : Manifest(run) \in Manifests
  BY <1>1 DEF Manifest, Manifests
<1>3. Manifest(NoFile) \in Manifests /\ 0 \in 0..MaxMain /\ 1 \in 1..(Len(EvidenceFiles) + 1)
  BY <1>1, <1>2, BoundAssumption, FileNames
<1>4. NoCommit \in Commits
  BY <1>1, <1>3 DEF NoCommit, Commits
<1>5. Idle \in Locals
  BY <1>1, <1>3 DEF Idle, Locals
<1> QED
  BY <1>1, <1>2, <1>4, <1>5

(* A process that moves on moves alone.                                      *)
LEMMA GoFacts ==
    ASSUME TypeOK, NEW p \in Procs, NEW step \in Places, NEW locals \in Locals,
           Go(p, step, locals)
    PROVE  /\ pc' \in [Procs -> Places] /\ my' \in [Procs -> Locals]
           /\ pc'[p] = step /\ my'[p] = locals
           /\ \A q \in Procs \ {p} : pc'[q] = pc[q] /\ my'[q] = my[q]
  BY DEF TypeOK, Go

LEMMA EndFacts ==
    ASSUME TypeOK, NEW p \in Procs, End(p)
    PROVE  /\ pc' \in [Procs -> Places] /\ my' \in [Procs -> Locals]
           /\ pc'[p] = "idle" /\ my'[p] = Idle
           /\ \A q \in Procs \ {p} : pc'[q] = pc[q] /\ my'[q] = my[q]
  BY EmptyTypes, GoFacts DEF End, Places

-----------------------------------------------------------------------------
(* Frames: what a step leaves alone stays in order. *)

(* A branch that exists stays. *)
Grows == \A b \in Branches : Exists(b) => Exists(b)' /\ refs'[b] = refs[b]

LEMMA BranchTyped ==
    ASSUME NEW r \in Runs
    PROVE  OwnBranch(r) \in Branches /\ OwnBranch(r).run = r
  BY RunsAssumption DEF OwnBranch, BranchFor, Branches

LEMMA OthersKept ==
    ASSUME NEW q, WriterOK(q), pc'[q] = pc[q], my'[q] = my[q], dir' = dir, Grows,
           my[q].branch \in Branches \/ pc[q] \notin Identified
    PROVE  WriterOK(q)'
<1>1. pc[q] = "ref" \/ pc[q] \in Pushed => my[q].branch \in Branches
  BY DEF Identified, Cleared, Reading, Pushed
<1>2. Commit(q)' = Commit(q)
  BY DEF Commit
<1>3. /\ pc[q] = "ref" => Faithful(Commit(q), my[q].pr) \/ Exists(my[q].branch)'
      /\ pc[q] \in Pushed => Exists(my[q].branch)'
  <2>1. ASSUME Exists(my[q].branch), my[q].branch \in Branches
        PROVE  Exists(my[q].branch)'
    <3>1. PICK b \in Branches : b = my[q].branch
      BY <2>1
    <3>2. Exists(b)' /\ my'[q].branch = b
      BY <2>1, <3>1 DEF Grows
    <3> QED
      BY <3>1, <3>2 DEF Exists, BranchIsNew
  <2> QED
    BY <1>1, <2>1 DEF WriterOK
<1> QED
  BY <1>2, <1>3 DEF WriterOK, Sealed

(* What a writer that has read the pull request knows.                       *)
LEMMA WriterFacts ==
    ASSUME IInv, NEW p \in Procs, pc[p] \in Reading
    PROVE  /\ ~PipelineRuns
           /\ my[p] \in Locals /\ my[p].pr \in Runs
           /\ dir = FilesOf(my[p].pr) /\ \A f \in Files : dir[f] = my[p].pr
           /\ ManifestOf(my[p].pr)
           /\ pc[p] \in Identified => /\ my[p].branch = OwnBranch(my[p].pr)
                                      /\ my[p].branch \in Branches
                                      /\ my[p].branch.run = my[p].pr
                                      /\ my[p].run = my[p].pr /\ my[p].pr \in Ready
<1>1. ~PipelineRuns
  BY DEF IInv, PipelineOK, PipelineRuns, PipelineSteps, Reading
<1>2. PICK r \in Runs : r = my[p].pr /\ dir = FilesOf(r)
  BY DEF IInv, WriterOK
<1>3. \A f \in Files : dir[f] = r
  BY <1>2, OneRun
<1>4. ManifestOf(r)
  BY <1>1, <1>2, OneRun DEF IInv, DirectoryOK
<1>5. my[p] \in Locals
  BY DEF IInv, TypeOK
<1>6. OwnBranch(r) \in Branches /\ OwnBranch(r).run = r
  BY BranchTyped
<1>7. pc[p] \in Identified => pc[p] \in Cleared
  BY DEF Identified
<1> QED
  BY <1>1, <1>2, <1>3, <1>4, <1>5, <1>6, <1>7 DEF IInv, WriterOK

LEMMA DirectoryKept ==
    ASSUME DirectoryOK, ~PipelineRuns, UNCHANGED <<dir, manifest>>, Grows
    PROVE  DirectoryOK'
<1>1. CASE dir = NoFiles /\ manifest.run = NoFile
  BY <1>1 DEF DirectoryOK
<1>2. ASSUME NEW r \in Runs, dir = FilesOf(r), ManifestOf(r)
      PROVE  DirectoryOK'
  <2>1. Exists(OwnBranch(r)) => Exists(OwnBranch(r))'
    BY BranchTyped DEF Grows
  <2>2. ManifestOf(r)'
    BY <1>2, <2>1 DEF ManifestOf, Sealed, Exists, BranchIsNew
  <2>3. dir' = FilesOf(r)
    BY <1>2
  <2> QED
    BY <2>2, <2>3 DEF DirectoryOK
<1> QED
  BY <1>1, <1>2 DEF DirectoryOK

LEMMA OnceKept ==
    ASSUME OnceOK, NEW p \in Procs, UNCHANGED <<pulls, late>>,
           \A q \in Procs \ {p} : pc'[q] = pc[q] /\ my'[q] = my[q],
           Creates(p)' => Creates(p) /\ my'[p].branch = my[p].branch
    PROVE  OnceOK'
<1>1. \A q \in Procs : Creates(q)' => Creates(q) /\ my'[q].branch = my[q].branch
  BY DEF Creates
<1> HIDE DEF Creates
<1> QED
  BY <1>1 DEF OnceOK

LEMMA GithubKept ==
    ASSUME IInv, UNCHANGED refs, pulls' = pulls, late' \subseteq late
    PROVE  /\ Grows /\ BranchesOK' /\ \A q \in pulls' : PullOK(q)'
           /\ \A q \in late' : LateOK(q)'
<1>1. Grows
  BY DEF Grows, Exists, BranchIsNew
<1>2. BranchesOK'
  BY DEF IInv, BranchesOK, Exists, BranchIsNew
<1>3. \A q \in pulls' : PullOK(q)'
  BY DEF IInv, PullOK, Exists, BranchIsNew
<1>4. \A q \in late' : LateOK(q)'
  BY DEF IInv, LateOK, Exists, BranchIsNew
<1> QED
  BY <1>1, <1>2, <1>3, <1>4

(* A writer moves on and changes nothing that others see, but perhaps the    *)
(* manifest.                                                                 *)
LEMMA WriterMoves ==
    ASSUME IInv, NEW p \in Procs, NEW step \in Places, NEW locals \in Locals,
           Go(p, step, locals), ~PipelineRuns, step \notin PipelineSteps,
           UNCHANGED <<dir, github, started, stops>>,
           manifest' \in Manifests, resultFile' \in Results,
           DirectoryOK' \/ manifest' = manifest, WriterOK(p)',
           step \in {"body", "pull"} => Creates(p) /\ locals.branch = my[p].branch
    PROVE  IInv'
<1>1. /\ pc' \in [Procs -> Places] /\ my' \in [Procs -> Locals]
      /\ pc'[p] = step /\ my'[p] = locals
      /\ \A q \in Procs \ {p} : pc'[q] = pc[q] /\ my'[q] = my[q]
  BY GoFacts DEF IInv
<1>2. UNCHANGED <<main, refs, pulls, late>>
  BY DEF github
<1>3. /\ Grows /\ BranchesOK' /\ \A q \in pulls' : PullOK(q)'
      /\ \A q \in late' : LateOK(q)'
  BY <1>2, GithubKept
<1>4. TypeOK'
  BY <1>1, <1>2 DEF IInv, TypeOK
<1>5. DirectoryOK'
  BY <1>2, <1>3, DirectoryKept DEF IInv
<1>6. \A q \in Procs : PipelineOK(q)'
  BY <1>1 DEF PipelineOK, PipelineRuns
<1>7. ASSUME NEW q \in Procs
      PROVE  WriterOK(q)'
  <2>1. CASE q = p
    BY <2>1
  <2>2. CASE q # p
    <3>1. my[q].branch \in Branches \/ pc[q] \notin Identified
      BY WriterFacts DEF Identified, Cleared
    <3>2. WriterOK(q) /\ pc'[q] = pc[q] /\ my'[q] = my[q]
      BY <1>1, <2>2 DEF IInv
    <3> QED
      BY <1>3, <3>1, <3>2, OthersKept
  <2> QED
    BY <2>1, <2>2
<1>8. OnceOK'
  <2>1. Creates(p)' => Creates(p) /\ my'[p].branch = my[p].branch
    BY <1>1 DEF Creates
  <2> QED
    BY <1>1, <1>2, <2>1, OnceKept DEF IInv
<1> QED
  BY <1>3, <1>4, <1>5, <1>6, <1>7, <1>8 DEF IInv

(* The end of a process changes nothing else.                                *)
LEMMA WriterEnds ==
    ASSUME IInv, NEW p \in Procs, End(p), pc[p] \notin PipelineSteps \cup {"idle"},
           UNCHANGED <<dir, github, started, stops>>,
           manifest' \in Manifests, resultFile' \in Results,
           DirectoryOK' \/ manifest' = manifest
    PROVE  IInv'
<1>1. ~PipelineRuns
  BY DEF IInv, PipelineOK, PipelineRuns
<1>2. Idle \in Locals /\ "idle" \in Places /\ "idle" \notin PipelineSteps
  BY EmptyTypes DEF Places, PipelineSteps
<1>3. pc'[p] = "idle"
  BY EndFacts DEF IInv
<1>4. WriterOK(p)'
  BY <1>3 DEF WriterOK, Reading, Cleared, Identified, Pushed
<1> QED
  BY <1>1, <1>2, <1>4, WriterMoves DEF End

-----------------------------------------------------------------------------
(* The steps of a writer. *)
LEMMA StartWriteIInv ==
    ASSUME IInv, Quiet, NEW p \in Procs, StartWrite(p)
    PROVE  IInv'
<1>1. Go(p, "plan", Idle) /\ ~PipelineRuns
  BY DEF StartWrite, Quiet
<1>2. Idle \in Locals /\ "plan" \in Places /\ "plan" \notin PipelineSteps
  BY EmptyTypes DEF Places, PipelineSteps
<1>3. pc'[p] = "plan"
  BY <1>1, <1>2, GoFacts DEF IInv
<1>4. WriterOK(p)'
  BY <1>3 DEF WriterOK, Reading, Cleared, Identified, Pushed
<1>5. UNCHANGED <<dir, manifest, resultFile, github, started, stops>>
  BY DEF StartWrite, disk
<1>6. manifest' \in Manifests /\ resultFile' \in Results
  BY <1>5 DEF IInv, TypeOK
<1> QED
  BY <1>1, <1>2, <1>4, <1>5, <1>6, WriterMoves

LEMMA ReadPullRequestIInv ==
    ASSUME IInv, NEW p \in Procs, ReadPullRequest(p)
    PROVE  IInv'
<1>1. pc[p] = "plan" /\ UNCHANGED <<dir, manifest, resultFile, github, started, stops>>
  BY DEF ReadPullRequest, disk
<1>2. manifest' \in Manifests /\ resultFile' \in Results
  BY <1>1 DEF IInv, TypeOK
<1>3. ~PipelineRuns
  BY <1>1 DEF IInv, PipelineOK, PipelineRuns, PipelineSteps
<1>4. CASE End(p)
  BY <1>1, <1>2, <1>4, WriterEnds DEF PipelineSteps
<1>5. CASE ~End(p)
  <2>1. /\ NoFile \notin {dir[f] : f \in Files}
        /\ Go(p, "checks", [Idle EXCEPT !.pr = dir["github-pr.json"]])
    BY <1>5 DEF ReadPullRequest
  <2>2. PICK r \in Runs : dir = FilesOf(r)
    <3>1. "github-pr.json" \in Files
      BY FileNames
    <3>2. dir # NoFiles
      BY <2>1, <3>1 DEF NoFiles
    <3> QED
      BY <1>3, <3>2 DEF IInv, DirectoryOK
  <2>3. dir["github-pr.json"] = r
    BY <2>2, OneRun, FileNames
  <2>4. PICK locals : locals = [Idle EXCEPT !.pr = r]
    OBVIOUS
  <2>5. locals \in Locals /\ locals.pr = r /\ locals.k = 1
    <3>1. r \in Contents /\ Idle \in Locals
      BY EmptyTypes DEF Contents
    <3> QED
      BY <2>4, <3>1 DEF Locals, Idle
  <2>6. Go(p, "checks", locals) /\ "checks" \in Places /\ "checks" \notin PipelineSteps
    BY <2>1, <2>3, <2>4 DEF Places, PipelineSteps
  <2>7. pc'[p] = "checks" /\ my'[p] = locals
    BY <2>5, <2>6, GoFacts DEF IInv
  <2>8. WriterOK(p)'
    BY <1>1, <2>2, <2>5, <2>7 DEF WriterOK, Reading, Cleared, Identified, Pushed
  <2> QED
    BY <1>1, <1>2, <1>3, <2>5, <2>6, <2>8, WriterMoves
<1> QED
  BY <1>4, <1>5

LEMMA ReadChecksIInv ==
    ASSUME IInv, NEW p \in Procs, ReadChecks(p)
    PROVE  IInv'
<1>1. pc[p] = "checks" /\ UNCHANGED <<dir, manifest, resultFile, github, started, stops>>
  BY DEF ReadChecks, disk
<1>2. manifest' \in Manifests /\ resultFile' \in Results
  BY <1>1 DEF IInv, TypeOK
<1>3. ~PipelineRuns /\ my[p] \in Locals /\ my[p].pr \in Runs /\ dir = FilesOf(my[p].pr)
  BY <1>1, WriterFacts DEF Reading
<1>4. CASE End(p)
  BY <1>1, <1>2, <1>4, WriterEnds DEF PipelineSteps
<1>5. CASE ~End(p)
  <2>1. Go(p, "identify", my[p]) /\ my[p].pr \in Ready
    BY <1>5 DEF ReadChecks, Unblocked
  <2>2. "identify" \in Places /\ "identify" \notin PipelineSteps
    BY DEF Places, PipelineSteps
  <2>3. pc'[p] = "identify" /\ my'[p] = my[p]
    BY <1>3, <2>1, <2>2, GoFacts DEF IInv
  <2>4. WriterOK(p)'
    BY <1>1, <1>3, <2>1, <2>3 DEF IInv, WriterOK, Reading, Cleared, Identified, Pushed
  <2> QED
    BY <1>1, <1>2, <1>3, <2>1, <2>2, <2>4, WriterMoves
<1> QED
  BY <1>4, <1>5

LEMMA ReadManifestIInv ==
    ASSUME IInv, NEW p \in Procs, ReadManifest(p)
    PROVE  IInv'
<1>1. pc[p] = "identify" /\ UNCHANGED <<dir, manifest, resultFile, github, started, stops>>
  BY DEF ReadManifest, disk
<1>2. manifest' \in Manifests /\ resultFile' \in Results
  BY <1>1 DEF IInv, TypeOK
<1>3. /\ ~PipelineRuns /\ my[p] \in Locals /\ my[p].pr \in Runs /\ dir = FilesOf(my[p].pr)
      /\ ManifestOf(my[p].pr)
  BY <1>1, WriterFacts DEF Reading
<1>4. my[p].pr \in Ready
  BY <1>1 DEF IInv, WriterOK, Reading, Cleared
<1>5. CASE End(p)
  BY <1>1, <1>2, <1>5, WriterEnds DEF PipelineSteps
<1>6. CASE ~End(p)
  <2>1. /\ manifest.run # Empty
        /\ Go(p, "list", [my[p] EXCEPT !.run = manifest.run,
                                       !.branch = BranchFor(my[p].pr, manifest.run)])
    BY <1>6 DEF ReadManifest
  <2>2. PICK r \in Runs : r = my[p].pr /\ manifest.run = r /\ OwnBranch(r) \in Branches
    BY <1>3, <2>1, BranchTyped DEF ManifestOf, Sealed
  <2>3. PICK locals : locals = [my[p] EXCEPT !.run = r, !.branch = OwnBranch(r)]
    OBVIOUS
  <2>4. locals \in Locals /\ locals.run = r /\ locals.branch = OwnBranch(r) /\ locals.pr = r
        /\ locals.k = 1
    <3>1. r \in Contents \cup {NoRun}
      BY DEF Contents
    <3>2. my[p].k = 1
      BY <1>1 DEF IInv, WriterOK
    <3> QED
      BY <1>3, <2>2, <2>3, <3>1, <3>2 DEF Locals
  <2>5. Go(p, "list", locals) /\ "list" \in Places /\ "list" \notin PipelineSteps
    BY <2>1, <2>2, <2>3 DEF OwnBranch, Places, PipelineSteps
  <2>6. pc'[p] = "list" /\ my'[p] = locals
    BY <2>4, <2>5, GoFacts DEF IInv
  <2>7. WriterOK(p)'
    BY <1>1, <1>3, <1>4, <2>2, <2>4, <2>6 DEF WriterOK, Reading, Cleared, Identified, Pushed
  <2> QED
    BY <1>1, <1>2, <1>3, <2>4, <2>5, <2>7, WriterMoves
<1> QED
  BY <1>5, <1>6

(* A step from a place where the branch is known to another, which keeps the *)
(* run, the pull request read and the branch.                                *)
LEMMA IdentifiedMoves ==
    ASSUME IInv, NEW p \in Procs, NEW step \in Places, NEW locals \in Locals,
           Go(p, step, locals), pc[p] \in Identified, step \in Identified,
           locals.pr = my[p].pr, locals.run = my[p].run, locals.branch = my[p].branch,
           UNCHANGED <<dir, github, started, stops>>,
           manifest' \in Manifests, resultFile' \in Results,
           DirectoryOK' \/ manifest' = manifest,
           step \in {"list", "base"} => locals.k = 1,
           step = "blobs" => \A i \in 1..(locals.k - 1) : locals.files[EvidenceFiles[i]] = my[p].pr,
           step = "ref" => /\ locals.files = FilesOf(my[p].pr)
                           /\ Sealed(locals.manifest, my[p].pr) \/ Exists(my[p].branch),
           step \in Pushed => Exists(my[p].branch),
           step = "pull" => locals.body = my[p].pr,
           step \in {"bind", "bound"} => Sealed(locals.manifest, my[p].pr),
           step \in {"body", "pull"} => Creates(p)
    PROVE  IInv'
<1>1. pc[p] \in Reading /\ step \notin PipelineSteps
  BY DEF Identified, Cleared, PipelineSteps, Reading
<1>2. /\ ~PipelineRuns /\ my[p].pr \in Runs /\ my[p].pr \in Ready /\ dir = FilesOf(my[p].pr)
      /\ my[p].run = my[p].pr /\ my[p].branch = OwnBranch(my[p].pr)
  BY <1>1, WriterFacts
<1>3. pc'[p] = step /\ my'[p] = locals
  BY GoFacts DEF IInv
<1>4. Exists(my[p].branch)' <=> Exists(my[p].branch)
  BY <1>3 DEF Exists, BranchIsNew, github
<1>5. Sealed(my[p].manifest, my[p].pr)' <=> Sealed(locals.manifest, my[p].pr)
  BY <1>3 DEF Sealed
<1>6. step = "ref" => (Faithful(Commit(p), my[p].pr) \/ Exists(my[p].branch))'
  <2>1. ASSUME step = "ref", ~Exists(my[p].branch)
        PROVE  Faithful(Commit(p), my[p].pr)'
    <3>1. /\ locals.files = FilesOf(my[p].pr) /\ locals.run = my[p].pr
          /\ Sealed(locals.manifest, my[p].pr)
      BY <1>2, <2>1
    <3> QED
      BY <1>3, <3>1 DEF Faithful, Commit, Sealed
  <2> QED
    BY <1>4, <2>1
<1>7. WriterOK(p)'
  <2>1. step \in Pushed => Exists(my[p].branch)'
    BY <1>4
  <2>2. step \in {"bind", "bound"} => Sealed(my[p].manifest, my[p].pr)'
    BY <1>5
  <2>3. step \notin {"checks", "identify"}
    BY DEF Identified, Cleared
  <2> QED
    BY <1>2, <1>3, <1>6, <2>1, <2>2, <2>3 DEF WriterOK
<1> QED
  BY <1>1, <1>2, <1>7, WriterMoves

(* The places of a writer after the first three, one of another.             *)
LEMMA Walk ==
    /\ {"list", "base", "blobs", "ref", "body", "pull", "result", "reread", "bind", "bound"}
         = Identified
    /\ Identified \subseteq Reading /\ Identified \subseteq Places
    /\ Identified \cap (PipelineSteps \cup {"idle"}) = {}
  BY DEF Identified, Cleared, Reading, Places, PipelineSteps

LEMMA FindPullIInv ==
    ASSUME IInv, NEW p \in Procs, FindPull(p)
    PROVE  IInv'
<1>1. pc[p] = "list" /\ UNCHANGED <<dir, manifest, resultFile, github, started, stops>>
  BY DEF FindPull, disk
<1>2. manifest' \in Manifests /\ resultFile' \in Results
  BY <1>1 DEF IInv, TypeOK
<1>3. pc[p] \in Identified /\ {"base", "result"} \subseteq Identified \cap Places
  BY <1>1, Walk
<1>4. my[p] \in Locals /\ my[p].k = 1
  BY <1>1 DEF IInv, TypeOK, WriterOK
<1>5. CASE Go(p, "base", my[p])
  BY <1>1, <1>2, <1>3, <1>4, <1>5, IdentifiedMoves DEF Pushed
<1>6. CASE ~Go(p, "base", my[p])
  <2>1. PICK q \in pulls :
          /\ q.branch = my[p].branch
          /\ Go(p, "result", [my[p] EXCEPT !.result = Result(p, q, TRUE)])
    BY <1>6 DEF FindPull, OpenPulls
  <2>2. q.number \in Nat /\ Exists(my[p].branch)
    BY <2>1 DEF IInv, TypeOK, Pulls, PullOK
  <2>3. Result(p, q, TRUE) \in Results
    <3>1. my[p].run \in Contents
      BY <1>1, <1>3, Walk, WriterFacts DEF Contents
    <3> QED
      BY <2>2, <3>1 DEF Result, Results
  <2>4. PICK locals : locals = [my[p] EXCEPT !.result = Result(p, q, TRUE)]
    OBVIOUS
  <2>5. /\ locals \in Locals /\ locals.pr = my[p].pr /\ locals.run = my[p].run
        /\ locals.branch = my[p].branch
    BY <1>4, <2>3, <2>4 DEF Locals
  <2>6. Go(p, "result", locals)
    BY <2>1, <2>4
  <2> QED
    BY <1>1, <1>2, <1>3, <2>2, <2>5, <2>6, IdentifiedMoves
<1> QED
  BY <1>5, <1>6

LEMMA GetBaseIInv ==
    ASSUME IInv, NEW p \in Procs, GetBase(p)
    PROVE  IInv'
<1>1. pc[p] = "base" /\ UNCHANGED <<dir, manifest, resultFile, github, started, stops>>
  BY DEF GetBase, disk
<1>2. manifest' \in Manifests /\ resultFile' \in Results
  BY <1>1 DEF IInv, TypeOK
<1>3. pc[p] \in Identified /\ "blobs" \in Identified \cap Places
  BY <1>1, Walk
<1>4. my[p] \in Locals /\ main \in 0..MaxMain
  BY DEF IInv, TypeOK
<1>5. PICK locals : locals = [my[p] EXCEPT !.base = main]
  OBVIOUS
<1>6. /\ locals \in Locals /\ locals.pr = my[p].pr /\ locals.run = my[p].run
      /\ locals.branch = my[p].branch /\ locals.k = my[p].k
  BY <1>4, <1>5 DEF Locals
<1>7. locals.k = 1
  BY <1>1, <1>6 DEF IInv, WriterOK
<1>8. Go(p, "blobs", locals)
  BY <1>5 DEF GetBase
<1> QED
  BY <1>1, <1>2, <1>3, <1>6, <1>7, <1>8, IdentifiedMoves DEF Pushed

LEMMA PostBlobIInv ==
    ASSUME IInv, NEW p \in Procs, PostBlob(p)
    PROVE  IInv'
<1>1. pc[p] = "blobs" /\ UNCHANGED <<dir, manifest, resultFile, github, started, stops>>
  BY DEF PostBlob, disk
<1>2. manifest' \in Manifests /\ resultFile' \in Results /\ manifest \in Manifests
  BY <1>1 DEF IInv, TypeOK
<1>3. pc[p] \in Identified /\ {"blobs", "ref"} \subseteq Identified \cap Places
  BY <1>1, Walk
<1>4. /\ my[p] \in Locals /\ my[p].pr \in Runs /\ ManifestOf(my[p].pr)
      /\ my[p].branch = OwnBranch(my[p].pr) /\ \A f \in Files : dir[f] = my[p].pr
  BY <1>3, Walk, WriterFacts
<1>5. \A i \in 1..(my[p].k - 1) : my[p].files[EvidenceFiles[i]] = my[p].pr
  BY <1>1 DEF IInv, WriterOK
<1>6. my[p].k \in 1..6 /\ my[p].files \in FileMaps
  BY <1>4, FileNames DEF Locals
<1>7. CASE my[p].k <= 5
  <2>1. PICK k \in 1..5 : k = my[p].k
    BY <1>6, <1>7
  <2>2. PICK f \in Files : f = EvidenceFiles[k] /\ dir[f] = my[p].pr
    BY <1>4, FileNames
  <2>3. PICK locals : locals = [my[p] EXCEPT !.k = k + 1, !.files[f] = dir[f]]
    OBVIOUS
  <2>4. /\ locals \in Locals /\ locals.pr = my[p].pr /\ locals.run = my[p].run
        /\ locals.branch = my[p].branch /\ locals.k = k + 1
        /\ locals.files = [my[p].files EXCEPT ![f] = dir[f]]
    <3>1. dir[f] \in Contents /\ k + 1 \in 1..(Len(EvidenceFiles) + 1)
      BY <1>4, <2>2, FileNames DEF Contents
    <3>2. [my[p].files EXCEPT ![f] = dir[f]] \in FileMaps
      BY <1>6, <2>2, <3>1 DEF FileMaps
    <3> QED
      BY <1>4, <2>3, <3>1, <3>2 DEF Locals
  <2>5. ASSUME NEW i \in 1..(locals.k - 1)
        PROVE  locals.files[EvidenceFiles[i]] = my[p].pr
    <3>1. i \in 1..5 /\ EvidenceFiles[i] \in Files
      BY <2>4, FileNames
    <3>2. CASE i = k
      BY <1>6, <2>2, <2>4, <3>2 DEF FileMaps
    <3>3. CASE i # k
      <4>1. EvidenceFiles[i] # f /\ my[p].files[EvidenceFiles[i]] = my[p].pr
        BY <1>5, <2>1, <2>2, <2>4, <3>1, <3>3, FileNames
      <4> QED
        BY <1>6, <2>4, <3>1, <4>1 DEF FileMaps
    <3> QED
      BY <3>2, <3>3
  <2>6. Go(p, "blobs", locals)
    BY <2>1, <2>2, <2>3, FileNames DEF PostBlob
  <2> QED
    BY <1>1, <1>2, <1>3, <2>4, <2>5, <2>6, IdentifiedMoves DEF Pushed
<1>8. CASE my[p].k = 6
  <2>1. PICK locals : locals = [my[p] EXCEPT !.k = 1, !.manifest = manifest]
    OBVIOUS
  <2>2. /\ locals \in Locals /\ locals.pr = my[p].pr /\ locals.run = my[p].run
        /\ locals.branch = my[p].branch /\ locals.files = my[p].files
        /\ locals.manifest = manifest
    <3>1. 1 \in 1..(Len(EvidenceFiles) + 1)
      BY FileNames
    <3> QED
      BY <1>2, <1>4, <2>1, <3>1 DEF Locals
  <2>3. locals.files = FilesOf(my[p].pr)
    <3>1. \A f \in Files : my[p].files[f] = my[p].pr
      BY <1>5, <1>8, FileNames
    <3> QED
      BY <1>6, <2>2, <3>1 DEF FilesOf, FileMaps
  <2>4. Sealed(locals.manifest, my[p].pr) \/ Exists(my[p].branch)
    BY <1>4, <2>2 DEF ManifestOf
  <2>5. Go(p, "ref", locals)
    BY <1>8, <2>1, FileNames DEF PostBlob
  <2> QED
    BY <1>1, <1>2, <1>3, <2>2, <2>3, <2>4, <2>5, IdentifiedMoves DEF Pushed
<1> QED
  BY <1>6, <1>7, <1>8

LEMMA ReadBodyIInv ==
    ASSUME IInv, NEW p \in Procs, ReadBody(p)
    PROVE  IInv'
<1>1. pc[p] = "body" /\ UNCHANGED <<dir, manifest, resultFile, github, started, stops>>
  BY DEF ReadBody, disk
<1>2. manifest' \in Manifests /\ resultFile' \in Results
  BY <1>1 DEF IInv, TypeOK
<1>3. pc[p] \in Identified /\ "pull" \in Identified \cap Places
  BY <1>1, Walk
<1>4. CASE End(p)
  BY <1>1, <1>2, <1>3, <1>4, Walk, WriterEnds
<1>5. CASE ~End(p)
  <2>1. Go(p, "pull", [my[p] EXCEPT !.body = dir["github-pr.md"]])
    BY <1>5 DEF ReadBody
  <2>2. /\ my[p] \in Locals /\ my[p].pr \in Runs /\ dir["github-pr.md"] = my[p].pr
        /\ Exists(my[p].branch)
    BY <1>1, <1>3, Walk, WriterFacts, FileNames DEF IInv, WriterOK, Pushed
  <2>3. PICK locals : locals = [my[p] EXCEPT !.body = my[p].pr]
    OBVIOUS
  <2>4. /\ locals \in Locals /\ locals.pr = my[p].pr /\ locals.run = my[p].run
        /\ locals.branch = my[p].branch /\ locals.body = my[p].pr
    BY <2>2, <2>3 DEF Locals
  <2>5. Go(p, "pull", locals) /\ Creates(p)
    BY <1>1, <2>1, <2>2, <2>3 DEF Creates
  <2> QED
    BY <1>1, <1>2, <1>3, <2>2, <2>4, <2>5, IdentifiedMoves
<1> QED
  BY <1>4, <1>5

LEMMA WriteResultIInv ==
    ASSUME IInv, NEW p \in Procs, WriteResult(p)
    PROVE  IInv'
<1>1. pc[p] = "result" /\ UNCHANGED <<dir, manifest, github, started, stops>>
  BY DEF WriteResult
<1>2. my[p] \in Locals /\ Exists(my[p].branch)
  BY <1>1 DEF IInv, TypeOK, WriterOK, Pushed
<1>3. manifest' \in Manifests /\ resultFile' \in Results
  BY <1>1, <1>2 DEF IInv, TypeOK, WriteResult, Locals
<1>4. pc[p] \in Identified /\ "reread" \in Identified \cap Places
  BY <1>1, Walk
<1>5. Go(p, "reread", my[p])
  BY DEF WriteResult
<1> QED
  BY <1>1, <1>2, <1>3, <1>4, <1>5, IdentifiedMoves

LEMMA RereadManifestIInv ==
    ASSUME IInv, NEW p \in Procs, RereadManifest(p)
    PROVE  IInv'
<1>1. pc[p] = "reread" /\ UNCHANGED <<dir, manifest, resultFile, github, started, stops>>
  BY DEF RereadManifest, disk
<1>2. manifest' \in Manifests /\ resultFile' \in Results /\ manifest \in Manifests
  BY <1>1 DEF IInv, TypeOK
<1>3. pc[p] \in Identified /\ "bind" \in Identified \cap Places
  BY <1>1, Walk
<1>4. CASE End(p)
  BY <1>1, <1>2, <1>3, <1>4, Walk, WriterEnds
<1>5. CASE ~End(p)
  <2>1. PICK m : m = [manifest EXCEPT !.result = my[p].result, !.resultDigest = resultFile]
    OBVIOUS
  <2>2. manifest.run # Empty /\ Go(p, "bind", [my[p] EXCEPT !.manifest = m])
    BY <1>5, <2>1 DEF RereadManifest
  <2>3. my[p] \in Locals /\ my[p].pr \in Runs /\ Sealed(manifest, my[p].pr)
    BY <1>3, <2>2, Walk, WriterFacts DEF ManifestOf
  <2>4. m \in Manifests /\ Sealed(m, my[p].pr)
    <3>1. my[p].result \in Results /\ resultFile \in Results
      BY <2>3 DEF IInv, TypeOK, Locals
    <3> QED
      BY <1>2, <2>1, <2>3, <3>1 DEF Manifests, Sealed
  <2>5. PICK locals : locals = [my[p] EXCEPT !.manifest = m]
    OBVIOUS
  <2>6. /\ locals \in Locals /\ locals.pr = my[p].pr /\ locals.run = my[p].run
        /\ locals.branch = my[p].branch /\ locals.manifest = m
    BY <2>3, <2>4, <2>5 DEF Locals
  <2>7. Exists(my[p].branch)
    BY <1>1 DEF IInv, WriterOK, Pushed
  <2>8. Go(p, "bind", locals)
    BY <2>2, <2>5
  <2> QED
    BY <1>1, <1>2, <1>3, <2>4, <2>6, <2>7, <2>8, IdentifiedMoves
<1> QED
  BY <1>4, <1>5

LEMMA UnbindManifestIInv ==
    ASSUME IInv, NEW p \in Procs, pc[p] = "bind", OpenManifest(p)
    PROVE  IInv'
<1>1. UNCHANGED <<dir, resultFile, github, started, stops>>
  BY DEF OpenManifest
<1>2. pc[p] \in Identified /\ "bound" \in Identified \cap Places
  BY Walk
<1>3. /\ my[p] \in Locals /\ my[p].pr \in Runs /\ dir = FilesOf(my[p].pr)
      /\ my[p].branch = OwnBranch(my[p].pr)
  BY <1>2, Walk, WriterFacts
<1>4. Exists(my[p].branch) /\ Sealed(my[p].manifest, my[p].pr)
  BY DEF IInv, WriterOK, Pushed
<1>5. manifest' = Manifest(Empty) /\ Manifest(Empty) \in Manifests /\ Manifest(Empty).run = Empty
  BY EmptyTypes DEF OpenManifest, Contents, Manifest
<1>6. DirectoryOK'
  <2>1. PICK r \in Runs : r = my[p].pr
    BY <1>3
  <2>2. Exists(OwnBranch(r))' /\ manifest'.run = Empty
    BY <1>1, <1>3, <1>4, <1>5, <2>1 DEF Exists, BranchIsNew, github
  <2>3. ManifestOf(r)'
    BY <2>2 DEF ManifestOf
  <2>4. dir' = FilesOf(r)
    BY <1>1, <1>3, <2>1
  <2> QED
    BY <2>3, <2>4 DEF DirectoryOK
<1>7. Go(p, "bound", my[p])
  BY DEF OpenManifest
<1>8. resultFile' \in Results
  BY <1>1 DEF IInv, TypeOK
<1> QED
  BY <1>1, <1>2, <1>3, <1>4, <1>5, <1>6, <1>7, <1>8, IdentifiedMoves

LEMMA BindManifestIInv ==
    ASSUME IInv, NEW p \in Procs, BindManifest(p)
    PROVE  IInv'
<1>1. pc[p] = "bound" /\ UNCHANGED <<dir, resultFile, github, started, stops>> /\ End(p)
  BY DEF BindManifest
<1>2. pc[p] \in Identified
  BY <1>1, Walk
<1>3. /\ my[p] \in Locals /\ my[p].pr \in Runs /\ dir = FilesOf(my[p].pr)
  BY <1>2, Walk, WriterFacts
<1>4. Sealed(my[p].manifest, my[p].pr) /\ manifest' = my[p].manifest
  BY <1>1 DEF IInv, WriterOK, BindManifest
<1>5. manifest' \in Manifests /\ resultFile' \in Results
  BY <1>1, <1>3, <1>4 DEF IInv, TypeOK, Locals
<1>6. DirectoryOK'
  <2>1. PICK r \in Runs : r = my[p].pr
    BY <1>3
  <2>2. ManifestOf(r)'
    BY <1>4, <2>1 DEF ManifestOf, Sealed
  <2>3. dir' = FilesOf(r)
    BY <1>1, <1>3, <2>1
  <2> QED
    BY <2>2, <2>3 DEF DirectoryOK
<1> QED
  BY <1>1, <1>2, <1>5, <1>6, Walk, WriterEnds

-----------------------------------------------------------------------------
(* What a process or GitHub changes there. *)

(* What is well as long as branches stay.                                    *)
LEMMA Growing ==
    ASSUME IInv, Grows
    PROVE  /\ \A q \in pulls : PullOK(q)'
           /\ \A q \in late : LateOK(q)'
<1>1. ASSUME NEW b \in Branches, Exists(b)
      PROVE  Exists(b)'
  BY <1>1 DEF Grows
<1>2. ASSUME NEW q \in pulls
      PROVE  PullOK(q)'
  <2>1. q.branch \in Branches /\ PullOK(q)
    BY DEF IInv, TypeOK, Pulls
  <2>2. Exists(q.branch)'
    BY <1>1, <2>1 DEF PullOK
  <2> QED
    BY <2>1, <2>2 DEF PullOK
<1>3. ASSUME NEW q \in late
      PROVE  LateOK(q)'
  <2>1. q.branch \in Branches /\ LateOK(q)
    BY DEF IInv, TypeOK, Requests
  <2>2. Exists(q.branch) => Exists(q.branch)'
    BY <1>1, <2>1
  <2> QED
    BY <2>1, <2>2 DEF LateOK
<1> QED
  BY <1>2, <1>3

LEMMA NewBranch ==
    ASSUME IInv, NEW b \in Branches, NEW c \in Commits, BranchIsNew(b), Faithful(c, b.run),
           refs' = [refs EXCEPT ![b] = c]
    PROVE  refs' \in [Branches -> Commits] /\ Grows /\ BranchesOK' /\ Exists(b)'
<1>1. refs \in [Branches -> Commits]
  BY DEF IInv, TypeOK
<1>2. c # NoCommit
  BY NothingAssumption DEF Faithful, NoCommit, Branches
<1>3. Exists(b)' /\ Faithful(refs'[b], b.run)
  BY <1>1, <1>2 DEF Exists, BranchIsNew
<1>4. \A d \in Branches \ {b} : refs'[d] = refs[d]
  BY <1>1
<1>5. Grows
  BY <1>3, <1>4 DEF Grows, Exists, BranchIsNew
<1>6. ASSUME NEW d \in Branches, Exists(d)'
      PROVE  Faithful(refs'[d], d.run)
  <2>1. CASE d = b
    BY <1>3, <2>1
  <2>2. CASE d # b
    BY <1>4, <1>6, <2>2 DEF IInv, BranchesOK, Exists, BranchIsNew
  <2> QED
    BY <2>1, <2>2
<1> QED
  BY <1>1, <1>3, <1>5, <1>6 DEF BranchesOK

LEMMA NewPullFacts ==
    ASSUME IInv, NEW b \in Branches, Exists(b), b.run \in Ready, b = OwnBranch(b.run),
           UNCHANGED refs, pulls' = pulls \cup {NewPull(b, b.run)}
    PROVE  /\ pulls' \subseteq Pulls /\ IsFiniteSet(pulls') /\ \A q \in pulls' : PullOK(q)'
           /\ NewPull(b, b.run).branch = b
<1>1. PICK q : q = NewPull(b, b.run)
  OBVIOUS
<1>2. Cardinality(pulls) + 1 \in Nat /\ IsFiniteSet(pulls')
  BY FS_CardinalityType, FS_AddElement DEF IInv, TypeOK
<1>3. refs[b] \in Commits /\ Faithful(refs[b], b.run) /\ b.run \in Contents
  BY RunsAssumption DEF IInv, TypeOK, BranchesOK, Contents
<1>4. q \in Pulls /\ q.branch = b
  BY <1>1, <1>2, <1>3 DEF NewPull, Pulls
<1>5. PullOK(q)'
  BY <1>1, <1>3, <1>4 DEF PullOK, NewPull, Exists, BranchIsNew
<1>6. \A t \in pulls : PullOK(t)'
  BY Growing DEF Grows, Exists, BranchIsNew
<1> QED
  BY <1>1, <1>2, <1>4, <1>5, <1>6 DEF IInv, TypeOK

(* A process that does not run a pipeline moves on, GitHub stays well.       *)
LEMMA ProcessMoves ==
    ASSUME IInv, NEW p \in Procs, NEW step \in Places, NEW locals \in Locals,
           Go(p, step, locals), ~PipelineRuns, step \notin PipelineSteps,
           UNCHANGED <<disk, main, started>>, stops' \in 0..MaxStops,
           refs' \in [Branches -> Commits], pulls' \subseteq Pulls, IsFiniteSet(pulls'),
           late' \subseteq Requests,
           Grows, BranchesOK', \A q \in pulls' : PullOK(q)', \A q \in late' : LateOK(q)',
           WriterOK(p)', OnceOK'
    PROVE  IInv'
<1>1. /\ pc' \in [Procs -> Places] /\ my' \in [Procs -> Locals]
      /\ pc'[p] = step /\ my'[p] = locals
      /\ \A q \in Procs \ {p} : pc'[q] = pc[q] /\ my'[q] = my[q]
  BY GoFacts DEF IInv
<1>2. UNCHANGED <<dir, manifest, resultFile>>
  BY DEF disk
<1>3. TypeOK'
  BY <1>1, <1>2 DEF IInv, TypeOK
<1>4. DirectoryOK'
  BY <1>2, DirectoryKept DEF IInv
<1>5. \A q \in Procs : PipelineOK(q)'
  BY <1>1 DEF PipelineOK, PipelineRuns
<1>6. ASSUME NEW q \in Procs
      PROVE  WriterOK(q)'
  <2>1. CASE q = p
    BY <2>1
  <2>2. CASE q # p
    <3>1. my[q].branch \in Branches \/ pc[q] \notin Identified
      BY WriterFacts DEF Identified, Cleared
    <3>2. WriterOK(q) /\ pc'[q] = pc[q] /\ my'[q] = my[q]
      BY <1>1, <2>2 DEF IInv
    <3> QED
      BY <1>2, <3>1, <3>2, OthersKept
  <2> QED
    BY <2>1, <2>2
<1> QED
  BY <1>3, <1>4, <1>5, <1>6 DEF IInv

(* No process moves, GitHub stays well.                                      *)
LEMMA EnvironmentMoves ==
    ASSUME IInv, UNCHANGED <<disk, started, pc, my, stops>>, main' \in 0..MaxMain,
           refs' \in [Branches -> Commits], pulls' \subseteq Pulls, IsFiniteSet(pulls'),
           late' \subseteq Requests,
           Grows, BranchesOK', \A q \in pulls' : PullOK(q)', \A q \in late' : LateOK(q)',
           OnceOK'
    PROVE  IInv'
<1>1. UNCHANGED <<dir, manifest, resultFile>>
  BY DEF disk
<1>2. TypeOK'
  BY <1>1 DEF IInv, TypeOK
<1>3. DirectoryOK'
  <2>1. CASE PipelineRuns
    BY <2>1 DEF DirectoryOK, PipelineRuns
  <2>2. CASE ~PipelineRuns
    BY <1>1, <2>2, DirectoryKept DEF IInv
  <2> QED
    BY <2>1, <2>2
<1>4. \A q \in Procs : PipelineOK(q)'
  BY <1>1 DEF IInv, PipelineOK, Sealed
<1>5. ASSUME NEW q \in Procs
      PROVE  WriterOK(q)'
  <2>1. my[q].branch \in Branches \/ pc[q] \notin Identified
    BY WriterFacts DEF Identified, Cleared
  <2>2. WriterOK(q)
    BY DEF IInv
  <2> QED
    BY <1>1, <2>1, <2>2, OthersKept
<1> QED
  BY <1>2, <1>3, <1>4, <1>5 DEF IInv

LEMMA PostRefIInv ==
    ASSUME IInv, NEW p \in Procs, PostRef(p)
    PROVE  IInv'
<1>1. pc[p] = "ref" /\ pc[p] \in Identified /\ UNCHANGED <<disk, main, pulls, late, started, stops>>
  BY Walk DEF PostRef
<1>2. /\ ~PipelineRuns /\ my[p] \in Locals /\ my[p].pr \in Runs /\ dir = FilesOf(my[p].pr)
      /\ my[p].branch = OwnBranch(my[p].pr) /\ my[p].branch \in Branches
      /\ my[p].branch.run = my[p].pr /\ my[p].run = my[p].pr /\ my[p].pr \in Ready
  BY <1>1, Walk, WriterFacts
<1>3. CASE BranchIsNew(my[p].branch)
  <2>1. PICK c \in Commits : c = Commit(p)
    BY <1>2 DEF Commit, Commits, Locals
  <2>2. PICK b \in Branches : b = my[p].branch
    BY <1>2
  <2>3. Faithful(c, b.run)
    BY <1>1, <1>2, <1>3, <2>1, <2>2 DEF IInv, WriterOK, Exists
  <2>4. refs' = [refs EXCEPT ![b] = c] /\ Go(p, "body", my[p])
    BY <1>3, <2>1, <2>2 DEF PostRef
  <2>5. refs' \in [Branches -> Commits] /\ Grows /\ BranchesOK' /\ Exists(b)'
    BY <1>3, <2>2, <2>3, <2>4, NewBranch
  <2>6. /\ "body" \in Places /\ "body" \notin PipelineSteps
        /\ "body" \in Identified /\ "body" \in Reading /\ "body" \in Pushed
    BY Walk DEF Pushed
  <2>7. /\ pc'[p] = "body" /\ my'[p] = my[p]
        /\ \A q \in Procs \ {p} : pc'[q] = pc[q] /\ my'[q] = my[q]
    BY <1>2, <2>4, <2>6, GoFacts DEF IInv
  <2>8. WriterOK(p)'
    <3>1. Exists(my[p].branch)'
      BY <2>2, <2>5, <2>7 DEF Exists, BranchIsNew
    <3> QED
      BY <1>1, <1>2, <2>7, <3>1 DEF WriterOK, disk
  <2>9. OnceOK'
    <3>1. ASSUME NEW q \in Procs, Creates(q)
          PROVE  my[q].branch # b
      <4>1. Exists(my[q].branch)
        BY <3>1 DEF IInv, WriterOK, Creates, Pushed
      <4> QED
        BY <1>3, <2>2, <4>1 DEF Exists
    <3>2. /\ \A s \in late : s.kind = "pull" => s.branch # b
          /\ \A t \in pulls : t.branch # b
      BY <1>3, <2>2 DEF IInv, LateOK, PullOK, Exists
    <3>3. \A q \in Procs : Creates(q)' => \/ q = p /\ my'[q].branch = b
                                          \/ Creates(q) /\ my'[q].branch = my[q].branch
      BY <2>2, <2>7 DEF Creates
    <3> HIDE DEF Creates
    <3> QED
      BY <1>1, <3>1, <3>2, <3>3 DEF IInv, OnceOK
  <2>10. \A q \in pulls' : PullOK(q)'
    BY <1>1, <2>5, Growing
  <2>11. \A q \in late' : LateOK(q)'
    BY <1>1, <2>5, Growing
  <2>12. stops' \in 0..MaxStops /\ pulls' \subseteq Pulls /\ IsFiniteSet(pulls') /\ late' \subseteq Requests
    BY <1>1 DEF IInv, TypeOK
  <2>13. UNCHANGED <<disk, main, started>>
    BY <1>1
  <2> QED
    BY <1>2, <2>4, <2>5, <2>6, <2>8, <2>9, <2>10, <2>11, <2>12, <2>13, ProcessMoves
<1>4. CASE ~BranchIsNew(my[p].branch)
  <2>1. End(p) /\ UNCHANGED <<dir, manifest, resultFile, github, started, stops>>
    BY <1>1, <1>4 DEF PostRef, disk, github
  <2>2. manifest' \in Manifests /\ resultFile' \in Results
    BY <2>1 DEF IInv, TypeOK
  <2> QED
    BY <1>1, <2>1, <2>2, Walk, WriterEnds
<1> QED
  BY <1>3, <1>4

LEMMA PostPullIInv ==
    ASSUME IInv, NEW p \in Procs, PostPull(p)
    PROVE  IInv'
<1>1. /\ pc[p] = "pull" /\ pc[p] \in Identified /\ pc[p] \in Pushed
      /\ UNCHANGED <<disk, main, refs, late, started, stops>>
  BY Walk DEF PostPull, Pushed
<1>2. /\ ~PipelineRuns /\ my[p] \in Locals /\ my[p].pr \in Runs /\ dir = FilesOf(my[p].pr)
      /\ my[p].branch = OwnBranch(my[p].pr) /\ my[p].branch \in Branches
      /\ my[p].branch.run = my[p].pr /\ my[p].run = my[p].pr /\ my[p].pr \in Ready
  BY <1>1, Walk, WriterFacts
<1>3. Exists(my[p].branch) /\ my[p].body = my[p].pr
  BY <1>1 DEF IInv, WriterOK
<1>4. CASE PullIsNew(my[p].branch)
  <2>1. PICK b \in Branches : b = my[p].branch
    BY <1>2
  <2>2. PICK n : n = NewPull(b, b.run)
    OBVIOUS
  <2>3. /\ pulls' = pulls \cup {n}
        /\ Go(p, "result", [my[p] EXCEPT !.result = Result(p, n, FALSE)])
    BY <1>2, <1>3, <1>4, <2>1, <2>2 DEF PostPull
  <2>4. /\ pulls' \subseteq Pulls /\ IsFiniteSet(pulls') /\ \A q \in pulls' : PullOK(q)'
        /\ n.branch = b
    BY <1>1, <1>2, <1>3, <2>1, <2>2, <2>3, NewPullFacts
  <2>5. PICK locals : locals = [my[p] EXCEPT !.result = Result(p, n, FALSE)]
    OBVIOUS
  <2>6. /\ locals \in Locals /\ locals.pr = my[p].pr /\ locals.run = my[p].run
        /\ locals.branch = my[p].branch
    <3>1. n.number \in Nat /\ my[p].run \in Contents
      BY <1>2, <2>3, <2>4 DEF Pulls, Contents
    <3>2. Result(p, n, FALSE) \in Results
      BY <3>1 DEF Result, Results
    <3> QED
      BY <1>2, <2>5, <3>2 DEF Locals
  <2>7. "result" \in Places /\ "result" \notin PipelineSteps /\ Go(p, "result", locals)
    BY <2>3, <2>5, Walk
  <2>8. /\ pc'[p] = "result" /\ my'[p] = locals
        /\ \A q \in Procs \ {p} : pc'[q] = pc[q] /\ my'[q] = my[q]
    BY <2>6, <2>7, GoFacts DEF IInv
  <2>9. WriterOK(p)'
    <3>1. Exists(my[p].branch)'
      BY <1>1, <1>3, <2>6, <2>8 DEF Exists, BranchIsNew
    <3> QED
      BY <1>1, <1>2, <2>6, <2>8, <3>1 DEF WriterOK, disk
  <2>10. OnceOK'
    <3>1. Creates(p) /\ ~Creates(p)'
      BY <1>1, <2>8 DEF Creates
    <3>2. \A q \in Procs : Creates(q)' => q # p /\ Creates(q) /\ my'[q].branch = my[q].branch
      BY <2>8, <3>1 DEF Creates
    <3> HIDE DEF Creates
    <3>3. /\ \A t \in pulls : t.branch # b
          /\ \A s \in late : s.kind = "pull" => s.branch # b
          /\ \A q \in Procs : Creates(q)' => my'[q].branch # b
      BY <2>1, <3>1, <3>2 DEF IInv, OnceOK
    <3> QED
      BY <1>1, <2>3, <2>4, <3>2, <3>3 DEF IInv, OnceOK
  <2>11. Grows /\ BranchesOK' /\ \A q \in late' : LateOK(q)'
    <3>1. Grows /\ BranchesOK'
      BY <1>1 DEF IInv, Grows, BranchesOK, Exists, BranchIsNew
    <3> QED
      BY <1>1, <3>1, Growing
  <2>12. stops' \in 0..MaxStops /\ refs' \in [Branches -> Commits] /\ late' \subseteq Requests
    BY <1>1 DEF IInv, TypeOK
  <2>13. UNCHANGED <<disk, main, started>>
    BY <1>1
  <2> QED
    BY <1>2, <2>4, <2>6, <2>7, <2>9, <2>10, <2>11, <2>12, <2>13, ProcessMoves
<1>5. CASE ~PullIsNew(my[p].branch)
  <2>1. End(p) /\ UNCHANGED <<dir, manifest, resultFile, github, started, stops>>
    BY <1>1, <1>5 DEF PostPull, disk, github
  <2>2. manifest' \in Manifests /\ resultFile' \in Results
    BY <2>1 DEF IInv, TypeOK
  <2> QED
    BY <1>1, <2>1, <2>2, Walk, WriterEnds
<1> QED
  BY <1>4, <1>5

(* A request given up brings what its sender would have.                     *)
LEMMA SentFacts ==
    ASSUME IInv, NEW p \in Procs, NEW s \in Sent(p)
    PROVE  /\ s \in Requests /\ LateOK(s)
           /\ s.kind = "pull" => Creates(p) /\ s.branch = my[p].branch
           /\ \A t \in Sent(p) : t = s
<1>1. pc[p] \in {"ref", "pull"} /\ pc[p] \in Identified /\ pc[p] \in Reading
  BY Walk DEF Sent
<1>2. /\ my[p] \in Locals /\ my[p].pr \in Runs
      /\ my[p].branch = OwnBranch(my[p].pr) /\ my[p].branch \in Branches
      /\ my[p].branch.run = my[p].pr /\ my[p].run = my[p].pr /\ my[p].pr \in Ready
  BY <1>1, WriterFacts
<1>3. CASE pc[p] = "ref"
  <2>1. Sent(p) = {[kind |-> "ref", branch |-> my[p].branch,
                    commit |-> Commit(p), body |-> NoFile]}
    BY <1>3 DEF Sent
  <2>2. Commit(p) \in Commits /\ NoFile \in Contents
    BY <1>2 DEF Commit, Commits, Locals, Contents
  <2>3. s \in Requests /\ s.kind = "ref" /\ s.branch = my[p].branch /\ s.commit = Commit(p)
    BY <1>2, <2>1, <2>2 DEF Requests
  <2>4. Faithful(Commit(p), my[p].pr) \/ Exists(my[p].branch)
    BY <1>3 DEF IInv, WriterOK
  <2>5. LateOK(s)
    BY <1>2, <2>3, <2>4 DEF LateOK
  <2> QED
    BY <2>1, <2>3, <2>5
<1>4. CASE pc[p] = "pull"
  <2>1. Sent(p) = {[kind |-> "pull", branch |-> my[p].branch,
                    commit |-> NoCommit, body |-> my[p].body]}
    BY <1>4 DEF Sent
  <2>2. Exists(my[p].branch) /\ my[p].body = my[p].pr
    BY <1>4 DEF IInv, WriterOK, Pushed
  <2>3. s \in Requests /\ s.kind = "pull" /\ s.branch = my[p].branch /\ s.body = my[p].pr
    BY <1>2, <2>1, <2>2, EmptyTypes DEF Requests, Contents
  <2>4. LateOK(s)
    BY <1>2, <2>2, <2>3 DEF LateOK
  <2> QED
    BY <1>4, <2>1, <2>3, <2>4 DEF Creates
<1> QED
  BY <1>1, <1>3, <1>4

LEMMA StopIInv ==
    ASSUME IInv, Quiet, NEW p \in Procs, Stop(p)
    PROVE  IInv'
<1>1. /\ pc[p] # "idle" /\ pc[p] \notin PipelineSteps /\ stops < MaxStops /\ stops' = stops + 1
      /\ late \subseteq late' /\ late' \subseteq late \cup Sent(p) /\ End(p)
      /\ UNCHANGED <<disk, main, refs, pulls, started>>
  BY DEF Stop, Quiet
<1>2. ~PipelineRuns
  BY <1>1 DEF IInv, PipelineOK, PipelineRuns
<1>3. /\ pc'[p] = "idle" /\ \A q \in Procs \ {p} : pc'[q] = pc[q] /\ my'[q] = my[q]
  BY <1>1, EndFacts DEF IInv
<1>4. Grows /\ BranchesOK' /\ \A q \in pulls' : PullOK(q)'
  <2>1. Grows /\ BranchesOK'
    BY <1>1 DEF IInv, Grows, BranchesOK, Exists, BranchIsNew
  <2> QED
    BY <1>1, <2>1, Growing
<1>5. \A q \in late' : LateOK(q)'
  <2>1. \A q \in late' : LateOK(q)
    BY <1>1, SentFacts DEF IInv
  <2> QED
    BY <1>1, <2>1 DEF LateOK, Exists, BranchIsNew
<1>6. OnceOK'
  <2>1. \A q \in Procs : Creates(q)' => q # p /\ Creates(q) /\ my'[q].branch = my[q].branch
    BY <1>3 DEF Creates
  <2>2. ASSUME NEW s \in late', s \notin late
        PROVE  /\ s.kind = "pull" => Creates(p) /\ s.branch = my[p].branch
               /\ \A t \in late' : t \in late \/ t = s
    BY <1>1, <2>2, SentFacts
  <2> HIDE DEF Creates
  <2>3. OnceOK /\ pulls' = pulls
    BY <1>1 DEF IInv
  <2>4. \A q1, q2 \in Procs : Creates(q1)' /\ Creates(q2)' /\ my'[q1].branch = my'[q2].branch => q1 = q2
    BY <2>1, <2>3 DEF OnceOK
  <2>5. \A s, t \in late' : s.kind = "pull" /\ t.kind = "pull" /\ s.branch = t.branch => s = t
    BY <2>2, <2>3 DEF OnceOK
  <2>6. \A q \in Procs : Creates(q)' => /\ \A s \in late' : s.kind = "pull" => s.branch # my'[q].branch
                                        /\ \A t \in pulls' : t.branch # my'[q].branch
    BY <2>1, <2>2, <2>3 DEF OnceOK
  <2>7. \A s \in late', t \in pulls' : s.kind = "pull" => s.branch # t.branch
    BY <2>2, <2>3 DEF OnceOK
  <2> QED
    BY <2>3, <2>4, <2>5, <2>6, <2>7 DEF OnceOK
<1>7. WriterOK(p)'
  BY <1>3 DEF WriterOK, Reading, Cleared, Identified, Pushed
<1>8. Idle \in Locals /\ "idle" \in Places /\ "idle" \notin PipelineSteps
  BY EmptyTypes DEF Places, PipelineSteps
<1>9. /\ stops' \in 0..MaxStops /\ refs' \in [Branches -> Commits]
      /\ pulls' \subseteq Pulls /\ IsFiniteSet(pulls') /\ late' \subseteq Requests
  <2>1. late' \subseteq Requests
    BY <1>1, SentFacts DEF IInv, TypeOK
  <2> QED
    BY <1>1, <2>1, BoundAssumption DEF IInv, TypeOK
<1>10. UNCHANGED <<disk, main, started>>
  BY <1>1
<1>11. Go(p, "idle", Idle)
  BY <1>1 DEF End
<1> QED
  BY <1>2, <1>4, <1>5, <1>6, <1>7, <1>8, <1>9, <1>10, <1>11, ProcessMoves

LEMMA ArriveRefIInv ==
    ASSUME IInv, NEW q \in late, ArriveRef(q)
    PROVE  IInv'
<1>1. /\ q.kind = "ref" /\ late' = late \ {q}
      /\ UNCHANGED <<disk, main, pulls, started, pc, my, stops>>
  BY DEF ArriveRef
<1>2. q.branch \in Branches /\ q.commit \in Commits /\ LateOK(q)
  BY DEF IInv, TypeOK, Requests
<1>3. Grows /\ BranchesOK' /\ refs' \in [Branches -> Commits]
  <2>1. CASE BranchIsNew(q.branch)
    <3>1. refs' = [refs EXCEPT ![q.branch] = q.commit]
      BY <2>1 DEF ArriveRef
    <3>2. Faithful(q.commit, q.branch.run)
      BY <1>1, <1>2, <2>1 DEF LateOK, Exists
    <3> QED
      BY <1>2, <2>1, <3>1, <3>2, NewBranch
  <2>2. CASE ~BranchIsNew(q.branch)
    BY <2>2 DEF ArriveRef, IInv, TypeOK, Grows, BranchesOK, Exists, BranchIsNew
  <2> QED
    BY <2>1, <2>2
<1>4. (\A t \in pulls' : PullOK(t)') /\ \A t \in late' : LateOK(t)'
  BY <1>1, <1>3, Growing
<1>5. OnceOK'
  BY <1>1 DEF IInv, OnceOK, Creates
<1>6. main' \in 0..MaxMain /\ pulls' \subseteq Pulls /\ IsFiniteSet(pulls') /\ late' \subseteq Requests
  BY <1>1 DEF IInv, TypeOK
<1>7. UNCHANGED <<disk, started, pc, my, stops>>
  BY <1>1
<1> QED
  BY <1>3, <1>4, <1>5, <1>6, <1>7, EnvironmentMoves

LEMMA ArrivePullIInv ==
    ASSUME IInv, NEW q \in late, ArrivePull(q)
    PROVE  IInv'
<1>1. /\ q.kind = "pull" /\ late' = late \ {q}
      /\ UNCHANGED <<disk, main, refs, started, pc, my, stops>>
  BY DEF ArrivePull
<1>2. q.branch \in Branches /\ LateOK(q)
  BY DEF IInv, TypeOK, Requests
<1>3. PICK b \in Branches : /\ b = q.branch /\ b = OwnBranch(b.run) /\ b.run \in Ready
                            /\ q.body = b.run /\ Exists(b)
  BY <1>1, <1>2 DEF LateOK
<1>4. PICK n : n = NewPull(b, b.run)
  OBVIOUS
<1>5. Grows /\ BranchesOK' /\ refs' \in [Branches -> Commits]
  BY <1>1 DEF IInv, TypeOK, Grows, BranchesOK, Exists, BranchIsNew
<1>6. (\A t \in pulls : PullOK(t)') /\ \A t \in late' : LateOK(t)'
  BY <1>1, <1>5, Growing
<1>7. pulls' = pulls \/ (pulls' = pulls \cup {n} /\ PullIsNew(b))
  BY <1>3, <1>4 DEF ArrivePull
<1>8. /\ pulls' \subseteq Pulls /\ IsFiniteSet(pulls') /\ \A t \in pulls' : PullOK(t)'
      /\ pulls' # pulls => n.branch = b
  <2>1. CASE pulls' = pulls
    BY <1>6, <2>1 DEF IInv, TypeOK
  <2>2. CASE pulls' = pulls \cup {n}
    BY <1>1, <1>3, <1>4, <2>2, NewPullFacts
  <2> QED
    BY <1>7, <2>1, <2>2
<1>9. OnceOK'
  <2>1. \A r \in Procs : Creates(r)' <=> Creates(r)
    BY <1>1 DEF Creates
  <2> HIDE DEF Creates
  <2>2. OnceOK /\ my' = my
    BY <1>1 DEF IInv
  <2>3. /\ \A r \in Procs : Creates(r) => my[r].branch # b
        /\ \A t \in pulls : t.branch # b
        /\ \A s \in late' : s.kind = "pull" => s.branch # b
    BY <1>1, <1>3, <2>2 DEF OnceOK
  <2>4. \A t \in pulls' : t \in pulls \/ (t = n /\ t.branch = b)
    BY <1>7, <1>8
  <2>5. \A s, t \in pulls' : s.branch = t.branch => s = t
    BY <2>2, <2>3, <2>4 DEF OnceOK
  <2>6. \A r \in Procs : Creates(r) => \A t \in pulls' : t.branch # my[r].branch
    BY <2>2, <2>3, <2>4 DEF OnceOK
  <2>7. \A s \in late', t \in pulls' : s.kind = "pull" => s.branch # t.branch
    BY <1>1, <2>2, <2>3, <2>4 DEF OnceOK
  <2> QED
    BY <1>1, <2>1, <2>2, <2>5, <2>6, <2>7 DEF OnceOK
<1>10. main' \in 0..MaxMain /\ late' \subseteq Requests
  BY <1>1 DEF IInv, TypeOK
<1>11. UNCHANGED <<disk, started, pc, my, stops>>
  BY <1>1
<1> QED
  BY <1>5, <1>6, <1>8, <1>9, <1>10, <1>11, EnvironmentMoves

LEMMA ClosePullIInv ==
    ASSUME IInv, NEW q \in pulls, ClosePull(q)
    PROVE  IInv'
<1>1. PICK n : n = [q EXCEPT !.open = FALSE]
  OBVIOUS
<1>2. pulls' = (pulls \ {q}) \cup {n} /\ UNCHANGED <<disk, main, refs, late, started, pc, my, stops>>
  BY <1>1 DEF ClosePull
<1>3. q \in Pulls /\ PullOK(q)
  BY DEF IInv, TypeOK
<1>4. /\ n \in Pulls /\ n.branch = q.branch /\ n.commit = q.commit /\ n.body = q.body
  BY <1>1, <1>3 DEF Pulls
<1>5. Grows /\ BranchesOK' /\ refs' \in [Branches -> Commits]
  BY <1>2 DEF IInv, TypeOK, Grows, BranchesOK, Exists, BranchIsNew
<1>6. (\A t \in pulls : PullOK(t)') /\ \A t \in late' : LateOK(t)'
  BY <1>2, <1>5, Growing
<1>7. PullOK(n)'
  BY <1>4, <1>6 DEF PullOK
<1>8. pulls' \subseteq Pulls /\ IsFiniteSet(pulls')
  BY <1>2, <1>4, FS_RemoveElement, FS_AddElement DEF IInv, TypeOK
<1>9. OnceOK'
  <2>1. \A r \in Procs : Creates(r)' <=> Creates(r)
    BY <1>2 DEF Creates
  <2> HIDE DEF Creates
  <2>2. OnceOK /\ my' = my /\ late' = late
    BY <1>2 DEF IInv
  <2>3. \A t \in pulls' : (t \in pulls /\ t # q) \/ (t = n /\ t.branch = q.branch)
    BY <1>2, <1>4
  <2>4. \A s, t \in pulls' : s.branch = t.branch => s = t
    BY <2>2, <2>3 DEF OnceOK
  <2> QED
    BY <2>1, <2>2, <2>3, <2>4 DEF OnceOK
<1>10. main' \in 0..MaxMain /\ late' \subseteq Requests
  BY <1>2 DEF IInv, TypeOK
<1>11. \A t \in pulls' : PullOK(t)'
  BY <1>2, <1>6, <1>7
<1>12. UNCHANGED <<disk, started, pc, my, stops>>
  BY <1>2
<1> QED
  BY <1>5, <1>6, <1>8, <1>9, <1>10, <1>11, <1>12, EnvironmentMoves

LEMMA MoveMainIInv ==
    ASSUME IInv, MoveMain
    PROVE  IInv'
<1>1. UNCHANGED <<disk, refs, pulls, late, started, pc, my, stops>>
  BY DEF MoveMain
<1>2. main' \in 0..MaxMain
  BY BoundAssumption DEF MoveMain, IInv, TypeOK
<1>3. Grows /\ BranchesOK' /\ refs' \in [Branches -> Commits]
  BY <1>1 DEF IInv, TypeOK, Grows, BranchesOK, Exists, BranchIsNew
<1>4. (\A t \in pulls' : PullOK(t)') /\ \A t \in late' : LateOK(t)'
  BY <1>1, <1>3, Growing
<1>5. OnceOK'
  BY <1>1 DEF IInv, OnceOK, Creates
<1>6. pulls' \subseteq Pulls /\ IsFiniteSet(pulls') /\ late' \subseteq Requests
  BY <1>1 DEF IInv, TypeOK
<1>7. UNCHANGED <<disk, started, pc, my, stops>>
  BY <1>1
<1> QED
  BY <1>2, <1>3, <1>4, <1>5, <1>6, <1>7, EnvironmentMoves

-----------------------------------------------------------------------------
(* The steps of a pipeline, which nobody else accompanies. *)
LEMMA PipelineMoves ==
    ASSUME IInv, NEW p \in Procs, NEW step \in Places, NEW locals \in Locals,
           Go(p, step, locals), step \notin Reading,
           \A q \in Procs \ {p} : pc[q] = "idle",
           UNCHANGED <<github, stops>>, started' \subseteq Runs,
           dir' \in FileMaps, manifest' \in Manifests, resultFile' \in Results,
           DirectoryOK', PipelineOK(p)'
    PROVE  IInv'
<1>1. /\ pc' \in [Procs -> Places] /\ my' \in [Procs -> Locals]
      /\ pc'[p] = step /\ my'[p] = locals
      /\ \A q \in Procs \ {p} : pc'[q] = "idle"
  BY GoFacts DEF IInv
<1>2. UNCHANGED <<main, refs, pulls, late>>
  BY DEF github
<1>3. BranchesOK' /\ (\A q \in pulls' : PullOK(q)') /\ \A q \in late' : LateOK(q)'
  BY <1>2, GithubKept
<1>4. TypeOK'
  BY <1>1, <1>2 DEF IInv, TypeOK
<1>5. \A q \in Procs : PipelineOK(q)'
  BY <1>1 DEF PipelineOK, PipelineSteps
<1>6. \A q \in Procs : WriterOK(q)' /\ ~Creates(q)'
  <2>1. \A q \in Procs : pc'[q] \notin Reading
    BY <1>1 DEF Reading
  <2> QED
    BY <2>1 DEF WriterOK, Reading, Cleared, Identified, Pushed, Creates
<1>7. OnceOK'
  BY <1>2, <1>6 DEF IInv, OnceOK
<1> QED
  BY <1>3, <1>4, <1>5, <1>6, <1>7 DEF IInv

(* What a pipeline at its place knows.                                       *)
LEMMA PipelineFacts ==
    ASSUME IInv, NEW p \in Procs, pc[p] \in PipelineSteps
    PROVE  /\ my[p] \in Locals /\ my[p].run \in Runs /\ my[p].run \in Contents
           /\ \A q \in Procs \ {p} : pc[q] = "idle"
           /\ dir \in FileMaps /\ manifest \in Manifests /\ resultFile \in Results
  BY DEF IInv, TypeOK, PipelineOK, Contents

LEMMA StartRunIInv ==
    ASSUME IInv, Quiet, NEW p \in Procs, NEW r \in Runs, StartRun(p, r)
    PROVE  IInv'
<1>1. PICK locals : locals = [Idle EXCEPT !.run = r]
  OBVIOUS
<1>2. locals \in Locals /\ locals.run = r /\ locals.k = 1
  <2>1. r \in Contents \cup {NoRun} /\ Idle \in Locals
    BY EmptyTypes DEF Contents
  <2> QED
    BY <1>1, <2>1 DEF Locals, Idle
<1>3. /\ "open" \in Places /\ "open" \in PipelineSteps /\ "open" \notin Reading
      /\ Go(p, "open", locals)
  BY <1>1 DEF Places, PipelineSteps, Reading, StartRun
<1>4. pc'[p] = "open" /\ my'[p] = locals /\ \A q \in Procs \ {p} : pc'[q] = "idle" /\ pc[q] = "idle"
  BY <1>2, <1>3, GoFacts DEF IInv, StartRun, Quiet
<1>5. PipelineOK(p)' /\ DirectoryOK'
  BY <1>2, <1>3, <1>4, FileNames DEF PipelineOK, DirectoryOK, PipelineRuns
<1>6. UNCHANGED <<dir, manifest, resultFile, github, stops>> /\ started' \subseteq Runs
  BY DEF StartRun, disk, IInv, TypeOK
<1> QED
  BY <1>2, <1>3, <1>4, <1>5, <1>6, PipelineMoves DEF IInv, TypeOK

LEMMA OpenFileIInv ==
    ASSUME IInv, NEW p \in Procs, OpenFile(p)
    PROVE  IInv'
<1>1. pc[p] = "open" /\ pc[p] \in PipelineSteps /\ Go(p, "write", my[p])
  BY DEF OpenFile, PipelineSteps
<1>2. /\ my[p] \in Locals /\ my[p].run \in Runs
      /\ \A q \in Procs \ {p} : pc[q] = "idle"
      /\ dir \in FileMaps /\ manifest \in Manifests /\ resultFile \in Results
  BY <1>1, PipelineFacts
<1>3. "write" \in Places /\ "write" \in PipelineSteps /\ "write" \notin Reading
  BY DEF Places, PipelineSteps, Reading
<1>4. pc'[p] = "write" /\ my'[p] = my[p] /\ \A q \in Procs \ {p} : pc'[q] = "idle"
  BY <1>1, <1>2, <1>3, GoFacts DEF IInv
<1>5. PICK k \in 1..5 : k = my[p].k
  BY <1>1, <1>2, FileNames DEF IInv, PipelineOK, Locals
<1>6. FlowFiles[k] \in Files /\ dir' = [dir EXCEPT ![FlowFiles[k]] = Empty]
  BY <1>5, FileNames DEF OpenFile
<1>7. dir' \in FileMaps
  BY <1>2, <1>6 DEF FileMaps, Contents
<1>8. ASSUME NEW i \in 1..(k - 1)
      PROVE  dir'[FlowFiles[i]] = my[p].run
  <2>1. i \in 1..5 /\ FlowFiles[i] \in Files /\ FlowFiles[i] # FlowFiles[k]
    BY FileNames
  <2>2. dir[FlowFiles[i]] = my[p].run
    BY <1>1, <1>5 DEF IInv, PipelineOK
  <2> QED
    BY <1>2, <1>6, <2>1, <2>2 DEF FileMaps
<1>9. PipelineOK(p)' /\ DirectoryOK'
  BY <1>2, <1>3, <1>4, <1>5, <1>8, FileNames DEF PipelineOK, DirectoryOK, PipelineRuns
<1>10. UNCHANGED <<manifest, resultFile, github, stops>> /\ started' \subseteq Runs
  BY DEF OpenFile, IInv, TypeOK
<1> QED
  BY <1>1, <1>2, <1>3, <1>7, <1>9, <1>10, PipelineMoves

LEMMA WriteFileIInv ==
    ASSUME IInv, NEW p \in Procs, WriteFile(p)
    PROVE  IInv'
<1>1. pc[p] = "write" /\ pc[p] \in PipelineSteps
  BY DEF WriteFile, PipelineSteps
<1>2. /\ my[p] \in Locals /\ my[p].run \in Runs /\ my[p].run \in Contents
      /\ \A q \in Procs \ {p} : pc[q] = "idle"
      /\ dir \in FileMaps /\ manifest \in Manifests /\ resultFile \in Results
  BY <1>1, PipelineFacts
<1>3. /\ {"open", "digest"} \subseteq Places \cap PipelineSteps
      /\ "open" \notin Reading /\ "digest" \notin Reading
  BY DEF Places, PipelineSteps, Reading
<1>4. PICK k \in 1..5 : k = my[p].k
  BY <1>1, <1>2, FileNames DEF IInv, PipelineOK, Locals
<1>5. FlowFiles[k] \in Files /\ dir' = [dir EXCEPT ![FlowFiles[k]] = my[p].run]
  BY <1>4, FileNames DEF WriteFile
<1>6. dir' \in FileMaps
  BY <1>2, <1>5 DEF FileMaps
<1>7. ASSUME NEW i \in 1..k
      PROVE  dir'[FlowFiles[i]] = my[p].run
  <2>1. i \in 1..5 /\ FlowFiles[i] \in Files
    BY FileNames
  <2>2. CASE i = k
    BY <1>2, <1>5, <2>1, <2>2 DEF FileMaps
  <2>3. CASE i # k
    <3>1. FlowFiles[i] # FlowFiles[k]
      BY <2>1, <2>3, FileNames
    <3>2. dir[FlowFiles[i]] = my[p].run
      BY <1>1, <1>4, <2>3 DEF IInv, PipelineOK
    <3> QED
      BY <1>2, <1>5, <2>1, <3>1, <3>2 DEF FileMaps
  <2> QED
    BY <2>2, <2>3
<1>8. UNCHANGED <<manifest, resultFile, github, stops>> /\ started' \subseteq Runs
  BY DEF WriteFile, IInv, TypeOK
<1>9. CASE k < 5
  <2>1. PICK locals : locals = [my[p] EXCEPT !.k = k + 1]
    OBVIOUS
  <2>2. locals \in Locals /\ locals.run = my[p].run /\ locals.k = k + 1
    <3>1. k + 1 \in 1..(Len(EvidenceFiles) + 1)
      BY FileNames
    <3> QED
      BY <1>2, <2>1, <3>1 DEF Locals
  <2>3. Go(p, "open", locals)
    BY <1>4, <1>9, <2>1, FileNames DEF WriteFile
  <2>4. pc'[p] = "open" /\ my'[p] = locals /\ \A q \in Procs \ {p} : pc'[q] = "idle"
    BY <1>2, <1>3, <2>2, <2>3, GoFacts DEF IInv
  <2>5. PipelineOK(p)' /\ DirectoryOK'
    BY <1>2, <1>3, <1>7, <1>9, <2>2, <2>4, FileNames DEF PipelineOK, DirectoryOK, PipelineRuns
  <2> QED
    BY <1>2, <1>3, <1>6, <1>8, <2>2, <2>3, <2>5, PipelineMoves
<1>10. CASE k = 5
  <2>1. Go(p, "digest", my[p])
    BY <1>4, <1>10, FileNames DEF WriteFile
  <2>2. pc'[p] = "digest" /\ my'[p] = my[p] /\ \A q \in Procs \ {p} : pc'[q] = "idle"
    BY <1>2, <1>3, <2>1, GoFacts DEF IInv
  <2>3. dir' = FilesOf(my[p].run)
    <3>1. \A f \in Files : dir'[f] = my[p].run
      BY <1>7, <1>10, FileNames
    <3> QED
      BY <1>6, <3>1 DEF FileMaps, FilesOf
  <2>4. PipelineOK(p)' /\ DirectoryOK'
    BY <1>2, <1>3, <2>2, <2>3 DEF PipelineOK, DirectoryOK, PipelineRuns
  <2> QED
    BY <1>2, <1>3, <1>6, <1>8, <2>1, <2>4, PipelineMoves
<1> QED
  BY <1>9, <1>10

LEMMA DigestFilesIInv ==
    ASSUME IInv, NEW p \in Procs, DigestFiles(p)
    PROVE  IInv'
<1>1. pc[p] = "digest" /\ pc[p] \in PipelineSteps
  BY DEF DigestFiles, PipelineSteps
<1>2. /\ my[p] \in Locals /\ my[p].run \in Runs /\ my[p].run \in Contents
      /\ \A q \in Procs \ {p} : pc[q] = "idle"
      /\ dir \in FileMaps /\ manifest \in Manifests /\ resultFile \in Results
  BY <1>1, PipelineFacts
<1>3. "manifest" \in Places /\ "manifest" \in PipelineSteps /\ "manifest" \notin Reading
  BY DEF Places, PipelineSteps, Reading
<1>4. dir = FilesOf(my[p].run)
  BY <1>1 DEF IInv, PipelineOK, PipelineSteps
<1>5. PICK m : m = FreshManifest(p)
  OBVIOUS
<1>6. m \in Manifests /\ Sealed(m, my[p].run)
  <2>1. Manifest(my[p].run) \in Manifests /\ Manifest(my[p].run).run = my[p].run
    BY <1>2, EmptyTypes DEF Manifest
  <2> QED
    BY <1>2, <1>4, <1>5, <2>1 DEF FreshManifest, Manifests, Sealed
<1>7. PICK locals : locals = [my[p] EXCEPT !.manifest = m]
  OBVIOUS
<1>8. locals \in Locals /\ locals.run = my[p].run /\ locals.manifest = m
  BY <1>2, <1>6, <1>7 DEF Locals
<1>9. Go(p, "manifest", locals)
  BY <1>5, <1>7 DEF DigestFiles
<1>10. pc'[p] = "manifest" /\ my'[p] = locals /\ \A q \in Procs \ {p} : pc'[q] = "idle"
  BY <1>2, <1>3, <1>8, <1>9, GoFacts DEF IInv
<1>11. UNCHANGED <<dir, manifest, resultFile, github, stops>> /\ started' \subseteq Runs
  BY DEF DigestFiles, disk, IInv, TypeOK
<1>12. PipelineOK(p)' /\ DirectoryOK'
  BY <1>2, <1>3, <1>4, <1>6, <1>8, <1>10, <1>11 DEF PipelineOK, DirectoryOK, PipelineRuns, Sealed
<1> QED
  BY <1>2, <1>3, <1>8, <1>9, <1>11, <1>12, PipelineMoves

LEMMA OpenManifestIInv ==
    ASSUME IInv, NEW p \in Procs, pc[p] = "manifest", OpenManifest(p)
    PROVE  IInv'
<1>1. pc[p] \in PipelineSteps /\ Go(p, "saved", my[p])
  BY DEF OpenManifest, PipelineSteps
<1>2. /\ my[p] \in Locals /\ my[p].run \in Runs /\ my[p].run \in Contents
      /\ \A q \in Procs \ {p} : pc[q] = "idle"
      /\ dir \in FileMaps /\ manifest \in Manifests /\ resultFile \in Results
  BY <1>1, PipelineFacts
<1>3. "saved" \in Places /\ "saved" \in PipelineSteps /\ "saved" \notin Reading
  BY DEF Places, PipelineSteps, Reading
<1>4. dir = FilesOf(my[p].run) /\ Sealed(my[p].manifest, my[p].run)
  BY <1>1 DEF IInv, PipelineOK
<1>5. pc'[p] = "saved" /\ my'[p] = my[p] /\ \A q \in Procs \ {p} : pc'[q] = "idle"
  BY <1>1, <1>2, <1>3, GoFacts DEF IInv
<1>6. /\ UNCHANGED <<dir, resultFile, github, stops>> /\ started' \subseteq Runs
      /\ manifest' \in Manifests
  BY EmptyTypes DEF OpenManifest, IInv, TypeOK, Contents
<1>7. PipelineOK(p)' /\ DirectoryOK'
  BY <1>2, <1>3, <1>4, <1>5, <1>6 DEF PipelineOK, DirectoryOK, PipelineRuns, Sealed
<1> QED
  BY <1>1, <1>2, <1>3, <1>6, <1>7, PipelineMoves

LEMMA SaveManifestIInv ==
    ASSUME IInv, NEW p \in Procs, SaveManifest(p)
    PROVE  IInv'
<1>1. pc[p] = "saved" /\ pc[p] \in PipelineSteps /\ manifest' = my[p].manifest
  BY DEF SaveManifest, PipelineSteps
<1>2. /\ my[p] \in Locals /\ my[p].run \in Runs /\ my[p].run \in Contents
      /\ \A q \in Procs \ {p} : pc[q] = "idle"
      /\ dir \in FileMaps /\ manifest \in Manifests /\ resultFile \in Results
  BY <1>1, PipelineFacts
<1>3. /\ {"idle", "plan"} \subseteq Places /\ {"idle", "plan"} \cap (PipelineSteps \cup Reading) = {}
      /\ Idle \in Locals
  BY EmptyTypes DEF Places, PipelineSteps, Reading
<1>4. PICK step \in {"idle", "plan"} : Go(p, step, Idle)
  BY DEF SaveManifest, End
<1>5. pc'[p] = step /\ my'[p] = Idle
  BY <1>3, <1>4, GoFacts DEF IInv
<1>6. dir = FilesOf(my[p].run) /\ Sealed(my[p].manifest, my[p].run)
  BY <1>1 DEF IInv, PipelineOK
<1>7. /\ UNCHANGED <<dir, resultFile, github, stops>> /\ started' \subseteq Runs
      /\ manifest' \in Manifests
  BY <1>1, <1>2 DEF SaveManifest, IInv, TypeOK, Locals
<1>8. PipelineOK(p)'
  BY <1>3, <1>5 DEF PipelineOK
<1>9. DirectoryOK'
  <2>1. PICK r \in Runs : r = my[p].run
    BY <1>2
  <2>2. ManifestOf(r)'
    BY <1>1, <1>6, <2>1 DEF ManifestOf, Sealed
  <2>3. dir' = FilesOf(r)
    BY <1>6, <1>7, <2>1
  <2> QED
    BY <2>2, <2>3 DEF DirectoryOK
<1> QED
  BY <1>2, <1>3, <1>4, <1>7, <1>8, <1>9, PipelineMoves

-----------------------------------------------------------------------------
(* The whole. *)
LEMMA InitIInv ==
    ASSUME Init
    PROVE  IInv
<1>1. \A p \in Procs : pc[p] = "idle"
  BY DEF Init
<1>2. TypeOK
  <2>1. pulls = {} /\ IsFiniteSet(pulls)
    BY FS_EmptySet DEF Init
  <2>2. /\ NoFiles \in FileMaps /\ Manifest(NoFile) \in Manifests /\ NoResult \in Results
        /\ NoCommit \in Commits /\ Idle \in Locals /\ "idle" \in Places
    BY EmptyTypes DEF Contents, Results, Places
  <2>3. 0 \in 0..MaxMain /\ 0 \in 0..MaxStops
    BY BoundAssumption
  <2> QED
    BY <2>1, <2>2, <2>3 DEF Init, TypeOK
<1>3. DirectoryOK
  BY DEF Init, DirectoryOK, Manifest
<1>4. \A p \in Procs : PipelineOK(p) /\ WriterOK(p) /\ ~Creates(p)
  BY <1>1 DEF PipelineOK, PipelineSteps, WriterOK, Reading, Cleared, Identified, Pushed, Creates
<1>5. BranchesOK
  BY DEF Init, BranchesOK, Exists, BranchIsNew
<1>6. pulls = {} /\ late = {}
  BY DEF Init
<1> QED
  BY <1>2, <1>3, <1>4, <1>5, <1>6 DEF IInv, OnceOK

LEMMA StutterIInv ==
    ASSUME IInv, UNCHANGED vars
    PROVE  IInv'
<1>1. /\ UNCHANGED <<dir, manifest, resultFile, main, refs, pulls, late, started, pc, my, stops>>
  BY DEF vars
<1>2. TypeOK'
  BY <1>1 DEF IInv, TypeOK
<1>3. DirectoryOK'
  BY <1>1 DEF IInv, DirectoryOK, PipelineRuns, ManifestOf, Sealed, Exists, BranchIsNew
<1>4. \A p \in Procs : PipelineOK(p)' /\ WriterOK(p)'
  BY <1>1 DEF IInv, PipelineOK, WriterOK, Sealed, Commit, Exists, BranchIsNew
<1>5. BranchesOK' /\ (\A q \in pulls' : PullOK(q)') /\ \A q \in late' : LateOK(q)'
  BY <1>1, GithubKept DEF github
<1>6. OnceOK'
  BY <1>1 DEF IInv, OnceOK, Creates
<1> QED
  BY <1>2, <1>3, <1>4, <1>5, <1>6 DEF IInv

LEMMA NextIInv ==
    ASSUME IInv, Quiet, [Next]_vars
    PROVE  IInv'
<1>1. ASSUME NEW p \in Procs, PipelineStep(p)
      PROVE  IInv'
  <2>1. CASE OpenManifest(p)
    <3>1. pc[p] = "manifest" \/ pc[p] = "bind"
      BY <2>1 DEF OpenManifest
    <3> QED
      BY <2>1, <3>1, OpenManifestIInv, UnbindManifestIInv
  <2> QED
    BY <1>1, <2>1, OpenFileIInv, WriteFileIInv, DigestFilesIInv, SaveManifestIInv DEF PipelineStep
<1>2. ASSUME NEW p \in Procs, WriterStep(p)
      PROVE  IInv'
  BY <1>2, ReadPullRequestIInv, ReadChecksIInv, ReadManifestIInv, FindPullIInv, GetBaseIInv,
     PostBlobIInv, PostRefIInv, ReadBodyIInv, PostPullIInv, WriteResultIInv, RereadManifestIInv,
     BindManifestIInv DEF WriterStep
<1>3. ASSUME NEW p \in Procs,
             StartWrite(p) \/ Stop(p) \/ \E r \in Runs : StartRun(p, r)
      PROVE  IInv'
  BY <1>3, StartWriteIInv, StopIInv, StartRunIInv
<1>4. CASE \/ \E q \in late : ArriveRef(q) \/ ArrivePull(q)
           \/ \E q \in pulls : ClosePull(q)
           \/ MoveMain
  BY <1>4, ArriveRefIInv, ArrivePullIInv, ClosePullIInv, MoveMainIInv
<1> QED
  BY <1>1, <1>2, <1>3, <1>4, StutterIInv DEF Next, Step

(* The types of every variable, and what keeps the directory, the processes  *)
(* and GitHub together (github_adapter.py 81-242).                           *)
THEOREM Invariance ==
    ASSUME Quiet
    PROVE  Spec => []IInv
BY InitIInv, NextIInv, PTL DEF Spec

(* Only whole runs that passed their gates are published: every pull request *)
(* is of the ready run its branch names, its commit and text of this run     *)
(* alone (write_evidence_draft, github_adapter.py 81-121, 206-233).          *)
THEOREM WholeRunsArePublished ==
    ASSUME ~Overlaps, ~PipelineStops
    PROVE  Spec => []PublishedIsOneReadyRun
<1>1. Quiet
  BY DEF Quiet
<1>2. IInv => PublishedIsOneReadyRun
  BY DEF IInv, PullOK, PublishedIsOneReadyRun, AllOf, Faithful, Sealed, FilesOf
<1> QED
  BY <1>1, <1>2, Invariance, PTL

(* The manifest published beside the files holds their digests, although     *)
(* another writer may be rewriting it while it is read (integrity.py 85-92). *)
THEOREM PublishedDigestsMatch ==
    ASSUME ~Overlaps, ~PipelineStops
    PROVE  Spec => []DigestsMatch
<1>1. Quiet
  BY DEF Quiet
<1>2. ASSUME IInv, NEW q \in pulls
      PROVE  /\ q.commit.manifest.run \notin {NoFile, Empty}
             /\ q.commit.manifest.digests = q.commit.files
  <2>1. q.branch.run \in Runs
    BY <1>2, RunsAssumption DEF IInv, PullOK
  <2>2. Faithful(q.commit, q.branch.run)
    BY <1>2 DEF IInv, PullOK
  <2> QED
    BY <2>1, <2>2, NothingAssumption DEF Faithful, Sealed
<1>3. IInv => DigestsMatch
  BY <1>2 DEF DigestsMatch
<1> QED
  BY <1>1, <1>3, Invariance, PTL

-----------------------------------------------------------------------------
(* The abstract promise. *)

(* What a pull request shows of DraftPublication.                            *)
View(q) == [run |-> q.branch.run, content |-> Content(q), open |-> q.open]
Shown == {View(q) : q \in pulls}

(* A step shows a new ready run's pull request, closes one, or neither.      *)
LEMMA PullShape ==
    ASSUME IInv, [Next]_vars
    PROVE  \/ pulls' = pulls
           \/ \E b \in Branches : /\ b.run \in Ready /\ b = OwnBranch(b.run) /\ Exists(b)
                                  /\ \A t \in pulls : t.branch # b
                                  /\ UNCHANGED refs
                                  /\ pulls' = pulls \cup {NewPull(b, b.run)}
           \/ \E q \in pulls : ClosePull(q)
<1>1. ASSUME NEW p \in Procs, PostPull(p), pulls' # pulls
      PROVE  \E b \in Branches : /\ b.run \in Ready /\ b = OwnBranch(b.run) /\ Exists(b)
                                 /\ \A t \in pulls : t.branch # b
                                 /\ UNCHANGED refs
                                 /\ pulls' = pulls \cup {NewPull(b, b.run)}
  <2>1. pc[p] = "pull" /\ pc[p] \in Identified /\ Creates(p) /\ UNCHANGED refs
    BY <1>1, Walk DEF PostPull, Creates
  <2>2. /\ my[p].branch = OwnBranch(my[p].pr) /\ my[p].branch \in Branches
        /\ my[p].branch.run = my[p].pr /\ my[p].pr \in Ready
    BY <2>1, Walk, WriterFacts
  <2>3. Exists(my[p].branch) /\ my[p].body = my[p].pr
    BY <2>1 DEF IInv, WriterOK, Pushed
  <2>4. \A t \in pulls : t.branch # my[p].branch
    BY <2>1 DEF IInv, OnceOK
  <2>5. pulls' = pulls \cup {NewPull(my[p].branch, my[p].branch.run)}
    BY <1>1, <2>2, <2>3 DEF PostPull
  <2> QED
    BY <2>1, <2>2, <2>3, <2>4, <2>5
<1>2. ASSUME NEW q \in late, ArrivePull(q), pulls' # pulls
      PROVE  \E b \in Branches : /\ b.run \in Ready /\ b = OwnBranch(b.run) /\ Exists(b)
                                 /\ \A t \in pulls : t.branch # b
                                 /\ UNCHANGED refs
                                 /\ pulls' = pulls \cup {NewPull(b, b.run)}
  <2>1. q.kind = "pull" /\ q.branch \in Branches /\ LateOK(q)
    BY <1>2 DEF IInv, TypeOK, Requests, ArrivePull
  <2>2. \A t \in pulls : t.branch # q.branch
    BY <2>1 DEF IInv, OnceOK
  <2>3. pulls' = pulls \cup {NewPull(q.branch, q.branch.run)} /\ UNCHANGED refs
    BY <1>2, <2>1 DEF ArrivePull, LateOK
  <2> QED
    BY <2>1, <2>2, <2>3 DEF LateOK
<1>3. ASSUME NEW p \in Procs, Step(p), ~PostPull(p)
      PROVE  pulls' = pulls
  BY <1>3 DEF Step, PipelineStep, WriterStep, OpenFile, WriteFile, DigestFiles, OpenManifest,
     SaveManifest, ReadPullRequest, ReadChecks, ReadManifest, FindPull, GetBase, PostBlob, PostRef,
     ReadBody, WriteResult, RereadManifest, BindManifest, github
<1>4. ASSUME NEW p \in Procs,
             StartWrite(p) \/ Stop(p) \/ \E r \in Runs : StartRun(p, r)
      PROVE  pulls' = pulls
  BY <1>4 DEF StartWrite, Stop, StartRun, github
<1>5. CASE MoveMain \/ (\E q \in late : ArriveRef(q)) \/ UNCHANGED vars
  BY <1>5 DEF MoveMain, ArriveRef, vars
<1> QED
  BY <1>1, <1>2, <1>3, <1>4, <1>5 DEF Next

LEMMA DraftsStep ==
    ASSUME IInv, IInv', [Next]_vars
    PROVE  [Drafts!Next]_(Drafts!vars)
<1>1. CASE pulls' = pulls
  BY <1>1 DEF Drafts!vars, Content, AllOf
<1>2. ASSUME NEW b \in Branches, b.run \in Ready, b = OwnBranch(b.run),
             \A t \in pulls : t.branch # b,
             pulls' = pulls \cup {NewPull(b, b.run)}
      PROVE  Drafts!Next
  <2>1. PICK n : n = NewPull(b, b.run)
    OBVIOUS
  <2>2. n.branch = b /\ n.body = b.run /\ n.open = TRUE /\ PullOK(n)'
    BY <1>2, <2>1 DEF NewPull, IInv
  <2>3. View(n) = [run |-> b.run, content |-> b.run, open |-> TRUE]
    BY <2>2 DEF View, Content, PullOK, Faithful, Sealed, FilesOf, AllOf
  <2>4. Shown' = Shown \cup {View(n)}
    BY <1>2, <2>1 DEF Shown, View, Content, AllOf
  <2>5. \A d \in Shown : d.run # b.run
    <3>1. ASSUME NEW t \in pulls
          PROVE  t.branch.run # b.run
      BY <1>2 DEF IInv, PullOK
    <3> QED
      BY <3>1 DEF Shown, View
  <2>6. Drafts!Publish(b.run)
    BY <1>2, <2>3, <2>4, <2>5 DEF Drafts!Publish, Shown, View
  <2>7. b.run \in Runs
    BY DEF Branches
  <2> QED
    BY <2>6, <2>7 DEF Drafts!Next
<1>3. ASSUME NEW q \in pulls, ClosePull(q)
      PROVE  Drafts!Next
  <2>1. PICK n : n = [q EXCEPT !.open = FALSE]
    OBVIOUS
  <2>2. pulls' = (pulls \ {q}) \cup {n} /\ q.open /\ q \in Pulls
    BY <1>3, <2>1 DEF ClosePull, IInv, TypeOK
  <2>3. /\ n.branch = q.branch /\ n.commit = q.commit /\ n.body = q.body /\ n.open = FALSE
    BY <2>1, <2>2 DEF Pulls
  <2>4. View(n) = [View(q) EXCEPT !.open = FALSE]
    <3>1. Content(n) = Content(q)
      BY <2>3 DEF Content, AllOf
    <3>2. PICK closed : closed = FALSE
      OBVIOUS
    <3>3. View(n) = [run |-> q.branch.run, content |-> Content(q), open |-> closed]
      BY <2>3, <3>1, <3>2 DEF View
    <3>4. View(n) = [View(q) EXCEPT !.open = closed]
      BY <3>3 DEF View
    <3> QED
      BY <3>2, <3>4
  <2>5. ASSUME NEW t \in pulls, View(t) = View(q)
        PROVE  t = q
    <3>1. t.branch.run = q.branch.run
      BY <2>5 DEF View
    <3>2. t.branch = q.branch
      BY <3>1 DEF IInv, PullOK
    <3> QED
      BY <3>2 DEF IInv, OnceOK
  <2>6. Shown' = (Shown \ {View(q)}) \cup {View(n)}
    <3>1. Shown' = {View(t) : t \in pulls'}
      BY DEF Shown, View, Content, AllOf
    <3> HIDE DEF View
    <3> QED
      BY <2>2, <2>5, <3>1 DEF Shown
  <2>7. View(q) \in Shown /\ View(q).open
    BY <2>2 DEF Shown, View
  <2>8. Drafts!Close(View(q))
    BY <2>4, <2>6, <2>7 DEF Drafts!Close, Shown, View
  <2>9. View(q) \in {[run |-> t.branch.run, content |-> Content(t), open |-> t.open] : t \in pulls}
    BY DEF View
  <2> QED
    BY <2>8, <2>9 DEF Drafts!Next
<1> QED
  BY <1>1, <1>2, <1>3, PullShape DEF Drafts!vars

(* The writer implements DraftPublication: whatever stops, arrives late or   *)
(* is repeated, each ready run appears on GitHub once and whole, and a pull  *)
(* request that has appeared is only ever closed (github_adapter.py 186-242).*)
THEOREM WriterImplementsDrafts ==
    ASSUME ~Overlaps, ~PipelineStops
    PROVE  Spec => ImplementsDrafts
<1>1. Quiet
  BY DEF Quiet
<1>2. Init => Drafts!Init
  BY DEF Init, Drafts!Init
<1> QED
  BY <1>1, <1>2, DraftsStep, Invariance, PTL DEF Spec, ImplementsDrafts, Drafts!Spec

=============================================================================
