----------------------------- MODULE Evaluation -----------------------------
(* The evaluation of a corpus against its ground truth (evaluation.py): each *)
(* file is validated and classified in turn, then the report is computed.    *)
(* The classes a case is observed to have are an input; ReleaseGate and      *)
(* CheckoutSimulator compute them with the same functions the pipeline uses. *)
EXTENDS Naturals, Sequences, FiniteSets, Functions

CONSTANTS
    HypothesisIds,  \* the hypotheses of the scenario
    Corpora,        \* the corpora: sequences of scenario files
    NoReport        \* before there is a report

VARIABLES
    files,          \* the files still to evaluate
    results,        \* evaluate_scenario's results
    report          \* the summary, or "invalid" if a file is not valid

evaluation_vars == <<files, results, report>>

Fields == {"primary-cause", "amplifier", "not-causal"}

(* What discover_scenarios returns is a list.                                *)
ASSUME CorporaAssumption == \A corpus \in Corpora : corpus \in Seq(Range(corpus))

(* _validated_ground_truth, the types of its fields and the causes known     *)
(* outside the model apart.                                                  *)
Validated(file) ==
    /\ file.type \in {"golden", "badcase", "insufficient-evidence"}
    /\ file.scope \in {"pipeline-and-evaluation", "evaluation-only-counterfactual"}
    /\ file.support \in {"supported", "unsupported"} /\ file.outcome \in {"diagnose", "abstain"}
    /\ file.outcome = "abstain" => file.expected["primary-cause"] = {}
    /\ file.outcome = "diagnose" => file.expected["primary-cause"] # {}
    /\ file.type = "insufficient-evidence" => file.outcome = "abstain"
    /\ file.type = "golden" => file.scope = "pipeline-and-evaluation"
    /\ UNION {file.expected[f] : f \in Fields} \subseteq HypothesisIds
    /\ \A f, g \in Fields : f # g => file.expected[f] \cap file.expected[g] = {}

(* What the replay says, as the three lists; indeterminate is in none.       *)
Observed(file) == [f \in Fields |-> {h \in HypothesisIds : file.classes[h] = f}]

(* A mutant that misses that an abstention was expected. *)
StatusOfMatch(file) ==
    IF Observed(file)["primary-cause"] = {} THEN "abstain"
    ELSE IF \A f \in Fields : Observed(file)[f] = file.expected[f] \/ file.outcome = "abstain"
         THEN "correct" ELSE "incorrect"

Status(file) ==
    IF Observed(file)["primary-cause"] = {} THEN "abstain"
    ELSE IF file.outcome = "diagnose" /\ Observed(file) = file.expected THEN "correct"
         ELSE "incorrect"

(* evaluate_scenario. *)
Evaluated(file) ==
    [file |-> file, status |-> Status(file),
     met |-> IF file.outcome = "diagnose" THEN Status(file) = "correct"
             ELSE Status(file) = "abstain",
     unexpected |-> file.outcome = "abstain" /\ Observed(file)["primary-cause"] # {}]

(* evaluate_corpus: the cases it counts, by their places.                    *)
WithStatus(cases, status) == {i \in DOMAIN cases : cases[i].status = status}
Met(cases) == {i \in DOMAIN cases : cases[i].met}
SupportedDiagnoses(cases) ==
    {i \in DOMAIN cases : cases[i].file.support = "supported" /\ cases[i].file.outcome = "diagnose"}
Abstentions(cases) == {i \in DOMAIN cases : cases[i].file.outcome = "abstain"}
Unsupported(cases) == {i \in DOMAIN cases : cases[i].file.support = "unsupported"}
Unexpected(cases) == {i \in DOMAIN cases : cases[i].unexpected}

(* evaluate_corpus: the summary and the known limitations.                   *)
Summary(cases) ==
    [total        |-> Len(cases),
     correct      |-> Cardinality(WithStatus(cases, "correct")),
     incorrect    |-> Cardinality(WithStatus(cases, "incorrect")),
     abstain      |-> Cardinality(WithStatus(cases, "abstain")),
     met          |-> Cardinality(Met(cases)),
     supported    |-> Cardinality(SupportedDiagnoses(cases)),
     supported_correct |->
        Cardinality(SupportedDiagnoses(cases) \cap WithStatus(cases, "correct")),
     abstentions  |-> Cardinality(Abstentions(cases)),
     correct_abstentions |->
        Cardinality(Abstentions(cases) \cap WithStatus(cases, "abstain")),
     unsupported_failures   |-> Cardinality(Unsupported(cases) \ Met(cases)),
     unsupported_assertions |-> Cardinality(Unsupported(cases) \cap Unexpected(cases)),
     unexpected   |-> Cardinality(Unexpected(cases)),
     limitations  |->
        {c.file : c \in {d \in Range(cases) : d.file.scope = "evaluation-only-counterfactual"}}]

-----------------------------------------------------------------------------
EvaluationInit == files \in Corpora /\ results = << >> /\ report = NoReport

Evaluate ==
    /\ report = NoReport /\ files # << >> /\ Validated(Head(files))
    /\ results' = Append(results, Evaluated(Head(files)))
    /\ files' = Tail(files)
    /\ UNCHANGED report

(* A ValueError ends the evaluation without a report.                        *)
Refuse ==
    /\ report = NoReport /\ files # << >> /\ ~Validated(Head(files))
    /\ report' = "invalid"
    /\ UNCHANGED <<files, results>>

Report ==
    /\ report = NoReport /\ files = << >> /\ results # << >>
    /\ report' = Summary(results)
    /\ UNCHANGED <<files, results>>

EvaluationNext == Evaluate \/ Refuse \/ Report

EvaluationSpec == EvaluationInit /\ [][EvaluationNext]_evaluation_vars

-----------------------------------------------------------------------------
Reported == files = << >> /\ report # NoReport

(* The cases of the simulator's causes whose causes were named exactly.      *)
NamedRight ==
    {i \in DOMAIN results :
        LET c == results[i]
        IN /\ c.file.support = "supported" /\ c.status = "correct"
           /\ Observed(c.file)["primary-cause"] = c.file.expected["primary-cause"]
           /\ c.file.expected["primary-cause"] # {}}

(* The figures of a report come from one another though each is counted      *)
(* apart (233-316): every case has one status; what met its expectation is   *)
(* a correct diagnosis or a correct abstention; what did not abstain though  *)
(* it should is an unexpected assertion, and such a case never counts as     *)
(* correct; the accuracy of supported diagnoses has no case in it that the   *)
(* simulator does not represent, and what it counts as correct names         *)
(* exactly the causes of the truth.                                          *)
SummaryAddsUp ==
    Reported =>
        /\ report.total = report.correct + report.incorrect + report.abstain
        /\ report.met = report.correct + report.correct_abstentions
        /\ report.unexpected = report.abstentions - report.correct_abstentions
        /\ report.unexpected <= report.incorrect
        /\ report.unsupported_assertions <= report.unsupported_failures
        /\ report.supported_correct = Cardinality(NamedRight)

=============================================================================
