---------------------------- MODULE MCEvaluation ----------------------------
(* Corpora for Evaluation: one file with two hypotheses, or two files about  *)
(* one of them.                                                              *)
EXTENDS Evaluation

CONSTANTS h1, h2, stranger

Classes == Fields \cup {"indeterminate"}
Files(expectations, classes) ==
    [type : {"golden", "badcase", "insufficient-evidence"}, support : {"supported", "unsupported"},
     outcome : {"diagnose", "abstain"},
     scope : {"pipeline-and-evaluation", "evaluation-only-counterfactual"},
     expected : expectations, classes : classes]

(* Expected lists may overlap or name hypotheses the scenario does not have. *)
Anything == [Fields -> SUBSET {h1, h2, stranger}]
OneFile == {<<f>> : f \in Files({e \in Anything : e["amplifier"] \subseteq {h1}
                                                    /\ stranger \notin e["not-causal"]},
                                [HypothesisIds -> Classes])}
AboutOne == [Fields -> SUBSET {h1}]
Simple == Files(AboutOne, {c \in [HypothesisIds -> Classes] : c[h2] = "indeterminate"})
TwoFiles == {<<f, g>> : f, g \in {f \in Simple : Validated(f)}}

MCCorpora == OneFile \cup TwoFiles
=============================================================================
