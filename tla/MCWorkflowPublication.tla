------------------------ MODULE MCWorkflowPublication ------------------------
(* The first version has the trigger a, the second one changes it, the third *)
(* one has the trigger b instead.                                            *)
EXTENDS WorkflowPublication

CONSTANTS m1, m2, w1

MCTriggersOf ==
    LET t(n, p) == [node |-> n, params |-> p]
    IN  SubSeq(<< {t("a", 1)}, {t("a", 2)}, {t("b", 1)} >>, 1, MaxPublishes)
=============================================================================
