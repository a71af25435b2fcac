----------------------------- MODULE MCExtension -----------------------------
(* Values for model checking Extension. *)
EXTENDS Extension, TLC

CONSTANTS approve, classA, classB

(* Nothing installed; one action; one that cannot be loaded; one twice.    *)
SomeEntryPoints == {<<>>, <<<<approve, classA>>>>, <<<<approve, None>>>>,
                    <<<<approve, classA>>, <<approve, classB>>>>}

(* Nothing set; one value unusable at a time; what sets them right.        *)
Nothing == [k \in Keys |-> None]
SomeSettings ==
    {Nothing,
     [Nothing EXCEPT !.BASE_TEMPLATE = "site"],
     [Nothing EXCEPT !.WORKFLOWS_UI_API_CLASS = "unusable"],
     [Nothing EXCEPT !.WORKFLOWS_UI_REST_ENDPOINT = "unusable"],
     [Nothing EXCEPT !.WORKFLOWS_UI_REST_ENDPOINT = "half"],
     [Nothing EXCEPT !.WORKFLOWS_UI_TEMPLATE_CONTEXT_PROCESSORS = "unusable"],
     [[k \in Keys |-> "own"] EXCEPT !.BASE_TEMPLATE = "site"]}
=============================================================================
