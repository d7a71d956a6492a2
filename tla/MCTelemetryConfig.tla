------------------------- MODULE MCTelemetryConfig -------------------------
EXTENDS TelemetryConfig

Homes == [k \in Config |-> "n1"]
Order == [k \in Config |-> IF k = "n1/x" THEN 1 ELSE 2]

LabelSets == {{}, {"a"}}

Everything == [enabled |-> TRUE, namespaceSelector |-> {}, selector |-> {}]
Want(kind) == {[kind |-> kind, label |-> "a"]}

Labelled == [Everything EXCEPT !.namespaceSelector = Want("label")]
Unwanted == [Everything EXCEPT !.selector = Want("notIn")]
Broken   == [Everything EXCEPT !.selector = Want("invalid")]

ThreeSpecs == {Labelled, Unwanted, Broken}

OneOrTwo      == {[k \in {"n1/x"} |-> Labelled], [k \in Config |-> Labelled]}
TwoNamespaces == {[n \in Namespace |-> IF n = "n1" THEN {} ELSE {"a"}]}
OneMV         == {[m \in ModelValidation |-> {}]}
=============================================================================
