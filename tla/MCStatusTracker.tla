--------------------------- MODULE MCStatusTracker ---------------------------
EXTENDS StatusTracker

(* The configuration of the ModelValidations, and pods annotated with it or *)
(* not at all.                                                              *)
A == [hash |-> "a", auth |-> "sigstore"]
None == [hash |-> NoHash, auth |-> NoAuth]

OneConfig == {A}
MCNote == {A, None}
OneNamespace == [k \in Key |-> "ns"]

Object(n, u, k, f, c) ==
    [name |-> n, uid |-> u, label |-> k, finalizer |-> f, config |-> c]

(* One name and two pods of that name, one after the other: the first is    *)
(* injected and its label moves from one ModelValidation to the other.      *)
MCPods == {Object("p", "u1", "mv1", TRUE, A),
           Object("p", "u1", "mv2", TRUE, A),
           Object("p", "u2", "mv1", FALSE, None)}

MCStatuses == {NoStatus, [NoStatus EXCEPT !.auth = "sigstore"]}
=============================================================================
