----------------------------- MODULE MCOperator -----------------------------
EXTENDS Operator

A == [hash |-> "a", auth |-> "sigstore"]
B == [hash |-> "b", auth |-> "sigstore"]
None == [hash |-> NoHash, auth |-> NoAuth]

OneConfig  == {A}
TwoConfigs == {A, B}
OneNote    == {A, None}
TwoNotes   == {A, B, None}
OneNamespace == [k \in Key |-> "ns"]

OwnNames   == [u \in UID |-> IF u = "u1" THEN "p" ELSE "q"]
SharedName == [u \in UID |-> "p"]
MCPods == {p \in PodObject : p.name = NameOf[p.uid]}
MCStatuses == Status
=============================================================================
