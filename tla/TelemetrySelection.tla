------------------------ MODULE TelemetrySelection ------------------------
(***************************************************************************)
(* internal/webhooks/telemetry.go: which TelemetryConfig the webhook takes  *)
(* for a pod, out of those it lists.  A TelemetryConfig is known by its     *)
(* key, namespace and name; what it has the webhook inject is left out.     *)
(***************************************************************************)
EXTENDS Naturals, FiniteSets

CONSTANTS Label,          \* "key=value" labels
          Namespace,
          Config,         \* keys of TelemetryConfigs
          ConfigNamespace,\* the namespace in a key
          Rank            \* where namespace/name comes in the order of strings

ASSUME SelectionAssumption ==
    /\ ConfigNamespace \in [Config -> Namespace]
    /\ Rank \in [Config -> Nat]
    /\ \A j, k \in Config : Rank[j] = Rank[k] => j = k

(* A selector is the set of its terms: entries of matchLabels, and          *)
(* expressions that want a label, want none, or cannot be converted.  No    *)
(* selector and an empty one are the same.                                  *)
Term     == [kind : {"label", "in", "notIn", "invalid"}, label : Label]
Selector == {terms \in SUBSET Term : IsFiniteSet(terms)}

TracingSpec == [enabled : BOOLEAN, namespaceSelector : Selector, selector : Selector]

(* LabelSelectorAsSelector returns no error.                                *)
Valid(sel) == \A t \in sel : t.kind # "invalid"

Matches(sel, labels) ==
    \A t \in sel : (t.label \in labels) <=> (t.kind \in {"label", "in"})

selectorSpecificity_LabelsOnly(sel) == Cardinality({t \in sel : t.kind = "label"})

selectorSpecificity(sel) == Cardinality(sel)

Specificity(spec) == selectorSpecificity(spec.namespaceSelector)
                     + selectorSpecificity(spec.selector)

Selects(sel, labels) == Valid(sel) /\ Matches(sel, labels)

(* A configuration with an invalid selector is passed over.                 *)
Eligible(spec, nsLabels, mvLabels) == /\ spec.enabled
                                      /\ Selects(spec.namespaceSelector, nsLabels)
                                      /\ Selects(spec.selector, mvLabels)

(* list: the specs of the TelemetryConfigs listed, by key.                  *)
Candidates_StopAtInvalid(list, nsLabels, mvLabels) ==
    IF \E k \in DOMAIN list : ~Valid(list[k].namespaceSelector) \/ ~Valid(list[k].selector)
    THEN {}
    ELSE {k \in DOMAIN list : Eligible(list[k], nsLabels, mvLabels)}

Candidates(list, nsLabels, mvLabels) ==
    {k \in DOMAIN list : Eligible(list[k], nsLabels, mvLabels)}

Before_NoNames(list, ns, j, k) ==
    LET here(c) == ConfigNamespace[c] = ns IN
    \/ Specificity(list[j]) > Specificity(list[k])
    \/ /\ Specificity(list[j]) = Specificity(list[k])
       /\ here(j) /\ ~here(k)

(* The order of the sort: most terms first, then the pod's own namespace,   *)
(* then namespace/name.                                                     *)
Before(list, ns, j, k) ==
    LET here(c) == ConfigNamespace[c] = ns IN
    \/ Specificity(list[j]) > Specificity(list[k])
    \/ /\ Specificity(list[j]) = Specificity(list[k])
       /\ \/ here(j) /\ ~here(k)
          \/ (here(j) <=> here(k)) /\ Rank[j] < Rank[k]

(* What may come first when sort.Slice, which is not stable, has sorted the *)
(* candidates, in whatever order they were listed.                          *)
Winners(list, ns, nsLabels, mvLabels) ==
    LET candidates == Candidates(list, nsLabels, mvLabels)
    IN {w \in candidates : \A c \in candidates : ~Before(list, ns, c, w)}
=============================================================================
