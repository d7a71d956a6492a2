----------------------------- MODULE PodWebhook -----------------------------
(***************************************************************************)
(* internal/webhooks/pod_webhook.go: what Handle decides of a pod that is   *)
(* created or updated.  A pod is the PodObject of StatusTracker.tla; that   *)
(* its spec holds a validation container shows in its annotations, which    *)
(* are written together with the container.  The container itself, and the  *)
(* requests Handle cannot decode or look up a namespace for, are left out.  *)
(***************************************************************************)
CONSTANTS NoLabel,      \* the pod does not name a ModelValidation
          Unannotated   \* the configuration of a pod that was not injected

Refused     == [allowed |-> FALSE]
Admitted(p) == [allowed |-> TRUE, pod |-> p]

HasValidation(pod) == pod.config # Unannotated

(* known: the ModelValidations client.Get finds, by key; ignored: the       *)
(* namespace carries the ignore label.                                      *)
Handle(pod, known, ignored) ==
    IF ignored \/ pod.label = NoLabel THEN Admitted(pod)
    ELSE IF pod.label \notin DOMAIN known THEN Refused
    ELSE IF HasValidation(pod) THEN Admitted(pod)
    ELSE Admitted([pod EXCEPT !.finalizer = TRUE,
                              !.config = known[pod.label].config])
=============================================================================
