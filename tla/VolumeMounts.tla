---------------------------- MODULE VolumeMounts ----------------------------
(***************************************************************************)
(* internal/webhooks/pod_webhook.go: which of the pod's mounts its          *)
(* validation containers get, and what a container sees through its mounts. *)
(* A container's mounts are a function from paths as they are written,      *)
(* since no two of them may be the same text; the webhook compares texts,   *)
(* the kubelet mounts at places, where slashes that are doubled or at the   *)
(* end do not count.  No part of a path is . or .. here.                    *)
(***************************************************************************)
EXTENDS AgentArguments

Root == <<"/", "/">>

Mount == [volume : STRING, readOnly : BOOLEAN]

-----------------------------------------------------------------------------
(* The webhook *)

(* Without a slash at the end, if there is one.                             *)
Bare(path) == IF Len(path) > 1 /\ Last(path) = "/" THEN Front(path) ELSE path

(* The mount covers the path: it is it, or a directory above it.            *)
Covers_Below(mountPath, path) == IsStrictPrefix(Bare(mountPath), path)

Covers(mountPath, path) == path = mountPath \/ IsStrictPrefix(Bare(mountPath), path)

collectNeededPaths(model, config) ==
    ({model.path, model.signaturePath} \cup config.pki \cup config.publicKey \cup config.trust)
    \ {<<>>}

WantedMounts(containers, needed) ==
    {q \in UNION {DOMAIN containers[i] : i \in DOMAIN containers} :
        q # Root /\ \E p \in needed : Covers(q, p)}

(* The first container that mounts something there.                         *)
FirstWith(containers, q) ==
    CHOOSE i \in DOMAIN containers :
        /\ q \in DOMAIN containers[i]
        /\ \A j \in 1 .. i - 1 : q \notin DOMAIN containers[j]

filterVolumeMounts(containers, needed) ==
    [q \in WantedMounts(containers, needed) |->
        [volume |-> containers[FirstWith(containers, q)][q].volume, readOnly |-> TRUE]]

-----------------------------------------------------------------------------
(* The kubelet *)

(* Where a path leads.                                                      *)
Place(path) == AllBut(path, "/")

(* The mounts in which the path is.                                         *)
Above(mounts, path) ==
    {q \in DOMAIN mounts : Place(q) # <<>> /\ IsPrefix(Place(q), Place(path))}

(* The volume a container with these mounts sees at a path, in a set; of    *)
(* two mounts at one place it may be either.                                *)
Sees(mounts, path) ==
    {mounts[q].volume : q \in {d \in Above(mounts, path) :
                          \A r \in Above(mounts, path) : Len(Place(r)) <= Len(Place(d))}}

(* What containers see there, all of them together.                         *)
SeenAt(containers, path) == UNION {Sees(containers[i], path) : i \in DOMAIN containers}

-----------------------------------------------------------------------------
(* Where the webhook's texts agree with the kubelet's places *)

(* Absolute, and no slash is doubled.                                       *)
PlainPath(path) == Bare(path) = <<"/">> \o Place(path)

(* A mount at the path itself has no slash at the end the path has not.     *)
Comparable(mountPath, path) ==
    /\ PlainPath(mountPath) /\ PlainPath(path)
    /\ Place(mountPath) = Place(path) => mountPath \in {path, Bare(path)}
=============================================================================
