----------------------------- MODULE PodMapping -----------------------------
(***************************************************************************)
(* internal/tracker/pod_mapping.go: the two maps between pod names and      *)
(* UIDs, here one value [uidOf, nameOf] of partial functions.               *)
(***************************************************************************)
EXTENDS Maps

IsPodMapping(m, Names, UIDs) ==
    /\ m = [uidOf |-> m.uidOf, nameOf |-> m.nameOf]
    /\ IsMap(m.uidOf, Names, UIDs)
    /\ IsMap(m.nameOf, UIDs, Names)

NewPodMapping == [uidOf  |-> EmptyMap,     \* nameToUID
                  nameOf |-> EmptyMap]     \* uidToName

removePod(m, name, uid) == [uidOf  |-> Drop(m.uidOf, {name}),
                            nameOf |-> Drop(m.nameOf, {uid})]

AddPod_ThenClear(m, name, uid) ==
    removePod([uidOf  |-> Put(m.uidOf, name, uid),
               nameOf |-> Put(m.nameOf, uid, name)], name, uid)

(* The reverse entry of a UID the name had before is not removed.           *)
AddPod(m, name, uid) ==
    LET cleared == removePod(m, name, uid) IN
    [uidOf  |-> Put(cleared.uidOf, name, uid),
     nameOf |-> Put(cleared.nameOf, uid, name)]

RemovePodsByName_KeepsName(m, names) ==
    [uidOf  |-> m.uidOf,
     nameOf |-> Drop(m.nameOf, {m.uidOf[n] : n \in names \cap DOMAIN m.uidOf})]

(* Each name goes with the UID it has now.                                  *)
RemovePodsByName(m, names) ==
    [uidOf  |-> Drop(m.uidOf, names),
     nameOf |-> Drop(m.nameOf, {m.uidOf[n] : n \in names \cap DOMAIN m.uidOf})]
=============================================================================
