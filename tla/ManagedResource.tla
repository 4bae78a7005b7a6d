--------------------------- MODULE ManagedResource ---------------------------
(***************************************************************************)
(* What the controller promises about one custom resource and the AWS      *)
(* resource it stands for, whatever the kind: the AWS resource is created  *)
(* only under a finalizer, removed only when the object is being deleted,  *)
(* and the object is let go only when the AWS resource is no longer there. *)
(* The detailed managers implement this module.                            *)
(***************************************************************************)

VARIABLES
    object,    \* the Kubernetes object: absent, live or deleting
    held,      \* whether the controller's finalizer holds it
    exists     \* whether the AWS resource is there for others to use

vars == <<object, held, exists>>

Init == object = "absent" /\ held = FALSE /\ exists = FALSE

Declare == object = "absent" /\ object' = "live" /\ UNCHANGED <<held, exists>>

Hold == object # "absent" /\ held' = TRUE /\ UNCHANGED <<object, exists>>

Provision ==
    /\ object # "absent" /\ held /\ ~exists
    /\ exists' = TRUE
    /\ UNCHANGED <<object, held>>

\* The user deletes the object, which goes at once when nothing holds it.
Retire ==
    /\ object = "live"
    /\ object' = IF held THEN "deleting" ELSE "absent"
    /\ UNCHANGED <<held, exists>>

Deprovision ==
    /\ object = "deleting" /\ exists
    /\ exists' = FALSE
    /\ UNCHANGED <<object, held>>

\* The finalizer comes off, and with it an object that is being deleted.
LetGo ==
    /\ held /\ ~exists
    /\ held' = FALSE
    /\ object' = IF object = "deleting" THEN "absent" ELSE object
    /\ UNCHANGED exists

Next == Declare \/ Hold \/ Provision \/ Retire \/ Deprovision \/ LetGo

Spec == Init /\ [][Next]_vars
=============================================================================
