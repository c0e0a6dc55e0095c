---------------------------- MODULE SyncPromise ----------------------------
(***************************************************************************)
(* What the writers of a vault are promised by its database synchroniser:  *)
(* synchronisations run one at a time, each sees every write that landed   *)
(* before it began, and no landed write stays unseen for ever.             *)
(* How requests are counted, debounced and queued is left to DbSync.       *)
(***************************************************************************)
EXTENDS Naturals

VARIABLES
  landed,  \* number of writes that have landed
  busy,    \* whether a synchronisation is running
  from,    \* number of writes landed when the latest one began
  seen     \* number of writes the latest finished one was bound to see

vars == <<landed, busy, from, seen>>

Init == landed = 0 /\ busy = FALSE /\ from = 0 /\ seen = 0

Land ==
  /\ landed' = landed + 1
  /\ UNCHANGED <<busy, from, seen>>

Begin ==
  /\ ~ busy
  /\ busy' = TRUE
  /\ from' = landed
  /\ UNCHANGED <<landed, seen>>

End ==
  /\ busy
  /\ busy' = FALSE
  /\ seen' = from
  /\ UNCHANGED <<landed, from>>

(* The caller who waited for the running synchronisation has given up.      *)
Abandon ==
  /\ busy
  /\ busy' = FALSE
  /\ UNCHANGED <<landed, from, seen>>

Next == Land \/ Begin \/ End \/ Abandon

Spec == Init /\ [][Next]_vars

(* The promise of progress: a run begins while a write is unseen, and ends. *)
Progress == WF_vars(seen < landed /\ Begin) /\ WF_vars(End)
=============================================================================
