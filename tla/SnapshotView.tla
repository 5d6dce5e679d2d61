---------------------------- MODULE SnapshotView ----------------------------
(***************************************************************************)
(* What the document store promises about one programme scope: a current   *)
(* view that changes one document at a time, and checkpoints that keep the *)
(* view as it was and can bring all of it back at once.  Versions,         *)
(* pointers, revisions and writers are absent; DocumentStore is shown to   *)
(* implement this module.                                                  *)
(***************************************************************************)
CONSTANTS Keys, Checkpoints, NoDocument, NoCheckpoint

VARIABLES view,      \* view[k]: the current document under k, or NoDocument
          saved      \* saved[c]: the view kept by checkpoint c, or NoCheckpoint

Init ==
  /\ view = [k \in Keys |-> NoDocument]
  /\ saved = [c \in Checkpoints |-> NoCheckpoint]

Write(k) ==
  /\ view' = [view EXCEPT ![k] = view'[k]]
  /\ view'[k] # NoDocument
  /\ UNCHANGED saved

Save(c) ==
  /\ saved[c] = NoCheckpoint
  /\ saved' = [saved EXCEPT ![c] = view]
  /\ UNCHANGED view

Restore(c) ==
  /\ saved[c] # NoCheckpoint
  /\ view' = saved[c]
  /\ UNCHANGED saved

Next ==
  \/ \E k \in Keys : Write(k)
  \/ \E c \in Checkpoints : Save(c) \/ Restore(c)

Spec == Init /\ [][Next]_<<view, saved>>
=============================================================================
