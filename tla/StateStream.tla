------------------------------ MODULE StateStream ------------------------------
(***************************************************************************)
(* What a queue that may combine pending messages promises its reader.     *)
(* Messages belong to lanes.  In every lane the reader's view is one of    *)
(* the states the producer published, and moves only forward through them. *)
(* It may skip states; it never sees one that did not exist, nor an older  *)
(* one again.                                                              *)
(***************************************************************************)
EXTENDS Integers, Sequences

CONSTANTS StreamLanes, States, FirstStates

VARIABLES published,   \* per lane: the states published so far
          seen,        \* per lane: the position of the one the reader has
          view         \* per lane: the state the reader has

streamVars == <<published, seen, view>>

StreamInit ==
  /\ view \in [StreamLanes -> FirstStates]
  /\ published = [l \in StreamLanes |-> <<view[l]>>]
  /\ seen = [l \in StreamLanes |-> 1]

PublishIn(l) ==
  /\ Len(published'[l]) = Len(published[l]) + 1
  /\ published'[l] = Append(published[l], published'[l][Len(published[l]) + 1])
  /\ published'[l][Len(published[l]) + 1] \in States
  /\ seen'[l] = seen[l] /\ view'[l] = view[l]

ObserveIn(l) ==
  /\ seen'[l] \in (seen[l] + 1)..Len(published[l])
  /\ view'[l] = published[l][seen'[l]]
  /\ published'[l] = published[l]

SameIn(l) == published'[l] = published[l] /\ seen'[l] = seen[l] /\ view'[l] = view[l]

StreamNext == \A l \in StreamLanes : SameIn(l) \/ PublishIn(l) \/ ObserveIn(l)

StreamSpec == StreamInit /\ [][StreamNext]_streamVars
================================================================================
