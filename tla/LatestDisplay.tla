---------------------------- MODULE LatestDisplay ----------------------------
(***************************************************************************)
(* What a button promises: requests to draw it are numbered as they come,  *)
(* one at a time is put on the device, never an older one after a newer,   *)
(* and never one from before the present appearance of the button.         *)
(***************************************************************************)
EXTENDS Naturals

VARIABLES
  asked,      \* number of the newest request
  owned,      \* first number that belongs to the present appearance
  showing,    \* the request being put on the device, as a set
  shown       \* the request last put on the device, 0 for none

vars == <<asked, owned, showing, shown>>

Init == asked = 0 /\ owned = 1 /\ showing = {} /\ shown = 0

Ask == asked' = asked + 1 /\ UNCHANGED <<owned, showing, shown>>

(* The button appears, disappears or is set up anew. *)
Renew == owned' = asked + 1 /\ UNCHANGED <<asked, showing, shown>>

Begin ==
  /\ showing = {}
  /\ \E n \in owned..asked : n > shown /\ showing' = {n}
  /\ UNCHANGED <<asked, owned, shown>>

(* The device takes the picture, or refuses it. *)
End ==
  /\ \E n \in showing : shown' \in {shown, n}
  /\ showing' = {}
  /\ UNCHANGED <<asked, owned>>

Next == Ask \/ Renew \/ Begin \/ End

Spec == Init /\ [][Next]_vars
=============================================================================
