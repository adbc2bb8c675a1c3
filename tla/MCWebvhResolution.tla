------------------------- MODULE MCWebvhResolution -------------------------
(* WebvhResolution with the kinds of version that matter. *)
EXTENDS WebvhResolution, TLC

Plain == [witnessed |-> FALSE, deactivated |-> FALSE, vm |-> "inline"]
Witnessed == [Plain EXCEPT !.witnessed = TRUE, !.vm = "allowed"]
Deactivation == [Plain EXCEPT !.deactivated = TRUE]
OnRefusedHost == [Plain EXCEPT !.vm = "refused"]
AllKinds == {Plain, Witnessed, Deactivation, OnRefusedHost}

(* The resolutions under way are alike. *)
Interchangeable == Permutations(Slots)
=============================================================================
