--------------------------- MODULE IronyClientMC ---------------------------
(* An instance of irony-mode's queue: three requests on one server, or two  *)
(* on two servers one after the other, the second request perhaps made by   *)
(* the callback of the first.                                               *)
EXTENDS IronyClient

MCAgain == {1}

(* What follows after outputs were mixed is not looked at. All counters     *)
(* only grow: a state that is left out is on no way to one that is not.     *)
InBounds == ~emacs.mixed /\ (emacs.requests < MaxRequest \/ emacs.made < MaxProcess)
=============================================================================
