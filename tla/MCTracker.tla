------------------------------ MODULE MCTracker ------------------------------
(* Tracker on small instances: the configurations give every constant.     *)
EXTENDS Tracker
=============================================================================
