------------------------------ MODULE MCDriver ------------------------------
(***************************************************************************)
(* Three devices.  1 is an FSCC card that is there when the module is      *)
(* loaded, or is taken out before; when enabling it fails in fc_probe it   *)
(* is to serialfc_init what a card with another driver is, not bound and   *)
(* found by the loop only.  2 is an Exar card the kernel's own driver is   *)
(* bound to and 3 an FSCC card, both plugged in later.  Every step may     *)
(* fail, and two users open and close nodes all the while.                 *)
(***************************************************************************)
EXTENDS DriverInvariant
=============================================================================
