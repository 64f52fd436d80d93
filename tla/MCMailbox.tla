------------------------------ MODULE MCMailbox ------------------------------
(***************************************************************************)
(* Instances of the mailbox for TLC: the constants are in the cfg files.   *)
(***************************************************************************)
EXTENDS Mailbox
=============================================================================
