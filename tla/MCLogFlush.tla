------------------------------ MODULE MCLogFlush ------------------------------
(***************************************************************************)
(* Instances of LogFlush for TLC.                                           *)
(***************************************************************************)
EXTENDS LogFlush

(* January 11 and November 1, as month and day: different instants, the     *)
(* same digits.                                                             *)
TwoInstants == << <<1, 11>>, <<11, 1>> >>
=============================================================================
