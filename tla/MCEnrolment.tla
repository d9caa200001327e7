----------------------------- MODULE MCEnrolment -----------------------------
(* Symmetry: devices and commands are interchangeable. *)
EXTENDS Enrolment, TLC

MCSymmetry == Permutations(Device) \cup Permutations(Cmd)
=============================================================================
