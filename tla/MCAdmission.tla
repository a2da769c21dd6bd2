----------------------------- MODULE MCAdmission -----------------------------
(***************************************************************************)
(* Instances of Admission for TLC.                                         *)
(***************************************************************************)
EXTENDS Admission, MCProjectQuota

================================================================================
