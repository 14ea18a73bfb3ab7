---------------------------- MODULE MCValidation ----------------------------
(* Validation for TLC.                                                     *)
EXTENDS Validation

(* The ring of one rank is skipped.                                        *)
TwoRings == << <<0, 2, 1>>, <<0>>, <<1, 2>> >>
=============================================================================
