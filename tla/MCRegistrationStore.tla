------------------------ MODULE MCRegistrationStore ------------------------
(***************************************************************************)
(* Values of the constants of RegistrationStore for TLC: registrations of  *)
(* several services, so that a statement can fail between two of one       *)
(* registration, and three of them, so that what it leaves meets another.  *)
(***************************************************************************)
EXTENDS RegistrationStore

MCNumServices == <<2, 1, 2>>
=============================================================================
