------------------------------ MODULE MCStartup -------------------------------
(***************************************************************************)
(* Every compose file over four names: every graph of up to four services, *)
(* and of up to three with dependencies that are missing from the file.    *)
(***************************************************************************)
EXTENDS Startup
=============================================================================
