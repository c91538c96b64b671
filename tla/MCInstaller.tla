---------------------------- MODULE MCInstaller ----------------------------
(***************************************************************************)
(* A small instance of Installer for TLC.                                  *)
(***************************************************************************)
EXTENDS Installer

CONSTANTS b1, t1, t2
=============================================================================
