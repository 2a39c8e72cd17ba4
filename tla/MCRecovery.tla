----------------------------- MODULE MCRecovery -----------------------------
(***************************************************************************)
(* Recovery on two tracked files and one untracked file, each of which may *)
(* be missing at first.                                                    *)
(***************************************************************************)
EXTENDS Recovery, TLC

CONSTANTS f1, f2, u

MCFile == {f1, f2, u}
MCTracked == {f1, f2}
=============================================================================
