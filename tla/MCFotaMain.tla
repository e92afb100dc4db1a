----------------------------- MODULE MCFotaMain -----------------------------
(* Small instances of FotaMain for TLC.                                    *)
EXTENDS FotaMain, TLC
=============================================================================
