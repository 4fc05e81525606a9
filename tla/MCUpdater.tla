----------------------------- MODULE MCUpdater -----------------------------
(***************************************************************************)
(* Updater for TLC: an installed release and two to come, of growing size, *)
(* the second with the version of the first in its zip.                    *)
(***************************************************************************)
EXTENDS Updater

MCSize == <<1, 2, 3>>
=============================================================================
