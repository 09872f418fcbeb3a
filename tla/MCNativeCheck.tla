---------------------------- MODULE MCNativeCheck -----------------------------
(***************************************************************************)
(* A small instance of NativeCheck for TLC.                                *)
(***************************************************************************)
EXTENDS NativeCheck

\* Probes of every kind, as in the script: builds and runs, both lockings, reports,
\* acceptance.
MCProbe == <<"run", "sigterm", "sigkill", "run", "report", "report", "accept">>
===============================================================================
