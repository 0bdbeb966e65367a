----------------------------- MODULE MCDownload -----------------------------
(* Download with a few short files, for TLC. *)
EXTENDS Download
=============================================================================
