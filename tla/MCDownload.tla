----------------------------- MODULE MCDownload -----------------------------
(* Small instances of Download for TLC: MaxChunk and Sizes bound the data. *)
EXTENDS Download
=============================================================================
