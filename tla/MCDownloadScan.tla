--------------------------- MODULE MCDownloadScan ---------------------------
(* DownloadScan with an infected film and a clean one of the same title. *)
EXTENDS DownloadScan

CONSTANTS film, upgrade
=============================================================================
