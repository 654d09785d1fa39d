---------------------------- MODULE MCDownloader ----------------------------
(***************************************************************************)
(* Instance of Downloader for TLC.                                         *)
(***************************************************************************)
EXTENDS Downloader

\* Two disturbances of a full sync, one of a fast sync.
MCMaxFaults == [m \in Modes |-> IF m = "full" THEN 2 ELSE 1]

\* After one fast sync the node stays with full syncs.
MCMaxSyncs == [m \in Modes |-> IF m = "full" THEN 2 ELSE 1]
=============================================================================
