------------------------ MODULE MCEpisodeController ------------------------
(* The controller of one episode, for TLC.                                *)
EXTENDS EpisodeController
=============================================================================
