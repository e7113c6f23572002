--------------------------- MODULE MCPreviewQueue ---------------------------
(* Small instances of PreviewQueue.                                         *)
EXTENDS PreviewQueue
=============================================================================
