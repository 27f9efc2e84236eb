--------------------------- MODULE MCGstPipelines ---------------------------
(* GstPipelines has no constants: TLC checks it as it is. *)
EXTENDS GstPipelines
=============================================================================
