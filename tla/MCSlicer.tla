-------------------------------- MODULE MCSlicer --------------------------------
(* The slicer over a registry that grows once, with a short count of idle passes. *)
EXTENDS Slicer, TLC

================================================================================
