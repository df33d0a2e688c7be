--------------------------- MODULE MCOutputBench ---------------------------
(* The counter of files starts where it should, past it, or before it: the *)
(* second file of a run is then the one that finds it at 0.                *)
EXTENDS OutputBench

MCNFilesInit == {0, 7, -1}
=============================================================================
