------------------------------ MODULE MCAutoMirror ------------------------------
(***************************************************************************)
(* Instances of AutoMirror for TLC.  The fills are interchangeable, but    *)
(* the properties are temporal: symmetry would not be sound.               *)
(***************************************************************************)
EXTENDS AutoMirror

CONSTANTS f1, f2
=================================================================================
