-------------------------- MODULE MCPreprocessor --------------------------
(***************************************************************************)
(* Sources of a few lines, with conditions in files that are included.     *)
(***************************************************************************)
EXTENDS Preprocessor

MCAddress == 1 .. 3
MCLineNumbers == {0, 5}
=============================================================================
