-------------------------- MODULE MCImageUploader --------------------------
(* Small instances of ImageUploader for TLC.                                  *)
EXTENDS ImageUploader
=============================================================================
