--------------------------- MODULE MCUploadHandler ---------------------------
(* UploadHandler for TLC.  Uploads are interchangeable, and so are names.  *)
EXTENDS UploadHandler, TLC

Interchangeable == Permutations(Uploads) \cup Permutations(Names)
=============================================================================
