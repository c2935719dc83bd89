----------------------------- MODULE MCUploader -----------------------------
(***************************************************************************)
(* Model checking of Uploader: an append, a new or replaced object, and an *)
(* atomic upload.                                                          *)
(***************************************************************************)
EXTENDS Uploader

NewAndExisting == {0, 1}

=============================================================================
