----------------------------- MODULE MCUploads ------------------------------
(* A finite instance of Uploads for TLC. *)
EXTENDS Uploads

TinyPipeline == <<"selfPlagiarism", "grammar">>
OneStage == <<"grammar">>
=============================================================================
