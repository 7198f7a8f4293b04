-------------------------- MODULE MCFFmpegWorker --------------------------
(* Model-checking instances of FFmpegWorker; the bounds are in the cfgs.    *)
EXTENDS FFmpegWorker
=============================================================================
