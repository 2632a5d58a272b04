--------------------------- MODULE MCFrameBuffers ---------------------------
(* One presenter beside the renderer, frames of two lines and one of VBLANK. *)
EXTENDS FrameBuffers
=============================================================================
