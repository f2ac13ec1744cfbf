------------------------------ MODULE MCFramer ------------------------------
(* Model checking of Framer behind a garbled status frame. *)
EXTENDS Framer, FramerStreams
=============================================================================
