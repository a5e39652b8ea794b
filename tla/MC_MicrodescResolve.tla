------------------------ MODULE MC_MicrodescResolve ------------------------
(* Three relays over three digests with chunks of two: every collision     *)
(* pattern, two chunks, and every choice of failed chunk and lost          *)
(* microdescriptor.                                                        *)
EXTENDS MicrodescResolve

CONSTANTS d1, d2, d3

MCDigests == {d1, d2, d3}
=============================================================================
