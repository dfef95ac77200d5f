------------------------------ MODULE MCInput ------------------------------
(* Input and Window for TLC: sizes of a few pixels.                        *)
EXTENDS Input

S(width, height) == [w |-> width, h |-> height]
MCFrameSizes == {S(5, 8), S(8, 5)}
MCUserSizes == {S(3, 6)}
MCDisplay == S(11, 7)
MCMaximized == S(12, 8)
MCFullscreen == S(13, 9)
=============================================================================
