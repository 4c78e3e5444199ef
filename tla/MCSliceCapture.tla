--------------------------- MODULE MCSliceCapture ---------------------------
EXTENDS SliceCapture

CONSTANTS first, second
=============================================================================
