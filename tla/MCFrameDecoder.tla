--------------------------- MODULE MCFrameDecoder ---------------------------
EXTENDS FrameDecoder
=============================================================================
