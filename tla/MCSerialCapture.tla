--------------------------- MODULE MCSerialCapture ---------------------------
EXTENDS SerialCapture
=============================================================================
