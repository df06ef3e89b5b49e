---------------------------- MODULE MCUdpCapture ----------------------------
EXTENDS UdpCapture
=============================================================================
