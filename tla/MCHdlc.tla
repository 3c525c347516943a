------------------------------- MODULE MCHdlc -------------------------------
\* The instance of Hdlc for TLC.
EXTENDS Hdlc
=============================================================================
