---------------------------- MODULE MCSimDetect ----------------------------
\* The instance of SimDetect for TLC.
EXTENDS SimDetect
=============================================================================
