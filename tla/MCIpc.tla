------------------------------- MODULE MCIpc -------------------------------
\* A subscription of IPC, for TLC: channel and packet numbers are small bounds.
EXTENDS Ipc
=============================================================================
