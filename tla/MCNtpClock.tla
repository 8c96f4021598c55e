----------------------------- MODULE MCNtpClock -----------------------------
EXTENDS NtpClock
MCSetups == {0, 3}
MCStarts == {250, 257}
MCSyncSecs == {0, 4}
=============================================================================
