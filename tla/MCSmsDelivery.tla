--------------------------- MODULE MCSmsDelivery ---------------------------
EXTENDS SmsDelivery
CONSTANTS m1, m2, s1
TwoMsgs == {m1, m2}
OneMsg == {m1}
MCSession == {s1}
=============================================================================
