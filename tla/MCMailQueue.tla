----------------------------- MODULE MCMailQueue ----------------------------
EXTENDS MailQueue

CONSTANTS l1, m1, m2
=============================================================================
