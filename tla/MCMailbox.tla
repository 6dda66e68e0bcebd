------------------------------ MODULE MCMailbox ------------------------------
EXTENDS Mailbox

CONSTANTS t1, t2

OneHost == <<"host1">>
=============================================================================
