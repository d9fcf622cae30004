------------------------------ MODULE MCRecovery ------------------------------
EXTENDS Recovery

\* Two queues of one session, whose order in the file is open, and one of another.
MCQueues == {<<1, 1>>, <<1, 2>>, <<2, 1>>}
=============================================================================
