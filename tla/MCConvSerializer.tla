-------------------------- MODULE MCConvSerializer --------------------------
\* An instance of ConvSerializer for TLC: a conversation with two tasks or
\* more while another has one, and a mutex for each task.
EXTENDS ConvSerializer

CONSTANTS t1, t2, t3, c1, c2, m1, m2, m3

MCTasks == {t1, t2, t3}

MCCids == {c1, c2}

MCMutexes == {m1, m2, m3}
=============================================================================
