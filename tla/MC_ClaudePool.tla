--------------------------- MODULE MC_ClaudePool ---------------------------
(* Three turns of one session key; turns are interchangeable.              *)
EXTENDS ClaudePool, TLC

CONSTANTS t1, t2, t3

MCJobs == {t1, t2, t3}
FewJobs == {t1, t2}
=============================================================================
