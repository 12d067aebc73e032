----------------------------- MODULE MCTestBench -----------------------------
EXTENDS TestBench

CONSTANTS t1, t2, s1, s2, s3
=============================================================================
