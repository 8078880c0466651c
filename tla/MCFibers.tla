------------------------------ MODULE MCFibers ------------------------------
EXTENDS FiberScheduler
\* Requests beyond both ends of the priority range.
BothEnds == {-5, 300}
=============================================================================
