------------------------------- MODULE MCSleep -------------------------------
\* Every threshold is two, so that each counter can be stopped on its way.
EXTENDS Sleep
=============================================================================
