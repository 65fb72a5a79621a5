------------------------------ MODULE MCRfLink -------------------------------
\* Two wireless links, so that the module can be on a wrong one; every counter
\* short, but long enough to be interrupted on its way.
EXTENDS RfLink
=============================================================================
