------------------------------- MODULE MCEntry -------------------------------
EXTENDS Entry
MCFds == {-1, 0, 3}
==============================================================================
