-------------------------- MODULE MCCompletionQueue --------------------------
EXTENDS CompletionQueue
==============================================================================
