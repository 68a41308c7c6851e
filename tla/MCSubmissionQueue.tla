-------------------------- MODULE MCSubmissionQueue --------------------------
EXTENDS SubmissionQueue
==============================================================================
