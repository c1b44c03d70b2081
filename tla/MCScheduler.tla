---------------------------- MODULE MCScheduler ----------------------------
EXTENDS Scheduler

=============================================================================
