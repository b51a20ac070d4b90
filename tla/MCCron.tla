------------------------------- MODULE MCCron -------------------------------
EXTENDS CronService, TLC
CONSTANTS every, once, beat
=============================================================================
