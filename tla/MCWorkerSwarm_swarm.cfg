\* Teams of one to four workers and a reviewer, up to three calls at once.
SPECIFICATION Spec
CONSTANT Jobs <- MCJobs
INVARIANTS DataStaysPermitted VerdictIsHonest AdviceMatchesRouting
PROPERTY RunsEnd
\* A run stops when it has reported or was refused.
CHECK_DEADLOCK FALSE
