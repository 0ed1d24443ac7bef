\* The use cases on one event loop, with POSIX errors at any operation.
CONSTANTS
    Runs <- MCRuns
SPECIFICATION FairSpec
INVARIANTS WTypeOK NoUseAfterClose ResourcesReleased PlanExecuted
PROPERTIES UseCaseReturns
CHECK_DEADLOCK FALSE
