CONSTANTS
    Stem <- SomeStem
    ObjectName <- SomeObjectName
    Invocations = {i1, i2}
    Pids = {p1, p2}
    CommandLines <- AllJobs
    SourceFiles = {"foo", "foo.pudl"}
    ObjectFiles = {"foo.o"}
    OutputFiles = {"x"}
    Resolve <- SomeResolve
    Linkers <- SomeLinkers
    Interpreters <- SomeInterpreters
    MaxInterrupts = 1
SPECIFICATION Spec
INVARIANTS TypeOK UsesOwnFiles TempsDiffer TempsRemoved NothingRunsAfterFailure SilentMeansMade InputSurvives
PROPERTIES Termination
