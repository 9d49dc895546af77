CONSTANTS
    Objects <- MCObjects
    Programs <- MCAllPrograms
SPECIFICATION Spec
INVARIANTS
    TypeOK
    NoUseAfterRelease
    NoLeakOnSuccess
    BenchmarkNoLeakOnReturn
    EventNoLeakOnReturn
\* The functions return; their final state has no successor.
CHECK_DEADLOCK FALSE
