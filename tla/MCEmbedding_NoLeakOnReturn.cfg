CONSTANTS
    Objects <- MCObjects
    Programs <- MCEmbeddingPrograms
SPECIFICATION Spec
INVARIANTS
    NoLeakOnReturn
\* Run() returns; its final state has no successor.
CHECK_DEADLOCK FALSE
