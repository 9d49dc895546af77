CONSTANTS
    BoolFlags <- MCBoolFlags
    StringFlags <- MCStringFlags
    Unregistered <- MCUnregistered
    Values <- MCValues
    FileContents <- MCFileContents
    Argvs <- MCArgvs
    MaxDepth <- MCMaxDepth
SPECIFICATION Spec
INVARIANTS
    HelpExitsByDefault
\* iree_flags_parse returns (or exits the process): its final states have
\* no successor.
CHECK_DEADLOCK FALSE
