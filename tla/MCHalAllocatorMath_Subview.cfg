\* Subviews of every in-bounds box, contiguous in the view or not.
CONSTANT RootOps <- MCAllSubviewOps
SPECIFICATION Spec
INVARIANT SubviewIsSlice
CHECK_DEADLOCK FALSE
