\* The x86_64, aarch64 and x86 relocation resolvers, each over its inputs.
CONSTANTS
    t1 = t1
    t2 = t2
SPECIFICATION Spec
\* Each resolver returns; its final states have no successor.
CHECK_DEADLOCK FALSE
INVARIANTS
    TypeOK
    ResultReflectsInput
    RelocatedImageMatchesABI
