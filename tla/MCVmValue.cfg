\* Constructors of every type over floats with a fraction.
CONSTANTS
    I32Inputs <- MCI32Inputs
    I64Inputs <- MCI64Inputs
    F32Inputs <- MCF32Inputs
    F64Inputs <- MCF64Inputs
SPECIFICATION Spec
INVARIANT GetOfMakeRoundTrips
