------------------------- MODULE SimpleEmbeddingRun -------------------------
(***************************************************************************)
(* Run() of src/iree/samples/simple_embedding/simple_embedding.c as a      *)
(* sequence of ResourceSteps: every IREE_RETURN_IF_ERROR is a fallible     *)
(* step, every create, push and release is the step's effect.  The         *)
(* invocation of module.simple_mul creates the result view and its buffer *)
(* and moves the view into `outputs`.                                      *)
(***************************************************************************)
EXTENDS ResourceSteps

EmbeddingObjects ==
    {"instance", "device", "hal_module", "bytecode_module", "context",
     "arg0_buffer", "arg1_buffer", "arg0_buffer_view", "arg1_buffer_view",
     "inputs", "outputs", "ret_buffer", "ret_buffer_view", "mapped_memory"}

C(o, kids) == <<o, kids>>

RegisterTypes == Step(<<>>, {}, {}, <<>>, TRUE)
InstanceCreate == Step(<<C("instance", {})>>, {}, {}, <<>>, TRUE)
CreateSampleDevice == Step(<<C("device", {})>>, {}, {}, <<>>, TRUE)
HalModuleCreate == Step(<<C("hal_module", {"device"})>>, {}, {}, <<>>, TRUE)
BytecodeModuleCreate == Step(<<C("bytecode_module", {})>>, {}, {}, <<>>, TRUE)
ContextCreate ==
    Step(<<C("context", {"instance", "hal_module", "bytecode_module"})>>,
         {}, {}, <<>>, TRUE)
ReleaseModules == Step(<<>>, {}, {}, <<"hal_module", "bytecode_module">>, FALSE)
ResolveFunction == Step(<<>>, {}, {"context"}, <<>>, TRUE)
AllocateArg0 == Step(<<C("arg0_buffer", {})>>, {}, {"device"}, <<>>, TRUE)
AllocateArg1 == Step(<<C("arg1_buffer", {})>>, {}, {"device"}, <<>>, TRUE)
FillArg0 == Step(<<>>, {}, {"arg0_buffer"}, <<>>, TRUE)
FillArg1 == Step(<<>>, {}, {"arg1_buffer"}, <<>>, TRUE)
ViewCreate0 == Step(<<C("arg0_buffer_view", {"arg0_buffer"})>>, {}, {}, <<>>, TRUE)
ViewCreate1 == Step(<<C("arg1_buffer_view", {"arg1_buffer"})>>, {}, {}, <<>>, TRUE)

\* Mutant: the views are released where the buffers should be.
ReleaseArgViews ==
    Step(<<>>, {}, {}, <<"arg0_buffer_view", "arg1_buffer_view">>, FALSE)

ReleaseArgBuffers == Step(<<>>, {}, {}, <<"arg0_buffer", "arg1_buffer">>, FALSE)
InputsCreate == Step(<<C("inputs", {})>>, {}, {}, <<>>, TRUE)
PushArg0 == Step(<<>>, {<<"inputs", "arg0_buffer_view">>}, {}, <<>>, TRUE)
PushArg1 == Step(<<>>, {<<"inputs", "arg1_buffer_view">>}, {}, <<>>, TRUE)
OutputsCreate == Step(<<C("outputs", {})>>, {}, {}, <<>>, TRUE)
Invoke ==
    Step(<<C("ret_buffer", {}), C("ret_buffer_view", {"ret_buffer"})>>,
         {<<"outputs", "ret_buffer_view">>}, {"context", "inputs"},
         <<"ret_buffer">>, TRUE)
GetResultView == Step(<<>>, {}, {"outputs", "ret_buffer_view"}, <<>>, TRUE)
MapResult == Step(<<C("mapped_memory", {})>>, {}, {"ret_buffer"}, <<>>, TRUE)
CheckResult == Step(<<>>, {}, {"mapped_memory"}, <<>>, TRUE)
Unmap == Step(<<>>, {}, {}, <<"mapped_memory">>, FALSE)
ReleaseAll ==
    Step(<<>>, {}, {},
         <<"inputs", "outputs", "device", "context", "instance">>, FALSE)

\* Mutant: the module references are never dropped after the context
\* takes its own.
RunKeepModules ==
    <<RegisterTypes, InstanceCreate, CreateSampleDevice, HalModuleCreate,
      BytecodeModuleCreate, ContextCreate, ResolveFunction,
      AllocateArg0, AllocateArg1, FillArg0, FillArg1, ViewCreate0, ViewCreate1,
      ReleaseArgBuffers, InputsCreate, PushArg0, PushArg1, OutputsCreate,
      Invoke, GetResultView, MapResult, CheckResult, Unmap, ReleaseAll>>

RunSteps ==
    <<RegisterTypes, InstanceCreate, CreateSampleDevice, HalModuleCreate,
      BytecodeModuleCreate, ContextCreate, ReleaseModules, ResolveFunction,
      AllocateArg0, AllocateArg1, FillArg0, FillArg1, ViewCreate0, ViewCreate1,
      ReleaseArgBuffers, InputsCreate, PushArg0, PushArg1, OutputsCreate,
      Invoke, GetResultView, MapResult, CheckResult, Unmap, ReleaseAll>>

\* main() prints the status and returns; it releases nothing.
EmbeddingPrograms == {[body |-> RunSteps, epilogue |-> <<>>]}

=============================================================================
