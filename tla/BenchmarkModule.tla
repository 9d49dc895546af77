-------------------------- MODULE BenchmarkModule ---------------------------
(***************************************************************************)
(* main() and class IREEBenchmark of src/iree/tools/                       *)
(* iree-benchmark-module-main.cc as ResourceSteps.  The body is Register() *)
(* (Init() and the registration of the benchmarks) followed, when it      *)
(* succeeds, by the benchmark runs; the epilogue is ~IREEBenchmark(),     *)
(* which runs on both of main()'s returns as iree_benchmark leaves scope. *)
(* IREE_CHECK_OK aborts the process, so a step under it cannot fail and   *)
(* return.  Each registered benchmark is run for one iteration.           *)
(***************************************************************************)
EXTENDS ResourceSteps

BenchmarkObjects ==
    {"instance", "device", "hal_module", "input_module", "context",
     "inputs", "outputs"}

\* The kinds of exported function RegisterAllExportedFunctions meets: with
\* the 'benchmark' attribute, internal ("__" prefix or a '$'), without
\* arguments, and with arguments.
ExportKinds == {"benchmark", "internal", "no_args", "with_args"}

B(o, kids) == <<o, kids>>

GetModuleContents == Step(<<>>, {}, {}, <<>>, TRUE)
BmRegisterTypes == Step(<<>>, {}, {}, <<>>, TRUE)
BmInstanceCreate == Step(<<B("instance", {})>>, {}, {}, <<>>, TRUE)
CreateDevice == Step(<<B("device", {})>>, {}, {}, <<>>, TRUE)
CreateHalModule == Step(<<B("hal_module", {"device"})>>, {}, {}, <<>>, TRUE)
LoadBytecodeModule == Step(<<B("input_module", {})>>, {}, {}, <<>>, TRUE)
BmContextCreate ==
    Step(<<B("context", {"instance", "hal_module", "input_module"})>>,
         {}, {}, <<>>, TRUE)

InitSteps ==
    <<GetModuleContents, BmRegisterTypes, BmInstanceCreate, CreateDevice,
      CreateHalModule, LoadBytecodeModule, BmContextCreate>>

LookupFunction == Step(<<>>, {}, {"input_module"}, <<>>, TRUE)
ParseToVariantList == Step(<<B("inputs", {})>>, {}, {"device"}, <<>>, FALSE)
GetSignature == Step(<<>>, {}, {"input_module"}, <<>>, FALSE)
GetFunction == Step(<<>>, {}, {"input_module"}, <<>>, FALSE)
CountArguments == Step(<<>>, {}, {}, <<>>, TRUE)

\* One iteration of BenchmarkFunction: a fresh outputs list (a vm::ref that
\* releases it at the end of the iteration) and the invocation.
Iteration(uses) ==
    Step(<<B("outputs", {})>>, {}, uses \cup {"outputs"}, <<"outputs">>, FALSE)

\* RegisterAllExportedFunctions over the exports, in order: the steps it
\* takes and the number of benchmarks it registers.
RECURSIVE ExportSteps(_)
ExportSteps(exports) ==
    IF exports = <<>> THEN [steps |-> <<>>, registered |-> 0]
    ELSE LET rest == ExportSteps(Tail(exports))
             k == Head(exports)
             mine == CASE k = "benchmark" -> [steps |-> <<GetFunction>>, n |-> 1]
                       [] k = "internal" -> [steps |-> <<GetFunction>>, n |-> 0]
                       [] k = "no_args" ->
                            [steps |-> <<GetFunction, CountArguments>>, n |-> 1]
                       [] OTHER ->
                            [steps |-> <<GetFunction, CountArguments>>, n |-> 0]
         IN [steps |-> mine.steps \o rest.steps,
             registered |-> mine.n + rest.registered]

\* Register() with --entry_function set, then its one benchmark.
SpecificBody ==
    InitSteps \o <<LookupFunction, ParseToVariantList>>
              \o <<Iteration({"context", "inputs"})>>

\* Register() without --entry_function, then every registered benchmark.
AllBody(exports) ==
    LET r == ExportSteps(exports)
    IN InitSteps \o <<GetSignature>> \o r.steps
                 \o [i \in 1..r.registered |-> Iteration({"context"})]

\* Mutant: the destructor forgets inputs_.reset().
DtorNoInputs ==
    <<Step(<<>>, {}, {},
           <<"context", "hal_module", "input_module", "device", "instance">>,
           FALSE)>>

\* ~IREEBenchmark(): "Order matters."  The releases are NULL-safe, so the
\* destructor also runs after a failed Init().
Dtor ==
    <<Step(<<>>, {}, {},
           <<"inputs", "context", "hal_module", "input_module", "device",
             "instance">>, FALSE)>>

BenchmarkPrograms(maxExports) ==
    {[body |-> SpecificBody, epilogue |-> Dtor]}
    \cup {[body |-> AllBody(e), epilogue |-> Dtor] :
            e \in BoundedSeq(ExportKinds, maxExports)}

=============================================================================
