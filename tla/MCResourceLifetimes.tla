------------------------- MODULE MCResourceLifetimes -------------------------
(* The two callers that build and tear down a VM session, the sample's    *)
(* Run() and the benchmark tool, with every export list of up to two      *)
(* functions for RegisterAllExportedFunctions, and the Vulkan native      *)
(* event's create and release; every failure point of each.               *)
EXTENDS SimpleEmbeddingRun, BenchmarkModule, NativeEvent

MCObjects == EmbeddingObjects \cup BenchmarkObjects \cup EventObjects
MCMaxExports == 2
MCAllPrograms ==
    EmbeddingPrograms \cup BenchmarkPrograms(MCMaxExports) \cup EventPrograms
MCBenchmarkPrograms == BenchmarkPrograms(MCMaxExports)
MCEmbeddingPrograms == EmbeddingPrograms

(* Whichever step of the benchmark tool fails, once main() has returned    *)
(* every object it created has been destroyed: ~IREEBenchmark() releases   *)
(* on both returns, and its releases are NULL-safe after a failed Init().  *)
BenchmarkNoLeakOnReturn == program \in MCBenchmarkPrograms => NoLeakOnReturn

(* Whether vkCreateEvent fails, the struct allocation fails or both         *)
(* succeed, once the create has returned and the caller has released what  *)
(* it got, the VkEvent and the struct are both gone: the allocation        *)
(* failure path destroys the handle, and the event's destroy releases it.  *)
EventNoLeakOnReturn == program \in EventPrograms => NoLeakOnReturn
=============================================================================
