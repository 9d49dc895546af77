----------------------------- MODULE MCRelocSuite ----------------------------
(* The three relocation resolvers checked in one run: the initial state    *)
(* picks the architecture, and from there only that resolver steps.  Each  *)
(* resolver gets the inputs and widths of its own MC module (MCRelocX86_64, *)
(* MCRelocAArch64, MCRelocX86_32).  The variables the resolvers share keep *)
(* their names; the table locals of the other resolvers stay at their     *)
(* initial values.                                                         *)
EXTENDS Naturals

CONSTANTS t1, t2

VARIABLES arch, dyn, tables, image0, image, pc, i, j, result,
          rela_table, rela_count, plt_rela_table, plt_rela_count,
          rel_table, rel_count

vars == <<arch, dyn, tables, image0, image, pc, i, j, result, rela_table,
          rela_count, plt_rela_table, plt_rela_count, rel_table, rel_count>>

NoTable == "none"

\* The input sets of each MC module (they do not depend on DynTables or
\* RelaTables, which are given here as empty).
X64In == INSTANCE MCRelocX86_64 WITH AddrBits <- 3, Word32Bits <- 2,
           VaddrBias <- 6, SiteValues <- {0, 7}, TableIds <- {t1, t2},
           Offsets <- {0, 1}, DynTables <- {}, RelaTables <- {}
A64In == INSTANCE MCRelocAArch64 WITH AddrBits <- 3, Word32Bits <- 2,
           VaddrBias <- 6, SiteValues <- {0}, TableIds <- {t1, t2},
           Offsets <- {0, 1}, DynTables <- {}, RelaTables <- {}
X32In == INSTANCE MCRelocX86_32 WITH AddrBits <- 3, Word32Bits <- 3,
           VaddrBias <- 6, SiteValues <- {0, 3}, TableIds <- {t1, t2},
           Offsets <- {0, 1}, DynTables <- {}, RelTables <- {}

X64 == INSTANCE MCRelocX86_64 WITH AddrBits <- 3, Word32Bits <- 2,
         VaddrBias <- 6, SiteValues <- {0, 7}, TableIds <- {t1, t2},
         Offsets <- {0, 1}, DynTables <- X64In!MCDynTables,
         RelaTables <- X64In!MCRelaTables
A64 == INSTANCE MCRelocAArch64 WITH AddrBits <- 3, Word32Bits <- 2,
         VaddrBias <- 6, SiteValues <- {0}, TableIds <- {t1, t2},
         Offsets <- {0, 1}, DynTables <- A64In!MCDynTables,
         RelaTables <- A64In!MCRelaTables
X32 == INSTANCE MCRelocX86_32 WITH AddrBits <- 3, Word32Bits <- 3,
         VaddrBias <- 6, SiteValues <- {0, 3}, TableIds <- {t1, t2},
         Offsets <- {0, 1}, DynTables <- X32In!MCDynTables,
         RelTables <- X32In!MCRelTables

NoPlt == plt_rela_table = NoTable /\ plt_rela_count = 0
NoRela == rela_table = NoTable /\ rela_count = 0
NoRel == rel_table = NoTable /\ rel_count = 0

Init ==
    \/ arch = "x86_64" /\ X64!Init /\ NoRel
    \/ arch = "aarch64" /\ A64!Init /\ NoPlt /\ NoRel
    \/ arch = "x86_32" /\ X32!Init /\ NoRela /\ NoPlt

Next ==
    \/ arch = "x86_64" /\ X64!Next
       /\ UNCHANGED <<arch, rel_table, rel_count>>
    \/ arch = "aarch64" /\ A64!Next
       /\ UNCHANGED <<arch, plt_rela_table, plt_rela_count, rel_table, rel_count>>
    \/ arch = "x86_32" /\ X32!Next
       /\ UNCHANGED <<arch, rela_table, rela_count, plt_rela_table, plt_rela_count>>

\* Each resolver is a sequential loop that runs until it returns.
Spec == Init /\ [][Next]_vars /\ WF_vars(Next)

Arch(x64, a64, x32) ==
    CASE arch = "x86_64" -> x64 [] arch = "aarch64" -> a64 [] OTHER -> x32

(* The type invariant of the running resolver.                             *)
TypeOK == Arch(X64!TypeOK, A64!TypeOK, X32!TypeOK)

(* Whichever resolver runs, the status it returns is the one its input     *)
(* calls for: UNIMPLEMENTED for a symbol or an unhandled type in a table   *)
(* it applies, FAILED_PRECONDITION for the table flavour it rejects, OK    *)
(* otherwise.                                                               *)
ResultReflectsInput ==
    Arch(X64!ResultReflectsInput, A64!ResultReflectsInput,
         X32!ResultReflectsInput)

(* Whichever resolver runs, on success every relocation site holds what    *)
(* its ABI defines for the entries requested, in table order.              *)
RelocatedImageMatchesABI ==
    Arch(X64!RelocatedImageMatchesABI, A64!RelocatedImageMatchesABI,
         X32!RelocatedImageMatchesABI)

(* Spec section 8: a relocation entry with a non-zero symbol index yields  *)
(* an error on every architecture; here for the entries of the PLT table   *)
(* (DT_JMPREL) that the aarch64 and x86 resolvers meet.  The x86_64        *)
(* resolver applies its PLT table, which ResultReflectsInput covers.       *)
SymbolRelocationsRejected ==
    Arch(TRUE, A64!SymbolRelocationsRejected, X32!SymbolRelocationsRejected)
=============================================================================
