----------------------------- MODULE RelocX86_64 -----------------------------
(***************************************************************************)
(* iree_elf_arch_apply_relocations for x86_64                              *)
(* (src/iree/hal/local/elf/arch/x86_64.c): one pass over the dynamic       *)
(* table gathering DT_RELA / DT_JMPREL and their sizes, then the DT_RELA   *)
(* table and the DT_JMPREL (PLT) table each applied entry by entry by      *)
(* iree_elf_arch_x86_64_apply_rela, patching the image in place.  One step *)
(* of the model is one iteration of one of the three loops.                *)
(***************************************************************************)
EXTENDS ElfRelocation, SequencesExt

CONSTANTS DynTables,  \* candidate dynamic tables (sequences of [tag, val])
          RelaTables  \* candidate contents: functions TableIds -> entries

VARIABLES dyn,             \* state->dyn_table
          tables,          \* contents of the relocation tables
          image0,          \* the image before relocation (never changes)
          image,           \* the image being patched
          pc,              \* "scan", "apply_rela", "apply_plt" or "done"
          i,               \* index of the loop over dyn (1-based)
          rela_table, rela_count, plt_rela_table, plt_rela_count,
          j,               \* index of the loop over the current table
          result           \* the returned status

vars == <<dyn, tables, image0, image, pc, i, rela_table, rela_count,
          plt_rela_table, plt_rela_count, j, result>>

\* The enum of x86_64.c; codes outside the handled cases reach `default`.
Handled == {"NONE", "64", "PC32", "COPY", "GLOB_DAT", "JUMP_SLOT",
            "RELATIVE", "32", "32S"}

Init ==
    /\ dyn \in DynTables
    /\ tables \in RelaTables
    /\ image0 \in [Offsets -> SiteValues]
    /\ image = image0
    /\ pc = "scan"
    /\ i = 1
    /\ rela_table = NoTable /\ rela_count = 0
    /\ plt_rela_table = NoTable /\ plt_rela_count = 0
    /\ j = 1
    /\ result = "ok"

Fail(code) ==
    /\ result' = code
    /\ pc' = "done"

\* One iteration of the loop over state->dyn_table.
ScanDyn ==
    /\ pc = "scan"
    /\ i <= Len(dyn)
    /\ i' = i + 1
    /\ LET d == dyn[i] IN
       CASE d.tag = "DT_RELA" ->
              rela_table' = d.val /\ UNCHANGED <<rela_count, plt_rela_table,
                                                 plt_rela_count, pc, result>>
         [] d.tag = "DT_RELASZ" ->
              rela_count' = d.val /\ UNCHANGED <<rela_table, plt_rela_table,
                                                 plt_rela_count, pc, result>>
         [] d.tag = "DT_PLTREL" /\ d.val # "DT_RELA" ->
              Fail("failed_precondition")
                 /\ UNCHANGED <<rela_table, rela_count, plt_rela_table,
                                plt_rela_count>>
         [] d.tag = "DT_JMPREL" ->
              plt_rela_table' = d.val /\ UNCHANGED <<rela_table, rela_count,
                                                     plt_rela_count, pc, result>>
         [] d.tag = "DT_PLTRELSZ" ->
              plt_rela_count' = d.val /\ UNCHANGED <<rela_table, rela_count,
                                                     plt_rela_table, pc, result>>
         [] d.tag \in {"DT_REL", "DT_RELSZ"} ->
              Fail("failed_precondition")
                 /\ UNCHANGED <<rela_table, rela_count, plt_rela_table,
                                plt_rela_count>>
         [] OTHER ->
              UNCHANGED <<rela_table, rela_count, plt_rela_table,
                          plt_rela_count, pc, result>>
    /\ UNCHANGED <<dyn, tables, image0, image, j>>

\* After the loop: a size without its table counts as no entries.
EndScan ==
    /\ pc = "scan"
    /\ i > Len(dyn)
    /\ rela_count' = CountOf(rela_table, rela_count)
    /\ plt_rela_count' = CountOf(plt_rela_table, plt_rela_count)
    /\ pc' = "apply_rela"
    /\ j' = 1
    /\ UNCHANGED <<dyn, tables, image0, image, i, rela_table, plt_rela_table,
                   result>>

CurTable == IF pc = "apply_rela" THEN rela_table ELSE plt_rela_table
CurCount == IF pc = "apply_rela" THEN rela_count ELSE plt_rela_count

\* Mutant: RELATIVE stored without the cast to the address width.
PatchNoWrap(e, old) ==
    LET sym_addr == 0 IN
    CASE e.type = "RELATIVE" -> VaddrBias + e.addend
      [] e.type \in {"JUMP_SLOT", "GLOB_DAT", "COPY"} -> StoreWord(sym_addr)
      [] e.type = "64" -> StoreWord(sym_addr + e.addend)
      [] e.type \in {"32", "32S"} -> Store32(old, sym_addr + e.addend)
      [] e.type = "PC32" ->
            Store32(old, sym_addr + e.addend - InstrPtr(e.offset))

\* Mutant: PC32 stores S + A, forgetting to subtract the place.
PatchPC32Absolute(e, old) ==
    LET sym_addr == 0 IN
    CASE e.type = "RELATIVE" -> StoreWord(VaddrBias + e.addend)
      [] e.type \in {"JUMP_SLOT", "GLOB_DAT", "COPY"} -> StoreWord(sym_addr)
      [] e.type = "64" -> StoreWord(sym_addr + e.addend)
      [] e.type \in {"32", "32S", "PC32"} -> Store32(old, sym_addr + e.addend)

\* The value the switch of iree_elf_arch_x86_64_apply_rela stores for a
\* handled, non-NONE entry; sym_addr is 0.
Patch(e, old) ==
    LET sym_addr == 0 IN
    CASE e.type = "RELATIVE" -> StoreWord(VaddrBias + e.addend)
      [] e.type \in {"JUMP_SLOT", "GLOB_DAT", "COPY"} -> StoreWord(sym_addr)
      [] e.type = "64" -> StoreWord(sym_addr + e.addend)
      [] e.type \in {"32", "32S"} -> Store32(old, sym_addr + e.addend)
      [] e.type = "PC32" ->
            Store32(old, sym_addr + e.addend - InstrPtr(e.offset))

\* Mutant: the symbol index is not checked.
ApplyRelaNoSymCheck ==
    /\ pc \in {"apply_rela", "apply_plt"}
    /\ j <= CurCount
    /\ LET e == tables[CurTable][j] IN
       CASE e.type = "NONE" ->
              j' = j + 1 /\ UNCHANGED <<image, pc, result>>
         [] e.type \in Handled ->
              /\ image' = [image EXCEPT ![e.offset] = Patch(e, @)]
              /\ j' = j + 1
              /\ UNCHANGED <<pc, result>>
         [] OTHER ->
              Fail("unimplemented") /\ UNCHANGED <<image, j>>
    /\ UNCHANGED <<dyn, tables, image0, i, rela_table, rela_count,
                   plt_rela_table, plt_rela_count>>

\* One iteration of the loop of iree_elf_arch_x86_64_apply_rela.
ApplyRela ==
    /\ pc \in {"apply_rela", "apply_plt"}
    /\ j <= CurCount
    /\ LET e == tables[CurTable][j] IN
       CASE e.type = "NONE" ->
              j' = j + 1 /\ UNCHANGED <<image, pc, result>>
         [] e.sym # 0 ->
              Fail("unimplemented") /\ UNCHANGED <<image, j>>
         [] e.type \in Handled ->
              /\ image' = [image EXCEPT ![e.offset] = Patch(e, @)]
              /\ j' = j + 1
              /\ UNCHANGED <<pc, result>>
         [] OTHER ->
              Fail("unimplemented") /\ UNCHANGED <<image, j>>
    /\ UNCHANGED <<dyn, tables, image0, i, rela_table, rela_count,
                   plt_rela_table, plt_rela_count>>

\* The end of a table: the DT_RELA table is followed by the PLT table,
\* and the PLT table by the successful return.
EndTable ==
    /\ pc \in {"apply_rela", "apply_plt"}
    /\ j > CurCount
    /\ IF pc = "apply_rela"
          THEN pc' = "apply_plt" /\ j' = 1
          ELSE pc' = "done" /\ UNCHANGED j
    /\ UNCHANGED <<dyn, tables, image0, image, i, rela_table, rela_count,
                   plt_rela_table, plt_rela_count, result>>

Next == ScanDyn \/ EndScan \/ ApplyRela \/ EndTable

Spec == Init /\ [][Next]_vars /\ WF_vars(Next)

-----------------------------------------------------------------------------
(* What the dynamic table and the relocation tables ask for, stated        *)
(* directly over the input rather than through the loops.                  *)

\* The entries the image asks to be applied: the DT_RELA table, then the
\* DT_JMPREL table, each cut to its declared size.
Requested ==
    Prefix(tables, LastVal(dyn, "DT_RELA", NoTable), LastVal(dyn, "DT_RELASZ", 0))
    \o Prefix(tables, LastVal(dyn, "DT_JMPREL", NoTable),
              LastVal(dyn, "DT_PLTRELSZ", 0))

UnsupportedTable ==
    \E k \in 1..Len(dyn) :
        \/ dyn[k].tag \in {"DT_REL", "DT_RELSZ"}
        \/ dyn[k].tag = "DT_PLTREL" /\ dyn[k].val # "DT_RELA"

Unsupported(e) == e.type # "NONE" /\ (e.sym # 0 \/ e.type \notin Handled)

\* x86-64 psABI, table 4.9: the field each type patches and the value
\* computed for it (S the symbol value, here always 0 as symbol-relative
\* relocations are refused; A the addend; B the load bias; P the place).
Field32(t) == t \in {"PC32", "32", "32S"}
AbiValue(e) ==
    LET S == 0  A == e.addend  B == VaddrBias  P == VaddrBias + e.offset
    IN CASE e.type = "64" -> S + A
         [] e.type = "PC32" -> S + A - P
         [] e.type \in {"GLOB_DAT", "JUMP_SLOT"} -> S
         [] e.type = "RELATIVE" -> B + A
         [] e.type \in {"32", "32S"} -> S + A
AbiApply(img, e) ==
    IF e.type = "NONE" THEN img
    ELSE [img EXCEPT ![e.offset] =
            IF Field32(e.type)
               THEN (@ - (@ % Word32Mod)) + (AbiValue(e) % Word32Mod)
               ELSE AbiValue(e) % AddrMod]

-----------------------------------------------------------------------------
TypeOK ==
    /\ pc \in {"scan", "apply_rela", "apply_plt", "done"}
    /\ result \in Results
    /\ image \in [Offsets -> Words]
    /\ i \in 1..(Len(dyn) + 1)
    /\ rela_table \in TableIds \cup {NoTable}
    /\ plt_rela_table \in TableIds \cup {NoTable}
    /\ rela_count \in Nat /\ plt_rela_count \in Nat

\* The status returned says what is wrong with the input, and nothing
\* else: FAILED_PRECONDITION exactly when the dynamic table names a
\* DT_REL table or a non-RELA PLT table, otherwise UNIMPLEMENTED exactly
\* when an entry to be applied is symbol-relative or of a type the switch
\* does not handle, otherwise OK.  Wherever such an entry sits in which
\* table, and in whatever order the tags come.
ResultReflectsInput ==
    pc = "done" =>
        result = IF UnsupportedTable THEN "failed_precondition"
                 ELSE IF \E k \in 1..Len(Requested) : Unsupported(Requested[k])
                      THEN "unimplemented"
                      ELSE "ok"

\* After a successful relocation every site holds what the psABI defines
\* for the relocations that name it, each relocation taking effect once
\* even when DT_JMPREL lies inside the DT_RELA table and is applied twice;
\* the bits of a site a 32-bit relocation does not cover are kept.
RelocatedImageMatchesABI ==
    (pc = "done" /\ result = "ok") =>
        image = FoldLeft(AbiApply, image0, Distinct(Requested))
=============================================================================
