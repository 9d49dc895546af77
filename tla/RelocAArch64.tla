---------------------------- MODULE RelocAArch64 ----------------------------
(***************************************************************************)
(* iree_elf_arch_apply_relocations for aarch64                             *)
(* (src/iree/hal/local/elf/arch/arm_64.c): one pass over the dynamic       *)
(* table gathering DT_RELA and DT_RELASZ (every other tag, DT_JMPREL and   *)
(* DT_PLTRELSZ included, falls to `default: Ignored`), then the DT_RELA    *)
(* table applied entry by entry by iree_elf_arch_aarch64_apply_rela.       *)
(***************************************************************************)
EXTENDS ElfRelocation, SequencesExt

CONSTANTS DynTables,  \* candidate dynamic tables (sequences of [tag, val])
          RelaTables  \* candidate contents: functions TableIds -> entries

VARIABLES dyn, tables, image0, image,
          pc,          \* "scan", "apply" or "done"
          i,           \* index of the loop over dyn (1-based)
          rela_table, rela_count,
          j,           \* index of the loop over the DT_RELA table
          result

vars == <<dyn, tables, image0, image, pc, i, rela_table, rela_count, j,
          result>>

\* The enum of arm_64.c; codes outside it reach `default`.
Handled == {"NONE", "ABS64", "GLOB_DAT", "JUMP_SLOT", "RELATIVE"}

Init ==
    /\ dyn \in DynTables
    /\ tables \in RelaTables
    /\ image0 \in [Offsets -> SiteValues]
    /\ image = image0
    /\ pc = "scan"
    /\ i = 1
    /\ rela_table = NoTable /\ rela_count = 0
    /\ j = 1
    /\ result = "ok"

Fail(code) ==
    /\ result' = code
    /\ pc' = "done"

\* One iteration of the loop over state->dyn_table.
ScanDyn ==
    /\ pc = "scan"
    /\ i <= Len(dyn)
    /\ i' = i + 1
    /\ LET d == dyn[i] IN
       CASE d.tag = "DT_RELA" ->
              rela_table' = d.val /\ UNCHANGED <<rela_count, pc, result>>
         [] d.tag = "DT_RELASZ" ->
              rela_count' = d.val /\ UNCHANGED <<rela_table, pc, result>>
         [] d.tag \in {"DT_REL", "DT_RELSZ"} ->
              Fail("failed_precondition") /\ UNCHANGED <<rela_table, rela_count>>
         [] OTHER ->
              UNCHANGED <<rela_table, rela_count, pc, result>>
    /\ UNCHANGED <<dyn, tables, image0, image, j>>

\* After the loop: `if (!rela_table) rela_count = 0;`.
EndScan ==
    /\ pc = "scan"
    /\ i > Len(dyn)
    /\ rela_count' = CountOf(rela_table, rela_count)
    /\ pc' = "apply"
    /\ j' = 1
    /\ UNCHANGED <<dyn, tables, image0, image, i, rela_table, result>>

\* Mutant: RELATIVE stored without the cast to the address width.
PatchNoWrap(e, old) ==
    LET sym_addr == 0 IN
    CASE e.type = "ABS64" -> StoreWord(old + sym_addr + e.addend)
      [] e.type \in {"GLOB_DAT", "JUMP_SLOT"} -> StoreWord(sym_addr + e.addend)
      [] e.type = "RELATIVE" -> VaddrBias + e.addend

\* Mutant: RELATIVE stores the addend alone, without the load bias.
PatchRelativeNoBias(e, old) ==
    LET sym_addr == 0 IN
    CASE e.type = "ABS64" -> StoreWord(old + sym_addr + e.addend)
      [] e.type \in {"GLOB_DAT", "JUMP_SLOT"} -> StoreWord(sym_addr + e.addend)
      [] e.type = "RELATIVE" -> StoreWord(e.addend)

\* The value the switch of iree_elf_arch_aarch64_apply_rela leaves at the
\* site for a handled, non-NONE entry; ABS64 adds into the site (`+=`).
Patch(e, old) ==
    LET sym_addr == 0 IN
    CASE e.type = "ABS64" -> StoreWord(old + sym_addr + e.addend)
      [] e.type \in {"GLOB_DAT", "JUMP_SLOT"} -> StoreWord(sym_addr + e.addend)
      [] e.type = "RELATIVE" -> StoreWord(VaddrBias + e.addend)

\* Mutant: the symbol index is not checked.
ApplyRelaNoSymCheck ==
    /\ pc = "apply"
    /\ j <= rela_count
    /\ LET e == tables[rela_table][j] IN
       CASE e.type = "NONE" ->
              j' = j + 1 /\ UNCHANGED <<image, pc, result>>
         [] e.type \in Handled ->
              /\ image' = [image EXCEPT ![e.offset] = Patch(e, @)]
              /\ j' = j + 1
              /\ UNCHANGED <<pc, result>>
         [] OTHER ->
              Fail("unimplemented") /\ UNCHANGED <<image, j>>
    /\ UNCHANGED <<dyn, tables, image0, i, rela_table, rela_count>>

\* One iteration of the loop of iree_elf_arch_aarch64_apply_rela.
ApplyRela ==
    /\ pc = "apply"
    /\ j <= rela_count
    /\ LET e == tables[rela_table][j] IN
       CASE e.type = "NONE" ->
              j' = j + 1 /\ UNCHANGED <<image, pc, result>>
         [] e.sym # 0 ->
              Fail("unimplemented") /\ UNCHANGED <<image, j>>
         [] e.type \in Handled ->
              /\ image' = [image EXCEPT ![e.offset] = Patch(e, @)]
              /\ j' = j + 1
              /\ UNCHANGED <<pc, result>>
         [] OTHER ->
              Fail("unimplemented") /\ UNCHANGED <<image, j>>
    /\ UNCHANGED <<dyn, tables, image0, i, rela_table, rela_count>>

EndTable ==
    /\ pc = "apply"
    /\ j > rela_count
    /\ pc' = "done"
    /\ UNCHANGED <<dyn, tables, image0, image, i, rela_table, rela_count, j,
                   result>>

Next == ScanDyn \/ EndScan \/ ApplyRela \/ EndTable

Spec == Init /\ [][Next]_vars /\ WF_vars(Next)

-----------------------------------------------------------------------------
\* The DT_RELA entries the image asks to be applied, and the PLT entries.
RelaRequested ==
    Prefix(tables, LastVal(dyn, "DT_RELA", NoTable), LastVal(dyn, "DT_RELASZ", 0))
PltRequested ==
    Prefix(tables, LastVal(dyn, "DT_JMPREL", NoTable),
           LastVal(dyn, "DT_PLTRELSZ", 0))

UnsupportedTable == \E k \in 1..Len(dyn) : dyn[k].tag \in {"DT_REL", "DT_RELSZ"}

Unsupported(e) == e.type # "NONE" /\ (e.sym # 0 \/ e.type \notin Handled)

\* AArch64 ELF ABI (IHI0056), dynamic relocations: ABS64, GLOB_DAT and
\* JUMP_SLOT are S + A, RELATIVE is Delta(S) + A, all replacing the
\* 64-bit place; S is 0 since symbol-relative relocations are refused.
AbiApply(img, e) ==
    LET S == 0  A == e.addend  B == VaddrBias IN
    IF e.type = "NONE" THEN img
    ELSE [img EXCEPT ![e.offset] =
            (IF e.type = "RELATIVE" THEN B + A ELSE S + A) % AddrMod]

TypeOK ==
    /\ pc \in {"scan", "apply", "done"}
    /\ result \in Results
    /\ image \in [Offsets -> Words]
    /\ i \in 1..(Len(dyn) + 1)
    /\ rela_table \in TableIds \cup {NoTable}
    /\ rela_count \in Nat

\* The status returned is FAILED_PRECONDITION exactly when the dynamic
\* table names a DT_REL table, otherwise UNIMPLEMENTED exactly when a
\* DT_RELA entry to be applied is symbol-relative or of an unhandled type.
ResultReflectsInput ==
    pc = "done" =>
        result = IF UnsupportedTable THEN "failed_precondition"
                 ELSE IF \E k \in 1..Len(RelaRequested) :
                           Unsupported(RelaRequested[k])
                      THEN "unimplemented"
                      ELSE "ok"

\* After a successful relocation every site holds what the AArch64 ABI
\* defines for the DT_RELA relocations that name it, whatever the site
\* held before.
RelocatedImageMatchesABI ==
    (pc = "done" /\ result = "ok") =>
        image = FoldLeft(AbiApply, image0, Distinct(RelaRequested))

\* Spec section 8: a relocation entry with a non-zero symbol index always
\* yields an error, for every architecture; here for the entries of the
\* PLT table the dynamic table names.
SymbolRelocationsRejected ==
    (pc = "done" /\ \E k \in 1..Len(PltRequested) :
                       PltRequested[k].type # "NONE" /\ PltRequested[k].sym # 0)
        => result # "ok"
=============================================================================
