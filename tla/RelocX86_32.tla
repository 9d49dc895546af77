----------------------------- MODULE RelocX86_32 -----------------------------
(***************************************************************************)
(* iree_elf_arch_apply_relocations for x86 (32-bit)                        *)
(* (src/iree/hal/local/elf/arch/x86_32.c): one pass over the dynamic       *)
(* table gathering DT_REL and DT_RELSZ (DT_RELA and DT_RELASZ are refused; *)
(* DT_JMPREL and every other tag fall to `default: Ignored`), then the     *)
(* DT_REL table applied entry by entry by iree_elf_arch_x86_32_apply_rel.  *)
(* REL entries carry no addend: the addend is the value at the site, so    *)
(* the `addend` field of the entries is unused here.  Addresses and the    *)
(* stores are both 32-bit: the model's AddrBits equals Word32Bits.         *)
(***************************************************************************)
EXTENDS ElfRelocation, SequencesExt

CONSTANTS DynTables,  \* candidate dynamic tables (sequences of [tag, val])
          RelTables   \* candidate contents: functions TableIds -> entries

VARIABLES dyn, tables, image0, image,
          pc,          \* "scan", "apply" or "done"
          i,           \* index of the loop over dyn (1-based)
          rel_table, rel_count,
          j,           \* index of the loop over the DT_REL table
          result

vars == <<dyn, tables, image0, image, pc, i, rel_table, rel_count, j, result>>

\* The enum of x86_32.c; codes outside the handled cases reach `default`.
Handled == {"NONE", "32", "PC32", "GLOB_DAT", "JMP_SLOT", "RELATIVE"}

Init ==
    /\ dyn \in DynTables
    /\ tables \in RelTables
    /\ image0 \in [Offsets -> SiteValues]
    /\ image = image0
    /\ pc = "scan"
    /\ i = 1
    /\ rel_table = NoTable /\ rel_count = 0
    /\ j = 1
    /\ result = "ok"

Fail(code) ==
    /\ result' = code
    /\ pc' = "done"

\* One iteration of the loop over state->dyn_table.
ScanDyn ==
    /\ pc = "scan"
    /\ i <= Len(dyn)
    /\ i' = i + 1
    /\ LET d == dyn[i] IN
       CASE d.tag = "DT_REL" ->
              rel_table' = d.val /\ UNCHANGED <<rel_count, pc, result>>
         [] d.tag = "DT_RELSZ" ->
              rel_count' = d.val /\ UNCHANGED <<rel_table, pc, result>>
         [] d.tag \in {"DT_RELA", "DT_RELASZ"} ->
              Fail("failed_precondition") /\ UNCHANGED <<rel_table, rel_count>>
         [] OTHER ->
              UNCHANGED <<rel_table, rel_count, pc, result>>
    /\ UNCHANGED <<dyn, tables, image0, image, j>>

\* After the loop: `if (!rel_table) rel_count = 0;`.
EndScan ==
    /\ pc = "scan"
    /\ i > Len(dyn)
    /\ rel_count' = CountOf(rel_table, rel_count)
    /\ pc' = "apply"
    /\ j' = 1
    /\ UNCHANGED <<dyn, tables, image0, image, i, rel_table, result>>

\* Mutant: RELATIVE stores the bias, dropping the implicit addend.
PatchRelativeAssign(e, old) ==
    LET sym_addr == 0 IN
    CASE e.type \in {"JMP_SLOT", "GLOB_DAT"} -> StoreWord(sym_addr)
      [] e.type = "RELATIVE" -> StoreWord(VaddrBias)
      [] e.type = "32" -> StoreWord(old + sym_addr)
      [] e.type = "PC32" -> StoreWord(old + sym_addr - InstrPtr(e.offset))

\* Mutant: RELATIVE stored without the cast to uint32_t.
PatchNoWrap(e, old) ==
    LET sym_addr == 0 IN
    CASE e.type \in {"JMP_SLOT", "GLOB_DAT"} -> StoreWord(sym_addr)
      [] e.type = "RELATIVE" -> old + VaddrBias
      [] e.type = "32" -> StoreWord(old + sym_addr)
      [] e.type = "PC32" -> StoreWord(old + sym_addr - InstrPtr(e.offset))

\* The value the switch of iree_elf_arch_x86_32_apply_rel leaves at the
\* site for a handled, non-NONE entry; all stores are uint32_t.
Patch(e, old) ==
    LET sym_addr == 0 IN
    CASE e.type \in {"JMP_SLOT", "GLOB_DAT"} -> StoreWord(sym_addr)
      [] e.type = "RELATIVE" -> StoreWord(old + VaddrBias)
      [] e.type = "32" -> StoreWord(old + sym_addr)
      [] e.type = "PC32" -> StoreWord(old + sym_addr - InstrPtr(e.offset))

\* Mutant: the symbol index is not checked.
ApplyRelNoSymCheck ==
    /\ pc = "apply"
    /\ j <= rel_count
    /\ LET e == tables[rel_table][j] IN
       CASE e.type = "NONE" ->
              j' = j + 1 /\ UNCHANGED <<image, pc, result>>
         [] e.type \in Handled ->
              /\ image' = [image EXCEPT ![e.offset] = Patch(e, @)]
              /\ j' = j + 1
              /\ UNCHANGED <<pc, result>>
         [] OTHER ->
              Fail("unimplemented") /\ UNCHANGED <<image, j>>
    /\ UNCHANGED <<dyn, tables, image0, i, rel_table, rel_count>>

\* One iteration of the loop of iree_elf_arch_x86_32_apply_rel.
ApplyRel ==
    /\ pc = "apply"
    /\ j <= rel_count
    /\ LET e == tables[rel_table][j] IN
       CASE e.type = "NONE" ->
              j' = j + 1 /\ UNCHANGED <<image, pc, result>>
         [] e.sym # 0 ->
              Fail("unimplemented") /\ UNCHANGED <<image, j>>
         [] e.type \in Handled ->
              /\ image' = [image EXCEPT ![e.offset] = Patch(e, @)]
              /\ j' = j + 1
              /\ UNCHANGED <<pc, result>>
         [] OTHER ->
              Fail("unimplemented") /\ UNCHANGED <<image, j>>
    /\ UNCHANGED <<dyn, tables, image0, i, rel_table, rel_count>>

EndTable ==
    /\ pc = "apply"
    /\ j > rel_count
    /\ pc' = "done"
    /\ UNCHANGED <<dyn, tables, image0, image, i, rel_table, rel_count, j,
                   result>>

Next == ScanDyn \/ EndScan \/ ApplyRel \/ EndTable

Spec == Init /\ [][Next]_vars /\ WF_vars(Next)

-----------------------------------------------------------------------------
RelRequested ==
    Prefix(tables, LastVal(dyn, "DT_REL", NoTable), LastVal(dyn, "DT_RELSZ", 0))
PltRequested ==
    Prefix(tables, LastVal(dyn, "DT_JMPREL", NoTable),
           LastVal(dyn, "DT_PLTRELSZ", 0))

UnsupportedTable == \E k \in 1..Len(dyn) : dyn[k].tag \in {"DT_RELA", "DT_RELASZ"}

Unsupported(e) == e.type # "NONE" /\ (e.sym # 0 \/ e.type \notin Handled)

\* i386 psABI, relocation types: with A the addend held at the place,
\* R_386_32 is S + A, PC32 is S + A - P, GLOB_DAT and JMP_SLOT are S,
\* RELATIVE is B + A; S is 0 since symbol-relative relocations are refused.
AbiApply(img, e) ==
    LET S == 0  A == img[e.offset]  B == VaddrBias  P == VaddrBias + e.offset
        V == CASE e.type = "32" -> S + A
               [] e.type = "PC32" -> S + A - P
               [] e.type \in {"GLOB_DAT", "JMP_SLOT"} -> S
               [] e.type = "RELATIVE" -> B + A
    IN IF e.type = "NONE" THEN img ELSE [img EXCEPT ![e.offset] = V % AddrMod]

TypeOK ==
    /\ pc \in {"scan", "apply", "done"}
    /\ result \in Results
    /\ image \in [Offsets -> Words]
    /\ i \in 1..(Len(dyn) + 1)
    /\ rel_table \in TableIds \cup {NoTable}
    /\ rel_count \in Nat

\* The status returned is FAILED_PRECONDITION exactly when the dynamic
\* table names a DT_RELA table, otherwise UNIMPLEMENTED exactly when a
\* DT_REL entry to be applied is symbol-relative or of an unhandled type.
ResultReflectsInput ==
    pc = "done" =>
        result = IF UnsupportedTable THEN "failed_precondition"
                 ELSE IF \E k \in 1..Len(RelRequested) :
                           Unsupported(RelRequested[k])
                      THEN "unimplemented"
                      ELSE "ok"

\* After a successful relocation every site holds what the i386 psABI
\* defines for the DT_REL relocation naming it, the implicit addend being
\* the value the site held; each site is relocated once.
RelocatedImageMatchesABI ==
    (pc = "done" /\ result = "ok") =>
        image = FoldLeft(AbiApply, image0, RelRequested)

\* Spec section 8: a relocation entry with a non-zero symbol index always
\* yields an error, for every architecture; here for the entries of the
\* PLT table the dynamic table names.
SymbolRelocationsRejected ==
    (pc = "done" /\ \E k \in 1..Len(PltRequested) :
                       PltRequested[k].type # "NONE" /\ PltRequested[k].sym # 0)
        => result # "ok"
=============================================================================
