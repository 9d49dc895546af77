--------------------------- MODULE ElfRelocation ----------------------------
(***************************************************************************)
(* Data shared by the per-architecture relocation modules: the dynamic     *)
(* table tags the resolvers look at, relocation entries, and the image     *)
(* the resolvers patch in place.                                           *)
(*                                                                         *)
(* Abstractions.  The image is a function from the offsets of relocation   *)
(* sites to the machine word stored there.  Address-sized arithmetic is    *)
(* kept modular, but the widths are scaled down (AddrBits and Word32Bits   *)
(* stand for 64 and 32, or 32 and 32 on x86_32) so TLC can enumerate the  *)
(* values; wrap-around, truncation and partial stores behave as at full    *)
(* width.  A table pointer (d_ptr) is a table identifier; a table size     *)
(* (d_val / sizeof entry) is the entry count it yields.                    *)
(***************************************************************************)
EXTENDS Integers, Sequences

CONSTANTS AddrBits,    \* width of iree_elf_addr_t and of a 64-bit store
          Word32Bits,  \* width of a 32-bit store
          TableIds,    \* the relocation tables the image contains
          Offsets,     \* r_offset of the relocation sites
          VaddrBias,   \* state->vaddr_bias
          SiteValues   \* what a relocation site may hold before relocation

ASSUME /\ Word32Bits \in Nat /\ AddrBits \in Nat /\ Word32Bits <= AddrBits
       /\ VaddrBias \in 0..(2^AddrBits - 1)
       /\ SiteValues \subseteq 0..(2^AddrBits - 1)

AddrMod == 2^AddrBits
Word32Mod == 2^Word32Bits
Words == 0..(AddrMod - 1)

\* The dynamic table tags of iree_elf_dyn_t that the resolvers switch on;
\* every other tag is ignored by all of them.
DynTags == {"DT_RELA", "DT_RELASZ", "DT_PLTREL", "DT_JMPREL", "DT_PLTRELSZ",
            "DT_REL", "DT_RELSZ", "DT_OTHER"}

\* Results of iree_elf_arch_apply_relocations.
Results == {"ok", "unimplemented", "failed_precondition"}

\* iree_elf_addr_t arithmetic: unsigned, modulo the address width.
Addr(v) == v % AddrMod

\* *(uintN_t*)instr_ptr = v on a little-endian target: an N-bit store
\* replaces the low N bits of the word at the site and keeps the rest.
StoreWord(v) == v % AddrMod
Store32(old, v) == (old - (old % Word32Mod)) + (v % Word32Mod)

\* The address of the site: state->vaddr_bias + r_offset.
InstrPtr(off) == Addr(VaddrBias + off)

\* The entry count of a table, zero when its pointer tag was absent:
\* `if (!rela_table) rela_count = 0;`.
NoTable == "none"
CountOf(table, count) == IF table = NoTable THEN 0 ELSE count

\* The value of the last entry of the dynamic table d with the given tag.
LastVal(d, tag, none) ==
    LET ks == {k \in 1..Len(d) : d[k].tag = tag}
    IN IF ks = {} THEN none
       ELSE d[CHOOSE k \in ks : \A l \in ks : l <= k].val

\* The first n entries of table t of the tables tbls.
Prefix(tbls, t, n) == IF t = NoTable THEN <<>> ELSE SubSeq(tbls[t], 1, n)

\* A relocation listed twice (in DT_RELA and in DT_JMPREL) is one
\* relocation: the sequence without its repeated elements.
Distinct(s) ==
    LET Step(acc, e) ==
            IF \E k \in 1..Len(acc) : acc[k] = e THEN acc ELSE Append(acc, e)
        F[k \in 0..Len(s)] == IF k = 0 THEN <<>> ELSE Step(F[k - 1], s[k])
    IN F[Len(s)]
=============================================================================
