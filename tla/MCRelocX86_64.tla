---------------------------- MODULE MCRelocX86_64 ----------------------------
(* Inputs for the x86_64 resolver: two relocation sites, a DT_RELA table   *)
(* t1 of two entries at distinct sites, a one-entry table t2, and dynamic  *)
(* tables covering: no relocations, sizes given before or after the table  *)
(* pointer, a PLT table, a PLT range lying inside the DT_RELA range, sizes *)
(* without tables, and each unsupported table kind.  Widths are scaled to  *)
(* 3-bit addresses and 2-bit "32-bit" fields; the load bias 6 makes        *)
(* bias + addend and P wrap around.                                        *)
EXTENDS RelocX86_64

CONSTANTS t1, t2

MCTableIds == {t1, t2}
MCOffsets == {0, 1}

D(tag, val) == [tag |-> tag, val |-> val]

MCDynTables == {
    <<>>,
    <<D("DT_RELA", t1), D("DT_RELASZ", 2)>>,
    <<D("DT_RELASZ", 1), D("DT_OTHER", 0), D("DT_RELA", t1)>>,
    <<D("DT_RELA", t1), D("DT_RELASZ", 2), D("DT_PLTREL", "DT_RELA"),
      D("DT_JMPREL", t2), D("DT_PLTRELSZ", 1)>>,
    <<D("DT_RELA", t1), D("DT_RELASZ", 2), D("DT_JMPREL", t1),
      D("DT_PLTRELSZ", 2)>>,
    <<D("DT_RELASZ", 2), D("DT_PLTRELSZ", 1)>>,
    <<D("DT_RELA", t1), D("DT_RELASZ", 2), D("DT_REL", t2)>>,
    <<D("DT_JMPREL", t2), D("DT_PLTRELSZ", 1), D("DT_PLTREL", "DT_REL")>>}

\* Entries the linker emits into .rela.dyn, plus the ones the resolver
\* must refuse: a symbol-relative entry, an unhandled type (PC16), and a
\* NONE entry that names a symbol.
DynEntries(off) ==
    [offset : {off}, type : {"64", "PC32", "RELATIVE", "32", "32S", "GLOB_DAT"},
     sym : {0}, addend : {0, 3}]
    \cup {[offset |-> off, type |-> "JUMP_SLOT", sym |-> 0, addend |-> 0],
          [offset |-> off, type |-> "PC16", sym |-> 0, addend |-> 0],
          [offset |-> off, type |-> "64", sym |-> 1, addend |-> 0],
          [offset |-> off, type |-> "NONE", sym |-> 1, addend |-> 0]}

\* .rela.plt holds JUMP_SLOT entries, resolved or naming an import.
PltEntries ==
    [offset : MCOffsets, type : {"JUMP_SLOT", "RELATIVE"}, sym : {0, 1},
     addend : {0}]

T1Contents ==
    {<<a, b>> : a \in DynEntries(0), b \in DynEntries(1)}
    \cup {<<b, a>> : a \in DynEntries(0), b \in DynEntries(1)}

MCRelaTables ==
    {[k \in MCTableIds |-> IF k = t1 THEN c1 ELSE <<p>>] :
        c1 \in T1Contents, p \in PltEntries}
=============================================================================
