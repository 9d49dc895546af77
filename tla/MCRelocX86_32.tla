---------------------------- MODULE MCRelocX86_32 ----------------------------
(* Inputs for the x86 resolver: two relocation sites, a DT_REL table t1    *)
(* of two entries at distinct sites, a one-entry PLT table t2, and dynamic *)
(* tables covering no relocations, sizes before or after the pointer, a    *)
(* PLT table, sizes without tables and a DT_RELA table.  Addresses are     *)
(* scaled to 3 bits; bias 6 plus the implicit addends makes them wrap.     *)
EXTENDS RelocX86_32

CONSTANTS t1, t2

MCTableIds == {t1, t2}
MCOffsets == {0, 1}

D(tag, val) == [tag |-> tag, val |-> val]

MCDynTables == {
    <<>>,
    <<D("DT_REL", t1), D("DT_RELSZ", 2)>>,
    <<D("DT_RELSZ", 1), D("DT_OTHER", 0), D("DT_REL", t1)>>,
    <<D("DT_REL", t1), D("DT_RELSZ", 2), D("DT_PLTREL", "DT_REL"),
      D("DT_JMPREL", t2), D("DT_PLTRELSZ", 1)>>,
    <<D("DT_RELSZ", 2)>>,
    <<D("DT_REL", t1), D("DT_RELSZ", 2), D("DT_RELASZ", 1)>>}

\* .rel.dyn entries, plus a symbol-relative one, an unhandled type
\* (GOTOFF) and a NONE entry naming a symbol.
DynEntries(off) ==
    [offset : {off}, type : {"32", "PC32", "GLOB_DAT", "JMP_SLOT", "RELATIVE"},
     sym : {0}, addend : {0}]
    \cup {[offset |-> off, type |-> "GOTOFF", sym |-> 0, addend |-> 0],
          [offset |-> off, type |-> "32", sym |-> 1, addend |-> 0],
          [offset |-> off, type |-> "NONE", sym |-> 1, addend |-> 0]}

\* .rel.plt: JMP_SLOT entries, resolved or naming an import.
PltEntries ==
    [offset : MCOffsets, type : {"JMP_SLOT"}, sym : {0, 1}, addend : {0}]

T1Contents ==
    {<<a, b>> : a \in DynEntries(0), b \in DynEntries(1)}
    \cup {<<b, a>> : a \in DynEntries(0), b \in DynEntries(1)}

MCRelTables ==
    {[k \in MCTableIds |-> IF k = t1 THEN c1 ELSE <<p>>] :
        c1 \in T1Contents, p \in PltEntries}
=============================================================================
