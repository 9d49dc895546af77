---------------------------- MODULE MCRelocAArch64 ---------------------------
(* Inputs for the aarch64 resolver: two relocation sites, a DT_RELA table  *)
(* t1 of two entries at distinct sites, a one-entry PLT table t2, and      *)
(* dynamic tables covering no relocations, sizes before or after the       *)
(* pointer, a PLT table, sizes without tables and a DT_REL table.  Widths  *)
(* are scaled to 3-bit addresses; the bias 6 makes bias + addend wrap.     *)
EXTENDS RelocAArch64

CONSTANTS t1, t2

MCTableIds == {t1, t2}
MCOffsets == {0, 1}

D(tag, val) == [tag |-> tag, val |-> val]

MCDynTables == {
    <<>>,
    <<D("DT_RELA", t1), D("DT_RELASZ", 2)>>,
    <<D("DT_RELASZ", 1), D("DT_OTHER", 0), D("DT_RELA", t1)>>,
    <<D("DT_RELA", t1), D("DT_RELASZ", 2), D("DT_PLTREL", "DT_RELA"),
      D("DT_JMPREL", t2), D("DT_PLTRELSZ", 1)>>,
    <<D("DT_RELASZ", 2)>>,
    <<D("DT_RELA", t1), D("DT_RELASZ", 2), D("DT_RELSZ", 1)>>}

\* .rela.dyn entries, plus a symbol-relative one, an unhandled type
\* (PREL32) and a NONE entry naming a symbol.
DynEntries(off) ==
    [offset : {off}, type : {"ABS64", "GLOB_DAT", "RELATIVE"},
     sym : {0}, addend : {0, 3}]
    \cup {[offset |-> off, type |-> "JUMP_SLOT", sym |-> 0, addend |-> 0],
          [offset |-> off, type |-> "PREL32", sym |-> 0, addend |-> 0],
          [offset |-> off, type |-> "ABS64", sym |-> 1, addend |-> 0],
          [offset |-> off, type |-> "NONE", sym |-> 1, addend |-> 0]}

\* .rela.plt: JUMP_SLOT entries, resolved or naming an import.
PltEntries ==
    [offset : MCOffsets, type : {"JUMP_SLOT"}, sym : {0, 1}, addend : {0}]

T1Contents ==
    {<<a, b>> : a \in DynEntries(0), b \in DynEntries(1)}
    \cup {<<b, a>> : a \in DynEntries(0), b \in DynEntries(1)}

MCRelaTables ==
    {[k \in MCTableIds |-> IF k = t1 THEN c1 ELSE <<p>>] :
        c1 \in T1Contents, p \in PltEntries}
=============================================================================
