------------------------------ MODULE MC_MMVDump ------------------------------
(***************************************************************************)
(* Regions for checking Dump.  Layout(secs) lays out MMV v1 sections the   *)
(* way the writer does: header, TOC array, then each section's records     *)
(* back to back, the region ending at the last record.  The cases are the  *)
(* well formed layouts, each truncated by one byte inside its last         *)
(* section, and one region for each header and TOC rejection.              *)
(***************************************************************************)
EXTENDS MMVDump, TLC

MCHeaderLength == 40
MCTocLength == 16
\* Record strides of spec.md 4.G: indom 32, instance 80, metric 104,
\* value 16, string 256.
MCRecordLength == (TocIndoms :> 32) @@ (TocInstances :> 80) @@ (TocMetrics :> 104)
                  @@ (TocValues :> 16) @@ (TocStrings :> 256)
\* uint64 scaled to 16 bits.
MCUintWord == 65536

\* The end of the first k sections of secs, laid out after the TOC array.
RECURSIVE SectionEnd(_, _)
SectionEnd(secs, k) ==
  IF k = 0 THEN MCHeaderLength + Len(secs) * MCTocLength
  ELSE SectionEnd(secs, k - 1)
       + IF secs[k].count = 0 THEN 0 ELSE secs[k].count * MCRecordLength[secs[k].type]

Layout(secs) ==
  [len   |-> SectionEnd(secs, Len(secs)),
   magic |-> TRUE, g1 |-> 7, g2 |-> 7, toc |-> Len(secs),
   tocs  |-> [k \in DOMAIN secs |->
               [type |-> secs[k].type, count |-> secs[k].count,
                offset |-> SectionEnd(secs, k - 1)]]]

Sec(t, n) == [type |-> t, count |-> n]

WellFormed ==
  { Layout(<<Sec(TocMetrics, 1), Sec(TocValues, 1), Sec(TocStrings, 1)>>),
    Layout(<<Sec(TocIndoms, 1), Sec(TocInstances, 2), Sec(TocMetrics, 1),
             Sec(TocValues, 2)>>),
    Layout(<<Sec(TocValues, 0), Sec(TocMetrics, 2)>>) }

Truncated1(f) == [f EXCEPT !.len = @ - 1]

PassFiles ==
  LET f == Layout(<<Sec(TocMetrics, 1), Sec(TocValues, 1)>>) IN
  WellFormed \cup { Truncated1(g) : g \in WellFormed }
  \cup { [f EXCEPT !.len = MCHeaderLength - 1],
         [f EXCEPT !.magic = FALSE],
         [f EXCEPT !.g2 = 8],
         \* a TOC count whose array ends past the region (40 + 10*16 > 192)
         [f EXCEPT !.toc = 10] }

\* A TOC entry whose type the decoder does not know (e.g. a TOC slot still
\* zero-filled).
UnknownTypeFiles ==
  { Layout(<<Sec(TocMetrics, 1), Sec(0, 0)>>) }

\* A section count that is negative as an int32.
NegativeCountFiles ==
  { Layout(<<Sec(TocMetrics, 1), Sec(TocValues, -1)>>) }

\* A string section offset near the top of the uint64 range.
WrappingOffsetFiles ==
  LET f == Layout(<<Sec(TocMetrics, 1), Sec(TocStrings, 1)>>)
  IN { [f EXCEPT !.tocs[2].offset = MCUintWord - 100] }

\* Two TOC entries of one type, one of them extending past the region.
DuplicateTypeFiles ==
  LET f == Layout(<<Sec(TocMetrics, 1), Sec(TocMetrics, 1)>>)
  IN { [f EXCEPT !.tocs[2].offset = f.len] }

=============================================================================
