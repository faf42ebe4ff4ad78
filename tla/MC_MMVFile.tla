------------------------------ MODULE MC_MMVFile ------------------------------
(* One metric with a value and a string: three TOC entries (spec.md S1).  *)
EXTENDS MMVFile

MCLayout == <<3, 4, 5>>            \* TocMetrics, TocValues, TocStrings
MCHeaderLength == 40
MCSize == 40 + 3 * 16 + 104 + 16 + 256
MCPartialLengths == {0, 39}
=============================================================================
