--------------------------- MODULE MMVDumpSequential ---------------------------
(***************************************************************************)
(* What Dump promises (spec.md 4.J and 5): one decode of the region that  *)
(* rejects a short header, a bad magic and G1 # G2, reads the TOC, and    *)
(* for every TOC entry of a known type either yields the records at       *)
(* offset + j*stride or fails with Truncated when one would extend past   *)
(* the region.  Sections are matched by type, not position; absent ones   *)
(* stay nil.  "The implementation MAY parallelize decoding ... but MUST   *)
(* produce identical results to a sequential decode": this is that        *)
(* sequential decode, over exact (unbounded) integers, as one step.       *)
(***************************************************************************)
EXTENDS Integers, Sequences

CONSTANTS Files, HeaderLength, TocLength, RecordLength, Nil

VARIABLES file, out

\* Outcomes of Dump: not yet returned, an error, or the decoded maps.
None == [result |-> "none"]
DumpError(e) == [error |-> e]
DumpMaps(m) == [maps |-> m]

\* A section fits when its last record ends inside the region.
SectionFits(f, toc) ==
  toc.count = 0 \/ toc.offset + toc.count * RecordLength[toc.type] <= f.len

SectionRecords(toc) ==
  { toc.offset + j * RecordLength[toc.type] : j \in 0 .. (toc.count - 1) }

\* The TOC walked in order from entry k; the first section that does not
\* fit ends the decode.
RECURSIVE DecodeTocs(_, _, _)
DecodeTocs(f, k, maps) ==
  IF k > Len(f.tocs) THEN DumpMaps(maps)
  ELSE LET toc == f.tocs[k] IN
       IF toc.type \notin DOMAIN RecordLength THEN DecodeTocs(f, k + 1, maps)
       ELSE IF ~SectionFits(f, toc) THEN DumpError("Truncated")
       ELSE DecodeTocs(f, k + 1, [maps EXCEPT ![toc.type] = SectionRecords(toc)])

SequentialDump(f) ==
  CASE f.len < HeaderLength                     -> DumpError("Truncated")
    [] ~f.magic                                 -> DumpError("BadMagic")
    [] f.g1 # f.g2                              -> DumpError("GenerationMismatch")
    [] f.len < HeaderLength + f.toc * TocLength -> DumpError("Truncated")
    [] OTHER -> DecodeTocs(f, 1, [t \in DOMAIN RecordLength |-> Nil])

Init == file \in Files /\ out = None

Decode == out = None /\ out' = SequentialDump(file) /\ UNCHANGED file

Spec == Init /\ [][Decode]_<<file, out>> /\ WF_<<file, out>>(Decode)

=============================================================================
