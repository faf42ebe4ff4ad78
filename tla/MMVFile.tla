------------------------------- MODULE MMVFile -------------------------------
(***************************************************************************)
(* One MMV file shared by the publishing process (writer) and a process   *)
(* running Dump on it (reader), with no lock between them.                *)
(*                                                                         *)
(* Writer: NewMemoryMappedWriter (src/unnamed/part_000 lines 22-83)       *)
(* creates, zero-fills and maps the file; the client then writes the       *)
(* header with G1 = G2 = 0, the TOC entries and the sections, and         *)
(* publishes G1 then G2 (spec.md 4.H; the client is not under src/, so    *)
(* those steps are spec_modelled); Stop zeroes the generation words       *)
(* (spec.md 3) and Unmap (lines 86-104) unmaps and removes the file.  The *)
(* writer process may die between any two of its steps.                    *)
(*                                                                         *)
(* Reader: Dump (lines 128-144, 194-206, 396-432) over the live region:   *)
(* the length is fixed when the region is mapped, every other field is    *)
(* read through a pointer into the region when the code dereferences it.  *)
(* The record-level goroutines of MMVDump are one step per section here.  *)
(***************************************************************************)
EXTENDS Integers, Sequences, FiniteSets

CONSTANTS
  Layout,          \* the TOC section types the client writes, in order
  HeaderLength,
  Size,            \* the file size the client plans (>= HeaderLength)
  PartialLengths,  \* lengths a failed zero-fill may leave behind
  Gen,             \* the nonzero generation the client publishes
  MaxDumps,        \* how many times the reader runs Dump
  MaxRestarts      \* how many times the application starts a new writer

KnownTocTypes == 1 .. 5
N == Len(Layout)
ASSUME Size >= HeaderLength /\ Gen # 0
ASSUME \A i \in 1 .. N : Layout[i] \in KnownTocTypes

VARIABLES
  exists,   \* the file exists at its path
  region,   \* the file's bytes, by field: len, magic, g1, g2, toc, tocType, written
  wpc,      \* the writer's next step
  wnext,    \* the next TOC entry or section the writer writes
  restarts, \* writers started after the first
  rpc,      \* the reader's next step
  rlen,     \* len(data) of the reader's mapping
  rg1,      \* header.G1 as the reader loaded it
  rtoc,     \* h.Toc as readTocs loaded it
  rsec,     \* per TOC entry the reader read: "pending", "none" (unknown type) or "done"
  rcomplete,\* every section the reader walked had been written
  dumps,    \* Dumps run so far
  last,     \* what the last Dump returned
  rstale,   \* the file the reader maps was removed from the path since
  rold      \* the bytes of that removed file, which the mapping keeps

wvars == <<wpc, wnext, restarts>>
rvars == <<rpc, rlen, rg1, rtoc, rsec, rcomplete, dumps, last, rstale, rold>>
rdump == <<rpc, rlen, rg1, rtoc, rsec, rcomplete, dumps, last>>
vars == <<exists, region, wvars, rvars>>

ZeroRegion(n) == [len |-> n, magic |-> FALSE, g1 |-> 0, g2 |-> 0, toc |-> 0,
                  tocType |-> [i \in 1 .. N |-> 0],
                  written |-> [i \in 1 .. N |-> FALSE]]

NoDump == [result |-> "none"]
DumpError(e) == [error |-> e]

\* What the reader's mapping shows: the file at the path, or the removed one.
RView == IF rstale THEN rold ELSE region

\* os.Remove of the file at the path: a reader that maps it keeps its bytes.
Unlink == IF exists /\ rpc # "idle" /\ ~rstale
            THEN rstale' = TRUE /\ rold' = region
            ELSE UNCHANGED <<rstale, rold>>

-----------------------------------------------------------------------------
(* Lines 22-40 with the file opened in place (O_TRUNC, no remove): a    *)
(* reader's mapping of the old file now shows the new one.               *)
wCreateInPlace ==
  /\ wpc = "create"
  /\ \/ /\ exists' = TRUE /\ region' = ZeroRegion(0) /\ wpc' = "zeroFill"
     \/ /\ wpc' = "failed" /\ UNCHANGED <<exists, region>>
  /\ UNCHANGED <<wnext, restarts, rvars>>

(* NewMemoryMappedWriter, lines 22-40: a file left at the path by an      *)
(* earlier writer is removed (lines 23-28), then the file is created with *)
(* O_EXCL.  Any of these calls may fail, the error returned to Start; on  *)
(* Windows removing a file another process holds open fails.  A reader   *)
(* that maps the removed file keeps its bytes.                             *)
wCreate ==
  /\ wpc = "create"
  /\ \/ /\ exists' = TRUE /\ region' = ZeroRegion(0) /\ wpc' = "zeroFill"
        /\ Unlink
     \/ /\ wpc' = "failed" /\ UNCHANGED <<exists, region, rstale, rold>>
     \* the old file removed (line 24), then MkdirAll or OpenFile fails
     \/ /\ exists /\ exists' = FALSE /\ Unlink
        /\ wpc' = "failed" /\ UNCHANGED region
  /\ UNCHANGED <<wnext, restarts, rdump>>

\* Mutant: the zero-fill writes one byte more than planned.
wZeroFillOffByOne ==
  /\ wpc = "zeroFill"
  /\ \/ region' = ZeroRegion(Size + 1) /\ wpc' = "map"
     \/ \E n \in PartialLengths : region' = ZeroRegion(n) /\ wpc' = "failed"
  /\ UNCHANGED <<exists, wnext, restarts, rvars>>

(* Lines 42-48: f.Write of size zero bytes; on error the file stays, with *)
(* what was written, and the descriptor is not closed.                    *)
wZeroFill ==
  /\ wpc = "zeroFill"
  /\ \/ region' = ZeroRegion(Size) /\ wpc' = "map"
     \/ \E n \in PartialLengths : region' = ZeroRegion(n) /\ wpc' = "failed"
  /\ UNCHANGED <<exists, wnext, restarts, rvars>>

(* Lines 50-83: CreateFileMapping and MapViewOfFile; failure returns with *)
(* the zero-filled file left in place.                                    *)
wMap ==
  /\ wpc = "map"
  /\ wpc' \in {"header", "failed"}
  /\ UNCHANGED <<exists, region, wnext, restarts, rvars>>

(* spec.md 4.H step 2: the header with G1 = G2 = 0; magic and version come *)
(* before the generation words, the TOC count is the header's last field. *)
wWriteMagic ==
  /\ wpc = "header"
  /\ region' = [region EXCEPT !.magic = TRUE]
  /\ wpc' = "tocCount"
  /\ UNCHANGED <<exists, wnext, restarts, rvars>>

wWriteTocCount ==
  /\ wpc = "tocCount"
  /\ region' = [region EXCEPT !.toc = N]
  /\ wpc' = "tocs" /\ wnext' = 1
  /\ UNCHANGED <<exists, restarts, rvars>>

(* spec.md 4.H step 3: TOC entries, then the sections, in layout order. *)
wWriteToc ==
  /\ wpc = "tocs"
  /\ region' = [region EXCEPT !.tocType[wnext] = Layout[wnext]]
  /\ IF wnext = N THEN wpc' = "sections" /\ wnext' = 1
                  ELSE wnext' = wnext + 1 /\ UNCHANGED wpc
  /\ UNCHANGED <<exists, restarts, rvars>>

\* Mutant: publishing starts after the next-to-last section.
wWriteSectionEarlyPublish ==
  /\ wpc = "sections"
  /\ region' = [region EXCEPT !.written[wnext] = TRUE]
  /\ IF wnext >= N - 1 THEN wpc' = "g1" /\ wnext' = 1
                       ELSE wnext' = wnext + 1 /\ UNCHANGED wpc
  /\ UNCHANGED <<exists, restarts, rvars>>

wWriteSection ==
  /\ wpc = "sections"
  /\ region' = [region EXCEPT !.written[wnext] = TRUE]
  /\ IF wnext = N THEN wpc' = "g1" /\ wnext' = 1
                  ELSE wnext' = wnext + 1 /\ UNCHANGED wpc
  /\ UNCHANGED <<exists, restarts, rvars>>

(* spec.md 4.H steps 4-5: barrier, G1, barrier, G2. *)
wPublishG1 ==
  /\ wpc = "g1"
  /\ region' = [region EXCEPT !.g1 = Gen]
  /\ wpc' = "g2"
  /\ UNCHANGED <<exists, wnext, restarts, rvars>>

wPublishG2 ==
  /\ wpc = "g2"
  /\ region' = [region EXCEPT !.g2 = Gen]
  /\ wpc' = "running"
  /\ UNCHANGED <<exists, wnext, restarts, rvars>>

(* Stop, spec.md 3: the generation words are zeroed. *)
wZeroG1 ==
  /\ wpc = "running"
  /\ region' = [region EXCEPT !.g1 = 0]
  /\ wpc' = "stopG2"
  /\ UNCHANGED <<exists, wnext, restarts, rvars>>

wZeroG2 ==
  /\ wpc = "stopG2"
  /\ region' = [region EXCEPT !.g2 = 0]
  /\ wpc' = "unmap"
  /\ UNCHANGED <<exists, wnext, restarts, rvars>>

(* Unmap(true), lines 86-104: unmap the view, close, remove the file; a   *)
(* reader's own mapping keeps the bytes.  If UnmapViewOfFile (line 89) or *)
(* os.Remove (line 97) fails, the error is returned and the file stays.   *)
wUnmap ==
  /\ wpc = "unmap"
  /\ \/ exists' = FALSE /\ Unlink /\ wpc' = "stopped"
     \/ wpc' = "failed" /\ UNCHANGED <<exists, rstale, rold>>
  /\ UNCHANGED <<region, wnext, restarts, rdump>>

(* The writer process dies; the file and its bytes stay as they are. *)
wCrash ==
  /\ wpc \notin {"failed", "stopped", "crashed"}
  /\ wpc' = "crashed"
  /\ UNCHANGED <<exists, region, wnext, restarts, rvars>>

(* The application starts a new client after the last writer failed,     *)
(* crashed or stopped; its Start runs NewMemoryMappedWriter again.         *)
wRestart ==
  /\ wpc \in {"failed", "crashed", "stopped"} /\ restarts < MaxRestarts
  /\ wpc' = "create" /\ wnext' = 1 /\ restarts' = restarts + 1
  /\ UNCHANGED <<exists, region, rvars>>

-----------------------------------------------------------------------------
(* The reader maps the file as it is and calls Dump on the mapping. *)
rOpen ==
  /\ rpc = "idle" /\ exists /\ dumps < MaxDumps
  /\ rlen' = region.len /\ rstale' = FALSE
  /\ rpc' = "header"
  /\ dumps' = dumps + 1
  /\ UNCHANGED <<exists, region, wvars, rg1, rtoc, rsec, rcomplete, last, rold>>

Finish(o) == /\ last' = o
             /\ rpc' = "idle"

(* readHeader, lines 128-138, and the load of header.G1 at line 139. *)
rReadHeader ==
  /\ rpc = "header"
  /\ CASE rlen < HeaderLength -> Finish(DumpError("Truncated")) /\ UNCHANGED rg1
       [] ~RView.magic       -> Finish(DumpError("BadMagic")) /\ UNCHANGED rg1
       [] OTHER               -> rg1' = RView.g1 /\ rpc' = "g2" /\ UNCHANGED last
  /\ UNCHANGED <<exists, region, wvars, rstale, rold, rlen, rtoc, rsec, rcomplete, dumps>>

(* Line 139: the load of header.G2 and the comparison, lines 139-143. *)
rReadG2 ==
  /\ rpc = "g2"
  /\ IF RView.g2 # rg1
       THEN Finish(DumpError("GenerationMismatch"))
       ELSE rpc' = "tocs" /\ UNCHANGED last
  /\ UNCHANGED <<exists, region, wvars, rstale, rold, rlen, rg1, rtoc, rsec, rcomplete, dumps>>

(* Dump line 450 and readTocs, lines 194-206: h.Toc is loaded through the *)
(* header pointer; the entries fit the planned file.                       *)
rReadTocs ==
  /\ rpc = "tocs"
  /\ rtoc' = RView.toc
  /\ rpc' = "components"
  /\ UNCHANGED <<exists, region, wvars, rstale, rold, rlen, rg1, rsec, rcomplete, dumps, last>>

(* readComponents, lines 396-427: wg.Add(len(tocs)); the switch loads     *)
(* each entry's Type and starts a section goroutine for the known ones.   *)
rReadComponents ==
  /\ rpc = "components"
  /\ rsec' = [i \in 1 .. rtoc |->
                IF RView.tocType[i] \in KnownTocTypes THEN "pending" ELSE "none"]
  /\ rcomplete' = TRUE
  /\ rpc' = "wait"
  /\ UNCHANGED <<exists, region, wvars, rstale, rold, rlen, rg1, rtoc, dumps, last>>

(* A section goroutine walks the records of its entry (readMetrics & co.). *)
rReadSection(i) ==
  /\ rpc = "wait" /\ rsec[i] = "pending"
  /\ rsec' = [rsec EXCEPT ![i] = "done"]
  /\ rcomplete' = (rcomplete /\ RView.written[i])
  /\ UNCHANGED <<exists, region, wvars, rstale, rold, rpc, rlen, rg1, rtoc, dumps, last>>

(* wg.Wait, line 429, returns once every entry has called wg.Done; an     *)
(* entry of unknown type never does.  Dump returns the decoded RView.     *)
rReturn ==
  /\ rpc = "wait" /\ \A i \in DOMAIN rsec : rsec[i] = "done"
  /\ Finish([gen |-> rg1, tocs |-> rtoc, complete |-> rcomplete])
  /\ UNCHANGED <<exists, region, wvars, rstale, rold, rlen, rg1, rtoc, rsec, rcomplete, dumps>>

-----------------------------------------------------------------------------
Init ==
  /\ exists = FALSE
  /\ region = ZeroRegion(0)
  /\ wpc = "create" /\ wnext = 1 /\ restarts = 0
  /\ rpc = "idle" /\ rlen = 0 /\ rg1 = 0 /\ rtoc = 0
  /\ rsec = <<>> /\ rcomplete = TRUE
  /\ dumps = 0 /\ last = NoDump
  /\ rstale = FALSE /\ rold = ZeroRegion(0)

Writer ==
  \/ wCreate \/ wZeroFill \/ wMap \/ wWriteMagic \/ wWriteTocCount
  \/ wWriteToc \/ wWriteSection \/ wPublishG1 \/ wPublishG2
  \/ wZeroG1 \/ wZeroG2 \/ wUnmap \/ wCrash \/ wRestart

Reader ==
  \/ rOpen \/ rReadHeader \/ rReadG2 \/ rReadTocs \/ rReadComponents
  \/ \E i \in DOMAIN rsec : rReadSection(i)
  \/ rReturn

Next == Writer \/ Reader

(* Start runs its steps to completion unless the process dies; Stop is    *)
(* the application's choice, so it carries no fairness.  Once mapped, the *)
(* reader's Dump gets scheduled.                                           *)
Fairness ==
  /\ WF_vars(wCreate \/ wZeroFill \/ wMap \/ wWriteMagic \/ wWriteTocCount
             \/ wWriteToc \/ wWriteSection \/ wPublishG1 \/ wPublishG2)
  /\ WF_vars(rReadHeader \/ rReadG2 \/ rReadTocs \/ rReadComponents
             \/ (\E i \in DOMAIN rsec : rReadSection(i)) \/ rReturn)

Spec == Init /\ [][Next]_vars /\ Fairness

-----------------------------------------------------------------------------
TypeOK ==
  /\ exists \in BOOLEAN
  /\ region.len \in 0 .. Size /\ region.magic \in BOOLEAN
  /\ {region.g1, region.g2, rg1} \subseteq {0, Gen}
  /\ region.toc \in {0, N} /\ rtoc \in {0, N}
  /\ region.tocType \in [1 .. N -> {0} \cup KnownTocTypes]
  /\ region.written \in [1 .. N -> BOOLEAN]
  /\ wnext \in 1 .. N /\ dumps \in 0 .. MaxDumps /\ restarts \in 0 .. MaxRestarts
  /\ rstale \in BOOLEAN
  /\ rsec \in UNION { [1 .. k -> {"pending", "none", "done"}] : k \in 0 .. N }
  /\ rcomplete \in BOOLEAN

DumpOk == "gen" \in DOMAIN last

(* A Dump that accepted a nonzero generation saw the whole file: all the   *)
(* TOC entries the client planned, and every section written (spec.md 3:  *)
(* the generation protocol is what lets the lock-free reader trust what   *)
(* it reads; 4.H: content stores are ordered before G1, G1 before G2).    *)
PublishedDumpIsComplete ==
  DumpOk /\ last.gen # 0 => last.tocs = N /\ last.complete

(* Dump accepts a region only when G1 = G2 and the value is nonzero        *)
(* (spec.md 3 "consistent iff G1 == G2 and the value is nonzero"; 8.2).   *)
DumpAcceptsOnlyPublished == DumpOk => last.gen # 0

(* Every Dump the reader starts returns. *)
DumpTerminates == (rpc # "idle") ~> (rpc = "idle")

=============================================================================
