------------------------------- MODULE MMVDump -------------------------------
(***************************************************************************)
(* The mmvdump reader: Dump(data) of package mmvdump                       *)
(* (src/unnamed/part_000, lines 105-492).                                  *)
(*                                                                         *)
(* Dump runs on the calling goroutine: readHeader, then readTocs, then     *)
(* readComponents, which starts one goroutine per TOC entry of a known     *)
(* type and waits on a WaitGroup sized by the number of TOC entries.       *)
(* Each section goroutine (readInstances, readInstanceDomains,             *)
(* readMetrics, readValues, readStrings: one shape, one set of actions     *)
(* here) starts one goroutine per record; those share the section's err   *)
(* variable without a lock and add to its map under a mutex.               *)
(*                                                                         *)
(* Data is abstracted to what the reader tells apart: a record is its      *)
(* offset (Dump returns pointers into the region, keyed by offset), an     *)
(* error is its kind.  uint64 arithmetic is modulo UintWord, a scaled      *)
(* 2^64; a panic of any goroutine ends the process (panicked).             *)
(***************************************************************************)
EXTENDS Integers, Sequences, FiniteSets

CONSTANTS
  Files,         \* the regions Dump may be handed (records, see FileType)
  HeaderLength,  \* HeaderLength of package mmvdump
  TocLength,     \* TocLength
  RecordLength,  \* TOC section type -> record stride (InstanceLength, ...)
  UintWord,      \* 2^64, scaled: uint64 sums wrap modulo UintWord
  Nil            \* Go nil (no map, no error)

\* TOC section types of the MMV v1 format (TocIndoms ... TocStrings).
TocIndoms    == 1
TocInstances == 2
TocMetrics   == 3
TocValues    == 4
TocStrings   == 5
KnownTocTypes == {TocIndoms, TocInstances, TocMetrics, TocValues, TocStrings}

ASSUME DOMAIN RecordLength = KnownTocTypes

\* Outcomes of Dump other than a decoded region.
Errors == {"Truncated", "BadMagic", "GenerationMismatch"}
\* Outcomes of Dump: not yet returned, an error, or the decoded maps.
None == [result |-> "none"]
DumpError(e) == [error |-> e]
DumpMaps(m) == [maps |-> m]

\* Record offsets of one TOC entry: the loop in readInstances & co. steps
\* offset by the stride in uint64, so the offsets wrap.
RecordOffset(toc, j) == (toc.offset + j * RecordLength[toc.type]) % UintWord
RecordIds(f) ==
  UNION { { <<i, j>> : j \in 0 .. (f.tocs[i].count - 1) } :
          i \in { k \in DOMAIN f.tocs : f.tocs[k].type \in KnownTocTypes } }

VARIABLES
  file,      \* the mapped region (never written while Dump runs here)
  stage,     \* where the Dump goroutine is
  wg,        \* readComponents' WaitGroup counter
  sec,       \* per TOC entry: its goroutine's pc, err, map and WaitGroup
  rec,       \* per record goroutine: its pc
  resMap,    \* readComponents' named results metrics, values, ...
  resErr,    \* readComponents' named results ierr, inerr, merr, ...
  out,       \* what Dump returned
  panicked   \* some goroutine panicked, which ends the process

vars == <<file, stage, wg, sec, rec, resMap, resErr, out, panicked>>

Alive == ~panicked

Return(o) == /\ out' = o
             /\ stage' = "returned"

-----------------------------------------------------------------------------
(* Dump, lines 445-448, and readHeader, lines 128-144. *)
readHeader ==
  /\ Alive /\ stage = "readHeader"
  /\ CASE file.len < HeaderLength -> Return(DumpError("Truncated"))
       [] ~file.magic             -> Return(DumpError("BadMagic"))
       [] file.g1 # file.g2       -> Return(DumpError("GenerationMismatch"))
       [] OTHER                   -> stage' = "readTocs" /\ UNCHANGED out
  /\ UNCHANGED <<file, wg, sec, rec, resMap, resErr, panicked>>

(* Dump, lines 450-453, readTocs, lines 194-206, readToc, lines 146-152:  *)
(* make([]*Toc, count) panics on a negative count; entry i is read at     *)
(* HeaderLength + i*TocLength when it fits in the region.                 *)
readTocs ==
  /\ Alive /\ stage = "readTocs"
  /\ IF file.toc < 0
       THEN panicked' = TRUE /\ UNCHANGED <<stage, out>>
     ELSE IF file.len < HeaderLength + file.toc * TocLength
       THEN Return(DumpError("Truncated")) /\ UNCHANGED panicked
     ELSE stage' = "readComponents" /\ UNCHANGED <<out, panicked>>
  /\ UNCHANGED <<file, wg, sec, rec, resMap, resErr>>

(* readComponents, lines 396-427: wg.Add(len(tocs)), then one goroutine  *)
(* per entry whose type the switch knows; other entries start nothing.   *)
readComponents ==
  /\ Alive /\ stage = "readComponents"
  /\ wg' = Len(file.tocs)
  /\ sec' = [i \in DOMAIN file.tocs |->
               [sec[i] EXCEPT !.pc = IF file.tocs[i].type \in KnownTocTypes
                                     THEN "start" ELSE "none"]]
  /\ stage' = "wait"
  /\ UNCHANGED <<file, rec, resMap, resErr, out, panicked>>

(* readInstances & co., lines 209-233: wg.Add(int(count)) panics on a    *)
(* negative count; then one goroutine per record.                         *)
sectionStart(i) ==
  /\ Alive /\ sec[i].pc = "start"
  /\ IF file.tocs[i].count < 0
       THEN panicked' = TRUE /\ UNCHANGED <<sec, rec>>
       ELSE /\ sec' = [sec EXCEPT ![i].pc = "wait", ![i].wg = file.tocs[i].count]
            /\ rec' = [r \in DOMAIN rec |-> IF r[1] = i THEN "check" ELSE rec[r]]
            /\ UNCHANGED panicked
  /\ UNCHANGED <<file, stage, wg, resMap, resErr, out>>

(* Mutant: wg.Done also on the path that goes on to read the record. *)
recordCheckDoubleDone(r) ==
  /\ Alive /\ rec[r] = "check"
  /\ rec' = [rec EXCEPT ![r] = IF sec[r[1]].err = Nil THEN "read" ELSE "done"]
  /\ sec' = [sec EXCEPT ![r[1]].wg = @ - 1]
  /\ UNCHANGED <<file, stage, wg, resMap, resErr, out, panicked>>

(* Record goroutine, line 221: the unlocked read of the shared err. *)
recordCheck(r) ==
  /\ Alive /\ rec[r] = "check"
  /\ IF sec[r[1]].err = Nil
       THEN rec' = [rec EXCEPT ![r] = "read"] /\ UNCHANGED sec
       ELSE /\ rec' = [rec EXCEPT ![r] = "done"]
            /\ sec' = [sec EXCEPT ![r[1]].wg = @ - 1]
  /\ UNCHANGED <<file, stage, wg, resMap, resErr, out, panicked>>

(* Mutant: the bound check len(data) <= offset+Length, off by one. *)
recordReadOffByOne(r) ==
  LET toc == file.tocs[r[1]]
      off == RecordOffset(toc, r[2])
      end == (off + RecordLength[toc.type]) % UintWord
  IN /\ Alive /\ rec[r] = "read"
     /\ IF file.len <= end
          THEN sec' = [sec EXCEPT ![r[1]].err = "Truncated", ![r[1]].wg = @ - 1]
          ELSE sec' = [sec EXCEPT ![r[1]].recs = @ \cup {off}, ![r[1]].wg = @ - 1]
     /\ rec' = [rec EXCEPT ![r] = "done"]
     /\ UNCHANGED <<file, stage, wg, resMap, resErr, out, panicked>>

(* Record goroutine, lines 222-231, with readInstance & co., lines       *)
(* 154-192: the bound check len(data) < offset+Length is a uint64 sum,    *)
(* and &data[offset] panics when the sum wrapped past the check.          *)
recordRead(r) ==
  LET toc == file.tocs[r[1]]
      off == RecordOffset(toc, r[2])
      end == (off + RecordLength[toc.type]) % UintWord
  IN /\ Alive /\ rec[r] = "read"
     /\ CASE file.len < end ->
               sec' = [sec EXCEPT ![r[1]].err = "Truncated", ![r[1]].wg = @ - 1]
               /\ UNCHANGED panicked
          [] off >= file.len ->
               panicked' = TRUE /\ UNCHANGED sec
          [] OTHER ->
               sec' = [sec EXCEPT ![r[1]].recs = @ \cup {off}, ![r[1]].wg = @ - 1]
               /\ UNCHANGED panicked
     /\ rec' = [rec EXCEPT ![r] = "done"]
     /\ UNCHANGED <<file, stage, wg, resMap, resErr, out>>

(* Section goroutine, lines 235-241 and the first store of the tuple    *)
(* assignment in readComponents (e.g. line 413): wg.Wait, then the map    *)
(* (nil on error) goes to the shared named result.                        *)
sectionReturn(i) ==
  /\ Alive /\ sec[i].pc = "wait" /\ sec[i].wg = 0
  /\ resMap' = [resMap EXCEPT ![file.tocs[i].type] =
                  IF sec[i].err # Nil THEN Nil ELSE sec[i].recs]
  /\ sec' = [sec EXCEPT ![i].pc = "storeErr"]
  /\ UNCHANGED <<file, stage, wg, rec, resErr, out, panicked>>

(* The second store of that tuple assignment, then wg.Done. *)
sectionStoreErr(i) ==
  /\ Alive /\ sec[i].pc = "storeErr"
  /\ resErr' = [resErr EXCEPT ![file.tocs[i].type] = sec[i].err]
  /\ wg' = wg - 1
  /\ sec' = [sec EXCEPT ![i].pc = "done"]
  /\ UNCHANGED <<file, stage, rec, resMap, out, panicked>>

(* readComponents' wg.Wait, line 429, and Dump, lines 457-472: any       *)
(* section error is returned, else the maps.                              *)
dumpReturn ==
  /\ Alive /\ stage = "wait" /\ wg = 0
  /\ Return(IF \E t \in KnownTocTypes : resErr[t] # Nil
            THEN DumpError("Truncated") ELSE DumpMaps(resMap))
  /\ UNCHANGED <<file, wg, sec, rec, resMap, resErr, panicked>>

-----------------------------------------------------------------------------
Init ==
  /\ file \in Files
  /\ stage = "readHeader"
  /\ wg = 0
  /\ sec = [i \in DOMAIN file.tocs |-> [pc |-> "idle", err |-> Nil, recs |-> {}, wg |-> 0]]
  /\ rec = [r \in RecordIds(file) |-> "idle"]
  /\ resMap = [t \in KnownTocTypes |-> Nil]
  /\ resErr = [t \in KnownTocTypes |-> Nil]
  /\ out = None
  /\ panicked = FALSE

Next ==
  \/ readHeader
  \/ readTocs
  \/ readComponents
  \/ \E i \in DOMAIN sec : sectionStart(i) \/ sectionReturn(i) \/ sectionStoreErr(i)
  \/ \E r \in DOMAIN rec : recordCheck(r) \/ recordRead(r)
  \/ dumpReturn

(* The Go scheduler runs every runnable goroutine eventually. *)
Fairness == WF_vars(Next)

Spec == Init /\ [][Next]_vars /\ Fairness

-----------------------------------------------------------------------------
TocType == [type : Int, count : Int, offset : 0 .. (UintWord - 1)]
FileType == [len : Nat, magic : BOOLEAN, g1 : Nat, g2 : Nat, toc : Int,
             tocs : Seq(TocType)]

TypeOK ==
  /\ file \in FileType
  /\ stage \in {"readHeader", "readTocs", "readComponents", "wait", "returned"}
  /\ wg \in 0 .. Len(file.tocs)
  /\ \A i \in DOMAIN sec :
       /\ sec[i].pc \in {"idle", "none", "start", "wait", "storeErr", "done"}
       /\ sec[i].err \in {Nil, "Truncated"}
       /\ sec[i].recs \subseteq 0 .. (UintWord - 1)
       /\ sec[i].wg \in Nat
  /\ \A r \in DOMAIN rec : rec[r] \in {"idle", "check", "read", "done"}
  /\ \A t \in KnownTocTypes : resErr[t] \in {Nil, "Truncated"}
  /\ out \in {None} \cup [error : Errors] \cup [maps : [KnownTocTypes -> SUBSET Nat \cup {Nil}]]
  /\ panicked \in BOOLEAN

(* Dump, with its goroutine per section and per record and their unlocked *)
(* shared err, returns what one sequential decode of the region returns,  *)
(* and returns (spec.md 5: parallel decoding "MUST produce identical      *)
(* results to a sequential decode").                                       *)
Sequential == INSTANCE MMVDumpSequential
DumpRefinesSequential == Sequential!Spec

(* No input makes a goroutine of Dump panic (spec.md 7: "The library      *)
(* never panics on user input"; 8.6: "never a panic").                    *)
NoPanic == ~panicked

(* Dump returns, whatever region it is handed. *)
DumpTerminates == <>(out # None)

=============================================================================
