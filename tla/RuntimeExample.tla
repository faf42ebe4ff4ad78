---------------------------- MODULE RuntimeExample ----------------------------
(***************************************************************************)
(* The runtime example (src/examples/runtime/main.go): main builds two    *)
(* instance domains and two instance metrics (cpu, mem), registers them   *)
(* with a client created WITHOUT flags, starts it, and runs a goroutine   *)
(* that on every tick of a 500 ms time.Ticker sets the instances one by   *)
(* one.  When a byte arrives on stdin main returns, running its deferred  *)
(* calls last-in first-out: ticker.Stop() (line 114), then                *)
(* client.MustStop() (line 74); then the process exits.                   *)
(*                                                                         *)
(* A value cell is abstracted to the number of the tick whose sample it   *)
(* holds (0: the initial 0).  time.Ticker's channel has a buffer of one  *)
(* and drops ticks a slow reader misses; Stop does not close it.  The     *)
(* client is not under src/: set after Stop fails (spec.md 3, 7:          *)
(* NotStarted), and MustSetInstance panics on that error.                 *)
(***************************************************************************)
EXTENDS Integers, Sequences

CONSTANTS
  Cells,        \* the instances of both metrics, each a value cell
  UpdateOrder,  \* the cells the loop sets, in the order of lines 81-111
  MaxTicks,     \* bound on the ticks the ticker sends
  GCWidth       \* the width of MemStats.NumGC (uint32), scaled

ASSUME UpdateOrder \in Seq(Cells) /\ MaxTicks \in Nat /\ GCWidth \in Nat

K == Len(UpdateOrder)

VARIABLES
  mpc,       \* main's next step
  alive,     \* the process runs
  killed,    \* the process was ended by a signal
  panicked,  \* a goroutine panicked
  flags,     \* the client's flags
  client,    \* the client's lifecycle: "new", "started", "stopped"
  file,      \* the mmv file: exists, generation, Process flag in its header
  tickerOn,  \* the ticker sends
  pending,   \* ticks buffered in ticker.C
  sent,      \* ticks sent so far
  tickNo,    \* the tick the loop goroutine is processing
  lpc,       \* the loop goroutine: "off", "recv" or "set"
  k,         \* the index in UpdateOrder of the next cell it sets
  cell       \* per cell, the tick whose sample it holds

vars == <<mpc, alive, killed, panicked, flags, client, file, tickerOn, pending,
          sent, tickNo, lpc, k, cell>>
loopVars == <<tickerOn, pending, sent, tickNo, lpc, k, cell>>

NoFile == [exists |-> FALSE, gen |-> 0, process |-> FALSE]

-----------------------------------------------------------------------------
(* Lines 13-64: the instance domains and the metrics, every instance at  *)
(* its initial 0.  These calls fail only on names that collide, which     *)
(* the literal names here do not, so their panics are not reached.        *)
setup ==
  /\ alive /\ mpc = "setup"
  /\ cell' = [c \in Cells |-> 0]
  /\ mpc' = "newClient"
  /\ UNCHANGED <<alive, killed, panicked, flags, client, file, tickerOn, pending,
                 sent, tickNo, lpc, k>>

(* Lines 66-69: NewPCPClient("runtime"): no ProcessFlag. *)
newClient ==
  /\ alive /\ mpc = "newClient"
  /\ flags' = {}
  /\ mpc' = "register"
  /\ UNCHANGED <<alive, killed, panicked, client, file, loopVars>>

(* Lines 71-72: MustRegister of cpu and mem. *)
register ==
  /\ alive /\ mpc = "register"
  /\ mpc' = "start"
  /\ UNCHANGED <<alive, killed, panicked, flags, client, file, loopVars>>

(* Line 73: MustStart publishes the file, or panics on an I/O error. *)
start ==
  /\ alive /\ mpc = "start"
  /\ \/ /\ client' = "started"
        /\ file' = [exists |-> TRUE, gen |-> 1, process |-> "process" \in flags]
        /\ mpc' = "ticker" /\ UNCHANGED <<alive, panicked>>
     \/ /\ alive' = FALSE /\ panicked' = TRUE /\ mpc' = "exited"
        /\ UNCHANGED <<client, file>>
  /\ UNCHANGED <<killed, flags, loopVars>>

(* Lines 76-79: NewTicker(500 ms) and the loop goroutine. *)
startTicker ==
  /\ alive /\ mpc = "ticker"
  /\ tickerOn' = TRUE /\ lpc' = "recv"
  /\ mpc' = "wait"
  /\ UNCHANGED <<alive, killed, panicked, flags, client, file, pending, sent,
                 tickNo, k, cell>>

\* Mutant: a ticker channel that buffers every tick.
tickUnbuffered ==
  /\ alive /\ tickerOn /\ sent < MaxTicks
  /\ pending' = pending + 1 /\ sent' = sent + 1
  /\ UNCHANGED <<mpc, alive, killed, panicked, flags, client, file, tickerOn,
                 tickNo, lpc, k, cell>>

(* The ticker started at line 78 sends a tick into ticker.C, whose buffer *)
(* holds one; a tick that finds it full is dropped.                        *)
tick ==
  /\ alive /\ tickerOn /\ sent < MaxTicks
  /\ pending' = 1 /\ sent' = sent + 1
  /\ UNCHANGED <<mpc, alive, killed, panicked, flags, client, file, tickerOn,
                 tickNo, lpc, k, cell>>

(* Line 80: for range ticker.C receives a tick. *)
recv ==
  /\ alive /\ lpc = "recv" /\ pending > 0
  /\ pending' = pending - 1
  /\ tickNo' = tickNo + 1
  /\ lpc' = "set" /\ k' = 1
  /\ UNCHANGED <<mpc, alive, killed, panicked, flags, client, file, tickerOn,
                 sent, cell>>

\* Mutant: the loop goes back to ticker.C one instance early.
setInstanceSkipLast ==
  /\ alive /\ lpc = "set"
  /\ IF client = "started"
       THEN /\ cell' = [cell EXCEPT ![UpdateOrder[k]] = tickNo]
            /\ lpc' = IF k >= K - 1 THEN "recv" ELSE "set"
            /\ k' = IF k >= K - 1 THEN k ELSE k + 1
            /\ UNCHANGED <<alive, panicked>>
       ELSE alive' = FALSE /\ panicked' = TRUE /\ UNCHANGED <<cell, lpc, k>>
  /\ UNCHANGED <<mpc, killed, flags, client, file, tickerOn, pending, sent, tickNo>>

(* Lines 81-111: MustSetInstance of the next cell with this tick's        *)
(* sample (ReadMemStats at line 84 between the cpu and mem cells changes  *)
(* only the data); on a stopped client it panics, ending the process.     *)
setInstance ==
  /\ alive /\ lpc = "set"
  /\ IF client = "started"
       THEN /\ cell' = [cell EXCEPT ![UpdateOrder[k]] = tickNo]
            /\ lpc' = IF k = K THEN "recv" ELSE "set"
            /\ k' = IF k = K THEN k ELSE k + 1
            /\ UNCHANGED <<alive, panicked>>
       ELSE alive' = FALSE /\ panicked' = TRUE /\ UNCHANGED <<cell, lpc, k>>
  /\ UNCHANGED <<mpc, killed, flags, client, file, tickerOn, pending, sent, tickNo>>

(* Lines 116-117: a byte on stdin; main returns. *)
enter ==
  /\ alive /\ mpc = "wait"
  /\ mpc' = "tickerStop"
  /\ UNCHANGED <<alive, killed, panicked, flags, client, file, loopVars>>

(* Line 114, the last deferred call, runs first: ticker.Stop() ends the   *)
(* sends; a buffered tick stays, and the loop goroutine runs on.          *)
tickerStop ==
  /\ alive /\ mpc = "tickerStop"
  /\ tickerOn' = FALSE
  /\ mpc' = "stop"
  /\ UNCHANGED <<alive, killed, panicked, flags, client, file, pending, sent,
                 tickNo, lpc, k, cell>>

(* Line 74: the deferred MustStop zeroes the generation, unmaps and      *)
(* removes the file (spec.md 3 Stop); a set in flight completes first.  *)
stop ==
  /\ alive /\ mpc = "stop"
  /\ client' = "stopped" /\ file' = NoFile
  /\ mpc' = "exit"
  /\ UNCHANGED <<alive, killed, panicked, flags, loopVars>>

(* Line 118: main returns and the process exits. *)
exit ==
  /\ alive /\ mpc = "exit"
  /\ alive' = FALSE /\ mpc' = "exited"
  /\ UNCHANGED <<killed, panicked, flags, client, file, loopVars>>

(* SIGINT or SIGTERM: the process ends at once, deferred calls unrun. *)
kill ==
  /\ alive
  /\ alive' = FALSE /\ killed' = TRUE /\ mpc' = "exited"
  /\ UNCHANGED <<panicked, flags, client, file, loopVars>>

-----------------------------------------------------------------------------
(* MemStats.PauseNs and PauseEnd are rings of 256 entries; NumGC is a     *)
(* uint32 that wraps after 2^32 collections.                              *)
PauseRing == 256

\* Mutant: the index NumGC%256, the slot the next collection will fill.
PauseIndexNext(numGC) == (numGC % 2^GCWidth) % PauseRing

(* Lines 108-109: the index (mStats.NumGC+255)%256, the sum in uint32.    *)
PauseIndex(numGC) == ((numGC + PauseRing - 1) % 2^GCWidth) % PauseRing

-----------------------------------------------------------------------------
Init ==
  /\ mpc = "setup" /\ alive = TRUE /\ killed = FALSE /\ panicked = FALSE
  /\ flags = {} /\ client = "new" /\ file = NoFile
  /\ tickerOn = FALSE /\ pending = 0 /\ sent = 0 /\ tickNo = 0
  /\ lpc = "off" /\ k = 1 /\ cell = [c \in Cells |-> 0]

Next ==
  \/ setup \/ newClient \/ register \/ start \/ startTicker
  \/ tick \/ recv \/ setInstance
  \/ enter \/ tickerStop \/ stop \/ exit \/ kill

Spec == Init /\ [][Next]_vars

-----------------------------------------------------------------------------
TypeOK ==
  /\ {alive, killed, panicked} \subseteq BOOLEAN
  /\ client \in {"new", "started", "stopped"}
  /\ file \in [exists : BOOLEAN, gen : {0, 1}, process : BOOLEAN]
  /\ pending \in 0 .. 1 /\ sent \in 0 .. MaxTicks /\ tickNo \in 0 .. sent
  /\ lpc \in {"off", "recv", "set"} /\ k \in 1 .. K
  /\ cell \in [Cells -> 0 .. MaxTicks]

(* A reader of the file at any instant sees the cells the loop sets from  *)
(* at most two consecutive ticks, the earlier cells of lines 81-111 the   *)
(* newer: the window spec.md 4.I calls "values that existed at some point *)
(* in the recent past".                                                    *)
CellsSpanTwoTicks ==
  \A i, j \in 1 .. K :
    i < j => cell[UpdateOrder[i]] - cell[UpdateOrder[j]] \in {0, 1}

(* Once the loop has finished a tick, every instance of both metrics     *)
(* holds that tick's sample: the loop sets every instance its instance    *)
(* domains name (lines 13-16, 36-45 against lines 81-111).                *)
EveryInstanceSet ==
  (lpc = "recv" /\ tickNo > 0) => \A c \in Cells : cell[c] = tickNo

(* The runtime stores the pause of a collection at the slot of NumGC,    *)
(* taken before NumGC is incremented in uint32.  For every NumGC, at the *)
(* wrap included, the loop setting its instances reads at lines 108-109 *)
(* the slot of the latest collection: the pause it is meant to report.   *)
LatestPauseSlot(numGC) == ((numGC - 1) % 2^GCWidth) % PauseRing

PauseIndexIsLatest ==
  lpc = "set" => \A n \in 0 .. 2^GCWidth - 1 : PauseIndex(n) = LatestPauseSlot(n)

(* Shutdown is clean: no goroutine panics once main's deferred MustStop   *)
(* has stopped the client, i.e. the loop goroutine never calls            *)
(* MustSetInstance on a stopped client (spec.md 5: stop "blocks until all *)
(* in-flight set calls drain").                                           *)
NoPanicAtShutdown == ~(panicked /\ client = "stopped")

(* Once the process is gone, a file it left published says so: its       *)
(* header carries the Process flag, by which the PMDA checks that the     *)
(* writer is alive (spec.md 6 flags).                                     *)
StaleFileDetectable ==
  (~alive /\ file.exists /\ file.gen # 0) => file.process

=============================================================================
