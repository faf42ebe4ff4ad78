----------------------------- MODULE HttpCounter -----------------------------
(***************************************************************************)
(* The http_counter example (src/examples/http_counter/server.go): main   *)
(* creates an Int32 counter metric from the untyped constant 0, registers *)
(* it with a client created with ProcessFlag, starts the client, serves   *)
(* /increment on a goroutine and ends the process with os.Exit(0) when a  *)
(* byte arrives on stdin.  net/http runs handleIncrement on a goroutine   *)
(* per request: Val().(int32), v++, MustSet(v).                           *)
(*                                                                         *)
(* Set is one step here: PCPMetric.tla shows Set and Val linearizable.    *)
(* The client (NewPCPClient, MustRegister, MustStart, MustStop) is not    *)
(* under src/; its file effects follow spec.md 3 and 6.                   *)
(* NewPCPSingletonMetric is not under src/ either.  The dynamic type it   *)
(* stores for the untyped 0 is InitialKinds: "int" if it keeps the value  *)
(* as NewPCPMetric does (src/unnamed/part_000:746-755), "int32" if it     *)
(* applies the resolve that TestResolve (part_000:892-924) expects.       *)
(***************************************************************************)
EXTENDS Integers, FiniteSets

CONSTANTS
  Handlers,      \* net/http goroutines serving requests concurrently
  W32,           \* the width of int32, scaled
  InitialKinds,  \* dynamic types the metric's initial 0 may carry
  MaxRequests,   \* bound on the requests accepted
  NoValue        \* the metric before NewPCPSingletonMetric

ASSUME InitialKinds \subseteq {"int", "int32"} /\ MaxRequests \in Nat

\* Go's int32 arithmetic: the low W32 bits, two's complement.
Int32Range == -(2^(W32 - 1)) .. (2^(W32 - 1) - 1)
Int32(x) == LET u == x % 2^W32 IN IF u >= 2^(W32 - 1) THEN u - 2^W32 ELSE u

VARIABLES
  mpc,        \* main's next step
  alive,      \* the process runs
  flags,      \* the client's flags
  file,       \* the mmv file: exists, generation, Process flag in its header
  listening,  \* the ListenAndServe goroutine runs
  val,        \* the metric's val: [kind, v]
  hpc,        \* per handler goroutine: "idle", "val" or "set"
  hv,         \* per handler goroutine: its local v
  requests,   \* requests accepted
  served,     \* requests answered "incremented"
  hpanics     \* handler panics recovered by net/http

vars == <<mpc, alive, flags, file, listening, val, hpc, hv, requests, served, hpanics>>
hvars == <<hpc, hv, requests, served, hpanics>>

NoFile == [exists |-> FALSE, gen |-> 0, process |-> FALSE]

-----------------------------------------------------------------------------
\* Mutant: the metric created from 1.
newMetricFromOne ==
  /\ mpc = "newMetric"
  /\ \E k \in InitialKinds : val' = [kind |-> k, v |-> 1]
  /\ mpc' = "newClient"
  /\ UNCHANGED <<alive, flags, file, listening, hvars>>

(* Lines 16-27: NewPCPSingletonMetric(0, ..., Int32Type, ...).  0 is in   *)
(* Int32's range, so IsCompatible holds and the panic is not reached.    *)
newMetric ==
  /\ mpc = "newMetric"
  /\ \E k \in InitialKinds : val' = [kind |-> k, v |-> 0]
  /\ mpc' = "newClient"
  /\ UNCHANGED <<alive, flags, file, listening, hvars>>

(* Lines 29-32: NewPCPClient("example", speed.ProcessFlag). *)
newClient ==
  /\ mpc = "newClient"
  /\ flags' = {"process"}
  /\ mpc' = "register"
  /\ UNCHANGED <<alive, file, listening, val, hvars>>

(* Line 34: MustRegister of the only metric. *)
register ==
  /\ mpc = "register"
  /\ mpc' = "start"
  /\ UNCHANGED <<alive, flags, file, listening, val, hvars>>

(* Lines 36-37: MustStart creates, writes and publishes the file, its    *)
(* header carrying the Process flag when the client has it; an error     *)
(* (file creation or mapping) panics.  MustStop is deferred.             *)
start ==
  /\ mpc = "start"
  /\ \/ /\ file' = [exists |-> TRUE, gen |-> 1, process |-> "process" \in flags]
        /\ mpc' = "listen" /\ UNCHANGED alive
     \/ /\ alive' = FALSE /\ mpc' = "exited" /\ UNCHANGED file
  /\ UNCHANGED <<flags, listening, val, hvars>>

(* Lines 39-44: register the handler and start serving on a goroutine. *)
listen ==
  /\ mpc = "listen"
  /\ listening' = TRUE
  /\ mpc' = "wait"
  /\ UNCHANGED <<alive, flags, file, val, hvars>>

(* Lines 41-43: ListenAndServe returns an error (the port is taken, the  *)
(* listener fails); the goroutine panics, which ends the process without *)
(* running main's deferred MustStop.                                     *)
listenFail ==
  /\ alive /\ listening
  /\ alive' = FALSE /\ listening' = FALSE /\ mpc' = "exited"
  /\ UNCHANGED <<flags, file, val, hvars>>

(* Lines 46-48: a byte on stdin, then os.Exit(0): deferred calls do not  *)
(* run, so MustStop never does.                                          *)
exit ==
  /\ alive /\ mpc = "wait"
  /\ alive' = FALSE /\ listening' = FALSE /\ mpc' = "exited"
  /\ UNCHANGED <<flags, file, val, hvars>>

-----------------------------------------------------------------------------
(* net/http accepts a request and calls handleIncrement (line 39, 51). *)
accept(h) ==
  /\ alive /\ listening /\ hpc[h] = "idle" /\ requests < MaxRequests
  /\ hpc' = [hpc EXCEPT ![h] = "val"]
  /\ requests' = requests + 1
  /\ UNCHANGED <<mpc, alive, flags, file, listening, val, hv, served, hpanics>>

(* Line 52 when m.Val() does not hold an int32: the type assertion       *)
(* panics; net/http recovers it and drops the connection.                *)
assertPanic(h) ==
  /\ alive /\ hpc[h] = "val" /\ val.kind # "int32"
  /\ hpc' = [hpc EXCEPT ![h] = "idle"]
  /\ hpanics' = hpanics + 1
  /\ UNCHANGED <<mpc, alive, flags, file, listening, val, hv, requests, served>>

\* Mutant: v++ on a wider integer, with no int32 wrap.
handleValNoWrap(h) ==
  /\ alive /\ hpc[h] = "val" /\ val.kind = "int32"
  /\ hv' = [hv EXCEPT ![h] = val.v + 1]
  /\ hpc' = [hpc EXCEPT ![h] = "set"]
  /\ UNCHANGED <<mpc, alive, flags, file, listening, val, requests, served, hpanics>>

(* Lines 52-53: v := m.Val().(int32), then v++ in int32. *)
handleVal(h) ==
  /\ alive /\ hpc[h] = "val" /\ val.kind = "int32"
  /\ hv' = [hv EXCEPT ![h] = Int32(val.v + 1)]
  /\ hpc' = [hpc EXCEPT ![h] = "set"]
  /\ UNCHANGED <<mpc, alive, flags, file, listening, val, requests, served, hpanics>>

(* Lines 54-55: MustSet(v): an int32 always suits Int32Type; Set stores  *)
(* only when v differs from m.val.  Then "incremented" is written.       *)
handleSet(h) ==
  /\ alive /\ hpc[h] = "set"
  /\ val' = IF hv[h] # val.v \/ val.kind # "int32"
              THEN [kind |-> "int32", v |-> hv[h]] ELSE val
  /\ served' = served + 1
  /\ hpc' = [hpc EXCEPT ![h] = "idle"]
  /\ UNCHANGED <<mpc, alive, flags, file, listening, hv, requests, hpanics>>

-----------------------------------------------------------------------------
Init ==
  /\ mpc = "newMetric" /\ alive = TRUE /\ flags = {}
  /\ file = NoFile /\ listening = FALSE /\ val = NoValue
  /\ hpc = [h \in Handlers |-> "idle"] /\ hv = [h \in Handlers |-> 0]
  /\ requests = 0 /\ served = 0 /\ hpanics = 0

Next ==
  \/ newMetric \/ newClient \/ register \/ start \/ listen \/ listenFail \/ exit
  \/ \E h \in Handlers :
       accept(h) \/ assertPanic(h) \/ handleVal(h) \/ handleSet(h)

(* Safety only: no property here needs a request to be answered. *)
Spec == Init /\ [][Next]_vars

-----------------------------------------------------------------------------
(* Types, and every accepted request is in flight, answered or panicked. *)
TypeOK ==
  /\ alive \in BOOLEAN /\ listening \in BOOLEAN /\ flags \subseteq {"process"}
  /\ file \in [exists : BOOLEAN, gen : {0, 1}, process : BOOLEAN]
  /\ val \in {NoValue} \cup [kind : InitialKinds \cup {"int32"}, v : Int32Range]
  /\ hpc \in [Handlers -> {"idle", "val", "set"}]
  /\ hv \in [Handlers -> Int32Range]
  /\ requests = served + hpanics + Cardinality({h \in Handlers : hpc[h] # "idle"})

(* The counter never shows more requests than were answered: its value  *)
(* is the int32 of some count no larger than the "incremented" replies.   *)
(* Concurrent handlers lose increments (Val, v++, MustSet is not one      *)
(* step), so it may show fewer, but none is counted twice or uncounted.   *)
CounterNeverOvercounts ==
  val # NoValue => \E n \in 0 .. served : val.v = Int32(n)

(* No request makes handleIncrement panic: m.Val() holds an int32. *)
NoHandlerPanic == hpanics = 0

(* The request counter, a CounterSemantics metric, never decreases        *)
(* (handleIncrement's Val, v++, MustSet is meant to add one).              *)
CounterMonotonic ==
  [][val # NoValue /\ val' # NoValue => val'.v >= val.v]_val

=============================================================================
