------------------------------ MODULE PCPMetric ------------------------------
(***************************************************************************)
(* Concurrent use of one PCPMetric (src/unnamed/part_000 lines 738-776):  *)
(* Val takes the read lock of the embedded sync.RWMutex; Set checks the   *)
(* type, then compares the new value with m.val WITHOUT the lock, and     *)
(* only if they differ takes the write lock and stores.  That read races  *)
(* with the store; WeakMemory chooses whether memory is taken as          *)
(* sequentially consistent.  sync.RWMutex is modelled by its contract:    *)
(* a pending Lock blocks new RLocks, Unlock admits the RLocks that       *)
(* blocked, and Go's mutex starvation mode hands a long-waiting Lock the  *)
(* mutex (strong fairness below).                                          *)
(* The type check is MetricValue's IsCompatible, abstracted here to the   *)
(* set of values it refuses.                                               *)
(***************************************************************************)
EXTENDS Integers

CONSTANTS
  Goroutines,
  Values,        \* values passed to Set
  Incompatible,  \* those of Values the metric's type refuses
  Init0,         \* the value NewPCPMetric was given
  NoG,
  WeakMemory     \* TRUE: Set's unlocked read follows the Go memory model

ASSUME Incompatible \subseteq Values /\ Init0 \in Values \ Incompatible

VARIABLES
  val,       \* m.val
  writer,    \* the goroutine holding the write lock, or NoG
  readers,   \* goroutines holding the read lock
  pc,        \* per goroutine: where it is in its call
  arg,       \* per goroutine: the value its Set was given
  ret,       \* per goroutine: what its call returns
  seen       \* per goroutine: the values an unsynchronized read of m.val
             \* may return (the last one it synchronized with, and later ones)

vars == <<val, writer, readers, pc, arg, ret, seen>>

(* Go memory model: a racy read of m.val observes a write that is not     *)
(* hidden from the reader by a later write that happens before the read.  *)
(* Acquiring the mutex (Lock, RLock admitted) synchronizes with the last  *)
(* Unlock, leaving only the current value.  With WeakMemory FALSE the     *)
(* read returns m.val, as under sequential consistency.                   *)
Readable(g) == IF WeakMemory THEN seen[g] ELSE {val}
Synced(S, v) == IF WeakMemory THEN [h \in DOMAIN seen |-> IF h \in S THEN {v} ELSE seen[h]]
                              ELSE seen
Stored(S, v) == IF WeakMemory THEN [h \in DOMAIN seen |-> IF h \in S THEN {v} ELSE seen[h] \cup {v}]
                              ELSE seen

Idle == "idle"

(* The application calls Set(v) or Val() on a goroutine. *)
CallSet(g, v) ==
  /\ pc[g] = Idle
  /\ pc' = [pc EXCEPT ![g] = "setCheck"] /\ arg' = [arg EXCEPT ![g] = v]
  /\ UNCHANGED <<val, writer, readers, ret, seen>>

CallVal(g) ==
  /\ pc[g] = Idle
  /\ pc' = [pc EXCEPT ![g] = "valLock"]
  /\ UNCHANGED <<val, writer, readers, arg, ret, seen>>

(* Mutant: the comparison inverted (val == m.val). *)
setCheckInverted(g) ==
  /\ pc[g] = "setCheck"
  /\ \E r \in Readable(g) :
       CASE arg[g] \in Incompatible ->
              pc' = [pc EXCEPT ![g] = "return"] /\ ret' = [ret EXCEPT ![g] = "error"]
         [] arg[g] # r ->
              pc' = [pc EXCEPT ![g] = "return"] /\ ret' = [ret EXCEPT ![g] = "nil"]
         [] OTHER -> pc' = [pc EXCEPT ![g] = "setLock"] /\ UNCHANGED ret
  /\ UNCHANGED <<val, writer, readers, arg, seen>>

(* Set, lines 766-770: the type check, then the unlocked val != m.val.  *)
setCheck(g) ==
  /\ pc[g] = "setCheck"
  /\ \E r \in Readable(g) :
       CASE arg[g] \in Incompatible ->
              pc' = [pc EXCEPT ![g] = "return"] /\ ret' = [ret EXCEPT ![g] = "error"]
         [] arg[g] = r ->
              pc' = [pc EXCEPT ![g] = "return"] /\ ret' = [ret EXCEPT ![g] = "nil"]
         [] OTHER -> pc' = [pc EXCEPT ![g] = "setLock"] /\ UNCHANGED ret
  /\ UNCHANGED <<val, writer, readers, arg, seen>>

(* Set, line 771: m.Lock(). *)
setLock(g) ==
  /\ pc[g] = "setLock" /\ writer = NoG /\ readers = {}
  /\ writer' = g
  /\ pc' = [pc EXCEPT ![g] = "setStore"]
  /\ seen' = Synced({g}, val)
  /\ UNCHANGED <<val, readers, arg, ret>>

(* Set, lines 772-775: m.val = val, the deferred Unlock, return nil.     *)
(* Unlock hands the read lock to every RLock that blocked meanwhile.     *)
setStore(g) ==
  LET blocked == {h \in Goroutines : pc[h] = "valLock"} IN
  /\ pc[g] = "setStore"
  /\ val' = arg[g]
  /\ writer' = NoG
  /\ readers' = readers \cup blocked
  /\ pc' = [h \in Goroutines |-> CASE h = g -> "return"
                                    [] h \in blocked -> "valRead"
                                    [] OTHER -> pc[h]]
  /\ ret' = [ret EXCEPT ![g] = "nil"]
  /\ seen' = Stored(blocked \cup {g}, arg[g])
  /\ UNCHANGED arg

(* Val, line 759: m.RLock() waits for the writer and for pending Locks. *)
(* Lock is called and acquired in one step (setLock), so a Set counts as *)
(* pending from its compare on: this drops the orders where an RLock     *)
(* falls between Set's compare and its Lock call, whose Val then reads   *)
(* the value from before that Set, as it does when it runs before the    *)
(* compare.                                                                *)
valLock(g) ==
  /\ pc[g] = "valLock" /\ writer = NoG
  /\ \A h \in Goroutines : pc[h] # "setLock"
  /\ readers' = readers \cup {g}
  /\ pc' = [pc EXCEPT ![g] = "valRead"]
  /\ seen' = Synced({g}, val)
  /\ UNCHANGED <<val, writer, arg, ret>>

(* Mutant: Val without its deferred RUnlock. *)
valReadNoUnlock(g) ==
  /\ pc[g] = "valRead"
  /\ ret' = [ret EXCEPT ![g] = val]
  /\ pc' = [pc EXCEPT ![g] = "return"]
  /\ UNCHANGED <<val, writer, readers, arg, seen>>

(* Val, lines 760-761: read m.val, the deferred RUnlock. *)
valRead(g) ==
  /\ pc[g] = "valRead"
  /\ ret' = [ret EXCEPT ![g] = val]
  /\ readers' = readers \ {g}
  /\ pc' = [pc EXCEPT ![g] = "return"]
  /\ UNCHANGED <<val, writer, arg, seen>>

(* The call returns to the application. *)
Return(g) ==
  /\ pc[g] = "return"
  /\ pc' = [pc EXCEPT ![g] = Idle]
  /\ UNCHANGED <<val, writer, readers, arg, ret, seen>>

Init ==
  /\ val = Init0 /\ writer = NoG /\ readers = {}
  /\ pc = [g \in Goroutines |-> Idle]
  /\ arg = [g \in Goroutines |-> Init0]
  /\ ret = [g \in Goroutines |-> "nil"]
  /\ seen = [g \in Goroutines |-> {Init0}]

Next ==
  \E g \in Goroutines :
    \/ \E v \in Values : CallSet(g, v)
    \/ CallVal(g)
    \/ setCheck(g) \/ setLock(g) \/ setStore(g)
    \/ valLock(g) \/ valRead(g) \/ Return(g)

Fairness ==
  \A g \in Goroutines :
    /\ WF_vars(setCheck(g) \/ setStore(g) \/ valRead(g) \/ Return(g))
    /\ SF_vars(setLock(g)) /\ SF_vars(valLock(g))

Spec == Init /\ [][Next]_vars /\ Fairness

-----------------------------------------------------------------------------
TypeOK ==
  /\ val \in Values \ Incompatible
  /\ writer \in Goroutines \cup {NoG}
  /\ readers = {g \in Goroutines : pc[g] = "valRead"}
  /\ pc \in [Goroutines -> {Idle, "setCheck", "setLock", "setStore",
                            "valLock", "valRead", "return"}]
  /\ arg \in [Goroutines -> Values]
  /\ ret \in [Goroutines -> Values \cup {"nil", "error"}]
  /\ seen \in [Goroutines -> SUBSET Values]

(* Refinement mapping: a Set is pending until its unlocked comparison     *)
(* finds m.val already equal (it takes effect there) or until its store; *)
(* a Val takes effect at its read.                                         *)
OpOf(g) ==
  CASE pc[g] = Idle -> [kind |-> "idle"]
    [] pc[g] \in {"setCheck", "setLock", "setStore"} ->
         [kind |-> "set", arg |-> arg[g], state |-> "pending"]
    [] pc[g] \in {"valLock", "valRead"} -> [kind |-> "val", state |-> "pending"]
    [] ret[g] = "error" ->
         [kind |-> "set", arg |-> arg[g], state |-> "done", ok |-> FALSE]
    [] ret[g] = "nil" ->
         [kind |-> "set", arg |-> arg[g], state |-> "done", ok |-> TRUE]
    [] OTHER -> [kind |-> "val", state |-> "done", ret |-> ret[g]]

Register == INSTANCE MetricRegister WITH op <- [g \in Goroutines |-> OpOf(g)]

(* Set and Val, with Set's comparison outside the lock, are linearizable: *)
(* every call takes effect at one instant inside it, and every call        *)
(* returns (spec.md 5).                                                    *)
MetricIsLinearizable == Register!Spec

=============================================================================
