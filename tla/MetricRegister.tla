---------------------------- MODULE MetricRegister ----------------------------
(***************************************************************************)
(* What a metric promises its goroutines (spec.md 5: "on the same metric  *)
(* they are linearizable"; 4.I: set and get are serialized "so that ...    *)
(* type checks ... and the underlying store occur as one logical step").   *)
(* Each call is invoked, takes effect at one instant between invocation    *)
(* and return, and returns.  A Set of a value the type refuses fails with *)
(* no effect.                                                              *)
(***************************************************************************)
EXTENDS Integers

CONSTANTS Goroutines, Values, Incompatible, Init0

VARIABLES val, op

Idle == [kind |-> "idle"]

Init == val = Init0 /\ op = [g \in Goroutines |-> Idle]

InvokeSet(g, v) ==
  /\ op[g] = Idle
  /\ op' = [op EXCEPT ![g] = [kind |-> "set", arg |-> v, state |-> "pending"]]
  /\ UNCHANGED val

InvokeVal(g) ==
  /\ op[g] = Idle
  /\ op' = [op EXCEPT ![g] = [kind |-> "val", state |-> "pending"]]
  /\ UNCHANGED val

\* The instant a Set takes effect.
ApplySet(g) ==
  /\ op[g].kind = "set" /\ op[g].state = "pending"
  /\ val' = IF op[g].arg \in Incompatible THEN val ELSE op[g].arg
  /\ op' = [op EXCEPT ![g] = [kind |-> "set", arg |-> op[g].arg, state |-> "done",
                                ok |-> op[g].arg \notin Incompatible]]

\* The instant a Val reads.
ApplyVal(g) ==
  /\ op[g].kind = "val" /\ op[g].state = "pending"
  /\ op' = [op EXCEPT ![g] = [kind |-> "val", state |-> "done", ret |-> val]]
  /\ UNCHANGED val

Return(g) ==
  /\ op[g] # Idle /\ op[g].state = "done"
  /\ op' = [op EXCEPT ![g] = Idle]
  /\ UNCHANGED val

Next ==
  \E g \in Goroutines :
    \/ \E v \in Values : InvokeSet(g, v)
    \/ InvokeVal(g) \/ ApplySet(g) \/ ApplyVal(g) \/ Return(g)

\* Every call returns.
Spec == Init /\ [][Next]_<<val, op>>
        /\ \A g \in Goroutines : WF_<<val, op>>(ApplySet(g) \/ ApplyVal(g) \/ Return(g))

=============================================================================
