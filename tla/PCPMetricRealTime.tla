-------------------------- MODULE PCPMetricRealTime --------------------------
(***************************************************************************)
(* PCPMetric with a history variable that records, for each goroutine's   *)
(* current call, the other goroutines that were inside a call at some     *)
(* instant of it.  A call that overlapped none is ordered in real time     *)
(* against every other call, which lets a property about Set's unlocked    *)
(* read (line 770) not depend on where the calls take effect.             *)
(***************************************************************************)
EXTENDS PCPMetric

VARIABLE overlapped

hvars == <<vars, overlapped>>

\* The goroutines other than g inside a call in the state after a step.
Busy(g) == {h \in Goroutines \ {g} : pc'[h] # Idle}

HInit == Init /\ overlapped = [g \in Goroutines |-> {}]

HNext ==
  /\ Next
  /\ overlapped' = [g \in Goroutines |->
                      IF pc'[g] = Idle THEN {}
                      ELSE IF pc[g] = Idle
                        THEN {h \in Goroutines \ {g} : pc[h] # Idle} \cup Busy(g)
                        ELSE overlapped[g] \cup Busy(g)]

HSpec == HInit /\ [][HNext]_hvars

(* A Set that returns nil and overlapped no other call leaves m.val equal *)
(* to its argument: either it stored it, or its comparison at line 770    *)
(* found it already there, and nobody ran since.  A stale unlocked read   *)
(* of m.val makes Set return without storing.                             *)
SetNotLost ==
  [][\A g \in Goroutines :
       (pc[g] = "return" /\ pc'[g] = Idle /\ ret[g] = "nil" /\ overlapped[g] = {})
         => val = arg[g]]_hvars

=============================================================================
