----------------------------- MODULE MetricValue -----------------------------
(***************************************************************************)
(* Metric values from the Go interface{} a caller passes to the 8-byte    *)
(* payload of a value cell and back (src/unnamed/part_000):               *)
(*   MetricType.IsCompatible, lines 527-560, guards NewPCPMetric (746-755) *)
(*   and PCPMetric.Set (765-776);                                          *)
(*   MetricType.WriteVal, lines 563-592, stores the value little-endian:   *)
(*   a 32-bit write replaces the low 4 bytes only;                         *)
(*   FixedVal, lines 476-493, is how mmvdump reads a payload back.         *)
(* The client that writes m.Val() into the cell (spec.md 4.H step 3, 4.I) *)
(* is not under src/: writeCell is spec_modelled.                          *)
(*                                                                         *)
(* A Go value is [kind, v]: its dynamic type and its integer.  Widths are *)
(* scaled: W32 bits stand for 32, W64 for 64, IntBits is the width of Go's *)
(* int and uint on the build (W32 on 386/arm, W64 on amd64).               *)
(***************************************************************************)
EXTENDS Integers

CONSTANTS
  W32, W64, IntBits,
  Metrics,      \* metric handles
  Inputs,       \* the Go values callers pass to NewPCPMetric and Set
  NoValue       \* a metric not yet created / a cell never written

ASSUME IntBits \in {W32, W64} /\ 0 < W32 /\ W32 < W64

\* MetricType values, lines 508-522 (the numeric ones and String).
Int32Type == 0
Uint32Type == 1
Int64Type == 2
Uint64Type == 3
FloatType == 4
DoubleType == 5
StringType == 6

MaxInt32 == 2^(W32 - 1) - 1
MaxUint32 == 2^W32 - 1
MaxInt64 == 2^(W64 - 1) - 1

\* Go conversions: the low w bits, read unsigned or two's complement.
Unsigned(x, w) == x % 2^w
Signed(x, w) == IF Unsigned(x, w) >= 2^(w - 1) THEN Unsigned(x, w) - 2^w
                                               ELSE Unsigned(x, w)

(* IsCompatible, lines 527-560.  The third int case tests uint32(v), which *)
(* is never above MaxUint32.                                               *)
IsCompatible(m, val) ==
  CASE val.kind = "int" ->
         CASE val.v < 0 -> m \in {Int32Type, Int64Type}
           [] val.v <= MaxInt32 -> m \in {Int32Type, Int64Type, Uint32Type, Uint64Type}
           [] Unsigned(val.v, W32) <= MaxUint32 -> m \in {Int64Type, Uint32Type, Uint64Type}
           [] val.v <= MaxInt64 -> m \in {Int64Type, Uint64Type}
           [] OTHER -> FALSE
    [] val.kind = "int32"  -> m = Int32Type
    [] val.kind = "int64"  -> m = Int64Type
    [] val.kind = "uint"   -> IF val.v > MaxUint32 THEN m = Uint64Type
                                                   ELSE m \in {Uint32Type, Uint64Type}
    [] val.kind = "uint32" -> m = Uint32Type
    [] val.kind = "uint64" -> m = Uint64Type
    [] OTHER -> FALSE

\* ByteWriter's 32- and 64-bit little-endian stores into the payload word.
Write32(cell, x) == cell - Unsigned(cell, W32) + Unsigned(x, W32)
\* Mutant: the 64-bit store skips the conversion to uint64.
Write64NoConvert(cell, x) == x
Write64(cell, x) == Unsigned(x, W64)

(* WriteVal, lines 563-592: the width follows the value's dynamic type,   *)
(* and for int and uint the metric's type.                                 *)
WriteVal(m, val, cell) ==
  CASE val.kind = "int" /\ m \in {Int32Type, Uint32Type} -> Write32(cell, val.v)
    [] val.kind = "int" /\ m \in {Int64Type, Uint64Type} -> Write64(cell, val.v)
    [] val.kind \in {"int32", "uint32"}                  -> Write32(cell, val.v)
    [] val.kind \in {"int64", "uint64"}                  -> Write64(cell, val.v)
    [] val.kind = "uint" /\ m = Uint32Type               -> Write32(cell, val.v)
    [] val.kind = "uint" /\ m = Uint64Type               -> Write64(cell, val.v)
    [] OTHER                                             -> cell

\* Mutant: int32(data) read without sign extension.
FixedValNoSignExtend(data, t) ==
  CASE t = Int32Type  -> Unsigned(data, W32)
    [] t = Uint32Type -> Unsigned(data, W32)
    [] t = Int64Type  -> Signed(data, W64)
    [] t = Uint64Type -> data

(* FixedVal, lines 476-493, for the integer types. *)
FixedVal(data, t) ==
  CASE t = Int32Type  -> Signed(data, W32)
    [] t = Uint32Type -> Unsigned(data, W32)
    [] t = Int64Type  -> Signed(data, W64)
    [] t = Uint64Type -> data

\* The types a metric's value can be written for (floats never pass
\* IsCompatible, strings are not written through WriteVal).
IntegerTypes == {Int32Type, Uint32Type, Int64Type, Uint64Type}

VARIABLES
  TypeOf,   \* the MetricType each metric was registered with (fixed)
  val,      \* PCPMetric.val of each metric
  cell,     \* the metric's value payload in the mapped file
  written   \* the value the client last wrote into the cell

vars == <<TypeOf, val, cell, written>>

(* NewPCPMetric, lines 746-755: refused unless the type accepts the value. *)
NewPCPMetric(m, v) ==
  /\ val[m] = NoValue
  /\ IsCompatible(TypeOf[m], v)
  /\ val' = [val EXCEPT ![m] = v]
  /\ UNCHANGED <<TypeOf, cell, written>>

(* PCPMetric.Set, lines 765-776 (one goroutine; see PCPMetric.tla). *)
Set(m, v) ==
  /\ val[m] # NoValue
  /\ IsCompatible(TypeOf[m], v)
  /\ v # val[m]
  /\ val' = [val EXCEPT ![m] = v]
  /\ UNCHANGED <<TypeOf, cell, written>>

(* The client writes the metric's current value into its cell with      *)
(* WriteVal (spec.md 4.H step 3 at Start, 4.I on update).               *)
writeCell(m) ==
  /\ val[m] # NoValue
  /\ cell' = [cell EXCEPT ![m] = WriteVal(TypeOf[m], val[m], @)]
  /\ written' = [written EXCEPT ![m] = val[m]]
  /\ UNCHANGED <<TypeOf, val>>

Init ==
  /\ TypeOf \in [Metrics -> IntegerTypes]
  /\ val = [m \in Metrics |-> NoValue]
  /\ cell = [m \in Metrics |-> 0]
  /\ written = [m \in Metrics |-> NoValue]

Next ==
  \E m \in Metrics :
    \/ \E v \in Inputs : NewPCPMetric(m, v) \/ Set(m, v)
    \/ writeCell(m)

Spec == Init /\ [][Next]_vars

-----------------------------------------------------------------------------
TypeOK ==
  /\ TypeOf \in [Metrics -> IntegerTypes]
  /\ val \in [Metrics -> Inputs \cup {NoValue}]
  /\ cell \in [Metrics -> 0 .. (2^W64 - 1)]
  /\ written \in [Metrics -> Inputs \cup {NoValue}]

(* What a reader decodes from a written cell with FixedVal is the value   *)
(* the application set, for every value the metric's type accepted        *)
(* (spec.md 8.3 "set(M, v); get(M) == v"; 4.E "a generic integer value is *)
(* accepted by any numeric target whose range contains it").               *)
CellRoundTrip ==
  \A m \in Metrics :
    written[m] # NoValue => FixedVal(cell[m], TypeOf[m]) = written[m].v

=============================================================================
