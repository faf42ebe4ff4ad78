---------------------------- MODULE MC_MetricValue ----------------------------
(***************************************************************************)
(* 32 bits scaled to 4, 64 to 8.  Two metrics of any integer MetricType;    *)
(* inputs are each Go kind at the edges of the ranges IsCompatible tests:  *)
(* the minima, -1, 0, MaxInt32, MaxInt32+1, MaxUint32, MaxUint32+1 and the *)
(* maxima, kept to those the kind can hold on the build.                   *)
(***************************************************************************)
EXTENDS MetricValue, TLC


GoValue(k, x) == [kind |-> k, v |-> x]
Edges == {-2^(W64 - 1), -2^(W32 - 1), -1, 0, MaxInt32, MaxInt32 + 1,
          MaxUint32, MaxUint32 + 1, MaxInt64, 2^W64 - 1}
InRange(x, lo, hi) == lo <= x /\ x <= hi

MCInputs ==
  { GoValue("int", x) : x \in { y \in Edges : InRange(y, -2^(IntBits - 1), 2^(IntBits - 1) - 1) } }
  \cup { GoValue("uint", x) : x \in { y \in Edges : InRange(y, 0, 2^IntBits - 1) } }
  \cup { GoValue("int32", x) : x \in {-2^(W32 - 1), -1, MaxInt32} }
  \cup { GoValue("uint32", x) : x \in {0, MaxUint32} }
  \cup { GoValue("int64", x) : x \in {-2^(W64 - 1), MaxInt64} }
  \cup { GoValue("uint64", x) : x \in {2^W64 - 1} }
  \cup { GoValue("float64", 1), GoValue("string", 0) }

\* The expectations of TestIsCompatible, lines 824-882, at scaled width
\* (floats and strings as their kind; the test's float constants are
\* untyped, so float64).
TestCases ==
  { [t |-> Int32Type,  v |-> GoValue("int", -1), result |-> TRUE],
    [t |-> Uint64Type, v |-> GoValue("int", -1), result |-> FALSE],
    [t |-> Uint32Type, v |-> GoValue("int", MaxInt32), result |-> TRUE],
    [t |-> Uint32Type, v |-> GoValue("int32", MaxInt32), result |-> FALSE],
    [t |-> Uint32Type, v |-> GoValue("uint32", MaxUint32), result |-> TRUE],
    [t |-> FloatType,  v |-> GoValue("float64", 1), result |-> TRUE],
    [t |-> DoubleType, v |-> GoValue("float64", 1), result |-> TRUE],
    [t |-> StringType, v |-> GoValue("int", 10), result |-> FALSE],
    [t |-> StringType, v |-> GoValue("string", 0), result |-> TRUE] }

(* IsCompatible returns what TestIsCompatible expects of it. *)
IsCompatibleMatchesTest ==
  \A c \in TestCases : IsCompatible(c.t, c.v) = c.result
=============================================================================
