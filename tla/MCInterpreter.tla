--------------------------- MODULE MCInterpreter ---------------------------
(* A scaled-down gas schedule and stack for model checking Interpreter. *)
EXTENDS Interpreter, TLC

(* Ranges at 0, in the middle, empty but far away, over the end of 64 bits. *)
Ranges == {<<0, 0>>, <<0, 1>>, <<1, 2>>, <<MaxUint, 0>>, <<MaxUint - 1, 2>>, <<MaxUint + 2, 1>>}

(* Two ranges, in the places where a call has them; a value or none; little *)
(* gas asked for, too much, more than 64 bits.                              *)
Top(a, b, c, d, e, f, g) ==
    0 :> a @@ 1 :> b @@ 2 :> c @@ 3 :> d @@ 4 :> e @@ 5 :> f @@ 6 :> g
Call7(g, v, x, y) == Top(g, 1, v, x[1], x[2], y[1], y[2])
Call6(g, x, y) == Top(g, 1, x[1], x[2], y[1], y[2], 0)
Copy(x, y) == Top(x[1], y[1], x[2], 0, 0, 0, 0)
CopyFrom(x) == Top(0, x[1], 0, x[2], 0, 0, 0)
Plain(x) == Top(x[1], x[2], 0, 0, 0, 0, 0)
New(x) == Top(1, x[1], x[2], 0, 0, 0, 0)

MCOperands == [f \in MemoryFunctions |->
    CASE f = NoFunction -> {Plain(<<0, 1>>)}
      [] f \in {"memoryCallDataCopy", "memoryReturnDataCopy", "memoryCodeCopy", "memoryMcopy"} ->
            {Copy(x, y) : x \in Ranges, y \in {<<0, 0>>, <<2, 0>>}}
            \cup {Copy(<<0, 1>>, <<MaxUint, 0>>)}
      [] f = "memoryExtCodeCopy" -> {CopyFrom(x) : x \in Ranges}
      [] f \in {"memoryCreate", "memoryCreate2"} -> {New(x) : x \in Ranges}
      [] f = "memoryCall" ->
            {Call7(g, v, <<0, 0>>, <<1, 2>>) : g \in {1, MaxUint, MaxUint + 1}, v \in {0, 1}}
            \cup {Call7(1, 0, <<MaxUint, 0>>, y) : y \in Ranges}
            \cup {Call7(1, 0, <<1, 2>>, <<0, 1>>)}
      [] f \in {"memoryDelegateCall", "memoryStaticCall"} ->
            {Call6(g, <<0, 1>>, <<1, 2>>) : g \in {1, MaxUint, MaxUint + 1}}
            \cup {Call6(1, x, <<0, 1>>) : x \in Ranges}
      [] OTHER -> {Plain(x) : x \in Ranges}]
=============================================================================
