----------------------------- MODULE MCTensors -----------------------------
(***************************************************************************)
(* Inputs for Tensors.  Every type comes with its extreme values, and with  *)
(* the shapes of a scalar, an empty array and a pair.                       *)
(***************************************************************************)
EXTENDS Tensors, TLC

\* Two elements of each type.
Pair(type) ==
  CASE type = "STRING" -> <<"", "a">>
    [] type = "BOOL" -> <<0, 1>>
    [] type = "UINT8" -> <<0, 255>>
    [] type = "INT8" -> <<-128, 127>>
    [] type = "UINT16" -> <<0, 65535>>
    [] type = "INT16" -> <<-32768, 32767>>
    [] type \in {"FLOAT16", "BFLOAT16"} -> <<15360, 31744>>
    [] OTHER -> <<-1, 2147483647>>

Shaped(type, elems, none) ==
  { [type |-> type, shape |-> <<>>, elems |-> <<elems[2]>>],
    [type |-> type, shape |-> <<0>>, elems |-> none],
    [type |-> type, shape |-> <<2>>, elems |-> elems] }

Objects == [i \in 1 .. 2 |-> << Pair("STRING")[i] >>]

MCArrays ==
  UNION { Shaped(type, Pair(type), <<>>) : type \in NumpyTypes \ {"STRING"} }
    \cup Shaped("STRING", Objects, <<>>)
    \cup { [type |-> "STRING", shape |-> <<1>>, elems |-> <<Pair("STRING")>>],
           [type |-> "other", shape |-> <<>>, elems |-> <<0>>] }

\* A second input that has raw data, one whose raw data is empty, a string.
Second ==
  { [type |-> "FLOAT", shape |-> <<>>, elems |-> <<1>>],
    [type |-> "FLOAT", shape |-> <<0>>, elems |-> <<>>],
    [type |-> "STRING", shape |-> <<>>, elems |-> << <<"a">> >>] }

MCCalls ==
  { [x \in {} |-> x] }
    \cup { ("x" :> a) : a \in MCArrays }
    \cup { ("x" :> a) @@ ("z" :> b) : a \in MCArrays, b \in Second }

\* Up to three dimensions whose products size_t or int64_t hold, wrap to zero or
\* to something else, or overflow.
MCDims == UNION { [1 .. k -> {-1, 0, 1, 2, 8, 16, 63}] : k \in 0 .. 3 }

\* Tensors with up to two elements, and some with a part of another one.
MCTensorProtos ==
  LET types == { "INT8", "FLOAT16", "INT64", "STRING" }
      narrowed == { "UINT8", "INT16", "UINT16", "BOOL", "BFLOAT16", "UINT32", "COMPLEX64", "UNDEFINED" }
      elems(type) == IF type = "STRING" THEN <<"a", "">> ELSE <<40000, -129>>
      field(type) == IF type \in ServerTypes THEN UnpackField[type] ELSE "float_data"
      typed(type, dims, k) ==
        TensorProto(type, dims, FALSE, FALSE, NoRaw, DataIn(field(type), SubSeq(elems(type), 1, k)))
      raw(type, dims, k, extra) ==
        TensorProto(type, dims, FALSE, TRUE, [elems |-> SubSeq(<<1, 0>>, 1, k), extra |-> extra], NoData)
  IN { typed(type, dims, k) : type \in types, dims \in MCDims, k \in 0 .. 2 }
       \cup { raw(type, dims, k, extra) :
                type \in types, dims \in MCDims, k \in 0 .. 2, extra \in {0, 1} }
       \cup { typed(type, <<k>>, k) : type \in narrowed, k \in 1 .. 2 }
       \cup { TensorProto("FLOAT", <<1>>, external, FALSE, NoRaw, DataIn(f, <<1>>)) :
                external \in BOOLEAN, f \in {"float_data", "double_data"} }

MCRequests == { ("x" :> tensor) : tensor \in MCTensorProtos }

MCOutputs ==
  LET results == UNION { Shaped(type, Pair(type), <<>>) : type \in DataType \ {"UNDEFINED"} }
                  \cup { [type |-> "map", shape |-> <<>>, elems |-> <<>>],
                         [type |-> "STRING", shape |-> <<1>>, elems |-> <<NotUtf8>>] }
      last == [type |-> "FLOAT", shape |-> <<1>>, elems |-> <<1>>]
  IN { <<v>> : v \in results } \cup { <<v, last>> : v \in results }

=============================================================================
