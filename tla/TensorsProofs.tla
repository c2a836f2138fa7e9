--------------------------- MODULE TensorsProofs ---------------------------
(***************************************************************************)
(* The tensors that leave one side are the tensors that arrive at the other *)
(* side, for every width of size_t, every array and every model.            *)
(***************************************************************************)
EXTENDS Tensors, TLAPS, WellFoundedInduction

-----------------------------------------------------------------------------
(***************************************************************************)
(* Single tensors.                                                          *)
(***************************************************************************)

\* A value that its type can hold is the same after narrowing it to this type:
\* the typed fields lose nothing.
LEMMA NarrowKeeps ==
  ASSUME NEW type, NEW n \in Element(type), type # "STRING"
  PROVE  Narrow(type, n) = n
<1>1. CASE type = "BOOL"
  <2>1. n \in {0, 1}
    BY <1>1 DEF Element
  <2>2. Narrow("BOOL", n) = IF n = 0 THEN 0 ELSE 1
    BY DEF Narrow
  <2>3. QED
    BY <1>1, <2>1, <2>2
<1>2. CASE type = "UINT8"
  <2>1. n \in Int /\ 0 <= n /\ n <= 255
    BY <1>2 DEF Element
  <2>2. Narrow("UINT8", n) = n % 256
    BY DEF Narrow
  <2>3. QED
    BY <1>2, <2>1, <2>2
<1>3. CASE type = "INT8"
  <2>1. n \in Int /\ -128 <= n /\ n <= 127
    BY <1>3 DEF Element
  <2>2. Narrow("INT8", n) = ((n + 128) % 256) - 128
    BY DEF Narrow
  <2>3. QED
    BY <1>3, <2>1, <2>2
<1>4. CASE type = "UINT16"
  <2>1. n \in Int /\ 0 <= n /\ n <= 65535
    BY <1>4 DEF Element
  <2>2. Narrow("UINT16", n) = n % 65536
    BY DEF Narrow
  <2>3. QED
    BY <1>4, <2>1, <2>2
<1>5. CASE type = "INT16"
  <2>1. n \in Int /\ -32768 <= n /\ n <= 32767
    BY <1>5 DEF Element
  <2>2. Narrow("INT16", n) = ((n + 32768) % 65536) - 32768
    BY DEF Narrow
  <2>3. QED
    BY <1>5, <2>1, <2>2
<1>6. CASE type \notin {"BOOL", "UINT8", "INT8", "UINT16", "INT16"}
  BY <1>6 DEF Narrow
<1>7. QED
  BY <1>1, <1>2, <1>3, <1>4, <1>5, <1>6

\* Strings are not narrowed.
LEMMA NarrowKeepsStrings ==
  ASSUME NEW s
  PROVE  Narrow("STRING", s) = s
BY DEF Narrow

\* So a whole sequence of elements is the same afterwards.
LEMMA NarrowKeepsAll ==
  ASSUME NEW type,
         NEW elems \in IF type = "STRING" THEN Seq(STRING) ELSE Seq(Element(type))
  PROVE  [i \in DOMAIN elems |-> Narrow(type, elems[i])] = elems
<1>1. elems = [i \in DOMAIN elems |-> elems[i]]
  OBVIOUS
<1>2. ASSUME NEW i \in DOMAIN elems
      PROVE  Narrow(type, elems[i]) = elems[i]
  <2>1. CASE type = "STRING"
    BY <2>1, NarrowKeepsStrings
  <2>2. CASE type # "STRING"
    <3>1. elems[i] \in Element(type)
      BY <2>2
    <3>2. QED
      BY <2>2, <3>1, NarrowKeeps
  <2>3. QED
    BY <2>1, <2>2
<1>3. QED
  BY <1>1, <1>2

\* The server writes an output to the typed field the client reads it from.
LEMMA FieldsAgree ==
  ASSUME NEW type \in DOMAIN ConverterField, type \in NumpyTypes
  PROVE  /\ ConverterField[type] \in Field
         /\ NumpyField[type] = ConverterField[type]
         /\ ItemSize[type] \in Nat \ {0}
<1>1. type \in { "FLOAT", "INT32", "UINT8", "INT8", "UINT16", "INT16", "BOOL", "FLOAT16",
                 "BFLOAT16", "STRING", "INT64", "UINT32", "UINT64", "DOUBLE" }
  BY DEF ConverterField
<1>2. type # "BFLOAT16"
  BY DEF NumpyTypes
<1>3. QED
  BY <1>1, <1>2 DEF ConverterField, NumpyField, Field, ItemSize

\* A tensor with these elements as raw data, or with none if there are none,
\* holds them.
LEMMA RawLengthOf ==
  ASSUME NEW type, ItemSize[type] \in Nat \ {0}, NEW S, NEW elems \in Seq(S),
         NEW tensor, tensor.data_type = type, tensor.raw_data = [elems |-> elems, extra |-> 0]
  PROVE  /\ RawLength(tensor) \in Nat
         /\ RawLength(tensor) > 0 <=> elems # <<>>
<1>1. RawLength(tensor) = Len(elems) * ItemSize[type] + 0
  BY DEF RawLength
<1>2. Len(elems) \in Nat /\ (Len(elems) = 0 <=> elems = <<>>)
  OBVIOUS
<1>3. ASSUME NEW k \in Nat, NEW m \in Nat \ {0}
      PROVE  k * m + 0 \in Nat /\ (k * m + 0 > 0 <=> k # 0)
  OBVIOUS
<1>4. QED
  BY <1>1, <1>2, <1>3

\* What to_array reads from a converted output is what the output holds.
LEMMA StoredIsComputed ==
  ASSUME NEW value, IsValue(value), value.type \in DOMAIN ConverterField,
         value.type \in NumpyTypes, NEW raw \in BOOLEAN,
         value.type = "STRING" => value.elems # <<>>,
         value.type = "FLOAT16" => raw
  PROVE  Stored(MLValueToTensorProto(value, raw)) = value.elems
<1> DEFINE type == value.type
           tensor == MLValueToTensorProto(value, raw)
           field == ConverterField[type]
<1>1. /\ field \in Field
      /\ NumpyField[type] = field
      /\ ItemSize[type] \in Nat \ {0}
  BY FieldsAgree
<1>2. value.elems \in IF type = "STRING" THEN Seq(STRING) ELSE Seq(Element(type))
  BY DEF IsValue
<1>3. tensor.data_type = type
  BY DEF MLValueToTensorProto, TensorProto
<1>4. ASSUME NEW elems, type # "FLOAT16", tensor.data[field] = elems,
             elems \in IF type = "STRING" THEN Seq(STRING) ELSE Seq(Element(type)),
             type = "STRING" \/ ~ (RawLength(tensor) > 0)
      PROVE  Stored(tensor) = elems
  <2>1. Stored(tensor) = [i \in DOMAIN elems |-> AsType(type, elems[i])]
    BY <1>1, <1>3, <1>4 DEF Stored
  <2>2. \A n : AsType(type, n) = Narrow(type, n)
    BY <1>4 DEF AsType
  <2>3. [i \in DOMAIN elems |-> AsType(type, elems[i])]
          = [i \in DOMAIN elems |-> Narrow(type, elems[i])]
    BY <2>2
  <2>4. [i \in DOMAIN elems |-> Narrow(type, elems[i])] = elems
    BY <1>4, NarrowKeepsAll, Zenon
  <2>5. QED
    BY <2>1, <2>3, <2>4
<1>5. CASE type = "STRING"
  <2>1. tensor.data[field] = value.elems
    <3>1. field = "string_data"
      BY <1>5 DEF ConverterField
    <3>2. tensor.data = DataIn("string_data", value.elems)
      BY <1>5 DEF MLValueToTensorProto, TensorProto
    <3>3. QED
      BY <3>1, <3>2 DEF DataIn, Field
  <2>2. QED
    BY <1>2, <1>4, <1>5, <2>1
<1>6. CASE type # "STRING" /\ raw
  <2>1. /\ tensor.raw_data = [elems |-> value.elems, extra |-> 0]
        /\ tensor.data = NoData
    BY <1>6 DEF MLValueToTensorProto, TensorProto
  <2>2. RawLength(tensor) > 0 <=> value.elems # <<>>
    <3>1. value.elems \in Seq(Element(type))
      BY <1>2, <1>6
    <3>2. QED
      BY <1>1, <1>3, <2>1, <3>1, RawLengthOf
  <2>3. CASE value.elems # <<>>
    <3>1. Stored(tensor) = tensor.raw_data.elems
      BY <1>3, <1>6, <2>2, <2>3, Zenon DEF Stored
    <3>2. QED
      BY <2>1, <3>1
  <2>4. CASE value.elems = <<>>
    <3>1. tensor.data[field] = <<>>
      BY <1>1, <2>1 DEF NoData
    <3>2. Stored(tensor) = [i \in DOMAIN <<>> |-> AsType(type, <<>>[i])]
      BY <1>1, <1>3, <2>2, <2>4, <3>1 DEF Stored
    <3>3. QED
      BY <2>4, <3>2
  <2>5. QED
    BY <2>3, <2>4
<1>7. CASE type # "STRING" /\ ~ raw
  <2>1. /\ tensor.raw_data = NoRaw
        /\ tensor.data = DataIn(field, value.elems)
    BY <1>7 DEF MLValueToTensorProto, TensorProto
  <2>2. tensor.data[field] = value.elems
    BY <1>1, <2>1 DEF DataIn
  <2>3. ~ (RawLength(tensor) > 0)
    <3>1. tensor.raw_data = [elems |-> <<>>, extra |-> 0]
      BY <2>1 DEF NoRaw
    <3>2. <<>> \in Seq({})
      OBVIOUS
    <3>3. QED
      BY <1>1, <1>3, <3>1, <3>2, RawLengthOf, Zenon
  <2>4. QED
    BY <1>2, <1>4, <1>7, <2>2, <2>3
<1>8. QED
  BY <1>5, <1>6, <1>7

\* A converted output, read back, is the output.
LEMMA OutputSurvives ==
  ASSUME NEW value, IsValue(value), value.type \in DOMAIN ConverterField, NEW raw \in BOOLEAN,
         Readable(MLValueToTensorProto(value, raw)),
         value.type = "FLOAT16" => raw
  PROVE  to_array(MLValueToTensorProto(value, raw)) = value
<1> DEFINE tensor == MLValueToTensorProto(value, raw)
<1>1. /\ tensor.data_type = value.type
      /\ tensor.dims = value.shape
  BY DEF MLValueToTensorProto, TensorProto
<1>2. value.type \in NumpyTypes
  BY <1>1 DEF Readable
<1>3. ASSUME value.type = "STRING", value.elems = <<>>
      PROVE  FALSE
  <2>1. tensor.data = DataIn("string_data", <<EmptyString>>)
    BY <1>3 DEF MLValueToTensorProto, TensorProto
  <2>2. NumpyField["STRING"] = "string_data"
    BY DEF NumpyField
  <2>3. tensor.data["string_data"] = <<EmptyString>>
    BY <2>1 DEF DataIn, Field
  <2>4. Stored(tensor) = [i \in DOMAIN <<EmptyString>> |-> AsType("STRING", <<EmptyString>>[i])]
    BY <1>1, <1>3, <2>2, <2>3 DEF Stored
  <2>5. Len(Stored(tensor)) = 1
    <3>1. \A n : AsType("STRING", n) = n
      BY NarrowKeepsStrings DEF AsType
    <3>2. Stored(tensor) = <<EmptyString>>
      BY <2>4, <3>1
    <3>3. QED
      BY <3>2
  <2>6. Len(Stored(tensor)) = Product(value.shape)
    BY <1>1 DEF Readable
  <2>7. value.type # "map" /\ Len(value.elems) = 0
    BY <1>3
  <2>8. Product(value.shape) = 0
    BY <2>7 DEF IsValue
  <2>9. QED
    BY <2>5, <2>6, <2>8
<1>4. Stored(tensor) = value.elems
  BY <1>2, <1>3, StoredIsComputed
<1>5. value = [type |-> value.type, shape |-> value.shape, elems |-> value.elems]
  BY DEF IsValue
<1>6. QED
  BY <1>1, <1>4, <1>5 DEF to_array

\* Only three kinds of output are not read back.
LEMMA OutputReadable ==
  ASSUME NEW value, IsValue(value), value.type \in DOMAIN ConverterField, NEW raw \in BOOLEAN,
         value.type # "BFLOAT16",
         value.type = "STRING" =>
           /\ value.elems # <<>>
           /\ \A k \in DOMAIN value.elems : value.elems[k] # NotUtf8
  PROVE  Readable(MLValueToTensorProto(value, raw))
<1> DEFINE tensor == MLValueToTensorProto(value, raw)
           field == ConverterField[value.type]
<1>1. /\ tensor.data_type = value.type
      /\ tensor.dims = value.shape
  BY DEF MLValueToTensorProto, TensorProto
<1>2. value.type \in NumpyTypes
  BY DEF ConverterField, NumpyTypes, DataType, ItemSize
<1>3. value.type # "map" /\ Len(value.elems) = Product(value.shape)
  BY <1>2 DEF IsValue, NumpyTypes, DataType, ItemSize
<1>4. ASSUME value.type = "STRING"
      PROVE  tensor.data.string_data = value.elems
  <2>1. tensor.data = DataIn("string_data", value.elems)
    BY <1>4 DEF MLValueToTensorProto, TensorProto
  <2>2. QED
    BY <2>1 DEF DataIn, Field
<1>5. Len(Stored(tensor)) = Len(value.elems)
  <2>1. CASE value.type = "FLOAT16" /\ ~ raw
    <3>1. /\ field \in Field
          /\ NumpyField[value.type] = field
          /\ ItemSize[value.type] \in Nat \ {0}
      BY <1>2, FieldsAgree
    <3>2. /\ tensor.raw_data = NoRaw
          /\ tensor.data = DataIn(field, value.elems)
      BY <2>1 DEF MLValueToTensorProto, TensorProto
    <3>3. ~ (RawLength(tensor) > 0)
      <4>1. tensor.raw_data = [elems |-> <<>>, extra |-> 0]
        BY <3>2 DEF NoRaw
      <4>2. <<>> \in Seq({})
        OBVIOUS
      <4>3. QED
        BY <1>1, <3>1, <4>1, <4>2, RawLengthOf, Zenon
    <3>4. tensor.data[field] = value.elems
      BY <3>1, <3>2 DEF DataIn
    <3>5. Stored(tensor) = [i \in DOMAIN value.elems |-> AsType(value.type, value.elems[i])]
      BY <1>1, <3>1, <3>3, <3>4 DEF Stored
    <3>6. value.elems \in Seq(Element(value.type))
      BY <2>1 DEF IsValue
    <3>7. QED
      BY <3>5, <3>6
  <2>2. CASE ~ (value.type = "FLOAT16" /\ ~ raw)
    <3>1. Stored(tensor) = value.elems
      BY <1>2, <2>2, StoredIsComputed
    <3>2. QED
      BY <3>1
  <2>3. QED
    BY <2>1, <2>2
<1>6. QED
  BY <1>1, <1>2, <1>3, <1>4, <1>5 DEF Readable

\* A numeric output is raw data if it is told to.
LEMMA RawAsTold ==
  ASSUME NEW value, value.type # "STRING", NEW raw \in BOOLEAN
  PROVE  MLValueToTensorProto(value, raw).has_raw_data = raw
<1>1. CASE raw
  BY <1>1 DEF MLValueToTensorProto, TensorProto
<1>2. CASE ~ raw
  BY <1>2, Zenon DEF MLValueToTensorProto, TensorProto
<1>3. QED
  BY <1>1, <1>2

\* The request says what type the array has.
LEMMA TypeIsSent ==
  ASSUME NEW arr
  PROVE  SerializeToString(from_array(arr)).data_type = arr.type
<1>1. from_array(arr).data_type = arr.type
  BY DEF from_array, TensorProto
<1>2. QED
  BY <1>1 DEF SerializeToString, TensorProto

\* An array, sent as a TensorProto and unpacked, has its elements again.
LEMMA InputSurvives ==
  ASSUME NEW arr, arr.type \in NumpyTypes, arr.type \in ServerTypes,
         Contents(arr) \in IF arr.type = "STRING" THEN Seq(STRING) ELSE Seq(Element(arr.type))
  PROVE  TensorProtoToMLValue(SerializeToString(from_array(arr)))
           = [type |-> arr.type, shape |-> arr.shape, elems |-> Contents(arr)]
<1> DEFINE tensor == from_array(arr)
           sent == SerializeToString(tensor)
           field == UnpackField[arr.type]
<1>1. /\ tensor.data_type = arr.type /\ tensor.dims = arr.shape
      /\ sent.data_type = arr.type /\ sent.dims = arr.shape
      /\ sent.raw_data = tensor.raw_data /\ sent.data = tensor.data
      /\ sent.has_raw_data = (tensor.has_raw_data /\ RawLength(tensor) > 0)
  BY DEF from_array, SerializeToString, TensorProto
<1>2. /\ field \in Field
      /\ ItemSize[arr.type] \in Nat \ {0}
  BY DEF ServerTypes, NumpyTypes, DataType, ItemSize, UnpackField, Field
<1>3. ASSUME ~ sent.has_raw_data, sent.data[field] = Contents(arr)
      PROVE  UnpackTensor(sent) = Contents(arr)
  <2>1. UnpackTensor(sent)
          = [i \in DOMAIN Contents(arr) |-> Narrow(arr.type, Contents(arr)[i])]
    BY <1>1, <1>3 DEF UnpackTensor
  <2>2. QED
    BY <2>1, NarrowKeepsAll, Zenon
<1>4. CASE arr.type = "STRING"
  <2>1. /\ ~ tensor.has_raw_data
        /\ tensor.data = DataIn("string_data", Contents(arr))
    BY <1>4 DEF from_array, TensorProto
  <2>2. field = "string_data"
    BY <1>4 DEF UnpackField
  <2>3. sent.data[field] = Contents(arr)
    BY <1>1, <1>2, <2>1, <2>2 DEF DataIn
  <2>4. QED
    BY <1>1, <1>3, <2>1, <2>3, Zenon DEF TensorProtoToMLValue
<1>5. CASE arr.type # "STRING"
  <2>1. /\ tensor.has_raw_data
        /\ tensor.raw_data = [elems |-> Contents(arr), extra |-> 0]
        /\ tensor.data = NoData
    BY <1>5 DEF from_array, TensorProto
  <2>2. RawLength(tensor) > 0 <=> Contents(arr) # <<>>
    <3>1. Contents(arr) \in Seq(Element(arr.type))
      BY <1>5
    <3>2. QED
      BY <1>1, <1>2, <2>1, <3>1, RawLengthOf
  <2>3. CASE Contents(arr) # <<>>
    <3>1. sent.has_raw_data
      BY <1>1, <2>1, <2>2, <2>3, Zenon
    <3>2. UnpackTensor(sent) = Contents(arr)
      BY <1>1, <2>1, <3>1 DEF UnpackTensor
    <3>3. QED
      BY <1>1, <3>2 DEF TensorProtoToMLValue
  <2>4. CASE Contents(arr) = <<>>
    <3>1. ~ sent.has_raw_data
      BY <1>1, <2>2, <2>4, Zenon
    <3>2. sent.data[field] = <<>>
      BY <1>1, <1>2, <2>1 DEF NoData
    <3>3. UnpackTensor(sent) = Contents(arr)
      BY <1>3, <2>4, <3>1, <3>2
    <3>4. QED
      BY <1>1, <3>3 DEF TensorProtoToMLValue
  <2>5. QED
    BY <2>3, <2>4
<1>6. QED
  BY <1>4, <1>5

-----------------------------------------------------------------------------
(***************************************************************************)
(* Sizes.  Two loops multiply the dimensions of a tensor, one in size_t with *)
(* overflow checks, one in int64_t without.  Both are related to the product *)
(* of unbounded integers, for any number of dimensions.                     *)
(***************************************************************************)

\* The order of the numbers, as a relation.
Less == {p \in Nat \X Nat : p[1] < p[2]}

\* Induction over the natural numbers, about a set of numbers.
LEMMA NumbersFromZero ==
  ASSUME NEW S, 0 \in S, \A n \in Nat : n \in S => n + 1 \in S
  PROVE  Nat \subseteq S
<1> DEFINE T == Nat \ S
<1>1. SUFFICES ASSUME T # {} PROVE FALSE
  OBVIOUS
<1>2. IsWellFoundedOn(Less, Nat)
  BY NatLessThanWellFounded DEF Less, OpToRel
<1>3. PICK x \in T : \A y \in T : <<y, x>> \notin Less
  BY <1>1, <1>2, WFMin, Zenon
<1>4. x \in Nat /\ x - 1 \in Nat
  OBVIOUS
<1>5. <<x - 1, x>> \in Less
  BY <1>4 DEF Less
<1>6. x - 1 \in S
  BY <1>3, <1>4, <1>5
<1>7. (x - 1) + 1 \in S
  BY <1>4, <1>6
<1>8. QED
  BY <1>4, <1>7

\* Induction up to a number.
LEMMA UpTo ==
  ASSUME NEW n \in Nat, NEW S, 0 \in S, \A i \in 0 .. n - 1 : i \in S => i + 1 \in S
  PROVE  0 .. n \subseteq S
<1> DEFINE T == {i \in Nat : i <= n => i \in S}
<1>1. 0 \in T
  OBVIOUS
<1>2. \A i \in Nat : i \in T => i + 1 \in T
  OBVIOUS
<1>3. Nat \subseteq T
  <2> HIDE DEF T
  <2> QED BY <1>1, <1>2, NumbersFromZero
<1>4. QED
  BY <1>3

\* A recursion over 0 .. n of integers that starts with 1 has a solution.
LEMMA RecursionHasSolution ==
  ASSUME NEW n \in Nat, NEW step \in [Int \X (1 .. n) -> Int]
  PROVE  \E f \in [0 .. n -> Int] :
           /\ f[0] = 1
           /\ \A i \in 1 .. n : f[i] = step[<<f[i - 1], i>>]
<1> DEFINE Solves(f, m) == /\ f \in [0 .. m -> Int]
                           /\ f[0] = 1
                           /\ \A i \in 1 .. m : f[i] = step[<<f[i - 1], i>>]
           S == {m \in Nat : \E f : Solves(f, m)}
<1>1. 0 \in S
  <2>1. Solves([i \in 0 .. 0 |-> 1], 0)
    OBVIOUS
  <2>2. QED
    BY <2>1, Zenon
<1>2. ASSUME NEW m \in 0 .. n - 1, m \in S
      PROVE  m + 1 \in S
  <2>1. PICK f : Solves(f, m)
    BY <1>2
  <2> DEFINE g == [i \in 0 .. m + 1 |-> IF i = m + 1 THEN step[<<f[m], m + 1>>] ELSE f[i]]
  <2>2. step[<<f[m], m + 1>>] \in Int
    BY <2>1
  <2>3. g \in [0 .. m + 1 -> Int] /\ g[0] = 1
    BY <2>1, <2>2
  <2>4. ASSUME NEW i \in 1 .. m + 1
        PROVE  g[i] = step[<<g[i - 1], i>>]
    <3>1. CASE i = m + 1
      <4>1. i - 1 = m /\ m \in 0 .. m + 1 /\ m # m + 1
        BY <3>1
      <4>2. g[m] = f[m] /\ g[m + 1] = step[<<f[m], m + 1>>]
        BY <4>1
      <4>3. QED
        BY <3>1, <4>1, <4>2
    <3>2. CASE i # m + 1
      <4>1. i \in 1 .. m /\ i - 1 \in 0 .. m /\ g[i] = f[i] /\ g[i - 1] = f[i - 1]
        BY <3>2
      <4>2. QED
        BY <2>1, <4>1
    <3>3. QED
      BY <3>1, <3>2
  <2>5. Solves(g, m + 1)
    BY <2>3, <2>4, Zenon
  <2>6. m + 1 \in Nat
    OBVIOUS
  <2>7. QED
    <3> HIDE DEF g, Solves
    <3> QED BY <2>5, <2>6
<1>3. 0 .. n \subseteq S
  <2> HIDE DEF S
  <2> QED BY <1>1, <1>2, UpTo
<1>4. n \in S
  <2> HIDE DEF S
  <2> QED BY <1>3
<1>5. PICK f : Solves(f, n)
  BY <1>4
<1>6. QED
  BY <1>5

\* Division with remainder.
LEMMA DivMod ==
  ASSUME NEW m \in Int, NEW d \in Nat \ {0}
  PROVE  /\ m \div d \in Int
         /\ m % d \in 0 .. d - 1
         /\ m = d * (m \div d) + (m % d)
OBVIOUS

\* What Wrap returns differs from its argument by a multiple of SizeSpan.
LEMMA WrapType ==
  ASSUME NEW n \in Int
  PROVE  /\ Wrap(n) \in Int
         /\ - SizeHalf <= Wrap(n) /\ Wrap(n) < SizeHalf
         /\ \E k \in Int : Wrap(n) = n + SizeSpan * k
<1> DEFINE m == n + SizeHalf
           q == m \div SizeSpan
           r == m % SizeSpan
<1>1. m \in Int /\ SizeSpan \in Nat \ {0} /\ SizeSpan = 2 * SizeHalf /\ SizeHalf \in Nat
  BY PowerAssumption
<1>2. q \in Int /\ r \in 0 .. SizeSpan - 1 /\ m = SizeSpan * q + r
  <2> HIDE DEF m
  <2> QED BY <1>1, DivMod, Zenon
<1>3. Wrap(n) = r - SizeHalf
  BY DEF Wrap
<1> HIDE DEF q, r
<1> DEFINE k == 0 - q
<1>4. k \in Int /\ Wrap(n) = n + SizeSpan * k
  BY <1>1, <1>2, <1>3
<1> HIDE DEF k
<1>5. Wrap(n) \in Int /\ - SizeHalf <= Wrap(n) /\ Wrap(n) < SizeHalf
  BY <1>1, <1>2, <1>3
<1>6. QED
  BY <1>4, <1>5

\* Product is computed dimension by dimension.
LEMMA ProductSteps ==
  ASSUME NEW dims \in Seq(Int)
  PROVE  \E f \in [0 .. Len(dims) -> Int] :
           /\ f[0] = 1
           /\ \A i \in 1 .. Len(dims) : f[i] = f[i - 1] * dims[i]
           /\ Product(dims) = f[Len(dims)]
<1> DEFINE n == Len(dims)
           Def(f) == f = [i \in 0 .. n |-> IF i = 0 THEN 1 ELSE f[i - 1] * dims[i]]
           step == [p \in Int \X (1 .. n) |-> p[1] * dims[p[2]]]
           f == CHOOSE g : Def(g)
<1>1. n \in Nat /\ \A i \in 1 .. n : dims[i] \in Int
  OBVIOUS
<1>2. step \in [Int \X (1 .. n) -> Int]
  BY <1>1
<1>3. PICK g \in [0 .. n -> Int] : g[0] = 1 /\ \A i \in 1 .. n : g[i] = step[<<g[i - 1], i>>]
  <2>1. n \in Nat
    BY <1>1
  <2> HIDE DEF step, n
  <2> QED BY <1>2, <2>1, RecursionHasSolution, Zenon
<1>4. ASSUME NEW i \in 1 .. n
      PROVE  g[i] = g[i - 1] * dims[i]
  <2>1. i - 1 \in 0 .. n /\ g[i - 1] \in Int
    BY <1>1
  <2>2. step[<<g[i - 1], i>>] = g[i - 1] * dims[i]
    BY <2>1
  <2>3. QED
    BY <1>3, <2>2, Zenon
<1>5. Def(g)
  BY <1>1, <1>3, <1>4
<1>6. Def(f)
  <2> HIDE DEF Def
  <2> QED BY <1>5
<1>7. Product(dims) = f[n]
  BY DEF Product
<1> HIDE DEF f, step
<1> DEFINE S == {i \in Nat : f[i] = g[i]}
<1>8. 0 .. n \subseteq S
  <2>1. n \in Nat /\ 0 \in S
    BY <1>1, <1>3, <1>6
  <2>2. ASSUME NEW i \in 0 .. n - 1, i \in S
        PROVE  i + 1 \in S
    <3>1. i + 1 \in 1 .. n /\ (i + 1) - 1 = i /\ i + 1 \in Nat /\ i + 1 \in 0 .. n /\ i + 1 # 0
      BY <1>1
    <3>2. f[i + 1] = f[i] * dims[i + 1]
      BY <1>6, <3>1
    <3>3. g[i + 1] = g[i] * dims[i + 1]
      BY <1>4, <3>1
    <3>4. QED
      BY <2>2, <3>1, <3>2, <3>3
  <2> HIDE DEF S, n
  <2> QED BY <2>1, <2>2, UpTo, Zenon
<1>9. Product(dims) = g[n]
  <2>1. n \in S
    <3>1. n \in 0 .. n
      BY <1>1
    <3> HIDE DEF S
    <3> QED BY <1>8, <3>1
  <2>2. QED
    BY <1>7, <2>1
<1>10. QED
  BY <1>3, <1>4, <1>9

\* So is tensor_size, wrapping at each of them.
LEMMA TensorSizeSteps ==
  ASSUME NEW dims \in Seq(Int)
  PROVE  \E f \in [0 .. Len(dims) -> Int] :
           /\ f[0] = 1
           /\ \A i \in 1 .. Len(dims) : f[i] = Wrap(f[i - 1] * dims[i])
           /\ TensorSize(dims) = f[Len(dims)]
<1> DEFINE n == Len(dims)
           Def(f) == f = [i \in 0 .. n |-> IF i = 0 THEN 1 ELSE Wrap(f[i - 1] * dims[i])]
           step == [p \in Int \X (1 .. n) |-> Wrap(p[1] * dims[p[2]])]
           f == CHOOSE g : Def(g)
<1>1. n \in Nat /\ \A i \in 1 .. n : dims[i] \in Int
  OBVIOUS
<1>2. step \in [Int \X (1 .. n) -> Int]
  <2>1. ASSUME NEW p \in Int \X (1 .. n)
        PROVE  Wrap(p[1] * dims[p[2]]) \in Int
    <3>1. p[1] * dims[p[2]] \in Int
      BY <1>1
    <3>2. QED
      BY <3>1, WrapType, Zenon
  <2>2. QED
    BY <2>1
<1>3. PICK g \in [0 .. n -> Int] : g[0] = 1 /\ \A i \in 1 .. n : g[i] = step[<<g[i - 1], i>>]
  <2>1. n \in Nat
    BY <1>1
  <2> HIDE DEF step, n
  <2> QED BY <1>2, <2>1, RecursionHasSolution, Zenon
<1>4. ASSUME NEW i \in 1 .. n
      PROVE  g[i] = Wrap(g[i - 1] * dims[i])
  <2>1. i - 1 \in 0 .. n /\ g[i - 1] \in Int
    BY <1>1
  <2>2. step[<<g[i - 1], i>>] = Wrap(g[i - 1] * dims[i])
    BY <2>1
  <2>3. QED
    BY <1>3, <2>2, Zenon
<1>5. Def(g)
  BY <1>1, <1>3, <1>4
<1>6. Def(f)
  <2> HIDE DEF Def
  <2> QED BY <1>5
<1>7. TensorSize(dims) = f[n]
  BY DEF TensorSize
<1> HIDE DEF f, step
<1> DEFINE S == {i \in Nat : f[i] = g[i]}
<1>8. 0 .. n \subseteq S
  <2>1. n \in Nat /\ 0 \in S
    BY <1>1, <1>3, <1>6
  <2>2. ASSUME NEW i \in 0 .. n - 1, i \in S
        PROVE  i + 1 \in S
    <3>1. i + 1 \in 1 .. n /\ (i + 1) - 1 = i /\ i + 1 \in Nat /\ i + 1 \in 0 .. n /\ i + 1 # 0
      BY <1>1
    <3>2. f[i + 1] = Wrap(f[i] * dims[i + 1])
      BY <1>6, <3>1
    <3>3. g[i + 1] = Wrap(g[i] * dims[i + 1])
      BY <1>4, <3>1
    <3>4. QED
      BY <2>2, <3>1, <3>2, <3>3
  <2> HIDE DEF S, n
  <2> QED BY <2>1, <2>2, UpTo, Zenon
<1>9. TensorSize(dims) = g[n]
  <2>1. n \in S
    <3>1. n \in 0 .. n
      BY <1>1
    <3> HIDE DEF S
    <3> QED BY <1>8, <3>1
  <2>2. QED
    BY <1>7, <2>1
<1>10. QED
  BY <1>3, <1>4, <1>9

\* And so is what GetSizeInBytesFromTensorProto counts, until it gives up.
CountStep(count, d) ==
  IF count = Overflow \/ d < 0 \/ d >= SizeMax THEN Overflow
  ELSE CalcMemSizeForArray(count, d)

LEMMA CountSteps ==
  ASSUME NEW dims \in Seq(Int)
  PROVE  \E f \in [0 .. Len(dims) -> Int] :
           /\ f[0] = 1
           /\ \A i \in 1 .. Len(dims) : f[i] = CountStep(f[i - 1], dims[i])
           /\ CountInSize(dims) = f[Len(dims)]
<1> DEFINE n == Len(dims)
           Def(f) == f = [i \in 0 .. n |->
                            IF i = 0 THEN 1
                            ELSE IF f[i - 1] = Overflow \/ dims[i] < 0 \/ dims[i] >= SizeMax
                                 THEN Overflow
                            ELSE CalcMemSizeForArray(f[i - 1], dims[i])]
           step == [p \in Int \X (1 .. n) |-> CountStep(p[1], dims[p[2]])]
           f == CHOOSE g : Def(g)
<1>1. n \in Nat /\ \A i \in 1 .. n : dims[i] \in Int
  OBVIOUS
<1>2. step \in [Int \X (1 .. n) -> Int]
  <2>1. ASSUME NEW p \in Int \X (1 .. n)
        PROVE  CountStep(p[1], dims[p[2]]) \in Int
    <3>1. p[1] * dims[p[2]] \in Int
      BY <1>1
    <3>2. QED
      BY <3>1 DEF CountStep, CalcMemSizeForArray, Overflow
  <2>2. QED
    BY <2>1
<1>3. PICK g \in [0 .. n -> Int] : g[0] = 1 /\ \A i \in 1 .. n : g[i] = step[<<g[i - 1], i>>]
  <2>1. n \in Nat
    BY <1>1
  <2> HIDE DEF step, n
  <2> QED BY <1>2, <2>1, RecursionHasSolution, Zenon
<1>4. ASSUME NEW i \in 1 .. n
      PROVE  g[i] = CountStep(g[i - 1], dims[i])
  <2>1. i - 1 \in 0 .. n /\ g[i - 1] \in Int
    BY <1>1
  <2>2. step[<<g[i - 1], i>>] = CountStep(g[i - 1], dims[i])
    BY <2>1
  <2>3. QED
    BY <1>3, <2>2, Zenon
<1>5. Def(g)
  BY <1>1, <1>3, <1>4 DEF CountStep
<1>6. Def(f)
  <2> HIDE DEF Def
  <2> QED BY <1>5
<1>7. CountInSize(dims) = f[n]
  BY DEF CountInSize
<1> HIDE DEF f, step
<1> DEFINE S == {i \in Nat : f[i] = g[i]}
<1>8. 0 .. n \subseteq S
  <2>1. n \in Nat /\ 0 \in S
    BY <1>1, <1>3, <1>6
  <2>2. ASSUME NEW i \in 0 .. n - 1, i \in S
        PROVE  i + 1 \in S
    <3>1. i + 1 \in 1 .. n /\ (i + 1) - 1 = i /\ i + 1 \in Nat /\ i + 1 \in 0 .. n /\ i + 1 # 0
      BY <1>1
    <3>2. f[i + 1] = CountStep(f[i], dims[i + 1])
      BY <1>6, <3>1 DEF CountStep
    <3>3. g[i + 1] = CountStep(g[(i + 1) - 1], dims[i + 1])
      BY <1>4, <3>1, Zenon
    <3>4. QED
      BY <2>2, <3>1, <3>2, <3>3
  <2> HIDE DEF S, n
  <2> QED BY <2>1, <2>2, UpTo, Zenon
<1>9. CountInSize(dims) = g[n]
  <2>1. n \in S
    <3>1. n \in 0 .. n
      BY <1>1
    <3> HIDE DEF S
    <3> QED BY <1>8, <3>1
  <2>2. QED
    BY <1>7, <2>1
<1>10. QED
  BY <1>3, <1>4, <1>9

\* The product of the first dimensions.
LEMMA PrefixProduct ==
  ASSUME NEW dims \in Seq(Int), NEW g \in [0 .. Len(dims) -> Int], g[0] = 1,
         \A i \in 1 .. Len(dims) : g[i] = g[i - 1] * dims[i],
         NEW m \in 0 .. Len(dims)
  PROVE  Product(SubSeq(dims, 1, m)) = g[m]
<1> DEFINE first == SubSeq(dims, 1, m)
<1>1. first \in Seq(Int) /\ Len(first) = m /\ \A i \in 1 .. m : first[i] = dims[i]
  OBVIOUS
<1>2. PICK h \in [0 .. m -> Int] : /\ h[0] = 1
                                   /\ \A i \in 1 .. m : h[i] = h[i - 1] * first[i]
                                   /\ Product(first) = h[m]
  <2> HIDE DEF first
  <2> QED BY <1>1, ProductSteps, Zenon
<1> DEFINE S == {i \in Nat : h[i] = g[i]}
<1>3. 0 \in S
  BY <1>2
<1>4. ASSUME NEW i \in 0 .. m - 1, i \in S
      PROVE  i + 1 \in S
  <2>1. i + 1 \in 1 .. m /\ i + 1 \in 1 .. Len(dims) /\ (i + 1) - 1 = i /\ i + 1 \in Nat
    OBVIOUS
  <2>2. h[i + 1] = h[i] * dims[i + 1]
    BY <1>1, <1>2, <2>1
  <2>3. QED
    BY <1>4, <2>1, <2>2
<1>5. m \in S
  <2>1. m \in Nat
    OBVIOUS
  <2>2. 0 .. m \subseteq S
    <3> HIDE DEF S
    <3> QED BY <1>3, <1>4, <2>1, UpTo, Zenon
  <2> HIDE DEF S
  <2> QED BY <2>1, <2>2
<1>6. QED
  BY <1>2, <1>5

\* The first dimensions for which GetSizeInBytesFromTensorProto has not given
\* up are not negative, and their product is what it has counted.
LEMMA CountIsProduct ==
  ASSUME NEW dims \in Seq(Int), CountInSize(dims) # Overflow
  PROVE  /\ CountInSize(dims) = Product(dims)
         /\ Product(dims) \in 0 .. SizeMax
         /\ \A i \in 1 .. Len(dims) : dims[i] >= 0
<1> DEFINE n == Len(dims)
<1>1. PICK g \in [0 .. n -> Int] : /\ g[0] = 1
                                   /\ \A i \in 1 .. n : g[i] = g[i - 1] * dims[i]
                                   /\ Product(dims) = g[n]
  BY ProductSteps
<1>2. PICK c \in [0 .. n -> Int] : /\ c[0] = 1
                                   /\ \A i \in 1 .. n : c[i] = CountStep(c[i - 1], dims[i])
                                   /\ CountInSize(dims) = c[n]
  BY CountSteps
<1> DEFINE Exact(i) == /\ c[i] = g[i] /\ g[i] \in 0 .. SizeMax
                       /\ \A j \in 1 .. i : dims[j] >= 0
           S == {i \in Nat : c[i] = Overflow \/ Exact(i)}
<1>3. SizeMax \in Nat /\ 1 <= SizeMax
  BY PowerAssumption DEF SizeMax
<1>4. 0 \in S
  BY <1>1, <1>2, <1>3
<1>5. ASSUME NEW i \in 0 .. n - 1, i \in S
      PROVE  i + 1 \in S
  <2>1. i + 1 \in 1 .. n /\ (i + 1) - 1 = i /\ i + 1 \in Nat
    OBVIOUS
  <2>2. c[i + 1] = CountStep(c[i], dims[i + 1]) /\ g[i + 1] = g[i] * dims[i + 1]
    BY <1>1, <1>2, <2>1
  <2>3. CASE c[i] = Overflow \/ dims[i + 1] < 0 \/ dims[i + 1] >= SizeMax
    <3>1. c[i + 1] = Overflow
      BY <2>2, <2>3 DEF CountStep
    <3>2. QED
      BY <2>1, <3>1
  <2>4. CASE ~ (c[i] = Overflow \/ dims[i + 1] < 0 \/ dims[i + 1] >= SizeMax)
    <3>1. Exact(i)
      BY <1>5, <2>4
    <3>2. dims[i + 1] \in Nat
      BY <2>1, <2>4
    <3>3. g[i] \in Nat /\ c[i] = g[i]
      BY <1>3, <3>1
    <3>4. g[i] * dims[i + 1] \in Nat
      BY <3>2, <3>3
    <3>5. c[i + 1] = CalcMemSizeForArray(g[i], dims[i + 1])
      BY <2>2, <2>4, <3>3 DEF CountStep
    <3>6. \A j \in 1 .. i + 1 : dims[j] >= 0
      <4>1. \A j \in 1 .. i + 1 : j \in 1 .. i \/ j = i + 1
        BY <2>1
      <4>2. QED
        BY <3>1, <3>2, <4>1
    <3>7. CASE g[i + 1] > SizeMax
      <4>1. c[i + 1] = Overflow
        BY <2>2, <3>5, <3>7 DEF CalcMemSizeForArray
      <4>2. QED
        BY <2>1, <4>1
    <3>8. CASE ~ (g[i + 1] > SizeMax)
      <4>1. c[i + 1] = g[i + 1]
        BY <2>2, <3>5, <3>8 DEF CalcMemSizeForArray
      <4>2. g[i + 1] \in 0 .. SizeMax
        BY <1>3, <2>2, <3>4, <3>8
      <4>3. QED
        BY <2>1, <3>6, <4>1, <4>2
    <3>9. QED
      BY <3>7, <3>8
  <2>5. QED
    BY <2>3, <2>4
<1>6. n \in Nat
  OBVIOUS
<1>7. n \in S
  <2>1. 0 .. n \subseteq S
    <3> HIDE DEF S, n
    <3> QED BY <1>4, <1>5, <1>6, UpTo, Zenon
  <2> HIDE DEF S
  <2> QED BY <1>6, <2>1
<1>8. Exact(n)
  BY <1>2, <1>7
<1>9. QED
  BY <1>1, <1>2, <1>8

\* Nothing else makes it give up than a dimension or a product that size_t
\* cannot hold.
LEMMA CountOfFitting ==
  ASSUME NEW dims \in Seq(Int),
         \A i \in 1 .. Len(dims) : /\ 0 <= dims[i] /\ dims[i] < SizeMax
                                   /\ Product(SubSeq(dims, 1, i)) <= SizeMax
  PROVE  CountInSize(dims) = Product(dims) /\ Product(dims) \in Nat
<1> DEFINE n == Len(dims)
<1>1. PICK g \in [0 .. n -> Int] : /\ g[0] = 1
                                   /\ \A i \in 1 .. n : g[i] = g[i - 1] * dims[i]
                                   /\ Product(dims) = g[n]
  BY ProductSteps
<1>2. PICK c \in [0 .. n -> Int] : /\ c[0] = 1
                                   /\ \A i \in 1 .. n : c[i] = CountStep(c[i - 1], dims[i])
                                   /\ CountInSize(dims) = c[n]
  BY CountSteps
<1> DEFINE S == {i \in Nat : c[i] = g[i] /\ g[i] \in Nat}
<1>3. 0 \in S
  BY <1>1, <1>2
<1>4. ASSUME NEW i \in 0 .. n - 1, i \in S
      PROVE  i + 1 \in S
  <2>1. i + 1 \in 1 .. n /\ (i + 1) - 1 = i /\ i + 1 \in Nat /\ i + 1 \in 0 .. n
    OBVIOUS
  <2>2. c[i + 1] = CountStep(c[i], dims[i + 1]) /\ g[i + 1] = g[i] * dims[i + 1]
    BY <1>1, <1>2, <2>1
  <2>3. c[i] = g[i] /\ g[i] \in Nat
    BY <1>4
  <2>4. dims[i + 1] \in Nat /\ dims[i + 1] < SizeMax
    BY <2>1
  <2>5. g[i] * dims[i + 1] \in Nat
    BY <2>3, <2>4
  <2>6. Product(SubSeq(dims, 1, i + 1)) = g[i + 1]
    BY <1>1, <2>1, PrefixProduct, Zenon
  <2>7. g[i] * dims[i + 1] <= SizeMax
    BY <2>1, <2>2, <2>6
  <2>8. SizeMax \in Nat
    BY PowerAssumption DEF SizeMax
  <2>9. c[i + 1] = g[i] * dims[i + 1]
    BY <2>2, <2>3, <2>4, <2>5, <2>7, <2>8 DEF CountStep, CalcMemSizeForArray, Overflow
  <2>10. QED
    BY <2>1, <2>2, <2>5, <2>9
<1>5. n \in Nat
  OBVIOUS
<1>6. n \in S
  <2>1. 0 .. n \subseteq S
    <3> HIDE DEF S, n
    <3> QED BY <1>3, <1>4, <1>5, UpTo, Zenon
  <2> HIDE DEF S
  <2> QED BY <1>5, <2>1
<1>7. QED
  BY <1>1, <1>2, <1>6

\* Numbers of one residue class, less than its modulus apart, are equal.
LEMMA SameResidue ==
  ASSUME NEW a \in Int, NEW b \in Int, NEW d \in Nat, NEW k \in Int,
         a = b + d * k, a - b < d, b - a < d
  PROVE  a = b
<1>1. CASE k >= 1
  <2>1. d * k >= d
    BY <1>1
  <2>2. QED
    BY <2>1
<1>2. CASE k <= -1
  <2>1. d * k <= 0 - d
    BY <1>2
  <2>2. QED
    BY <2>1
<1>3. CASE k = 0
  BY <1>3
<1>4. QED
  BY <1>1, <1>2, <1>3

LEMMA MultiplyResidue ==
  ASSUME NEW b \in Int, NEW d \in Int, NEW k \in Int, NEW l \in Int, NEW x \in Int
  PROVE  (b + d * k) * x + d * l = b * x + d * (k * x + l) /\ k * x + l \in Int
OBVIOUS

\* The product that wraps is the product, if that has a value of int64_t.
LEMMA TensorSizeIsProduct ==
  ASSUME NEW dims \in Seq(Int), 0 <= Product(dims), Product(dims) < SizeHalf
  PROVE  TensorSize(dims) = Product(dims)
<1> DEFINE n == Len(dims)
<1>1. PICK g \in [0 .. n -> Int] : /\ g[0] = 1
                                   /\ \A i \in 1 .. n : g[i] = g[i - 1] * dims[i]
                                   /\ Product(dims) = g[n]
  BY ProductSteps
<1>2. PICK t \in [0 .. n -> Int] : /\ t[0] = 1
                                   /\ \A i \in 1 .. n : t[i] = Wrap(t[i - 1] * dims[i])
                                   /\ TensorSize(dims) = t[n]
  BY TensorSizeSteps
<1>3. SizeHalf \in Nat \ {0} /\ SizeSpan = 2 * SizeHalf /\ SizeSpan \in Nat
  BY PowerAssumption
<1> DEFINE S == {i \in Nat : \E k \in Int : t[i] = g[i] + SizeSpan * k}
<1>4. 0 \in S
  <2>1. t[0] = g[0] + SizeSpan * 0
    BY <1>1, <1>2, <1>3
  <2>2. QED
    BY <2>1
<1>5. ASSUME NEW i \in 0 .. n - 1, i \in S
      PROVE  i + 1 \in S
  <2>1. i + 1 \in 1 .. n /\ (i + 1) - 1 = i /\ i + 1 \in Nat /\ i \in 0 .. n
    OBVIOUS
  <2>2. PICK k \in Int : t[i] = g[i] + SizeSpan * k
    BY <1>5
  <2> DEFINE x == dims[i + 1]
  <2>3. x \in Int /\ t[i] \in Int /\ g[i] \in Int
    BY <2>1
  <2>4. t[i + 1] = Wrap(t[i] * x) /\ g[i + 1] = g[i] * x
    BY <1>1, <1>2, <2>1
  <2> HIDE DEF x
  <2>5. t[i] * x \in Int
    BY <2>3
  <2>6. PICK l \in Int : Wrap(t[i] * x) = t[i] * x + SizeSpan * l
    BY <2>5, WrapType, Zenon
  <2>7. /\ (g[i] + SizeSpan * k) * x + SizeSpan * l = g[i] * x + SizeSpan * (k * x + l)
        /\ k * x + l \in Int
    BY <1>3, <2>3, MultiplyResidue
  <2>8. t[i + 1] = g[i + 1] + SizeSpan * (k * x + l)
    BY <2>2, <2>4, <2>6, <2>7
  <2>9. QED
    BY <2>1, <2>7, <2>8
<1>6. n \in Nat
  OBVIOUS
<1>7. n \in S
  <2>1. 0 .. n \subseteq S
    <3> HIDE DEF S, n
    <3> QED BY <1>4, <1>5, <1>6, UpTo, Zenon
  <2> HIDE DEF S
  <2> QED BY <1>6, <2>1
<1>8. CASE n = 0
  BY <1>1, <1>2, <1>8
<1>9. CASE n # 0
  <2>1. n \in 1 .. n /\ n - 1 \in 0 .. n /\ n \in 0 .. n
    BY <1>6, <1>9
  <2>2. t[n] = Wrap(t[n - 1] * dims[n])
    BY <1>2, <2>1
  <2>3. t[n - 1] * dims[n] \in Int
    <3>1. t[n - 1] \in Int /\ dims[n] \in Int
      BY <2>1
    <3>2. QED
      BY <3>1
  <2>4. - SizeHalf <= t[n] /\ t[n] < SizeHalf
    BY <2>2, <2>3, WrapType
  <2>5. PICK k \in Int : t[n] = g[n] + SizeSpan * k
    BY <1>7
  <2> DEFINE a == t[n]
             b == g[n]
  <2>6. a \in Int /\ b \in Int /\ 0 <= b /\ b < SizeHalf
    BY <1>1, <2>1
  <2>7. a = b + SizeSpan * k /\ - SizeHalf <= a /\ a < SizeHalf
    BY <2>4, <2>5
  <2>8. TensorSize(dims) = a /\ Product(dims) = b
    BY <1>1, <1>2
  <2> HIDE DEF a, b
  <2>9. a - b < SizeSpan /\ b - a < SizeSpan
    BY <1>3, <2>6, <2>7
  <2>10. a = b
    BY <1>3, <2>6, <2>7, <2>9, SameResidue
  <2>11. QED
    BY <2>8, <2>10
<1>10. QED
  BY <1>8, <1>9

LEMMA ItemSizes ==
  ASSUME NEW type \in ServerTypes
  PROVE  ItemSize[type] \in Nat /\ ItemSize[type] >= 1
BY DEF ServerTypes, DataType, ItemSize

\* With a buffer of the size that GetSizeInBytesFromTensorProto computes in
\* size_t, the size that TensorProtoToMLValue computes is the right one: a
\* buffer that could be allocated leaves no room for int64_t to wrap.
LEMMA SizesAgree ==
  ASSUME NEW tensor, tensor.dims \in Seq(Int),
         GetSizeInBytesFromTensorProto(tensor) \in 0 .. MaxAlloc
  PROVE  /\ tensor.data_type \in ServerTypes
         /\ \A i \in DOMAIN tensor.dims : tensor.dims[i] >= 0
         /\ GetSizeInBytesFromTensorProto(tensor)
              = Product(tensor.dims) * ItemSize[tensor.data_type]
         /\ TensorSize(tensor.dims) = Product(tensor.dims)
         /\ CalcMemSizeForArray(TensorSize(tensor.dims) % SizeSpan, ItemSize[tensor.data_type])
              = Product(tensor.dims) * ItemSize[tensor.data_type]
<1> DEFINE dims == tensor.dims
           item == ItemSize[tensor.data_type]
           size == GetSizeInBytesFromTensorProto(tensor)
           p == Product(dims)
<1>1. SizeHalf \in Nat \ {0} /\ SizeSpan = 2 * SizeHalf /\ SizeMax = SizeSpan - 1
  BY PowerAssumption DEF SizeMax
<1>2. size \in Nat /\ size <= MaxAlloc /\ size < SizeHalf /\ size # Overflow
  BY <1>1, SizeAssumption DEF Overflow
<1>3. /\ CountInSize(dims) # Overflow /\ tensor.data_type \in ServerTypes
      /\ size = CalcMemSizeForArray(CountInSize(dims), item)
  BY <1>2 DEF GetSizeInBytesFromTensorProto
<1>4. /\ CountInSize(dims) = p /\ p \in 0 .. SizeMax
      /\ \A i \in 1 .. Len(dims) : dims[i] >= 0
  BY <1>3, CountIsProduct
<1>5. item \in Nat /\ item >= 1
  BY <1>3, ItemSizes
<1>6. size = p * item
  BY <1>2, <1>3, <1>4 DEF CalcMemSizeForArray
<1> HIDE DEF size, item, p
<1>7. p \in Nat /\ p <= p * item
  BY <1>1, <1>4, <1>5
<1>8. p < SizeHalf
  BY <1>1, <1>2, <1>6, <1>7, SizeAssumption
<1>9. TensorSize(dims) = p
  BY <1>7, <1>8, TensorSizeIsProduct DEF p
<1>10. p % SizeSpan = p
  <2>1. SizeSpan \in Nat \ {0} /\ p < SizeSpan
    BY <1>1, <1>7, <1>8
  <2>2. QED
    BY <1>7, <2>1
<1>11. CalcMemSizeForArray(p, item) = p * item
  BY <1>1, <1>2, <1>6 DEF CalcMemSizeForArray
<1>12. QED
  BY <1>3, <1>4, <1>6, <1>9, <1>10, <1>11 DEF size, item, p

\* A tensor is converted only if it is well-formed, and then fills its buffer.
LEMMA ConvertedIsWellFormed ==
  ASSUME NEW tensor, tensor.dims \in Seq(Int), NEW size,
         size = GetSizeInBytesFromTensorProto(tensor), size \in 0 .. MaxAlloc,
         ConvertsInto(tensor, size)
  PROVE  WellFormed(tensor) /\ BytesWritten(tensor) = size
<1>1. /\ tensor.data_type \in ServerTypes
      /\ size = Product(tensor.dims) * ItemSize[tensor.data_type]
      /\ TensorSize(tensor.dims) = Product(tensor.dims)
      /\ CalcMemSizeForArray(TensorSize(tensor.dims) % SizeSpan, ItemSize[tensor.data_type])
           = Product(tensor.dims) * ItemSize[tensor.data_type]
  BY SizesAgree
<1>2. /\ ~ tensor.external /\ ~ (tensor.has_raw_data /\ tensor.data_type = "STRING")
      /\ \A i \in DOMAIN tensor.dims : tensor.dims[i] >= 0
      /\ UnpackTensorAccepts(tensor, TensorSize(tensor.dims))
  BY Zenon DEF ConvertsInto
<1>3. CASE tensor.has_raw_data
  <2>1. RawLength(tensor) = Product(tensor.dims) * ItemSize[tensor.data_type]
    BY <1>1, <1>2, <1>3, Zenon DEF UnpackTensorAccepts
  <2>2. BytesWritten(tensor) = RawLength(tensor)
    BY <1>3, Zenon DEF BytesWritten
  <2>3. QED
    BY <1>1, <1>2, <1>3, <2>1, <2>2, Zenon DEF WellFormed
<1>4. CASE ~ tensor.has_raw_data
  <2> DEFINE data == tensor.data[UnpackField[tensor.data_type]]
  <2>1. /\ Len(data) = Product(tensor.dims)
        /\ tensor.data_type \in {"FLOAT16", "BFLOAT16"} => \A i \in DOMAIN data : FitsUint16(data[i])
    BY <1>1, <1>2, <1>4, Zenon DEF UnpackTensorAccepts
  <2>2. BytesWritten(tensor) = Len(data) * ItemSize[tensor.data_type]
    BY <1>4, Zenon DEF BytesWritten
  <2>3. QED
    BY <1>1, <1>2, <1>4, <2>1, <2>2, Zenon DEF WellFormed
<1>5. QED
  BY <1>3, <1>4

\* A well-formed tensor is converted if it fits.
LEMMA WellFormedConverts ==
  ASSUME NEW tensor, tensor.dims \in Seq(Int), WellFormed(tensor), Fits(tensor)
  PROVE  LET size == GetSizeInBytesFromTensorProto(tensor)
         IN  size \in 0 .. MaxAlloc /\ ConvertsInto(tensor, size)
<1> DEFINE size == GetSizeInBytesFromTensorProto(tensor)
           item == ItemSize[tensor.data_type]
           p == Product(tensor.dims)
<1>1. SizeHalf \in Nat \ {0} /\ SizeSpan = 2 * SizeHalf /\ SizeMax = SizeSpan - 1
  BY PowerAssumption DEF SizeMax
<1>2. tensor.data_type \in ServerTypes /\ \A i \in DOMAIN tensor.dims : tensor.dims[i] >= 0
  BY DEF WellFormed
<1>3. item \in Nat
  BY <1>2, ItemSizes
<1>4. CountInSize(tensor.dims) = p /\ p \in Nat
  <2>1. \A i \in 1 .. Len(tensor.dims) :
          /\ 0 <= tensor.dims[i] /\ tensor.dims[i] < SizeMax
          /\ Product(SubSeq(tensor.dims, 1, i)) <= SizeMax
    BY <1>2 DEF Fits
  <2>2. QED
    BY <2>1, CountOfFitting
<1>5. p * item <= MaxAlloc
  BY DEF Fits
<1> HIDE DEF p, item
<1>6. p * item \in 0 .. MaxAlloc
  BY <1>3, <1>4, <1>5, SizeAssumption
<1>7. size = p * item
  BY <1>1, <1>2, <1>4, <1>6, SizeAssumption
     DEF GetSizeInBytesFromTensorProto, CalcMemSizeForArray, Overflow, item
<1>8. size \in 0 .. MaxAlloc /\ size >= size
  BY <1>6, <1>7, SizeAssumption
<1>9. /\ TensorSize(tensor.dims) = p
      /\ CalcMemSizeForArray(TensorSize(tensor.dims) % SizeSpan, item) = p * item
  BY <1>8, SizesAgree DEF p, item
<1>10. UnpackTensorAccepts(tensor, TensorSize(tensor.dims))
  <2>1. CASE tensor.has_raw_data
    BY <1>9, <2>1, Zenon DEF UnpackTensorAccepts, WellFormed, item, p
  <2>2. CASE ~ tensor.has_raw_data
    BY <1>9, <2>2, Zenon DEF UnpackTensorAccepts, WellFormed, item, p
  <2>3. QED
    BY <2>1, <2>2
<1>11. ~ (tensor.has_raw_data /\ tensor.data_type = "STRING") /\ ~ tensor.external
  BY Zenon DEF WellFormed
<1>12. ConvertsInto(tensor, size)
  BY <1>2, <1>8, <1>10, <1>11 DEF ConvertsInto
<1>13. QED
  BY <1>8, <1>12

-----------------------------------------------------------------------------
(***************************************************************************)
(* The invariants.                                                          *)
(***************************************************************************)

\* Where a prediction stands.
Progress ==
  /\ pc \in {"call", "inputs", "outputs", "done"}
  /\ using_raw_data_ \in BOOLEAN
  /\ pc = "call" => given = <<>> /\ request = <<>>
  /\ pc \in {"call", "inputs"} => outputs = <<>> /\ response = <<>> /\ result = NoArrays
  /\ pc = "outputs" => outputs \in ModelOutputs /\ result = NoArrays
  /\ outputs # <<>> => outputs \in ModelOutputs

\* The inputs are those of the request, which are those of the caller.
InputInv ==
  /\ given # <<>> => given \in Calls
  /\ DOMAIN values \subseteq DOMAIN request
  /\ \A n \in DOMAIN values :
       /\ values[n] = TensorProtoToMLValue(request[n])
       /\ request[n].data_type \in ServerTypes
  /\ given # <<>> => \A n \in DOMAIN request :
       /\ n \in DOMAIN given
       /\ given[n].type \in NumpyTypes
       /\ request[n] = SerializeToString(from_array(given[n]))

\* using_raw_data_ is about the inputs so far, which are all of them when the
\* first output is converted.
RawInv ==
  /\ pc \in {"call", "inputs", "outputs"} =>
       (using_raw_data_ <=> \A n \in DOMAIN values : request[n].has_raw_data)
  /\ pc = "outputs" => DOMAIN values = DOMAIN request
  /\ response # <<>> =>
       (using_raw_data_ <=> \A n \in DOMAIN request : request[n].has_raw_data)

\* What is converted is well-formed and fills its buffer, what is not although
\* its turn has come is not well-formed or does not fit.
SizeInv ==
  /\ \A n \in DOMAIN request : request[n].dims \in Seq(Int)
  /\ DOMAIN buffers = DOMAIN values
  /\ \A n \in DOMAIN values :
       WellFormed(request[n]) /\ buffers[n].written = buffers[n].length
  /\ pc = "done" /\ DOMAIN values # DOMAIN request =>
       \E n \in DOMAIN request \ DOMAIN values : ~ (WellFormed(request[n]) /\ Fits(request[n]))

\* The response is made of the outputs, the result of the response.
OutputInv ==
  /\ Len(response) \in Nat
  /\ response = [i \in 1 .. Len(response) |->
                   MLValueToTensorProto(outputs[i], using_raw_data_)]
  /\ response # <<>> => outputs # <<>> /\ Len(response) <= Len(outputs)
  /\ \A i \in 1 .. Len(response) : ConverterAccepts(outputs[i])
  /\ result.status = "ok" =>
       /\ Len(response) = Len(outputs)
       /\ \A i \in DOMAIN response : Readable(response[i])
       /\ result.arrays = [i \in DOMAIN response |-> to_array(response[i])]
  /\ result.status = "raised" /\ outputs # <<>> =>
       \E i \in DOMAIN response : ~ Readable(response[i])


\* Every prediction goes through the same points.
LEMMA ProgressInv == Spec => []Progress
<1>1. Init => Progress
  BY DEF Init, Progress
<1>2. Progress /\ [Next]_vars => Progress'
  <2> SUFFICES ASSUME Progress, [Next]_vars
               PROVE  Progress'
    OBVIOUS
  <2>1. ASSUME pc = "call", NEW arrays \in Calls, Predict(arrays)
        PROVE  Progress'
    BY <2>1 DEF Progress, Predict
  <2>2. ASSUME pc = "call", NEW tensors \in Requests, OtherClient(tensors)
        PROVE  Progress'
    BY <2>2 DEF Progress, OtherClient
  <2>3. ASSUME NEW n \in DOMAIN request, SetMLValue(n)
        PROVE  Progress'
    <3>1. /\ pc = "inputs" /\ using_raw_data_' \in BOOLEAN
          /\ UNCHANGED <<outputs, response, request, given>>
          /\ pc' = "done" \/ (pc' = "inputs" /\ result' = result)
      BY <2>3 DEF Progress, SetMLValue, Fail, RawDataSoFar
    <3>2. QED
      BY <3>1 DEF Progress
  <2>4. CASE Run
    BY <2>4 DEF Progress, Run, Fail
  <2>5. CASE ConvertOutput
    BY <2>5 DEF Progress, ConvertOutput, Fail
  <2>6. CASE ConvertResponse
    BY <2>6 DEF Progress, ConvertResponse
  <2>7. CASE UNCHANGED vars
    BY <2>7 DEF Progress, vars
  <2>8. QED
    BY <2>1, <2>2, <2>3, <2>4, <2>5, <2>6, <2>7 DEF Next, Call
<1>3. QED
  BY <1>1, <1>2, PTL DEF Spec

\* The steps that do not set an input leave everything the inputs are about.
LEMMA InputsUntouched ==
  ASSUME Run \/ ConvertOutput \/ ConvertResponse \/ UNCHANGED vars
  PROVE  UNCHANGED <<given, request, values, buffers, using_raw_data_>>
BY DEF Run, ConvertOutput, ConvertResponse, Fail, vars

\* SetMLValue converts its input, and only that one, or fails.
LEMMA SetMLValueConverts ==
  ASSUME NEW n \in DOMAIN request, SetMLValue(n)
  PROVE  /\ pc = "inputs" /\ n \notin DOMAIN values
         /\ UNCHANGED <<given, request, outputs, response>>
         /\ \/ /\ pc' = "done" /\ values' = values
               /\ result'.status \in {"INFERENCE_ERROR", "UNKNOWN_ERROR"}
            \/ /\ UNCHANGED <<pc, result>>
               /\ request[n].data_type \in ServerTypes
               /\ DOMAIN values' = DOMAIN values \cup {n}
               /\ values'[n] = TensorProtoToMLValue(request[n])
               /\ \A m \in DOMAIN values : values'[m] = values[m]
<1>1. pc = "inputs" /\ n \notin DOMAIN values /\ UNCHANGED <<given, request, outputs, response>>
  BY DEF SetMLValue, Fail
<1>2. CASE Fail("INFERENCE_ERROR") \/ Fail("UNKNOWN_ERROR")
  BY <1>1, <1>2 DEF Fail, Failed
<1>3. CASE ~ (Fail("INFERENCE_ERROR") \/ Fail("UNKNOWN_ERROR"))
  <2>1. /\ GetSizeInBytesFromTensorProto(request[n]) \in 0 .. MaxAlloc
        /\ values' = [m \in DOMAIN values \cup {n} |->
                        IF m = n THEN TensorProtoToMLValue(request[n]) ELSE values[m]]
        /\ UNCHANGED <<pc, result>>
    BY <1>3 DEF SetMLValue
  <2>2. request[n].data_type \in ServerTypes
    <3>1. GetSizeInBytesFromTensorProto(request[n]) # Overflow
      BY <2>1, SizeAssumption DEF Overflow
    <3>2. QED
      BY <3>1 DEF GetSizeInBytesFromTensorProto
  <2>3. QED
    BY <1>1, <2>1, <2>2
<1>4. QED
  BY <1>2, <1>3


\* Before the call nothing is converted.
LEMMA NothingBefore ==
  ASSUME InputInv, request = <<>>
  PROVE  DOMAIN values = {}
<1>1. DOMAIN request = {}
  OBVIOUS
<1>2. QED
  BY <1>1, Zenon DEF InputInv

\* What the server converts comes from the caller's arrays.
LEMMA InputInvariant == Spec => []InputInv
<1>1. Init => InputInv
  BY DEF Init, InputInv
<1>2. Progress /\ InputInv /\ [Next]_vars => InputInv'
  <2> SUFFICES ASSUME Progress, InputInv, [Next]_vars
               PROVE  InputInv'
    OBVIOUS
  <2>1. ASSUME pc = "call", NEW arrays \in Calls, Predict(arrays)
        PROVE  InputInv'
    <3>1. /\ pc = "call" /\ given' = arrays /\ values' = values /\ request = <<>>
      BY <2>1 DEF Predict, Progress
    <3>2. DOMAIN values = {}
      BY <3>1, NothingBefore
    <3>3. \/ request' = <<>>
          \/ /\ \A n \in DOMAIN arrays : arrays[n].type \in NumpyTypes
             /\ request' = [n \in DOMAIN arrays |-> SerializeToString(from_array(arrays[n]))]
      BY <2>1, <3>1 DEF Predict, Convertible
    <3>4. \A n \in DOMAIN request' :
            /\ n \in DOMAIN arrays
            /\ arrays[n].type \in NumpyTypes
            /\ request'[n] = SerializeToString(from_array(arrays[n]))
      BY <3>3
    <3>5. QED
      BY <3>1, <3>2, <3>4 DEF InputInv
  <2>2. ASSUME pc = "call", NEW tensors \in Requests, OtherClient(tensors)
        PROVE  InputInv'
    <3>1. request = <<>> /\ given' = <<>> /\ values' = values
      BY <2>2 DEF OtherClient, Progress
    <3>2. DOMAIN values = {}
      BY <3>1, NothingBefore
    <3>3. QED
      BY <3>1, <3>2 DEF InputInv
  <2>3. ASSUME NEW n \in DOMAIN request, SetMLValue(n)
        PROVE  InputInv'
    <3>1. /\ UNCHANGED <<given, request>>
          /\ \/ values' = values
             \/ /\ request[n].data_type \in ServerTypes
                /\ DOMAIN values' = DOMAIN values \cup {n}
                /\ values'[n] = TensorProtoToMLValue(request[n])
                /\ \A m \in DOMAIN values : values'[m] = values[m]
      BY <2>3, SetMLValueConverts
    <3>2. QED
      BY <3>1 DEF InputInv
  <2>4. CASE Run \/ ConvertOutput \/ ConvertResponse \/ UNCHANGED vars
    <3>1. UNCHANGED <<given, request, values>>
      BY <2>4, InputsUntouched
    <3>2. QED
      BY <3>1 DEF InputInv
  <2>5. QED
    BY <2>1, <2>2, <2>3, <2>4 DEF Next, Call
<1>3. QED
  BY <1>1, <1>2, ProgressInv, PTL DEF Spec

\* The model sees the arrays that were passed to predict, for any arrays of
\* any type: what numpy_helper.py packs is what tensorprotoutils.cc unpacks.
THEOREM InputsArrive == Spec => []InputsAsGiven
<1>1. InputInv => InputsAsGiven
  <2> SUFFICES ASSUME InputInv, NEW n \in DOMAIN values \cap DOMAIN given
               PROVE  values[n] = [ type |-> given[n].type, shape |-> given[n].shape,
                                    elems |-> Contents(given[n]) ]
    BY DEF InputsAsGiven
  <2>1. given # <<>>
    OBVIOUS
  <2>2. given \in Calls /\ n \in DOMAIN request
    BY <2>1 DEF InputInv
  <2>3. /\ given[n].type \in NumpyTypes
        /\ request[n] = SerializeToString(from_array(given[n]))
    BY <2>1, <2>2 DEF InputInv
  <2>4. /\ request[n].data_type \in ServerTypes
        /\ values[n] = TensorProtoToMLValue(request[n])
    BY DEF InputInv
  <2>5. request[n].data_type = given[n].type
    BY <2>3, TypeIsSent
  <2>6. Contents(given[n]) \in IF given[n].type = "STRING" THEN Seq(STRING)
                                                         ELSE Seq(Element(given[n].type))
    BY <2>2, CallsAssumption
  <2>7. QED
    BY <2>3, <2>4, <2>5, <2>6, InputSurvives
<1>2. QED
  BY <1>1, InputInvariant, PTL

\* using_raw_data_ is the conjunction over all inputs.
LEMMA RawInvariant == Spec => []RawInv
<1>1. Init => RawInv
  BY DEF Init, RawInv
<1>2. Progress /\ InputInv /\ RawInv /\ [Next]_vars => RawInv'
  <2> SUFFICES ASSUME Progress, InputInv, RawInv, [Next]_vars
               PROVE  RawInv'
    OBVIOUS
  <2>1. ASSUME pc = "call", NEW arrays \in Calls, Predict(arrays)
        PROVE  RawInv'
    <3>1. /\ pc = "call" /\ pc' \in {"inputs", "done"} /\ request = <<>> /\ response = <<>>
          /\ UNCHANGED <<using_raw_data_, values, response>>
      BY <2>1 DEF Predict, Progress
    <3>2. DOMAIN values = {}
      BY <3>1, NothingBefore
    <3>3. QED
      BY <3>1, <3>2 DEF RawInv
  <2>2. ASSUME pc = "call", NEW tensors \in Requests, OtherClient(tensors)
        PROVE  RawInv'
    <3>1. /\ pc = "call" /\ pc' = "inputs" /\ request = <<>> /\ response = <<>>
          /\ UNCHANGED <<using_raw_data_, values, response>>
      BY <2>2 DEF OtherClient, Progress
    <3>2. DOMAIN values = {}
      BY <3>1, NothingBefore
    <3>3. QED
      BY <3>1, <3>2 DEF RawInv
  <2>3. ASSUME NEW n \in DOMAIN request, SetMLValue(n)
        PROVE  RawInv'
    <3>1. /\ pc = "inputs" /\ UNCHANGED <<request, response>>
          /\ \/ pc' = "done"
             \/ pc' = "inputs" /\ DOMAIN values' = DOMAIN values \cup {n}
      BY <2>3, SetMLValueConverts
    <3>2. response = <<>>
      BY <3>1 DEF Progress
    <3>3. using_raw_data_' = (using_raw_data_ /\ request[n].has_raw_data)
      BY <2>3 DEF SetMLValue, RawDataSoFar
    <3>4. using_raw_data_ <=> \A m \in DOMAIN values : request[m].has_raw_data
      BY <3>1 DEF RawInv
    <3>5. ASSUME DOMAIN values' = DOMAIN values \cup {n}
          PROVE  using_raw_data_' <=> \A m \in DOMAIN values' : request[m].has_raw_data
      BY <3>3, <3>4, <3>5, Zenon
    <3>6. QED
      BY <3>1, <3>2, <3>5 DEF RawInv
  <2>4. CASE Run
    <3>1. /\ UNCHANGED <<request, values, using_raw_data_, response>>
          /\ pc = "inputs" /\ DOMAIN values = DOMAIN request
          /\ pc' \in {"outputs", "done"}
      BY <2>4 DEF Run, Fail
    <3>2. QED
      BY <3>1 DEF RawInv, Progress
  <2>5. CASE ConvertOutput \/ ConvertResponse
    <3>1. /\ UNCHANGED <<request, values, using_raw_data_>>
          /\ pc = "outputs" /\ pc' \in {"outputs", "done"}
      BY <2>5 DEF ConvertOutput, ConvertResponse, Fail
    <3>2. QED
      BY <3>1 DEF RawInv
  <2>6. CASE UNCHANGED vars
    BY <2>6 DEF RawInv, vars
  <2>7. QED
    BY <2>1, <2>2, <2>3, <2>4, <2>5, <2>6 DEF Next, Call
<1>3. QED
  BY <1>1, <1>2, ProgressInv, InputInvariant, PTL DEF Spec


\* The dimensions that are sent are those of the array.
LEMMA DimsAreSent ==
  ASSUME NEW arr
  PROVE  SerializeToString(from_array(arr)).dims = arr.shape
BY DEF SerializeToString, from_array, TensorProto

\* SetMLValue converts a well-formed tensor into a buffer that it fills, or
\* gives up on one that is not well-formed or does not fit.
LEMMA SetMLValueFills ==
  ASSUME NEW n \in DOMAIN request, SetMLValue(n), request[n].dims \in Seq(Int)
  PROVE  \/ /\ pc' = "done" /\ UNCHANGED <<values, buffers>>
            /\ ~ (WellFormed(request[n]) /\ Fits(request[n]))
         \/ /\ pc' = "inputs" /\ WellFormed(request[n])
            /\ DOMAIN values' = DOMAIN values \cup {n}
            /\ DOMAIN buffers' = DOMAIN buffers \cup {n}
            /\ buffers'[n].written = buffers'[n].length
            /\ \A m \in DOMAIN buffers \ {n} : buffers'[m] = buffers[m]
<1> DEFINE tensor == request[n]
           size == GetSizeInBytesFromTensorProto(tensor)
           Converts == size \in 0 .. MaxAlloc /\ ConvertsInto(tensor, size)
<1>1. CASE Converts
  <2>1. size # Overflow /\ ~ (size > MaxAlloc)
    BY <1>1, SizeAssumption DEF Overflow
  <2>2. /\ pc' = "inputs"
        /\ values' = [m \in DOMAIN values \cup {n} |->
                        IF m = n THEN TensorProtoToMLValue(tensor) ELSE values[m]]
        /\ buffers' = [m \in DOMAIN buffers \cup {n} |->
                         IF m = n THEN [length |-> size, written |-> BytesWritten(tensor)]
                                  ELSE buffers[m]]
    BY <1>1, <2>1 DEF SetMLValue
  <2>3. WellFormed(tensor) /\ BytesWritten(tensor) = size
    BY <1>1, ConvertedIsWellFormed
  <2> HIDE DEF tensor, size
  <2>4. DOMAIN values' = DOMAIN values \cup {n} /\ DOMAIN buffers' = DOMAIN buffers \cup {n}
    BY <2>2
  <2>5. buffers'[n] = [length |-> size, written |-> BytesWritten(tensor)]
    BY <2>2
  <2>6. \A m \in DOMAIN buffers \ {n} : buffers'[m] = buffers[m]
    BY <2>2
  <2>7. QED
    BY <2>2, <2>3, <2>4, <2>5, <2>6 DEF tensor
<1>2. CASE ~ Converts
  <2>1. Fail("INFERENCE_ERROR") \/ Fail("UNKNOWN_ERROR")
    BY <1>2 DEF SetMLValue
  <2>2. ~ (WellFormed(tensor) /\ Fits(tensor))
    BY <1>2, WellFormedConverts
  <2>3. QED
    BY <2>1, <2>2 DEF Fail
<1>3. QED
  BY <1>1, <1>2

\* The two products never disagree about a tensor that is converted.
LEMMA SizeInvariant == Spec => []SizeInv
<1>1. Init => SizeInv
  BY DEF Init, SizeInv
<1>2. Progress /\ InputInv /\ RawInv /\ SizeInv /\ [Next]_vars => SizeInv'
  <2> SUFFICES ASSUME Progress, InputInv, RawInv, SizeInv, [Next]_vars
               PROVE  SizeInv'
    OBVIOUS
  <2>1. ASSUME pc = "call", NEW arrays \in Calls, Predict(arrays)
        PROVE  SizeInv'
    <3>1. /\ request = <<>> /\ UNCHANGED <<values, buffers>>
          /\ \/ pc' = "done" /\ request' = request
             \/ /\ pc' = "inputs"
                /\ request' = [n \in DOMAIN arrays |-> SerializeToString(from_array(arrays[n]))]
      BY <2>1 DEF Predict, Progress
    <3>2. DOMAIN values = {} /\ DOMAIN buffers = {} /\ DOMAIN request = {}
      BY <3>1, NothingBefore DEF SizeInv
    <3>3. \A n \in DOMAIN arrays : arrays[n].shape \in Seq(Int)
      <4>1. \A n \in DOMAIN arrays : arrays[n].shape \in Seq(Nat)
        BY CallsAssumption
      <4>2. QED
        BY <4>1
    <3>4. \A n \in DOMAIN request' : request'[n].dims \in Seq(Int)
      BY <3>1, <3>2, <3>3, DimsAreSent
    <3>5. QED
      BY <3>1, <3>2, <3>4 DEF SizeInv
  <2>2. ASSUME pc = "call", NEW tensors \in Requests, OtherClient(tensors)
        PROVE  SizeInv'
    <3>1. /\ request = <<>> /\ request' = tensors /\ pc' = "inputs"
          /\ UNCHANGED <<values, buffers>>
      BY <2>2 DEF OtherClient, Progress
    <3>2. DOMAIN values = {} /\ DOMAIN buffers = {}
      BY <3>1, NothingBefore DEF SizeInv
    <3>3. QED
      BY <3>1, <3>2, RequestsAssumption DEF SizeInv
  <2>3. ASSUME NEW n \in DOMAIN request, SetMLValue(n)
        PROVE  SizeInv'
    <3>1. request' = request /\ n \notin DOMAIN values
      BY <2>3, SetMLValueConverts, Zenon
    <3>2. request[n].dims \in Seq(Int)
      BY DEF SizeInv
    <3>3. CASE /\ pc' = "done" /\ UNCHANGED <<values, buffers>>
               /\ ~ (WellFormed(request[n]) /\ Fits(request[n]))
      BY <3>1, <3>3 DEF SizeInv
    <3>4. CASE /\ pc' = "inputs" /\ WellFormed(request[n])
               /\ DOMAIN values' = DOMAIN values \cup {n}
               /\ DOMAIN buffers' = DOMAIN buffers \cup {n}
               /\ buffers'[n].written = buffers'[n].length
               /\ \A m \in DOMAIN buffers \ {n} : buffers'[m] = buffers[m]
      BY <3>1, <3>4 DEF SizeInv
    <3>5. QED
      BY <2>3, <3>2, <3>3, <3>4, SetMLValueFills, Zenon
  <2>4. CASE Run \/ ConvertOutput \/ ConvertResponse
    <3>1. UNCHANGED <<request, values, buffers>>
      BY <2>4, InputsUntouched
    <3>2. DOMAIN values = DOMAIN request
      BY <2>4 DEF Run, ConvertOutput, ConvertResponse, RawInv
    <3>3. QED
      BY <3>1, <3>2 DEF SizeInv
  <2>5. CASE UNCHANGED vars
    BY <2>5 DEF SizeInv, vars
  <2>6. QED
    BY <2>1, <2>2, <2>3, <2>4, <2>5 DEF Next, Call
<1>3. QED
  BY <1>1, <1>2, ProgressInv, InputInvariant, RawInvariant, PTL DEF Spec

\* For every width of size_t and every dimensions: the server converts what is
\* well-formed and nothing else, and refuses only what is not well-formed or
\* does not fit into its memory.
THEOREM ConvertsExactlyWellFormed == Spec => []ConvertsWellFormed
<1>1. SizeInv => ConvertsWellFormed
  BY DEF SizeInv, ConvertsWellFormed
<1>2. QED
  BY <1>1, SizeInvariant, PTL

\* For every width of size_t and every dimensions: UnpackTensor writes exactly
\* the bytes that SetMLValue has allocated.
THEOREM BuffersAreFilled == Spec => []FillsItsBuffer
<1>1. SizeInv => FillsItsBuffer
  BY DEF SizeInv, FillsItsBuffer
<1>2. QED
  BY <1>1, SizeInvariant, PTL

\* The response is made of the outputs, and the result of the response.
LEMMA OutputInvariant == Spec => []OutputInv
<1>1. Init => OutputInv
  BY DEF Init, OutputInv, NoArrays
<1>2. Progress /\ OutputInv /\ [Next]_vars => OutputInv'
  <2> SUFFICES ASSUME Progress, OutputInv, [Next]_vars
               PROVE  OutputInv'
    OBVIOUS
  <2>1. ASSUME response = <<>>, response' = <<>>, outputs' = <<>> \/ result' = NoArrays,
               result'.status # "ok"
        PROVE  OutputInv'
    BY <2>1 DEF OutputInv, NoArrays
  <2>2. ASSUME pc = "call", NEW arrays \in Calls, Predict(arrays)
        PROVE  OutputInv'
    <3>1. /\ response = <<>> /\ response' = <<>> /\ outputs' = <<>>
          /\ result' = NoArrays \/ result' = Failed("raised")
      BY <2>2 DEF Predict, Progress
    <3>2. QED
      BY <2>1, <3>1 DEF NoArrays, Failed
  <2>3. ASSUME pc = "call", NEW tensors \in Requests, OtherClient(tensors)
        PROVE  OutputInv'
    <3>1. response = <<>> /\ response' = <<>> /\ outputs' = <<>> /\ result' = NoArrays
      BY <2>3 DEF OtherClient, Progress
    <3>2. QED
      BY <2>1, <3>1 DEF NoArrays
  <2>4. ASSUME NEW n \in DOMAIN request, SetMLValue(n)
        PROVE  OutputInv'
    <3>1. /\ pc = "inputs" /\ UNCHANGED <<outputs, response>>
          /\ result'.status \in {"INFERENCE_ERROR", "UNKNOWN_ERROR"} \/ result' = result
      BY <2>4, SetMLValueConverts, Zenon
    <3>2. QED
      BY <2>1, <3>1 DEF Progress, NoArrays
  <2>5. CASE Run
    <3>1. /\ pc = "inputs" /\ response' = response
          /\ \/ result' = result
             \/ result' = Failed("INFERENCE_ERROR") /\ outputs' = outputs
      BY <2>5 DEF Run, Fail
    <3>2. QED
      BY <2>1, <3>1 DEF Progress, NoArrays, Failed
  <2>6. CASE ConvertOutput
    <3>1. /\ pc = "outputs" /\ Len(response) < Len(outputs)
          /\ UNCHANGED <<outputs, using_raw_data_>>
      BY <2>6 DEF ConvertOutput, Fail
    <3>2. CASE Fail("INFERENCE_ERROR")
      <4>1. response' = response /\ result'.status = "INFERENCE_ERROR"
        BY <3>2 DEF Fail, Failed
      <4>2. QED
        BY <3>1, <4>1 DEF OutputInv
    <3>3. CASE ~ Fail("INFERENCE_ERROR")
      <4> DEFINE k == Len(response) + 1
                 tensor == MLValueToTensorProto(outputs[k], using_raw_data_)
      <4>1. /\ ConverterAccepts(outputs[k])
            /\ response' = Append(response, tensor)
            /\ result' = result /\ result = NoArrays
        BY <2>6, <3>1, <3>3 DEF ConvertOutput, Progress
      <4>2. k \in Nat /\ Len(outputs) \in Nat /\ outputs # <<>> /\ k <= Len(outputs)
        <5>1. outputs \in ModelOutputs
          BY <3>1 DEF Progress
        <5>2. Len(outputs) \in Nat /\ Len(response) \in Nat
          BY <5>1, ModelAssumption DEF OutputInv
        <5>3. QED
          BY <3>1, <5>2
      <4>3. response \in Seq({response[i] : i \in 1 .. Len(response)})
        BY DEF OutputInv
      <4>4. /\ Len(response') = k
            /\ response' = [i \in 1 .. k |-> IF i = k THEN tensor ELSE response[i]]
        BY <4>1, <4>3
      <4>5. \A i \in 1 .. Len(response) :
              response[i] = MLValueToTensorProto(outputs[i], using_raw_data_)
        BY DEF OutputInv
      <4>6. response' = [i \in 1 .. k |-> MLValueToTensorProto(outputs[i], using_raw_data_)]
        BY <4>2, <4>4, <4>5
      <4>7. \A i \in 1 .. k : ConverterAccepts(outputs[i])
        BY <4>1, <4>2 DEF OutputInv
      <4>8. result'.status = "none"
        BY <4>1 DEF NoArrays
      <4>9. QED
        BY <3>1, <4>2, <4>4, <4>6, <4>7, <4>8 DEF OutputInv
    <3>4. QED
      BY <3>2, <3>3
  <2>7. CASE ConvertResponse
    <3>1. /\ Len(response) = Len(outputs)
          /\ UNCHANGED <<outputs, using_raw_data_, response>>
      BY <2>7 DEF ConvertResponse
    <3>2. CASE \A i \in DOMAIN response : Readable(response[i])
      <4>1. /\ result'.status = "ok"
            /\ result'.arrays = [i \in DOMAIN response |-> to_array(response[i])]
        BY <2>7, <3>2 DEF ConvertResponse
      <4>2. QED
        BY <3>1, <3>2, <4>1 DEF OutputInv
    <3>3. CASE ~ \A i \in DOMAIN response : Readable(response[i])
      <4>1. result'.status = "raised"
        BY <2>7, <3>3 DEF ConvertResponse, Failed
      <4>2. QED
        BY <3>1, <3>3, <4>1 DEF OutputInv
    <3>4. QED
      BY <3>2, <3>3
  <2>8. CASE UNCHANGED vars
    BY <2>8 DEF OutputInv, vars
  <2>9. QED
    BY <2>2, <2>3, <2>4, <2>5, <2>6, <2>7, <2>8 DEF Next, Call
<1>3. QED
  BY <1>1, <1>2, ProgressInv, PTL DEF Spec


\* Numeric outputs travel as raw data exactly if every input did, in whichever
\* order a protobuf map hands the inputs to SetNameMLValueMap.
THEOREM RawDataIsAgreed == Spec => []RawDataIfAllInputsAre
<1>1. Progress /\ RawInv /\ OutputInv => RawDataIfAllInputsAre
  <2> SUFFICES ASSUME Progress, RawInv, OutputInv, NEW i \in DOMAIN response, outputs[i].type # "STRING"
               PROVE  response[i].has_raw_data
                        <=> \A n \in DOMAIN request : request[n].has_raw_data
    BY DEF RawDataIfAllInputsAre
  <2>1. response # <<>> /\ i \in 1 .. Len(response)
    BY DEF OutputInv
  <2>2. response[i] = MLValueToTensorProto(outputs[i], using_raw_data_)
    BY <2>1 DEF OutputInv
  <2>3. using_raw_data_ <=> \A n \in DOMAIN request : request[n].has_raw_data
    BY <2>1 DEF RawInv
  <2>4. using_raw_data_ \in BOOLEAN
    BY DEF Progress
  <2>5. response[i].has_raw_data = using_raw_data_
    BY <2>2, <2>4, RawAsTold
  <2>6. QED
    BY <2>3, <2>4, <2>5
<1>2. QED
  BY <1>1, ProgressInv, RawInvariant, OutputInvariant, PTL

\* predict returns what the model has computed, for any model and any inputs,
\* but for the halves that are not sent as raw data.
THEOREM OutputsArrive == Spec => []OutputsAsComputed
<1>1. Progress /\ OutputInv => OutputsAsComputed
  <2> SUFFICES ASSUME Progress, OutputInv, result.status = "ok"
               PROVE  /\ Len(result.arrays) = Len(outputs)
                      /\ \A i \in DOMAIN outputs :
                           ~ Misread(outputs[i]) => result.arrays[i] = outputs[i]
    BY DEF OutputsAsComputed
  <2>1. /\ Len(response) \in Nat /\ DOMAIN response = 1 .. Len(response)
        /\ Len(response) = Len(outputs)
        /\ result.arrays = [i \in 1 .. Len(outputs) |-> to_array(response[i])]
    BY DEF OutputInv
  <2>2. Len(result.arrays) = Len(outputs)
    BY <2>1
  <2>3. DOMAIN outputs = 1 .. Len(outputs)
    <3>1. CASE outputs = <<>>
      BY <3>1
    <3>2. CASE outputs # <<>>
      BY <3>2, ModelAssumption DEF Progress
    <3>3. QED
      BY <3>1, <3>2
  <2>4. ASSUME NEW i \in DOMAIN outputs, ~ Misread(outputs[i])
        PROVE  result.arrays[i] = outputs[i]
    <3>1. i \in 1 .. Len(outputs) /\ i \in 1 .. Len(response) /\ outputs # <<>>
      BY <2>1, <2>3
    <3>2. IsValue(outputs[i])
      BY <3>1, ModelAssumption DEF Progress
    <3>3. /\ response[i] = MLValueToTensorProto(outputs[i], using_raw_data_)
          /\ outputs[i].type \in DOMAIN ConverterField
          /\ Readable(response[i])
      BY <2>1, <3>1 DEF OutputInv, ConverterAccepts
    <3>4. using_raw_data_ \in BOOLEAN /\ (outputs[i].type = "FLOAT16" => using_raw_data_)
      BY <2>4 DEF Progress, Misread
    <3>5. to_array(response[i]) = outputs[i]
      BY <3>2, <3>3, <3>4, OutputSurvives
    <3>6. QED
      BY <2>1, <3>1, <3>5
  <2>5. QED
    BY <2>2, <2>4
<1>2. QED
  BY <1>1, ProgressInv, OutputInvariant, PTL

\* When the server has answered, predict raises for three kinds of output only.
THEOREM RaisesForThese == Spec => []RaisesOnlyForTheseOutputs
<1>1. Progress /\ OutputInv => RaisesOnlyForTheseOutputs
  <2> SUFFICES ASSUME Progress, OutputInv, result.status = "raised", outputs # <<>>,
                      ~ \E i \in DOMAIN outputs :
                          \/ outputs[i].type = "BFLOAT16"
                          \/ outputs[i].type = "STRING" /\ outputs[i].elems = <<>>
                          \/ /\ outputs[i].type = "STRING"
                             /\ \E k \in DOMAIN outputs[i].elems : outputs[i].elems[k] = NotUtf8
               PROVE  FALSE
    BY DEF RaisesOnlyForTheseOutputs
  <2>1. PICK i \in DOMAIN response : ~ Readable(response[i])
    BY DEF OutputInv
  <2>2. i \in 1 .. Len(response) /\ Len(response) \in Nat /\ Len(response) <= Len(outputs)
    BY DEF OutputInv
  <2>3. /\ outputs = [j \in 1 .. Len(outputs) |-> outputs[j]] /\ Len(outputs) \in Nat
        /\ \A j \in 1 .. Len(outputs) : IsValue(outputs[j])
    BY ModelAssumption DEF Progress
  <2>4. i \in DOMAIN outputs /\ IsValue(outputs[i])
    BY <2>2, <2>3
  <2>5. /\ response[i] = MLValueToTensorProto(outputs[i], using_raw_data_)
        /\ outputs[i].type \in DOMAIN ConverterField
    BY <2>2 DEF OutputInv, ConverterAccepts
  <2>6. using_raw_data_ \in BOOLEAN
    BY DEF Progress
  <2>7. Readable(response[i])
    BY <2>4, <2>5, <2>6, OutputReadable
  <2>8. QED
    BY <2>1, <2>7
<1>2. QED
  BY <1>1, ProgressInv, OutputInvariant, PTL

=============================================================================
