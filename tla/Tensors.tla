------------------------------ MODULE Tensors ------------------------------
(***************************************************************************)
(* The tensors of one prediction: Client.predict makes a TensorProto of     *)
(* every array (numpy_helper.py), Executor::Predict makes an Ort::Value of  *)
(* every TensorProto (tensorprotoutils.cc), runs the model and makes a      *)
(* TensorProto of every output (converter.cc), and the client makes arrays  *)
(* of those.  A request may also come from another client, which fills the  *)
(* fields of a TensorProto as it likes.                                     *)
(*                                                                         *)
(* An element is an integer: the value of an integer or a bool, the bits of *)
(* a float of any width.  A string is itself.  Strings that are not valid   *)
(* UTF-8 are NotUtf8.  size_t has SizeBits bits, so that a few small        *)
(* dimensions overflow it.  What the output filter and the names of the     *)
(* outputs do is modelled in ModelServing: here an output is a position.    *)
(* Values of uint64_data that do not fit a UINT32 are left out, and so is   *)
(* the big-endian build.                                                    *)
(***************************************************************************)
EXTENDS Integers, Sequences

CONSTANTS
  SizeBits,      \* width of size_t and int64_t
  MaxAlloc,      \* the largest buffer operator new[] has memory for
  Calls,         \* what callers of the Python client pass: functions from names to arrays
  Requests,      \* what other clients send: functions from names to TensorProtos
  ModelOutputs,  \* what the model may return: sequences of values
  NotUtf8        \* a byte string that is not valid UTF-8

\* The values of size_t are 0 .. SizeSpan - 1, those of int64_t
\* -SizeHalf .. SizeHalf - 1.
SizeSpan == 2 ^ SizeBits
SizeHalf == 2 ^ (SizeBits - 1)

\* No allocation gets half of the address space.
ASSUME SizeAssumption ==
  /\ SizeBits \in Nat \ {0}
  /\ MaxAlloc \in Nat
  /\ MaxAlloc < SizeHalf

\* A law of arithmetic, which is stated because the provers do not know powers.
ASSUME PowerAssumption == SizeHalf \in Nat \ {0} /\ SizeSpan = 2 * SizeHalf

VARIABLES
  pc,
  given,           \* the arrays passed to predict
  request,         \* PredictRequest.inputs
  using_raw_data_,
  values,          \* input_values, by input name
  buffers,         \* buffer_array, by input name: its length, the bytes written
  outputs,         \* what Run returned
  response,        \* PredictResponse.outputs
  result           \* what the caller gets: arrays, or why there are none

vars == <<pc, given, request, using_raw_data_, values, buffers, outputs, response, result>>

SizeMax == SizeSpan - 1

\* sizeof: of the C++ element types, and numpy's itemsize.  A std::string of
\* the enclave's libc++ has 24 bytes.
ItemSize ==
  [ BOOL |-> 1, INT8 |-> 1, UINT8 |-> 1, INT16 |-> 2, UINT16 |-> 2, FLOAT16 |-> 2,
    BFLOAT16 |-> 2, INT32 |-> 4, UINT32 |-> 4, FLOAT |-> 4, INT64 |-> 8, UINT64 |-> 8,
    DOUBLE |-> 8, STRING |-> 24, COMPLEX64 |-> 8, COMPLEX128 |-> 16, UNDEFINED |-> 1 ]

DataType == DOMAIN ItemSize

\* The cases of CASE_PROTO_TRACE and CASE_PROTO.
ServerTypes == DataType \ { "COMPLEX64", "COMPLEX128", "UNDEFINED" }

\* TENSOR_TYPE_TO_NP_TYPE; an array of any other type is "other".
NumpyTypes == DataType \ { "BFLOAT16", "UNDEFINED" }

Field == { "float_data", "double_data", "int32_data", "int64_data", "uint64_data", "string_data" }

\* The typed field UnpackTensor reads.
UnpackField ==
  [ FLOAT |-> "float_data", DOUBLE |-> "double_data", UINT8 |-> "int32_data",
    INT8 |-> "int32_data", INT16 |-> "int32_data", UINT16 |-> "int32_data",
    INT32 |-> "int32_data", INT64 |-> "int64_data", UINT64 |-> "uint64_data",
    UINT32 |-> "uint64_data", STRING |-> "string_data", BOOL |-> "int32_data",
    FLOAT16 |-> "int32_data", BFLOAT16 |-> "int32_data" ]

\* The typed field MLValueToTensorProto writes.
ConverterField ==
  [ FLOAT |-> "float_data", INT32 |-> "int32_data", UINT8 |-> "int32_data",
    INT8 |-> "int32_data", UINT16 |-> "int32_data", INT16 |-> "int32_data",
    BOOL |-> "int32_data", FLOAT16 |-> "int32_data", BFLOAT16 |-> "int32_data",
    STRING |-> "string_data", INT64 |-> "int64_data", UINT32 |-> "uint64_data",
    UINT64 |-> "uint64_data", DOUBLE |-> "double_data" ]

\* Mutant of NumpyField: UINT32 is stored as INT32.
FieldByWidth == [ConverterField EXCEPT !.UINT32 = "int32_data"]

\* The typed field to_array reads: STORAGE_TENSOR_TYPE_TO_FIELD of
\* TENSOR_TYPE_TO_STORAGE_TENSOR_TYPE.
NumpyField ==
  [ FLOAT |-> "float_data", UINT8 |-> "int32_data", INT8 |-> "int32_data",
    UINT16 |-> "int32_data", INT16 |-> "int32_data", INT32 |-> "int32_data",
    INT64 |-> "int64_data", BOOL |-> "int32_data", FLOAT16 |-> "int32_data",
    DOUBLE |-> "double_data", UINT32 |-> "uint64_data", UINT64 |-> "uint64_data",
    STRING |-> "string_data" ]

\* A TensorProto.  raw_data holds whole elements and `extra' bytes of another.
NoData == [f \in Field |-> <<>>]
NoRaw == [elems |-> <<>>, extra |-> 0]
DataIn(field, elems) == [f \in Field |-> IF f = field THEN elems ELSE <<>>]

TensorProto(type, dims, external, has_raw_data, raw_data, data) ==
  [ data_type |-> type, dims |-> dims, external |-> external,
    has_raw_data |-> has_raw_data, raw_data |-> raw_data, data |-> data ]

\* Other clients may send any dimensions, negative ones included.
ASSUME RequestsAssumption ==
  \A tensors \in Requests : \A n \in DOMAIN tensors : tensors[n].dims \in Seq(Int)

RawLength(tensor) ==
  Len(tensor.raw_data.elems) * ItemSize[tensor.data_type] + tensor.raw_data.extra

\* The product of the dimensions: 1 for a scalar.
Product(dims) ==
  LET product[i \in 0 .. Len(dims)] == IF i = 0 THEN 1 ELSE product[i - 1] * dims[i]
  IN product[Len(dims)]

\* The elements of an array or an Ort::Value of this type, but for strings.
Element(type) ==
  { n \in Int :
      CASE type = "BOOL" -> n = 0 \/ n = 1
        [] type = "UINT8" -> 0 <= n /\ n <= 255
        [] type = "INT8" -> -128 <= n /\ n <= 127
        [] type \in {"UINT16", "FLOAT16", "BFLOAT16"} -> 0 <= n /\ n <= 65535
        [] type = "INT16" -> -32768 <= n /\ n <= 32767
        [] OTHER -> TRUE }

\* What Run returns: values of these types, tensors with as many elements as
\* their shape says.
IsValue(value) ==
  /\ value = [type |-> value.type, shape |-> value.shape, elems |-> value.elems]
  /\ value.type \in DataType \cup {"map"}
  /\ value.elems \in IF value.type = "STRING" THEN Seq(STRING) ELSE Seq(Element(value.type))
  /\ value.type # "map" => Len(value.elems) = Product(value.shape)

ASSUME ModelAssumption ==
  \A results \in ModelOutputs :
    /\ results = [i \in 1 .. Len(results) |-> results[i]] /\ Len(results) \in Nat
    /\ \A i \in 1 .. Len(results) : IsValue(results[i])

-----------------------------------------------------------------------------
(***************************************************************************)
(* numpy_helper.py.  An array of objects has a sequence of strings for each *)
(* object: one for a string, any number for a nested array.  The type of an *)
(* array that holds any other object is "other", too.                       *)
(***************************************************************************)
Flatten(seqs) ==
  LET flat[i \in 0 .. Len(seqs)] == IF i = 0 THEN <<>> ELSE flat[i - 1] \o seqs[i]
  IN flat[Len(seqs)]

Contents(arr) == IF arr.type = "STRING" THEN Flatten(arr.elems) ELSE arr.elems

ASSUME CallsAssumption ==
  \A arrays \in Calls : \A n \in DOMAIN arrays :
    LET arr == arrays[n] IN
    /\ arr = [type |-> arr.type, shape |-> arr.shape, elems |-> arr.elems]
    /\ arr.shape \in Seq(Nat)
    /\ Contents(arr) \in IF arr.type = "STRING" THEN Seq(STRING) ELSE Seq(Element(arr.type))

Convertible(arr) == arr.type \in NumpyTypes

from_array(arr) ==
  IF arr.type = "STRING"
  THEN TensorProto("STRING", arr.shape, FALSE, FALSE, NoRaw,
                   DataIn("string_data", Contents(arr)))
  ELSE TensorProto(arr.type, arr.shape, FALSE, TRUE,
                   [elems |-> Contents(arr), extra |-> 0], NoData)

\* proto3 does not send an empty raw_data, and the server's proto2 then has none.
SerializeToString(tensor) ==
  TensorProto(tensor.data_type, tensor.dims, tensor.external,
              tensor.has_raw_data /\ RawLength(tensor) > 0, tensor.raw_data, tensor.data)

\* The bits of the half-precision float nearest to n in 0 .. 65535, ties to even.
Float16Bits(n) ==
  IF n = 0 THEN 0
  ELSE LET e == CHOOSE k \in 0 .. 15 : 2 ^ k <= n /\ n < 2 ^ (k + 1)
           scaled == (n - 2 ^ e) * 1024
           floor == scaled \div 2 ^ e
           rest == scaled % 2 ^ e
           up == \/ 2 * rest > 2 ^ e
                 \/ 2 * rest = 2 ^ e /\ floor % 2 = 1
       IN (e + 15) * 1024 + floor + IF up THEN 1 ELSE 0

\* What is left of an integer in a narrower type, in C++ and in numpy.
Narrow(type, n) ==
  CASE type = "BOOL" -> IF n = 0 THEN 0 ELSE 1
    [] type = "UINT8" -> n % 256
    [] type = "INT8" -> ((n + 128) % 256) - 128
    [] type = "UINT16" -> n % 65536
    [] type = "INT16" -> ((n + 32768) % 65536) - 32768
    [] OTHER -> n

\* astype(np_dtype) of an element of the storage type.
AsType(type, n) == IF type = "FLOAT16" THEN Float16Bits(n) ELSE Narrow(type, n)

\* The elements to_array puts into the array, and whether it raises instead.
Stored(tensor) ==
  IF tensor.data_type # "STRING" /\ RawLength(tensor) > 0
  THEN tensor.raw_data.elems
  ELSE LET data == tensor.data[NumpyField[tensor.data_type]]
       IN [i \in DOMAIN data |-> AsType(tensor.data_type, data[i])]

Readable(tensor) ==
  /\ tensor.data_type \in NumpyTypes
  /\ tensor.data_type = "STRING" =>
       \A i \in DOMAIN tensor.data.string_data : tensor.data.string_data[i] # NotUtf8
  /\ Len(Stored(tensor)) = Product(tensor.dims)

to_array(tensor) ==
  [type |-> tensor.data_type, shape |-> tensor.dims, elems |-> Stored(tensor)]

-----------------------------------------------------------------------------
(***************************************************************************)
(* tensorprotoutils.cc.  Everything it refuses a tensor for is an           *)
(* Ort::Exception, which SetMLValue turns into a status other than OK.      *)
(***************************************************************************)
Overflow == -1

CalcMemSizeForArray(a, b) == IF a * b > SizeMax THEN Overflow ELSE a * b

\* Mutant of CountInSize: the product of the dimensions wraps.
CountWraps(dims) ==
  LET count[i \in 0 .. Len(dims)] ==
        IF i = 0 THEN 1
        ELSE IF count[i - 1] = Overflow \/ dims[i] < 0 \/ dims[i] >= SizeMax THEN Overflow
        ELSE (count[i - 1] * dims[i]) % SizeSpan
  IN count[Len(dims)]

\* The loop of GetSizeInBytesFromTensorProto.
CountInSize(dims) ==
  LET count[i \in 0 .. Len(dims)] ==
        IF i = 0 THEN 1
        ELSE IF count[i - 1] = Overflow \/ dims[i] < 0 \/ dims[i] >= SizeMax THEN Overflow
        ELSE CalcMemSizeForArray(count[i - 1], dims[i])
  IN count[Len(dims)]

\* Overflow also stands for the types it does not know.
GetSizeInBytesFromTensorProto(tensor) ==
  IF CountInSize(tensor.dims) = Overflow \/ tensor.data_type \notin ServerTypes
  THEN Overflow
  ELSE CalcMemSizeForArray(CountInSize(tensor.dims), ItemSize[tensor.data_type])

\* tensor_size of TensorProtoToMLValue: a signed product that nothing checks,
\* which the build lets wrap.
Wrap(n) == ((n + SizeHalf) % SizeSpan) - SizeHalf

TensorSize(dims) ==
  LET size[i \in 0 .. Len(dims)] == IF i = 0 THEN 1 ELSE Wrap(size[i - 1] * dims[i])
  IN size[Len(dims)]

\* What may stand in int32_data for a half-precision float.
FitsUint16(n) == 0 <= n /\ n <= 65535

\* Mutant of UnpackTensorAccepts: raw data of any length is copied.
UnpackAnyRawData(tensor, expected_size) ==
  IF tensor.has_raw_data
  THEN CalcMemSizeForArray(expected_size % SizeSpan, ItemSize[tensor.data_type]) # Overflow
  ELSE LET data == tensor.data[UnpackField[tensor.data_type]] IN
       /\ Len(data) = expected_size
       /\ tensor.data_type \in {"FLOAT16", "BFLOAT16"} =>
            \A i \in DOMAIN data : FitsUint16(data[i])

UnpackTensorAccepts(tensor, expected_size) ==
  IF tensor.has_raw_data
  THEN RawLength(tensor) =
         CalcMemSizeForArray(expected_size % SizeSpan, ItemSize[tensor.data_type])
  ELSE LET data == tensor.data[UnpackField[tensor.data_type]] IN
       /\ Len(data) = expected_size
       /\ tensor.data_type \in {"FLOAT16", "BFLOAT16"} =>
            \A i \in DOMAIN data : FitsUint16(data[i])

UnpackTensor(tensor) ==
  IF tensor.has_raw_data
  THEN tensor.raw_data.elems
  ELSE LET data == tensor.data[UnpackField[tensor.data_type]]
       IN [i \in DOMAIN data |-> Narrow(tensor.data_type, data[i])]

BytesWritten(tensor) ==
  IF tensor.has_raw_data
  THEN RawLength(tensor)
  ELSE Len(tensor.data[UnpackField[tensor.data_type]]) * ItemSize[tensor.data_type]

\* TensorProtoToMLValue does not throw, given a buffer of this length.
ConvertsInto(tensor, preallocated_size) ==
  /\ ~ tensor.external
  /\ ~ (tensor.has_raw_data /\ tensor.data_type = "STRING")
  /\ \A i \in DOMAIN tensor.dims : tensor.dims[i] >= 0
  /\ preallocated_size >= GetSizeInBytesFromTensorProto(tensor)
  /\ UnpackTensorAccepts(tensor, TensorSize(tensor.dims))

\* Mutant of TensorProtoToMLValue: a scalar becomes an array of one element.
ScalarToVector(tensor) ==
  [ type |-> tensor.data_type,
    shape |-> IF tensor.dims = <<>> THEN <<1>> ELSE tensor.dims,
    elems |-> UnpackTensor(tensor) ]

\* CreateTensor gets a buffer of the length that the shape needs, and is taken
\* not to throw then.
TensorProtoToMLValue(tensor) ==
  [type |-> tensor.data_type, shape |-> tensor.dims, elems |-> UnpackTensor(tensor)]

-----------------------------------------------------------------------------
(***************************************************************************)
(* converter.cc.  A value that is no tensor has the type "map".             *)
(***************************************************************************)
EmptyString == ""

ConverterAccepts(value) == value.type \in DOMAIN ConverterField

\* Mutant of MLValueToTensorProto: halves always go to int32_data.
HalvesTyped(value, using_raw_data) ==
  IF using_raw_data /\ value.type \notin {"STRING", "FLOAT16"}
  THEN TensorProto(value.type, value.shape, FALSE, TRUE,
                   [elems |-> value.elems, extra |-> 0], NoData)
  ELSE TensorProto(value.type, value.shape, FALSE, FALSE, NoRaw,
                   DataIn(ConverterField[value.type], value.elems))

\* Without elements, the last of string_data is still added.
MLValueToTensorProto(value, using_raw_data) ==
  IF value.type = "STRING"
  THEN TensorProto("STRING", value.shape, FALSE, FALSE, NoRaw,
                   DataIn("string_data", IF value.elems = <<>> THEN <<EmptyString>> ELSE value.elems))
  ELSE IF using_raw_data
  THEN TensorProto(value.type, value.shape, FALSE, TRUE,
                   [elems |-> value.elems, extra |-> 0], NoData)
  ELSE TensorProto(value.type, value.shape, FALSE, FALSE, NoRaw,
                   DataIn(ConverterField[value.type], value.elems))

-----------------------------------------------------------------------------
NoArrays == [status |-> "none", arrays |-> <<>>]
Failed(why) == [status |-> why, arrays |-> <<>>]

Init ==
  /\ pc = "call"
  /\ given = <<>>
  /\ request = <<>>
  /\ using_raw_data_ = TRUE
  /\ values = <<>>
  /\ buffers = <<>>
  /\ outputs = <<>>
  /\ response = <<>>
  /\ result = NoArrays

\* Client.predict up to the request.
Predict(arrays) ==
  /\ given' = arrays
  /\ IF \A n \in DOMAIN arrays : Convertible(arrays[n])
     THEN /\ pc' = "inputs"
          /\ request' = [n \in DOMAIN arrays |-> SerializeToString(from_array(arrays[n]))]
          /\ UNCHANGED result
     ELSE /\ pc' = "done"
          /\ result' = Failed("raised")
          /\ UNCHANGED request
  /\ UNCHANGED <<using_raw_data_, values, buffers, outputs, response>>

OtherClient(tensors) ==
  /\ pc' = "inputs"
  /\ request' = tensors
  /\ UNCHANGED <<given, using_raw_data_, values, buffers, outputs, response, result>>

Call ==
  /\ pc = "call"
  /\ \/ \E arrays \in Calls : Predict(arrays)
     \/ \E tensors \in Requests : OtherClient(tensors)

\* The callback throws, and the client gets an HTTP error.
Fail(why) ==
  /\ pc' = "done"
  /\ result' = Failed(why)
  /\ UNCHANGED <<given, request, values, buffers, outputs, response>>

\* Mutant of RawDataSoFar: the last input decides for all outputs.
RawDataOfThis(tensor) == tensor.has_raw_data

RawDataSoFar(tensor) == using_raw_data_ /\ tensor.has_raw_data

\* An iteration of SetNameMLValueMap, with SetMLValue.  Protobuf maps have no
\* order.
SetMLValue(n) ==
  LET tensor == request[n]
      size == GetSizeInBytesFromTensorProto(tensor) IN
  /\ pc = "inputs"
  /\ n \notin DOMAIN values
  /\ using_raw_data_' = RawDataSoFar(tensor)
  /\ \/ size = Overflow /\ Fail("INFERENCE_ERROR")
     \/ size > MaxAlloc /\ Fail("UNKNOWN_ERROR")
     \/ /\ size \in 0 .. MaxAlloc /\ ~ ConvertsInto(tensor, size)
        /\ Fail("INFERENCE_ERROR")
     \/ /\ size \in 0 .. MaxAlloc /\ ConvertsInto(tensor, size)
        /\ values' = [m \in DOMAIN values \cup {n} |->
                        IF m = n THEN TensorProtoToMLValue(tensor) ELSE values[m]]
        /\ buffers' = [m \in DOMAIN buffers \cup {n} |->
                         IF m = n THEN [length |-> size, written |-> BytesWritten(tensor)]
                                  ELSE buffers[m]]
        /\ UNCHANGED <<pc, given, request, outputs, response, result>>

\* The model is external: it may compute anything, or throw.
Run ==
  /\ pc = "inputs"
  /\ DOMAIN values = DOMAIN request
  /\ UNCHANGED using_raw_data_
  /\ \/ /\ pc' = "outputs"
        /\ outputs' \in ModelOutputs
        /\ UNCHANGED <<given, request, values, buffers, response, result>>
     \/ Fail("INFERENCE_ERROR")

\* An iteration of the loop that builds the response.
ConvertOutput ==
  /\ pc = "outputs"
  /\ Len(response) < Len(outputs)
  /\ UNCHANGED using_raw_data_
  /\ LET value == outputs[Len(response) + 1] IN
     IF ConverterAccepts(value)
     THEN /\ response' = Append(response, MLValueToTensorProto(value, using_raw_data_))
          /\ UNCHANGED <<pc, given, request, values, buffers, outputs, result>>
     ELSE Fail("INFERENCE_ERROR")

\* Client.predict from the response on.
ConvertResponse ==
  /\ pc = "outputs"
  /\ Len(response) = Len(outputs)
  /\ pc' = "done"
  /\ result' = IF \A i \in DOMAIN response : Readable(response[i])
               THEN [status |-> "ok",
                     arrays |-> [i \in DOMAIN response |-> to_array(response[i])]]
               ELSE Failed("raised")
  /\ UNCHANGED <<given, request, using_raw_data_, values, buffers, outputs, response>>

Next ==
  \/ Call
  \/ \E n \in DOMAIN request : SetMLValue(n)
  \/ Run
  \/ ConvertOutput
  \/ ConvertResponse

Spec == Init /\ [][Next]_vars

-----------------------------------------------------------------------------
\* What a TensorProto says, in unbounded integers: its fields hold as many
\* elements as its dimensions ask for.
WellFormed(tensor) ==
  LET data == tensor.data[UnpackField[tensor.data_type]] IN
  /\ ~ tensor.external
  /\ tensor.data_type \in ServerTypes
  /\ \A i \in DOMAIN tensor.dims : tensor.dims[i] >= 0
  /\ IF tensor.has_raw_data
     THEN /\ tensor.data_type # "STRING"
          /\ RawLength(tensor) = Product(tensor.dims) * ItemSize[tensor.data_type]
     ELSE /\ Len(data) = Product(tensor.dims)
          /\ tensor.data_type \in {"FLOAT16", "BFLOAT16"} =>
               \A i \in DOMAIN data : FitsUint16(data[i])

\* No prefix of the dimensions has a product that size_t cannot hold, and
\* there is memory for the elements.
Fits(tensor) ==
  /\ \A i \in DOMAIN tensor.dims :
       /\ tensor.dims[i] < SizeMax
       /\ Product(SubSeq(tensor.dims, 1, i)) <= SizeMax
  /\ Product(tensor.dims) * ItemSize[tensor.data_type] <= MaxAlloc

\* The server converts an input exactly if the number of its elements is what
\* its dimensions say, although one product of the dimensions is computed in
\* size_t with overflow checks and the other one in int64_t without
\* (tensorprotoutils.cc:275-283, 381-387).
ConvertsWellFormed ==
  /\ \A n \in DOMAIN values : WellFormed(request[n])
  /\ pc = "done" /\ DOMAIN values # DOMAIN request =>
       \E n \in DOMAIN request \ DOMAIN values : ~ (WellFormed(request[n]) /\ Fits(request[n]))

\* What UnpackTensor writes is what SetMLValue has allocated, whichever field
\* it comes from (executor.cc:34-45): nothing of the buffer's zeroes is left
\* for the model to see, and nothing is written behind it.
FillsItsBuffer ==
  \A n \in DOMAIN buffers : buffers[n].written = buffers[n].length

\* The model sees the arrays that were passed to predict: of the same type and
\* shape, with the same elements (numpy_helper.py:76-124,
\* tensorprotoutils.cc:362-435).
InputsAsGiven ==
  \A n \in DOMAIN values \cap DOMAIN given :
    values[n] = [ type |-> given[n].type, shape |-> given[n].shape,
                  elems |-> Contents(given[n]) ]

\* Numeric outputs travel as raw data exactly if every input did: what a
\* client receives does not depend on the order of a protobuf map, and one that
\* fills typed fields is answered in them (executor.cc:69-70).
RawDataIfAllInputsAre ==
  \A i \in DOMAIN response :
    outputs[i].type # "STRING" =>
      (response[i].has_raw_data <=> \A n \in DOMAIN request : request[n].has_raw_data)

\* Half-precision outputs that are not sent as raw data are read as numbers,
\* not as bits (numpy_helper.py:68-71).
Misread(value) == value.type = "FLOAT16" /\ ~ using_raw_data_

\* predict returns what the model has computed, whatever mixture of inputs
\* decided on the field the outputs travel in (executor.cc:70, converter.cc:57-261,
\* numpy_helper.py:52-73).
OutputsAsComputed ==
  result.status = "ok" =>
    /\ Len(result.arrays) = Len(outputs)
    /\ \A i \in DOMAIN outputs : ~ Misread(outputs[i]) => result.arrays[i] = outputs[i]

\* When the server has answered, predict raises only for an output numpy has
\* no type for, a string that is not valid UTF-8, or a string tensor without
\* elements, which the server sends as one with an empty string
\* (converter.cc:205).
RaisesOnlyForTheseOutputs ==
  result.status = "raised" /\ outputs # <<>> =>
    \E i \in DOMAIN outputs :
      \/ outputs[i].type = "BFLOAT16"
      \/ outputs[i].type = "STRING" /\ outputs[i].elems = <<>>
      \/ outputs[i].type = "STRING" /\ \E k \in DOMAIN outputs[i].elems : outputs[i].elems[k] = NotUtf8

=============================================================================
