SPECIFICATION Spec
CONSTANTS
  SizeBits = 7
  MaxAlloc = 63
  NotUtf8 = "not valid UTF-8"
  Calls <- MCCalls
  Requests <- MCRequests
  ModelOutputs <- MCOutputs
INVARIANTS
  ConvertsWellFormed
  FillsItsBuffer
  InputsAsGiven
  RawDataIfAllInputsAre
  OutputsAsComputed
  RaisesOnlyForTheseOutputs
CHECK_DEADLOCK FALSE
