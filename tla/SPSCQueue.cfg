SPECIFICATION Spec
CONSTANTS
  max_size = 4
  SizeMod = 16
  Value = {a, b}
  Raw = Raw
  Hollow = Hollow
  MaxPush = 5
INVARIANTS TypeOK RaceFree Lifetimes PromisesKept EstimatesErrOneWay CountsExact IInv
PROPERTIES ImplementsFifo WaitFree EveryPushIsRemoved ProducerGetsThrough
