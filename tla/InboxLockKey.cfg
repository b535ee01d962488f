SPECIFICATION Spec
CONSTANTS
  Worker = {w1}
  NoWorker = NoWorker
  Key = {"k"}
  Digest = {"d"}
  Result = {r1}
  NoReceipt = NoReceipt
  TextAcceptsNul = FALSE
INVARIANT LockIsTaken
