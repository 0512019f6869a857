SPECIFICATION Spec
CONSTANTS
  Keys = {k1, k2}
  Threads = {p1, p2}
  DataRefs = {d1}
  DataOf <- SharedData
  MaxGen = 2
  MaxEntries = 1
  None = None
SYMMETRY Symmetry
INVARIANTS EveryEntryIsReferenced ExactUntilReinstall EntriesHoldWhatTheyName FreshAnswers
