\* One name is longer than the others; see the finding on DeliversInSequence.
CONSTANTS
  n1 = n1
  n2 = n2
  n3 = n3
  n4 = n4
  Names = {n1, n2, n3, n4}
  EntrySize <- MCUneven
  BufferSize = 2
  Changes = {}
SPECIFICATION Spec
INVARIANT DeliversInSequence
