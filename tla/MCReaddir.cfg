\* Names of one length; while a directory is read names are added.
CONSTANTS
  n1 = n1
  n2 = n2
  n3 = n3
  n4 = n4
  Names = {n1, n2, n3, n4}
  EntrySize <- MCEven
  BufferSize = 2
  Changes = {"add"}
SPECIFICATION FairSpec
INVARIANT TypeOK
INVARIANT ListsAllOnce
PROPERTY ListingEnds
