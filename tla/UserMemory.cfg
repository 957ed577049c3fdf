SPECIFICATION FairSpec
CONSTANTS
  a1 = a1
  a2 = a2
  k1 = k1
  Actors = {a1, a2}
  Ops <- ClientAndWorker
  Keys = {k1}
  Blank = Blank
  Values <- MCValues
  Similar <- MCSimilar
  Extractions <- MCExtractions
  ListTake = 4
  MaxRows = 3
INVARIANT TypeOK
INVARIANT NoNearDuplicates
INVARIANT OneRowPerRef
INVARIANT FreshUnlessRaced
PROPERTY CacheConverges
