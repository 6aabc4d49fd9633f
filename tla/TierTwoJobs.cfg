SPECIFICATION FairSpec
CONSTANTS
  hot1 = hot1
  hot2 = hot2
  cold = cold
  Branch = {hot1, cold}
  Cold = cold
  Rank <- Rank2
  j1 = j1
  j2 = j2
  Job = {j1, j2}
  NoJob = NoJob
  None = None
  Torn = Torn
  Partial = Partial
  MaxVersion = 2
  MaxFault = 1
CONSTRAINT NotRaced
INVARIANTS NoLoss ReadersSeeTheLatest
PROPERTIES SourceGoesLast OnlyCopyMeansRemoved RunsEnd
