SPECIFICATION FairSpec
CONSTANTS
  t1 = t1
  t2 = t2
  c1 = c1
  c2 = c2
  c3 = c3
  Main = Main
  NoTask = NoTask
  Tasks <- MCTasks
  Coros <- MCCoros
  MaxReuse = 1
  MaxYields = 1
  MaxCalls = 3
INVARIANTS OnOneList ReadyWasCalled
PROPERTIES PublishedRuns CalledResumes
