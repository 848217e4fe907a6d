SPECIFICATION AssistantSpec
CONSTANTS
  t1 = t1
  t2 = t2
  c1 = c1
  Tabs = {t1, t2}
  Calls = {c1}
  MaxSteps = 2
  MaxMessages = 4
  MaxThreads = 2
  MaxProposals = 1
  MaxFailures = 1
SYMMETRY Symmetric
INVARIANTS EveryCallIsAnswered SentIsWhatIsStored SlotIsTheTurn NextMessageTells
