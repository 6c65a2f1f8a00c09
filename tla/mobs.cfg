SPECIFICATION FairSpec
CONSTANTS
  v1 = v1
  v2 = v2
  t1 = t1
  c1 = c1
  Votes = {v1, v2}
  Testers = {t1}
  Crons = {c1}
  MaxTests = 1
  MaxLoss = 1
INVARIANT OnOnlyByVote
PROPERTY SwitchSettles
