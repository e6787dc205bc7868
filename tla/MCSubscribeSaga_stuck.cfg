SPECIFICATION FairSpec
CONSTANTS
    e1 = e1  e2 = e2  n1 = n1  r1 = r1  r2 = r2
    s1 = s1  s2 = s2  h1 = h1  h2 = h2  c1 = c1  w1 = w1
    Emails <- OneEmail
    Names <- OneName
    RepoIds <- OneRepoId
    SubIds <- OneSub
    Handlers <- OneHandler
    Consumers <- OneConsumer
    Reapers <- OneReaper
    ReaperBatch = 1
    MaxErrors = 0
    MaxCrashes = 1
PROPERTIES
    CompensationIsRecovered
