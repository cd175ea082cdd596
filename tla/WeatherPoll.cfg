SPECIFICATION FairSpec
CONSTANTS
  warm = warm
  Temp = {warm}
  Zero = Zero
  Cut = Cut
  Garbled = Garbled
  Mixed = Mixed
  Configs <- SomeConfigs
  LogMax = 2
  TailMax = 2
  MaxCrash = 1
INVARIANTS TypeOK StatusIsOfLastPoll AccountsAgree LogHoldsRecent TrendIsRun
PROPERTY OutageSurvived
