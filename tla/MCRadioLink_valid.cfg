SPECIFICATION Spec
CONSTANTS
    Links = {l1}
    Configs <- MCConfigs
    Profiles <- MCProfiles
    Gain <- MCGain
    TxPower = 2
    SeedConfig <- MCSeedConfig
    SeedPower = 2
    RSSIMin <- MCRSSIMin
    RSSIMax = 0
    StepDB = 1
    RSSIAlarm <- MCAlarm
    RSSIClear <- MCClear
    FadeMin = 1
    FadeClear = 2
    Fades = {3, 6, 8}
    None = None
INVARIANT
    RunningStaysValid
