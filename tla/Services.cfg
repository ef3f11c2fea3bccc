SPECIFICATION Spec
CHECK_DEADLOCK FALSE
CONSTANTS
  JournalOrder <- MCJournalOrder
  JournalHome <- MCJournalHome
  Seeded = {"a", "b"}
  MonthLengths <- MCMonthLengths
  MaxJournalSteps = 6
  Copies = {"b1", "b2"}
  SectionQueries <- MCSectionQueries
  TooltipHints = TRUE
  MaxSettingsSteps = 2
  MaxPrefSteps = 2
  DocOrder <- MCDocOrder
  SearchDoc <- MCSearchDoc
  SearchQueries <- MCSearchQueries
  FilterTokens <- MCFilterTokens
  ChipToken <- MCChipToken
  PartOf <- MCPartOf
  ActiveAliases = {"p"}
  SearchLimit = 2
  MaxSearchSteps = 3
  CaptureProjects <- MCProjectOrder
  CaptureWords <- MCCaptureWords
  NoCapture = NoCapture
  MaxDraft = 2
  MaxCaptureSteps = 5
  Targets = {t1}
  NoTarget = NoTarget
  MaxSyncSteps = 3
  ManyDocs = 2
  ManyEntries = 2
  FadeThreshold = 2
  MaxCheckRetries = 1
  MaxGuideSteps = 3
INVARIANTS
  UndoFindsEntries
  UndoFindsCapture
   
   
  
  MarkedWereSeen
