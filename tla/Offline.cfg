SPECIFICATION Spec
SYMMETRY Processes
CHECK_DEADLOCK FALSE
CONSTANTS
  Lists = {1, 2}
  Resources = {0, 1, 2, 3}
  Textures = {1}
  Layout <- SmallLayout
  FrameChunks <- SmallFrameChunks
  Shape <- SmallShape
  Snippets <- SmallSnippets
  Events <- SmallEvents
  NamesA <- SmallNamesA
  CostA = 1
  CostB = 0
  NamesB <- SmallNamesB
  ImageDetail = 1
  Inventory <- SmallHeld
  ListLimit = 2
  UnattributedLimit = 1
  LineRoom <- SmallRoom
  Radix = 2
  AllocationLimit = 1
  ReportEvents <- SmallReportEvents
  Situations <- SmallSituations
  Corpus <- SmallCorpus
  TheCapture <- SmallFile
  NotableLimit = 1
  OddityLimit = 1
  RecommendationLimit = 12
  Passes <- SmallPasses
  Printable = {"a", "b"}
  Other = "."
  CutSearch = 2
  Workers = {1, 2, 3}
  MinLens = {1, 2}
  Needles <- SmallNeedles
  Chunks <- SmallChunks
  Align = 8
  Captures <- SmallCaptures
  Commands <- SmallCommands
  Driven = {"a"}
  Pair = {"a", "b"}
  Commands_ = {k1, k2}
  Members <- SmallMembers
  Required = {"core.h", "d3d12_common.h"}
  Targets_ <- SmallTargets
  SourcesOf <- SmallSources
  MaxTime = 3
INVARIANTS ArgumentsAreInForce ProvenanceFindsOrigin FlagsAgreeWithProvenance PeakIsTheMaximum NoClobberMissed FindingsHaveNoExcuse LoopsAreAsOfTheDraw PassesAreTheScopes AlignmentIsAMatching DiffAccountsForEveryCall PairVerdictsHaveEvidence ReportClaimsWhatItChecked SlicesEqualOnePass WalkIsTheLayout VerdictSpeaksForTheCorpus FetchHeals
PROPERTIES VerdictsAreOfNow
