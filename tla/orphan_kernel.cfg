CONSTANTS
  n1 = n1  r1 = r1  o1 = o1  o2 = o2
  plain = plain  raw = raw  full = full  thin = thin  bad = bad
  m0 = m0  m1 = m1  placeholder = placeholder  singbox = singbox
  direct = direct  noname = noname  any = any  overseas = overseas
  InNames <- MCInNames
  OutNames <- MCOutNames
  RuleNames <- MCRuleNames
  Contents <- MCContents
  BadContent = bad
  SignatureOf <- MCSignatureOf
  EnrichedContent <- MCEnrichedContent
  MergedContent <- MCMergedContent
  MihomoConfigs <- MCMihomoConfigs
  NoMihomo = m0
  KernelTypes <- MCKernelTypes
  Placeholder = placeholder
  Direct = direct
  NoName = noname
  Patterns <- MCPatterns
  Overseas = overseas
  NewOutbounds <- MCNewOutbounds
  NewRoutings <- MCNewRoutings
  NewMihomos <- MCNewMihomos
  NewKernels <- MCNewKernels
  EditedConfigs <- MCEditedConfigs
  Imports <- MCImports
  FirstConfigs <- MCFirstConfigs
  Torn = Torn
  NoConfig = NoConfig
  NotRunning = NotRunning
  HistoryKeep = 2
  MaxOps = 2
  MaxCrashes = 0
SPECIFICATION Spec
INVARIANT ReplacedKernelsAreStopped
CHECK_DEADLOCK FALSE
