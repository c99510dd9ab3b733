SPECIFICATION EnrichmentSpec
CONSTANTS
  None = None
  MaxEvidence = 3
  Distro = "el9"
  Sonames <- MCSonames
  DefaultArches <- MCArches
  CveFeed <- MCCveFeed
  BaseGraph <- MCBaseGraph
  BuildSboms <- MCBuildSboms
  Repographs <- MCRepographs
  DnfAnswers <- MCDnfAnswers
  DepSboms <- MCDepSboms
  Requirements <- MCRequirements
  Imports <- MCImports
  ErrataFiles <- MCErrataFiles
  Advisories <- MCAdvisories
  Dictionaries <- MCDictionaries
  Candidates <- MCCandidates
  HeaderOf <- MCHeaderOf
  PayloadOf <- MCPayloadOf
  ProvidesMaps <- MCProvidesMaps
  PackageOf <- MCPackageOf
  Resolved <- MCResolved
  SourceTrees <- MCSourceTrees
INVARIANTS
  IdentityIsEarned
  ReportsTellOneStory
  RepeatsAreSafe
  NothingIsLostQuietly
PROPERTIES
  NoCveVanishes
  EvidenceOnlyGrows
CHECK_DEADLOCK FALSE
