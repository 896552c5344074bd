\* Decisions over up to three policies of the catalogue as time passes, and manifests of them.
CONSTANTS
  Resources <- MCResources
  Covers <- MCCovers
  Catalogue <- MCCatalogue
  Keys <- MCKeys
  Tools <- MCTools
  Setups <- MCSetups
  MaxPolicies = 3
  MaxResults = 2
  MaxTime = 2
SPECIFICATION ManifestSpec
INVARIANTS
  AnswersAreReference
  ExecutedWithinNarrowing
  ManifestIsEnforced
  SandboxReadingsAgree
PROPERTY AdditionsNeverUnrestrict
