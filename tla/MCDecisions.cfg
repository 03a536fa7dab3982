SPECIFICATION Spec
CONSTANTS
  ExpandedCeiling = 5
  RatioCeiling = 2
  EntriesCeiling = 4
  Artifacts = {"a", "b"}
  Sources = {"s", "t"}
  Policies = {"p", "q"}
  Receipts = {1, 2}
  Requests <- MCRequests
  Logins <- MCLogins
  Reads <- MCReads
  Archives <- MCArchives
  Admissions <- MCAdmissions
INVARIANTS
  RegistryHostIsMachineOnly
  TokensOpenOneSurface
  ArtifactsAreConcealed
  ArchivesUnpackAsDescribed
  AcceptIsRespected
  ExportsReadBack
  AdmissionsAreBound
CHECK_DEADLOCK FALSE
