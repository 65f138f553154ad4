\* Documents with every kind of value in every field; sessions of up to four
\* experiments over one of them and a revision of it.
CONSTANTS
  MaxU32 = 20000
  MaxI64 = 40000
  MaxU64 = 80001
  Beyond <- MCBeyond
  Profiles <- MCProfiles
  NamePosition <- MCNamePosition
  ValuePosition <- MCValuePosition
  Preferred <- MCPreferred
  Bases <- MCBases
  SessionBases <- MCSessionBases
  Revisions <- MCRevisions
  Csvs <- MCCsvs
  Configs <- MCConfigs
  MaxAttempts = 4
SPECIFICATION Spec
CONSTRAINT Repeated
\* A session ends.
CHECK_DEADLOCK FALSE
INVARIANTS
  TypeOK
  ValidatedRuns
  VariantsStayValid
  ManifestTellsVariants
  StopIsJustified
  IsolatedRanksFirst
  DiffAccounts
