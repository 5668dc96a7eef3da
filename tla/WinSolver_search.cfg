CONSTANTS
  b1 = b1  b2 = b2  b3 = b3  w = w  l = l  p = p  a1 = a1  a2 = a2  q1 = q1  q2 = q2
  Bucket <- MCBucket
  Action <- MCAction
  Question = {q1, q2}
  Outcome <- MCOutcome
  BpFp <- MCBpFp
  Banned <- MCBanned
  LegalActions <- MCActions
  Expansions <- MCExpansions
  DepthCap = 3
  VisitCap = 4
  EnableVerdictMemo = TRUE
  MaxCalls = 2
SPECIFICATION FairSpec
INVARIANTS  TypeOK WinSound FailSound CertificateClosed CertificateAcyclic IndetExplained
PROPERTY Terminates
CHECK_DEADLOCK FALSE
