SPECIFICATION AdmissionSpec
CONSTANTS
  Digests <- MCDigests
  Variants <- MCVariants
  Variant <- MCVariant
  Image <- MCImage
  Official = "arm64"
  Engines <- MCEngines
  MaxCompressed = 2
  MaxRootfs = 2
  MaxStream = 4
  MaxMembers = 3
  Submissions <- MCSubmissions
  MaxPulls = 2
  MaxDamage = 1
INVARIANTS EvidenceTrue AdmittedFits RejectedForAReason
CHECK_DEADLOCK FALSE
