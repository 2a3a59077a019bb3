CONSTANTS
  a1 = a1  a2 = a2  x = x  h1 = h1  none = none
  Programs = {"mint", "burn"}
  Digests <- MCDigests
  Keys <- MCKeys
  AttackerKeys = {x}
  Attesters = {a1}
  BurnSigners = {a2}
  NoKey = none
  N = 5
  Nonces = {1, 2}
  Owner <- MCOwner
  SigLengths = {64, 65}
  RecoveryBytes = {0, 1, 27, 28, 29}
SPECIFICATION Spec
INVARIANTS
  NoMalleatedTwinAccepted
  EverySignatureHasAnAcceptedForm
PROPERTIES
  AuthorisedSignaturesRefined
