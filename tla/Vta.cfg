SPECIFICATION Spec
CONSTANTS
  Calls = {c1, c2}
  vta = vta
  stranger = stranger
  NoAnswer = NoAnswer
  AllowInsecure = FALSE
  AllowPrivate = TRUE
  Endpoints = {"absent", "public", "plaintext", "private"}
INVARIANTS
  AnswerIsTheVtas
  NoUnobservedRejection
  WaitingIsAnswerable
  OnlyAllowedContacted
CHECK_DEADLOCK FALSE
