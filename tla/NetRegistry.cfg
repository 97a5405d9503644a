SPECIFICATION Spec
CONSTANTS
  vpn = vpn
  trusted = trusted
  guest = guest
  dns = dns
  a1 = a1
  a2 = a2
  b1 = b1
  b2 = b2
  p1 = p1
  p2 = p2
  udp = udp
  Ids = {vpn, trusted, guest, dns}
  KindOf <- MCKindOf
  Drafts <- MCDrafts
  Aliases = {a1, a2}
  Bodies = {b1, b2}
  PolicyNames = {p1, p2}
  RuleDrafts <- MCRuleDrafts
  Scopes = {udp}
  Decisions = {"allow"}
  Operations = {"access"}
  Handles = {a1, a2}
  MaxRevision <- MCMaxRevision
  NoObject = NoObject
  NoRule = NoRule
  NoRef = NoRef
  NoAnswer = NoAnswer
INVARIANT PermittedAnswerWasCurrent
PROPERTIES ReferencesAreImmutable
