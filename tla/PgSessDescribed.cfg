\* Clients that describe each statement once, before they bind it.
SPECIFICATION Spec
CONSTANTS
  Names = {n1, n2, n3}
  Portals = {p1, p2}
  Selects = {qa}
  PassedOn = {qc}
  Constant = {qv}
  Listings = {ql}
  Returnings = {qr}
  Writes = {qw}
  NoText = noText
  NoName = noName
  Client = {}
  Faults = {"describe select", "describe returning", "execute"}
SYMMETRY SessionSymmetry
INVARIANTS
  TypeOK
  AnnouncedBeforeRows
  NotAnnouncedTwice
