SPECIFICATION Spec
SYMMETRY ThreadsOfAClient
CONSTANTS
  f1 = f1
  f2 = f2
  c1 = c1
  c2 = c2
  c3 = c3
  t1 = t1
  t2 = t2
  t3 = t3
  t4 = t4
  t5 = t5
  Firms = {f1, f2}
  Clients = {c1, c2, c3}
  Threads = {t1, t2, t3, t4, t5}
  ClientFirm <- FirmOf
  ThreadClient <- ClientOf
  NoFirm = NoFirm
  Sessions <- AccountsOfEachKind
  MaxOverlap = 2
  MaxTime = 3
  Length <- LengthOf
  Sinces = {0, 2}
  Untils = {2, 3}
  page_size = 1
INVARIANTS TypeOK OneAnswerForAFirm ReportsOpen ReportsAgree PagesAddUp
