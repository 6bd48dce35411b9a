CONSTANTS
  p1 = p1
  p2 = p2
  c1 = c1
  c2 = c2
  Workers = {p1, p2}
  Cookies = {c1, c2}
  Expiration = 1
  Nobody = Nobody
  None = None
  max_conf_scan = 1
  MaxDay = 2
  MaxReplies = 2
  MaxDeaths = 1
  Owner = Owner
  Ann = Ann
  Bob = Bob
  Mail1 = Mail1
  Mail2 = Mail2
  Mail3 = Mail3
  Mail4 = Mail4
  Mail5 = Mail5
  Mail6 = Mail6
  Id1 = Id1
  Id2 = Id2
  Sum1 = Sum1
  Sum2 = Sum2
SPECIFICATION MCSpec
SYMMETRY MCSymmetry
CHECK_DEADLOCK FALSE
INVARIANTS CookieGoodOnce SentOnce ActedOnce AsSent
