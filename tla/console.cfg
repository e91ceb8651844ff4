CONSTANTS
  Candidates = {s1, s2, s3}
  Blocked = {s3}
  Capacity = 1
  OptionCount = 2
  MaxCases = 2
  MaxItems = 2
  MaxEdits = 4
  MaxPosts = 1
  MaxDrafts = 2
  People = {a, b}
  Illegible = bad
  Files <- RosterFiles
  Calls = {r1, r2}
  MaxPasswords = 3
  MaxLost = 1
  Items = {w1, w2}
  Worth = 1
  Jobs = {j1, j2}
  MaxAwards = 2
  MaxBreaks = 1
  e1 = e1
  e2 = e2
  m1 = m1
  m2 = m2
  m3 = m3
  l1 = l1
  l2 = l2
  Sittings <- TwoExams
  Persons = {a, b}
  Machines = {m1, m2, m3}
  LabOf <- LabPlan
  Venue <- Venues
  MaxMoves = 1
  Finals <- TwoExams
  Names = {1, 2}
  OutOf = 200
  Scores = {1, 2}
  MaxMarkings = 4
  Students = {s1, s2, s3, s4}
  Seats = 3
SPECIFICATION ConsoleSpec
INVARIANTS StoredPaperSound  ListHonest  ResultsHonest SeatingSound
PROPERTIES PaperRoundTrips
CHECK_DEADLOCK FALSE
