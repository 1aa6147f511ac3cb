\* Two registrations of one id, three submissions, a list of two, two listings, two lost commands.
SPECIFICATION Spec
CHECK_DEADLOCK FALSE
CONSTANTS
    c1 = c1
    None = None
    Contestants = {c1}
    Registrations = {q1, q2}
    Submissions = {s1, s2, s3}
    Of <- OneContestant
    SubCap = 2
    MaxReads = 2
    MaxFaults = 2
SYMMETRY RequestSymmetry
INVARIANTS TypeOK ListIsComplete IndexIsSound
PROPERTIES DuplicateRefused
