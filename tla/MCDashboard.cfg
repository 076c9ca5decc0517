\* The page of one video, opened twice, with two loads, two uploads and two
\* deletes that overlap and one answer lost.
CONSTANTS
    Videos = {video}
    Video = video
    Loads = {first, second}
    Files = {one, other}
    MaxDeletes = 2
    MaxLost = 1
    MaxVisits = 2
SPECIFICATION Spec
INVARIANTS TypeOK NotAhead
PROPERTIES EndIsShown StopsAsking
