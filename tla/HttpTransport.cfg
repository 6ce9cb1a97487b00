CONSTANTS
    Streams = {s1}
    Plain = {m}
    Posters = {p1, p2}
    Free = Free
SPECIFICATION FairSpec
INVARIANTS TypeOK StreamsKept
PROPERTY StreamsAndPostsEnd
