SPECIFICATION Spec
CONSTANTS
    p1 = p1
    p2 = p2
    p3 = p3
    Paragraph = {p1, p2, p3}
    Opened <- TwoParagraphs
    MaxCalls = 2
    MaxRuns = 2
    MaxSaves = 1
    Step = {s1, s2, s3}
    Transition = {t1, t2}
    MaxCells = 4
INVARIANTS EditorsTypeOK ParagraphsAreDistinct GraphShowsEntity
PROPERTIES EndedRunIsShown OnlyTheDeletedGo
CHECK_DEADLOCK FALSE
