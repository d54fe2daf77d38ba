\* Two questions, three answers, two losses, and two submissions at a time.
SPECIFICATION FairSpec
CONSTANTS
    Question = {q1, q2}
    Option = {a, b}
    NoOption = NoOption
    None = None
    MaxChanges = 3
    MaxFaults = 2
    MaxPosts = 2
INVARIANTS SavedIsTrue ResultCountsWhatWasSeen
PROPERTIES AnswersReachServer ResultIsShown
CHECK_DEADLOCK FALSE
