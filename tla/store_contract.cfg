SPECIFICATION Spec
CONSTANTS
    Urls = {u1, u2}
    Titles = {"News", "Tech"}
    Versions <- MCVersions
    GuidOf <- MCGuidOf
    Published <- MCPublished
    Words <- MCWords
    TitleText <- MCTitleText
    SummaryText <- MCSummaryText
    BodyText <- MCBodyText
    Article = "article"
    Batches <- MCBatches
    Times = {0, 1}
    MaxAttempts = 1
    Week = 1
    Fold <- MCFold
    Batch = 1
    Deleters = {d1}
    Queries <- MCQueries
    MaxSerial = 4
    MaxOps = 3
    MaxCrashes = 1
VIEW View
INVARIANTS TypeOK ReadsAgree SearchComplete
PROPERTIES  OpensEventually
CHECK_DEADLOCK FALSE
