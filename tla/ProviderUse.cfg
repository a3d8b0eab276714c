SPECIFICATION UseSpec
CONSTANTS
 Models <- MCModels
 CloudModels = {"m2"}
 Kinds = {"chat", "image"}
 Reports <- MCReports
 Guesses <- MCGuesses
 Drafts <- MCDrafts
 AtFirst = {"m2"}
 Syncs = {s1, s2}
 Jobs = {j1}
 TargetOf <- MCTargetOf
 MaxFailures = 2
 MaxOps = 3
 None = None
 Requests = {r1, r2}
 Limiters = {l1, l2, l3}
 MaxActive = 2
INVARIANTS CatalogueInv UseInv FreshWithinMax
PROPERTIES OwnersWordStands DownloadShows
CHECK_DEADLOCK FALSE
