SPECIFICATION FairSpec
CONSTANTS
    Folders = {"root", "ext", "sub", "own", "old"}
    Files = {"f", "g", "h"}
    Junctions = {"link"}
    Root = "root"
    NameOrder <- MCNameOrder
    Images = {"a", "A", "b"}
    Folded <- MCFolded
    Scenarios <- MCScenarios
    MaximumItemsPerPage = 2
INVARIANTS OnlySelectedFoldersListed ReviewIsExact CommitsOnlyTheReviewed
PROPERTIES ReviewEnds
