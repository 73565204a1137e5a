\* Edits from an old screen, a sync, and imports under review.
SPECIFICATION Spec
CONSTANTS
    a = a
    b = b
    v = v
    r1 = r1
    r2 = r2
    w = w
    n = n
    Title = {a, b}
    Variant = {Plain, v}
    Rest = {r1, r2}
    What = {w}
    Name = {n}
    Plain = Plain
    NoColumn = NoColumn
    None = None
    ActivityFiles <- MCActivityFiles
    MediaFiles <- MCMediaFiles
    StoneFiles <- MCStoneFiles
    Pairs <- MCPairs
    MaxUid = 3
    MaxId = 3
INVARIANTS WellLinked OnlyWhatWasSeen ExportsReturn
PROPERTIES ImportedAsReviewed
CHECK_DEADLOCK FALSE
