\* Two processes, two keys, two items of two revisions, two discoveries.
SPECIFICATION SyncSpec
CONSTANTS
    first = first
    renewed = renewed
    tables = tables
    documents = documents
    base = base
    Process = {p1, p2}
    Key = {k1, k2}
    Item = {i1, i2}
    Config = {first, renewed, tables}
    SelectionOf <- MCSelectionOf
    Bitable = {tables}
    MaxVersion = 1
    MaxLists = 2
    Null = Null
SYMMETRY Interchangeable
PROPERTIES IsSerial NewestListingStands SuccessIsTheListing
