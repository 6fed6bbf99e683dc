CONSTANTS
    c1 = c1
    c2 = c2
    x1 = x1
    x2 = x2
    t1 = t1
    t2 = t2
    p1 = p1
    p2 = p2
    Proc = {p1, p2}
    Coverage = {c1, c2}
    MaxRows = 3
    MaxList = 2
    MaxItems = 2
    MaxCategories = 2
    SentOrder = {1, 2}
    Locale = {"es", "en"}
    Field = {"value", "notes"}
    Text = {"a", "b"}
    Country = {x1, x2}
    Code = {"ES", "PT", "FR"}
    Zone = {"iberia"}
    Template = {t1, t2}
    Slug = {"principal", "carta"}
    MaxVersions = 3
    i1 = i1
    i2 = i2
    Item = {i1, i2}
    Category = {"general", ""}
    Empty = ""
    Token = {"logo", "aviso"}
    MaxUploads = 3
SPECIFICATION CatalogueSpec
CHECK_DEADLOCK FALSE
SYMMETRY Symmetric
INVARIANTS CatalogueConsistent ContractPrintsThePreview
PROPERTIES KeysStayUnique UploadIsServed OthersAreKept
