SPECIFICATION Spec
CONSTANTS
    Imports = {i1, i2, i3}
    Sources = {s1, s2}
    Contents <- MCContents
    ChunkTexts <- MCChunkTexts
    ChunksOf <- MCChunksOf
    None = None
    Memories = {m1, m2, m3}
    Scopes = {"user", "project"}
    Absent = Absent
    Turns = {t1}
    ResultLimit = 2
    MemoryLimit = 2
    UserScope = "user"
    UnsafeTexts <- MCUnsafeTexts
    UnsafeMemories = {m3}
    MaxCharacters = 3
    Documents <- MCDocuments
SYMMETRY ContextSymmetry
CONSTRAINT Separate
INVARIANTS TypeOK VectorsMatch ImportedIsSearchable FoundByOwnEmbedding
    ForgottenIsNotUsed RecentMemoriesAreUsed ChunksKeepText
CHECK_DEADLOCK FALSE
