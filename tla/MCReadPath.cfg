CONSTANTS
    s1 = s1
    s2 = s2
    Samplers <- TwoSamplers
    Windows <- DefaultAndTwo
    Contents <- UpToFive
    MinSizes <- UpToThree
    ChunkSize = 2
SYMMETRY Symmetry
SPECIFICATION ReadPathSpec
INVARIANTS ZeroRunFound BytesAccounted AverageOfRecent
