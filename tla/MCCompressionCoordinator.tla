---------------------- MODULE MCCompressionCoordinator ----------------------
EXTENDS CompressionCoordinator, TLC

CONSTANTS s1, s2, s3, h1, h2, h3

MCSpiderIds2 == {s1, s2}
MCSpiderIds == {s1, s2, s3}
MCHandleIds2 == {h1, h2}
MCHandleIds == {h1, h2, h3}
Symmetry == Permutations(MCSpiderIds) \cup Permutations(MCHandleIds)
=============================================================================
