------------------------ MODULE MCMaterializationLog ------------------------
EXTENDS MaterializationLogInvariant, TLC

CONSTANTS w1, w2, w3, t1, a, b, server, cli

\* Two windows of one table; between two runs of the server a command line
\* invocation rewrites one of them with another variant.
MCTargetOf == [w \in Write |-> t1]
MCProcOf == [w \in Write |-> IF w = w2 THEN cli ELSE server]
MCWindowOf == [w \in Write |-> IF w = w3 THEN b ELSE a]
MCVariantOf == [w \in Write |-> IF w = w2 THEN 2 ELSE 1]
MCFactKeyOf == [w \in Write |-> w]
MCReplaces == [w \in Write |-> FALSE]
MCReported == [w \in Write |-> w = w2]

\* The two windows of the server are units of one run.
MCOneRun == [w \in Write |-> IF w = w3 THEN w1 ELSE w]
=============================================================================
