---------------------------- MODULE MCChunkMesh ----------------------------
EXTENDS ChunkMesh

\* The cells on the border between chunks 0 and 1.
MCEditSites == {<<0, 1>>, <<1, -1>>}
=============================================================================
