---------------------------- MODULE MCChunkLight ----------------------------
EXTENDS ChunkLight

\* Two chunks, an ember at the far side of the first; the second open or of rock.
Open == <<"air", "air">>
MCLandscapes == {<< <<"ember", "air">>, Open>>, << <<"ember", "air">>, <<"rock", "rock">>>>}

\* The ember goes, a wall closes the border, and the rock behind it opens.
MCEdits == {<<1, 1, "air">>, <<1, 2, "rock">>, <<2, 1, "air">>}

\* A wall on the second chunk's side of the border.
MCWall == {<<2, 1, "rock">>}
=============================================================================
