---------------------------- MODULE MCAudioPlayer ----------------------------
EXTENDS AudioPlayerRefinement

\* a track of four chunks, the last one short; loops that start beyond the
\* first chunk, that end inside a chunk, at the end of the track and beyond it,
\* with two chunks or more in every pass
MCLoops == { [from |-> 0, to |-> 8, loop |-> 4],
             [from |-> 1, to |-> Npos, loop |-> 5],
             [from |-> 2, to |-> 11, loop |-> 6] }
\* what DSTRACK entries look like: from the start, to the end, and again
WholeTrack == { [from |-> 0, to |-> Npos, loop |-> 0] }
\* for ever, once, and once more
MCTimes == {-1, 0, 1}
=============================================================================
