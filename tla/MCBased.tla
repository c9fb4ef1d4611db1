------------------------------ MODULE MCBased ------------------------------
EXTENDS BasedSequencer

\* Nothing, or two valid ones around one the filter removes.
MCPosts == {<<>>, <<TRUE, FALSE, TRUE>>}
=============================================================================
