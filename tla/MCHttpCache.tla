---------------------------- MODULE MCHttpCache ----------------------------
EXTENDS HttpCache

CONSTANTS w1, w2, gui, cli, feed, header

WorkerSet == {w1, w2}
ProcessSet == {gui, cli}
Processes == [w \in WorkerSet |-> IF w = w1 THEN gui ELSE cli]
KeySet == {feed, header}
FeedSet == {feed}
=============================================================================
