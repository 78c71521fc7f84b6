--------------------------- MODULE MCJournalWatch ---------------------------
\* Two writing threads contend for one row; one operator watches.
EXTENDS JournalWatch
=============================================================================
