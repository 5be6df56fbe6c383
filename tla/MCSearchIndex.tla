--------------------------- MODULE MCSearchIndex ---------------------------
EXTENDS SearchIndex

CONSTANTS a, b

\* The title before and after a change of its wording, and a shorter one.
TwoTitles == {{a, b}, {b}}
=============================================================================
