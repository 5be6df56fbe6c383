-------------------------- MODULE MCSearchService --------------------------
EXTENDS SearchService

CONSTANTS q, a, b

\* One query that all titles match; provider and index rank them alike.
AllMatch == [query \in {q} |-> Title]
Alphabetical == <<a, b>>
=============================================================================
