------------------------------- MODULE MCScores -------------------------------
EXTENDS Scores

MCFirst == [people |-> "NO", thumb |-> "a", trusted |-> TRUE]
===============================================================================
