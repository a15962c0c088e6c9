-------------------------- MODULE MCDraftSession --------------------------
EXTENDS DraftSession

MCTwoRows == {1, 2}
=============================================================================
