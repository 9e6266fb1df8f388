--------------------------- MODULE MCLeadContacts ---------------------------
EXTENDS LeadContacts, TLC
Numbers == Permutations(Number \ Short)
=============================================================================
