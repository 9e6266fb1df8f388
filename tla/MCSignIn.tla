------------------------------ MODULE MCSignIn ------------------------------
EXTENDS SignIn
CONSTANTS founder, guest
=============================================================================
