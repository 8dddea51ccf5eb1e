----------------------------- MODULE MCFrontend -----------------------------
EXTENDS Frontend
=============================================================================
