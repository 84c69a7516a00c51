----------------------------- MODULE MCSendLimit -----------------------------
\* The constants of SendLimit for TLC; see the configuration.
EXTENDS SendLimit
=============================================================================
