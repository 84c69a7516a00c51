----------------------------- MODULE MCMessaging -----------------------------
\* The constants of Messaging for TLC; see the two configurations.
EXTENDS Messaging
=============================================================================
