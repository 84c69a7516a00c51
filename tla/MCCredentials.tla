--------------------------- MODULE MCCredentials ---------------------------
(* Two workers, as gunicorn runs them, and two passwords. *)
EXTENDS Credentials
=============================================================================
