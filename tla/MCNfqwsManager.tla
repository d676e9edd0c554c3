---- MODULE MCNfqwsManager ----
\* NfqwsManager on a small instance.
EXTENDS NfqwsManager
====
