---- MODULE MCAppActions ----
(* A small instance of the App Center jobs for TLC: one request for each   *)
(* way of reading the result back.                                         *)
EXTENDS AppActions

Ask(source, action, authoritative, versioned) ==
    [source |-> source, action |-> action,
     authoritative |-> authoritative, versioned |-> versioned]

MCRequests ==
    {Ask("entware", "install", FALSE, FALSE), Ask("catalog", "install", FALSE, FALSE),
     Ask("catalog", "update", TRUE, TRUE), Ask("catalog", "remove", FALSE, FALSE)}

MCSyncRequests == {Ask("entware", "install", FALSE, FALSE)}
====
