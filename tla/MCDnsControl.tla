---- MODULE MCDnsControl ----
(* One plain resolver, which is a preset, and one DNS-over-TLS resolver whose *)
(* entries have a single slot.                                                *)
EXTENDS DnsControl
====
