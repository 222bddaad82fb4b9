---- MODULE MCJwksCache ----
(* JwksCache on small sets for TLC. *)
EXTENDS JwksCache
====
