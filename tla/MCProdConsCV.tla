---------------------------- MODULE MCProdConsCV ----------------------------
(* Small instances of ProdConsCV for TLC. *)
EXTENDS ProdConsCV

=============================================================================
