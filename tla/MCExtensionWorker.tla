------------------------- MODULE MCExtensionWorker -------------------------
(* ExtensionWorker for TLC: two runs of the extension's modules.            *)
EXTENDS ExtensionWorker

CONSTANTS r1, r2

=============================================================================
