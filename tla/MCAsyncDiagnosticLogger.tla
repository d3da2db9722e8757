----------------------- MODULE MCAsyncDiagnosticLogger -----------------------
(* A small instance of AsyncDiagnosticLogger for TLC. *)
EXTENDS AsyncDiagnosticLogger
=============================================================================
