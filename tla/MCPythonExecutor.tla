-------------------------- MODULE MCPythonExecutor --------------------------
(* Model-checking instances of PythonExecutor.                             *)
EXTENDS PythonExecutor
=============================================================================
