----------------------------- MODULE MCPipeline -----------------------------
(* Reports for model-checking Pipeline. *)
EXTENDS Pipeline

Reported(stages, key, severity) ==
  [stage : stages, key : {key}, severity : {severity}]

\* The parser and the analyzer may report the same error.
MCReports ==
  Reported({"FILE"}, "UNSAFE_PATH", "FATAL")
  \cup Reported({"VALIDATE"}, "FILE_TOO_LARGE", "FATAL")
  \cup Reported({"NORMALIZE"}, "INVALID_ENCODING", "FATAL")
  \cup Reported({"NORMALIZE"}, "LINE_TOO_LONG", "WARNING")
  \cup Reported({"LEX"}, "UNKNOWN_TOKEN", "ERROR")
  \cup Reported({"LEX"}, "UNTERMINATED_STRING", "FATAL")
  \cup Reported({"LAYOUT"}, "BAD_INDENTATION", "ERROR")
  \cup Reported({"PARSE", "SEMANTIC"}, "EXPECTED_EXPRESSION", "ERROR")
  \cup Reported({"SEMANTIC"}, "INFINITE_WHILE_LITERAL", "WARNING")
  \cup Reported({"CONTRACT"}, "UNSUPPORTED_FEATURE", "ERROR")

MCAudited == {"UNSAFE_PATH", "FILE_TOO_LARGE", "INFINITE_WHILE_LITERAL",
              "TOO_MANY_TOKENS", "TOO_MANY_AST_NODES"}
=============================================================================
