--------------------------- MODULE HybridRouting ----------------------------
(***************************************************************************)
(* The gateway between an agent and two Serena backends: reads of a C or   *)
(* C++ file go to clangd, everything else to JetBrains.  A call that       *)
(* changes hands is translated, and refused where clangd could not honour  *)
(* it.  Nothing here keeps state, and what is to be shown about it holds   *)
(* for every call, so that it is proved, in BrokerProofs, and not run.     *)
(***************************************************************************)
EXTENDS Integers

CONSTANTS
  Paths,    \* texts an agent may give as relative_path
  Absolute, \* the absolute ones
  Target,   \* the file each of them leads to under the root, links resolved;
            \* outside Regular where there is none
  Regular,  \* regular files under the root
  Native    \* files whose suffix is one of NATIVE_SUFFIXES

ROUTED_TOOLS ==
  [jet_brains_get_symbols_overview     |-> "get_symbols_overview",
   jet_brains_find_symbol              |-> "find_symbol",
   jet_brains_find_referencing_symbols |-> "find_referencing_symbols",
   jet_brains_find_declaration         |-> "find_declaration",
   jet_brains_find_implementations     |-> "find_implementations",
   jet_brains_run_inspections          |-> "get_diagnostics_for_file"]

RoutedTools == DOMAIN ROUTED_TOOLS

\* The severities, named in upper case as they are looked up.
Severities == {"ERROR", "WARNING", "WEAK_WARNING", "INFO"}
DIAGNOSTIC_SEVERITIES ==
  [s \in Severities |-> IF s = "ERROR" THEN 1 ELSE IF s = "WARNING" THEN 2 ELSE 3]

\* A line bound: absent, an integer, or any other value.
Lines == [kind : {"absent", "integer", "other"}, n : Int]

\* The arguments the routing looks at; what is only passed on is left out.  An option
\* that is off and one that is not given are the same.
Arguments ==
  [relative_path : Paths \cup {""},
   include_file_documentation : BOOLEAN,
   search_deps : BOOLEAN,
   inspection_names : BOOLEAN, \* any are given
   min_severity : Severities \cup {"absent", "other"},
   start_line : Lines,
   end_line : Lines]

\* A path that leads nowhere, out of the root or to a directory is not native;
\* what counts is the suffix of the file itself, not that of a link to it.
is_native_relative_file(path) ==
  /\ path \in Paths \ Absolute
  /\ Target[path] \in Regular \cap Native

ValidLine(line) == line.kind = "absent" \/ (line.kind = "integer" /\ line.n >= 1)
MapLine(line, default) == IF line.kind = "absent" THEN default ELSE line.n - 1

MapSeverity(severity) ==
  IF severity = "absent" THEN 4 ELSE DIAGNOSTIC_SEVERITIES[severity]

Unsupported(tool, args) ==
  \/ tool = "jet_brains_get_symbols_overview" /\ args.include_file_documentation
  \/ tool = "jet_brains_find_symbol" /\ args.search_deps
  \/ /\ tool = "jet_brains_run_inspections"
     /\ \/ args.inspection_names
        \/ args.min_severity = "other"
        \/ ~ValidLine(args.start_line)
        \/ ~ValidLine(args.end_line)

MapInspectionArguments(args) ==
  [relative_path |-> args.relative_path,
   min_severity |-> MapSeverity(args.min_severity),
   start_line |-> MapLine(args.start_line, 0),
   end_line |-> MapLine(args.end_line, -1)]

Routed(tool, args) ==
  /\ tool \in RoutedTools
  /\ is_native_relative_file(args.relative_path)

RouteToolCall(tool, args) ==
  IF ~Routed(tool, args) THEN [backend |-> "primary", tool |-> tool, arguments |-> args]
  ELSE IF Unsupported(tool, args) THEN [backend |-> "none", error |-> "unsupported-native-option"]
  ELSE [backend |-> "secondary", tool |-> ROUTED_TOOLS[tool],
        arguments |-> IF tool = "jet_brains_run_inspections" THEN MapInspectionArguments(args)
                      ELSE args]

\* The gateway asks one backend once; it does not fall back to the other one.
CallTool(tool, args, clangd) ==
  LET routed == RouteToolCall(tool, args) IN
  IF routed.backend = "secondary" /\ ~clangd
  THEN [backend |-> "none", error |-> "clangd-unavailable"]
  ELSE routed

-----------------------------------------------------------------------------
(* What an inspection asks for and what clangd is asked for.  A finding    *)
(* has a line, counted from 1, and a severity.                             *)

Findings == [line : Nat \ {0}, severity : Severities]

Rank(severity) ==
  IF severity = "INFO" THEN 4 ELSE DIAGNOSTIC_SEVERITIES[severity]

AskedLine(args, f) ==
  /\ args.start_line.kind = "integer" => f.line >= args.start_line.n
  /\ args.end_line.kind = "integer" => f.line <= args.end_line.n

AskedSeverity(args, f) ==
  args.min_severity \in Severities => Rank(f.severity) <= Rank(args.min_severity)

\* clangd counts lines from 0 and takes -1 for the end of the file; its
\* severities are those of the protocol, 1 to 4, the worst first.
ServedLine(mapped, f) ==
  /\ f.line - 1 >= mapped.start_line
  /\ mapped.end_line # -1 => f.line - 1 <= mapped.end_line

ServedSeverity(mapped, f) ==
  DIAGNOSTIC_SEVERITIES[f.severity] <= mapped.min_severity
=============================================================================
