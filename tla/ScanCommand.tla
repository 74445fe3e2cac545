---------------------------- MODULE ScanCommand ----------------------------
(***************************************************************************)
(* `aichu scan` (crates/cli/src/scan.rs): reads a text, runs the Detector  *)
(* on it, and reports a line per finding and an exit code.  Columns and    *)
(* lengths are counted in tokens.                                          *)
(***************************************************************************)
EXTENDS Detector

CONSTANTS
  AnyCase,   \* the kinds that are matched in any case (rules.rs)
  TypeSlug   \* SecretKind::type_slug

ASSUME ScanAssumption ==
  /\ AnyCase \subseteq Kind /\ DOMAIN TypeSlug = Kind
  /\ \A j, k \in Kind : TypeSlug[j] = TypeSlug[k] => j = k

PM == INSTANCE PlaceholderMap WITH Text <- Seq(Token)

VARIABLES
  stage,  \* "reading", "scanning", "reporting", "exited"
  map,    \* the placeholders of this report
  lines,  \* the lines of the report
  exit    \* the exit code

scanVars == <<stage, map, lines, exit>>

ScanInit ==
  /\ Init
  /\ stage = "reading" /\ map = PM!EmptyMap /\ lines = << >> /\ exit = 0

\* A source that cannot be read, or is not UTF-8, is no clean one.
ReadScanInput ==
  /\ stage = "reading"
  /\ \/ stage' = "scanning" /\ UNCHANGED exit
     \/ stage' = "exited" /\ exit' = 1
  /\ UNCHANGED <<vars, map, lines>>

Scanning ==
  /\ stage = "scanning" /\ Next
  /\ UNCHANGED scanVars

StartReport ==
  /\ stage = "scanning" /\ pc = "done"
  /\ stage' = "reporting"
  /\ UNCHANGED <<vars, map, lines, exit>>

Newlines(n) == {j \in 1 .. n : input.text[j] = "newline"}

\* Mutation: the column is the offset.
OffsetAsColumn(offset) == [line |-> Cardinality(Newlines(offset)) + 1, col |-> offset + 1]

\* Both count from 1; the column from the last newline.
LineCol(offset) ==
  [line |-> Cardinality(Newlines(offset)) + 1,
   col  |-> offset - Max(Newlines(offset) \cup {0}) + 1]

TextOf(f) == SubSeq(input.text, f.start + 1, f.end)

ReportFinding ==
  /\ stage = "reporting" /\ Len(lines) < Len(out)
  /\ LET f == out[Len(lines) + 1]
     IN  /\ lines' = Append(lines, [kind |-> f.kind, at |-> LineCol(f.start),
                                    len |-> Len(TextOf(f)),
                                    placeholder |-> PM!PlaceholderFor(map, f.kind, TextOf(f))])
         /\ map' = PM!AfterPlaceholderFor(map, f.kind, TextOf(f))
  /\ UNCHANGED <<vars, stage, exit>>

EXIT_SECRETS_FOUND == 2

ExitWithVerdict ==
  /\ stage = "reporting" /\ Len(lines) = Len(out)
  /\ stage' = "exited"
  /\ exit' = IF lines # << >> THEN EXIT_SECRETS_FOUND ELSE 0
  /\ UNCHANGED <<vars, map, lines>>

ScanNext ==
  \/ ReadScanInput
  \/ Scanning
  \/ StartReport
  \/ ReportFinding
  \/ ExitWithVerdict

ScanSpec == ScanInit /\ [][ScanNext]_<<vars, scanVars>>

-----------------------------------------------------------------------------
\* scan.rs:24-29, detector.rs:5-9.  Exit code 0 says that the proxy would
\* find nothing to redact: no match of any kind is lost on the way through
\* keyword filter, entropy gate, walker and resolution.  Only a match whose
\* identifier is spelled in an unusual case can be, when the text has no
\* keyword at all (rules.rs:129-133).
CleanMeansNoMatch ==
  stage = "exited" /\ exit = 0 =>
    /\ \A k \in Kind \ {Gcp} : \A m \in input.matches[k] :
         PassesGate(k, m) => k \in AnyCase /\ ~ input.keyword
    /\ \A a, b \in 1 .. Walked(input.text) :
         Partners(input.text, a, b) =>
           \A m \in a + 1 .. b - 1 :
             input.text[m] = "marker" /\ m \notin Quoted(input.text) =>
               Depth(input.text, a, m) # 1

\* The text at a position of the report.
Offset(at) ==
  CHOOSE n \in 0 .. Len(input.text) :
    \E start \in Newlines(Len(input.text)) \cup {0} :
      /\ Cardinality(Newlines(start)) = at.line - 1
      /\ n = start + at.col - 1

\* scan.rs:131-187.  Whoever follows the report finds each secret at the line
\* and column it names, and two lines carry the same placeholder exactly when
\* the proxy would give the two the same one.
ReportLocates ==
  \A j \in 1 .. Len(lines) :
    /\ Offset(lines[j].at) = out[j].start /\ lines[j].len = Length(out[j])
    /\ \A k \in 1 .. Len(lines) :
         lines[j].placeholder = lines[k].placeholder
           <=> out[j].kind = out[k].kind /\ TextOf(out[j]) = TextOf(out[k])

=============================================================================
