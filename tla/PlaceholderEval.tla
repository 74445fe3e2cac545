--------------------------- MODULE PlaceholderEval ---------------------------
(***************************************************************************)
(* The placeholder evaluation (experiments/e03-placeholder-eval): asks a   *)
(* model about every fixture in every placeholder format, each call paid   *)
(* for, and rewrites one file of results after each.  Runs follow each     *)
(* other with the same file, and may be killed anywhere.                   *)
(***************************************************************************)
EXTENDS EvalFixtures, FiniteSets, Functions

CONSTANTS
  Directory,  \* what --prompts may hold: functions from names to files
  FormatArg,  \* values of --formats, as sequences; a format may be unknown
  MaxRun      \* bound: runs started

\* Names are numbers, which have the order of the names; a secret is one word
\* or none.
ASSUME EvalAssumption ==
  /\ \A dir \in Directory :
       /\ DOMAIN dir \subseteq Nat /\ IsFiniteSet(DOMAIN dir)
       /\ \A name \in DOMAIN dir :
            /\ dir[name] \in Seq(Line)
            /\ \A j \in 1 .. Len(dir[name]) :
                 dir[name][j].tag = "SECRET_TEXT=" => Len(dir[name][j].words) <= 1
  /\ FormatArg \subseteq Seq(STRING) /\ << >> \notin FormatArg

VARIABLES
  runs,      \* runs started
  pc,        \* "idle", "asking", "opening" or "writing" the file
  fixtures,  \* the fixtures of this run, in the order in which they are asked
  formats,   \* its formats
  results,   \* the records it holds in memory
  file,      \* the results file
  outcome,   \* of the last run: "none", "running", "ok", "failed", "killed"
  paid       \* history: answers this run has been sent

vars == <<runs, pc, fixtures, formats, results, file, outcome, paid>>

\* The file: there is none, or it is cut short, or an array of records.
Absent == [whole |-> TRUE, records |-> << >>]
Cut == [whole |-> FALSE, records |-> << >>]
Array(records) == [whole |-> TRUE, records |-> records]

Init ==
  /\ runs = 0 /\ pc = "idle"
  /\ fixtures = << >> /\ formats = << >> /\ results = << >>
  /\ file = Absent
  /\ outcome = "none" /\ paid = 0

End(how) ==
  /\ pc' = "idle" /\ outcome' = how
  /\ fixtures' = << >> /\ formats' = << >> /\ results' = << >>

-----------------------------------------------------------------------------
KnownFormats(arg) == ToSet(arg) \subseteq ToSet(Formats)

\* read_dir yields the files in any order.
Listings(dir) == {s \in [1 .. Cardinality(DOMAIN dir) -> DOMAIN dir] : IsInjective(s)}

Ascending(s) == \A j, k \in DOMAIN s : j < k => s[j] < s[k]

\* out.sort_by(name)
ByName(listing) == CHOOSE s \in [DOMAIN listing -> ToSet(listing)] : Ascending(s)

\* main: whatever is wrong with the arguments, the fixtures or the key stops
\* the run before it asks anything.
Start ==
  /\ pc = "idle" /\ runs < MaxRun
  /\ runs' = runs + 1 /\ paid' = 0
  /\ \E dir \in Directory, arg \in FormatArg, ready \in BOOLEAN :
       IF /\ KnownFormats(arg) /\ ready
          /\ DOMAIN dir # {} /\ \A name \in DOMAIN dir : ~ Malformed(dir[name])
       THEN \E listing \in Listings(dir) :
              /\ fixtures' = [j \in DOMAIN listing |->
                   ParseFixture(ByName(listing)[j], dir[ByName(listing)[j]])]
              /\ formats' = arg /\ results' = << >>
              /\ pc' = "asking" /\ outcome' = "running"
       ELSE End("failed")
  /\ UNCHANGED file

\* The cell whose turn it is: formats in the inner loop.
FixtureNo(k) == ((k - 1) \div Len(formats)) + 1
FormatNo(k) == ((k - 1) % Len(formats)) + 1
CellCount == Len(fixtures) * Len(formats)
Current == Len(results) + 1

PlaceholderOf(k) ==
  Render(formats[FormatNo(k)], fixtures[FixtureNo(k)].secret_type, FixtureNo(k))

Prompt(k) ==
  LET f == fixtures[FixtureNo(k)] IN Replaced(f.text, f.secret_text, PlaceholderOf(k))

\* evaluate's own check: without it the substitution would be a no-op.
Substitutable(k) ==
  LET f == fixtures[FixtureNo(k)] IN TextContains(f.text, f.secret_text)

\* The model repeats the prompt, blacks something out, or says something else.
Replies(k) == {Prompt(k), <<Render("redacted", << >>, 0)>>, << >>}

Record(k, reply) ==
  [run |-> runs, fixture |-> fixtures[FixtureNo(k)].name, format |-> formats[FormatNo(k)],
   placeholder |-> PlaceholderOf(k), preserved |-> PlaceholderOf(k) \in ToSet(reply)]

\* evaluate, with an answer of the model.
Evaluate ==
  /\ pc = "asking" /\ Substitutable(Current)
  /\ \E reply \in Replies(Current) : results' = Append(results, Record(Current, reply))
  /\ pc' = "opening" /\ paid' = paid + 1
  /\ UNCHANGED <<runs, fixtures, formats, file, outcome>>

\* excerpt.truncate(200) panics when byte 200 is inside a character; an
\* answer that is not the JSON expected ends the run, too.
EvaluateFails ==
  /\ pc = "asking" /\ Substitutable(Current)
  /\ End("failed") /\ paid' = paid + 1
  /\ UNCHANGED <<runs, file>>

\* The call fails, or the provider replies with an error status; and where the
\* substitution would be a no-op, evaluate bails out before the call.
CompleteFails ==
  /\ pc = "asking"
  /\ End("failed")
  /\ UNCHANGED <<runs, file, paid>>

\* Mutation: the file is written when all formats of a fixture are done.
OpenPerFixture ==
  /\ pc = "opening"
  /\ IF Len(results) % Len(formats) = 0
     THEN file' = Cut /\ pc' = "writing" ELSE pc' = "asking" /\ UNCHANGED file
  /\ UNCHANGED <<runs, fixtures, formats, results, outcome, paid>>

\* fs::write: the file is created, or truncated ...
OpenFile ==
  /\ pc = "opening"
  /\ file' = Cut
  /\ pc' = "writing"
  /\ UNCHANGED <<runs, fixtures, formats, results, outcome, paid>>

\* ... and written; after the last cell the run is over.
WriteFile ==
  /\ pc = "writing"
  /\ file' = Array(results)
  /\ IF Len(results) = CellCount THEN End("ok")
     ELSE pc' = "asking" /\ UNCHANGED <<fixtures, formats, results, outcome>>
  /\ UNCHANGED <<runs, paid>>

\* An I/O error, on either of the two.
WriteFails ==
  /\ pc \in {"opening", "writing"}
  /\ End("failed")
  /\ UNCHANGED <<runs, file, paid>>

Kill ==
  /\ pc # "idle"
  /\ End("killed")
  /\ UNCHANGED <<runs, file, paid>>

Next ==
  \/ Start
  \/ Evaluate \/ EvaluateFails \/ CompleteFails
  \/ OpenFile \/ WriteFile \/ WriteFails
  \/ Kill

Spec == Init /\ [][Next]_vars

-----------------------------------------------------------------------------
\* lib.rs:84-90, fixtures.rs:82-87: a run that has begun never comes to a cell
\* that evaluate refuses, which would end it behind answers already paid for,
\* whatever stands above and in the body of the files that main lets through,
\* an empty secret included.  And what is paid for says something about its
\* format: the model is shown the placeholder, in the place of every occurrence
\* of the secret.
EveryCellMeasures ==
  pc = "asking" =>
    /\ Substitutable(Current)
    /\ PlaceholderOf(Current) \in ToSet(Prompt(Current))
    /\ ToSet(fixtures[FixtureNo(Current)].secret_text) \cap ToSet(Prompt(Current)) = {}

\* Records in the order of the cells: for each fixture, by name and numbered
\* in that order, all n formats, in the same order; a format may be repeated.
InCellOrder(s) ==
  \E n \in 1 .. Len(s) : \A j, k \in 1 .. Len(s) :
    /\ s[j].fixture < s[k].fixture <=> (j - 1) \div n < (k - 1) \div n
    /\ j % n = k % n => s[j].format = s[k].format
    /\ s[j].placeholder[3] # 0 /\ s[k].placeholder[3] # 0 =>
         (s[j].fixture < s[k].fixture <=> s[j].placeholder[3] < s[k].placeholder[3])

\* lib.rs:119-126: wherever a run is killed or fails, the file holds all it has
\* paid for but one answer, from the first cell on, and after a run that ended
\* well all of it.  Two exceptions: killed or failed inside the write, nothing
\* is left of any run; and until the first answer is written the file is what
\* an earlier run left, which the comment says it is not.
ResultsKept ==
  /\ ~ file.whole => pc = "writing" \/ outcome \in {"failed", "killed"} \/ paid <= 1
  /\ file.whole /\ file.records # << >> =>
       /\ \A j, k \in 1 .. Len(file.records) : file.records[j].run = file.records[k].run
       /\ InCellOrder(file.records)
  /\ file.whole =>
       paid <= 1 + Cardinality({k \in 1 .. Len(file.records) : file.records[k].run = runs})
  /\ outcome = "ok" => file.whole /\ Len(file.records) = paid

=============================================================================
