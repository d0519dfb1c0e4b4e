------------------------------- MODULE Hermes -------------------------------
(***************************************************************************)
(* The commands around the Hermes corpus: generate_fixtures.py with        *)
(* --regenerate, which builds the corpus in a temporary directory and then *)
(* replaces three things in the output one after the other, or --check,    *)
(* which compares; and verify_fixtures.py.  Nothing keeps two commands     *)
(* apart, nor two revisions of the code that run them, and any command may *)
(* raise or be killed at any point.                                        *)
(***************************************************************************)
EXTENDS HermesCorpus

CONSTANTS Commands, Revisions

ASSUME RevisionsAssumption == Revisions \subseteq Nat \ {0}

VARIABLES
  disk,     \* per item of the output: Gone, Torn or the revision that built it; two
            \* revisions differ in every item
  run       \* per process: its command and where it is

vars == <<disk, run>>

Gone == 0
Torn == -1      \* a directory whose removal has begun

Items == <<"fixtures", "inputs", "summary">>

\* generated_files() without the summary.
TreesOnly == <<"fixtures", "inputs">>

\* generated_files(): what is compared byte for byte.
Compared == Items

Whole(r) == \A i \in DOMAIN Items : disk[Items[i]] = r

Run(kind, rev, at, n, same, alone) ==
  [kind |-> kind, rev |-> rev, at |-> at, n |-> n, same |-> same, alone |-> alone]

Over == {"ready", "ok", "differs", "raised"}

Active(c) == run[c].at \notin Over

Init ==
  /\ disk \in {[i \in {"fixtures", "inputs", "summary"} |-> r] : r \in {Gone} \cup Revisions}
  /\ run = [c \in Commands |-> Run("none", 1, "ready", 0, TRUE, TRUE)]
-----------------------------------------------------------------------------
\* A process starts; whoever is at work is no longer alone.
Start(c, kind, rev) ==
  /\ ~Active(c)
  /\ LET others == {d \in Commands \ {c} : Active(d)} IN
     run' = [d \in Commands |->
               IF d = c THEN Run(kind, rev, IF kind = "validate" THEN "inputs" ELSE "build", 1,
                                 TRUE, others = {})
               ELSE IF d \in others THEN [run[d] EXCEPT !.alone = FALSE] ELSE run[d]]
  /\ UNCHANGED disk

Goes(c, at, n) == run' = [run EXCEPT ![c].at = at, ![c].n = n]

\* build_tree(), scenario by scenario in a directory of its own.
Build(c) ==
  LET last == run[c].n + 1 \notin Scenarios IN
  /\ run[c].at = "build"
  /\ Goes(c, IF ~last THEN "build" ELSE IF run[c].kind = "regenerate" THEN "remove" ELSE "compare",
          IF last THEN 1 ELSE run[c].n + 1)
  /\ UNCHANGED disk

Item(c) == Items[run[c].n]

IsTree(item) == item # "summary"

\* install_generated(): what is there goes first, a tree file by file.
Remove(c) ==
  /\ run[c].at = "remove"
  /\ IF IsTree(Item(c)) /\ disk[Item(c)] # Gone
     THEN Goes(c, "removing", run[c].n) /\ disk' = [disk EXCEPT ![Item(c)] = Torn]
     ELSE Goes(c, "replace", run[c].n) /\ disk' = [disk EXCEPT ![Item(c)] = Gone]

Removed(c) ==
  /\ run[c].at = "removing" /\ disk[Item(c)] = Torn
  /\ Goes(c, "replace", run[c].n) /\ disk' = [disk EXCEPT ![Item(c)] = Gone]

\* os.replace() of a tree needs nothing there, or an empty directory.
Replace(c) ==
  /\ run[c].at = "replace"
  /\ IsTree(Item(c)) => disk[Item(c)] \in {Gone, Torn}
  /\ disk' = [disk EXCEPT ![Item(c)] = run[c].rev]
  /\ IF run[c].n < Len(Items) THEN Goes(c, "remove", run[c].n + 1) ELSE Goes(c, "ok", 0)

\* What is there is compared with what this revision generates.
Compare(c) ==
  LET same == run[c].same /\ disk[Compared[run[c].n]] = run[c].rev
      last == run[c].n = Len(Compared)
  IN
  /\ run[c].at = "compare"
  /\ run' = [run EXCEPT ![c].same = same, ![c].n = IF last THEN 0 ELSE @ + 1,
                        ![c].at = IF ~last THEN @ ELSE IF same THEN "ok" ELSE "differs"]
  /\ UNCHANGED disk

\* validate(): a requirement on what is read that the revision's own output
\* meets if "holds", and another revision's output may meet.
Requires(c, read, holds, at, n) ==
  /\ \/ /\ read = {run[c].rev} => holds
        /\ read \cap {Gone} = {}
        /\ Goes(c, at, n)
     \/ ~(read = {run[c].rev} /\ holds) /\ Goes(c, "differs", 0)
  /\ UNCHANGED disk

ReadInputs(c) ==
  run[c].at = "inputs" /\ Requires(c, {disk["fixtures"], disk["inputs"]}, TRUE, "scenarios", 1)

Corpus == [n \in Scenarios |-> Valid(n, Artifacts(n))]

ReadScenario(c) ==
  LET n == run[c].n IN
  /\ run[c].at = "scenarios"
  /\ Requires(c, {disk["fixtures"]}, Corpus[n],
              IF n + 1 \in Scenarios THEN "scenarios" ELSE "summary", n + 1)

\* build_summary(): the summary holds a digest of every file of the fixtures.
SummaryTells == disk["summary"] # Gone /\ disk["summary"] = disk["fixtures"]

\* The summary says what is in the fixtures; then everything is built anew.
ReadSummary(c) ==
  /\ run[c].at = "summary"
  /\ IF SummaryTells THEN Goes(c, "build", 1)
     ELSE Goes(c, "differs", 0)
  /\ UNCHANGED disk

\* Files that vanish, a tree in the way, another file system, a kill.
Raise(c) == Active(c) /\ Goes(c, "raised", 0) /\ UNCHANGED disk

Step(c) ==
  \/ \E kind \in {"regenerate", "check", "validate"}, rev \in Revisions : Start(c, kind, rev)
  \/ Build(c) \/ Remove(c) \/ Removed(c) \/ Replace(c) \/ Compare(c)
  \/ ReadInputs(c) \/ ReadScenario(c) \/ ReadSummary(c) \/ Raise(c)

Next == \E c \in Commands : Step(c)

Spec == Init /\ [][Next]_vars
-----------------------------------------------------------------------------
\* Safety.  Every scenario that was built tells its facts.
FixturesTellFacts ==
  \A c \in Commands : run[c].at = "build" =>
    TellsFacts(run[c].n)

\* Action property.  A command that nothing ran beside tells the truth about
\* the whole output, whatever crashes and races came before it: a regeneration
\* that returns leaves exactly its own corpus, and a check or a validation
\* accepts that corpus and no other, so that any mixture of items is noticed.
VerdictTellsDisk ==
  [][\A c \in Commands :
       (run[c].alone /\ Active(c) /\ ~Active(c)') =>
         /\ run'[c].at = "ok" => Whole(run[c].rev)'
         /\ run'[c].at = "differs" => ~Whole(run[c].rev)]_vars
=============================================================================
