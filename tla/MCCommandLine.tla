---------------------------- MODULE MCCommandLine ----------------------------
(***************************************************************************)
(* Every vector of up to three arguments of all kinds, those of four or    *)
(* five of the kinds whose order matters, and, for one command, every      *)
(* source of up to SourceBound bytes a line can be made of.                *)
(***************************************************************************)
EXTENDS CommandLine

CONSTANT SourceBound

AllKinds == {"-h", "--help", "--version", "--analyze", "--lower", "--emit", "--no-source-map",
             "-o", "--output", "-", "", "a.vixc", "-x"}
OrderMatters == {"--lower", "--emit", "-o", "a.vixc"}
Unknown == {"-x"}

SequencesUpTo(set, length) == UNION {[1..n -> set] : n \in 0..length}

MCCommands == SequencesUpTo(AllKinds, 3) \cup [1..4 -> OrderMatters \cup {"-h", "-x"}]
                \cup [1..5 -> OrderMatters]

Reading == <<"a.vixc", "--analyze">>

MCInputs(command) ==
  IF command = Reading
  THEN SequencesUpTo({"a", "\t", "\r", "\n"}, SourceBound)
  ELSE {<<"\n">>}

\* A second diagnostic shows what the first leaves behind.
MCMaxDiagnostics(text) == IF Len(text) = 2 THEN 2 ELSE 1

=============================================================================
