---------------------------- MODULE ConfigStore -----------------------------
(***************************************************************************)
(* The configuration table (ep_config.c) and the file it is read from.     *)
(* The table is a function from the keys that have an entry to a typed     *)
(* value: keys are unique and nobody sees the order of the entries.  A     *)
(* line is a record [type, key, value]; its type is "bad" for a line that  *)
(* ep_config_parse_line does not accept, or that is too long.              *)
(***************************************************************************)
EXTENDS Integers, Sequences, FiniteSets

CONSTANT MaxItems            \* EP_CONFIG_MAX_ITEMS

ASSUME ConfigAssumption == MaxItems \in Nat \ {0}

NoEntries == [k \in {} |-> 0]

\* ep_config_prepare_entry: an invalid key, the entry there is, a free one.
Prepare(e, l) == IF l.key = "" THEN "INVAL"
                 ELSE IF l.key \in DOMAIN e \/ Cardinality(DOMAIN e) < MaxItems THEN "OK" ELSE "BUSY"

\* ep_config_set_int, _bool, _string: the type goes with the value.
Put(e, l) == [k \in DOMAIN e \cup {l.key} |->
                 IF k = l.key THEN [type |-> l.type, value |-> l.value] ELSE e[k]]

ParseLine(e, l) == IF l.type = "bad" THEN "INVAL" ELSE Prepare(e, l)

\* Mutant: a bad line is skipped.
ParseContentSkipping(e, lines) ==
    LET after[n \in 0..Len(lines)] ==
          IF n = 0 THEN [rc |-> "OK", entries |-> e]
          ELSE LET s == after[n - 1]
                   rc == ParseLine(s.entries, lines[n])
               IN  IF rc = "OK" THEN [s EXCEPT !.entries = Put(@, lines[n])] ELSE [s EXCEPT !.rc = rc]
    IN  after[Len(lines)]

\* ep_config_parse_content stops at the first line that fails and keeps what
\* the lines before it have set.
ParseContent(e, lines) ==
    LET after[n \in 0..Len(lines)] ==
          IF n = 0 THEN [rc |-> "OK", entries |-> e]
          ELSE LET s == after[n - 1]
                   rc == ParseLine(s.entries, lines[n])
               IN  IF s.rc # "OK" THEN s
                   ELSE IF rc = "OK" THEN [s EXCEPT !.entries = Put(@, lines[n])]
                   ELSE [s EXCEPT !.rc = rc]
    IN  after[Len(lines)]

\* ep_config_load_file: a file is a record [read, lines] with what
\* ep_config_read_file returns; it may be missing, or too large for the buffer.
LoadFile(e, f) == IF f.read # "OK" THEN [rc |-> f.read, entries |-> e]
                  ELSE IF f.lines = <<>> THEN [rc |-> "INVAL", entries |-> e]
                  ELSE ParseContent(e, f.lines)

\* ep_config_get_int: an entry of another type counts for nothing.
GetInt(e, key, default) ==
    IF key \in DOMAIN e /\ e[key].type = "int" THEN e[key].value ELSE default
=============================================================================
