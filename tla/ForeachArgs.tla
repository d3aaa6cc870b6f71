---------------------------- MODULE ForeachArgs -----------------------------
(***************************************************************************)
(* foreach.c: parseArgs.  The command and the values are rewritten in      *)
(* place, in the array the arguments came in, by two runs of one loop with *)
(* a read pointer (argv) and a write pointer (out).  Behind the arguments  *)
(* in memory are a null pointer, the environment and another null pointer. *)
(***************************************************************************)
EXTENDS Integers, Sequences, SequencesExt

CONSTANTS
  MaxWords,   \* bound: words after the options
  MaxEnv,     \* bound: strings of the environment
  MaxChunks   \* bound: pieces that fgets reads of /proc/cpuinfo

NULL   == "NULL"
DD     == "--"
Plus   == "{+}"
MARKER == "MARKER"  \* the address of the marker string, not its text
Word   == {DD, Plus, "word"}
Env    == "NAME=value"

(* What getopt skips: nothing, options, and the "--" that ends them.       *)
Skipped == {<<>>, <<"-J">>, <<DD>>, <<"-J", DD>>}
Chunk   == [processor : BOOLEAN, newline : BOOLEAN]

VARIABLES
  mem,             \* argv, the environment, and their null pointers, from 1
  argv, out,       \* indices into mem
  found,           \* this run of takeArguments has seen the marker
  pc,              \* "command", "values": in takeArguments; "run", "usage"
  command, values, \* opts->command and opts->values, as indices; 0 before
  jobs,            \* opts->jobs
  orig, optind,    \* the input: mem at first, and where getopt stopped
  cpuinfo          \* the input: pieces of the file

input == <<orig, optind, cpuinfo>>
vars  == <<mem, argv, out, found, pc, command, values, jobs, input>>

-----------------------------------------------------------------------------
(* countProcessors: pieces that begin a line are looked at, and counted if *)
(* they do not begin with "processor".                                     *)
LineStarts(file) == {i \in DOMAIN file : i = 1 \/ file[i - 1].newline}
Counted(file) == Cardinality({i \in LineStarts(file) : ~file[i].processor})

CountProcessors(file) == IF Counted(file) = 0 THEN 1 ELSE Counted(file)

(* takeArguments drops a leading "--".  *)
SkipDD(text, i) == IF text[i] = DD THEN i + 1 ELSE i

OutStart(from) == 1

Init ==
  \E skipped \in Skipped, text \in BoundedSeq(Word, MaxWords), env \in 0..MaxEnv :
    /\ optind = 2 + Len(skipped)
    /\ text # <<>> /\ text[1] = DD => DD \in ToSet(skipped)
    /\ orig = <<"foreach">> \o skipped \o text \o <<NULL>> \o [i \in 1..env |-> Env] \o <<NULL>>
    /\ mem = orig
    /\ argv = SkipDD(mem, optind)
    /\ command = OutStart(optind) /\ out = command
    /\ found = FALSE /\ pc = "command" /\ values = 0
    /\ IF "-J" \in ToSet(skipped)
       THEN cpuinfo \in BoundedSeq(Chunk, MaxChunks) /\ jobs = CountProcessors(cpuinfo)
       ELSE cpuinfo = <<>> /\ jobs = 1

(* An argument as it is written back.  *)
Arg ==
  LET w == mem[argv]
  IN CASE pc = "command" /\ w = DD   -> NULL
       [] pc = "command" /\ w = Plus -> MARKER
       [] OTHER -> w

TakeWord ==
  /\ pc \in {"command", "values"} /\ Arg # NULL
  /\ mem' = [mem EXCEPT ![out] = Arg]
  /\ found' = (found \/ Arg = MARKER)
  /\ argv' = argv + 1 /\ out' = out + 1
  /\ UNCHANGED <<pc, command, values, jobs, input>>

(* The end of the first run and the start of the second.  The marker is    *)
(* put last if the user has not put it anywhere.                           *)
Terminator_Always == <<MARKER, NULL>>  \* mutant: found is not looked at
Terminator == IF found THEN <<NULL>> ELSE <<MARKER, NULL>>

EndCommand ==
  /\ pc = "command" /\ Arg = NULL
  /\ mem' = ReplaceAt(IF found THEN mem ELSE ReplaceAt(mem, out + 1, NULL), out, Terminator[1])
  /\ out' = out + Len(Terminator)
  /\ IF mem'[command] = NULL
     THEN pc' = "usage" /\ UNCHANGED <<argv, values>>   \* "no command given"
     ELSE pc' = "values" /\ values' = out' /\ argv' = SkipDD(mem', argv + 1)
  /\ UNCHANGED <<found, command, jobs, input>>

EndValues ==
  /\ pc = "values" /\ Arg = NULL
  /\ mem' = [mem EXCEPT ![out] = NULL]
  /\ argv' = argv + 1 /\ out' = out + 1
  /\ pc' = IF mem'[values] = NULL THEN "usage" ELSE "run"  \* "no values given"
  /\ UNCHANGED <<found, command, values, jobs, input>>

Next == TakeWord \/ EndCommand \/ EndValues
Spec == Init /\ [][Next]_vars

-----------------------------------------------------------------------------
(* Reference: the arguments as the usage message has them (foreach.c:55),  *)
(* <command> <arg>... -- <value> ...                                       *)
FirstOf(list, word, from) ==
  CHOOSE j \in from..Len(list) : list[j] = word /\ \A k \in from..j - 1 : list[k] # word

ListAt(list, i) == SubSeq(list, i, FirstOf(list, NULL, i) - 1)
Given == ListAt(orig, optind)

Separated    == DD \in ToSet(Given)
GivenCommand == IF Separated THEN SubSeq(Given, 1, FirstOf(Given, DD, 1) - 1) ELSE Given
GivenValues  == IF Separated THEN SubSeq(Given, FirstOf(Given, DD, 1) + 1, Len(Given)) ELSE <<>>
WellFormed   == GivenCommand # <<>> /\ GivenValues # <<>> /\ GivenValues[1] # DD

WithMarker(cmd) ==
  IF Plus \in ToSet(cmd) THEN [i \in DOMAIN cmd |-> IF cmd[i] = Plus THEN MARKER ELSE cmd[i]]
                         ELSE Append(cmd, MARKER)

(* "{+} will be substituted by <value>, if no {+} given, <value> will be   *)
(* passed at the end" (foreach.c:65): command and values are those given,  *)
(* and rewriting in place never overwrites an argument before it is read,  *)
(* though the command may come out one longer than it went in.             *)
ParsedAsGiven ==
  /\ pc \in {"run", "usage"} /\ WellFormed =>
       /\ pc = "run"
       /\ ListAt(mem, command) = WithMarker(GivenCommand)
       /\ ListAt(mem, values) = GivenValues
  /\ \A i \in argv..Len(mem) : mem[i] = orig[i]
=============================================================================
