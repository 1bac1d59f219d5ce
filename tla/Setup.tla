-------------------------------- MODULE Setup --------------------------------
(***************************************************************************)
(* How the C programs get from the command line to the sizes their threads *)
(* run with: parse_args() and usage() of rq_bench.hpp, BENCH_OPT_PARSE,    *)
(* and the beginning of main() in each benchmark.  Cforall's own           *)
(* parse_args is taken to be the one of rq_bench.hpp.                      *)
(*                                                                         *)
(* getopt_long is external: it hands out one option of the table with its  *)
(* argument after the other, in any order, asks for help, or complains.    *)
(* An argument is what strtoull, strtod and strcmp can tell of it.         *)
(***************************************************************************)
EXTENDS Integers, FiniteSets, FiniteSetsExt

CONSTANTS
  UMax, LMax,   \* UINT_MAX, ULLONG_MAX
  MaxArgs,      \* bound on the options that are read
  Cpus,         \* the processors of the machine
  HelpLen,      \* characters of the longest help text
  Columns,      \* the widths a terminal may report; NoSize when the ioctl fails
  NoSize

ASSUME Widths == /\ UMax \in Nat /\ LMax \in Nat /\ 2 <= UMax /\ UMax < LMax
                 /\ MaxArgs \in Nat /\ HelpLen \in Nat \ {0}
                 /\ Cpus \subseteq Nat /\ IsFiniteSet(Cpus) /\ Cpus # {}
ASSUME Screens == NoSize \notin Nat /\ Columns \ {NoSize} \subseteq Nat

VARIABLES
  bench, lang,         \* the program; cpp also where the one in Cforall does the same
  stage,               \* how far main() has come
  status,              \* the exit status that usage() will give
  nargs, given, val,   \* options read, the last argument and the value of each
  clock_mode,
  columns, left,       \* printopt(): the width of the terminal, characters left to print
  size,                \* what main() computes from the options
  allowed, cpus, extras   \* the affinity mask: before, now, processors to clear

parsed == <<nargs, given, val>>
help == <<columns, left>>
mask == <<allowed, cpus, extras>>
vars == <<bench, lang, stage, status, parsed, clock_mode, help, size, mask>>
-----------------------------------------------------------------------------
(* Option tables and arguments *)

Own == [yield |-> {}, cycle |-> {"ringsize"}, churn |-> {"spots"},
        locality |-> {"nspots", "worksize", "workcnt", "share"}, transfer |-> {"exhaust"}]

Options == {"duration", "iterations", "nthreads", "nprocs"} \cup Own[bench]
Switches == {"share", "exhaust"}
Unsigned == Options \ ({"duration", "iterations"} \cup Switches)

\* Durations count in half seconds.
Default(o) ==
  CASE o = "duration" -> -2
    [] o = "iterations" -> 0
    [] o \in Switches -> FALSE
    [] o = "nprocs" /\ bench = "transfer" -> 2
    [] o \in {"nthreads", "nprocs"} -> 1
    [] o = "nspots" -> 0
    [] OTHER -> 2

\* An argument: the number it starts with, in halves; whether more follows; the word it
\* is; whether an '=' comes first.  An empty argument reads as 0 with nothing following.
Number(h, tail, eq) == [halves |-> h, tail |-> tail, word |-> "", eq |-> eq]
Word(w) == [halves |-> 0, tail |-> TRUE, word |-> w, eq |-> FALSE]
Numbers ==
  {Number(h, FALSE, FALSE) :
      h \in {-2 * LMax, -2, 0, 1, 2, 2 * UMax, 2 * UMax + 2, 2 * LMax + 2}}
    \cup {Number(2, TRUE, FALSE), Number(4, FALSE, TRUE)}
Words == {Word(w) : w \in {"yes", "no", "true", "false"}}

\* What getopt_long may return for option o: every option takes an argument.
Arguments(o) == IF o \in Switches THEN Words ELSE Numbers

Absent == Word("absent")

\* strtoull(): saturates, and negates in unsigned arithmetic.
Strtoull(x) ==
  LET m == (IF x.halves < 0 THEN -x.halves ELSE x.halves) \div 2
  IN IF m > LMax THEN LMax
     ELSE IF x.halves < 0 THEN (LMax + 1 - m) % (LMax + 1) ELSE m

Junk(x) == x.tail \/ x.eq
Whole(x) == ~Junk(x) /\ x.halves % 2 = 0

\* The parse functions: no value is a refusal.  Mutants of ParseUnsigned: no test against
\* UINT_MAX, before a value that is truncated or one that is not.
ParseTruncates(x) == IF Whole(x) THEN {Strtoull(x) % (UMax + 1)} ELSE {}
ParseUnchecked(x) == IF Whole(x) THEN {Strtoull(x)} ELSE {}
ParseUnsigned(x) == IF Whole(x) THEN {Strtoull(x)} \cap 0..UMax ELSE {}
ParseUll(x) == IF Whole(x) THEN {Strtoull(x)} ELSE {}
ParseDouble(x) == IF Junk(x) THEN {} ELSE {x.halves}
ParseYesNo(x) == {v \in BOOLEAN : x.word = (IF v THEN "yes" ELSE "no")}
ParseTrueFalse(x) == {v \in BOOLEAN : x.word = (IF v THEN "true" ELSE "false")}

Parse(o, x) ==
  CASE o = "duration" -> ParseDouble(x)
    [] o = "iterations" -> ParseUll(x)
    [] o = "share" -> ParseTrueFalse(x)
    [] o = "exhaust" -> ParseYesNo(x)
    [] OTHER -> ParseUnsigned(x)

NoSizes == [threads |-> 0, spots |-> 0, left |-> 0]

Init ==
  /\ bench \in DOMAIN Own
  /\ lang \in {"cpp"} \cup (IF bench \in {"cycle", "locality"} THEN {"cc"} ELSE {})
                      \cup (IF bench = "locality" THEN {"cfa"} ELSE {})
  /\ stage = "parse" /\ status = 0 /\ nargs = 0
  /\ given = [o \in Options |-> Absent]
  /\ val = [o \in Options |-> Default(o)]
  /\ clock_mode = FALSE
  /\ columns = 0 /\ left = 0
  /\ size = NoSizes
  /\ allowed = Cpus /\ cpus = Cpus /\ extras = 0
-----------------------------------------------------------------------------
(* parse_args() and usage() *)

NameWidth == 10   \* strlen("iterations"), the longest option name

\* Mutant of LineWidth: a line without room for help is not made the whole width.
LineWidthLoose(max) == IF max - (11 + NameWidth) < 0 THEN max ELSE max - (11 + NameWidth)

\* hwidth of printopt(): the characters of help that go on a line.
LineWidth(max) == IF max - (11 + NameWidth) <= 0 THEN max ELSE max - (11 + NameWidth)

\* usage() asks the terminal for its size, if the output is one.
Usage(code) ==
  /\ \E max \in Columns :
       IF max = NoSize THEN stage' = "abort" /\ UNCHANGED help
       ELSE stage' = "usage" /\ left' = HelpLen /\ columns' = max
  /\ status' = code
  /\ UNCHANGED <<bench, lang, clock_mode, size, mask>>

\* An option is read and its variable set, or the program ends.
Option ==
  /\ stage = "parse" /\ nargs < MaxArgs
  /\ \E o \in Options : \E x \in Arguments(o) :
       LET r == Parse(o, [x EXCEPT !.eq = FALSE]) IN
       \/ r = {} /\ Usage(1) /\ UNCHANGED parsed
       \/ \E v \in r :
            /\ nargs' = nargs + 1
            /\ val' = [val EXCEPT ![o] = v]
            /\ given' = [given EXCEPT ![o] = x]
            /\ UNCHANGED <<bench, lang, stage, status, clock_mode, help, size, mask>>

\* -h or --help; an option that is none, or lacks its argument.
Help == stage = "parse" /\ Usage(0) /\ UNCHANGED parsed
Unknown == stage = "parse" /\ Usage(1) /\ UNCHANGED parsed

\* printopt(): one line of help.  The longest text stands for all.
PrintHelp ==
  /\ stage = "usage"
  /\ left' = left - Min({left, LineWidth(columns)})
  /\ stage' = IF left' = 0 THEN "exit" ELSE stage
  /\ UNCHANGED <<bench, lang, status, parsed, clock_mode, columns, size, mask>>

NoMoreArgs ==
  /\ stage = "parse"
  /\ stage' = "decide"
  /\ UNCHANGED <<bench, lang, status, parsed, clock_mode, help, size, mask>>
-----------------------------------------------------------------------------
(* BENCH_OPT_PARSE *)

\* Mutant of Decide: --iterations goes before --duration.
DecideIterationsFirst ==
  /\ stage = "decide"
  /\ clock_mode' = (val["iterations"] = 0)
  /\ stage' = "sizes"
  /\ UNCHANGED <<bench, lang, status, parsed, help, size, mask>>

\* The run is timed, counts iterations, is asked for both, or lasts five seconds.
Decide ==
  /\ stage = "decide"
  /\ \/ /\ val["duration"] > 0 /\ val["iterations"] > 0
        /\ Usage(1) /\ UNCHANGED parsed
     \/ /\ val["duration"] <= 0 \/ val["iterations"] = 0
        /\ clock_mode' = (val["duration"] > 0 \/ val["iterations"] = 0)
        /\ val' = IF val["duration"] > 0 THEN [val EXCEPT !["iterations"] = LMax]
                  ELSE IF val["iterations"] = 0 THEN [val EXCEPT !["duration"] = 10]
                  ELSE val
        /\ stage' = "sizes"
        /\ UNCHANGED <<bench, lang, status, nargs, given, help, size, mask>>
-----------------------------------------------------------------------------
(* The beginning of main() *)

Wrap(n) == n % (UMax + 1)

\* nspots, which is nthreads - nprocs by default.
Spots ==
  IF val["nspots"] = 0 THEN Wrap(val["nthreads"] - val["nprocs"]) ELSE val["nspots"]

\* What each main() computes: threads, spots, and what threads_left starts at.
Threads ==
  IF bench = "cycle" THEN Wrap(val["nthreads"] * val["ringsize"]) ELSE val["nthreads"]
Sizes ==
  CASE bench = "locality" ->
         [threads |-> Threads, spots |-> Spots,
          left |-> IF lang = "cfa" THEN val["nprocs"] ELSE Wrap(Threads - Spots)]
    [] bench = "churn" -> [threads |-> Threads, spots |-> val["spots"], left |-> Threads]
    [] OTHER -> [threads |-> Threads, spots |-> 0, left |-> Threads]

\* What main() refuses to run with.
Refused ==
  \/ bench = "transfer" /\ (clock_mode \/ val["nprocs"] < 2)
  \/ bench = "locality" /\ lang = "cfa" /\ Spots = 0

\* The first leader is a number % nthreads.
DividesByZero == bench = "transfer" /\ val["nthreads"] = 0

Prepare ==
  /\ stage = "sizes"
  /\ \/ Refused /\ stage' = "exit" /\ status' = 1 /\ UNCHANGED size
     \/ ~Refused /\ DividesByZero /\ stage' = "crash" /\ UNCHANGED <<status, size>>
     \/ /\ ~Refused /\ ~DividesByZero
        /\ size' = Sizes
        /\ stage' = IF lang = "cc" THEN "getaffinity" ELSE "run"
        /\ UNCHANGED status
  /\ UNCHANGED <<bench, lang, parsed, clock_mode, help, mask>>

\* Mutant of GetAffinity: one processor too many is cleared.
GetAffinityOffByOne ==
  /\ stage = "getaffinity"
  /\ allowed' \in SUBSET Cpus \ {{}} /\ cpus' = allowed'
  /\ extras' = IF Cardinality(cpus') >= val["nprocs"]
               THEN Cardinality(cpus') - val["nprocs"] + 1 ELSE 0
  /\ stage' = "clear"
  /\ UNCHANGED <<bench, lang, status, parsed, clock_mode, help, size>>

\* The pthread programs keep nprocs of the processors they may use ...
GetAffinity ==
  /\ stage = "getaffinity"
  /\ allowed' \in SUBSET Cpus \ {{}} /\ cpus' = allowed'
  /\ extras' = IF Cardinality(cpus') > val["nprocs"]
               THEN Cardinality(cpus') - val["nprocs"] ELSE 0
  /\ stage' = "clear"
  /\ UNCHANGED <<bench, lang, status, parsed, clock_mode, help, size>>

\* ... by clearing them from the lowest up ...
ClearCpu ==
  /\ stage = "clear" /\ extras > 0 /\ cpus # {}
  /\ cpus' = cpus \ {Min(cpus)} /\ extras' = extras - 1
  /\ UNCHANGED <<bench, lang, stage, status, parsed, clock_mode, help, size, allowed>>

\* ... and abort when the system takes no empty set.
SetAffinity ==
  /\ stage = "clear" /\ (extras = 0 \/ cpus = {})
  /\ stage' = IF cpus = {} THEN "abort" ELSE "run"
  /\ UNCHANGED <<bench, lang, status, parsed, clock_mode, help, size, mask>>

\* So they do when it does not tell which processors there are, or refuses the others.
AffinityRefused ==
  /\ \/ stage = "getaffinity"
     \/ stage = "clear" /\ extras = 0 /\ cpus # allowed
  /\ stage' = "abort"
  /\ UNCHANGED <<bench, lang, status, parsed, clock_mode, help, size, mask>>

Step ==
  \/ Option \/ Help \/ Unknown \/ PrintHelp \/ NoMoreArgs
  \/ Decide \/ Prepare \/ GetAffinity \/ ClearCpu \/ SetAffinity
  \/ AffinityRefused

Over == {"run", "exit", "abort", "crash"}

Ended == stage \in Over /\ UNCHANGED vars

Next == Step \/ Ended

Spec == Init /\ [][Next]_vars /\ WF_vars(Step)
-----------------------------------------------------------------------------
Values(o) ==
  CASE o = "duration" -> Int
    [] o = "iterations" -> 0..LMax
    [] o \in Switches -> BOOLEAN
    [] OTHER -> 0..UMax

TypeOK ==
  /\ bench \in DOMAIN Own /\ lang \in {"cpp", "cc", "cfa"}
  /\ stage \in {"parse", "usage", "decide", "sizes", "getaffinity", "clear"} \cup Over
  /\ status \in {0, 1} /\ nargs \in 0..MaxArgs
  /\ DOMAIN given = Options /\ DOMAIN val = Options
  /\ \A o \in Options : val[o] \in Values(o)
  /\ clock_mode \in BOOLEAN
  /\ columns \in (Columns \ {NoSize}) \cup {0} /\ left \in 0..HelpLen
  /\ size \in [threads : 0..UMax, spots : 0..UMax, left : 0..LMax]
  /\ cpus \subseteq allowed /\ allowed \subseteq Cpus /\ extras \in 0..Cardinality(Cpus)

\* The number on the command line, in halves.
Asked(o) == IF given[o] = Absent THEN 2 * Default(o) ELSE given[o].halves

\* A number on the command line is the number the program gets, or the program does not
\* run, except where strtoull makes it fit: --iterations takes negative numbers for large
\* ones and those beyond 64 bits for the largest, and a size may be negative enough to
\* come out small.
ValuesAsWritten ==
  stage = "decide" =>
    /\ given["duration"] # Absent => val["duration"] = Asked("duration")
    /\ \A o \in Unsigned \cup {"iterations"} :
         \/ 2 * val[o] = Asked(o)
         \/ o = "iterations" /\ (Asked(o) < 0 \/ (Asked(o) > 2 * LMax /\ val[o] = LMax))
         \/ Asked(o) \div 2 <= UMax - LMax - 1

\* A run is timed or counts iterations, and whichever it does it has been asked for: it is
\* timed only with a duration or with neither, and never asked for both.
ModeDecided ==
  stage \in {"sizes", "getaffinity", "clear", "run"} =>
    LET duration == given["duration"] # Absent /\ Asked("duration") > 0
        iterations == given["iterations"] # Absent /\ Asked("iterations") > 0
    IN /\ ~(duration /\ iterations)
       /\ duration => clock_mode
       /\ iterations => ~clock_mode
       /\ IF clock_mode THEN val["duration"] > 0 ELSE val["iterations"] > 0

\* A command line that asks for something to run: every size is positive, and there are
\* threads for all the spots and some that run.
Sound ==
  /\ \A o \in Unsigned \ {"nspots"} : Asked(o) > 0
  /\ bench = "cycle" => (Asked("nthreads") \div 2) * (Asked("ringsize") \div 2) <= UMax
  /\ bench = "locality" =>
       IF Asked("nspots") = 0 THEN Asked("nthreads") > Asked("nprocs")
       ELSE Asked("nspots") \in 1..Asked("nthreads")

\* The programs run with the sizes that the models of the benchmarks assume: at least one
\* thread, rings that are whole, a spot to sit in, no count that has wrapped around.  What
\* main() checks holds whatever the command line: a transfer counts iterations, Cforall's
\* locality has a spot, and a pthread program as many processors as it may use and wants.
SizesFit ==
  stage = "run" =>
    /\ Sound =>
         /\ size.threads > 0 /\ val["nprocs"] > 0
         /\ bench = "cycle" => size.threads = val["nthreads"] * val["ringsize"]
         /\ bench \in {"churn", "locality"} => size.spots > 0
         /\ bench = "locality" /\ lang # "cfa" => size.left + size.spots = size.threads
    /\ bench = "transfer" => ~clock_mode /\ val["nprocs"] >= 2 /\ size.threads > 0
    /\ bench = "locality" /\ lang = "cfa" => size.spots > 0
    /\ lang = "cc" => Cardinality(cpus) = Min({Cardinality(allowed), val["nprocs"]})

\* The command line is dealt with in the end: main() gets to its threads, or the usage
\* message is printed, on every terminal that has a width.  On one that reports zero
\* columns printopt() never gets on.
SetupEnds == <>(stage \in Over \/ (stage = "usage" /\ columns = 0))
=============================================================================
