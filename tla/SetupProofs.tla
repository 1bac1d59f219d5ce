----------------------------- MODULE SetupProofs -----------------------------
(***************************************************************************)
(* Proofs about the way from the command line to the sizes of a run, for   *)
(* every width of the integer types, every machine and any number of       *)
(* options: types, the values that options get, the mode, and the sizes.   *)
(***************************************************************************)
EXTENDS Setup, FiniteSetTheorems, WellFoundedInduction, TLAPS

LEMMA Ranges ==
  /\ UMax \in Nat /\ LMax \in Nat /\ 2 <= UMax /\ UMax < LMax
  /\ MaxArgs \in Nat /\ HelpLen \in Nat /\ HelpLen > 0
  /\ Cpus \subseteq Nat /\ IsFiniteSet(Cpus) /\ Cpus # {}
  BY Widths

\* The options of every program.
LEMMA Tables ==
  ASSUME bench \in DOMAIN Own
  PROVE  /\ {"duration", "iterations", "nthreads", "nprocs"} \subseteq Options
         /\ {"nthreads", "nprocs"} \subseteq Unsigned
         /\ Unsigned \subseteq Options \ {"duration", "iterations", "share", "exhaust"}
         /\ bench = "cycle" => "ringsize" \in Unsigned
         /\ bench = "churn" => "spots" \in Unsigned
         /\ bench = "locality" => "nspots" \in Unsigned
         /\ \A o \in Options : o \in Unsigned \cup Switches \cup {"duration", "iterations"}
<1>1. bench \in {"yield", "cycle", "churn", "locality", "transfer"}
  BY DEF Own
<1>2. Own["cycle"] = {"ringsize"} /\ Own["churn"] = {"spots"} /\ "nspots" \in Own["locality"]
  BY DEF Own
<1>3. QED
  BY <1>1, <1>2 DEF Options, Unsigned, Switches

LEMMA Remainder ==
  ASSUME NEW N \in Nat, N > 0, NEW i \in Int
  PROVE  i % N \in 0..N - 1 /\ (i \in 0..N - 1 => i % N = i)
  BY SMTT(20)

LEMMA Wraps ==
  ASSUME NEW n \in Int
  PROVE  Wrap(n) \in 0..UMax /\ (n \in 0..UMax => Wrap(n) = n)
<1>1. UMax + 1 \in Nat /\ UMax + 1 > 0 /\ (UMax + 1) - 1 = UMax
  BY Ranges
<1>2. QED
  BY <1>1, Remainder DEF Wrap

\* The least element of a set of numbers, and of two numbers.
LEMMA Smallest ==
  ASSUME NEW S, S \subseteq Nat, S # {} PROVE Min(S) \in S /\ \A y \in S : Min(S) <= y
<1>1. PICK R : IsWellFoundedOn(R, Nat) /\ R = {ss \in Nat \X Nat : ss[1] < ss[2]}
  BY NatLessThanWellFounded, Zenon DEF OpToRel
<1>2. PICK x \in S : \A y \in S : ~(<<y, x>> \in R)
  BY <1>1, WFMin
<1>3. ASSUME NEW y \in S PROVE x <= y
  <2>1. \A m, n \in Nat : m < n => <<m, n>> \in {ss \in Nat \X Nat : ss[1] < ss[2]}
    OBVIOUS
  <2>2. ~(y < x)
    BY <1>1, <1>2, <2>1
  <2>3. QED
    BY <2>2
<1>4. QED
  BY <1>3 DEF Min

LEMMA MinOfTwo ==
  ASSUME NEW a \in Nat, NEW b \in Nat
  PROVE  Min({a, b}) \in 0..a /\ Min({a, b}) = IF a <= b THEN a ELSE b
<1>1. Min({a, b}) \in {a, b} /\ \A y \in {a, b} : Min({a, b}) <= y
  BY Smallest
<1>2. QED
  BY <1>1

\* What strtoull makes of a whole number h \div 2.
LEMMA StrtoullValue ==
  ASSUME NEW y, y.halves \in Int, y.halves % 2 = 0
  PROVE  /\ Strtoull(y) \in 0..LMax
         /\ y.halves \in 0..2 * LMax => 2 * Strtoull(y) = y.halves
         /\ y.halves > 2 * LMax \/ y.halves < -2 * LMax => Strtoull(y) = LMax
         /\ y.halves < 0 /\ y.halves >= -2 * LMax => 2 * Strtoull(y) = 2 * LMax + 2 + y.halves
<1>1. PICK h \in Int : h = y.halves
  OBVIOUS
<1>2. LMax \in Nat /\ LMax + 1 \in Nat
  BY Ranges
<1>3. CASE h >= 0
  <2>1. PICK m \in Nat : 2 * m = h
    BY <1>1, <1>3
  <2>2. h \div 2 = m
    BY <2>1
  <2>3. Strtoull(y) = IF m > LMax THEN LMax ELSE m
    BY <1>1, <1>3, <2>2 DEF Strtoull
  <2>4. QED
    BY <1>1, <1>2, <1>3, <2>1, <2>3
<1>4. CASE h < 0
  <2>1. PICK m \in Nat : 2 * m = -h
    BY <1>1, <1>4
  <2>2. (-h) \div 2 = m /\ m > 0
    BY <2>1, <1>4
  <2>3. Strtoull(y) = IF m > LMax THEN LMax ELSE (LMax + 1 - m) % (LMax + 1)
    BY <1>1, <1>4, <2>2 DEF Strtoull
  <2>4. m <= LMax => (LMax + 1 - m) % (LMax + 1) = LMax + 1 - m
    BY <1>2, <2>2, Remainder
  <2>5. QED
    BY <1>1, <1>2, <1>4, <2>1, <2>2, <2>3, <2>4
<1>5. QED
  BY <1>3, <1>4

\* An argument with its '=' skipped.
LEMMA NumberFields ==
  ASSUME NEW x \in Numbers
  PROVE  /\ x.halves \in Int /\ x # Absent
         /\ [x EXCEPT !.eq = FALSE].halves = x.halves
<1>1. PICK h \in Int, tail \in BOOLEAN, eq \in BOOLEAN : x = Number(h, tail, eq)
  <2>1. \A h \in {-2 * LMax, -2, 0, 1, 2, 2 * UMax, 2 * UMax + 2, 2 * LMax + 2} : h \in Int
    BY Ranges
  <2>2. \/ \E h \in Int : x = Number(h, FALSE, FALSE)
        \/ x = Number(2, TRUE, FALSE) \/ x = Number(4, FALSE, TRUE)
    BY <2>1, Zenon DEF Numbers
  <2>3. 2 \in Int /\ 4 \in Int /\ TRUE \in BOOLEAN /\ FALSE \in BOOLEAN
    OBVIOUS
  <2>4. QED
    BY <2>2, <2>3, Zenon
<1>2. x.halves = h /\ [x EXCEPT !.eq = FALSE].halves = h
  BY <1>1 DEF Number
<1>3. x.word = "" /\ Absent.word = "absent"
  BY <1>1 DEF Number, Absent, Word
<1>4. QED
  BY <1>2, <1>3

LEMMA ParsedUnsigned ==
  ASSUME NEW x \in Numbers, NEW v \in ParseUnsigned([x EXCEPT !.eq = FALSE])
  PROVE  v \in 0..UMax /\ (2 * v = x.halves \/ x.halves \div 2 <= UMax - LMax - 1)
<1>1. PICK y : y = [x EXCEPT !.eq = FALSE]
  OBVIOUS
<1>2. Whole(y) /\ v = Strtoull(y) /\ v \in 0..UMax
  BY <1>1 DEF ParseUnsigned
<1>3. x.halves \in Int /\ y.halves = x.halves /\ y.halves % 2 = 0
  BY <1>1, <1>2, NumberFields DEF Whole
<1>4. PICK h \in Int : h = y.halves /\ h = x.halves
  BY <1>3
<1>5. CASE h \in 0..2 * LMax
  BY <1>2, <1>3, <1>4, <1>5, StrtoullValue
<1>6. CASE h > 2 * LMax \/ h < -2 * LMax
  BY <1>2, <1>3, <1>4, <1>6, StrtoullValue, Ranges
<1>7. CASE h < 0 /\ h >= -2 * LMax
  <2>1. 2 * v = 2 * LMax + 2 + h
    BY <1>2, <1>3, <1>4, <1>7, StrtoullValue
  <2>2. h = 2 * (v - LMax - 1)
    BY <1>2, <2>1, Ranges
  <2>3. h \div 2 = v - LMax - 1
    BY <1>2, <2>2, Ranges
  <2>4. QED
    BY <1>2, <1>4, <2>3, Ranges
<1>8. QED
  BY <1>5, <1>6, <1>7, Ranges

LEMMA ParsedUll ==
  ASSUME NEW x \in Numbers, NEW v \in ParseUll([x EXCEPT !.eq = FALSE])
  PROVE  /\ v \in 0..LMax
         /\ 2 * v = x.halves \/ x.halves < 0 \/ (x.halves > 2 * LMax /\ v = LMax)
<1>1. PICK y : y = [x EXCEPT !.eq = FALSE]
  OBVIOUS
<1>2. Whole(y) /\ v = Strtoull(y)
  BY <1>1 DEF ParseUll
<1>3. x.halves \in Int /\ y.halves = x.halves /\ y.halves % 2 = 0
  BY <1>1, <1>2, NumberFields DEF Whole
<1>4. QED
  BY <1>2, <1>3, StrtoullValue, Ranges

LEMMA ParsedDouble ==
  ASSUME NEW x \in Numbers, NEW v \in ParseDouble([x EXCEPT !.eq = FALSE])
  PROVE  v \in Int /\ v = x.halves
<1>1. v = [x EXCEPT !.eq = FALSE].halves
  BY DEF ParseDouble
<1>2. QED
  BY <1>1, NumberFields

LEMMA ParsedSwitch ==
  ASSUME NEW y, NEW v \in ParseYesNo(y) \cup ParseTrueFalse(y)
  PROVE  v \in BOOLEAN
  BY Zenon DEF ParseYesNo, ParseTrueFalse
-----------------------------------------------------------------------------
\* A size is the number given for it, or that was a negative one, far from zero.
AsWritten(o) == 2 * val[o] = Asked(o) \/ Asked(o) \div 2 <= UMax - LMax - 1

SizesRead == \A o \in Unsigned : val[o] \in 0..UMax /\ Asked(o) \in Int /\ AsWritten(o)

\* The two options that choose the mode, until it is chosen.
ModesRead ==
  stage \in {"parse", "decide"} =>
    /\ val["iterations"] \in 0..LMax /\ Asked("iterations") \in Int
    /\ \/ 2 * val["iterations"] = Asked("iterations") \/ Asked("iterations") < 0
       \/ Asked("iterations") > 2 * LMax /\ val["iterations"] = LMax
    /\ val["duration"] \in Int /\ Asked("duration") \in Int
    /\ given["duration"] # Absent => val["duration"] = Asked("duration")

\* What a run starts with is what main() computed and has not refused.
Prepared ==
  /\ stage \in {"getaffinity", "clear", "run"} => size = Sizes /\ ~Refused /\ ~DividesByZero
  /\ stage \in {"getaffinity", "clear"} => lang = "cc"

\* The processors left and those to be cleared add up.
Wanted == Min({Cardinality(allowed), val["nprocs"]})
Clearing ==
  /\ stage = "clear" => Cardinality(cpus) = Wanted + extras
  /\ stage = "run" /\ lang = "cc" => Cardinality(cpus) = Wanted

IInv == TypeOK /\ SizesRead /\ ModesRead /\ ModeDecided /\ Prepared /\ Clearing

LEMMA Stages ==
  ASSUME [Next]_vars
  PROVE  \/ Option \/ Help \/ Unknown \/ PrintHelp \/ NoMoreArgs \/ Decide \/ Prepare
         \/ GetAffinity \/ ClearCpu \/ SetAffinity \/ AffinityRefused \/ UNCHANGED vars
  BY DEF Next, Step, Ended

LEMMA InitIInv == Init => IInv
<1> SUFFICES ASSUME Init PROVE IInv
  OBVIOUS
<1>1. stage = "parse" /\ bench \in DOMAIN Own
  BY DEF Init
<1>2. \A o \in Options : given[o] = Absent /\ val[o] = Default(o)
  BY DEF Init
<1>3. \A o \in Unsigned : Default(o) \in 0..UMax /\ Asked(o) = 2 * Default(o) /\ Default(o) \in Int
  <2> SUFFICES ASSUME NEW o \in Unsigned
               PROVE  Default(o) \in 0..UMax /\ Asked(o) = 2 * Default(o) /\ Default(o) \in Int
    OBVIOUS
  <2>1. o \in Options \ {"duration", "iterations", "share", "exhaust"}
    BY <1>1, Tables
  <2>2. Default(o) \in {0, 1, 2}
    BY <2>1 DEF Default, Switches
  <2>3. QED
    BY <1>2, <2>1, <2>2, Ranges DEF Asked
<1>4. SizesRead
  BY <1>1, <1>2, <1>3, Tables DEF SizesRead, AsWritten
<1>5. Default("duration") = -2 /\ Default("iterations") = 0
  <2>1. Default("duration") = -2
    BY DEF Default, Switches
  <2>2. Default("iterations") = 0
    BY DEF Default, Switches
  <2>3. QED
    BY <2>1, <2>2
<1>6. ModesRead
  BY <1>1, <1>2, <1>5, Tables, Ranges DEF ModesRead, Asked
<1>7. TypeOK
  <2>1. \A o \in Options : val[o] \in Values(o)
    <3> SUFFICES ASSUME NEW o \in Options PROVE Default(o) \in Values(o)
      BY <1>2
    <3>1. CASE o \in Switches
      BY <3>1, Zenon DEF Default, Values, Switches
    <3>2. CASE o \in {"duration", "iterations"}
      BY <1>5, <3>2, Ranges DEF Values, Switches
    <3>3. CASE o \in Unsigned
      BY <1>1, <1>3, <3>3, Tables DEF Values, Switches
    <3>4. QED
      BY <1>1, <3>1, <3>2, <3>3, Tables
  <2>2. clock_mode \in BOOLEAN
    BY DEF Init
  <2>3. lang \in {"cpp", "cc", "cfa"}
    BY DEF Init
  <2>4. extras \in 0..Cardinality(Cpus)
    BY Ranges, FS_CardinalityType DEF Init
  <2>5. size \in [threads : 0..UMax, spots : 0..UMax, left : 0..LMax]
    BY Ranges DEF Init, NoSizes
  <2>6. QED
    BY <2>1, <2>2, <2>3, <2>4, <2>5, Ranges DEF Init, TypeOK
<1>8. ModeDecided /\ Prepared /\ Clearing
  BY <1>1 DEF ModeDecided, Prepared, Clearing
<1>9. QED
  BY <1>4, <1>6, <1>7, <1>8 DEF IInv
-----------------------------------------------------------------------------
LEMMA SameTables ==
  ASSUME bench' = bench PROVE Options' = Options /\ Unsigned' = Unsigned
  BY DEF Options, Unsigned

LEMMA SameAsked ==
  ASSUME bench' = bench, NEW o, given'[o] = given[o] PROVE Asked(o)' = Asked(o)
  BY DEF Asked, Default

\* Steps that end the reading, complain or print.
LEMMA LeavingKept ==
  ASSUME IInv, bench' = bench, lang' = lang, UNCHANGED <<parsed, clock_mode, size, mask>>,
         status' \in {0, 1}, columns' \in (Columns \ {NoSize}) \cup {0}, left' \in 0..HelpLen,
         stage' \in {"usage", "abort", "exit"} \/ (stage = "parse" /\ stage' = "decide")
  PROVE  IInv'
<1> USE DEF IInv
<1>1. /\ nargs' = nargs /\ given' = given /\ val' = val /\ clock_mode' = clock_mode
      /\ size' = size /\ allowed' = allowed /\ cpus' = cpus /\ extras' = extras
  BY DEF parsed, mask
<1>2. TypeOK'
  <2>1. \A o \in Options' : val'[o] \in Values(o)'
    BY <1>1, SameTables DEF TypeOK, Values
  <2>2. stage' \in {"parse", "usage", "decide", "sizes", "getaffinity", "clear"} \cup Over
    BY DEF Over
  <2>3. clock_mode' \in BOOLEAN
    BY <1>1 DEF TypeOK
  <2>4. bench' \in DOMAIN Own /\ lang' \in {"cpp", "cc", "cfa"}
    BY DEF TypeOK
  <2>5. QED
    BY <1>1, <2>1, <2>2, <2>3, <2>4, SameTables DEF TypeOK
<1>3. \A o : Asked(o)' = Asked(o)
  BY <1>1, SameAsked
<1>4. SizesRead'
  BY <1>1, <1>3, SameTables DEF SizesRead, AsWritten
<1>5. ModesRead'
  BY <1>1, <1>3 DEF ModesRead
<1>6. ModeDecided' /\ Prepared' /\ Clearing'
  BY DEF ModeDecided, Prepared, Clearing
<1>7. QED
  BY <1>2, <1>4, <1>5, <1>6

LEMMA UsageKept ==
  ASSUME IInv, NEW code \in {0, 1}, Usage(code), UNCHANGED parsed PROVE IInv'
<1>1. columns' \in (Columns \ {NoSize}) \cup {0} /\ left' \in 0..HelpLen /\ stage' \in {"usage", "abort"}
  <2>1. PICK max \in Columns :
          IF max = NoSize THEN stage' = "abort" /\ UNCHANGED help
          ELSE stage' = "usage" /\ left' = HelpLen /\ columns' = max
    BY DEF Usage
  <2>2. CASE max = NoSize
    BY <2>1, <2>2 DEF help, IInv, TypeOK
  <2>3. CASE max # NoSize
    BY <2>1, <2>3, Ranges
  <2>4. QED
    BY <2>2, <2>3
<1>2. bench' = bench /\ lang' = lang /\ status' = code /\ UNCHANGED <<clock_mode, size, mask>>
  BY DEF Usage
<1>3. QED
  BY <1>1, <1>2, LeavingKept

LEMMA PrintKept == ASSUME IInv, PrintHelp \/ NoMoreArgs PROVE IInv'
<1>1. CASE NoMoreArgs
  BY <1>1, LeavingKept DEF NoMoreArgs, IInv, TypeOK, help
<1>2. CASE PrintHelp
  <2>1. left \in Nat /\ left <= HelpLen /\ columns \in Nat
    BY Ranges, Screens DEF IInv, TypeOK
  <2>2. LineWidth(columns) \in Nat
    BY <2>1 DEF LineWidth, NameWidth
  <2>3. Min({left, LineWidth(columns)}) \in 0..left
    BY <2>1, <2>2, MinOfTwo
  <2>4. left' \in 0..HelpLen
    BY <1>2, <2>1, <2>3, Ranges DEF PrintHelp
  <2>5. /\ stage' \in {"exit", "usage"} /\ status' \in {0, 1}
        /\ columns' \in (Columns \ {NoSize}) \cup {0}
    BY <1>2 DEF PrintHelp, IInv, TypeOK
  <2>6. QED
    BY <1>2, <2>4, <2>5, LeavingKept DEF PrintHelp
<1>3. QED
  BY <1>1, <1>2

\* What reading an option gives: a value of its type, related to the argument.
LEMMA ParsedOption ==
  ASSUME bench \in DOMAIN Own, NEW o \in Options, NEW x \in Arguments(o),
         NEW v \in Parse(o, [x EXCEPT !.eq = FALSE])
  PROVE  /\ v \in Values(o)
         /\ o \notin Switches => x \in Numbers
         /\ o \in Unsigned => v \in ParseUnsigned([x EXCEPT !.eq = FALSE])
         /\ o = "iterations" => v \in ParseUll([x EXCEPT !.eq = FALSE])
         /\ o = "duration" => v \in ParseDouble([x EXCEPT !.eq = FALSE])
<1>1. o \notin Switches => x \in Numbers
  BY DEF Arguments
<1>2. CASE o \in Switches
  <2>1. Values(o) = BOOLEAN
    BY <1>2, Zenon DEF Values, Switches
  <2>2. v \in ParseYesNo([x EXCEPT !.eq = FALSE]) \cup ParseTrueFalse([x EXCEPT !.eq = FALSE])
    BY <1>2 DEF Parse, Switches
  <2>3. v \in BOOLEAN
    BY <2>2, ParsedSwitch
  <2>4. o \notin Unsigned /\ o # "iterations" /\ o # "duration"
    BY <1>2 DEF Unsigned, Switches
  <2>5. QED
    BY <1>1, <2>1, <2>3, <2>4
<1>3. CASE o \in Unsigned
  <2>1. o \notin {"duration", "iterations", "share", "exhaust"}
    BY <1>3, Tables
  <2>2. v \in ParseUnsigned([x EXCEPT !.eq = FALSE]) /\ Values(o) = 0..UMax /\ o \notin Switches
    BY <2>1 DEF Parse, Values, Switches
  <2>3. v \in Values(o)
    BY <1>1, <2>2, ParsedUnsigned
  <2>4. QED
    BY <1>1, <2>1, <2>2, <2>3
<1>4. CASE o = "iterations"
  <2>1. v \in ParseUll([x EXCEPT !.eq = FALSE]) /\ Values(o) = 0..LMax /\ o \notin Switches
    BY <1>4 DEF Parse, Values, Switches
  <2>2. v \in Values(o) /\ o \notin Unsigned
    BY <1>1, <1>4, <2>1, ParsedUll, Tables
  <2>3. QED
    BY <1>1, <1>4, <2>1, <2>2
<1>5. CASE o = "duration"
  <2>1. v \in ParseDouble([x EXCEPT !.eq = FALSE]) /\ Values(o) = Int /\ o \notin Switches
    BY <1>5 DEF Parse, Values, Switches
  <2>2. v \in Values(o) /\ o \notin Unsigned
    BY <1>1, <1>5, <2>1, ParsedDouble, Tables
  <2>3. QED
    BY <1>1, <1>5, <2>1, <2>2
<1>6. QED
  BY <1>2, <1>3, <1>4, <1>5, Tables

LEMMA OptionKept == ASSUME IInv, Option PROVE IInv'
<1> USE DEF IInv
<1>0. PICK o \in Options : \E x \in Arguments(o) :
        \/ Usage(1) /\ UNCHANGED parsed
        \/ \E v \in Parse(o, [x EXCEPT !.eq = FALSE]) :
             /\ nargs' = nargs + 1
             /\ val' = [val EXCEPT ![o] = v]
             /\ given' = [given EXCEPT ![o] = x]
             /\ UNCHANGED <<bench, lang, stage, status, clock_mode, help, size, mask>>
  BY DEF Option
<1>1. PICK x \in Arguments(o) :
        \/ Usage(1) /\ UNCHANGED parsed
        \/ \E v \in Parse(o, [x EXCEPT !.eq = FALSE]) :
             /\ nargs' = nargs + 1
             /\ val' = [val EXCEPT ![o] = v]
             /\ given' = [given EXCEPT ![o] = x]
             /\ UNCHANGED <<bench, lang, stage, status, clock_mode, help, size, mask>>
  BY <1>0
<1>2. CASE Usage(1) /\ UNCHANGED parsed
  BY <1>2, UsageKept
<1>3. ASSUME NEW v \in Parse(o, [x EXCEPT !.eq = FALSE]),
             nargs' = nargs + 1, val' = [val EXCEPT ![o] = v], given' = [given EXCEPT ![o] = x],
             UNCHANGED <<bench, lang, stage, status, clock_mode, help, size, mask>>
      PROVE  IInv'
  <2>1. /\ bench' = bench /\ lang' = lang /\ stage' = "parse" /\ stage = "parse"
        /\ status' = status /\ clock_mode' = clock_mode /\ columns' = columns /\ left' = left
        /\ size' = size /\ allowed' = allowed /\ cpus' = cpus /\ extras' = extras
    BY <1>3 DEF help, mask, Option
  <2>2. bench \in DOMAIN Own /\ DOMAIN given = Options /\ DOMAIN val = Options
    BY DEF TypeOK
  <2>3. /\ val'[o] = v /\ given'[o] = x
        /\ \A p \in Options \ {o} : val'[p] = val[p] /\ given'[p] = given[p]
    BY <1>3, <2>2
  <2>4. /\ v \in Values(o)
        /\ o \notin Switches => x \in Numbers
        /\ o \in Unsigned => v \in ParseUnsigned([x EXCEPT !.eq = FALSE])
        /\ o = "iterations" => v \in ParseUll([x EXCEPT !.eq = FALSE])
        /\ o = "duration" => v \in ParseDouble([x EXCEPT !.eq = FALSE])
    BY <1>3, <2>2, ParsedOption
  <2>5. o \notin Switches => x.halves \in Int /\ x # Absent
    BY <2>4, NumberFields
  <2>6. \A p \in Options \ {o} : Asked(p)' = Asked(p)
    BY <2>1, <2>3, SameAsked
  <2>7. o \notin Switches => Asked(o)' = x.halves
    BY <2>3, <2>5 DEF Asked
  <2>8. TypeOK'
    <3>1. nargs' \in 0..MaxArgs
      BY <1>3, Ranges DEF Option, TypeOK
    <3>2. \A p \in Options : val'[p] \in Values(p)
      BY <2>3, <2>4 DEF TypeOK
    <3>3. DOMAIN given' = Options' /\ DOMAIN val' = Options'
      BY <1>3, <2>1, <2>2, SameTables
    <3>4. \A p : Values(p)' = Values(p)
      BY DEF Values
    <3>5. clock_mode' \in BOOLEAN
      BY <2>1 DEF TypeOK
    <3>6. bench' \in DOMAIN Own /\ lang' \in {"cpp", "cc", "cfa"} /\ status' \in {0, 1}
      BY <2>1 DEF TypeOK
    <3>7. QED
      BY <2>1, <3>1, <3>2, <3>3, <3>4, <3>5, <3>6, SameTables DEF TypeOK
  <2>9. SizesRead'
    <3> SUFFICES ASSUME NEW p \in Unsigned
                 PROVE  val'[p] \in 0..UMax /\ Asked(p)' \in Int /\ AsWritten(p)'
      BY <2>1, SameTables DEF SizesRead
    <3>1. p \in Options /\ p \notin Switches
      BY <2>2, Tables DEF Switches
    <3>2. CASE p = o
      BY <2>3, <2>4, <2>5, <2>7, <3>1, <3>2, ParsedUnsigned DEF AsWritten
    <3>3. CASE p # o
      BY <2>3, <2>6, <3>1, <3>3 DEF SizesRead, AsWritten
    <3>4. QED
      BY <3>2, <3>3
  <2>10. ModesRead'
    <3>1. "iterations" \in Options /\ "duration" \in Options
      BY <2>2, Tables
    <3>2. /\ val'["iterations"] \in 0..LMax /\ Asked("iterations")' \in Int
          /\ \/ 2 * val'["iterations"] = Asked("iterations")' \/ Asked("iterations")' < 0
             \/ Asked("iterations")' > 2 * LMax /\ val'["iterations"] = LMax
      <4>1. CASE o = "iterations"
        BY <2>3, <2>4, <2>5, <2>7, <4>1, ParsedUll DEF Switches
      <4>2. CASE o # "iterations"
        BY <2>1, <2>3, <2>6, <3>1, <4>2 DEF ModesRead
      <4>3. QED
        BY <4>1, <4>2
    <3>3. /\ val'["duration"] \in Int /\ Asked("duration")' \in Int
          /\ given'["duration"] # Absent => val'["duration"] = Asked("duration")'
      <4>1. CASE o = "duration"
        BY <2>3, <2>4, <2>5, <2>7, <4>1, ParsedDouble DEF Switches
      <4>2. CASE o # "duration"
        BY <2>1, <2>3, <2>6, <3>1, <4>2 DEF ModesRead
      <4>3. QED
        BY <4>1, <4>2
    <3>4. QED
      BY <3>2, <3>3 DEF ModesRead
  <2>11. ModeDecided' /\ Prepared' /\ Clearing'
    BY <2>1 DEF ModeDecided, Prepared, Clearing
  <2>12. QED
    BY <2>8, <2>9, <2>10, <2>11
<1>4. QED
  BY <1>1, <1>2, <1>3

\* The mode follows from what was asked for.
LEMMA DecideKept == ASSUME IInv, Decide PROVE IInv'
<1> USE DEF IInv
<1>1. CASE Usage(1) /\ UNCHANGED parsed
  BY <1>1, UsageKept
<1>2. ASSUME val["duration"] <= 0 \/ val["iterations"] = 0,
             clock_mode' = (val["duration"] > 0 \/ val["iterations"] = 0),
             val' = IF val["duration"] > 0 THEN [val EXCEPT !["iterations"] = LMax]
                    ELSE IF val["iterations"] = 0 THEN [val EXCEPT !["duration"] = 10]
                    ELSE val,
             stage' = "sizes",
             UNCHANGED <<bench, lang, status, nargs, given, help, size, mask>>
      PROVE  IInv'
  <2>1. /\ bench' = bench /\ lang' = lang /\ stage = "decide" /\ nargs' = nargs
        /\ status' = status /\ given' = given /\ columns' = columns /\ left' = left
        /\ size' = size /\ allowed' = allowed /\ cpus' = cpus /\ extras' = extras
    BY <1>2 DEF help, mask, Decide
  <2>2. /\ bench \in DOMAIN Own /\ DOMAIN given = Options /\ DOMAIN val = Options
        /\ "iterations" \in Options /\ "duration" \in Options
    BY Tables DEF TypeOK
  <2>3. \A p \in Options \ {"iterations", "duration"} : val'[p] = val[p]
    BY <1>2, <2>2
  <2>4. /\ val["iterations"] \in 0..LMax /\ val["duration"] \in Int
        /\ Asked("iterations") \in Int /\ Asked("duration") \in Int
        /\ \/ 2 * val["iterations"] = Asked("iterations") \/ Asked("iterations") < 0
           \/ Asked("iterations") > 2 * LMax /\ val["iterations"] = LMax
        /\ given["duration"] # Absent => val["duration"] = Asked("duration")
    BY <2>1 DEF ModesRead
  <2>5. /\ val'["duration"] \in Int /\ val'["iterations"] \in 0..LMax
        /\ val["duration"] > 0 => val'["duration"] = val["duration"]
        /\ val["duration"] <= 0 /\ val["iterations"] = 0 => val'["duration"] = 10
        /\ val["duration"] <= 0 /\ val["iterations"] # 0 => val' = val
    BY <1>2, <2>2, <2>4, Ranges
  <2>6. \A p : Asked(p)' = Asked(p)
    BY <2>1, SameAsked
  <2>7. TypeOK'
    <3>1. \A p \in Options : val'[p] \in Values(p)
      <4>1. Values("iterations") = 0..LMax /\ Values("duration") = Int
        BY DEF Values, Switches
      <4>2. QED
        BY <2>3, <2>5, <4>1 DEF TypeOK
    <3>2. DOMAIN given' = Options' /\ DOMAIN val' = Options'
      BY <1>2, <2>1, <2>2, SameTables
    <3>3. \A p : Values(p)' = Values(p)
      BY DEF Values
    <3>4. clock_mode' \in BOOLEAN
      BY <1>2
    <3>5. /\ bench' \in DOMAIN Own /\ lang' \in {"cpp", "cc", "cfa"} /\ status' \in {0, 1}
          /\ nargs' \in 0..MaxArgs
      BY <2>1 DEF TypeOK
    <3>6. QED
      BY <1>2, <2>1, <3>1, <3>2, <3>3, <3>4, <3>5, SameTables DEF TypeOK
  <2>8. SizesRead'
    <3>1. \A p \in Unsigned : val'[p] = val[p]
      BY <2>2, <2>3, Tables
    <3>2. QED
      BY <2>1, <2>6, <3>1, SameTables DEF SizesRead, AsWritten
  <2>9. ModesRead' /\ Prepared' /\ Clearing'
    BY <1>2 DEF ModesRead, Prepared, Clearing
  <2>10. ModeDecided'
    <3> DEFINE duration == given["duration"] # Absent /\ Asked("duration") > 0
               iterations == given["iterations"] # Absent /\ Asked("iterations") > 0
    <3>1. duration => val["duration"] > 0
      BY <2>4
    <3>2. iterations => val["iterations"] > 0
      BY <2>4, Ranges
    <3>3. clock_mode' <=> (val["duration"] > 0 \/ val["iterations"] = 0)
      BY <1>2
    <3>4. clock_mode' => val'["duration"] > 0
      BY <2>4, <2>5, <3>3
    <3>5. ~clock_mode' => val'["iterations"] > 0
      BY <2>4, <2>5, <3>3
    <3>6. ~(duration /\ iterations)
      BY <1>2, <2>4, <3>1, <3>2
    <3>7. (duration => clock_mode') /\ (iterations => ~clock_mode')
      BY <1>2, <2>4, <3>1, <3>2, <3>3, <3>6
    <3>8. QED
      BY <2>1, <2>6, <3>4, <3>5, <3>6, <3>7 DEF ModeDecided
  <2>11. QED
    BY <2>7, <2>8, <2>9, <2>10
<1>3. QED
  BY <1>1, <1>2 DEF Decide
-----------------------------------------------------------------------------
(* The sizes and the processors *)

\* Steps after which everything that was read is as it was.
LEMMA ReadKept ==
  ASSUME IInv, bench' = bench, lang' = lang, UNCHANGED <<parsed, clock_mode, help>>,
         stage \in {"sizes", "getaffinity", "clear"}, stage' \notin {"parse", "decide"}
  PROVE  SizesRead' /\ ModesRead' /\ ModeDecided'
<1> USE DEF IInv
<1>1. given' = given /\ val' = val /\ clock_mode' = clock_mode
  BY DEF parsed
<1>2. \A o : Asked(o)' = Asked(o)
  BY <1>1, SameAsked
<1>3. SizesRead'
  BY <1>1, <1>2, SameTables DEF SizesRead, AsWritten
<1>4. ModesRead' /\ ModeDecided'
  BY <1>1, <1>2 DEF ModesRead, ModeDecided
<1>5. QED
  BY <1>3, <1>4

LEMMA TypesRead ==
  ASSUME IInv, bench' = bench, lang' = lang, UNCHANGED <<parsed, clock_mode, help>>
  PROVE  /\ bench' \in DOMAIN Own /\ lang' \in {"cpp", "cc", "cfa"}
         /\ nargs' \in 0..MaxArgs
         /\ DOMAIN given' = Options' /\ DOMAIN val' = Options'
         /\ \A o \in Options' : val'[o] \in Values(o)'
         /\ clock_mode' \in BOOLEAN
         /\ columns' \in (Columns \ {NoSize}) \cup {0} /\ left' \in 0..HelpLen
<1>1. clock_mode' \in BOOLEAN
  BY DEF IInv, TypeOK
<1>2. QED
  BY <1>1, SameTables DEF IInv, TypeOK, parsed, help, Values

\* What the sizes are computed from.
LEMMA ValuesRead ==
  ASSUME IInv
  PROVE  /\ val["nthreads"] \in 0..UMax /\ val["nprocs"] \in 0..UMax
         /\ bench = "cycle" => val["ringsize"] \in 0..UMax
         /\ bench = "churn" => val["spots"] \in 0..UMax
         /\ bench = "locality" => val["nspots"] \in 0..UMax
  BY Tables DEF IInv, TypeOK, SizesRead

LEMMA SizesType == ASSUME IInv PROVE Sizes \in [threads : 0..UMax, spots : 0..UMax, left : 0..LMax]
<1>1. Threads \in 0..UMax
  BY ValuesRead, Wraps, Ranges DEF Threads
<1>2. bench = "locality" => Spots \in 0..UMax
  <2>1. bench = "locality" => val["nthreads"] - val["nprocs"] \in Int
    BY ValuesRead, Ranges
  <2>2. QED
    BY <2>1, ValuesRead, Wraps DEF Spots
<1>3. CASE bench = "locality"
  <2>1. Wrap(Threads - Spots) \in 0..UMax
    BY <1>1, <1>2, <1>3, Wraps, Ranges
  <2>2. Sizes = [threads |-> Threads, spots |-> Spots,
                 left |-> IF lang = "cfa" THEN val["nprocs"] ELSE Wrap(Threads - Spots)]
    BY <1>3 DEF Sizes
  <2>3. QED
    BY <1>1, <1>2, <1>3, <2>1, <2>2, ValuesRead, Ranges
<1>4. CASE bench = "churn"
  BY <1>1, <1>4, ValuesRead, Ranges DEF Sizes
<1>5. CASE bench \notin {"locality", "churn"}
  BY <1>1, <1>5, ValuesRead, Ranges DEF Sizes
<1>6. QED
  BY <1>3, <1>4, <1>5

LEMMA SameSizes ==
  ASSUME bench' = bench, lang' = lang, val' = val, clock_mode' = clock_mode
  PROVE  Sizes' = Sizes /\ (Refused' <=> Refused) /\ (DividesByZero' <=> DividesByZero)
<1>1. Sizes' = Sizes
  BY DEF Sizes, Threads, Spots
<1>2. QED
  BY <1>1 DEF Refused, DividesByZero, Spots

LEMMA PrepareKept == ASSUME IInv, Prepare PROVE IInv'
<1> USE DEF IInv
<1>1. /\ bench' = bench /\ lang' = lang /\ UNCHANGED <<parsed, clock_mode, help>>
      /\ allowed' = allowed /\ cpus' = cpus /\ extras' = extras /\ stage = "sizes"
      /\ val' = val /\ clock_mode' = clock_mode
  BY DEF Prepare, mask, parsed
<1>2. /\ stage' \in {"exit", "crash", "getaffinity", "run"} /\ status' \in {0, 1}
      /\ \/ stage' \in {"exit", "crash"} /\ size' = size
         \/ size' = Sizes /\ ~Refused /\ ~DividesByZero
            /\ stage' = IF lang = "cc" THEN "getaffinity" ELSE "run"
  BY DEF Prepare, TypeOK
<1>3. TypeOK'
  <2>1. size' \in [threads : 0..UMax, spots : 0..UMax, left : 0..LMax]
    BY <1>2, SizesType DEF TypeOK
  <2>2. QED
    BY <1>1, <1>2, <2>1, TypesRead DEF TypeOK, Over
<1>4. SizesRead' /\ ModesRead' /\ ModeDecided'
  BY <1>1, <1>2, ReadKept
<1>5. Prepared' /\ Clearing'
  BY <1>1, <1>2, SameSizes DEF Prepared, Clearing
<1>6. QED
  BY <1>3, <1>4, <1>5

LEMMA CpuSets ==
  ASSUME NEW S, S \subseteq Cpus
  PROVE  /\ IsFiniteSet(S) /\ S \subseteq Nat /\ Cardinality(S) \in Nat
         /\ Cardinality(S) <= Cardinality(Cpus) /\ Cardinality(Cpus) \in Nat
<1>1. IsFiniteSet(S) /\ Cardinality(S) <= Cardinality(Cpus)
  BY Ranges, FS_Subset
<1>2. Cardinality(S) \in Nat /\ Cardinality(Cpus) \in Nat
  BY <1>1, Ranges, FS_CardinalityType
<1>3. QED
  BY <1>1, <1>2, Ranges

LEMMA GetAffinityKept == ASSUME IInv, GetAffinity PROVE IInv'
<1> USE DEF IInv
<1>1. /\ bench' = bench /\ lang' = lang /\ UNCHANGED <<parsed, clock_mode, help>>
      /\ size' = size /\ status' = status /\ stage = "getaffinity" /\ stage' = "clear"
      /\ val' = val /\ clock_mode' = clock_mode
  BY DEF GetAffinity, parsed
<1>2. /\ allowed' \subseteq Cpus /\ cpus' = allowed'
      /\ extras' = IF Cardinality(cpus') > val["nprocs"]
                   THEN Cardinality(cpus') - val["nprocs"] ELSE 0
  BY DEF GetAffinity
<1>3. Cardinality(cpus') \in Nat /\ Cardinality(cpus') <= Cardinality(Cpus)
      /\ Cardinality(Cpus) \in Nat /\ val["nprocs"] \in Nat
  <2>1. val["nprocs"] \in Nat
    BY ValuesRead, Ranges
  <2>2. PICK S : S = cpus'
    OBVIOUS
  <2>3. S \subseteq Cpus
    BY <1>2, <2>2
  <2>4. Cardinality(S) \in Nat /\ Cardinality(S) <= Cardinality(Cpus) /\ Cardinality(Cpus) \in Nat
    BY <2>3, CpuSets
  <2>5. QED
    BY <2>1, <2>2, <2>4
<1>4. extras' \in 0..Cardinality(Cpus)
  BY <1>2, <1>3
<1>5. TypeOK'
  BY <1>1, <1>2, <1>4, TypesRead DEF TypeOK
<1>6. SizesRead' /\ ModesRead' /\ ModeDecided'
  BY <1>1, ReadKept
<1>7. Prepared'
  BY <1>1, SameSizes DEF Prepared
<1>8. Clearing'
  <2>1. Wanted' = Min({Cardinality(cpus'), val["nprocs"]})
    BY <1>1, <1>2 DEF Wanted
  <2>2. Wanted' = IF Cardinality(cpus') <= val["nprocs"] THEN Cardinality(cpus') ELSE val["nprocs"]
    BY <1>3, <2>1, MinOfTwo
  <2>3. QED
    BY <1>1, <1>2, <1>3, <2>2 DEF Clearing
<1>9. QED
  BY <1>5, <1>6, <1>7, <1>8

LEMMA ClearKept == ASSUME IInv, ClearCpu \/ SetAffinity PROVE IInv'
<1> USE DEF IInv
<1>1. /\ bench' = bench /\ lang' = lang /\ UNCHANGED <<parsed, clock_mode, help>>
      /\ size' = size /\ status' = status /\ allowed' = allowed
      /\ stage = "clear" /\ stage' \in {"clear", "abort", "run"}
      /\ val' = val /\ clock_mode' = clock_mode
  BY DEF ClearCpu, SetAffinity, parsed, mask
<1>2. /\ IsFiniteSet(cpus) /\ cpus \subseteq Nat /\ Cardinality(cpus) \in Nat
      /\ extras \in Nat /\ extras <= Cardinality(Cpus)
      /\ Cardinality(Cpus) \in Nat /\ Cardinality(allowed) \in Nat /\ val["nprocs"] \in Nat
  <2>1. cpus \subseteq Cpus /\ allowed \subseteq Cpus /\ extras \in 0..Cardinality(Cpus)
    BY DEF TypeOK
  <2>2. val["nprocs"] \in Nat
    BY ValuesRead, Ranges
  <2>3. QED
    BY <2>1, <2>2, CpuSets
<1>3. Wanted \in Nat /\ Wanted' = Wanted /\ Cardinality(cpus) = Wanted + extras
  BY <1>1, <1>2, MinOfTwo DEF Wanted, Clearing
<1>4. CASE ClearCpu
  <2>1. cpus' = cpus \ {Min(cpus)} /\ extras' = extras - 1 /\ extras > 0 /\ stage' = "clear"
    BY <1>4 DEF ClearCpu
  <2>2. Min(cpus) \in cpus
    BY <1>2, <1>4, Smallest DEF ClearCpu
  <2>3. Cardinality(cpus') = Wanted' + extras'
    BY <1>2, <1>3, <2>1, <2>2, FS_RemoveElement
  <2>4. extras' \in 0..Cardinality(Cpus) /\ cpus' \subseteq allowed /\ allowed \subseteq Cpus
    <3>1. extras' \in 0..Cardinality(Cpus)
      BY <1>2, <2>1
    <3>2. QED
      BY <2>1, <3>1 DEF TypeOK
  <2>5. TypeOK'
    <3>1. size' = size /\ status' \in {0, 1} /\ stage' = "clear"
      BY <1>1, <2>1 DEF TypeOK
    <3>2. size \in [threads : 0..UMax, spots : 0..UMax, left : 0..LMax]
      BY DEF TypeOK
    <3>3. QED
      BY <1>1, <2>4, <3>1, <3>2, TypesRead DEF TypeOK
  <2>6. Clearing'
    BY <2>1, <2>3 DEF Clearing
  <2>7. QED
    BY <1>1, <2>1, <2>5, <2>6, ReadKept, SameSizes DEF Prepared
<1>5. CASE SetAffinity
  <2>1. /\ cpus' = cpus /\ extras' = extras /\ (extras = 0 \/ cpus = {})
        /\ stage' = IF cpus = {} THEN "abort" ELSE "run"
    BY <1>5 DEF SetAffinity, mask
  <2>2. TypeOK'
    BY <1>1, <2>1, TypesRead DEF TypeOK, Over
  <2>3. Clearing'
    BY <1>2, <1>3, <2>1 DEF Clearing
  <2>4. QED
    BY <1>1, <2>1, <2>2, <2>3, ReadKept, SameSizes DEF Prepared
<1>6. QED
  BY <1>4, <1>5

LEMMA RefusedKept == ASSUME IInv, AffinityRefused PROVE IInv'
<1> USE DEF IInv
<1>1. /\ bench' = bench /\ lang' = lang /\ UNCHANGED <<parsed, clock_mode, help>>
      /\ size' = size /\ status' = status /\ val' = val /\ clock_mode' = clock_mode
      /\ allowed' = allowed /\ cpus' = cpus /\ extras' = extras
      /\ stage \in {"getaffinity", "clear"} /\ stage' = "abort"
  BY DEF AffinityRefused, parsed, mask
<1>2. TypeOK'
  BY <1>1, TypesRead DEF TypeOK, Over
<1>3. SizesRead' /\ ModesRead' /\ ModeDecided'
  BY <1>1, ReadKept
<1>4. QED
  BY <1>1, <1>2, <1>3 DEF Prepared, Clearing

LEMMA StepIInv == IInv /\ [Next]_vars => IInv'
<1> SUFFICES ASSUME IInv, [Next]_vars PROVE IInv'
  OBVIOUS
<1>1. CASE Help \/ Unknown
  BY <1>1, UsageKept DEF Help, Unknown
<1>2. CASE UNCHANGED vars
  <2>1. /\ bench' = bench /\ lang' = lang /\ UNCHANGED <<parsed, clock_mode, help>>
        /\ given' = given /\ val' = val /\ clock_mode' = clock_mode
        /\ size' = size /\ status' = status /\ stage' = stage
        /\ allowed' = allowed /\ cpus' = cpus /\ extras' = extras
    BY <1>2 DEF vars, parsed, mask
  <2>2. \A o : Asked(o)' = Asked(o)
    BY <2>1, SameAsked
  <2>3. TypeOK'
    BY <2>1, TypesRead DEF IInv, TypeOK
  <2>4. SizesRead' /\ ModesRead' /\ ModeDecided'
    BY <2>1, <2>2, SameTables DEF IInv, SizesRead, AsWritten, ModesRead, ModeDecided
  <2>5. Prepared' /\ Clearing'
    BY <2>1, SameSizes DEF IInv, Prepared, Clearing, Wanted
  <2>6. QED
    BY <2>3, <2>4, <2>5 DEF IInv
<1>3. QED
  BY <1>1, <1>2, Stages, OptionKept, PrintKept, DecideKept, PrepareKept, GetAffinityKept, ClearKept,
     RefusedKept

LEMMA IInvAlways == Spec => []IInv
  BY InitIInv, StepIInv, PTL DEF Spec
-----------------------------------------------------------------------------
\* Every variable of the set-up keeps its type, whatever the widths of unsigned int and
\* unsigned long long: no value that the programs take is beyond its type.
THEOREM TypeCorrect == Spec => []TypeOK
<1>1. IInv => TypeOK
  BY DEF IInv
<1>2. QED
  BY <1>1, IInvAlways, PTL

\* At the true widths too a number on the command line is the number the program gets, but
\* for what strtoull saturates or negates.
THEOREM ValuesAreWritten == Spec => []ValuesAsWritten
<1>1. IInv => ValuesAsWritten
  BY Tables DEF IInv, TypeOK, SizesRead, AsWritten, ModesRead, ValuesAsWritten
<1>2. QED
  BY <1>1, IInvAlways, PTL

\* The mode of a run is the one that was asked for.
THEOREM ModeIsDecided == Spec => []ModeDecided
<1>1. IInv => ModeDecided
  BY DEF IInv
<1>2. QED
  BY <1>1, IInvAlways, PTL

\* A sound command line gives the sizes that the models of the benchmarks assume, and the
\* pthread programs as many processors as they can have, on any machine.
THEOREM SizesAreFit == Spec => []SizesFit
<1>1. IInv => SizesFit
  <2> SUFFICES ASSUME IInv, stage = "run" PROVE SizesFit
    BY DEF SizesFit
  <2>1. size = Sizes /\ ~Refused /\ ~DividesByZero /\ bench \in DOMAIN Own
    BY DEF IInv, Prepared, TypeOK
  <2>2. Sizes.threads = Threads /\ (bench = "locality" => Sizes.spots = Spots)
        /\ (bench = "churn" => Sizes.spots = val["spots"])
    BY DEF Sizes
  <2>3. ASSUME Sound, NEW o \in Unsigned, o # "nspots" \/ Asked(o) >= 0
        PROVE  2 * val[o] = Asked(o) /\ val[o] \in 0..UMax /\ (o # "nspots" => val[o] > 0)
    <3>1. Asked(o) \in Int /\ Asked(o) >= 0 /\ (o # "nspots" => Asked(o) > 0)
      BY <2>3 DEF IInv, SizesRead, Sound
    <3>2. val[o] \in 0..UMax /\ AsWritten(o)
      BY <2>3 DEF IInv, SizesRead
    <3>3. QED
      BY <3>1, <3>2, Ranges DEF AsWritten
  <2>4. ASSUME Sound
        PROVE  /\ size.threads > 0 /\ val["nprocs"] > 0
               /\ bench = "cycle" => size.threads = val["nthreads"] * val["ringsize"]
               /\ bench \in {"churn", "locality"} => size.spots > 0
               /\ bench = "locality" /\ lang # "cfa" => size.left + size.spots = size.threads
    <3>1. /\ 2 * val["nthreads"] = Asked("nthreads") /\ val["nthreads"] \in 0..UMax
          /\ val["nthreads"] > 0
          /\ 2 * val["nprocs"] = Asked("nprocs") /\ val["nprocs"] \in 0..UMax /\ val["nprocs"] > 0
      BY <2>1, <2>3, <2>4, Tables
    <3>2. CASE bench = "cycle"
      <4>1. /\ 2 * val["ringsize"] = Asked("ringsize") /\ val["ringsize"] \in 0..UMax
            /\ val["ringsize"] > 0
        BY <2>1, <2>3, <2>4, <3>2, Tables
      <4>2. Asked("nthreads") \div 2 = val["nthreads"] /\ Asked("ringsize") \div 2 = val["ringsize"]
        BY <3>1, <4>1, Ranges
      <4>3. val["nthreads"] * val["ringsize"] <= UMax
        BY <2>4, <3>2, <4>2 DEF Sound
      <4>4. val["nthreads"] * val["ringsize"] \in Nat /\ val["nthreads"] * val["ringsize"] > 0
        BY <3>1, <4>1, Ranges
      <4>5. Threads = val["nthreads"] * val["ringsize"]
        BY <3>2, <4>3, <4>4, Wraps, Ranges DEF Threads
      <4>6. QED
        BY <2>1, <2>2, <3>1, <3>2, <4>4, <4>5
    <3>3. CASE bench = "locality"
      <4>1. PICK n \in 0..UMax : n = val["nthreads"]
        BY <3>1
      <4>2. Spots \in 1..n
        <5>1. CASE Asked("nspots") = 0
          <6>1. val["nspots"] = 0
            BY <2>1, <2>3, <2>4, <3>3, <5>1, Tables
          <6>2. val["nthreads"] > val["nprocs"]
            BY <2>4, <3>1, <3>3, <5>1 DEF Sound
          <6>3. Wrap(val["nthreads"] - val["nprocs"]) = val["nthreads"] - val["nprocs"]
            BY <3>1, <6>2, Wraps, Ranges
          <6>4. QED
            BY <3>1, <4>1, <6>1, <6>2, <6>3, Ranges DEF Spots
        <5>2. CASE Asked("nspots") # 0
          <6>1. Asked("nspots") \in 1..Asked("nthreads")
            BY <2>4, <3>3, <5>2 DEF Sound
          <6>2. 2 * val["nspots"] = Asked("nspots") /\ val["nspots"] \in 0..UMax
            BY <2>1, <2>3, <2>4, <3>1, <3>3, <6>1, Tables
          <6>3. val["nspots"] \in 1..n
            BY <3>1, <4>1, <6>1, <6>2, Ranges
          <6>4. QED
            BY <6>3 DEF Spots
        <5>3. QED
          BY <5>1, <5>2
      <4>3. Threads = n
        BY <3>3, <4>1 DEF Threads
      <4>4. Wrap(Threads - Spots) = Threads - Spots
        BY <4>1, <4>2, <4>3, Wraps, Ranges
      <4>5. lang # "cfa" => size.left = Threads - Spots
        BY <2>1, <3>3, <4>4 DEF Sizes
      <4>6. QED
        BY <2>1, <2>2, <3>1, <3>3, <4>1, <4>2, <4>3, <4>5, Ranges
    <3>4. CASE bench \notin {"cycle", "locality"}
      <4>1. bench = "churn" => val["spots"] > 0
        BY <2>1, <2>3, <2>4, Tables
      <4>2. Threads = val["nthreads"]
        BY <3>4 DEF Threads
      <4>3. QED
        BY <2>1, <2>2, <3>1, <3>4, <4>1, <4>2
    <3>5. QED
      BY <3>2, <3>3, <3>4
  <2>5. bench = "transfer" => ~clock_mode /\ val["nprocs"] >= 2 /\ size.threads > 0
    <3>1. val["nprocs"] \in 0..UMax /\ val["nthreads"] \in 0..UMax
      BY ValuesRead
    <3>2. bench = "transfer" => ~clock_mode /\ ~(val["nprocs"] < 2) /\ val["nthreads"] # 0
      BY <2>1 DEF Refused, DividesByZero
    <3>3. QED
      BY <2>1, <2>2, <3>1, <3>2, Ranges DEF Threads
  <2>6. bench = "locality" /\ lang = "cfa" => size.spots > 0
    <3>1. bench = "locality" => Sizes.spots \in 0..UMax
      BY SizesType
    <3>2. QED
      BY <2>1, <2>2, <3>1, Ranges DEF Refused
  <2>7. lang = "cc" => Cardinality(cpus) = Min({Cardinality(allowed), val["nprocs"]})
    BY DEF IInv, Clearing, Wanted
  <2>8. QED
    BY <2>4, <2>5, <2>6, <2>7 DEF SizesFit
<1>2. QED
  BY <1>1, IInvAlways, PTL
=============================================================================
