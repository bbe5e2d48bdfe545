---- MODULE Numbers ----
(***************************************************************************)
(* The number formatting and parsing of strLib.c and stdLib.c, and the     *)
(* local time of shellFunctions.c.  An int has WIDTH bits and wraps        *)
(* around; a character is the digit it stands for, or a mark.              *)
(***************************************************************************)
EXTENDS Integers, FiniteSets, Sequences

Seqs == INSTANCE SequencesExt

CONSTANTS
    WIDTH,          \* 32
    UNIT,           \* 1024, the bytes of a KB
    MaxDigits,      \* bound of the model: the longest text
    Totals          \* bound of the model: the heap sizes that mem is run with

ASSUME NumberAssumption ==
    /\ WIDTH \in Nat \ {0} /\ UNIT \in Nat \ {0, 1} /\ MaxDigits \in Nat
    /\ Totals \subseteq Nat \ {0}

VARIABLES
    call,     \* what is called, and with what
    returned,
    output    \* what it wrote, or the number it returned

numberVars == <<call, returned, output>>

MINUS == 100
JUNK == 101      \* any other character; also what digits[] gives for a negative index
PERCENT == 102
SPEC_D == 103    \* the letters 'd' and 'c' of a format
SPEC_C == 104
SPACE == 105
ERROR == -1

\* n times the same factor.
Power(factor, n) ==
    LET power[k \in 0 .. n] == IF k = 0 THEN 1 ELSE factor * power[k - 1] IN power[n]

INT_MIN == -Power(2, WIDTH - 1)
Int32(n) == ((n - INT_MIN) % Power(2, WIDTH)) + INT_MIN
IntValues == INT_MIN .. -INT_MIN - 1

Reversed(s) == [j \in DOMAIN s |-> s[Len(s) + 1 - j]]

\* The division loop that all conversions have, lowest digit first.
DigitsOf(number, base) ==
    LET digits[n \in 0 .. number] == IF n < base THEN <<n>> ELSE <<n % base>> \o digits[n \div base]
    IN  digits[number]
\* The same for a negative int: '%' is 0 or negative, an index outside of digits[].
JunkOf(number, base) ==
    [j \in DOMAIN DigitsOf(-number, base) |-> IF DigitsOf(-number, base)[j] = 0 THEN 0 ELSE JUNK]

\* convert_to_base_string, without the 0x or 0b in front.  The sign goes in first and the whole
\* is turned round; INT_MIN stays negative.
convert_to_base_string(number, base) ==
    LET n == IF number < 0 /\ base = 10 THEN Int32(-number) ELSE number
        sign == IF number < 0 /\ base = 10 THEN <<MINUS>> ELSE <<>>
    IN  IF base \notin 2 .. 16 THEN <<>>
        ELSE Reversed(sign \o (IF n < 0 THEN JunkOf(n, base) ELSE DigitsOf(n, base)))

\* Variant with a bug: the sign is left to convert_to_base_string.
SignLeftOver(val) == convert_to_base_string(val, 10)
\* typeToBuffer for %d.
PrintedInt(val) ==
    IF val < 0 THEN <<MINUS>> \o convert_to_base_string(Int32(-val), 10)
    ELSE convert_to_base_string(val, 10)

\* argsToBuffer, for %d and %c: what is not a specifier it knows is dropped with its '%', and takes
\* no argument.  The last character of a format is no '%' with a specifier.
Converted(spec, arg) ==
    CASE spec = SPEC_D -> PrintedInt(arg) [] spec = SPEC_C -> <<arg>> [] OTHER -> <<>>
Takes(spec) == IF spec \in {SPEC_D, SPEC_C} THEN 1 ELSE 0
argsToBuffer(fmt, args) ==
    LET run[k \in 0 .. Len(fmt)] ==
            IF k = 0 THEN [buffer |-> <<>>, arg |-> 1, taken |-> FALSE]
            ELSE IF run[k - 1].taken THEN [run[k - 1] EXCEPT !.taken = FALSE]
            ELSE IF fmt[k] = PERCENT /\ k < Len(fmt)
            THEN [buffer |-> run[k - 1].buffer \o Converted(fmt[k + 1], args[run[k - 1].arg]),
                  arg |-> run[k - 1].arg + Takes(fmt[k + 1]), taken |-> TRUE]
            ELSE [run[k - 1] EXCEPT !.buffer = Append(@, fmt[k])]
    IN  run[Len(fmt)].buffer

\* intToString at the start of the buffer.
intToString(value) ==
    LET n == IF value < 0 THEN Int32(-value) ELSE value
        digits == IF n < 0 THEN <<JUNK>> ELSE DigitsOf(n, 10)   \* one round: value > 0 fails
    IN  Reversed(IF value < 0 THEN Append(digits, MINUS) ELSE digits)

IsDigit(c) == c \in 0 .. 9

\* satoi, in 64 bits: what has another character in it is 0.
ValueOf(s, base) ==
    LET value[n \in 0 .. Len(s)] == IF n = 0 THEN 0 ELSE value[n - 1] * base + s[n]
    IN  value[Len(s)]
Unsigned(s) == IF s # <<>> /\ s[1] = MINUS THEN Tail(s) ELSE s
satoi(s) ==
    IF \E j \in DOMAIN Unsigned(s) : ~IsDigit(Unsigned(s)[j]) THEN 0
    ELSE ValueOf(Unsigned(s), 10) * (IF Unsigned(s) = s THEN 1 ELSE -1)

\* stringToInt, in an int: it passes over the spaces in front.
LeadingSpaces(s) == {j \in DOMAIN s : \A k \in 1 .. j : s[k] = SPACE}
Unspaced(s) == SubSeq(s, Cardinality(LeadingSpaces(s)) + 1, Len(s))
stringToInt(s) ==
    LET digits == Unspaced(s)
    IN  IF digits = <<>> \/ \E j \in DOMAIN digits : ~IsDigit(digits[j]) THEN ERROR
        ELSE Int32(ValueOf(digits, 10))

\* to_decimal, in an int; a result of -1 is an error too.  The digits above 9 are A to F.
to_decimal(s, base) ==
    IF \E j \in DOMAIN s : s[j] >= base THEN ERROR ELSE Int32(ValueOf(s, base))
\* from_decimal: nothing at all for a negative number.
from_decimal(decimal, base) ==
    IF decimal < 0 THEN <<>> ELSE Reversed(DigitsOf(decimal, base))
Bases == {2, 8, 10, 16}
convert(s, initBase, finalBase) ==
    LET decimal == to_decimal(s, initBase)
    IN  IF decimal = ERROR THEN <<ERROR>> ELSE from_decimal(decimal, finalBase)

\* print_padded_int: how many characters it prints, counting the digits by division.
Padded(value, width) ==
    LET digits == Len(DigitsOf(IF value < 0 THEN -value ELSE value, 10))
        len == IF value < 0 THEN digits + 1 ELSE digits
    IN  Len(PrintedInt(value)) + (IF width > len THEN width - len ELSE 0)

\* mem: an amount in the largest unit of four that is not above it, rounded in a double; and the
\* used part as a percentage and as a bar of 13 marks.
UnitOf(val) ==
    CHOOSE u \in 0 .. 3 : (u = 3 \/ val < Power(UNIT, u + 1)) /\ (u = 0 \/ val >= Power(UNIT, u))
Rounded(val) == LET unit == Power(UNIT, UnitOf(val)) IN (2 * val + unit) \div (2 * unit)
BarOf(percent) ==
    CASE percent <= 2 -> 1 [] percent \in 3 .. 4 -> 2 [] percent \in 5 .. 7 -> 3
      [] percent \in 8 .. 9 -> 4 [] percent = 100 -> 13 [] OTHER -> 4 + percent \div 10
mem(used, total) ==
    LET percent == (100 * used) \div total
    IN  <<UnitOf(used), Rounded(used), percent, BarOf(percent)>>

\* toUtcMinus3: days and months count from 1, year is the last two digits in 8 bits.
Feb(year) == IF year % 4 = 0 THEN 29 ELSE 28
\* Variant with a bug: the last day of February is taken from the year before.
LastDayEarly(month, year) ==
    IF month = 2 THEN Feb(year - 1) ELSE IF month \in {4, 6, 9, 11} THEN 30 ELSE 31
LastDay(month, year) ==
    IF month = 2 THEN Feb(year) ELSE IF month \in {4, 6, 9, 11} THEN 30 ELSE 31
toUtcMinus3(t) ==
    IF t.hour >= 3 THEN [t EXCEPT !.hour = @ - 3]
    ELSE LET month == IF t.month = 1 THEN 12 ELSE t.month - 1
             year == IF t.month = 1 THEN (t.year - 1) % 256 ELSE t.year
         IN  IF t.day > 1 THEN [t EXCEPT !.hour = @ + 21, !.day = @ - 1]
             ELSE [hour |-> t.hour + 21, day |-> LastDay(month, year), month |-> month, year |-> year]

----------------------------------------------------------------------------
\* One call per behaviour

Texts(chars) == UNION {[1 .. n -> chars] : n \in 0 .. MaxDigits}
\* No format takes more arguments than it is given, which va_arg does not notice.
Arguments == <<10, -7, 5, 0>>
Formats ==
    {fmt \in Texts({PERCENT, SPEC_D, SPEC_C, JUNK}) :
        Cardinality({j \in DOMAIN fmt : fmt[j] \in {SPEC_D, SPEC_C}}) <= Len(Arguments)}
Calls ==
    [f : {"print_int", "intToString"}, n : IntValues]
    \cup [f : {"print_padded_int"}, n : IntValues, width : 0 .. MaxDigits]
    \cup [f : {"satoi", "stringToInt"}, s : Texts({0, 1, 9, MINUS, SPACE, JUNK})]
    \cup [f : {"convert"}, s : Texts({0, 1, 2, 8, 10, 15}), from : Bases, to : Bases]
    \cup [f : {"toUtcMinus3"},
          t : {t \in [hour : {0, 2, 3, 23}, day : 1 .. 31, month : 1 .. 12, year : {0, 1, 3, 4, 99}] :
                  t.day <= LastDay(t.month, t.year)}]
    \cup [f : {"convert_to_base_string"}, n : IntValues, base : Bases]
    \cup [f : {"printf"}, fmt : Formats, args : {Arguments}]
    \cup {[f |-> "mem", used |-> m[1], total |-> m[2]] :
              m \in UNION {(0 .. total) \X {total} : total \in Totals}}

NumberInit == call \in Calls /\ returned = FALSE /\ output = <<>>

Result ==
    CASE call.f = "print_int" -> PrintedInt(call.n)
      [] call.f = "printf" -> argsToBuffer(call.fmt, call.args)
      [] call.f = "intToString" -> intToString(call.n)
      [] call.f = "print_padded_int" -> <<Padded(call.n, call.width)>>
      [] call.f = "satoi" -> <<satoi(call.s)>>
      [] call.f = "stringToInt" -> <<stringToInt(call.s)>>
      [] call.f = "convert" -> convert(call.s, call.from, call.to)
      [] call.f = "toUtcMinus3" -> <<toUtcMinus3(call.t)>>
      [] call.f = "mem" -> mem(call.used, call.total)
      [] OTHER -> convert_to_base_string(call.n, call.base)
NumberNext == ~returned /\ returned' = TRUE /\ output' = Result /\ UNCHANGED call
NumberSpec == NumberInit /\ [][NumberNext]_numberVars

----------------------------------------------------------------------------
\* Properties

\* The positions of a format where a specifier begins: a '%' that no '%' has taken for itself.
Specifiers(fmt) ==
    {i \in 1 .. Len(fmt) - 1 :
        /\ fmt[i] = PERCENT
        /\ LET run == {j \in 1 .. i : \A k \in j .. i : fmt[k] = PERCENT} IN Cardinality(run) % 2 = 1}
ArgumentOf(fmt, i) ==
    1 + Cardinality({j \in Specifiers(fmt) : j < i /\ fmt[j + 1] \in {SPEC_D, SPEC_C}})
PrintedAt(fmt, args, i) ==
    IF i \in Specifiers(fmt) THEN Converted(fmt[i + 1], args[ArgumentOf(fmt, i)])
    ELSE IF i - 1 \in Specifiers(fmt) THEN <<>> ELSE <<fmt[i]>>

\* convert writes the number it was given: when it fits an int, the digits in the one base and the
\* digits in the other have the same value, there is no zero in front, and a digit the base does
\* not have is refused.  A number that does not fit may come out as any other, or as nothing.
ConvertKeepsTheValue ==
    IF \E j \in DOMAIN call.s : call.s[j] >= call.from THEN output = <<ERROR>>
    ELSE ValueOf(call.s, call.from) \in IntValues =>
            /\ ValueOf(output, call.to) = ValueOf(call.s, call.from)
            /\ output[1] = 0 => Len(output) = 1
            /\ \A j \in DOMAIN output : output[j] < call.to

\* mem shows an amount to half a unit, and a bar that is never shorter than the share it stands for.
MemIsClose ==
    LET unit == Power(UNIT, output[1])
    IN  /\ 2 * output[2] * unit - 2 * call.used \in -unit .. unit
        /\ output[4] \in 1 .. 13 /\ 13 * output[3] <= 100 * output[4]
        /\ output[4] = 13 => 10 * call.used >= 9 * call.total

\* What the library writes it reads back: an int printed with %d or intToString is the int that
\* satoi reads, a text that stringToInt takes for a number is, but for the spaces in front, the same
\* number to satoi, cut to an int, convert and mem keep the value, a padded int takes as many columns as were asked for, or as
\* it needs, and a format prints its arguments each once, where its specifiers are.  INT_MIN, which
\* has no opposite, comes out as other characters.
NumbersRoundTrip ==
    returned =>
        /\ (call.f \in {"print_int", "intToString"} /\ call.n # INT_MIN) => satoi(output) = call.n
        /\ (call.f = "stringToInt" /\ output # <<ERROR>>) => output = <<Int32(satoi(Unspaced(call.s)))>>
        /\ call.f = "convert" => ConvertKeepsTheValue
        /\ call.f = "mem" => MemIsClose
        /\ (call.f = "print_padded_int" /\ call.n # INT_MIN) =>
               output[1] \in {call.width, Len(PrintedInt(call.n))} /\ output[1] >= call.width
        /\ call.f = "printf" =>
               output = Seqs!FlattenSeq([i \in DOMAIN call.fmt |-> PrintedAt(call.fmt, call.args, i)])

\* The hours since the start of 2000, with the calendar as it is.
DaysBefore(month, year) ==
    LET days[m \in 1 .. 12] ==
            IF m = 1 THEN 0
            ELSE days[m - 1] + (CASE m - 1 \in {4, 6, 9, 11} -> 30
                                  [] m - 1 = 2 -> IF year % 4 = 0 THEN 29 ELSE 28
                                  [] OTHER -> 31)
    IN  365 * year + (year + 3) \div 4 + days[month]
Hours(t) == 24 * (DaysBefore(t.month, t.year) + t.day - 1) + t.hour

\* The time command shows the time three hours before that of the clock, across the start of a
\* day, a month, a year and the end of February; but for the first hours of 2000.
LocalTimeIsUtcMinus3 ==
    (call.f = "toUtcMinus3" /\ returned /\ Hours(call.t) >= 3) =>
        /\ Hours(output[1]) = Hours(call.t) - 3
        /\ output[1].hour \in 0 .. 23 /\ output[1].month \in 1 .. 12 /\ output[1].day >= 1
====
