------------------------------- MODULE Printf -------------------------------
(***************************************************************************)
(* K::vsnprintf (snprintf.cc), which formats what Debug prints, and what   *)
(* the C standard says of the same formats.  Characters are strings of one *)
(* character; int and long, 32 bits both, have Width bits here.  A float   *)
(* is a fraction <<n, d>>, which the code's long double holds exactly.     *)
(***************************************************************************)
EXTENDS Integers, SequencesExt, FiniteSetsExt

CONSTANTS
  Width,  \* of a long
  MaxLen  \* where dopr stops: 1000

digits == <<"0", "1", "2", "3", "4", "5", "6", "7", "8", "9", "a", "b", "c", "d", "e", "f">>
Digits == <<"0", "1", "2", "3", "4", "5", "6", "7", "8", "9", "A", "B", "C", "D", "E", "F">>
char_to_int(ch) == (CHOOSE k \in 1..10 : digits[k] = ch) - 1
isdigit(ch) == \E k \in 1..10 : digits[k] = ch

unsigned(value) == value % 2^Width
abs_val(value) == IF value < 0 THEN -value ELSE value
pow10(exp) == 10^exp
Chars(n, ch) == [i \in 1..n |-> ch]
AtLeast0(n) == Max({n, 0})

\* The digits of a number, the last one first, as they are produced.
RECURSIVE convert(_, _, _)
convert(n, base, set) ==
  <<set[(n % base) + 1]>> \o IF n < base THEN <<>> ELSE convert(n \div base, base, set)

-----------------------------------------------------------------------------
(* The conversions.  max is -1 without a precision.                          *)

signvalue(negative, flags) ==
  IF negative THEN <<"-">> ELSE IF "+" \in flags THEN <<"+">>
  ELSE IF " " \in flags THEN <<" ">> ELSE <<>>

\* Padding counts as part of the characters that max allows.
fmtstr(value, flags, min, max) ==
  LET pad == Chars(AtLeast0(min - Len(value)), " ")
      all == IF "-" \in flags THEN value \o pad ELSE pad \o value
  IN  SubSeq(all, 1, Min({max, Len(all)}))

fmtint(value, base, min, max, flags) ==
  LET u       == "unsigned" \in flags
      places  == convert(IF u THEN unsigned(value) ELSE abs_val(value), base,
                         IF "up" \in flags THEN Digits ELSE digits)
      sign    == IF u THEN <<>> ELSE signvalue(value < 0, flags)
      zpad    == AtLeast0(max - Len(places))
      spad    == AtLeast0(min - Max({max, Len(places)}) - Len(sign))
      zeros   == Chars(IF "0" \in flags THEN Max({zpad, spad}) ELSE zpad, "0")
      spaces  == Chars(IF "0" \in flags THEN 0 ELSE spad, " ")
      number  == sign \o zeros \o Reverse(places)
  IN  IF "-" \in flags THEN number \o spaces ELSE spaces \o number

\* What is left of the point, and what is right of it as an integer of max
\* digits, rounded.  Zeros that this integer would begin with are lost, and put
\* behind it; and a sign is counted twice among zeros.
xround(n, d) == n \div d + IF 2 * (n % d) >= d THEN 1 ELSE 0
fmtfp(value, min, precision, flags) ==
  LET max   == IF precision < 0 THEN 6 ELSE Min({precision, 9})
      n     == abs_val(value[1])
      d     == value[2]
      frac  == xround(pow10(max) * (n % d), d)
      carry == IF frac >= pow10(max) THEN 1 ELSE 0
      left  == Reverse(convert(n \div d + carry, 10, digits))
      right == Reverse(convert(frac - carry * pow10(max), 10, digits))
      sign  == signvalue(value[1] < 0, flags)
      pad   == AtLeast0(min - Len(left) - max - 1 - Len(sign))
      point == IF max > 0 THEN <<".">> \o right ELSE <<>>
      zeros == Chars(AtLeast0(max - Len(right)), "0")
  IN  IF "-" \in flags THEN sign \o left \o point \o zeros \o Chars(pad, " ")
      ELSE IF "0" \in flags
        THEN sign \o Chars(IF sign = <<>> THEN pad ELSE AtLeast0(pad - 1), "0") \o left \o point \o zeros
      ELSE Chars(pad, " ") \o sign \o left \o point \o zeros

-----------------------------------------------------------------------------
(* dopr: a state machine over the format, the rest of which f.format is.     *)

ch(f) == Head(f.format)
Next1(f) == [f EXCEPT !.format = Tail(@)]
Goes(f, state) == [f EXCEPT !.state = state]
Puts(f, chars) == [f EXCEPT !.out = @ \o chars]

NoConversion(f) == [f EXCEPT !.state = "default", !.flags = {}, !.min = 0, !.max = -1]

Default(f) ==
  Next1(IF ch(f) = "%" THEN Goes(f, "flags") ELSE Puts(f, <<ch(f)>>))

Flags(f) ==
  IF ch(f) \in {"-", "+", " ", "#", "0"}
    THEN Next1([f EXCEPT !.flags = @ \cup {ch(f)}])
    ELSE Goes(f, "min")

\* A number, or the next argument.
Number(f, field, old, next) ==
  IF isdigit(ch(f)) THEN Next1([f EXCEPT ![field] = 10 * old + char_to_int(ch(f))])
  ELSE IF ch(f) = "*"
    THEN Next1([f EXCEPT ![field] = Head(f.args), !.args = Tail(@), !.state = next])
  ELSE Goes(f, next)
MinWidth(f) == Number(f, "min", f.min, "dot")
Dot(f) == IF ch(f) = "." THEN Next1(Goes(f, "max")) ELSE Goes(f, "mod")
Precision(f) == Number(f, "max", AtLeast0(f.max), "mod")

\* h, l and L are read; int and long are the same.
Mod(f) == IF ch(f) \in {"h", "l", "L"} THEN Next1(Goes(f, "conv")) ELSE Goes(f, "conv")

\* What a conversion puts; e, g and n take an argument and put nothing.
Converted(f) ==
  LET c == ch(f)
      a == Head(f.args)
      int(base, flags) == fmtint(a, base, f.min, AtLeast0(f.max), f.flags \cup flags)
  IN  CASE c \in {"d", "i"} -> int(10, {})
        [] c = "o" -> int(8, {"unsigned"})
        [] c = "u" -> int(10, {"unsigned"})
        [] c = "x" -> int(16, {"unsigned"})
        [] c = "X" -> int(16, {"unsigned", "up"})
        [] c = "p" -> int(16, {})
        [] c = "f" -> fmtfp(a, f.min, f.max, f.flags)
        [] c = "c" -> <<a>>
        [] c = "s" -> fmtstr(a, f.flags, f.min, IF f.max < 0 THEN MaxLen ELSE f.max)
        [] c = "%" -> <<"%">>
        [] OTHER   -> <<>>
Takes == {"d", "i", "o", "u", "x", "X", "p", "f", "c", "s", "e", "E", "g", "G", "n"}

\* Mutant: flags, width and precision stay for the next conversion.
ConvAndKeep(f) ==
  LET g == Puts(f, Converted(f))
  IN  Next1([g EXCEPT !.args = IF ch(f) \in Takes THEN Tail(@) ELSE @, !.state = "default"])

\* Behind w one more character is left out.
Conv(f) ==
  LET g == Puts(f, Converted(f))
      h == NoConversion([g EXCEPT !.args = IF ch(f) \in Takes THEN Tail(@) ELSE @])
  IN  Next1(IF ch(f) = "w" /\ Len(f.format) > 1 THEN Next1(h) ELSE h)

RECURSIVE dopr(_)
dopr(f) ==
  IF f.format = <<>> \/ Len(f.out) >= MaxLen THEN f.out
  ELSE dopr(CASE f.state = "default" -> Default(f)
              [] f.state = "flags"   -> Flags(f)
              [] f.state = "min"     -> MinWidth(f)
              [] f.state = "dot"     -> Dot(f)
              [] f.state = "max"     -> Precision(f)
              [] f.state = "mod"     -> Mod(f)
              [] f.state = "conv"    -> Conv(f))

vsnprintf(format, args) ==
  dopr(NoConversion([state |-> "default", format |-> format, args |-> args, flags |-> {},
                     min |-> 0, max |-> -1, out |-> <<>>]))

-----------------------------------------------------------------------------
(* What the C standard says.  A line is a sequence of items: a character, or *)
(* a conversion of an argument with flags, a width of 0 for none and a       *)
(* precision of -1 for none.                                                 *)

Char(c) == [conv |-> "", arg |-> c]
Conversion(flags, width, precision, conv, arg) ==
  [flags |-> flags, width |-> width, precision |-> precision, conv |-> conv, arg |-> arg]

Decimal(n) == Reverse(convert(n, 10, digits))
Format(line) ==
  FlattenSeq([i \in DOMAIN line |->
    LET s == line[i] IN
    IF s.conv = "" THEN <<s.arg>>
    ELSE <<"%">> \o SetToSeq(s.flags) \o (IF s.width = 0 THEN <<>> ELSE Decimal(s.width))
         \o (IF s.precision < 0 THEN <<>> ELSE <<".">> \o Decimal(s.precision)) \o <<s.conv>>])
Args(line) ==
  FlattenSeq([i \in DOMAIN line |-> IF line[i].conv \in Takes THEN <<line[i].arg>> ELSE <<>>])

\* At least so many digits.
Padded(n, base, set, least) ==
  LET d == Reverse(convert(n, base, set)) IN Chars(AtLeast0(least - Len(d)), "0") \o d

Signed(s) == signvalue(IF s.conv = "f" THEN s.arg[1] < 0 ELSE s.arg < 0, s.flags)
Body(s) ==
  LET p    == IF s.precision < 0 THEN 1 ELSE s.precision
      frac == IF s.precision < 0 THEN 6 ELSE s.precision
      n    == xround(pow10(frac) * abs_val(s.arg[1]), s.arg[2])
  IN  CASE s.conv \in {"d", "i"} -> Padded(abs_val(s.arg), 10, digits, p)
        [] s.conv = "u" -> Padded(unsigned(s.arg), 10, digits, p)
        [] s.conv = "o" -> Padded(unsigned(s.arg), 8, digits, p)
        [] s.conv \in {"x", "p"} -> Padded(unsigned(s.arg), 16, digits, p)
        [] s.conv = "X" -> Padded(unsigned(s.arg), 16, Digits, p)
        [] s.conv = "f" -> Padded(n \div pow10(frac), 10, digits, 1)
                           \o IF frac = 0 THEN <<>>
                              ELSE <<".">> \o Padded(n % pow10(frac), 10, digits, frac)
        [] s.conv = "s" -> IF s.precision < 0 THEN s.arg ELSE SubSeq(s.arg, 1, Min({Len(s.arg), s.precision}))
        [] OTHER        -> <<s.arg>>

Said(s) ==
  LET sign == IF s.conv \in {"d", "i", "f"} THEN Signed(s) ELSE <<>>
      body == IF s.conv = "%" THEN <<"%">> ELSE Body(s)
      pad  == AtLeast0(s.width - Len(sign) - Len(body))
      zero == "0" \in s.flags /\ "-" \notin s.flags
              /\ s.conv \in {"d", "i", "u", "o", "x", "X", "f"}
              /\ (s.precision < 0 \/ s.conv = "f")
  IN  IF "-" \in s.flags THEN sign \o body \o Chars(pad, " ")
      ELSE IF zero THEN sign \o Chars(pad, "0") \o body
      ELSE Chars(pad, " ") \o sign \o body

\* What printf is to print.
Text(line) ==
  FlattenSeq([i \in DOMAIN line |-> IF line[i].conv = "" THEN <<line[i].arg>> ELSE Said(line[i])])
=============================================================================
