------------------------------- MODULE Strings -------------------------------
(***************************************************************************)
(* The String class of kernel/types/string/string.h over a heap of texts,  *)
(* and the functions of string.cpp and integer.cpp on them.                *)
(*                                                                         *)
(* A text is a sequence of characters, without its terminator.  A String   *)
(* owns the block it points to; every operation makes its new text first   *)
(* and frees the old one then, also when both operands are one object.     *)
(* malloc always succeeds here (Kernel has what happens when it does not). *)
(***************************************************************************)
EXTENDS Integers, SequencesExt

CONSTANTS
  Names,        \* String variables
  Literals,     \* texts written in the code
  Numbers,      \* integers put into texts
  WIDTH,        \* bits of an integer (64)
  MAX_TEXT,     \* bound: length of a text
  MAX_LEAKS     \* bound: blocks lost

\* 2^n.
Pow2[n \in Nat] == IF n = 0 THEN 1 ELSE 2 * Pow2[n - 1]

ASSUME StringsAssumption ==
  /\ WIDTH \in Nat \ {0, 1}
  /\ Numbers \subseteq -Pow2[WIDTH - 1] .. (Pow2[WIDTH - 1] - 1)
  /\ \A text \in Literals : text \in Seq(Range(text))
  /\ MAX_TEXT \in Nat /\ MAX_LEAKS \in Nat

Digits == <<"0", "1", "2", "3", "4", "5", "6", "7", "8", "9">>
Minus == "-"
Space == " "
Junk == "junk"
nullptr == 0

VARIABLES
  heap,      \* block -> the text in it
  data,      \* the block of each String, nullptr when there is no such object
  value,     \* ghost: the text it should have
  number,    \* ghost: the number it was made of, if it was, as a set
  leaks      \* ghost: negative numbers put into texts

vars == <<heap, data, value, number, leaks>>
-----------------------------------------------------------------------------
(* string.cpp and integer.cpp                                                 *)

Part(text, from, len) == SubSeq(text, from + 1, from + len)

\* The offsets at which a comparison of str_contains, str_count and str_replace hits.
Hits(text, searchText) ==
  {i \in 0 .. (Len(text) - Len(searchText)) : Part(text, i, Len(searchText)) = searchText}

str_contains(text, searchText) == Hits(text, searchText) # {}
str_count(text, searchText) == Cardinality(Hits(text, searchText))

str_starts_with(text, searchText) ==
  Len(searchText) <= Len(text) /\ \A i \in DOMAIN searchText : text[i] = searchText[i]

str_ends_with(text, searchText) ==
  LET offset == Len(text) - Len(searchText)
  IN  offset >= 0 /\ \A i \in DOMAIN searchText : text[offset + i] = searchText[i]

str_cut_end(text, n) == IF n >= Len(text) THEN <<>> ELSE SubSeq(text, 1, Len(text) - n)

\* For n up to the length; its callers cut no more.
str_cut_start(text, n) == SubSeq(text, n + 1, Len(text))

\* Mutant: the offset of the text behind the replacements so far is not kept.
replace_step_no_offset(searchText, replacedBy, done, hit) ==
  [text |-> Part(done.text, 0, hit) \o replacedBy
              \o str_cut_start(done.text, hit + Len(searchText)),
   offset |-> 0]

\* One replacement, at its place in the text as it is by now.
replace_step(searchText, replacedBy, done, hit) ==
  LET at == hit + done.offset
  IN  [text |-> Part(done.text, 0, at) \o replacedBy
                  \o str_cut_start(done.text, at + Len(searchText)),
       offset |-> done.offset + Len(replacedBy) - Len(searchText)]

\* The hits as the first loop of str_replace lists them (its array holds 1024).
findings(text, searchText) ==
  LET found[n \in 0 .. (Len(text) - Len(searchText) + 1)] ==
        IF n = 0 THEN <<>>
        ELSE IF n - 1 \in Hits(text, searchText) THEN Append(found[n - 1], n - 1)
        ELSE found[n - 1]
  IN  found[Len(text) - Len(searchText) + 1]

\* All hits are looked up first, then replaced from left to right.
str_replace(text, searchText, replacedBy) ==
  LET hits == findings(text, searchText)
      done[k \in 0 .. Len(hits)] ==
        IF k = 0 THEN [text |-> text, offset |-> 0]
        ELSE replace_step(searchText, replacedBy, done[k - 1], hits[k])
  IN  IF Len(searchText) > Len(text) THEN text ELSE done[Len(hits)].text

Ink(text) == {i \in DOMAIN text : text[i] # Space}

str_trim_start(text) == IF Ink(text) = {} THEN <<>> ELSE SubSeq(text, Min(Ink(text)), Len(text))
str_trim_end(text) == IF Ink(text) = {} THEN <<>> ELSE SubSeq(text, 1, Max(Ink(text)))
str_trim(text) ==
  IF Ink(text) = {} THEN <<>> ELSE SubSeq(text, Min(Ink(text)), Max(Ink(text)))

str_split(text, splitChar) ==
  FoldLeft(LAMBDA parts, c : IF c = splitChar THEN Append(parts, <<>>)
                             ELSE [parts EXCEPT ![Len(parts)] = Append(@, c)],
           << <<>> >>, text)

str_repeat(text, amount) == FlattenSeq([i \in 1 .. amount |-> text])
str_move_right(text, moveAmount) == str_repeat(<<Space>>, moveAmount) \o text

\* to_string of an unsigned value in base 10.
Decimal ==
  LET digits[n \in Nat] ==
        IF n < 10 THEN <<Digits[n + 1]>> ELSE Append(digits[n \div 10], Digits[(n % 10) + 1])
  IN  digits

digit_value(c) == (CHOOSE i \in DOMAIN Digits : Digits[i] = c) - 1

Wrap(n) == n % Pow2[WIDTH]
Signed(n) == IF n >= Pow2[WIDTH - 1] THEN n - Pow2[WIDTH] ELSE n

\* The product wraps, so does the negation of the least integer.
to_int(text) ==
  LET negative == text # <<>> /\ Head(text) = Minus
      digits == IF negative THEN Tail(text) ELSE text
      result == FoldLeft(LAMBDA r, c : Wrap(r * 10 + digit_value(c)), 0, digits)
  IN  Signed(Wrap(IF negative THEN 0 - result ELSE result))
-----------------------------------------------------------------------------
(* The heap.  malloc gives the first free block.                              *)

Fresh(h) == Min((1 .. (Cardinality(DOMAIN h) + 1)) \ DOMAIN h)
Put(h, text) == [p \in DOMAIN h \cup {Fresh(h)} |-> IF p = Fresh(h) THEN text ELSE h[p]]
free(h, p) == [q \in DOMAIN h \ {p} |-> h[q]]
Read(h, p) == IF p \in DOMAIN h THEN h[p] ELSE <<Junk>>

\* A value and the block it is in.
Made(h, text) == [h |-> Put(h, text), p |-> Fresh(h)]

str_combine(h, a, b) == Made(h, Read(h, a) \o Read(h, b))

\* to_string of a signed number: the digits of a negative one are combined with the sign
\* into a second text, and the first is not freed.
to_string(h, n) ==
  IF n >= 0 THEN Made(h, Decimal[n]) ELSE Made(Put(h, Decimal[-n]), <<Minus>> \o Decimal[-n])

\* An argument of the constructor: a literal (or a character), a number, or another
\* String through its conversion to const char*.
Args ==
  [kind : {"text"}, text : Literals] \cup [kind : {"number"}, n : Numbers]
    \cup [kind : {"String"}, of : Names]

to_cstr(h, arg) ==
  CASE arg.kind = "text" -> Made(h, arg.text)
    [] arg.kind = "number" -> to_string(h, arg.n)
    [] arg.kind = "String" -> Made(h, Read(h, data[arg.of]))

\* What the arguments say, and the numbers that lose a block.
ArgText(arg) ==
  CASE arg.kind = "text" -> arg.text
    [] arg.kind = "number" -> IF arg.n < 0 THEN <<Minus>> \o Decimal[-arg.n] ELSE Decimal[arg.n]
    [] arg.kind = "String" -> value[arg.of]

Negative(args) == {i \in DOMAIN args : args[i].kind = "number" /\ args[i].n < 0}

\* All arguments are converted, then added one by one to an empty text.
Compose(args) ==
  LET convert(acc, arg) ==
        LET part == to_cstr(acc.h, arg) IN [h |-> part.h, parts |-> Append(acc.parts, part.p)]
      converted == FoldLeft(convert, [h |-> heap, parts |-> <<>>], args)
      add(acc, part) ==
        LET combined == str_combine(acc.h, acc.p, part)
        IN  [combined EXCEPT !.h = free(free(@, acc.p), part)]
  IN  FoldLeft(add, Made(converted.h, <<>>), converted.parts)

Objects == {x \in Names : data[x] # nullptr}

Becomes(x, made, text, n) ==
  /\ Len(text) <= MAX_TEXT
  /\ heap' = made.h
  /\ data' = [data EXCEPT ![x] = made.p]
  /\ value' = [value EXCEPT ![x] = text]
  /\ number' = [number EXCEPT ![x] = n]
-----------------------------------------------------------------------------
Init ==
  /\ heap = <<>>
  /\ data = [x \in Names |-> nullptr]
  /\ value = [x \in Names |-> <<>>]
  /\ number = [x \in Names |-> {}]
  /\ leaks = 0

\* String(args...)
String(x, args) ==
  /\ x \notin Objects
  /\ \A i \in DOMAIN args : args[i].kind = "String" => args[i].of \in Objects
  /\ leaks' = leaks + Cardinality(Negative(args)) /\ leaks' <= MAX_LEAKS
  /\ Becomes(x, Compose(args), FlattenSeq([i \in DOMAIN args |-> ArgText(args[i])]),
             IF Len(args) = 1 /\ args[1].kind = "number" THEN {args[1].n} ELSE {})

\* String(const String& b)
Copy(x, y) ==
  /\ x \notin Objects /\ y \in Objects
  /\ Becomes(x, Made(heap, Read(heap, data[y])), value[y], number[y])
  /\ UNCHANGED leaks

\* ~String()
Destroy(x) ==
  /\ x \in Objects
  /\ heap' = free(heap, data[x])
  /\ data' = [data EXCEPT ![x] = nullptr]
  /\ value' = [value EXCEPT ![x] = <<>>]
  /\ number' = [number EXCEPT ![x] = {}]
  /\ UNCHANGED leaks

\* The new text takes the place of the old one, which is freed.
Replace(x, made) == [made EXCEPT !.h = free(@, data[x])]

\* Mutant: the old text is freed before the other one is copied.
Assign_freeing_first(x, y) ==
  /\ x \in Objects /\ y \in Objects
  /\ LET freed == free(heap, data[x])
     IN  Becomes(x, Made(freed, Read(freed, data[y])), value[y], number[y])
  /\ UNCHANGED leaks

\* x = y, which may be one object
Assign(x, y) ==
  /\ x \in Objects /\ y \in Objects
  /\ Becomes(x, Replace(x, Made(heap, Read(heap, data[y]))), value[y], number[y])
  /\ UNCHANGED leaks

\* x += y, which may be one object
AddString(x, y) ==
  /\ x \in Objects /\ y \in Objects
  /\ Becomes(x, Replace(x, str_combine(heap, data[x], data[y])), value[x] \o value[y], {})
  /\ UNCHANGED leaks

\* x += "text", x += 'c'
AddText(x, text) ==
  /\ x \in Objects
  /\ Becomes(x, Replace(x, Made(heap, Read(heap, data[x]) \o text)), value[x] \o text, {})
  /\ UNCHANGED leaks

Next ==
  \E x \in Names :
    \/ \E n \in 0 .. 2 : \E args \in [1 .. n -> Args] : String(x, args)
    \/ Destroy(x)
    \/ \E y \in Names : Copy(x, y) \/ Assign(x, y) \/ AddString(x, y)
    \/ \E text \in Literals : AddText(x, text)

Spec == Init /\ [][Next]_vars
-----------------------------------------------------------------------------
\* Through any sequence of constructions, copies, self-assignments, additions of an object
\* to itself and destructions, every String has a block of its own with exactly the text
\* it should have, nothing else is in use but one block for each negative number printed,
\* and what was made of a number reads as that number again (int64_t's least included).
StringsOwned ==
  /\ \A x \in Objects : data[x] \in DOMAIN heap /\ heap[data[x]] = value[x]
  /\ \A x, y \in Objects : data[x] = data[y] => x = y
  /\ Cardinality(DOMAIN heap) = Cardinality(Objects) + leaks
  /\ \A x \in Objects : \A n \in number[x] : to_int(heap[data[x]]) = n

\* A text that ends as it begins can hit twice at overlapping places.
SelfOverlaps(text) == \E n \in 1 .. (Len(text) - 1) : Part(text, 0, n) = Part(text, Len(text) - n, n)

\* What is to be left of the character at i.
Replaced(text, searchText, replacedBy, i) ==
  CASE i - 1 \in Hits(text, searchText) -> replacedBy
    [] \E h \in Hits(text, searchText) : h + 1 < i /\ i <= h + Len(searchText) -> <<>>
    [] OTHER -> <<text[i]>>

\* The functions on the texts of any two objects: str_replace, which finds everything
\* before it moves anything, replaces each hit once and at its place (where hits cannot
\* overlap), the parts of str_split are those between the separators, trimming
\* takes blanks and nothing else from both ends, and the searches agree with each other.
TextFunctionsRight ==
  \A x, y \in Objects :
    LET t == value[x]  s == value[y]
    IN  /\ s # <<>> /\ ~SelfOverlaps(s) => \A by \in Literals \cup {t} :
             str_replace(t, s, by) = FlattenSeq([i \in DOMAIN t |-> Replaced(t, s, by, i)])
        /\ Len(str_split(t, Space)) = str_count(t, <<Space>>) + 1
        /\ FlattenSeq([i \in DOMAIN str_split(t, Space) |-> <<Space>> \o str_split(t, Space)[i]])
             = str_move_right(t, 1)
        /\ str_trim(t) = str_trim_end(str_trim_start(t))
        /\ \E i, j \in 0 .. Len(t) : str_move_right(str_trim(t), i) \o str_repeat(<<Space>>, j) = t
        /\ str_contains(t, s) <=> \E n \in 0 .. Len(t) : str_starts_with(str_cut_start(t, n), s)
        /\ str_contains(t, s) <=> \E n \in 0 .. Len(t) : str_ends_with(str_cut_end(t, n), s)
=============================================================================
