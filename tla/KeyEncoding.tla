----------------------------- MODULE KeyEncoding -----------------------------
(***************************************************************************)
(* key.c: base64 and hexadecimal keys without branches on secrets, in the  *)
(* arithmetic of C: characters are signed, int keeps the sign when shifted *)
(* right, uint8_t wraps.  Masks are read off the bits.                     *)
(***************************************************************************)
EXTENDS Integers, Sequences, SequencesExt, Bitwise

CONSTANTS
  KeyLen,   \* WG_KEY_LEN: 32, or another number that leaves 2 when divided by 3
  Texts     \* what is read: [form, chars], form "base64" or "hex"

VARIABLES
  input, state,    \* what is read; whether it has been read and written back
  accepted, key, output

keyVars == <<input, state, accepted, key, output>>

ASSUME KeyLenAssumption == KeyLen \in Nat /\ KeyLen % 3 = 2

\* Two's complement, wide enough for differences of characters and the byte above.
Word == 65536
Unsigned(x) == x % Word
Signed(x) == IF x >= Word \div 2 THEN x - Word ELSE x
BitAnd(x, y) == Signed(Unsigned(x) & Unsigned(y))
Shift8(x) == x \div 256
U8(x) == x % 256
Chars == -128..127

Range8 == 0..255
EqualsSign == 61

\* The sextet of one character, or -1: each range of the alphabet adds its part.
Within(low, high, c) == Shift8(BitAnd((low - 1) - c, c - (high + 1)))

Sextet == [c \in Chars |->
  -1 + BitAnd(Within(65, 90, c), c - 64)
     + BitAnd(Within(97, 122, c), c - 70)
     + BitAnd(Within(48, 57, c), c + 5)
     + BitAnd(Within(43, 43, c), 63)
     + BitAnd(Within(47, 47, c), 64)]

\* The sextets of a group are shifted into place; a -1 among them leaves the sign bit set.
DecodeBase64(chars) ==
  LET v == [i \in 1..4 |-> Sextet[chars[i]]] IN
  [sign  |-> IF \E i \in 1..4 : v[i] < 0 THEN 1 ELSE 0,
   bytes |-> <<U8(v[1] * 4 + v[2] \div 16), U8(v[2] * 16 + v[3] \div 4), U8(v[3] * 64 + v[4])>>]

\* 1 & ((ret - 1) >> 8)
IsZero(ret) == BitAnd(1, Shift8(ret - 1)) = 1

Groups == KeyLen \div 3

\* The last group has three characters; an 'A' is put in the place of the fourth.
GroupOf(chars, g) ==
  IF g <= Groups THEN SubSeq(chars, 4 * g - 3, 4 * g)
  ELSE Append(SubSeq(chars, 4 * g - 3, 4 * g - 1), 65)

\* Mutant: the bits that are left over in the last group are not looked at.
RetIgnoringRest(values) ==
  IF \E g \in DOMAIN values : values[g].sign = 1 THEN 1 ELSE 0

Ret(values) ==
  (IF \E g \in DOMAIN values : values[g].sign = 1 THEN 1 ELSE 0) | values[Groups + 1].bytes[3]

Refused == [accepted |-> FALSE, key |-> <<>>]

KeyFromBase64(chars) ==
  LET values == [g \in 1..(Groups + 1) |-> DecodeBase64(GroupOf(chars, g))]
      bytes  == FlattenSeq([g \in DOMAIN values |-> values[g].bytes]) IN
  IF Len(chars) # 4 * (Groups + 1) \/ chars[Len(chars)] # EqualsSign THEN Refused
  ELSE [accepted |-> IsZero(Ret(values)), key |-> SubSeq(bytes, 1, KeyLen)]

EncodeSextet == [x \in 0..63 |->
  x + 65 + BitAnd(Shift8(25 - x), 6) - BitAnd(Shift8(51 - x), 75)
    - BitAnd(Shift8(61 - x), 15) + BitAnd(Shift8(62 - x), 3)]

EncodeBase64(a, b, c) ==
  LET sextets == <<a \div 4, (a % 4) * 16 + b \div 16, (b % 16) * 4 + c \div 64, c % 64>>
  IN  [i \in 1..4 |-> EncodeSextet[sextets[i]]]

KeyToBase64(k) ==
  LET padded == Append(k, 0) IN
  Append(Front(FlattenSeq([g \in 1..(Groups + 1) |->
      EncodeBase64(padded[3 * g - 2], padded[3 * g - 1], padded[3 * g])])), EqualsSign)

\* Hexadecimal: uint8_t, with the masks made in unsigned int.
Digit == [c \in Chars |->
  LET cNum    == U8(c) ^^ 48
      cNum0   == U8(Shift8(cNum - 10))
      cAlpha  == U8((U8(c) & 223) - 55)
      cAlpha0 == U8(Shift8(Unsigned(cAlpha - 10) ^^ Unsigned(cAlpha - 16)))
  IN [bad   |-> U8(Shift8((cNum0 | cAlpha0) - 1)),
      value |-> (cNum0 & cNum) | (cAlpha0 & cAlpha)]]

KeyFromHex(chars) ==
  LET digits == [i \in DOMAIN chars |-> Digit[chars[i]]] IN
  IF Len(chars) # 2 * KeyLen THEN Refused
  ELSE [accepted |-> \A i \in DOMAIN digits : IsZero(digits[i].bad),
        key |-> [i \in 1..KeyLen |-> U8(digits[2 * i - 1].value * 16) + digits[2 * i].value]]

\* Mutant: the letters begin at 'B'.
HexDigitOffByOne == [n \in 0..15 |-> U8(88 + n + (U8(Shift8(n - 10)) & 217))]

HexDigit == [n \in 0..15 |-> U8(87 + n + (U8(Shift8(n - 10)) & 217))]

KeyToHex(k) ==
  FlattenSeq([i \in DOMAIN k |-> <<HexDigit[k[i] \div 16], HexDigit[k[i] % 16]>>])

KeyInit ==
  /\ input \in Texts /\ state = "given"
  /\ accepted = FALSE /\ key = <<>> /\ output = <<>>

\* Data(base64Key:) and Data(hexKey:) read a key; base64Key() and hexKey() write it.
ReadAndWrite ==
  LET result == IF input.form = "base64" THEN KeyFromBase64(input.chars) ELSE KeyFromHex(input.chars)
  IN
  /\ state = "given" /\ state' = "read"
  /\ accepted' = result.accepted /\ key' = result.key
  /\ output' = IF ~result.accepted THEN <<>>
               ELSE IF input.form = "base64" THEN KeyToBase64(result.key) ELSE KeyToHex(result.key)
  /\ UNCHANGED input

KeySpec == KeyInit /\ [][ReadAndWrite]_keyVars
-----------------------------------------------------------------------------
\* The alphabet of RFC 4648, and what a text of it stands for.
Alphabet ==
  [i \in 1..26 |-> 64 + i] \o [i \in 1..26 |-> 96 + i] \o [i \in 1..10 |-> 47 + i] \o <<43, 47>>

\* A text is a key's if its characters are of the alphabet, it ends in the sign that
\* fills it up, and the bits that no byte needs are zero: a key has one text.
IsBase64Key(chars) ==
  /\ Len(chars) = 4 * (Groups + 1) /\ Last(chars) = EqualsSign
  /\ \A i \in 1..(Len(chars) - 1) : chars[i] \in Range(Alphabet)
  /\ \E i \in 1..16 : chars[Len(chars) - 1] = Alphabet[4 * i - 3]

\* key_from_base64 accepts exactly the texts of keys, each of which is written again as
\* it was: no character outside the alphabet slips through a mask, and no key has two
\* texts.
OneTextPerKey ==
  state = "read" /\ input.form = "base64" =>
    /\ accepted <=> IsBase64Key(input.chars)
    /\ accepted => output = input.chars /\ \A i \in DOMAIN key : key[i] \in Range8

Lower(c) == IF c \in 65..70 THEN c + 32 ELSE c
IsHexDigit(c) == c \in (48..57) \cup (65..70) \cup (97..102)

\* key_from_hex accepts digits and letters of either case and nothing else among all
\* characters, and key_to_hex writes what was read in small letters.
HexIsReadAndWritten ==
  state = "read" /\ input.form = "hex" =>
    /\ accepted <=> Len(input.chars) = 2 * KeyLen /\ \A i \in DOMAIN input.chars : IsHexDigit(input.chars[i])
    /\ accepted => output = [i \in DOMAIN input.chars |-> Lower(input.chars[i])]
=============================================================================
