---------------------------- MODULE TagEncoding ----------------------------
(***************************************************************************)
(* The two encodings of a key as the tag of an OCI reference.  A character *)
(* is its code point; keys and tags are sequences of characters.           *)
(***************************************************************************)
EXTENDS Integers, Sequences, FiniteSets, SequencesExt

Encodings == {"custom", "base32_dnssec"}

\* What a decoding that fails returns: no text holds a negative code point.
Undecodable == <<-1>>

Underscore == 95
Letters == (97..122) \cup (65..90)
Figures == 48..57
Dashes == {45, 46}  \* `-' and `.'

\* The characters: the code points but the surrogates.
CodePoints == { n \in Nat : n <= 1114111 }
IsScalar(n) == n \in CodePoints /\ n \notin 55296..57343

----------------------------------------------------------------------------
(* CustomEncoding.                                                         *)

\* '0'..='9', 'a'..='z', 'A'..='Z', '-', '.'; indexed from 0.
symbol_table ==
  [n \in 0..63 |->
     CASE n < 10 -> 48 + n
       [] n \in 10..35 -> 87 + n
       [] n \in 36..61 -> 29 + n
       [] OTHER -> n - 17]

reverse_table == [c \in Letters \cup Figures \cup Dashes |->
                    CHOOSE n \in 0..63 : symbol_table[n] = c]

\* The digits of a code point to base 64, most significant first; 0 has none.
Digits[n \in Nat] ==
  IF n = 0 THEN <<>> ELSE Append(Digits[n \div 64], symbol_table[n % 64])

encode_char(c) == <<Underscore>> \o Digits[c] \o <<Underscore>>

\* Mutant: a leading `-' or `.' is kept.
CopiedAnywhere(key, i) == key[i] \in Letters \cup Figures \cup Dashes

\* Mutant: `_' is copied like a letter.
CopiedUnderscore(key, i) ==
  \/ key[i] \in Letters \cup Figures \cup {Underscore}
  \/ key[i] \in Dashes /\ i # 1

\* The characters that stand for themselves.
Copied(key, i) ==
  \/ key[i] \in Letters \cup Figures
  \/ key[i] \in Dashes /\ i # 1

CustomEncode(key) ==
  FlattenSeq([i \in DOMAIN key |-> IF Copied(key, i) THEN <<key[i]>> ELSE encode_char(key[i])])

\* Mutant: base 63.
Base63 == 63

\* symbol_table.len().
Base == 64

\* decode_char; above the last code point the value only grows, so that it
\* may stop there (in the code checked_mul and checked_add stop it).
decode_char(symbols) ==
  LET value[i \in 0..Len(symbols)] ==
        IF i = 0 THEN 0
        ELSE IF value[i - 1] > 1114111 THEN value[i - 1]
        ELSE value[i - 1] * Base + reverse_table[symbols[i]]
  IN value[Len(symbols)]

\* The underscores of a tag are brackets: the first opens, the second closes.
CustomDecode(tag) ==
  LET marks == { i \in DOMAIN tag : tag[i] = Underscore }
      opened(i) == { j \in marks : j < i }
      closes(i) == i \in marks /\ Cardinality(opened(i)) % 2 = 1
      plain(i) == i \notin marks /\ Cardinality(opened(i)) % 2 = 0
      from(i) == CHOOSE j \in opened(i) : \A h \in opened(i) : h <= j
      char(i) == decode_char(SubSeq(tag, from(i) + 1, i - 1))
  IN IF /\ Cardinality(marks) % 2 = 0
        /\ \A i \in DOMAIN tag \ marks : tag[i] \in DOMAIN reverse_table
        /\ \A i \in marks : closes(i) => IsScalar(char(i))
       THEN FlattenSeq([i \in DOMAIN tag |->
                          CASE closes(i) -> <<char(i)>>
                            [] plain(i) -> <<tag[i]>>
                            [] OTHER -> <<>>])
       ELSE Undecodable

----------------------------------------------------------------------------
(* BASE32_DNSSEC of the UTF-8 bytes (external: data_encoding, std).        *)

Utf8(c) ==
  LET tail(n) == 128 + ((c \div n) % 64)
  IN CASE c < 128 -> <<c>>
       [] 128 <= c /\ c < 2048 -> <<192 + (c \div 64), tail(1)>>
       [] 2048 <= c /\ c < 65536 -> <<224 + (c \div 4096), tail(64), tail(1)>>
       [] OTHER -> <<240 + (c \div 262144), tail(4096), tail(64), tail(1)>>

\* String::from_utf8: a character begins at each byte that continues none.
FromUtf8(bytes) ==
  LET starts == { i \in DOMAIN bytes : bytes[i] \notin 128..191 }
      \* The bytes from i up to the next beginning.
      piece(i) == SubSeq(bytes, i,
                    CHOOSE j \in i..Len(bytes) :
                      /\ j = Len(bytes) \/ j + 1 \in starts
                      /\ \A h \in (i + 1)..j : h \notin starts)
      tail(p, i) == p[i] % 64
      code(p) ==
        CASE Len(p) = 1 -> p[1]
          [] Len(p) = 2 -> 64 * (p[1] % 32) + tail(p, 2)
          [] Len(p) = 3 -> 4096 * (p[1] % 16) + 64 * tail(p, 2) + tail(p, 3)
          [] OTHER -> 262144 * (p[1] % 8) + 4096 * tail(p, 2) + 64 * tail(p, 3) + tail(p, 4)
      valid(p) == Len(p) <= 4 /\ IsScalar(code(p)) /\ Utf8(code(p)) = p
  IN IF bytes = <<>> \/ (1 \in starts /\ \A i \in starts : valid(piece(i)))
       THEN FlattenSeq([i \in DOMAIN bytes |->
                          IF i \in starts THEN <<code(piece(i))>> ELSE <<>>])
       ELSE Undecodable

\* The symbols 0-9 and a-v, and what they stand for in either case.
Base32Symbol(n) == IF n < 10 THEN 48 + n ELSE 87 + n
Base32Value(c) ==
  CASE c \in 48..57 -> c - 48
    [] c \in 97..118 -> c - 87
    [] c \in 65..86 -> c - 55
    [] OTHER -> 32

\* 2^n.
Power == [n \in 0..24 |-> 2 ^ n]

\* Regroup words of `from' bits as words of `to' bits, with zeros at the end:
\* a new word lies within three old ones.
Regroup(words, from, to, count) ==
  LET at(i) == IF i < Len(words) THEN words[i + 1] ELSE 0
      window(i) == (at(i) * Power[from] + at(i + 1)) * Power[from] + at(i + 2)
      word(start) == (window(start \div from) \div Power[3 * from - to - (start % from)]) % Power[to]
  IN [j \in 1..count |-> word((j - 1) * to)]

Base32Encode(key) ==
  LET bytes == FlattenSeq([i \in DOMAIN key |-> Utf8(key[i])])
      words == Regroup(bytes, 8, 5, (8 * Len(bytes) + 4) \div 5)
  IN [j \in DOMAIN words |-> Base32Symbol(words[j])]

\* No padding; the length must be one an encoding has, and the bits past the
\* last byte zero.
Base32Decode(tag) ==
  LET words == [i \in DOMAIN tag |-> Base32Value(tag[i])]
      bytes == Regroup(words, 5, 8, (5 * Len(tag)) \div 8)
  IN IF /\ \A i \in DOMAIN words : words[i] < 32
        /\ Len(tag) % 8 \notin {1, 3, 6}
        /\ Regroup(bytes, 8, 5, Len(tag)) = words
       THEN FromUtf8(bytes)
       ELSE Undecodable

----------------------------------------------------------------------------
(* TagEncoding and EncodingOptions; the main encoding heads the sequence.  *)

key_to_tag(e, key) == IF e = "custom" THEN CustomEncode(key) ELSE Base32Encode(key)
tag_to_key(e, tag) == IF e = "custom" THEN CustomDecode(tag) ELSE Base32Decode(tag)

\* The first encoding that decodes the tag, main and fallbacks in order.
DecodeTag(encodings, tag) ==
  LET decodes == { i \in DOMAIN encodings : tag_to_key(encodings[i], tag) # Undecodable }
  IN IF decodes = {} THEN Undecodable ELSE tag_to_key(encodings[Min(decodes)], tag)

\* What the OCI distribution specification allows as a tag.
Legal(tag) ==
  /\ Len(tag) \in 1..128
  /\ tag[1] \in Letters \cup Figures \cup {Underscore}
  /\ \A i \in DOMAIN tag : tag[i] \in Letters \cup Figures \cup {Underscore} \cup Dashes

\* The keys made of 0-9 and a-v alone: their custom tags are base32 tags.
\* No key Nix asks for is one: it holds a `.', a `-' or a `/'.
Plain(key) == \A i \in DOMAIN key : key[i] \in Figures \cup (97..118)

\* What a base32 decoder may accept: the same in either case.
LooksBase32(key) == \A i \in DOMAIN key : Base32Value(key[i]) < 32
=============================================================================
