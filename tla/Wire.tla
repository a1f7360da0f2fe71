-------------------------------- MODULE Wire --------------------------------
(***************************************************************************)
(* The encoding layer of the vendored rustls (msgs/codec.rs, msgs/base.rs, *)
(* msgs/macros.rs).  A wire type is a shape, a record built by the         *)
(* constructors below; Encode and Read interpret shapes the way the        *)
(* `Codec` implementations are written.  A byte is a number below 256, a   *)
(* structure is the tuple of its fields, an option is <<>> or <<v>>, and   *)
(* numbers of four and more bytes are kept as their bytes.                 *)
(***************************************************************************)
EXTENDS Integers, Sequences, SequencesExt

(* What `read` returns: the value and what is left of the reader. *)
Fail == [ok |-> FALSE, v |-> <<>>, rest |-> <<>>]
Got(v, rest) == [ok |-> TRUE, v |-> v, rest |-> rest]

(* The `?` operator: go on with the value and the rest, or fail. *)
Then(r, F(_, _)) == IF r.ok THEN F(r.v, r.rest) ELSE Fail

(* `to_be_bytes` after `as u8`, `as u16`, or of a u24: high digits are lost. *)
BigEndian(n, x) == [i \in 1..n |-> (x \div 256^(n - i)) % 256]

(* `from_be_bytes` *)
Number(b) == FoldLeft(LAMBDA acc, d : 256 * acc + d, 0, b)

(* Reader::take, Reader::sub *)
Take(b, n) ==
    IF Len(b) < n THEN Fail ELSE Got(SubSeq(b, 1, n), SubSeq(b, n + 1, Len(b)))

(* Shapes. *)
Num(n) == [k |-> "num", n |-> n]
Raw(n) == [k |-> "raw", n |-> n]
Payload == [k |-> "rest"]
PayloadU8 == [k |-> "opaque", n |-> 1]
PayloadU16 == [k |-> "opaque", n |-> 2]
PayloadU24 == [k |-> "opaque", n |-> 3]
AtMost(max, T) == [k |-> "most", max |-> max, of |-> T]    \* a value of at most max bytes
Named(T) == [k |-> "name", of |-> T]                      \* bytes that are a DNS name
ListU8(T) == [k |-> "list", n |-> 1, max |-> 255, of |-> T]
ListU16(T) == [k |-> "list", n |-> 2, max |-> 65535, of |-> T]
ListU24(max, T) == [k |-> "list", n |-> 3, max |-> max, of |-> T]
Struct(fs) == [k |-> "struct", of |-> fs]
Empty == Struct(<<>>)
Tagged(n, cases, other) == [k |-> "tagged", n |-> n, of |-> cases, other |-> other]
Exactly(bytes) == [k |-> "exactly", is |-> bytes]
Sized(n, T) == [k |-> "sized", n |-> n, of |-> T]         \* a sub-reader read to its end
IfAny(T) == [k |-> "tail", of |-> T]                      \* left out when empty
Flag(T) == [k |-> "flag", of |-> T]                       \* Option behind a 0/1 byte
Filled(T) == [k |-> "filled", of |-> T]                   \* an empty list is refused
Whole(T) == [k |-> "whole", of |-> T]                     \* nothing may follow

(* enum_builder!: unknown ordinals are kept, so a value is its number. *)
U8Enum == Num(1)
U16Enum == Num(2)

(* Reader::expect_empty *)
ExpectEmpty(r) == IF r.ok /\ r.rest = <<>> THEN r ELSE Fail

(* Bytes that DnsName::try_from accepts. *)
LetterDigitHyphen == (48..57) \union (65..90) \union (97..122) \union {45, 95}
DnsName(b) ==
    /\ Len(b) \in 1..253
    /\ \A i \in 1..Len(b) : b[i] \in LetterDigitHyphen \union {46}
    /\ Head(b) # 46 /\ (b[Len(b)] = 46 => Len(b) > 1)

(* A list length cut one byte early. *)
ListLength_OffByOne(T, len) == IF len < T.max THEN len ELSE T.max - 1

(* Vec::read: a length above the limit of the list is read as the limit. *)
ListLength(T, len) == IF len < T.max THEN len ELSE T.max

RECURSIVE Encode(_, _)
(* The shape a tagged value takes, <<>> for a tag that is refused. *)
CaseOf(T, tag) == IF tag \in DOMAIN T.of THEN <<T.of[tag]>> ELSE T.other

(* A length in front of what has been written: LengthPrefixedBuffer. *)
Prefixed(n, body) == BigEndian(n, Len(body)) \o body

Encode(T, v) ==
    CASE T.k = "num" -> BigEndian(T.n, v)
      [] T.k \in {"raw", "rest"} -> v
      [] T.k = "opaque" -> Prefixed(T.n, v)
      [] T.k \in {"most", "name", "filled", "whole"} -> Encode(T.of, v)
      [] T.k = "list" -> Prefixed(T.n, FlattenSeq([i \in 1..Len(v) |-> Encode(T.of, v[i])]))
      [] T.k = "struct" -> FlattenSeq([i \in 1..Len(T.of) |-> Encode(T.of[i], v[i])])
      [] T.k = "tagged" -> BigEndian(T.n, v[1]) \o Encode(CaseOf(T, v[1])[1], v[2])
      [] T.k = "exactly" -> T.is
      [] T.k = "sized" -> Prefixed(T.n, Encode(T.of, v))
      [] T.k = "tail" -> IF v = <<>> THEN <<>> ELSE Encode(T.of, v)
      [] T.k = "flag" -> IF v = <<>> THEN <<0>> ELSE <<1>> \o Encode(T.of, v[1])

RECURSIVE Read(_, _), ReadItems(_, _, _)
(* Numbers of n bytes each, to the end of the sub-reader. *)
ReadNumbers(n, b) ==
    IF Len(b) % n # 0 THEN Fail
    ELSE Got([i \in 1..(Len(b) \div n) |-> Number(SubSeq(b, n * (i - 1) + 1, n * i))], <<>>)

(* The loop of Vec::read: items until the sub-reader is at its end. *)
ReadItems(T, b, acc) ==
    IF T.k = "num" THEN ReadNumbers(T.n, b)
    ELSE IF b = <<>> THEN Got(acc, <<>>)
    ELSE Then(Read(T, b), LAMBDA x, rest : ReadItems(T, rest, Append(acc, x)))

ReadOpaque(n, b) == Then(Take(b, n), LAMBDA len, rest : Take(rest, Number(len)))

ReadList(T, b) ==
    Then(Take(b, T.n), LAMBDA len, rest :
        Then(Take(rest, ListLength(T, Number(len))), LAMBDA sub, after :
            Then(ReadItems(T.of, sub, <<>>), LAMBDA items, none : Got(items, after))))

ReadStruct(fs, b) ==
    FoldLeft(LAMBDA r, T : Then(r, LAMBDA vs, rest :
                 Then(Read(T, rest), LAMBDA x, after : Got(Append(vs, x), after))),
             Got(<<>>, b), fs)

ReadTagged(T, b) ==
    Then(Take(b, T.n), LAMBDA tag, rest :
        LET shape == CaseOf(T, Number(tag))
        IN IF shape = <<>> THEN Fail
           ELSE Then(Read(shape[1], rest), LAMBDA x, after : Got(<<Number(tag), x>>, after)))

(* A sized structure that ignores what its reader leaves over. *)
ReadSized_Lenient(T, b) ==
    Then(ReadOpaque(T.n, b), LAMBDA sub, after :
        Then(Read(T.of, sub), LAMBDA x, left : Got(x, after)))

ReadSized(T, b) ==
    Then(ReadOpaque(T.n, b), LAMBDA sub, after :
        Then(ExpectEmpty(Read(T.of, sub)), LAMBDA x, none : Got(x, after)))

(* Keep what was read only when it passes a check. *)
Checked(r, P(_)) == IF r.ok THEN IF P(r.v) THEN r ELSE Fail ELSE Fail

Read(T, b) ==
    CASE T.k = "num" -> Then(Take(b, T.n), LAMBDA x, rest : Got(Number(x), rest))
      [] T.k = "raw" -> Take(b, T.n)
      [] T.k = "rest" -> Got(b, <<>>)
      [] T.k = "opaque" -> ReadOpaque(T.n, b)
      [] T.k = "most" -> Checked(Read(T.of, b), LAMBDA x : Len(x) <= T.max)
      [] T.k = "name" -> Checked(Read(T.of, b), DnsName)
      [] T.k = "filled" -> Checked(Read(T.of, b), LAMBDA x : x # <<>>)
      [] T.k = "list" -> ReadList(T, b)
      [] T.k = "struct" -> ReadStruct(T.of, b)
      [] T.k = "tagged" -> ReadTagged(T, b)
      [] T.k = "exactly" -> Then(Checked(Take(b, Len(T.is)), LAMBDA x : x = T.is),
                                 LAMBDA x, rest : Got(<<>>, rest))
      [] T.k = "sized" -> ReadSized(T, b)
      [] T.k = "tail" -> IF b = <<>> THEN Got(<<>>, b) ELSE Read(T.of, b)
      [] T.k = "flag" -> Then(Take(b, 1), LAMBDA x, rest :
                             IF x # <<1>> THEN Got(<<>>, rest)
                             ELSE Then(Read(T.of, rest), LAMBDA y, after : Got(<<y>>, after)))
      [] T.k = "whole" -> ExpectEmpty(Read(T.of, b))
=============================================================================
