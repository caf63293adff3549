-------------------------------- MODULE Wire --------------------------------
(***************************************************************************)
(* The part of the protocol buffers library that the generated code of     *)
(* test.pb.cc calls.  A message is a function from the names of the fields *)
(* that are set (their has-bits) to their values; a packet is a sequence   *)
(* of tokens, one for each field written, that knows how many bytes it     *)
(* takes.  A float is a symbol, a string is its length.                    *)
(***************************************************************************)
EXTENDS Integers, Sequences, SequencesExt, TLC

Int32 == {v \in Int : v >= -2147483647 - 1 /\ v <= 2147483647}

\* A message of which nothing is set.
Unset == [f \in {} |-> f]

\* f, and g where f says nothing: @@ of module TLC, spelled out for the proofs.
f ++ g == [x \in DOMAIN f \cup DOMAIN g |-> IF x \in DOMAIN f THEN f[x] ELSE g[x]]

\* A message of which field f alone is set.
Field(f, v) == [g \in {f} |-> v]

\* A function, of the fields that are set.
IsMessage(m) == m = [f \in DOMAIN m |-> m[f]]

\* A message whose set fields hold values of their types.
HasFields(m, types) ==
  /\ IsMessage(m)
  /\ DOMAIN m \subseteq DOMAIN types
  /\ \A f \in DOMAIN m : m[f] \in types[f]

\* What the getters give: a field that is not set reads as its default.
View(m, default) == m ++ default

Each(s, F(_)) == [i \in DOMAIN s |-> F(s[i])]

\* A varint holds seven bits a byte: below these, one to four bytes will do.
\* A negative int32 is extended to 64 bits.
VarintLimit == <<128, 16384, 2097152, 268435456>>

VarintSize(v) ==
  IF v < 0 THEN 10
  ELSE CHOOSE n \in 1 .. 5 :
         /\ n = 5 \/ v < VarintLimit[n]
         /\ n = 1 \/ v >= VarintLimit[n - 1]

Total(sizes) ==
  LET sum[n \in 0 .. Len(sizes)] == IF n = 0 THEN 0 ELSE sum[n - 1] + sizes[n]
  IN sum[Len(sizes)]

\* Every field number here is below 16, so that a tag takes one byte.
Token(n, type, v, size) == [number |-> n, type |-> type, value |-> v, size |-> 1 + size]

Bytes(tokens) == Total([i \in 1 .. Len(tokens) |-> tokens[i].size])

-----------------------------------------------------------------------------
(* What is written for field f of message m under number n. *)

WriteInt32(m, f, n) ==
  IF f \in DOMAIN m THEN <<Token(n, "varint", m[f], VarintSize(m[f]))>> ELSE <<>>

WriteEnum(m, f, n) == WriteInt32(m, f, n)

WriteBool(m, f, n) ==
  IF f \in DOMAIN m THEN <<Token(n, "varint", IF m[f] THEN 1 ELSE 0, 1)>> ELSE <<>>

WriteFloat(m, f, n) ==
  IF f \in DOMAIN m THEN <<Token(n, "fixed32", m[f], 4)>> ELSE <<>>

WriteString(m, f, n) ==
  IF f \in DOMAIN m
  THEN <<Token(n, "delimited", m[f], VarintSize(m[f]) + m[f])>> ELSE <<>>

\* The length comes from the size ByteSizeLong cached in the part, the bytes
\* from what the part itself writes.
MessageToken(n, part, Serialize(_), ByteSizeLong(_)) ==
  Token(n, "delimited", Serialize(part),
        VarintSize(ByteSizeLong(part)) + Bytes(Serialize(part)))

WriteMessage(m, f, n, Serialize(_), ByteSizeLong(_)) ==
  IF f \in DOMAIN m THEN <<MessageToken(n, m[f], Serialize, ByteSizeLong)>> ELSE <<>>

WriteRepeated(parts, n, Serialize(_), ByteSizeLong(_)) ==
  [i \in 1 .. Len(parts) |-> MessageToken(n, parts[i], Serialize, ByteSizeLong)]

-----------------------------------------------------------------------------
(* What ByteSizeLong adds up. *)

Int32SizePlusOne(m, f) == IF f \in DOMAIN m THEN 1 + VarintSize(m[f]) ELSE 0

FixedSize(m, f, n) == IF f \in DOMAIN m THEN n ELSE 0

LengthDelimitedSize(n) == VarintSize(n) + n

StringSize(m, f) == IF f \in DOMAIN m THEN 1 + LengthDelimitedSize(m[f]) ELSE 0

MessageSize(m, f, ByteSizeLong(_)) ==
  IF f \in DOMAIN m THEN 1 + LengthDelimitedSize(ByteSizeLong(m[f])) ELSE 0

RepeatedSize(parts, ByteSizeLong(_)) ==
  Total([i \in 1 .. Len(parts) |-> 1 + LengthDelimitedSize(ByteSizeLong(parts[i]))])

-----------------------------------------------------------------------------
(* What an entry of a parse table makes of a token.  A token no entry takes *)
(* goes to the unknown fields, which nobody here reads.                     *)

Is(t, n, type) == t.number = n /\ t.type = type

Int32At(t, n, f) == IF Is(t, n, "varint") THEN Field(f, t.value) ELSE Unset
BoolAt(t, n, f) == IF Is(t, n, "varint") THEN Field(f, t.value # 0) ELSE Unset
FloatAt(t, n, f) == IF Is(t, n, "fixed32") THEN Field(f, t.value) ELSE Unset
StringAt(t, n, f) == IF Is(t, n, "delimited") THEN Field(f, t.value) ELSE Unset

EnumAt(t, n, f, values) ==
  IF Is(t, n, "varint") /\ t.value \in values THEN Field(f, t.value) ELSE Unset

MessageAt(t, n, f, Parse(_)) ==
  IF Is(t, n, "delimited") THEN Field(f, Parse(t.value)) ELSE Unset

\* Of a field that comes twice the last value stays.
Merged(reads) ==
  LET merge[n \in 0 .. Len(reads)] ==
        IF n = 0 THEN Unset ELSE reads[n] ++ merge[n - 1]
  IN merge[Len(reads)]

ParseFields(tokens, Read(_)) == Merged([i \in 1 .. Len(tokens) |-> Read(tokens[i])])

\* The tokens of a repeated field, in their order.
Entries(tokens, n) ==
  LET own[k \in 0 .. Len(tokens)] ==
        IF k = 0 THEN <<>>
        ELSE IF Is(tokens[k], n, "delimited") THEN Append(own[k - 1], tokens[k])
        ELSE own[k - 1]
  IN own[Len(tokens)]

ParseRepeated(tokens, n, Parse(_)) ==
  [i \in 1 .. Len(Entries(tokens, n)) |-> Parse(Entries(tokens, n)[i].value)]
=============================================================================
