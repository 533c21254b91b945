------------------------------- MODULE KvShape -------------------------------
(***************************************************************************)
(* The arithmetic of the KV cache format: expected_blob_bytes of shape.rs, *)
(* encode and decode of blob.rs and the size check of read_kv_cache.  u32  *)
(* fields and u64 words are scaled down, words to WordSize values; a debug *)
(* build panics where a release build wraps.  A blob section is its length *)
(* and the numbers decode reads from it.                                   *)
(***************************************************************************)
EXTENDS Naturals, Sequences, SequencesExt, FiniteSets

CONSTANTS
    Dims,        \* values of num_layers, n_kv_heads, head_dim and num_tokens
    GroupSizes,  \* values of group_size
    BitWidths,   \* values of bits
    Lengths,     \* lengths found in, or given to be put into, a blob section
    WordSize     \* 2^w for words of w bits

ASSUME FieldsAreNat ==
    /\ Dims \subseteq Nat /\ GroupSizes \subseteq Nat /\ BitWidths \subseteq Nat
ASSUME LengthsAreWords ==
    WordSize \in Nat \ {0} /\ Lengths \subseteq 0 .. WordSize - 1

\* Bytes of logits_present, of a length field, and of both.
FlagBytes == 1
LengthBytes == 1
BlobHeader == FlagBytes + LengthBytes

Absent == [some |-> FALSE]
Some(x) == [some |-> TRUE, is |-> x]
Quants == {Absent} \cup {Some(q) : q \in [group_size : GroupSizes, bits : BitWidths]}
Shapes == [num_layers : Dims, n_kv_heads : Dims, head_dim : Dims, num_tokens : Dims,
           element_bytes : {1, 2}, quant : Quants]
Sections == [logits_present : 0 .. 2, kv_len : Lengths, logits_len : Lengths, len : Lengths]
None == [kind |-> "none"]

VARIABLES
    build,     \* "debug" or "release"
    shape,     \* the shape section
    blob,      \* the blob section, or None
    given,     \* history: what write_kv_cache was given, or Absent
    outcome    \* of read_kv_cache

vars == <<build, shape, blob, given, outcome>>

------------------------------------------------------------------------------
\* The running products of a chain of multiplications, from the left.
Running(factors) ==
    LET p[k \in 1 .. Len(factors)] == IF k = 1 THEN factors[1] ELSE p[k - 1] * factors[k]
    IN p

Product(factors) == Running(factors)[Len(factors)]
Chain(factors) == {Running(factors)[k] : k \in 1 .. Len(factors)}

\* The factors of expected_blob_bytes: of the whole of a plain cache, of the
\* packed elements of a quantized one, and of its elements.
Plain(s) == <<s.num_layers, s.n_kv_heads, s.head_dim, s.num_tokens, s.element_bytes, 2>>
Bits(s) == <<s.n_kv_heads, s.num_tokens, s.head_dim, s.quant.is.bits>>
Elements(s) == <<s.n_kv_heads, s.num_tokens, s.head_dim>>

\* expected_blob_bytes in words that wrap.
Packed(s) == (Product(Bits(s)) % WordSize) \div 8

\* Mutant of Groups: the tokens share them.
Groups_OneToken(s) == ((s.n_kv_heads * s.head_dim) % WordSize) \div s.quant.is.group_size

Groups(s) == (Product(Elements(s)) % WordSize) \div s.quant.is.group_size
Scales(s) == (Groups(s) * s.element_bytes) % WordSize

\* Mutant of PerKv: the scales but not the biases.
PerKv_NoBiases(s) == (Packed(s) + Scales(s)) % WordSize

PerKv(s) == (Packed(s) + 2 * Scales(s)) % WordSize
Layers(s) == <<s.num_layers, 2, PerKv(s)>>

ExpectedBlobBytes(s) ==
    Product(IF s.quant.some THEN Layers(s) ELSE Plain(s)) % WordSize

\* What each operation comes to before it is cut to a word.
Intermediates(s) ==
    IF ~s.quant.some THEN Chain(Plain(s))
    ELSE Chain(Bits(s)) \cup Chain(Elements(s)) \cup Chain(Layers(s))
           \cup {Groups(s) * s.element_bytes, 2 * Scales(s), Packed(s) + 2 * Scales(s)}

\* "/ group_size" is evaluated, and panics in every build, with a zero there.
DividesByZero(s) == s.quant.some /\ s.quant.is.group_size = 0

Overflows(s) == ~DividesByZero(s) /\ \E x \in Intermediates(s) : x >= WordSize

------------------------------------------------------------------------------
\* blob::encode
Encode(kv, logits) ==
    [logits_present |-> IF logits.some THEN 1 ELSE 0,
     kv_len |-> kv,
     logits_len |-> IF logits.some THEN logits.is ELSE 0,
     len |-> BlobHeader + kv + IF logits.some THEN LengthBytes + logits.is ELSE 0]

Malformed == [kind |-> "Malformed"]
Panics == [kind |-> "panic"]
Parsed(kv, logits) == [kind |-> "ok", kv |-> kv, logits |-> logits]

\* Mutant of Decode: what follows the kv bytes is not looked at.
Decode_TrailingBytes(b) ==
    IF b.len < BlobHeader THEN Malformed
    ELSE IF b.len < BlobHeader + b.kv_len THEN Malformed
    ELSE Parsed(b.kv_len, IF b.logits_present = 1 THEN Some(b.logits_len) ELSE Absent)

\* blob::decode.  In a debug build 9 + kv_len panics when it overflows; in a
\* release build it wraps to less than 9 and the slice [9..] to it panics.
\* The second sum fails its comparison where it wraps.
Decode(b) ==
    LET cursor == BlobHeader + b.kv_len
        logitsEnd == cursor + LengthBytes + b.logits_len
    IN IF b.len < BlobHeader THEN Malformed
       ELSE IF cursor >= WordSize THEN Panics
       ELSE IF b.len < cursor THEN Malformed
       ELSE CASE b.logits_present = 0 ->
                   IF b.len = cursor THEN Parsed(b.kv_len, Absent) ELSE Malformed
              [] b.logits_present = 1 ->
                   IF b.len < cursor + LengthBytes THEN Malformed
                   ELSE IF logitsEnd >= WordSize /\ build = "debug" THEN Panics
                   ELSE IF b.len # logitsEnd % WordSize THEN Malformed
                   ELSE Parsed(b.kv_len, Some(b.logits_len))
              [] OTHER -> Malformed

\* Mutant of CheckSize: a blob that is long enough passes.
CheckSize_AtLeast(s, parsed) ==
    IF DividesByZero(s) \/ (Overflows(s) /\ build = "debug") THEN Panics
    ELSE IF parsed.kv < ExpectedBlobBytes(s) THEN Malformed
    ELSE parsed

\* kv_blob.len() against shape.expected_blob_bytes()
CheckSize(s, parsed) ==
    IF DividesByZero(s) \/ (Overflows(s) /\ build = "debug") THEN Panics
    ELSE IF parsed.kv # ExpectedBlobBytes(s) THEN Malformed
    ELSE parsed

------------------------------------------------------------------------------
\* What the tensors of the cache take: K and V of each layer, and in a
\* quantized cache a scale and a bias for each group, counted one by one.
TensorBytes(s) ==
    LET heads == (({0, 1} \X (1 .. s.num_layers)) \X (1 .. s.n_kv_heads)) \X (1 .. s.num_tokens)
        dims(n) == Cardinality(heads \X (1 .. n))
    IN IF ~s.quant.some THEN dims(s.head_dim) * s.element_bytes
       ELSE LET q == s.quant.is IN
            (dims(s.head_dim) * q.bits) \div 8
              + 2 * dims(s.head_dim \div q.group_size) * s.element_bytes

\* The group size divides the head dimension, as the formula in the doc of
\* expected_blob_bytes has it, and the packed elements fill whole bytes.
Even(s) ==
    s.quant.some =>
        /\ s.quant.is.group_size # 0
        /\ s.head_dim % s.quant.is.group_size = 0
        /\ (s.head_dim * s.quant.is.bits) % 8 = 0

Init ==
    /\ build \in {"debug", "release"}
    /\ shape \in Shapes
    /\ blob = None
    /\ given = Absent
    /\ outcome = None

\* write_kv_cache puts into the file what it is given, unjudged.
Write(kv, logits) ==
    /\ blob = None
    /\ BlobHeader + kv + LengthBytes + (IF logits.some THEN logits.is ELSE 0) < WordSize
    /\ given' = Some([kv |-> kv, logits |-> logits])
    /\ blob' = Encode(kv, logits)
    /\ UNCHANGED <<build, shape, outcome>>

\* A section another writer put together, its CRCs in order.
Foreign(b) ==
    /\ blob = None
    /\ blob' = b
    /\ UNCHANGED <<build, shape, given, outcome>>

\* read_kv_cache from blob::decode on.
Read ==
    /\ blob # None /\ outcome = None
    /\ outcome' = LET parsed == Decode(blob)
                  IN IF parsed.kind = "ok" THEN CheckSize(shape, parsed) ELSE parsed
    /\ UNCHANGED <<build, shape, blob, given>>

\* Lengths a Vec can have, those that fit the shape among them.
KvLengths ==
    Lengths \cup (IF DividesByZero(shape) THEN {}
                  ELSE {TensorBytes(shape), ExpectedBlobBytes(shape)} \cap 0 .. WordSize - 1)
Logits == {Absent} \cup {Some(n) : n \in Lengths}

Next ==
    \/ \E kv \in KvLengths, logits \in Logits : Write(kv, logits)
    \/ \E b \in Sections : Foreign(b)
    \/ Read

Spec == Init /\ [][Next]_vars

------------------------------------------------------------------------------
\* A blob the reader hands out is exactly as long as the tensors its shape
\* describes: "LLM inference fed a wrong-sized KV produces silent garbage"
\* (kv_cache/read.rs:107-111).  It says nothing of sizes that leave the word
\* (Overflows) and of group sizes that do not divide head_dim (Even), of which
\* LeftoversShareGroups speaks.
AcceptedFits ==
    outcome.kind = "ok" /\ Even(shape) /\ ~Overflows(shape) =>
        outcome.kv = TensorBytes(shape)

\* What write_kv_cache was given is read back, blob and logits unchanged, if
\* the blob holds the tensors; if it does not, the reader refuses it (the two
\* sides of tests/kv_cache_size_validation.rs).  Group sizes that do not divide
\* head_dim (Even) and sizes that leave the word (Overflows) are left out here too.
WrittenIsRead ==
    outcome # None /\ given.some /\ Even(shape) /\ ~Overflows(shape) =>
        outcome = IF given.is.kv = TensorBytes(shape)
                    THEN Parsed(given.is.kv, given.is.logits)
                    ELSE Malformed

\* The reader accepts no blob section but the one encoding of what it returns:
\* no bytes before, between or after are passed over (blob.rs:51-85).
AcceptedIsCanonical ==
    outcome.kind = "ok" =>
        LET canonical == Encode(outcome.kv, outcome.logits)
        IN /\ blob.len = canonical.len
           /\ blob.logits_present = canonical.logits_present

\* The division by the group size runs over all elements of a layer at once
\* (shape.rs:127), where the doc has it per head and token (shape.rs:112): where it
\* leaves a rest, the rests share groups.  So an accepted blob has every scale and
\* bias of the doc's formula, and at most one more of each for each head and token;
\* it has none more where there is no rest.
LeftoversShareGroups ==
    /\ outcome.kind = "ok" /\ shape.quant.some /\ ~Overflows(shape)
    /\ (shape.head_dim * shape.quant.is.bits) % 8 = 0
    => LET heads == 2 * shape.num_layers * shape.n_kv_heads * shape.num_tokens
           most == IF shape.head_dim % shape.quant.is.group_size = 0 THEN 0 ELSE heads
       IN \E groups \in 0 .. most :
             outcome.kv = TensorBytes(shape) + 2 * groups * shape.element_bytes
==============================================================================
